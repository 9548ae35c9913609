--------------------------- MODULE ExWriterProofs ---------------------------
(***************************************************************************)
(* Theorems about ExWriter, for any archive, any ring and any chunk, with  *)
(* any number of mishaps.                                                  *)
(*                                                                         *)
(* What the decompressor has read of an entry is spread over three places: *)
(* the file, the slots that wait for the writer and the chunk being filled.*)
(* The inductive invariant says that each of them holds blocks of this     *)
(* entry at their offsets (Blended, Queued), that together they are all of *)
(* what is read while nothing has failed (Covered), and that the slot at   *)
(* head is none of those that wait (Shape).  The rest is where the walk    *)
(* stands: which file is open, what a finished entry looks like (Finished) *)
(* and what the counts are good for (Counted, Tallied, Kept).              *)
(***************************************************************************)
EXTENDS ExWriter, SequenceTheorems, TLAPS

Filling == {"read", "put", "progress", "flush"}
Active  == Filling \cup {"begin", "drain", "close"}
Pcs     == Active \cup {"header", "swap", "rename", "count", "stop", "join", "done"}

Entries  == DOMAIN Archive
Chunks   == [data : [1..SlotSz -> Blocks \cup {None}], len : 0..SlotSz, offset : Nat]
\* A file with the blocks of entry i at the offsets D, and nothing else.
Fill(i, D) == [o \in D |-> <<i, o>>]
IsFill(c, i) == DOMAIN c \subseteq Nat /\ c = Fill(i, DOMAIN c)
IsRun(data, i, at, m) == \A j \in 1..m : data[j] = <<i, at + j - 1>>

Types ==
  /\ DOMAIN card \subseteq Paths /\ card = [p \in DOMAIN card |-> card[p]]
  /\ \A p \in DOMAIN card : \E i \in {0} \cup Entries : IsFill(card[p], i)
  /\ src \in BOOLEAN /\ threaded \in BOOLEAN /\ nslots \in Rings
  /\ slots \in [0..nslots - 1 -> Chunks]
  /\ head \in Nat /\ tail \in Nat /\ count \in Nat /\ stop \in BOOLEAN
  /\ f \in Paths \cup {None} /\ pos \in Nat /\ disk_fail \in BOOLEAN
  /\ pc \in Pcs /\ wpc \in {"wait", "write", "pop", "exit"}
  /\ n \in 0..Len(Archive) /\ k \in Nat /\ fill \in 0..SlotSz /\ run_off \in Nat
  /\ ok \in BOOLEAN /\ cancelled \in BOOLEAN /\ incomplete \in BOOLEAN
  /\ done \subseteq 1..n /\ skipped \subseteq 1..n

\* The slot after t + c of N, and the c slots from t on, without remainders.
Place(N, t, c) == IF t + c < N THEN t + c ELSE t + c - N
InRing(N, t, c, s) == IF t + c <= N THEN t <= s /\ s < t + c
                      ELSE t <= s \/ s < t + c - N
Waiting(s) == InRing(nslots, tail, count, s)

Shape ==
  /\ count <= nslots /\ head = Place(nslots, tail, count)
  /\ nslots > 0 => tail < nslots
  /\ nslots = 0 => tail = 0 /\ fill = 0 /\ pc \notin {"flush", "begin"}
  /\ threaded => nslots >= 2
  /\ ~threaded => count = 0 /\ wpc = "exit"
  /\ wpc \in {"write", "pop"} => count > 0
  /\ threaded /\ pc \in Filling => count < nslots
  /\ count > 0 => pc \in Filling \cup {"begin", "drain"}

Walk ==
  /\ pc \in {"read", "put", "progress"} => fill < SlotSz
  /\ pc = "flush" => fill > 0
  /\ pc = "begin" => fill = 0 /\ threaded
  /\ pc \in {"flush", "begin"} => ret \in {"drain", "put", "progress"}
  /\ pc \in Filling \cup {"begin"} => ok
  /\ pc \in Active \cup {"swap", "rename", "count"} => n \in Entries
  /\ (f # None) <=> pc \in Active
  /\ f # None => f \in {Out(n), Tmp(n)} /\ Exists(f)
  /\ f # None /\ f = Tmp(n) => Exists(Out(n))

\* What is in the file, in the slots that wait and in the chunk.
Blended == f # None => IsFill(card[f], n)
Queued ==
  f # None =>
    /\ \A s \in 0..nslots - 1 : Waiting(s) => IsRun(slots[s].data, n, slots[s].offset, slots[s].len)
    /\ fill > 0 => IsRun(slots[head].data, n, run_off, fill)

Run(s)  == slots[s].offset .. slots[s].offset + slots[s].len - 1
\* How many blocks of the entry have been put; a block read waits for its turn.
Held    == pc = "put" \/ (pc \in {"flush", "begin"} /\ ret = "put")
PutSoFar == IF Held THEN k - 1 ELSE k
Placed(o) == \/ o \in DOMAIN card[f]
             \/ \E s \in 0..nslots - 1 : Waiting(s) /\ o \in Run(s)
             \/ o \in run_off .. run_off + fill - 1
Covered ==
  /\ f # None => k <= Len(Archive[n].at) /\ (Held => k > 0)
  /\ f # None /\ ok /\ ~disk_fail =>
       \A o \in Nat : Placed(o) <=> \E j \in 1..PutSoFar : Archive[n].at[j] = o
  /\ wpc = "pop" /\ ~disk_fail => \A o \in Run(tail) : o \in DOMAIN card[f]
  /\ pc \in {"flush", "begin"} /\ ret = "drain" => k = Len(Archive[n].at)
  /\ pc \in {"drain", "close"} /\ ok => fill = 0 /\ k = Len(Archive[n].at)
  /\ pc = "close" /\ ok => ~disk_fail

Finished ==
  /\ pc = "swap" => Exists(Tmp(n)) /\ card[Tmp(n)] = Whole(n) /\ Exists(Out(n))
  /\ pc = "rename" => Exists(Tmp(n)) /\ card[Tmp(n)] = Whole(n) /\ ~Exists(Out(n))
  /\ pc = "count" => Exists(Out(n)) /\ card[Out(n)] = Whole(n)

Unpacked(i) == Exists(Out(i)) /\ \E j \in Entries :
                 Archive[j].name = Archive[i].name /\ card[Out(i)] = Whole(j)
Counted ==
  ~(RenameFails /\ incomplete) =>
    \A i \in done : \/ pc = "rename" /\ Out(i) = Out(n)
                    \/ f # Out(i) /\ Unpacked(i)

Tallied ==
  ~incomplete =>
    /\ \A i \in 1..n : \/ i \in skipped \cup done
                       \/ i = n /\ pc \in Active \cup {"swap", "rename", "count"}
    /\ pc \in {"stop", "join", "done"} => n = Len(Archive)

Kept == ~src => /\ pc = "done"
                /\ \A i \in Entries \ skipped : Unpacked(i)

IInv == /\ Types /\ Shape /\ Walk /\ Blended /\ Queued /\ Covered
        /\ Finished /\ Counted /\ Tallied /\ Kept

\* The tuples of variables.
USE DEF disk, mode, ring, file, chunk, entry, tally, vars, Mishap, Smoothly,
        Exists, Entries, Filling, Active, Pcs

-----------------------------------------------------------------------------
(* Names, files and chunks *)

LEMMA Constants ==
  /\ Rings \subseteq Nat /\ SlotSz \in Nat \ {0} /\ RenameFails \in BOOLEAN
  /\ Entries = 1..Len(Archive) /\ Len(Archive) \in Nat
  /\ \A i \in Entries : Archive[i].at \in Seq(Nat) /\ Archive[i].name \in Names
<1>1. Archive \in Seq([name : Names, at : Seq(Nat)]) BY ExWriterAssumption
<1>2. DOMAIN Archive = 1..Len(Archive) /\ Len(Archive) \in Nat BY <1>1
<1>3. \A i \in 1..Len(Archive) : Archive[i] \in [name : Names, at : Seq(Nat)]
  <2> DEFINE S == [name : Names, at : Seq(Nat)]
  <2>1. Archive \in Seq(S) BY <1>1
  <2> HIDE DEF S
  <2>2. \A i \in 1..Len(Archive) : Archive[i] \in S BY <2>1
  <2> QED BY <2>2 DEF S
<1>4. \A i \in 1..Len(Archive) : Archive[i].at \in Seq(Nat) /\ Archive[i].name \in Names BY <1>3
<1> QED BY <1>2, <1>4, ExWriterAssumption

LEMMA PathFacts ==
  /\ \A i \in Entries : Out(i) \in Paths /\ Tmp(i) \in Paths
  /\ \A i, j : Out(i) # Tmp(j)
  /\ \A i, j : Out(i) = Out(j) <=> Archive[i].name = Archive[j].name
  /\ \A i, j : Tmp(i) = Tmp(j) <=> Archive[i].name = Archive[j].name
  /\ None \notin Paths
BY Constants, ExWriterAssumption DEF Out, Tmp, Paths

\* A file filled with an entry's blocks at all the entry's offsets is whole.
LEMMA FilledIsWhole ==
  ASSUME NEW i \in Entries, NEW c, IsFill(c, i),
         \A o \in Nat : o \in DOMAIN c <=> \E j \in 1..Len(Archive[i].at) : Archive[i].at[j] = o
  PROVE  c = Whole(i)
<1>1. Archive[i].at \in Seq(Nat) BY Constants
<1>2. Range(Archive[i].at) = {Archive[i].at[j] : j \in 1..Len(Archive[i].at)} BY <1>1 DEF Range
<1>3. \A j \in 1..Len(Archive[i].at) : Archive[i].at[j] \in Nat BY <1>1
<1>4. DOMAIN c \subseteq Nat BY DEF IsFill
<1>5. DOMAIN c = Range(Archive[i].at) BY <1>2, <1>3, <1>4
<1> QED BY <1>5 DEF IsFill, Fill, Whole

LEMMA NothingIsFill == \A i : IsFill(<<>>, i) /\ DOMAIN <<>> = {}
<1>1. DOMAIN <<>> = {} OBVIOUS
<1>2. \A i : <<>> = [o \in {} |-> <<i, o>>] OBVIOUS
<1> QED BY <1>1, <1>2 DEF IsFill, Fill

\* An older file has none of the archive's blocks.
LEMMA OlderIsNoFill ==
  ASSUME NEW i \in Entries
  PROVE  ~IsFill(Older, i) /\ IsFill(Older, 0)
<1>1. i # 0 BY Constants
<1>2. DOMAIN Older = {0} /\ Older[0] = <<0, 0>> BY DEF Older
<1>3. 0 \in {0} /\ Fill(i, {0})[0] = <<i, 0>> BY DEF Fill
<1>4. ~IsFill(Older, i) BY <1>1, <1>2, <1>3 DEF IsFill
<1>5. IsFill(Older, 0)
  <2>1. Older = Fill(0, {0}) BY DEF Older, Fill
  <2> QED BY <2>1, <1>2 DEF IsFill
<1> QED BY <1>4, <1>5

LEMMA WholeIsFill ==
  ASSUME NEW i \in Entries
  PROVE  IsFill(Whole(i), i)
<1>1. Archive[i].at \in Seq(Nat) BY Constants
<1>2. Range(Archive[i].at) \subseteq Nat BY <1>1 DEF Range
<1>3. DOMAIN Whole(i) = Range(Archive[i].at) BY DEF Whole
<1> QED BY <1>2, <1>3 DEF IsFill, Fill, Whole

\* Writing a run of blocks adds their offsets and nothing else.
LEMMA OverlayOfRun ==
  ASSUME NEW i, NEW c, IsFill(c, i), NEW at \in Nat, NEW data, Len(data) \in Nat,
         IsRun(data, i, at, Len(data))
  PROVE  /\ IsFill(Overlay(c, data, at), i)
         /\ \A o : o \in DOMAIN Overlay(c, data, at)
                     <=> o \in DOMAIN c \/ o \in at .. at + Len(data) - 1
<1> DEFINE new == at .. at + Len(data) - 1
           d   == Overlay(c, data, at)
<1>1. d = [o \in DOMAIN c \cup new |-> IF o \in new THEN data[o - at + 1] ELSE c[o]]
  BY DEF Overlay
<1>2. DOMAIN c \subseteq Nat /\ \A o \in DOMAIN c : c[o] = <<i, o>> BY DEF IsFill, Fill
<1>3. \A o \in new : o \in Nat /\ data[o - at + 1] = <<i, o>>
  <2> SUFFICES ASSUME NEW o \in new PROVE o \in Nat /\ data[o - at + 1] = <<i, o>> OBVIOUS
  <2>1. o \in Nat /\ o - at + 1 \in 1..Len(data) /\ at + (o - at + 1) - 1 = o OBVIOUS
  <2> QED BY <2>1 DEF IsRun
<1> HIDE DEF new, d
<1>4. DOMAIN d = DOMAIN c \cup new BY <1>1
<1>5. d = [o \in DOMAIN d |-> <<i, o>>] BY <1>1, <1>2, <1>3, <1>4
<1>6. DOMAIN d \subseteq Nat BY <1>2, <1>3, <1>4
<1> QED BY <1>4, <1>5, <1>6 DEF IsFill, Fill, new, d

\* The blocks that leave a slot.
LEMMA SlotData ==
  ASSUME NEW data, NEW i, NEW at, NEW m \in Nat, IsRun(data, i, at, m),
         NEW S, \A j \in 1..m : data[j] \in S
  PROVE  /\ Len(SubSeq(data, 1, m)) = m
         /\ IsRun(SubSeq(data, 1, m), i, at, m)
<1>1. /\ Len(SubSeq(data, 1, m)) = IF 1 <= m THEN m - 1 + 1 ELSE 0
      /\ \A j \in 1 .. m - 1 + 1 : SubSeq(data, 1, m)[j] = data[1 + j - 1]
  BY SubSeqProperties
<1> QED BY <1>1 DEF IsRun

-----------------------------------------------------------------------------
(* The ring *)

LEMMA NextSlot ==
  ASSUME NEW N \in Nat, NEW t \in 0..N - 1
  PROVE  (t + 1) % N = IF t + 1 = N THEN 0 ELSE t + 1
OBVIOUS

LEMMA EmptyRing == \A N \in Nat : Place(N, 0, 0) = 0
BY DEF Place

\* One more slot waits: the one at head, which did not.
LEMMA RingGrows ==
  ASSUME NEW N \in Nat \ {0}, NEW t \in 0..N - 1, NEW c \in 0..N - 1
  PROVE  /\ Place(N, t, c) \in 0..N - 1
         /\ ~InRing(N, t, c, Place(N, t, c))
         /\ Place(N, t, c + 1) = (Place(N, t, c) + 1) % N
         /\ \A s \in 0..N - 1 : InRing(N, t, c + 1, s) <=> InRing(N, t, c, s) \/ s = Place(N, t, c)
<1>1. Place(N, t, c) \in 0..N - 1 BY DEF Place
<1>2. (Place(N, t, c) + 1) % N = IF Place(N, t, c) + 1 = N THEN 0 ELSE Place(N, t, c) + 1
  BY <1>1, NextSlot
<1>3. Place(N, t, c + 1) = (Place(N, t, c) + 1) % N BY <1>2 DEF Place
<1> QED BY <1>1, <1>3 DEF Place, InRing

\* One less does: the one at tail, which did.
LEMMA RingShrinks ==
  ASSUME NEW N \in Nat \ {0}, NEW t \in 0..N - 1, NEW c \in 1..N
  PROVE  LET u == (t + 1) % N IN
         /\ u \in 0..N - 1 /\ InRing(N, t, c, t)
         /\ Place(N, u, c - 1) = Place(N, t, c)
         /\ \A s \in 0..N - 1 : InRing(N, t, c, s) <=> InRing(N, u, c - 1, s) \/ s = t
<1> DEFINE u == (t + 1) % N
<1>1. u = IF t + 1 = N THEN 0 ELSE t + 1 BY NextSlot
<1> HIDE DEF u
<1> QED BY <1>1 DEF Place, InRing, u

-----------------------------------------------------------------------------
(* The start, and the start after a power cut *)

LEMMA BlankIsChunk == Blank \in Chunks
BY Constants DEF Blank, Chunks

LEMMA Start == Init => IInv
<1> SUFFICES ASSUME Init PROVE IInv OBVIOUS
<1> USE DEF Init
<1>1. /\ DOMAIN card \subseteq Paths /\ card = [p \in DOMAIN card |-> card[p]]
      /\ \A p \in DOMAIN card : card[p] = Older
  BY ExWriterAssumption DEF Paths
<1>2. \A p \in DOMAIN card : \E i \in {0} \cup Entries : IsFill(card[p], i)
  <2>1. IsFill(Older, 0)
    <3>1. Older = Fill(0, {0}) /\ DOMAIN Older = {0} BY DEF Older, Fill
    <3> QED BY <3>1 DEF IsFill
  <2> QED BY <1>1, <2>1
<1>3. slots \in [0..nslots - 1 -> Chunks] BY BlankIsChunk
<1>4. nslots \in Nat BY Constants
<1>5. Types
  <2>1. 0 \in 0..Len(Archive) /\ 0 \in 0..SlotSz BY Constants
  <2>2. done \subseteq 1..n /\ skipped \subseteq 1..n OBVIOUS
  <2>3. wpc \in {"wait", "write", "pop", "exit"} OBVIOUS
  <2> QED BY <1>1, <1>2, <1>3, <2>1, <2>2, <2>3 DEF Types
<1>6. Shape BY <1>4 DEF Shape, Place
<1>7. Walk BY DEF Walk
<1>8. Blended /\ Queued BY DEF Blended, Queued
<1>9. Covered BY DEF Covered, Held
<1>10. Finished /\ Counted /\ Tallied /\ Kept BY DEF Finished, Counted, Tallied, Kept
<1> QED BY <1>5, <1>6, <1>7, <1>8, <1>9, <1>10 DEF IInv

LEMMA AgainStep ==
  ASSUME IInv, Again
  PROVE  IInv'
<1> USE DEF Again
<1>0. Types /\ Kept BY DEF IInv
<1>1. card' = card /\ src' = src OBVIOUS
<1>2. src BY <1>0 DEF Kept, Types
<1>3. slots' \in [0..nslots' - 1 -> Chunks] BY BlankIsChunk
<1>4. nslots' \in Nat BY Constants
<1>5. Types'
  <2>1. 0 \in 0..Len(Archive) /\ 0 \in 0..SlotSz BY Constants
  <2>2. done' \subseteq 1..n' /\ skipped' \subseteq 1..n' OBVIOUS
  <2>3. wpc' \in {"wait", "write", "pop", "exit"} OBVIOUS
  <2> QED BY <1>0, <1>1, <1>3, <2>1, <2>2, <2>3 DEF Types
<1>6. Shape'
  <2>1. /\ head' = 0 /\ tail' = 0 /\ count' = 0 /\ fill' = 0 /\ pc' = "header"
        /\ (threaded' => nslots' >= 2) /\ (~threaded' => wpc' = "exit") /\ wpc' \notin {"write", "pop"}
    OBVIOUS
  <2>2. Place(nslots', 0, 0) = 0 BY <1>4, EmptyRing
  <2> QED BY <1>4, <2>1, <2>2 DEF Shape
<1>7. Walk' BY DEF Walk
<1>8. Blended' /\ Queued' BY DEF Blended, Queued
<1>9. Covered' BY DEF Covered, Held
<1>10. Finished' /\ Counted' /\ Tallied' BY DEF Finished, Counted, Tallied
<1>11. Kept' BY <1>1, <1>2 DEF Kept
<1> QED BY <1>5, <1>6, <1>7, <1>8, <1>9, <1>10, <1>11 DEF IInv

-----------------------------------------------------------------------------
(* What the steps share *)

\* While an entry is being read nothing of the card changes but its file, and
\* nothing is counted.
LEMMA Reading ==
  ASSUME IInv, pc \in Active, pc' \in Active,
         UNCHANGED <<f, n, src, tally>>, DOMAIN card' = DOMAIN card,
         \A p \in DOMAIN card : p # f => card'[p] = card[p]
  PROVE  Finished' /\ Counted' /\ Tallied' /\ Kept'
<1>0. Types /\ Counted /\ Tallied /\ Kept BY DEF IInv
<1>1. Finished' BY DEF Finished
<1>2. Counted'
  <2>1. \A i : f # Out(i) /\ Unpacked(i) => Unpacked(i)' BY DEF Unpacked
  <2> QED BY <1>0, <2>1 DEF Counted
<1>3. Tallied' BY <1>0 DEF Tallied
<1>4. Kept' BY <1>0 DEF Kept
<1> QED BY <1>1, <1>2, <1>3, <1>4

\* When neither the file nor the ring nor the chunk changes.
LEMMA Still ==
  ASSUME Blended, Queued, UNCHANGED <<card, f, n, slots, head, tail, count, nslots, chunk>>
  PROVE  /\ Blended' /\ Queued'
         /\ \A o : Placed(o)' <=> Placed(o)
         /\ \A s : Run(s)' = Run(s)
<1>1. \A s : Waiting(s)' <=> Waiting(s) BY DEF Waiting
<1>2. \A s : Run(s)' = Run(s) BY DEF Run
<1>3. \A o : Placed(o)' <=> Placed(o) BY <1>1, <1>2 DEF Placed
<1>4. Blended' BY DEF Blended
<1>5. Queued' BY <1>1 DEF Queued
<1> QED BY <1>2, <1>3, <1>4, <1>5

\* What a call of ex_do_write with a run of this entry's blocks does.
LEMMA Written ==
  ASSUME Types, f # None, Exists(f), n \in Entries, IsFill(card[f], n),
         NEW at \in Nat, NEW data, Len(data) \in Nat, IsRun(data, n, at, Len(data)),
         DoWrite(data, at)
  PROVE  /\ DOMAIN card' = DOMAIN card /\ card' = [p \in DOMAIN card' |-> card'[p]]
         /\ \A p \in DOMAIN card : p # f => card'[p] = card[p]
         /\ \A p \in DOMAIN card' : \E i \in {0} \cup Entries : IsFill(card'[p], i)
         /\ IsFill(card'[f], n)
         /\ pos' \in Nat /\ disk_fail' \in BOOLEAN /\ (disk_fail => disk_fail')
         /\ ~disk_fail' => /\ ~disk_fail
                           /\ \A o : o \in DOMAIN card'[f] <=>
                                o \in DOMAIN card[f] \/ o \in at .. at + Len(data) - 1
<1> DEFINE c == Overlay(card[f], data, at)
<1>1. CASE UNCHANGED <<card, pos>> /\ disk_fail' /\ (disk_fail' = disk_fail \/ disk_fail' = TRUE)
  BY <1>1 DEF Types
<1>2. CASE card' = [card EXCEPT ![f] = c] /\ pos' = at + Len(data) /\ ~disk_fail /\ disk_fail' = disk_fail
  <2>1. IsFill(c, n) /\ \A o : o \in DOMAIN c <=> o \in DOMAIN card[f] \/ o \in at .. at + Len(data) - 1
    BY OverlayOfRun
  <2> HIDE DEF c
  <2>2. /\ DOMAIN card' = DOMAIN card /\ card' = [p \in DOMAIN card' |-> card'[p]]
        /\ card'[f] = c /\ \A p \in DOMAIN card : p # f => card'[p] = card[p]
    BY <1>2 DEF Types
  <2>3. \A p \in DOMAIN card' : \E i \in {0} \cup Entries : IsFill(card'[p], i)
    <3> SUFFICES ASSUME NEW p \in DOMAIN card PROVE \E i \in {0} \cup Entries : IsFill(card'[p], i)
      BY <2>2
    <3>1. CASE p = f BY <3>1, <2>1, <2>2
    <3>2. CASE p # f BY <3>2, <2>2 DEF Types
    <3> QED BY <3>1, <3>2
  <2>4. pos' \in Nat /\ disk_fail' \in BOOLEAN BY <1>2 DEF Types
  <2> QED BY <1>2, <2>1, <2>2, <2>3, <2>4
<1> QED BY <1>1, <1>2 DEF DoWrite, Types

-----------------------------------------------------------------------------
(* The steps that only move the walk on *)

\* Which of Covered is left to show when neither file, ring nor chunk changes.
LEMMA StillCovered ==
  ASSUME IInv, f # None, n \in Entries,
         UNCHANGED <<card, f, n, slots, head, tail, count, nslots, chunk, disk_fail, wpc>>,
         k' <= Len(Archive[n].at) /\ (Held' => k' > 0),
         ok' /\ ~disk_fail => ok /\ PutSoFar' = PutSoFar,
         pc' \in {"flush", "begin"} /\ ret' = "drain" => k' = Len(Archive[n].at),
         pc' \in {"drain", "close"} /\ ok' => fill = 0 /\ k' = Len(Archive[n].at),
         pc' = "close" /\ ok' => ~disk_fail
  PROVE  Blended' /\ Queued' /\ Covered'
<1>0. Blended /\ Queued /\ Covered BY DEF IInv
<1>1. /\ Blended' /\ Queued'
      /\ \A o : Placed(o)' <=> Placed(o)
      /\ \A s : Run(s)' = Run(s)
  BY <1>0, Still
<1>2. ok' /\ ~disk_fail' =>
        \A o \in Nat : Placed(o)' <=> \E j \in 1..PutSoFar' : Archive[n'].at[j] = o
  BY <1>0, <1>1 DEF Covered
<1>3. wpc' = "pop" /\ ~disk_fail' => \A o \in Run(tail)' : o \in DOMAIN card'[f']
  BY <1>0, <1>1 DEF Covered
<1> QED BY <1>1, <1>2, <1>3 DEF Covered

LEMMA ReadBlockStep ==
  ASSUME IInv, ReadBlock
  PROVE  IInv'
<1> USE DEF ReadBlock
<1>0. Types /\ Shape /\ Walk /\ Covered BY DEF IInv
<1>1. f # None /\ n \in Entries /\ ok BY <1>0 DEF Walk
<1>2. Types' BY <1>0 DEF Types
<1>3. Shape' /\ Walk' BY <1>0 DEF Shape, Walk
<1>4. Len(Archive[n].at) \in Nat BY <1>1, Constants
<1>5. k' <= Len(Archive[n].at) /\ k' > 0 BY <1>0, <1>4 DEF Types
<1>6. PutSoFar' = PutSoFar BY <1>0 DEF PutSoFar, Held, Types
<1>7. Blended' /\ Queued' /\ Covered' BY <1>1, <1>5, <1>6, StillCovered
<1>8. Finished' /\ Counted' /\ Tallied' /\ Kept' BY Reading
<1> QED BY <1>2, <1>3, <1>7, <1>8 DEF IInv

LEMMA ReadBadStep ==
  ASSUME IInv, ReadBad
  PROVE  IInv'
<1> USE DEF ReadBad
<1>0. Types /\ Shape /\ Walk /\ Covered BY DEF IInv
<1>1. f # None /\ n \in Entries BY <1>0 DEF Walk
<1>2. Types' BY <1>0 DEF Types
<1>3. Shape' /\ Walk' BY <1>0 DEF Shape, Walk
<1>4. k' <= Len(Archive[n].at) /\ ~Held' BY <1>0, <1>1 DEF Covered, Held
<1>5. Blended' /\ Queued' /\ Covered' BY <1>1, <1>4, StillCovered
<1>6. Finished' /\ Counted' /\ Tallied' /\ Kept' BY Reading
<1> QED BY <1>2, <1>3, <1>5, <1>6 DEF IInv

LEMMA ReadEndStep ==
  ASSUME IInv, ReadEnd
  PROVE  IInv'
<1> USE DEF ReadEnd
<1>0. Types /\ Shape /\ Walk /\ Covered BY DEF IInv
<1>1. f # None /\ n \in Entries /\ ok BY <1>0 DEF Walk
<1>2. Types' BY <1>0 DEF Types
<1>3. Shape' /\ Walk' BY <1>0, Constants DEF Shape, Walk, Types
<1>4. ~Held /\ ~Held' BY DEF Held
<1>5. PutSoFar' = PutSoFar BY <1>4 DEF PutSoFar
<1>6. k' <= Len(Archive[n].at) BY <1>0, <1>1 DEF Covered
<1>7. Blended' /\ Queued' /\ Covered' BY <1>1, <1>4, <1>5, <1>6, StillCovered
<1>8. Finished' /\ Counted' /\ Tallied' /\ Kept' BY Reading
<1> QED BY <1>2, <1>3, <1>7, <1>8 DEF IInv

LEMMA PutJumpStep ==
  ASSUME IInv, PutJump
  PROVE  IInv'
<1> USE DEF PutJump, Jumps
<1>0. Types /\ Shape /\ Walk /\ Covered BY DEF IInv
<1>1. f # None /\ n \in Entries /\ ok BY <1>0 DEF Walk
<1>2. Types' BY <1>0 DEF Types
<1>3. Shape' /\ Walk' BY <1>0 DEF Shape, Walk
<1>4. Held /\ Held' BY DEF Held
<1>5. PutSoFar' = PutSoFar BY <1>4 DEF PutSoFar
<1>6. k' <= Len(Archive[n].at) /\ k' > 0 BY <1>0, <1>1, <1>4 DEF Covered
<1>7. Blended' /\ Queued' /\ Covered' BY <1>1, <1>5, <1>6, StillCovered
<1>8. Finished' /\ Counted' /\ Tallied' /\ Kept' BY Reading
<1> QED BY <1>2, <1>3, <1>7, <1>8 DEF IInv

LEMMA BeginStep ==
  ASSUME IInv, Begin
  PROVE  IInv'
<1> USE DEF Begin
<1>0. Types /\ Shape /\ Walk /\ Covered BY DEF IInv
<1>1. f # None /\ n \in Entries /\ ok BY <1>0 DEF Walk
<1>2. Types' BY <1>0 DEF Types, Walk
<1>3. Shape' /\ Walk'
  <2>1. /\ pc' \in {"drain", "put", "progress"} /\ (pc' # "drain" => count < nslots /\ ok')
        /\ fill = 0 /\ threaded
    BY <1>0 DEF Walk
  <2>2. Shape' BY <1>0, <2>1 DEF Shape
  <2>3. 0 < SlotSz BY Constants
  <2>4. Walk' BY <1>0, <2>1, <2>3 DEF Walk
  <2> QED BY <2>2, <2>4
<1>4. ~disk_fail => Held' = Held BY <1>0 DEF Held, Walk
<1>5. ~disk_fail => PutSoFar' = PutSoFar BY <1>4 DEF PutSoFar
<1>6. k' <= Len(Archive[n].at) /\ (Held' => k' > 0) BY <1>0, <1>1, <1>4 DEF Covered, Held
<1>7. pc' \in {"drain", "close"} /\ ok' => fill = 0 /\ k' = Len(Archive[n].at)
  BY <1>0 DEF Covered, Walk
<1>8. pc' # "close" /\ pc' \notin {"flush", "begin"} BY <1>0 DEF Walk
<1>9. Blended' /\ Queued' /\ Covered' BY <1>1, <1>5, <1>6, <1>7, <1>8, StillCovered
<1>10. pc' \in Active BY <1>0 DEF Walk
<1>11. Finished' /\ Counted' /\ Tallied' /\ Kept' BY <1>10, Reading
<1> QED BY <1>2, <1>3, <1>9, <1>11 DEF IInv

LEMMA ProgressStep ==
  ASSUME IInv, Progress
  PROVE  IInv'
<1> USE DEF Progress
<1>0. Types /\ Shape /\ Walk /\ Covered BY DEF IInv
<1>1. f # None /\ n \in Entries /\ ok BY <1>0 DEF Walk
<1>2. Types' BY ZenonT(30), <1>0 DEF Types
<1>3. Shape' /\ Walk' BY <1>0 DEF Shape, Walk
<1>4. ~Held /\ ~Held' BY DEF Held
<1>5. PutSoFar' = PutSoFar BY <1>4 DEF PutSoFar
<1>6. k' <= Len(Archive[n].at) BY <1>0, <1>1 DEF Covered
<1>7. Blended' /\ Queued' /\ Covered' BY <1>1, <1>4, <1>5, <1>6, StillCovered
<1>8. Finished' /\ Counted' /\ Tallied' /\ Kept' BY Reading
<1> QED BY <1>2, <1>3, <1>7, <1>8 DEF IInv

LEMMA DrainStep ==
  ASSUME IInv, Drain
  PROVE  IInv'
<1> USE DEF Drain
<1>0. Types /\ Shape /\ Walk /\ Covered BY DEF IInv
<1>1. f # None /\ n \in Entries BY <1>0 DEF Walk
<1>2. Types' BY <1>0 DEF Types
<1>3. Shape' /\ Walk' BY <1>0 DEF Shape, Walk, Types
<1>4. ~Held /\ ~Held' BY DEF Held
<1>5. PutSoFar' = PutSoFar BY <1>4 DEF PutSoFar
<1>6. k' <= Len(Archive[n].at) BY <1>0, <1>1 DEF Covered
<1>7. ok' => ok /\ ~disk_fail /\ fill = 0 /\ k = Len(Archive[n].at)
  BY <1>0 DEF Covered
<1>8. Blended' /\ Queued' /\ Covered' BY <1>1, <1>4, <1>5, <1>6, <1>7, StillCovered
<1>9. Finished' /\ Counted' /\ Tallied' /\ Kept' BY Reading
<1> QED BY <1>2, <1>3, <1>8, <1>9 DEF IInv

-----------------------------------------------------------------------------
(* The steps that move blocks *)

LEMMA RingFacts ==
  ASSUME Types, Shape
  PROVE  /\ nslots \in Nat
         /\ nslots > 0 => head \in 0..nslots - 1 /\ tail \in 0..nslots - 1
         /\ nslots > 0 /\ count < nslots => ~Waiting(head)
         /\ count > 0 => Waiting(tail)
         /\ count = 0 => \A s \in 0..nslots - 1 : ~Waiting(s)
<1>1. nslots \in Nat BY Constants DEF Types
<1>2. nslots > 0 => tail \in 0..nslots - 1 /\ count \in 0..nslots BY <1>1 DEF Types, Shape
<1>3. nslots > 0 => head \in 0..nslots - 1 BY <1>1, <1>2 DEF Shape, Place
<1>4. nslots > 0 /\ count < nslots => ~Waiting(head)
  <2> SUFFICES ASSUME nslots > 0, count < nslots PROVE ~Waiting(head) OBVIOUS
  <2>1. nslots \in Nat \ {0} /\ tail \in 0..nslots - 1 /\ count \in 0..nslots - 1 BY <1>1, <1>2
  <2>2. ~InRing(nslots, tail, count, Place(nslots, tail, count)) BY <2>1, RingGrows
  <2> QED BY <1>1, <2>2 DEF Shape, Waiting
<1>5. count > 0 => Waiting(tail)
  <2>1. count > 0 => nslots > 0 BY <1>1 DEF Shape, Types
  <2> QED BY <1>1, <1>2, <2>1 DEF Waiting, InRing
<1>6. count = 0 => \A s \in 0..nslots - 1 : ~Waiting(s)
  <2> SUFFICES ASSUME count = 0, NEW s \in 0..nslots - 1 PROVE ~Waiting(s) OBVIOUS
  <2>1. nslots > 0 /\ tail + 0 <= nslots BY <1>1, <1>2
  <2>2. ~(tail <= s /\ s < tail + 0) BY <1>1, <1>2, <2>1
  <2> QED BY <2>1, <2>2 DEF Waiting, InRing
<1> QED BY <1>1, <1>2, <1>3, <1>4, <1>5, <1>6

\* A slot's own content.
LEMMA SlotTypes ==
  ASSUME Types, NEW s \in 0..nslots - 1
  PROVE  /\ slots[s] \in Chunks
         /\ slots[s].len \in 0..SlotSz /\ slots[s].offset \in Nat
         /\ slots[s].data \in [1..SlotSz -> Blocks \cup {None}]
BY DEF Types, Chunks

LEMMA PutThroughStep ==
  ASSUME IInv, PutThrough
  PROVE  IInv'
<1> USE DEF PutThrough
<1>0. Types /\ Shape /\ Walk /\ Covered /\ Blended /\ Queued BY DEF IInv
<1>1. /\ f # None /\ n \in Entries /\ ok /\ Exists(f) /\ IsFill(card[f], n) /\ ~threaded
      /\ count = 0 /\ fill = 0 /\ wpc = "exit"
  BY <1>0 DEF Walk, Blended, Shape
<1>2. k \in 1..Len(Archive[n].at) /\ Archive[n].at[k] \in Nat
  <2>1. Archive[n].at \in Seq(Nat) BY <1>1, Constants
  <2>2. Held BY DEF Held
  <2>3. k \in 1..Len(Archive[n].at) BY <1>0, <1>1, <2>1, <2>2 DEF Covered, Types
  <2> QED BY <2>1, <2>3
<1> DEFINE at == Archive[n].at[k]
           data == <<<<n, at>>>>
<1>3. Len(data) = 1 /\ data[1] = <<n, at>> OBVIOUS
<1>4. IsRun(data, n, at, Len(data)) BY <1>2, <1>3 DEF IsRun
<1>5. DoWrite(data, at) OBVIOUS
<1>6. /\ DOMAIN card' = DOMAIN card /\ card' = [p \in DOMAIN card' |-> card'[p]]
      /\ \A p \in DOMAIN card : p # f => card'[p] = card[p]
      /\ \A p \in DOMAIN card' : \E i \in {0} \cup Entries : IsFill(card'[p], i)
      /\ IsFill(card'[f], n)
      /\ pos' \in Nat /\ disk_fail' \in BOOLEAN /\ (disk_fail => disk_fail')
      /\ ~disk_fail' => /\ ~disk_fail
                        /\ \A o : o \in DOMAIN card'[f] <=>
                             o \in DOMAIN card[f] \/ o \in at .. at + Len(data) - 1
  <2>1. Len(data) \in Nat BY <1>3
  <2> HIDE DEF data
  <2> QED BY <1>0, <1>1, <1>2, <1>4, <1>5, <2>1, Written
<1>7. ~disk_fail' => /\ ~disk_fail
                     /\ \A o : o \in DOMAIN card'[f] <=> o \in DOMAIN card[f] \/ o = at
  BY <1>2, <1>3, <1>6
<1>8. Types' BY <1>0, <1>6 DEF Types
<1>9. Shape' BY <1>0, <1>1 DEF Shape
<1>10. Walk' BY <1>0, <1>1, <1>6 DEF Walk
<1>11. Blended' BY <1>1, <1>6 DEF Blended
<1>12. nslots' - 1 = -1 /\ nslots - 1 = -1 /\ 0..nslots - 1 = {} /\ run_off..run_off + fill - 1 = {}
  BY <1>0, <1>1 DEF Types
<1>13. Queued' BY <1>1, <1>12 DEF Queued
<1>14. Covered'
  <2>1. ok' => ~disk_fail' /\ pc' = "progress" OBVIOUS
  <2>2. ASSUME ok', NEW o \in Nat
        PROVE  Placed(o)' <=> \E j \in 1..PutSoFar' : Archive[n'].at[j] = o
    <3>1. Placed(o)' <=> o \in DOMAIN card[f] \/ o = at
      BY <1>1, <1>7, <1>12, <2>1, <2>2 DEF Placed
    <3>2. Placed(o) <=> o \in DOMAIN card[f] BY <1>12 DEF Placed
    <3>3. Held /\ ~Held' BY <2>1, <2>2 DEF Held
    <3>4. PutSoFar = k - 1 /\ PutSoFar' = k BY <3>3 DEF PutSoFar
    <3>5. Placed(o) <=> \E j \in 1..k - 1 : Archive[n].at[j] = o
      BY <1>0, <1>1, <1>7, <2>1, <2>2, <3>4 DEF Covered
    <3>6. (\E j \in 1..k : Archive[n].at[j] = o)
            <=> (\E j \in 1..k - 1 : Archive[n].at[j] = o) \/ at = o
      BY <1>2
    <3> QED BY <3>1, <3>2, <3>4, <3>5, <3>6
  <2>3. k' <= Len(Archive[n'].at) /\ (Held' => k' > 0) /\ pc' \notin {"flush", "begin", "close"}
    BY <1>0, <1>1, <1>2
  <2>4. pc' = "drain" => ~ok' OBVIOUS
  <2> QED BY <1>1, <2>2, <2>3, <2>4 DEF Covered
<1>15. Finished' /\ Counted' /\ Tallied' /\ Kept'
  <2>1. pc' \in Active OBVIOUS
  <2> QED BY <1>6, <2>1, Reading
<1> QED BY <1>8, <1>9, <1>10, <1>11, <1>13, <1>14, <1>15 DEF IInv

LEMMA FlushSyncStep ==
  ASSUME IInv, FlushSync
  PROVE  IInv'
<1> USE DEF FlushSync
<1>0. Types /\ Shape /\ Walk /\ Covered /\ Blended /\ Queued BY DEF IInv
<1>1. /\ f # None /\ n \in Entries /\ ok /\ Exists(f) /\ IsFill(card[f], n)
      /\ count = 0 /\ fill > 0 /\ wpc = "exit" /\ nslots > 0
      /\ ret \in {"drain", "put", "progress"}
  BY <1>0, Constants DEF Walk, Blended, Shape, Types
<1>2. head \in 0..nslots - 1 /\ \A s \in 0..nslots - 1 : ~Waiting(s) BY <1>0, <1>1, RingFacts
<1> DEFINE data == SubSeq(slots[head].data, 1, fill)
<1>3. Len(data) = fill /\ IsRun(data, n, run_off, fill) /\ fill \in Nat /\ run_off \in Nat
  <2>1. IsRun(slots[head].data, n, run_off, fill) BY <1>0, <1>1 DEF Queued
  <2>2. fill \in 1..SlotSz /\ run_off \in Nat BY <1>0, <1>1, Constants DEF Types
  <2>3. \A j \in 1..fill : slots[head].data[j] \in Blocks \cup {None}
    BY <1>0, <1>2, <2>2, Constants, SlotTypes
  <2>4. fill \in Nat BY <2>2, Constants
  <2> QED BY <2>1, <2>2, <2>3, <2>4, SlotData
<1>5. DoWrite(data, run_off) OBVIOUS
<1>6. /\ DOMAIN card' = DOMAIN card /\ card' = [p \in DOMAIN card' |-> card'[p]]
      /\ \A p \in DOMAIN card : p # f => card'[p] = card[p]
      /\ \A p \in DOMAIN card' : \E i \in {0} \cup Entries : IsFill(card'[p], i)
      /\ IsFill(card'[f], n)
      /\ pos' \in Nat /\ disk_fail' \in BOOLEAN /\ (disk_fail => disk_fail')
      /\ ~disk_fail' => /\ ~disk_fail
                        /\ \A o : o \in DOMAIN card'[f] <=>
                             o \in DOMAIN card[f] \/ o \in run_off .. run_off + Len(data) - 1
  <2> HIDE DEF data
  <2> QED BY <1>0, <1>1, <1>3, <1>5, Written
<1>7. ~disk_fail' => /\ ~disk_fail
                     /\ \A o : o \in DOMAIN card'[f] <=>
                          o \in DOMAIN card[f] \/ o \in run_off .. run_off + fill - 1
  BY <1>3, <1>6
<1> HIDE DEF data
<1>8. pc' \in {"drain", "put", "progress"} /\ (pc' # "drain" => ok') BY <1>1
<1>9. Types' BY <1>0, <1>6, <1>8, Constants DEF Types
<1>10. Shape' BY <1>0, <1>1, <1>8 DEF Shape
<1>11. Walk'
  <2>1. 0 < SlotSz BY Constants
  <2> QED BY <1>0, <1>1, <1>6, <1>8, <2>1 DEF Walk
<1>12. Blended' BY <1>1, <1>6 DEF Blended
<1>13. \A s \in 0..nslots - 1 : ~Waiting(s)' BY <1>2 DEF Waiting
<1>14. Queued' BY <1>13 DEF Queued
<1>15. Covered'
  <2>1. ok' => ~disk_fail' /\ pc' = ret OBVIOUS
  <2>2. ASSUME ok', NEW o \in Nat
        PROVE  Placed(o)' <=> \E j \in 1..PutSoFar' : Archive[n'].at[j] = o
    <3>0. run_off'..run_off' + fill' - 1 = {} BY <1>3
    <3>1. Placed(o)' <=> o \in DOMAIN card'[f]
      BY <1>13, <3>0 DEF Placed
    <3>2. Placed(o) <=> o \in DOMAIN card'[f] BY <1>2, <1>7, <2>1, <2>2 DEF Placed
    <3>3. Held' = Held BY <1>1, <2>1, <2>2 DEF Held
    <3>4. PutSoFar' = PutSoFar BY <3>3 DEF PutSoFar
    <3> QED BY <1>0, <1>1, <1>7, <2>1, <2>2, <3>1, <3>2, <3>4 DEF Covered
  <2>3. k' <= Len(Archive[n'].at) /\ (Held' => k' > 0) /\ pc' \notin {"flush", "begin", "close"}
    BY <1>0, <1>1, <1>8 DEF Covered, Held
  <2>4. pc' = "drain" /\ ok' => fill' = 0 /\ k' = Len(Archive[n'].at)
    BY <1>0, <2>1 DEF Covered
  <2> QED BY <1>1, <2>2, <2>3, <2>4 DEF Covered
<1>16. Finished' /\ Counted' /\ Tallied' /\ Kept'
  <2>1. pc' \in Active BY <1>8
  <2> QED BY <1>6, <2>1, Reading
<1> QED BY <1>9, <1>10, <1>11, <1>12, <1>14, <1>15, <1>16 DEF IInv

\* A block is copied into the slot at head ...
LEMMA BlockCopied ==
  ASSUME Types, head \in 0..nslots - 1, fill + 1 \in 1..SlotSz, NEW b \in Blocks,
         slots' = [slots EXCEPT ![head].data[fill + 1] = b]
  PROVE  /\ slots' \in [0..nslots - 1 -> Chunks]
         /\ \A s \in 0..nslots - 1 : s # head => slots'[s] = slots[s]
         /\ slots'[head].len = slots[head].len /\ slots'[head].offset = slots[head].offset
         /\ slots'[head].data[fill + 1] = b
         /\ \A i \in 1..SlotSz : i # fill + 1 => slots'[head].data[i] = slots[head].data[i]
<1> DEFINE data == [slots[head].data EXCEPT ![fill + 1] = b]
           slot == [slots[head] EXCEPT !.data = data]
<1>1. slots[head] \in Chunks /\ slots[head].data \in [1..SlotSz -> Blocks \cup {None}] BY SlotTypes
<1>2. /\ data \in [1..SlotSz -> Blocks \cup {None}] /\ data[fill + 1] = b
      /\ \A i \in 1..SlotSz : i # fill + 1 => data[i] = slots[head].data[i]
  BY <1>1
<1> HIDE DEF data
<1>3. /\ slot \in Chunks /\ slot.data = data
      /\ slot.len = slots[head].len /\ slot.offset = slots[head].offset
  BY <1>1, <1>2 DEF Chunks
<1>4. slots' = [slots EXCEPT ![head] = slot] BY DEF data
<1> HIDE DEF slot
<1>5. slots \in [0..nslots - 1 -> Chunks] BY DEF Types
<1>6. /\ slots' \in [0..nslots - 1 -> Chunks] /\ slots'[head] = slot
      /\ \A s \in 0..nslots - 1 : s # head => slots'[s] = slots[s]
  BY <1>3, <1>4, <1>5
<1> QED BY <1>2, <1>3, <1>6

\* ... and given its length and its place in the file.
LEMMA SlotClosed ==
  ASSUME Types, NEW h \in 0..nslots - 1, NEW l \in 0..SlotSz, NEW o \in Nat,
         slots' = [slots EXCEPT ![h].len = l, ![h].offset = o]
  PROVE  /\ slots' \in [0..nslots - 1 -> Chunks]
         /\ \A s \in 0..nslots - 1 : s # h => slots'[s] = slots[s]
         /\ slots'[h].len = l /\ slots'[h].offset = o
         /\ slots'[h].data = slots[h].data
<1> DEFINE slot == [data |-> slots[h].data, len |-> l, offset |-> o]
<1>1. slots[h] \in Chunks BY SlotTypes
<1>2. slot \in Chunks BY <1>1 DEF Chunks
<1>3. [[slots[h] EXCEPT !.len = l] EXCEPT !.offset = o] = slot
  <2> DEFINE a == [slots[h] EXCEPT !.len = l]
  <2>1. a = [data |-> slots[h].data, len |-> l, offset |-> slots[h].offset] BY <1>1 DEF Chunks
  <2> HIDE DEF a
  <2>2. [a EXCEPT !.offset = o] = slot BY <2>1
  <2> QED BY <2>2 DEF a
<1>4. slots \in [0..nslots - 1 -> Chunks] BY DEF Types
<1>5. slots' = [slots EXCEPT ![h] = slot] BY <1>3, <1>4
<1>6. slot.len = l /\ slot.offset = o /\ slot.data = slots[h].data OBVIOUS
<1> HIDE DEF slot
<1>7. /\ slots' \in [0..nslots - 1 -> Chunks] /\ slots'[h] = slot
      /\ \A s \in 0..nslots - 1 : s # h => slots'[s] = slots[s]
  BY <1>2, <1>4, <1>5
<1> QED BY <1>6, <1>7

LEMMA PutCopyStep ==
  ASSUME IInv, PutCopy
  PROVE  IInv'
<1>a. /\ pc = "put" /\ nslots > 0 /\ ~Jumps
      /\ slots' = [slots EXCEPT ![head].data[fill + 1] = <<n, Archive[n].at[k]>>]
  BY DEF PutCopy
<1>b. /\ run_off' = IF fill = 0 THEN Archive[n].at[k] ELSE run_off
      /\ fill' = fill + 1 /\ ret' = "progress"
      /\ pc' = IF fill' = SlotSz THEN "flush" ELSE "progress"
      /\ UNCHANGED <<disk, mode, head, tail, count, stop, file, n, k, entry, tally, wpc, mishaps>>
  BY DEF PutCopy
<1>0. Types /\ Shape /\ Walk /\ Covered /\ Blended /\ Queued BY DEF IInv
<1>1. /\ f # None /\ n \in Entries /\ ok /\ fill \in 0..SlotSz - 1 /\ nslots > 0
      /\ nslots \in Nat /\ run_off \in Nat
  BY <1>0, <1>a, Constants DEF Walk, Types
<1>2. head \in 0..nslots - 1 /\ ~Waiting(head)
  <2>1. count < nslots BY <1>0, <1>a, <1>1 DEF Shape
  <2> QED BY <1>0, <1>1, <2>1, RingFacts
<1> DEFINE at == Archive[n].at[k]
<1>3. k \in 1..Len(Archive[n].at) /\ at \in Nat
  <2>1. Archive[n].at \in Seq(Nat) BY <1>1, Constants
  <2>2. Held BY <1>a DEF Held
  <2>3. k \in 1..Len(Archive[n].at) BY <1>0, <1>1, <2>1, <2>2 DEF Covered, Types
  <2> QED BY <2>1, <2>3
<1>4. /\ slots' \in [0..nslots - 1 -> Chunks]
      /\ \A s \in 0..nslots - 1 : s # head => slots'[s] = slots[s]
      /\ slots'[head].len = slots[head].len /\ slots'[head].offset = slots[head].offset
      /\ slots'[head].data[fill + 1] = <<n, at>>
      /\ \A i \in 1..SlotSz : i # fill + 1 => slots'[head].data[i] = slots[head].data[i]
  <2>1. fill + 1 \in 1..SlotSz BY <1>1, Constants
  <2>2. <<n, at>> \in Blocks BY <1>1, <1>3 DEF Blocks
  <2> DEFINE b == <<n, at>>
  <2>3. slots' = [slots EXCEPT ![head].data[fill + 1] = b] BY <1>a
  <2>4. b \in Blocks BY <2>2
  <2> HIDE DEF b
  <2>5. /\ slots' \in [0..nslots - 1 -> Chunks]
        /\ \A s \in 0..nslots - 1 : s # head => slots'[s] = slots[s]
        /\ slots'[head].len = slots[head].len /\ slots'[head].offset = slots[head].offset
        /\ slots'[head].data[fill + 1] = b
        /\ \A j \in 1..SlotSz : j # fill + 1 => slots'[head].data[j] = slots[head].data[j]
    BY <1>0, <1>2, <2>1, <2>3, <2>4, BlockCopied
  <2> QED BY <2>5 DEF b
<1>5. /\ run_off' \in Nat /\ run_off' + fill = at /\ (fill > 0 => run_off' = run_off)
      /\ fill' = fill + 1
  <2>1. CASE fill = 0 BY <1>b, <1>3, <2>1
  <2>2. CASE fill # 0
    <3>1. fill > 0 BY <1>1, <2>2
    <3>2. at = run_off + fill BY <1>a, <3>1 DEF Jumps
    <3> QED BY <1>1, <1>b, <2>2, <3>2
  <2> QED BY <1>b, <2>1, <2>2
<1>6. pc' \in {"flush", "progress"} BY <1>b
<1> HIDE DEF at
<1>7. Types'
  <2>1. fill' \in 0..SlotSz BY <1>1, <1>5, Constants
  <2> QED BY <1>0, <1>b, <1>4, <1>5, <1>6, <2>1 DEF Types
<1>8. Shape' BY <1>0, <1>a, <1>b, <1>1, <1>6 DEF Shape
<1>9. Walk'
  <2>1. pc' = "progress" => fill' < SlotSz BY <1>b, <1>1, <1>5, Constants
  <2>2. fill' > 0 BY <1>1, <1>5, Constants
  <2> QED BY <1>0, <1>a, <1>b, <1>6, <2>1, <2>2 DEF Walk
<1>10. Blended' BY <1>0, <1>b DEF Blended
<1>11. \A s : Waiting(s)' <=> Waiting(s) BY <1>b DEF Waiting
<1>12. Queued'
  <2>1. \A s \in 0..nslots - 1 : Waiting(s) => slots'[s] = slots[s] BY <1>2, <1>4
  <2>2. IsRun(slots'[head].data, n, run_off', fill')
    <3> SUFFICES ASSUME NEW j \in 1..fill' PROVE slots'[head].data[j] = <<n, run_off' + j - 1>>
      BY DEF IsRun
    <3>1. CASE j = fill + 1
      <4>1. run_off' + j - 1 = at BY <3>1, <1>1, <1>5, Constants
      <4> QED BY <3>1, <4>1, <1>4
    <3>2. CASE j # fill + 1
      <4>1. fill > 0 /\ j \in 1..fill /\ j \in 1..SlotSz BY <3>2, <1>1, <1>5, Constants
      <4>2. slots[head].data[j] = <<n, run_off + j - 1>> BY <4>1, <1>0, <1>1 DEF Queued, IsRun
      <4> QED BY <3>2, <4>1, <4>2, <1>4, <1>5
    <3> QED BY <3>1, <3>2
  <2> QED BY <1>0, <1>b, <1>1, <1>11, <2>1, <2>2 DEF Queued
<1>13. \A s \in 0..nslots - 1 : Run(s)' = Run(s)
  <2> SUFFICES ASSUME NEW s \in 0..nslots - 1 PROVE Run(s)' = Run(s) OBVIOUS
  <2>1. slots'[s].len = slots[s].len /\ slots'[s].offset = slots[s].offset BY <1>4
  <2> QED BY <2>1 DEF Run
<1>14. Covered'
  <2>1. ASSUME ok', ~disk_fail', NEW o \in Nat
        PROVE  Placed(o)' <=> \E j \in 1..PutSoFar' : Archive[n'].at[j] = o
    <3>1. o \in run_off' .. run_off' + fill' - 1 <=> o \in run_off .. run_off + fill - 1 \/ o = at
      <4>0. fill \in Nat /\ at \in Nat BY <1>1, <1>3, Constants
      <4>1. CASE fill = 0
        <5>0. run_off' \in Nat /\ run_off \in Nat /\ run_off' + 0 = at /\ fill' = 1 BY <4>1, <1>1, <1>5
        <5>1. run_off' = at /\ run_off' + fill' - 1 = at BY <5>0
        <5>2. run_off + fill - 1 = run_off - 1 BY <5>0, <4>1
        <5> QED BY <2>1, <4>0, <5>0, <5>1, <5>2
      <4>2. CASE fill > 0 BY <2>1, <4>0, <4>2, <1>1, <1>5
      <4> QED BY <4>0, <4>1, <4>2
    <3>2. Placed(o)' <=> Placed(o) \/ o = at BY <1>b, <1>11, <1>13, <3>1 DEF Placed
    <3>3. Held /\ ~Held' BY <1>a, <1>b, <1>6 DEF Held
    <3>4. PutSoFar = k - 1 /\ PutSoFar' = k BY <1>b, <3>3 DEF PutSoFar
    <3>5. Placed(o) <=> \E j \in 1..k - 1 : Archive[n].at[j] = o
      BY <1>0, <1>b, <1>1, <2>1, <3>4 DEF Covered
    <3>6. (\E j \in 1..k : Archive[n].at[j] = o)
            <=> (\E j \in 1..k - 1 : Archive[n].at[j] = o) \/ at = o
      BY <1>3 DEF at
    <3> QED BY <1>b, <3>2, <3>4, <3>5, <3>6
  <2>2. k' <= Len(Archive[n'].at) /\ ~Held' /\ ret' # "drain"
    BY <1>0, <1>a, <1>b, <1>1, <1>6 DEF Covered, Held
  <2>3. wpc' = "pop" /\ ~disk_fail' => \A o \in Run(tail)' : o \in DOMAIN card'[f']
    <3> SUFFICES ASSUME wpc = "pop", ~disk_fail PROVE \A o \in Run(tail)' : o \in DOMAIN card'[f']
      BY <1>b
    <3>1. tail \in 0..nslots - 1 BY <1>0, <1>1, RingFacts
    <3>2. Run(tail)' = slots'[tail].offset .. slots'[tail].offset + slots'[tail].len - 1 BY <1>b DEF Run
    <3>3. Run(tail)' = Run(tail) BY <3>1, <3>2, <1>4 DEF Run
    <3> QED BY <1>0, <1>b, <3>3 DEF Covered
  <2> QED BY <1>b, <1>1, <1>6, <2>1, <2>2, <2>3 DEF Covered
<1>15. Finished' /\ Counted' /\ Tallied' /\ Kept' BY <1>a, <1>b, <1>6, Reading
<1> QED BY <1>7, <1>8, <1>9, <1>10, <1>12, <1>14, <1>15 DEF IInv

LEMMA PublishStep ==
  ASSUME IInv, Publish
  PROVE  IInv'
<1>a. /\ pc = "flush" /\ threaded
      /\ slots' = [slots EXCEPT ![head].len = fill, ![head].offset = run_off]
  BY DEF Publish
<1>b. /\ head' = (head + 1) % nslots /\ count' = count + 1 /\ fill' = 0 /\ pc' = "begin"
      /\ UNCHANGED <<disk, mode, tail, stop, file, ret, n, k, run_off, entry, tally, wpc, mishaps>>
  BY DEF Publish
<1>0. Types /\ Shape /\ Walk /\ Covered /\ Blended /\ Queued BY DEF IInv
<1>1. /\ f # None /\ n \in Entries /\ ok /\ fill \in 1..SlotSz /\ nslots \in Nat \ {0}
      /\ run_off \in Nat /\ count \in 0..nslots - 1 /\ tail \in 0..nslots - 1
      /\ ret \in {"drain", "put", "progress"}
  BY <1>0, <1>a, Constants DEF Walk, Types, Shape
<1>2. head = Place(nslots, tail, count) BY <1>0 DEF Shape
<1>3. /\ head \in 0..nslots - 1 /\ ~Waiting(head)
      /\ head' = Place(nslots, tail, count + 1)
      /\ \A s \in 0..nslots - 1 : Waiting(s)' <=> Waiting(s) \/ s = head
  <2>1. /\ head \in 0..nslots - 1 /\ ~InRing(nslots, tail, count, head)
        /\ Place(nslots, tail, count + 1) = (head + 1) % nslots
        /\ \A s \in 0..nslots - 1 : InRing(nslots, tail, count + 1, s)
                                      <=> InRing(nslots, tail, count, s) \/ s = head
    <3> DEFINE h == Place(nslots, tail, count)
    <3>1. /\ h \in 0..nslots - 1 /\ ~InRing(nslots, tail, count, h)
          /\ Place(nslots, tail, count + 1) = (h + 1) % nslots
          /\ \A s \in 0..nslots - 1 : InRing(nslots, tail, count + 1, s)
                                      <=> InRing(nslots, tail, count, s) \/ s = h
      BY <1>1, RingGrows
    <3> QED BY <1>2, <3>1
  <2>2. \A s : Waiting(s)' <=> InRing(nslots, tail, count + 1, s) BY <1>b DEF Waiting
  <2> QED BY <1>b, <2>1, <2>2 DEF Waiting
<1>4. /\ slots' \in [0..nslots - 1 -> Chunks]
      /\ \A s \in 0..nslots - 1 : s # head => slots'[s] = slots[s]
      /\ slots'[head].len = fill /\ slots'[head].offset = run_off
      /\ slots'[head].data = slots[head].data
  <2>1. fill \in 0..SlotSz BY <1>1, Constants
  <2> QED BY <1>0, <1>a, <1>1, <1>3, <2>1, SlotClosed
<1>5. count' = count + 1 /\ count' \in 1..nslots /\ head' \in Nat
  <2>1. count' \in 1..nslots BY <1>b, <1>1
  <2>2. head' \in Nat BY <1>b, <1>1, <1>3, <2>1 DEF Place
  <2> QED BY <1>b, <2>1, <2>2
<1>6. Types'
  <2>1. fill' \in 0..SlotSz /\ count' \in Nat BY <1>b, <1>1, <1>5, Constants
  <2> QED BY <1>0, <1>b, <1>4, <1>5, <2>1 DEF Types
<1>7. Shape' BY <1>0, <1>a, <1>b, <1>1, <1>3, <1>5 DEF Shape
<1>8. Walk' BY <1>0, <1>a, <1>b DEF Walk
<1>9. Blended' BY <1>0, <1>b DEF Blended
<1>10. Queued'
  <2>1. IsRun(slots[head].data, n, run_off, fill) BY <1>0, <1>1, Constants DEF Queued
  <2>2. \A s \in 0..nslots - 1 : Waiting(s)' => IsRun(slots'[s].data, n, slots'[s].offset, slots'[s].len)
    BY <1>0, <1>1, <1>3, <1>4, <2>1 DEF Queued
  <2> QED BY <1>b, <2>2 DEF Queued
<1>11. \A s \in 0..nslots - 1 :
         Run(s)' = IF s = head THEN run_off .. run_off + fill - 1 ELSE Run(s)
  <2>1. \A s : Run(s)' = slots'[s].offset .. slots'[s].offset + slots'[s].len - 1 BY DEF Run
  <2> QED BY <1>4, <2>1 DEF Run
<1>12. Covered'
  <2>1. ASSUME NEW o \in Nat PROVE Placed(o)' <=> Placed(o)
    <3>1. run_off' .. run_off' + fill' - 1 = {} BY <1>b, <1>1
    <3>2. (\E s \in 0..nslots' - 1 : Waiting(s)' /\ o \in Run(s)')
            <=> (\E s \in 0..nslots - 1 : Waiting(s) /\ o \in Run(s)) \/ o \in run_off .. run_off + fill - 1
      BY <1>b, <1>3, <1>11
    <3> QED BY <1>b, <3>1, <3>2 DEF Placed
  <2>2. Held' = Held BY <1>a, <1>b DEF Held
  <2>3. PutSoFar' = PutSoFar BY <1>b, <2>2 DEF PutSoFar
  <2>4. ok' /\ ~disk_fail' =>
          \A o \in Nat : Placed(o)' <=> \E j \in 1..PutSoFar' : Archive[n'].at[j] = o
    BY <1>0, <1>b, <1>1, <2>1, <2>3 DEF Covered
  <2>5. wpc' = "pop" /\ ~disk_fail' => \A o \in Run(tail)' : o \in DOMAIN card'[f']
    <3> SUFFICES ASSUME wpc = "pop", ~disk_fail PROVE \A o \in Run(tail)' : o \in DOMAIN card'[f']
      BY <1>b
    <3>1. count > 0 BY <1>0 DEF Shape
    <3>2. Waiting(tail) BY <1>0, <3>1, RingFacts
    <3>3. tail # head BY <1>3, <3>2
    <3>4. Run(tail)' = slots'[tail].offset .. slots'[tail].offset + slots'[tail].len - 1 BY <1>b DEF Run
    <3>5. Run(tail)' = Run(tail) BY <1>1, <1>4, <3>3, <3>4 DEF Run
    <3> QED BY <1>0, <1>b, <3>5 DEF Covered
  <2> QED BY <1>0, <1>a, <1>b, <1>1, <2>2, <2>4, <2>5 DEF Covered
<1>13. Finished' /\ Counted' /\ Tallied' /\ Kept' BY <1>a, <1>b, Reading
<1> QED BY <1>6, <1>7, <1>8, <1>9, <1>10, <1>12, <1>13 DEF IInv

-----------------------------------------------------------------------------
(* The writer thread *)

\* While chunks wait an entry is being read, so its file is open.
LEMMA WaitingFor ==
  ASSUME IInv, count > 0
  PROVE  /\ pc \in Filling \cup {"begin", "drain"} /\ threaded
         /\ f # None /\ n \in Entries /\ Exists(f) /\ IsFill(card[f], n)
         /\ nslots \in Nat \ {0} /\ count \in 1..nslots /\ tail \in 0..nslots - 1
         /\ Waiting(tail)
<1>0. Types /\ Shape /\ Walk /\ Blended BY DEF IInv
<1>1. pc \in Filling \cup {"begin", "drain"} /\ threaded BY <1>0 DEF Shape
<1>2. f # None /\ n \in Entries /\ Exists(f) /\ IsFill(card[f], n)
  BY <1>0, <1>1 DEF Walk, Blended
<1>3. nslots \in Nat /\ count \in 1..nslots BY <1>0, Constants DEF Types, Shape
<1>4. tail \in 0..nslots - 1 /\ Waiting(tail) BY <1>0, <1>3, RingFacts
<1> QED BY <1>1, <1>2, <1>3, <1>4

LEMMA WriterTakeStep ==
  ASSUME IInv, WriterTake
  PROVE  IInv'
<1> USE DEF WriterTake
<1>0. Types /\ Shape /\ Walk /\ Covered BY DEF IInv
<1>1. pc \in Active /\ f # None /\ n \in Entries BY WaitingFor
<1>2. Types' BY <1>0 DEF Types
<1>3. Shape' /\ Walk' BY <1>0, WaitingFor DEF Shape, Walk
<1>4. Blended' /\ Queued' /\ (\A o : Placed(o)' <=> Placed(o)) BY Still DEF IInv
<1>5. PutSoFar' = PutSoFar /\ Held' = Held BY DEF PutSoFar, Held
<1>6. Covered' BY <1>0, <1>4, <1>5 DEF Covered
<1>7. Finished' /\ Counted' /\ Tallied' /\ Kept' BY <1>1, Reading
<1> QED BY <1>2, <1>3, <1>4, <1>6, <1>7 DEF IInv

LEMMA WriterExitStep ==
  ASSUME IInv, WriterExit
  PROVE  IInv'
<1> USE DEF WriterExit
<1>0. /\ Types /\ Shape /\ Walk /\ Covered /\ Blended /\ Queued
      /\ Finished /\ Counted /\ Tallied /\ Kept
  BY DEF IInv
<1>2. Types' BY <1>0 DEF Types
<1>3. Shape' /\ Walk' BY <1>0 DEF Shape, Walk
<1>4. Blended' /\ Queued' /\ (\A o : Placed(o)' <=> Placed(o)) BY Still DEF IInv
<1>5. PutSoFar' = PutSoFar /\ Held' = Held BY DEF PutSoFar, Held
<1>6. Covered' BY <1>0, <1>4, <1>5 DEF Covered
<1>7. \A i : Unpacked(i)' = Unpacked(i) BY DEF Unpacked
<1>8. Finished' BY <1>0 DEF Finished
<1>9. Counted' BY <1>0, <1>7 DEF Counted
<1>10. Tallied' BY <1>0 DEF Tallied
<1>11. Kept' BY <1>0, <1>7 DEF Kept
<1> QED BY <1>2, <1>3, <1>4, <1>6, <1>8, <1>9, <1>10, <1>11 DEF IInv

LEMMA WriterWriteStep ==
  ASSUME IInv, WriterWrite
  PROVE  IInv'
<1> DEFINE m == slots[tail].len
           at == slots[tail].offset
           data == SubSeq(slots[tail].data, 1, m)
<1>a. /\ wpc = "write" /\ wpc' = "pop" /\ DoWrite(data, at)
      /\ UNCHANGED <<src, mode, ring, f, pc, ret, n, k, chunk, entry, tally>>
  BY DEF WriterWrite
<1>0. Types /\ Shape /\ Walk /\ Covered /\ Blended /\ Queued BY DEF IInv
<1>1. count > 0 BY <1>0, <1>a DEF Shape
<1>2. /\ pc \in Filling \cup {"begin", "drain"} /\ threaded
      /\ f # None /\ n \in Entries /\ Exists(f) /\ IsFill(card[f], n)
      /\ nslots \in Nat \ {0} /\ count \in 1..nslots /\ tail \in 0..nslots - 1
      /\ Waiting(tail)
  BY <1>1, WaitingFor
<1>3. m \in 0..SlotSz /\ at \in Nat /\ slots[tail].data \in [1..SlotSz -> Blocks \cup {None}]
  BY <1>0, <1>2, SlotTypes
<1>4. Len(data) = m /\ IsRun(data, n, at, m) /\ m \in Nat
  <2>1. IsRun(slots[tail].data, n, at, m) BY <1>0, <1>2 DEF Queued
  <2>2. \A j \in 1..m : slots[tail].data[j] \in Blocks \cup {None} BY <1>3, Constants
  <2>3. m \in Nat BY <1>3, Constants
  <2> QED BY <2>1, <2>2, <2>3, SlotData
<1>5. /\ DOMAIN card' = DOMAIN card /\ card' = [p \in DOMAIN card' |-> card'[p]]
      /\ \A p \in DOMAIN card : p # f => card'[p] = card[p]
      /\ \A p \in DOMAIN card' : \E i \in {0} \cup Entries : IsFill(card'[p], i)
      /\ IsFill(card'[f], n)
      /\ pos' \in Nat /\ disk_fail' \in BOOLEAN /\ (disk_fail => disk_fail')
      /\ ~disk_fail' => /\ ~disk_fail
                        /\ \A o : o \in DOMAIN card'[f] <=>
                             o \in DOMAIN card[f] \/ o \in at .. at + Len(data) - 1
  <2> HIDE DEF data, m, at
  <2> QED BY <1>0, <1>2, <1>3, <1>4, <1>a, Written
<1>6. ~disk_fail' => /\ ~disk_fail
                     /\ \A o : o \in DOMAIN card'[f] <=> o \in DOMAIN card[f] \/ o \in Run(tail)
  BY <1>4, <1>5 DEF Run
<1>b. UNCHANGED <<src, mode, ring, f, pc, ret, n, k, chunk, entry, tally>> /\ wpc' = "pop"
  BY <1>a
<1> HIDE DEF m, at, data
<1>7. Types' BY <1>0, <1>b, <1>5 DEF Types
<1>8. Shape' BY <1>0, <1>1, <1>b, <1>2 DEF Shape
<1>9. Walk' BY <1>0, <1>b, <1>5 DEF Walk
<1>10. Blended' BY <1>b, <1>5 DEF Blended
<1>11. (\A s : Waiting(s)' <=> Waiting(s)) /\ (\A s : Run(s)' = Run(s))
  BY <1>b DEF Waiting, Run
<1>12. Queued' BY <1>0, <1>b, <1>11 DEF Queued
<1>13. Covered'
  <2>1. ASSUME ~disk_fail', NEW o PROVE Placed(o)' <=> Placed(o)
    <3>1. o \in DOMAIN card'[f]
            <=> o \in DOMAIN card[f] \/ (Waiting(tail) /\ o \in Run(tail))
      BY <1>2, <1>6, <2>1
    <3> QED BY <1>2, <1>b, <1>11, <3>1 DEF Placed
  <2>2. PutSoFar' = PutSoFar /\ Held' = Held BY <1>b DEF PutSoFar, Held
  <2>3. ok' /\ ~disk_fail' =>
          \A o \in Nat : Placed(o)' <=> \E j \in 1..PutSoFar' : Archive[n'].at[j] = o
    BY <1>0, <1>b, <1>2, <1>6, <2>1, <2>2 DEF Covered
  <2>4. ~disk_fail' => \A o \in Run(tail)' : o \in DOMAIN card'[f']
    BY <1>b, <1>6, <1>11
  <2> QED BY <1>0, <1>b, <1>2, <2>2, <2>3, <2>4 DEF Covered
<1>14. Finished' /\ Counted' /\ Tallied' /\ Kept' BY <1>b, <1>2, <1>5, Reading
<1> QED BY <1>7, <1>8, <1>9, <1>10, <1>12, <1>13, <1>14 DEF IInv

LEMMA WriterPopStep ==
  ASSUME IInv, WriterPop
  PROVE  IInv'
<1>a. /\ wpc = "pop" /\ tail' = (tail + 1) % nslots /\ count' = count - 1 /\ wpc' = "wait"
      /\ UNCHANGED <<disk, mode, slots, head, stop, file, pc, ret, n, k, chunk, entry, tally, mishaps>>
  BY DEF WriterPop
<1>0. Types /\ Shape /\ Walk /\ Covered /\ Blended /\ Queued BY DEF IInv
<1>1. count > 0 BY <1>0, <1>a DEF Shape
<1>2. /\ pc \in Filling \cup {"begin", "drain"} /\ threaded
      /\ f # None /\ n \in Entries /\ Exists(f) /\ IsFill(card[f], n)
      /\ nslots \in Nat \ {0} /\ count \in 1..nslots /\ tail \in 0..nslots - 1
      /\ Waiting(tail)
  BY <1>1, WaitingFor
<1>3. /\ tail' \in 0..nslots - 1
      /\ Place(nslots, tail', count - 1) = Place(nslots, tail, count)
      /\ \A s \in 0..nslots - 1 : InRing(nslots, tail, count, s)
                                    <=> InRing(nslots, tail', count - 1, s) \/ s = tail
  <2> DEFINE u == (tail + 1) % nslots
  <2>1. /\ u \in 0..nslots - 1
        /\ Place(nslots, u, count - 1) = Place(nslots, tail, count)
        /\ \A s \in 0..nslots - 1 : InRing(nslots, tail, count, s)
                                      <=> InRing(nslots, u, count - 1, s) \/ s = tail
    BY <1>2, RingShrinks
  <2> QED BY <1>a, <2>1
<1>4. \A s \in 0..nslots - 1 : Waiting(s) <=> Waiting(s)' \/ s = tail
  <2>1. \A s : Waiting(s)' <=> InRing(nslots, tail', count - 1, s) BY <1>a DEF Waiting
  <2> QED BY <1>3, <2>1 DEF Waiting
<1>5. count' \in 0..nslots - 1 /\ count' \in Nat /\ tail' \in Nat BY <1>a, <1>2, <1>3
<1>6. Types' BY <1>0, <1>a, <1>5 DEF Types
<1>7. Shape' BY <1>0, <1>a, <1>2, <1>3, <1>5 DEF Shape
<1>8. Walk' BY <1>0, <1>a DEF Walk
<1>9. Blended' BY <1>0, <1>a DEF Blended
<1>10. Queued' BY <1>0, <1>a, <1>2, <1>4 DEF Queued
<1>11. \A s : Run(s)' = Run(s) BY <1>a DEF Run
<1>12. Covered'
  <2>1. ASSUME ~disk_fail', NEW o PROVE Placed(o)' <=> Placed(o)
    <3>1. \A p \in Run(tail) : p \in DOMAIN card[f] BY <1>0, <1>a, <2>1 DEF Covered
    <3> QED BY <1>2, <1>a, <1>4, <1>11, <3>1 DEF Placed
  <2>2. PutSoFar' = PutSoFar /\ Held' = Held BY <1>a DEF PutSoFar, Held
  <2>3. ok' /\ ~disk_fail' =>
          \A o \in Nat : Placed(o)' <=> \E j \in 1..PutSoFar' : Archive[n'].at[j] = o
    BY <1>0, <1>a, <1>2, <2>1, <2>2 DEF Covered
  <2> QED BY <1>0, <1>a, <1>2, <2>2, <2>3 DEF Covered
<1>13. Finished' /\ Counted' /\ Tallied' /\ Kept' BY <1>a, <1>2, Reading
<1> QED BY <1>6, <1>7, <1>8, <1>9, <1>10, <1>12, <1>13 DEF IInv

-----------------------------------------------------------------------------
(* From entry to entry *)

\* The conditions on what the card holds.
CardTypes ==
  /\ DOMAIN card \subseteq Paths /\ card = [p \in DOMAIN card |-> card[p]]
  /\ \A p \in DOMAIN card : \E i \in {0} \cup Entries : IsFill(card[p], i)

LEMMA CardRemoved ==
  ASSUME Types, NEW p, card' = Removed(p)
  PROVE  /\ DOMAIN card' = DOMAIN card \ {p}
         /\ \A q \in DOMAIN card' : card'[q] = card[q]
         /\ CardTypes'
<1>1. card' = [q \in DOMAIN card \ {p} |-> card[q]] BY DEF Removed, Restrict
<1>2. DOMAIN card' = DOMAIN card \ {p} /\ \A q \in DOMAIN card' : card'[q] = card[q]
  BY <1>1
<1>3. card' = [q \in DOMAIN card' |-> card'[q]] BY <1>1
<1> QED BY <1>2, <1>3 DEF Types, CardTypes

\* Without an open file nothing waits, and nothing is said of the file.
LEMMA Closed ==
  ASSUME f' = None, pc' \notin Active, wpc' # "pop"
  PROVE  Blended' /\ Queued' /\ Covered'
<1>1. Blended' /\ Queued' BY DEF Blended, Queued
<1>2. ~Held' BY DEF Held
<1>3. Covered' BY <1>2 DEF Covered
<1> QED BY <1>1, <1>3

LEMMA OpenStep ==
  ASSUME IInv, Open
  PROVE  IInv'
<1> DEFINE p == Path(n')
<1>a. /\ pc = "header" /\ n < Len(Archive) /\ n' = n + 1
      /\ card' = Put(p, <<>>) /\ f' = p
      /\ pos' = 0 /\ k' = 0 /\ fill' = 0 /\ run_off' = 0
      /\ ok' = TRUE /\ cancelled' = FALSE /\ pc' = "read"
      /\ UNCHANGED <<src, mode, ring, disk_fail, ret, tally, wpc, mishaps>>
  BY DEF Open
<1>0. Types /\ Shape /\ Walk /\ Counted /\ Tallied /\ Kept BY DEF IInv
<1>1. f = None /\ count = 0 /\ wpc \notin {"write", "pop"} BY <1>0, <1>a DEF Walk, Shape, Types
<1>2. n' \in Entries /\ n' \in 1..Len(Archive) /\ n \in Nat BY <1>0, <1>a, Constants DEF Types
<1>3. /\ p \in {Out(n'), Tmp(n')} /\ (p = Tmp(n') => Exists(Out(n')))
      /\ (p = Out(n') => ~Exists(Out(n')))
  BY PathFacts DEF Path
<1>4. p \in Paths /\ p # None BY <1>2, <1>3, PathFacts
<1> HIDE DEF p
<1>5. /\ DOMAIN card' = DOMAIN card \cup {p} /\ card'[p] = <<>>
      /\ card' = [q \in DOMAIN card' |-> card'[q]]
      /\ \A q \in DOMAIN card : q # p => card'[q] = card[q]
  BY <1>a DEF Put
<1>6. \A i : IsFill(<<>>, i) /\ DOMAIN <<>> = {} BY NothingIsFill
<1>7. Types'
  <2>1. \A q \in DOMAIN card' : \E i \in {0} \cup Entries : IsFill(card'[q], i)
    BY <1>0, <1>5, <1>6 DEF Types
  <2>2. n' \in 0..Len(Archive) /\ 0 \in 0..SlotSz BY <1>2, Constants
  <2>3. done' \subseteq 1..n' /\ skipped' \subseteq 1..n'
    <3>1. 1..n \subseteq 1..n' BY <1>a, <1>2
    <3> QED BY <1>0, <1>a, <3>1 DEF Types
  <2>4. DOMAIN card' \subseteq Paths BY <1>0, <1>4, <1>5 DEF Types
  <2> QED BY <1>0, <1>a, <1>4, <1>5, <2>1, <2>2, <2>3, <2>4 DEF Types
<1>8. Shape'
  <2>1. threaded => count' < nslots' BY <1>0, <1>1, <1>a, Constants DEF Shape, Types
  <2> QED BY <1>0, <1>1, <1>a, <2>1 DEF Shape
<1>9. Walk'
  <2>1. 0 < SlotSz BY Constants
  <2> QED BY <1>a, <1>2, <1>3, <1>4, <1>5, <2>1 DEF Walk
<1>10. \A s \in 0..nslots' - 1 : ~Waiting(s)'
  <2>1. \A s \in 0..nslots - 1 : ~Waiting(s) BY <1>0, <1>1, RingFacts
  <2> QED BY <1>a, <2>1 DEF Waiting
<1>11. Blended' BY <1>a, <1>5, <1>6 DEF Blended
<1>12. Queued' BY <1>a, <1>10 DEF Queued
<1>13. Covered'
  <2>1. ~Held' /\ PutSoFar' = 0 BY <1>a DEF Held, PutSoFar
  <2>2. \A o \in Nat : ~Placed(o)'
    <3>1. DOMAIN card'[f'] = {} BY <1>a, <1>5, <1>6
    <3>2. run_off' .. run_off' + fill' - 1 = {} BY <1>a
    <3> QED BY <1>10, <3>1, <3>2 DEF Placed
  <2>3. 0 <= Len(Archive[n'].at) BY <1>2, Constants
  <2>4. 1..PutSoFar' = {} BY <2>1
  <2> QED BY <1>a, <1>1, <2>1, <2>2, <2>3, <2>4 DEF Covered
<1>14. Finished' BY <1>a DEF Finished
<1>15. Counted'
  <2>1. ASSUME ~(RenameFails /\ incomplete'), NEW i \in done'
        PROVE  f' # Out(i) /\ Unpacked(i)'
    <3>1. Unpacked(i) BY <1>0, <1>a, <2>1 DEF Counted
    <3>2. Out(i) # p
      <4>1. CASE p = Tmp(n') BY <4>1, PathFacts
      <4>2. CASE p = Out(n') BY <4>2, <1>3, <3>1 DEF Unpacked
      <4> QED BY <1>3, <4>1, <4>2
    <3> QED BY <1>a, <1>5, <3>1, <3>2 DEF Unpacked
  <2> QED BY <2>1 DEF Counted
<1>16. Tallied'
  <2>1. \A i \in 1..n' : i \in 1..n \/ i = n' BY <1>a, <1>2
  <2> QED BY <1>0, <1>a, <2>1 DEF Tallied
<1>17. Kept' BY <1>0, <1>a DEF Kept
<1> QED BY <1>7, <1>8, <1>9, <1>11, <1>12, <1>13, <1>14, <1>15, <1>16, <1>17 DEF IInv

LEMMA SkipStep ==
  ASSUME IInv, Skip
  PROVE  IInv'
<1> USE DEF Skip
<1>0. Types /\ Shape /\ Walk /\ Counted /\ Tallied /\ Kept BY DEF IInv
<1>1. f = None /\ wpc \notin {"write", "pop"} BY <1>0 DEF Walk, Shape, Types
<1>2. n' \in 1..Len(Archive) /\ n \in Nat BY <1>0, Constants DEF Types
<1>3. \A i \in 1..n' : i \in 1..n \/ i = n' BY <1>2
<1>4. Types'
  <2>1. 1..n \subseteq 1..n' /\ n' \in 1..n' BY <1>2
  <2>2. done' \subseteq 1..n' /\ skipped' \subseteq 1..n' BY <1>0, <2>1 DEF Types
  <2> QED BY <1>0, <1>2, <2>2 DEF Types
<1>5. Shape' /\ Walk' BY <1>0, <1>1 DEF Shape, Walk
<1>6. Blended' /\ Queued' /\ Covered' BY <1>1, Closed
<1>7. Finished' BY DEF Finished
<1>8. Counted'
  <2>1. \A i : Unpacked(i)' = Unpacked(i) BY DEF Unpacked
  <2> QED BY <1>0, <2>1 DEF Counted
<1>9. Tallied' BY <1>0, <1>3 DEF Tallied
<1>10. Kept' BY <1>0 DEF Kept
<1> QED BY <1>4, <1>5, <1>6, <1>7, <1>8, <1>9, <1>10 DEF IInv

LEMMA EndOfArchiveStep ==
  ASSUME IInv, EndOfArchive
  PROVE  IInv'
<1> USE DEF EndOfArchive
<1>0. Types /\ Shape /\ Walk /\ Counted /\ Tallied /\ Kept BY DEF IInv
<1>1. f = None /\ wpc \notin {"write", "pop"} BY <1>0 DEF Walk, Shape, Types
<1>2. Types' BY ZenonT(30), <1>0 DEF Types
<1>3. Shape' /\ Walk' BY <1>0, <1>1 DEF Shape, Walk
<1>4. Blended' /\ Queued' /\ Covered' BY <1>1, Closed
<1>5. Finished' BY DEF Finished
<1>6. Counted'
  <2>1. \A i : Unpacked(i)' = Unpacked(i) BY DEF Unpacked
  <2>2. ~(RenameFails /\ incomplete') => ~(RenameFails /\ incomplete) BY Constants
  <2> QED BY <1>0, <2>1, <2>2 DEF Counted
<1>7. Tallied' BY <1>0 DEF Tallied
<1>8. Kept' BY <1>0 DEF Kept
<1> QED BY <1>2, <1>3, <1>4, <1>5, <1>6, <1>7, <1>8 DEF IInv

\* When an entry is closed without an error its file is whole.
LEMMA FileIsWhole ==
  ASSUME IInv, pc = "close", ok
  PROVE  Exists(f) /\ card[f] = Whole(n)
<1>0. Types /\ Shape /\ Walk /\ Covered /\ Blended BY DEF IInv
<1>1. /\ f # None /\ n \in Entries /\ Exists(f) /\ IsFill(card[f], n) /\ count = 0
      /\ fill = 0 /\ k = Len(Archive[n].at) /\ ~disk_fail /\ run_off \in Nat
  BY <1>0 DEF Types, Shape, Walk, Covered, Blended
<1>2. \A s \in 0..nslots - 1 : ~Waiting(s) BY <1>0, <1>1, RingFacts
<1>3. run_off .. run_off + fill - 1 = {} BY <1>1
<1>4. \A o : Placed(o) <=> o \in DOMAIN card[f] BY <1>2, <1>3 DEF Placed
<1>5. PutSoFar = Len(Archive[n].at) BY <1>1 DEF PutSoFar, Held
<1>6. \A o \in Nat : o \in DOMAIN card[f] <=> \E j \in 1..Len(Archive[n].at) : Archive[n].at[j] = o
  BY <1>0, <1>1, <1>4, <1>5 DEF Covered
<1>7. card[f] = Whole(n) BY <1>1, <1>6, FilledIsWhole
<1> QED BY <1>1, <1>7

LEMMA CloseStep ==
  ASSUME IInv, Close
  PROVE  IInv'
<1>a. /\ pc = "close" /\ f' = None
      /\ card' = IF ok' THEN card ELSE Removed(f)
      /\ incomplete' = (incomplete \/ ~ok')
      /\ pc' = CASE ok' /\ f = Tmp(n) -> "swap"
                 [] ok' /\ f = Out(n) -> "count"
                 [] ~ok' /\ (cancelled \/ disk_fail') -> "stop"
                 [] OTHER -> "header"
      /\ UNCHANGED <<src, mode, ring, pos, ret, n, k, chunk, cancelled, done, skipped, wpc>>
  BY DEF Close
<1>0. Types /\ Shape /\ Walk /\ Counted /\ Tallied /\ Kept BY DEF IInv
<1>b. /\ ok' \in BOOLEAN /\ disk_fail' \in BOOLEAN
      /\ ok' => ok
  <2>1. \/ ok' = ok /\ disk_fail' = disk_fail
        \/ ok' = FALSE /\ disk_fail' = TRUE
    BY DEF Close
  <2>2. ok \in BOOLEAN /\ disk_fail \in BOOLEAN BY <1>0 DEF Types
  <2>3. CASE ok' = ok /\ disk_fail' = disk_fail
    <3>1. ok' \in BOOLEAN /\ disk_fail' \in BOOLEAN BY <2>2, <2>3
    <3>2. ok' => ok BY <2>3
    <3> QED BY <3>1, <3>2
  <2>4. CASE ok' = FALSE /\ disk_fail' = TRUE BY <2>4
  <2> QED BY <2>1, <2>3, <2>4
<1>1. /\ n \in Entries /\ f \in {Out(n), Tmp(n)} /\ f # None /\ Exists(f) /\ count = 0
      /\ wpc \notin {"write", "pop"} /\ (f = Tmp(n) => Exists(Out(n)))
  BY <1>0, <1>a DEF Walk, Shape, Types
<1>2. Out(n) # Tmp(n) BY PathFacts
<1>3. /\ ok' /\ f = Tmp(n) => pc' = "swap"
      /\ ok' /\ f = Out(n) => pc' = "count"
      /\ ~ok' => pc' \in {"stop", "header"}
  BY <1>a, <1>2
<1>4. pc' \in {"swap", "count", "stop", "header"} BY <1>1, <1>3
<1>5. /\ CardTypes' /\ DOMAIN card' \subseteq DOMAIN card
      /\ \A q \in DOMAIN card : q # f => q \in DOMAIN card' /\ card'[q] = card[q]
  <2>1. CASE ok'
    <3>1. card' = card BY <1>a, <2>1
    <3> QED BY <1>0, <3>1 DEF Types, CardTypes
  <2>2. CASE ~ok'
    <3>1. card' = Removed(f) BY <1>a, <2>2
    <3>2. /\ DOMAIN card' = DOMAIN card \ {f} /\ CardTypes'
          /\ \A q \in DOMAIN card' : card'[q] = card[q]
      BY <1>0, <3>1, CardRemoved
    <3> QED BY <3>2
  <2> QED BY <2>1, <2>2
<1>6. Types'
  <2>1. incomplete' \in BOOLEAN BY <1>0, <1>a, <1>b DEF Types
  <2> QED BY <1>0, <1>a, <1>b, <1>4, <1>5, <2>1 DEF Types, CardTypes
<1>7. Shape' BY <1>0, <1>a, <1>1, <1>4 DEF Shape
<1>8. Walk' BY <1>a, <1>1, <1>4 DEF Walk
<1>9. Blended' /\ Queued' /\ Covered' BY <1>a, <1>1, <1>4, Closed
<1>10. Finished'
  <2>1. CASE ok'
    <3>1. card' = card /\ n' = n BY <1>a, <2>1
    <3>2. card[f] = Whole(n) BY <1>a, <1>b, <2>1, FileIsWhole
    <3> QED BY <1>1, <1>2, <1>3, <2>1, <3>1, <3>2 DEF Finished
  <2>2. CASE ~ok' BY <1>3, <2>2 DEF Finished
  <2> QED BY <2>1, <2>2
<1>11. Counted'
  <2>1. ASSUME ~(RenameFails /\ incomplete'), NEW i \in done'
        PROVE  f' # Out(i) /\ Unpacked(i)'
    <3>1. f # Out(i) /\ Unpacked(i) BY <1>0, <1>a, <1>b, <2>1, Constants DEF Counted
    <3>2. i \in Entries BY <1>0, <1>a, <2>1, <1>1, Constants DEF Types
    <3>3. f' # Out(i) BY <1>a, <3>2, PathFacts
    <3>4. Unpacked(i)' BY <1>5, <3>1 DEF Unpacked
    <3> QED BY <3>3, <3>4
  <2> QED BY <2>1 DEF Counted
<1>12. Tallied'
  <2>1. ~incomplete' => ok' /\ ~incomplete BY <1>a, <1>b
  <2> QED BY <1>0, <1>a, <1>1, <1>3, <2>1 DEF Tallied
<1>13. Kept' BY <1>0, <1>a DEF Kept
<1> QED BY <1>6, <1>7, <1>8, <1>9, <1>10, <1>11, <1>12, <1>13 DEF IInv

LEMMA SwapStep ==
  ASSUME IInv, Swap
  PROVE  IInv'
<1>a. /\ pc = "swap"
      /\ UNCHANGED <<src, mode, ring, file, ret, n, k, chunk, entry, done, skipped, wpc>>
  BY DEF Swap
<1>b. \/ card' = Removed(Out(n)) /\ pc' = "rename" /\ incomplete' = incomplete
      \/ card' = Removed(Tmp(n)) /\ pc' = "header" /\ incomplete' = TRUE
  BY DEF Swap
<1>0. Types /\ Shape /\ Walk /\ Finished /\ Counted /\ Tallied /\ Kept BY DEF IInv
<1>1. /\ n \in Entries /\ f = None /\ wpc \notin {"write", "pop"} /\ Out(n) # Tmp(n)
      /\ Exists(Tmp(n)) /\ card[Tmp(n)] = Whole(n)
  BY <1>0, <1>a, PathFacts DEF Walk, Shape, Types, Finished
<1>2. CardTypes' BY <1>0, <1>b, CardRemoved
<1>3. pc' \in {"rename", "header"} /\ incomplete' \in BOOLEAN BY <1>0, <1>b DEF Types
<1>4. Types' BY <1>0, <1>a, <1>2, <1>3 DEF Types, CardTypes
<1>5. Shape' BY <1>0, <1>a, <1>3 DEF Shape
<1>6. Walk' BY <1>a, <1>1, <1>3 DEF Walk
<1>7. Blended' /\ Queued' /\ Covered' BY <1>a, <1>1, <1>3, Closed
<1>9. CASE card' = Removed(Out(n)) /\ pc' = "rename" /\ incomplete' = incomplete
  <2>1. /\ DOMAIN card' = DOMAIN card \ {Out(n)}
        /\ \A q \in DOMAIN card' : card'[q] = card[q]
    BY <1>0, <1>9, CardRemoved
  <2>2. Finished' BY <1>a, <1>1, <1>9, <2>1 DEF Finished
  <2>3. Counted'
    <3>1. ASSUME ~(RenameFails /\ incomplete'), NEW i \in done', Out(i) # Out(n)
          PROVE  f' # Out(i) /\ Unpacked(i)'
      <4>1. f # Out(i) /\ Unpacked(i) BY <1>0, <1>a, <1>9, <3>1 DEF Counted
      <4>2. Unpacked(i)' BY <2>1, <3>1, <4>1 DEF Unpacked
      <4> QED BY <1>a, <4>1, <4>2
    <3> QED BY <1>a, <1>9, <3>1 DEF Counted
  <2>4. Tallied' BY <1>0, <1>a, <1>9 DEF Tallied
  <2>5. Kept' BY <1>0, <1>a DEF Kept
  <2> QED BY <1>4, <1>5, <1>6, <1>7, <2>2, <2>3, <2>4, <2>5 DEF IInv
<1>10. CASE card' = Removed(Tmp(n)) /\ pc' = "header" /\ incomplete' = TRUE
  <2>1. /\ DOMAIN card' = DOMAIN card \ {Tmp(n)}
        /\ \A q \in DOMAIN card' : card'[q] = card[q]
    BY <1>0, <1>10, CardRemoved
  <2>2. Finished' BY <1>10 DEF Finished
  <2>3. Counted'
    <3>1. ASSUME ~(RenameFails /\ incomplete'), NEW i \in done'
          PROVE  f' # Out(i) /\ Unpacked(i)'
      <4>1. f # Out(i) /\ Unpacked(i) BY <1>0, <1>a, <1>10, <3>1 DEF Counted
      <4>2. Out(i) # Tmp(n) BY PathFacts
      <4>3. Unpacked(i)' BY <2>1, <4>1, <4>2 DEF Unpacked
      <4> QED BY <1>a, <4>1, <4>3
    <3> QED BY <3>1 DEF Counted
  <2>4. Tallied' BY <1>10 DEF Tallied
  <2>5. Kept' BY <1>0, <1>a DEF Kept
  <2> QED BY <1>4, <1>5, <1>6, <1>7, <2>2, <2>3, <2>4, <2>5 DEF IInv
<1> QED BY <1>b, <1>9, <1>10

LEMMA RenameStep ==
  ASSUME IInv, Rename
  PROVE  IInv'
<1> DEFINE Renamed == [q \in (DOMAIN card \ {Tmp(n)}) \cup {Out(n)} |->
                         IF q = Out(n) THEN card[Tmp(n)] ELSE card[q]]
<1>a. /\ pc = "rename"
      /\ UNCHANGED <<src, mode, ring, file, ret, n, k, chunk, entry, done, skipped, wpc>>
  BY DEF Rename
<1>b. \/ card' = Renamed /\ pc' = "count" /\ incomplete' = incomplete
      \/ RenameFails /\ card' = Removed(Tmp(n)) /\ pc' = "header" /\ incomplete' = TRUE
  BY DEF Rename
<1>0. Types /\ Shape /\ Walk /\ Finished /\ Counted /\ Tallied /\ Kept BY DEF IInv
<1>1. /\ n \in Entries /\ f = None /\ wpc \notin {"write", "pop"} /\ Out(n) # Tmp(n)
      /\ Exists(Tmp(n)) /\ card[Tmp(n)] = Whole(n) /\ Out(n) \in Paths
  BY <1>0, <1>a, PathFacts DEF Walk, Shape, Types, Finished
<1>2. CASE card' = Renamed /\ pc' = "count" /\ incomplete' = incomplete
  <2>1. /\ DOMAIN card' = (DOMAIN card \ {Tmp(n)}) \cup {Out(n)}
        /\ card' = [q \in DOMAIN card' |-> card'[q]]
        /\ card'[Out(n)] = Whole(n)
        /\ \A q \in DOMAIN card' : q # Out(n) => q \in DOMAIN card /\ card'[q] = card[q]
    BY <1>1, <1>2
  <2> HIDE DEF Renamed
  <2>2. \A q \in DOMAIN card' : \E i \in {0} \cup Entries : IsFill(card'[q], i)
    <3> SUFFICES ASSUME NEW q \in DOMAIN card'
                 PROVE \E i \in {0} \cup Entries : IsFill(card'[q], i) OBVIOUS
    <3>1. CASE q = Out(n) BY <1>1, <2>1, <3>1, WholeIsFill
    <3>2. CASE q # Out(n) BY <1>0, <2>1, <3>2 DEF Types
    <3> QED BY <3>1, <3>2
  <2>3. Types' BY <1>0, <1>a, <1>1, <1>2, <2>1, <2>2 DEF Types
  <2>4. Shape' BY <1>0, <1>a, <1>2 DEF Shape
  <2>5. Walk' BY <1>a, <1>1, <1>2 DEF Walk
  <2>6. Blended' /\ Queued' /\ Covered' BY <1>a, <1>1, <1>2, Closed
  <2>7. Finished' BY <1>a, <1>1, <1>2, <2>1 DEF Finished
  <2>8. Counted'
    <3>1. ASSUME ~(RenameFails /\ incomplete'), NEW i \in done'
          PROVE  f' # Out(i) /\ Unpacked(i)'
      <4>0. i \in Entries BY <1>0, <1>a, <3>1, <1>1, Constants DEF Types
      <4>1. f' # Out(i) BY <1>a, <1>1, <4>0, PathFacts
      <4>2. CASE Out(i) = Out(n)
        <5>1. Archive[n].name = Archive[i].name BY <4>2, PathFacts
        <5>2. Out(n) \in DOMAIN card' BY <2>1
        <5>3. Out(i) \in DOMAIN card' /\ card'[Out(i)] = Whole(n) BY <2>1, <4>2, <5>2
        <5> QED BY <1>1, <4>1, <5>1, <5>3 DEF Unpacked
      <4>3. CASE Out(i) # Out(n)
        <5>1. Unpacked(i) BY <1>0, <1>a, <1>2, <3>1, <4>3 DEF Counted
        <5>2. Out(i) # Tmp(n) BY PathFacts
        <5>3. Out(i) \in DOMAIN card BY <5>1 DEF Unpacked
        <5>4. Out(i) \in DOMAIN card' BY <2>1, <4>3, <5>2, <5>3
        <5>5. card'[Out(i)] = card[Out(i)] BY <2>1, <4>3, <5>4
        <5> QED BY <4>1, <5>1, <5>4, <5>5 DEF Unpacked
      <4> QED BY <4>1, <4>2, <4>3
    <3> QED BY <3>1 DEF Counted
  <2>9. Tallied' BY <1>0, <1>a, <1>2 DEF Tallied
  <2>10. Kept' BY <1>0, <1>a DEF Kept
  <2> QED BY <2>3, <2>4, <2>5, <2>6, <2>7, <2>8, <2>9, <2>10 DEF IInv
<1>3. CASE RenameFails /\ card' = Removed(Tmp(n)) /\ pc' = "header" /\ incomplete' = TRUE
  <2>1. CardTypes' BY <1>0, <1>3, CardRemoved
  <2>2. Types' BY <1>0, <1>a, <1>3, <2>1 DEF Types, CardTypes
  <2>3. Shape' BY <1>0, <1>a, <1>3 DEF Shape
  <2>4. Walk' BY <1>a, <1>1, <1>3 DEF Walk
  <2>5. Blended' /\ Queued' /\ Covered' BY <1>a, <1>1, <1>3, Closed
  <2>6. Finished' BY <1>3 DEF Finished
  <2>7. Counted' BY <1>3 DEF Counted
  <2>8. Tallied' BY <1>3 DEF Tallied
  <2>9. Kept' BY <1>0, <1>a DEF Kept
  <2> QED BY <2>2, <2>3, <2>4, <2>5, <2>6, <2>7, <2>8, <2>9 DEF IInv
<1> QED BY <1>b, <1>2, <1>3

LEMMA CountStep ==
  ASSUME IInv, Count
  PROVE  IInv'
<1>a. /\ pc = "count" /\ done' = done \cup {n}
      /\ \/ pc' = "header" /\ incomplete' = incomplete
         \/ pc' = "stop" /\ incomplete' = TRUE
      /\ UNCHANGED <<disk, mode, ring, file, ret, n, k, chunk, entry, skipped, wpc>>
  BY DEF Count
<1>0. Types /\ Shape /\ Walk /\ Finished /\ Counted /\ Tallied /\ Kept BY DEF IInv
<1>1. /\ n \in Entries /\ f = None /\ wpc \notin {"write", "pop"}
      /\ Exists(Out(n)) /\ card[Out(n)] = Whole(n)
  BY <1>0, <1>a DEF Walk, Shape, Types, Finished
<1>2. pc' \in {"header", "stop"} /\ incomplete' \in BOOLEAN BY <1>0, <1>a DEF Types
<1>3. Types'
  <2>1. n \in 1..n BY <1>1, Constants
  <2> QED BY <1>0, <1>a, <1>2, <2>1 DEF Types
<1>4. Shape' BY <1>0, <1>a, <1>2 DEF Shape
<1>5. Walk' BY <1>a, <1>1, <1>2 DEF Walk
<1>6. Blended' /\ Queued' /\ Covered' BY <1>a, <1>1, <1>2, Closed
<1>7. Finished' BY <1>2 DEF Finished
<1>8. Counted'
  <2>1. ASSUME ~(RenameFails /\ incomplete'), NEW i \in done'
        PROVE  f' # Out(i) /\ Unpacked(i)'
    <3>1. \A j : Unpacked(j)' = Unpacked(j) BY <1>a DEF Unpacked
    <3>2. CASE i = n
      <4>1. f # Out(n) BY <1>1, PathFacts
      <4>2. Unpacked(n) BY <1>1 DEF Unpacked
      <4> QED BY <1>a, <3>1, <3>2, <4>1, <4>2
    <3>3. CASE i # n
      <4>1. f # Out(i) /\ Unpacked(i) BY <1>0, <1>a, <2>1, <3>3 DEF Counted
      <4> QED BY <1>a, <3>1, <4>1
    <3> QED BY <3>2, <3>3
  <2> QED BY <2>1 DEF Counted
<1>9. Tallied' BY <1>0, <1>a DEF Tallied
<1>10. Kept' BY <1>0, <1>a DEF Kept
<1> QED BY <1>3, <1>4, <1>5, <1>6, <1>7, <1>8, <1>9, <1>10 DEF IInv

LEMMA StopStep ==
  ASSUME IInv, Stop
  PROVE  IInv'
<1> USE DEF Stop
<1>0. Types /\ Shape /\ Walk /\ Counted /\ Tallied /\ Kept BY DEF IInv
<1>1. f = None /\ wpc \notin {"write", "pop"} BY <1>0 DEF Walk, Shape, Types
<1>2. Types' BY <1>0 DEF Types
<1>3. Shape' /\ Walk' BY <1>0, <1>1 DEF Shape, Walk
<1>4. Blended' /\ Queued' /\ Covered' BY <1>1, Closed
<1>5. Finished' BY DEF Finished
<1>6. \A i : Unpacked(i)' = Unpacked(i) BY DEF Unpacked
<1>7. Counted' BY <1>0, <1>6 DEF Counted
<1>8. Tallied' BY <1>0 DEF Tallied
<1>9. Kept' BY <1>0 DEF Kept
<1> QED BY <1>2, <1>3, <1>4, <1>5, <1>7, <1>8, <1>9 DEF IInv

LEMMA ReturnStep ==
  ASSUME IInv, Return
  PROVE  IInv'
<1>a. /\ pc = "join" /\ pc' = "done" /\ src' = (Result <= 0)
      /\ UNCHANGED <<card, mode, ring, file, ret, n, k, chunk, entry, tally, wpc, mishaps>>
  BY DEF Return
<1>0. Types /\ Shape /\ Walk /\ Counted /\ Tallied /\ Kept BY DEF IInv
<1>1. f = None /\ wpc \notin {"write", "pop"} BY <1>0, <1>a DEF Walk, Shape, Types
<1>2. src' \in BOOLEAN /\ (~src' => ~incomplete)
  <2>1. CASE incomplete
    <3>1. Result = -1 BY <2>1 DEF Result
    <3>2. Result <= 0 BY <3>1
    <3> QED BY <1>a, <3>2
  <2>2. CASE ~incomplete BY <1>a, <2>2
  <2> QED BY <2>1, <2>2
<1>3. Types' BY <1>0, <1>a, <1>2 DEF Types
<1>4. Shape' /\ Walk' BY <1>0, <1>a, <1>1 DEF Shape, Walk
<1>5. Blended' /\ Queued' /\ Covered' BY <1>a, <1>1, Closed
<1>6. Finished' BY <1>a DEF Finished
<1>7. \A i : Unpacked(i)' = Unpacked(i) BY <1>a DEF Unpacked
<1>8. Counted' BY <1>0, <1>a, <1>7 DEF Counted
<1>9. Tallied' BY <1>0, <1>a DEF Tallied
<1>10. Kept'
  <2>1. ASSUME ~src', NEW i \in Entries \ skipped PROVE Unpacked(i)'
    <3>1. i \in done BY <1>0, <1>a, <1>2, <2>1, Constants DEF Tallied
    <3>2. Unpacked(i) BY <1>0, <1>a, <1>2, <2>1, <3>1 DEF Counted
    <3> QED BY <1>7, <3>2
  <2> QED BY <1>a, <2>1 DEF Kept
<1> QED BY <1>3, <1>4, <1>5, <1>6, <1>8, <1>9, <1>10 DEF IInv

-----------------------------------------------------------------------------
(* The theorems *)

\* Every step of the two threads, and a power cut at any time, keeps the
\* invariant.
LEMMA Step == IInv /\ [Next]_vars => IInv'
<1> SUFFICES ASSUME IInv, [Next]_vars PROVE IInv' OBVIOUS
<1>1. CASE Decompress
  <2> USE <1>1 DEF Decompress
  <2> QED BY OpenStep, SkipStep, EndOfArchiveStep, ReadBlockStep, ReadBadStep, ReadEndStep,
             PutThroughStep, PutJumpStep, PutCopyStep, FlushSyncStep, PublishStep, BeginStep,
             ProgressStep, DrainStep, CloseStep, SwapStep, RenameStep, CountStep, StopStep,
             ReturnStep
<1>2. CASE Writer
  BY <1>2, WriterTakeStep, WriterWriteStep, WriterPopStep, WriterExitStep DEF Writer
<1>3. CASE Again BY <1>3, AgainStep
<1>4. CASE UNCHANGED vars
  <2>0. /\ Types /\ Shape /\ Walk /\ Covered /\ Blended /\ Queued
        /\ Finished /\ Counted /\ Tallied /\ Kept
    BY DEF IInv
  <2>1. Types' BY <2>0, <1>4 DEF Types
  <2>2. Shape' /\ Walk' BY <2>0, <1>4 DEF Shape, Walk
  <2>3. Blended' /\ Queued' /\ (\A o : Placed(o)' <=> Placed(o)) BY <2>0, <1>4, Still
  <2>4. PutSoFar' = PutSoFar /\ Held' = Held BY <1>4 DEF PutSoFar, Held
  <2>5. Covered'
    <3>1. UNCHANGED <<card, slots, tail, f, n, k, ok, disk_fail, pc, wpc, ret, fill>> BY <1>4
    <3>2. ok' /\ ~disk_fail' /\ f' # None =>
            \A o \in Nat : Placed(o)' <=> \E j \in 1..PutSoFar' : Archive[n'].at[j] = o
      BY <2>0, <2>3, <2>4, <3>1 DEF Covered
    <3>3. Run(tail)' = Run(tail) BY <3>1 DEF Run
    <3> QED BY <2>0, <2>4, <3>1, <3>2, <3>3 DEF Covered
  <2>6. \A i : Unpacked(i)' = Unpacked(i) BY <1>4 DEF Unpacked
  <2>7. Finished' /\ Tallied' BY <2>0, <1>4 DEF Finished, Tallied
  <2>8. Counted' /\ Kept' BY <2>0, <2>6, <1>4 DEF Counted, Kept
  <2> QED BY <2>1, <2>2, <2>3, <2>5, <2>7, <2>8 DEF IInv
<1> QED BY <1>1, <1>2, <1>3, <1>4 DEF Next

\* The invariant holds in every state extract_archive can be in.
THEOREM Invariance == Spec => []IInv
<1>1. Init => IInv BY Start
<1>2. IInv /\ [Next]_vars => IInv' BY Step
<1> QED BY <1>1, <1>2, PTL DEF Spec

LEMMA FillRange ==
  ASSUME NEW i \in {0} \cup Entries, NEW c, IsFill(c, i)
  PROVE  DOMAIN c \subseteq Nat /\ Range(c) \subseteq Blocks \cup {None}
<1>1. DOMAIN c \subseteq Nat /\ \A o \in DOMAIN c : c[o] = <<i, o>> BY DEF IsFill, Fill
<1>2. \A o \in DOMAIN c : c[o] \in Blocks BY <1>1 DEF Blocks
<1> QED BY <1>1, <1>2 DEF Range

\* The variables of ExWriter, its ring and the walk keep their types; head and
\* tail always name a slot of the ring.
THEOREM TypeCorrect == Spec => []TypeOK
<1>1. IInv => TypeOK
  <2> SUFFICES ASSUME IInv PROVE TypeOK OBVIOUS
  <2>0. Types /\ Shape BY DEF IInv
  <2>1. \A p \in DOMAIN card : DOMAIN card[p] \subseteq Nat /\ Range(card[p]) \subseteq Blocks \cup {None}
    BY <2>0, FillRange DEF Types
  <2>2. DOMAIN slots = 0..nslots - 1 /\ nslots \in Nat BY <2>0, Constants DEF Types
  <2>3. {head, tail} \subseteq {0} \cup DOMAIN slots
    <3>1. CASE nslots > 0 BY <2>0, <2>2, <3>1, RingFacts
    <3>2. CASE nslots = 0
      <4>1. tail = 0 /\ count = 0 BY <2>0, <3>2 DEF Types, Shape
      <4>2. head = 0 BY <2>0, <3>2, <4>1, EmptyRing DEF Shape
      <4> QED BY <4>1, <4>2
    <3> QED BY <2>2, <3>1, <3>2
  <2>4. count \in 0..nslots BY <2>0, <2>2 DEF Types, Shape
  <2>5. done \subseteq DOMAIN Archive /\ skipped \subseteq DOMAIN Archive
    BY <2>0, Constants DEF Types
  <2> QED BY <2>0, <2>1, <2>3, <2>4, <2>5 DEF Types, TypeOK, Chunks
<1> QED BY <1>1, Invariance, PTL

\* The writer never reads the slot that the decompressor is filling, and a
\* chunk waits only while the file it belongs to is open (ex_begin_slot and
\* ex_drain).
THEOREM RingCorrect == Spec => [](SlotsApart /\ RingIsOfThisFile)
<1>1. IInv => SlotsApart
  <2> SUFFICES ASSUME IInv, threaded, wpc = "write", pc \in Filling PROVE head # tail
    BY DEF SlotsApart
  <2>0. Types /\ Shape BY DEF IInv
  <2>1. count > 0 /\ count < nslots BY <2>0 DEF Shape
  <2>2. nslots > 0 BY WaitingFor, <2>1
  <2> QED BY <2>0, <2>1, <2>2, RingFacts
<1>2. IInv => RingIsOfThisFile BY WaitingFor DEF RingIsOfThisFile
<1> QED BY <1>1, <1>2, Invariance, PTL

LEMMA CountedThen == IInv /\ ~(RenameFails /\ incomplete) => CountedIsWhole
<1> SUFFICES ASSUME IInv, ~(RenameFails /\ incomplete), NEW i \in done
             PROVE  /\ Exists(Out(i)) \/ pc = "rename"
                    /\ pc # "rename" /\ f # Out(i) =>
                         \E j \in Entries : Archive[j].name = Archive[i].name /\ card[Out(i)] = Whole(j)
  BY DEF CountedIsWhole
<1>1. pc = "rename" \/ Unpacked(i) BY DEF IInv, Counted
<1> QED BY <1>1 DEF Unpacked

\* Where the card keeps its renames, an entry counted lies on it whole, every
\* block at its offset, whatever the ring, the writer and the mishaps did.
THEOREM CountedCorrect ==
  ASSUME ~RenameFails
  PROVE  Spec => []CountedIsWhole
<1>1. IInv => CountedIsWhole BY CountedThen
<1> QED BY <1>1, Invariance, PTL

\* Where a rename may fail, the same holds as long as no entry is missing.
THEOREM CountedUnlessMissing == Spec => [](~incomplete => CountedIsWhole)
<1>1. IInv => (~incomplete => CountedIsWhole) BY CountedThen
<1> QED BY <1>1, Invariance, PTL

\* The archive is deleted only when everything in it but what the card refused
\* is unpacked and whole.
THEOREM ArchiveCorrect == Spec => []ArchiveKept
<1>1. IInv => ArchiveKept BY DEF IInv, Kept, ArchiveKept, Unpacked
<1> QED BY <1>1, Invariance, PTL

-----------------------------------------------------------------------------
(* The file that was there *)

OldStays == \A i \in Entries : Exists(Out(i)) /\ card[Out(i)] = Older =>
                                 Out(i) \in DOMAIN card' /\ card'[Out(i)] = Older

\* ex_do_write touches the open file only, and that one is new.
LEMMA WriteSparesOld ==
  ASSUME IInv, NEW data, NEW at, DoWrite(data, at)
  PROVE  OldStays
<1>0. Types /\ Walk /\ Blended BY DEF IInv
<1>1. DOMAIN card' = DOMAIN card /\ \A p \in DOMAIN card : p # f => card'[p] = card[p]
  <2>1. CASE card' = card BY <2>1
  <2>2. CASE card' = [card EXCEPT ![f] = Overlay(card[f], data, at)]
    <3> DEFINE c == Overlay(card[f], data, at)
    <3>1. card' = [card EXCEPT ![f] = c] BY <2>2
    <3> HIDE DEF c
    <3> QED BY <3>1
  <2> QED BY <2>1, <2>2 DEF DoWrite
<1>2. f # None => card[f] # Older
  <2>1. f # None => n \in Entries /\ IsFill(card[f], n) BY <1>0 DEF Walk, Blended
  <2> QED BY <2>1, OlderIsNoFill
<1>3. \A i \in Entries : Out(i) # None BY PathFacts
<1> QED BY <1>1, <1>2, <1>3 DEF OldStays

LEMMA OpenSparesOld ==
  ASSUME IInv, Open
  PROVE  OldStays
<1> DEFINE p == Path(n')
<1>1. card' = Put(p, <<>>) BY DEF Open
<1>2. \A i : Exists(Out(i)) => Out(i) # p
  <2>1. p = Tmp(n') \/ (p = Out(n') /\ ~Exists(Out(n'))) BY DEF Path
  <2> QED BY <2>1, PathFacts
<1> HIDE DEF p
<1>3. \A q \in DOMAIN card : q # p => q \in DOMAIN card' /\ card'[q] = card[q] BY <1>1 DEF Put
<1> QED BY <1>2, <1>3 DEF OldStays

LEMMA CloseSparesOld ==
  ASSUME IInv, Close
  PROVE  OldStays
<1>0. Types /\ Walk /\ Blended BY DEF IInv
<1>1. card' = card \/ card' = Removed(f) BY DEF Close
<1>2. card[f] # Older
  <2>1. f # None /\ n \in Entries /\ IsFill(card[f], n) BY <1>0 DEF Close, Walk, Blended
  <2> QED BY <2>1, OlderIsNoFill
<1>3. CASE card' = card BY <1>3 DEF OldStays
<1>4. CASE card' = Removed(f)
  <2>1. DOMAIN card' = DOMAIN card \ {f} /\ \A q \in DOMAIN card' : card'[q] = card[q]
    BY <1>0, <1>4, CardRemoved
  <2> QED BY <1>2, <2>1 DEF OldStays
<1> QED BY <1>1, <1>3, <1>4

LEMMA RenameSparesOld ==
  ASSUME IInv, Rename
  PROVE  OldStays
<1>0. Types /\ Finished BY DEF IInv
<1>1. ~Exists(Out(n)) /\ \A i : Out(i) # Tmp(n) BY <1>0, PathFacts DEF Rename, Finished
<1>2. CASE card' = [q \in (DOMAIN card \ {Tmp(n)}) \cup {Out(n)} |->
                      IF q = Out(n) THEN card[Tmp(n)] ELSE card[q]]
  <2>1. \A q \in DOMAIN card : q # Tmp(n) /\ q # Out(n) => q \in DOMAIN card' /\ card'[q] = card[q]
    BY <1>2
  <2> QED BY <1>1, <2>1 DEF OldStays
<1>3. CASE card' = Removed(Tmp(n))
  <2>1. DOMAIN card' = DOMAIN card \ {Tmp(n)} /\ \A q \in DOMAIN card' : card'[q] = card[q]
    BY <1>0, <1>3, CardRemoved
  <2> QED BY <1>1, <2>1 DEF OldStays
<1> QED BY <1>2, <1>3 DEF Rename

\* Only the swap takes an older file away, and then its successor is whole.
LEMMA SwapHasWhole ==
  ASSUME IInv, Swap, NEW i \in Entries, Exists(Out(i)), card[Out(i)] = Older,
         ~(Out(i) \in DOMAIN card' /\ card'[Out(i)] = Older)
  PROVE  \E j \in Entries : /\ Exists(Tmp(i)) /\ card[Tmp(i)] = Whole(j)
                            /\ Tmp(i) \in DOMAIN card' /\ card'[Tmp(i)] = Whole(j)
<1>0. Types /\ Walk /\ Finished BY DEF IInv
<1>1. n \in Entries /\ Exists(Tmp(n)) /\ card[Tmp(n)] = Whole(n)
  BY <1>0 DEF Swap, Walk, Finished
<1>2. CASE card' = Removed(Tmp(n))
  <2>1. DOMAIN card' = DOMAIN card \ {Tmp(n)} /\ \A q \in DOMAIN card' : card'[q] = card[q]
    BY <1>0, <1>2, CardRemoved
  <2>2. Out(i) # Tmp(n) BY PathFacts
  <2> QED BY <2>1, <2>2
<1>3. CASE card' = Removed(Out(n))
  <2>1. DOMAIN card' = DOMAIN card \ {Out(n)} /\ \A q \in DOMAIN card' : card'[q] = card[q]
    BY <1>0, <1>3, CardRemoved
  <2>2. Out(i) = Out(n) BY <2>1
  <2>3. Tmp(i) = Tmp(n) BY <2>2, PathFacts
  <2>4. Out(n) # Tmp(n) BY PathFacts
  <2> QED BY <1>1, <2>1, <2>3, <2>4
<1> QED BY <1>2, <1>3 DEF Swap

\* A file that was on the card gives way only to a whole replacement that lies
\* beside it by then (the swap at the end of an entry).
THEOREM GivesWayCorrect == Spec => GivesWayToWhole
<1> DEFINE Gives == \A i \in DOMAIN Archive :
                      LET is(p, c) == p \in DOMAIN card /\ card[p] = c
                          will(p, c) == p \in DOMAIN card' /\ card'[p] = c
                      IN  is(Out(i), Older) /\ ~will(Out(i), Older) =>
                            \E j \in DOMAIN Archive : is(Tmp(i), Whole(j)) /\ will(Tmp(i), Whole(j))
<1>1. OldStays => Gives BY DEF OldStays
<1>2. card' = card => OldStays BY DEF OldStays
<1>3. IInv /\ [Next]_vars => Gives
  <2> SUFFICES ASSUME IInv, [Next]_vars PROVE Gives OBVIOUS
  <2>1. CASE Swap BY <2>1, SwapHasWhole
  <2>2. CASE ~Swap /\ Decompress
    <3> HIDE DEF Gives
    <3>1. CASE Open BY <3>1, <1>1, OpenSparesOld
    <3>2. CASE Close BY <3>2, <1>1, CloseSparesOld
    <3>3. CASE Rename BY <3>3, <1>1, RenameSparesOld
    <3>4. CASE PutThrough BY <3>4, <1>1, WriteSparesOld DEF PutThrough
    <3>5. CASE FlushSync BY <3>5, <1>1, WriteSparesOld DEF FlushSync
    <3>6. CASE Skip \/ EndOfArchive \/ ReadBlock \/ ReadBad \/ ReadEnd \/ PutJump \/ PutCopy
      BY <3>6, <1>1, <1>2 DEF Skip, EndOfArchive, ReadBlock, ReadBad, ReadEnd, PutJump, PutCopy
    <3>7. CASE Publish \/ Begin \/ Progress \/ Drain \/ Count \/ Stop \/ Return
      BY <3>7, <1>1, <1>2 DEF Publish, Begin, Progress, Drain, Count, Stop, Return
    <3> QED BY <2>2, <3>1, <3>2, <3>3, <3>4, <3>5, <3>6, <3>7 DEF Decompress
  <2>3. CASE Writer
    <3> HIDE DEF Gives
    <3>1. CASE WriterWrite BY <3>1, <1>1, WriteSparesOld DEF WriterWrite
    <3>2. CASE WriterTake \/ WriterPop \/ WriterExit
      BY <3>2, <1>1, <1>2 DEF WriterTake, WriterPop, WriterExit
    <3> QED BY <2>3, <3>1, <3>2 DEF Writer
  <2>4. CASE Again \/ UNCHANGED vars
    <3> HIDE DEF Gives
    <3> QED BY <2>4, <1>1, <1>2 DEF Again
  <2> QED BY <2>1, <2>2, <2>3, <2>4 DEF Next
<1>4. Spec => [][Gives]_vars
  <2> HIDE DEF Gives
  <2> QED BY <1>3, Invariance, PTL DEF Spec
<1> QED BY <1>4 DEF GivesWayToWhole
=============================================================================
