-------------------------- MODULE PushInboxProofs --------------------------
(***************************************************************************)
(* Proofs about PushInbox.                                                 *)
(***************************************************************************)
EXTENDS PushInbox, TLAPS

InSeq(s, f) == \E i \in 1..Len(s) : s[i] = f
Working(f) == cur # None /\ cur.file = f
\* The jobs that the running program knows of.
Busy(f) == InSeq(queue, f) \/ Working(f)

LEMMA Kinds ==
  /\ Blocks \in Nat \ {0} /\ 1..Blocks # {} /\ MaxStarts \in Nat /\ MaxFaults \in Nat
  /\ None \notin Files /\ Old \notin Files /\ None # Old
  /\ Consoles \subseteq Files /\ Folders \subseteq Files /\ Dats \subseteq Files /\ Apps \subseteq Files
  /\ Consoles \cap (Folders \cup Dats \cup Apps) = {}
  /\ Folders \cap (Dats \cup Apps) = {} /\ Dats \cap Apps = {}
BY InboxAssumption

LEMMA PathFacts ==
  /\ \A place \in Places, f \in Files : At(place, f) \in Paths /\ Name(f) \in Names
  /\ \A p, q, f, g : At(p, f) = At(q, g) <=> p = q /\ Name(f) = Name(g)
  /\ \A p, f : At(p, f) = <<p, Name(f)>>
BY DEF At, Paths, Names

LEMMA ContentFacts ==
  ASSUME NEW f \in Files \cup {Old, None}
  PROVE  /\ Whole(f) \in Content /\ Whole(f) # Absent /\ Absent \in Content
         /\ \A k \in 1..Blocks : Whole(f)[k] = f
<1>1. Whole(f) \in [1..Blocks -> Files \cup {Old, None}] BY DEF Whole
<1>2. DOMAIN Whole(f) # {} BY Kinds DEF Whole
<1>3. DOMAIN Absent = {} BY DEF Absent
<1> QED BY <1>1, <1>2, <1>3 DEF Content, Whole

LEMMA AbsentIs == Absent \in Content
BY DEF Content

LEMMA WholeIs ==
  ASSUME NEW f, NEW g, Whole(f) = Whole(g)
  PROVE  f = g
<1>1. Whole(f)[1] = f /\ Whole(g)[1] = g BY Kinds DEF Whole
<1> QED BY <1>1

\* What one more block does to the content of a file.
LEMMA BlockWritten ==
  ASSUME NEW c \in Content, NEW k \in 1..Blocks, NEW f \in Files
  PROVE  LET d == [c EXCEPT ![k] = f] IN
         /\ d \in Content
         /\ d = Absent <=> c = Absent
         /\ c # Absent => d[k] = f
         /\ \A j \in 1..Blocks : j # k => d[j] = c[j]
         /\ DOMAIN d = DOMAIN c
<1> DEFINE d == [c EXCEPT ![k] = f]
<1>1. CASE c = Absent
  <2>1. DOMAIN c = {} /\ DOMAIN d = {} BY <1>1 DEF Absent
  <2>2. d = c BY <2>1
  <2> QED BY <1>1, <2>2
<1>2. CASE c # Absent
  <2>1. c \in [1..Blocks -> Files \cup {Old, None}] BY <1>2 DEF Content
  <2>2. d \in [1..Blocks -> Files \cup {Old, None}] BY <2>1
  <2>3. DOMAIN d # {} /\ DOMAIN Absent = {} BY <2>2, Kinds DEF Absent
  <2> QED BY <1>2, <2>1, <2>2, <2>3 DEF Content
<1> QED BY <1>1, <1>2

-----------------------------------------------------------------------------
(* Sequences of jobs. *)

LEMMA SeqFacts ==
  ASSUME NEW s \in Seq(Files), NEW f \in Files
  PROVE  /\ Append(s, f) \in Seq(Files) /\ Append(s, f) # <<>>
         /\ \A g : InSeq(Append(s, f), g) <=> InSeq(s, g) \/ g = f
         /\ <<f>> \o s \in Seq(Files)
         /\ \A g : InSeq(<<f>> \o s, g) <=> InSeq(s, g) \/ g = f
<1>1. Append(s, f) \in Seq(Files) /\ Append(s, f) # <<>>
  <2>1. Append(s, f) \in Seq(Files) /\ Len(Append(s, f)) = Len(s) + 1 /\ Len(s) \in Nat OBVIOUS
  <2>2. Len(<<>>) = 0 OBVIOUS
  <2> QED BY <2>1, <2>2
<1>2. ASSUME NEW g PROVE InSeq(Append(s, f), g) <=> InSeq(s, g) \/ g = f
  <2>1. Len(Append(s, f)) = Len(s) + 1 /\ Append(s, f)[Len(s) + 1] = f OBVIOUS
  <2>2. \A i \in 1..Len(s) : Append(s, f)[i] = s[i] OBVIOUS
  <2>3. Len(s) \in Nat OBVIOUS
  <2> QED BY <2>1, <2>2, <2>3 DEF InSeq
<1>3. <<f>> \o s \in Seq(Files) OBVIOUS
<1>4. ASSUME NEW g PROVE InSeq(<<f>> \o s, g) <=> InSeq(s, g) \/ g = f
  <2> DEFINE t == <<f>> \o s
  <2>1. Len(t) = Len(s) + 1 /\ t[1] = f OBVIOUS
  <2>2. \A i \in 1..Len(s) : t[i + 1] = s[i] OBVIOUS
  <2>3. Len(s) \in Nat OBVIOUS
  <2>4. \A i \in 2..Len(t) : t[i] = s[i - 1] /\ i - 1 \in 1..Len(s) BY <2>1, <2>2, <2>3
  <2> HIDE DEF t
  <2>5. InSeq(t, g) => InSeq(s, g) \/ g = f BY <2>1, <2>3, <2>4 DEF InSeq
  <2>6. InSeq(s, g) \/ g = f => InSeq(t, g)
    <3>1. 1 \in 1..Len(t) BY <2>1, <2>3
    <3>2. \A i \in 1..Len(s) : i + 1 \in 1..Len(t) BY <2>1, <2>3
    <3> QED BY <2>1, <2>2, <3>1, <3>2 DEF InSeq
  <2> QED BY <2>5, <2>6 DEF t
<1> QED BY <1>1, <1>2, <1>3, <1>4

LEMMA HeadTail ==
  ASSUME NEW s \in Seq(Files), s # <<>>
  PROVE  /\ Head(s) \in Files /\ Tail(s) \in Seq(Files)
         /\ \A g : InSeq(s, g) <=> Head(s) = g \/ InSeq(Tail(s), g)
<1>1. Len(s) \in Nat \ {0} /\ Head(s) = s[1] OBVIOUS
<1>2. Head(s) \in Files /\ Tail(s) \in Seq(Files) OBVIOUS
<1>3. Len(Tail(s)) = Len(s) - 1 /\ \A i \in 1..Len(s) - 1 : Tail(s)[i] = s[i + 1] OBVIOUS
<1>4. ASSUME NEW g PROVE InSeq(s, g) <=> Head(s) = g \/ InSeq(Tail(s), g)
  <2>1. ASSUME NEW i \in 1..Len(s), s[i] = g PROVE Head(s) = g \/ InSeq(Tail(s), g)
    <3>1. CASE i = 1 BY <3>1, <1>1, <2>1
    <3>2. CASE i # 1
      <4>1. i - 1 \in 1..Len(Tail(s)) /\ Tail(s)[i - 1] = g BY <3>2, <1>1, <1>3, <2>1
      <4> QED BY <4>1 DEF InSeq
    <3> QED BY <3>1, <3>2
  <2>2. ASSUME NEW i \in 1..Len(Tail(s)), Tail(s)[i] = g PROVE InSeq(s, g)
    <3>1. i + 1 \in 1..Len(s) /\ s[i + 1] = g BY <1>1, <1>3, <2>2
    <3> QED BY <3>1 DEF InSeq
  <2>3. Head(s) = g => InSeq(s, g) BY <1>1 DEF InSeq
  <2> QED BY <2>1, <2>2, <2>3 DEF InSeq
<1> QED BY <1>2, <1>4

LEMMA NoJobs == <<>> \in Seq(Files) /\ \A g : ~InSeq(<<>>, g)
BY DEF InSeq

LEMMA PrefixFacts ==
  ASSUME NEW s \in Seq(Files), NEW k \in 0..Len(s) - 1
  PROVE  SubSeq(s, 1, k) \in Seq(Files) /\ \A g : InSeq(SubSeq(s, 1, k), g) => InSeq(s, g)
<1>1. SubSeq(s, 1, k) \in Seq(Files) /\ Len(SubSeq(s, 1, k)) = k OBVIOUS
<1>2. \A i \in 1..k : SubSeq(s, 1, k)[i] = s[i] /\ i \in 1..Len(s) OBVIOUS
<1> QED BY <1>1, <1>2 DEF InSeq

\* The pending file after a save: all the jobs, unless the power goes.
LEMMA PxtSaveFacts ==
  ASSUME TypeOK, NEW js \in Seq(Files), PxtSave(js)
  PROVE  /\ pend' \in Seq(Files) /\ starts' = starts
         /\ \A g : InSeq(pend', g) => InSeq(js, g)
         /\ \/ pend' = js /\ up' = up /\ faults' = faults
            \/ up' = "off" /\ faults' = faults + 1 /\ faults < MaxFaults
<1>1. CASE pend' = js /\ UNCHANGED env BY <1>1 DEF env
<1>2. ASSUME PowerOff, NEW k \in 0..Len(js) - 1, pend' = SubSeq(js, 1, k)
      PROVE  /\ pend' \in Seq(Files) /\ starts' = starts /\ \A g : InSeq(pend', g) => InSeq(js, g)
             /\ up' = "off" /\ faults' = faults + 1 /\ faults < MaxFaults
  BY <1>2, PrefixFacts DEF PowerOff, Fault
<1> QED BY <1>1, <1>2 DEF PxtSave

LEMMA StartFacts ==
  ASSUME NEW js \in Seq(Files), NEW staged, StartFirst(js, staged)
  PROVE  /\ queue' \in Seq(Files) /\ cur' \in Job \cup {None}
         /\ \A g : Busy(g)' <=> InSeq(js, g)
         /\ stage' \in {staged, None}
         /\ cur' # None => cur'.st = "run" /\ (cur'.file \in Dats => stage' = None)
<1>1. CASE js = <<>>
  BY <1>1, NoJobs DEF StartFirst, Busy, Working
<1>2. CASE js # <<>>
  <2>1. PICK inline \in BOOLEAN : cur' = Begun(Head(js), inline)
    BY <1>2 DEF StartFirst
  <2>2. queue' = Tail(js) /\ stage' = IF Head(js) \in Dats THEN None ELSE staged
    BY <1>2 DEF StartFirst
  <2>3. /\ cur' \in Job /\ cur'.file = Head(js) /\ cur'.st = "run" /\ cur' # None
    BY <1>2, <2>1, HeadTail, NoneAssumption DEF Begun, Job
  <2> QED BY <1>2, <2>2, <2>3, HeadTail DEF Busy, Working
<1> QED BY <1>1, <1>2

\* What queueing a job does: it is known from then on, to the next launch too.
LEMMA EnqueueFacts ==
  ASSUME TypeOK, NEW f \in Files, Enqueue(f)
  PROVE  /\ queue' \in Seq(Files) /\ cur' \in Job \cup {None} /\ pend' \in Seq(Files) /\ starts' = starts
         /\ stage' \in {stage, None}
         /\ cur # None => cur' = cur /\ stage' = stage
         /\ cur = None /\ cur' # None => cur'.st = "run" /\ (cur'.file \in Dats => stage' = None)
         /\ \A g : Busy(g)' <=> g = f \/ Busy(g)
         /\ \A g : InSeq(pend', g) => Busy(g)'
         /\ \/ up' = up /\ faults' = faults /\ \A g : Busy(g)' => InSeq(pend', g)
            \/ up' = "off" /\ faults' = faults + 1 /\ faults < MaxFaults
<1> queue \in Seq(Files) /\ cur \in Job \cup {None} BY DEF TypeOK
<1>1. CASE cur = None
  <2>1. StartFirst(Append(queue, f), stage) /\ PxtSave(Append(queue, f)) BY <1>1 DEF Enqueue
  <2>2. \A g : InSeq(Append(queue, f), g) <=> g = f \/ Busy(g)
    BY <1>1, SeqFacts DEF Busy, Working
  <2> DEFINE js == Append(queue, f)
  <2>3. js \in Seq(Files) BY SeqFacts
  <2> HIDE DEF js
  <2>4. StartFirst(js, stage) /\ PxtSave(js) /\ \A g : InSeq(js, g) <=> g = f \/ Busy(g)
    BY <2>1, <2>2 DEF js
  <2>5. /\ queue' \in Seq(Files) /\ cur' \in Job \cup {None}
        /\ \A g : Busy(g)' <=> InSeq(js, g)
        /\ stage' \in {stage, None}
        /\ cur' # None => cur'.st = "run" /\ (cur'.file \in Dats => stage' = None)
    BY <2>3, <2>4, StartFacts
  <2>6. /\ pend' \in Seq(Files) /\ starts' = starts
        /\ \A g : InSeq(pend', g) => InSeq(js, g)
        /\ \/ pend' = js /\ up' = up /\ faults' = faults
           \/ up' = "off" /\ faults' = faults + 1 /\ faults < MaxFaults
    BY <2>3, <2>4, PxtSaveFacts
  <2> QED BY <1>1, <2>4, <2>5, <2>6
<1>2. CASE cur # None
  <2>1. /\ queue' = Append(queue, f) /\ cur' = cur /\ stage' = stage
        /\ PxtSave(<<cur.file>> \o queue')
    BY <1>2 DEF Enqueue
  <2>2. cur.file \in Files BY <1>2 DEF Job
  <2>3. queue' \in Seq(Files) /\ \A g : InSeq(queue', g) <=> InSeq(queue, g) \/ g = f
    BY <2>1, SeqFacts
  <2>4. /\ <<cur.file>> \o queue' \in Seq(Files)
        /\ \A g : InSeq(<<cur.file>> \o queue', g) <=> InSeq(queue', g) \/ g = cur.file
    BY <2>2, <2>3, SeqFacts
  <2>5. \A g : Busy(g)' <=> g = f \/ Busy(g)
    BY <1>2, <2>1, <2>3 DEF Busy, Working
  <2>6. \A g : InSeq(<<cur.file>> \o queue', g) <=> Busy(g)'
    BY <1>2, <2>1, <2>4 DEF Busy, Working
  <2>7. /\ pend' \in Seq(Files) /\ starts' = starts
        /\ \A g : InSeq(pend', g) => InSeq(<<cur.file>> \o queue', g)
        /\ \/ pend' = <<cur.file>> \o queue' /\ up' = up /\ faults' = faults
           \/ up' = "off" /\ faults' = faults + 1 /\ faults < MaxFaults
    BY <2>1, <2>4, PxtSaveFacts
  <2> QED BY <1>2, <2>1, <2>3, <2>5, <2>6, <2>7
<1> QED BY <1>1, <1>2

\* What a launch reads: the jobs of the pending file whose archive is there.
LEMMA ReadFacts ==
  ASSUME TypeOK, ReadPending
  PROVE  /\ boot' \in Seq(Files)
         /\ \A g : InSeq(boot', g) <=> InSeq(pend, g) /\ Exists(Archive(g))
<1> DEFINE there == {i \in 1..Len(pend) : Exists(Archive(pend[i]))}
<1>1. pend \in Seq(Files) BY DEF TypeOK
<1>2. PICK n \in 0..Len(pend) : \E at \in [1..n -> there] :
        /\ \A i, j \in 1..n : i < j => at[i] < at[j]
        /\ \A i \in there : \E j \in 1..n : at[j] = i
        /\ boot' = [i \in 1..n |-> pend[at[i]]]
  BY DEF ReadPending
<1>3. PICK at \in [1..n -> there] :
        /\ \A i \in there : \E j \in 1..n : at[j] = i
        /\ boot' = [i \in 1..n |-> pend[at[i]]]
  BY <1>2
<1>4. \A i \in 1..n : at[i] \in 1..Len(pend) /\ Exists(Archive(pend[at[i]])) OBVIOUS
<1>5. n \in Nat /\ boot' \in [1..n -> Files] BY <1>1, <1>3, <1>4
<1>6. boot' \in Seq(Files) /\ Len(boot') = n BY <1>5
<1>7. ASSUME NEW g PROVE InSeq(boot', g) <=> InSeq(pend, g) /\ Exists(Archive(g))
  BY <1>3, <1>4, <1>6 DEF InSeq
<1> QED BY <1>6, <1>7

-----------------------------------------------------------------------------
(* What holds whatever the files are called. *)

\* How far a push is says what it may be of, and what else goes on.
Flow ==
  /\ push # None /\ push.st # "recv" => push.len = Blocks
  /\ push # None /\ push.st \in {"ask", "park", "place", "clean"} => push.file \in Apps
  /\ up = "up" /\ push # None /\ push.st # "recv" => ~Inline
  /\ up = "up" /\ boot # <<>> => push = None
  /\ up = "exiting" => push = None
  /\ up = "off" /\ faults = 0 => push = None

\* Only what is to be unpacked becomes a job.
Works == \A g : Busy(g) \/ InSeq(boot, g) \/ InSeq(pend, g) => Unpacks(g)

\* Whose the record may be, and what is owed for.
Resumes ==
  /\ rec # None => rec.name = Name(rec.id) /\ rec.id \notin NoId \cup owed
  /\ push # None /\ push.file \notin NoId /\ rec # None => rec.id = push.file /\ rec.have <= push.len
  /\ push # None => (push.file \in owed <=> push.st # "recv")

Base == TypeOK /\ Flow /\ Works /\ Resumes

LEMMA CardFacts ==
  ASSUME TypeOK
  PROVE  \A p, q \in Paths :
         /\ Removed(p) \in [Paths -> Content]
         /\ Moved(p, q) \in [Paths -> Content]
         /\ [Removed(p) EXCEPT ![q] = Absent] \in [Paths -> Content]
<1> card \in [Paths -> Content] /\ Absent \in Content BY ContentFacts DEF TypeOK, Content
<1> QED BY DEF Removed, Moved

LEMMA PushFacts ==
  ASSUME TypeOK, push # None
  PROVE  /\ push \in Push /\ push.file \in Files /\ push.len \in 0..Blocks
         /\ push.restore \in BOOLEAN /\ push.st \in {"recv", "whole", "ask", "park", "place", "clean"}
         /\ \A place \in Places : At(place, push.file) \in Paths
         /\ Archive(push.file) \in Paths
BY PathFacts DEF TypeOK, Push, Archive, Places

LEMMA JobsSame ==
  ASSUME UNCHANGED jobs
  PROVE  /\ Works => Works'
         /\ queue' = queue /\ cur' = cur /\ pend' = pend /\ boot' = boot /\ stage' = stage /\ out' = out
BY DEF jobs, Works, Busy, Working

LEMMA FreeFacts ==
  ASSUME UiFree
  PROVE  up = "up" /\ boot = <<>> /\ ~Inline /\ (push # None => push.st = "recv")
BY DEF UiFree

LEMMA PushFreshKeeps ==
  ASSUME Base, NEW f \in Files, PushFresh(f)
  PROVE  Base'
<1> USE DEF Base, PushFresh
<1>1. push' \in Push /\ push' # None
  <2>1. push' \in Push BY Kinds DEF Push
  <2> QED BY <2>1, NoneAssumption
<1>2. TypeOK'
  <2>1. (IF f \in NoId THEN card ELSE ResDropped) \in [Paths -> Content]
    BY CardFacts, PathFacts, ContentFacts DEF TypeOK, ResDropped, Record, Paths, Places
  <2>2. card' \in [Paths -> Content] BY <2>1, PathFacts, ContentFacts DEF Places
  <2> QED BY <1>1, <2>2 DEF TypeOK, jobs, env
<1>3. Flow' BY <1>1, FreeFacts DEF Flow, jobs, env, Inline
<1>4. Works' BY JobsSame
<1>5. Resumes' BY <1>1 DEF Resumes
<1> QED BY <1>2, <1>3, <1>4, <1>5

LEMMA PushRestKeeps ==
  ASSUME Base, NEW f \in Files, PushRest(f)
  PROVE  Base'
<1> USE DEF Base, PushRest
<1>1. rec \in Record /\ rec.have \in 1..Blocks BY DEF TypeOK, Record
<1>2. push' \in Push /\ push' # None
  <2>1. push' \in Push BY <1>1, Kinds DEF Push
  <2> QED BY <2>1, NoneAssumption
<1>3. TypeOK' BY <1>2 DEF TypeOK, jobs, env
<1>4. Flow' BY <1>2, FreeFacts DEF Flow, jobs, env, Inline
<1>5. Works' BY JobsSame
<1>6. Resumes' BY <1>1, <1>2 DEF Resumes
<1> QED BY <1>3, <1>4, <1>5, <1>6

LEMMA ReceiveKeeps ==
  ASSUME Base, Receive
  PROVE  Base'
<1> USE DEF Base, Receive
<1>1. push \in Push /\ push.file \in Files /\ push.len + 1 \in 1..Blocks /\ push.st = "recv"
  BY PushFacts, FreeFacts, Kinds
<1>2. /\ push' \in Push /\ push' # None /\ push'.file = push.file
      /\ push'.st = push.st /\ push'.len = push.len + 1
  BY <1>1, NoneAssumption DEF Push
<1>3. card' \in [Paths -> Content]
  BY <1>1, PushFacts, BlockWritten DEF TypeOK, Places
<1>4. TypeOK' BY <1>2, <1>3 DEF TypeOK, jobs, env
<1>5. Flow' BY <1>1, <1>2, FreeFacts DEF Flow, jobs, env, Inline
<1>6. Works' BY JobsSame
<1>7. rec # None => rec.have \in 1..Blocks BY DEF TypeOK, Record
<1>8. push.len \in 0..Blocks /\ Blocks \in Nat BY PushFacts, Kinds
<1>9. Resumes' BY <1>1, <1>2, <1>7, <1>8 DEF Resumes
<1> QED BY <1>4, <1>5, <1>6, <1>9

LEMMA AcceptKeeps ==
  ASSUME Base, Accept
  PROVE  Base'
<1> USE DEF Base, Accept
<1>1. push \in Push /\ push.file \in Files /\ push.len = Blocks BY PushFacts
<1>2. push' \in Push /\ push' # None /\ push'.file = push.file /\ push'.st = "whole" /\ push'.len = push.len
  BY <1>1, NoneAssumption DEF Push
<1>3. rec' \in {rec, None} BY DEF ResDone
<1>4. TypeOK' BY <1>1, <1>2, <1>3 DEF TypeOK, jobs, env
<1>5. Flow' BY <1>1, <1>2, FreeFacts DEF Flow, jobs, env, Inline
<1>6. Works' BY JobsSame
<1>7. Resumes' BY <1>1, <1>2, <1>3 DEF Resumes, ResDone
<1> QED BY <1>4, <1>5, <1>6, <1>7

LEMMA GiveUpKeeps ==
  ASSUME Base, GiveUp
  PROVE  Base'
<1> USE DEF Base, GiveUp
<1>1. card' \in [Paths -> Content] BY PushFacts, CardFacts, ContentFacts DEF Places
<1>2. TypeOK' BY <1>1 DEF TypeOK, jobs, env
<1>3. Flow' BY DEF Flow
<1>4. Works' BY JobsSame
<1>5. Resumes' BY DEF Resumes
<1> QED BY <1>2, <1>3, <1>4, <1>5

\* What the end of an interrupted push leaves: at most a record of what has come.
LEMMA ResetFacts ==
  ASSUME Base, NEW u, ClientReset(u), UiFree
  PROVE  /\ card' \in [Paths -> Content] /\ rec' \in Record \cup {None} /\ starts' = starts
         /\ \/ up' = u /\ faults' = faults
            \/ up' = "off" /\ faults' = faults + 1 /\ faults < MaxFaults
         /\ rec' # None => \/ rec' = rec
                           \/ /\ push # None /\ push.file \notin NoId /\ push.len > 0
                              /\ rec' = Kept(push.file, push.len)
<1> USE DEF Base
<1>1. CASE push # None /\ push.file \notin NoId /\ push.len > 0
  <2>1. Kept(push.file, push.len) \in Record
    BY <1>1, PushFacts, PathFacts, Kinds DEF Kept, Record, Places
  <2>2. card' \in [Paths -> Content]
    <3>1. CASE UNCHANGED card BY <3>1 DEF TypeOK
    <3>2. CASE card' = Unflushed(At("part", push.file), push.len)
      <4>1. \A c \in Content : [c EXCEPT ![push.len] = None] \in Content
        <5>1. ASSUME NEW c \in Content, c # Absent PROVE [c EXCEPT ![push.len] = None] \in Content
          BY <5>1 DEF Content
        <5>2. [Absent EXCEPT ![push.len] = None] = Absent BY DEF Absent
        <5> QED BY <5>1, <5>2
      <4> QED BY <1>1, <3>2, <4>1, PushFacts DEF Unflushed, TypeOK, Places
    <3> QED BY <1>1, <3>1, <3>2 DEF ClientReset
  <2> QED BY <1>1, <2>1, <2>2 DEF ClientReset, ResSave, Steady, PowerOff, Fault
<1>2. CASE ~(push # None /\ push.file \notin NoId /\ push.len > 0)
  <2>1. card' \in [Paths -> Content]
    BY <1>2, PushFacts, CardFacts, ContentFacts DEF ClientReset, TypeOK, Places
  <2> QED BY <1>2, <2>1 DEF ClientReset, Steady, TypeOK
<1> QED BY <1>1, <1>2

LEMMA DropKeeps ==
  ASSUME Base, Drop
  PROVE  Base'
<1> USE DEF Base, Drop
<1>1. TypeOK' BY ResetFacts, Kinds DEF TypeOK, jobs
<1>2. Flow' BY DEF Flow
<1>3. Works' BY JobsSame
<1>4. Resumes'
  <2>1. push # None => push.st = "recv" BY FreeFacts
  <2>2. \A f, n : Kept(f, n).id = f /\ Kept(f, n).name = Name(f) BY DEF Kept
  <2> QED BY <2>1, <2>2, ResetFacts DEF Resumes
<1> QED BY <1>1, <1>2, <1>3, <1>4

(* The worker and the end of a job. *)

LEMMA JobFacts ==
  ASSUME TypeOK, cur # None
  PROVE  /\ cur \in Job /\ cur.file \in Files /\ cur.st \in {"run", "out", "done"} /\ cur.inline \in BOOLEAN
         /\ Archive(cur.file) \in Paths
BY PathFacts DEF TypeOK, Job, Archive, Places

\* A step of the worker: the job stays, its phase goes on.
LEMMA WorkerFacts ==
  ASSUME TypeOK, Worker
  PROVE  /\ cur # None /\ cur' # None /\ cur' \in Job /\ cur'.file = cur.file /\ cur'.inline = cur.inline
         /\ up # "off" /\ card' \in [Paths -> Content] /\ stage' \in Files \cup {None} /\ out' \in SUBSET (Files \X Files)
         /\ UNCHANGED <<push, rec, queue, pend, boot, owed, up, starts, faults>>
<1>1. cur # None /\ up # "off" BY DEF Worker, Unpack, UnpackFails, RemoveArchive
<1>2. cur' \in Job /\ cur' # None /\ cur'.file = cur.file /\ cur'.inline = cur.inline
  BY <1>1, JobFacts, NoneAssumption DEF Worker, Unpack, UnpackFails, RemoveArchive, Job
<1>3. card' \in [Paths -> Content]
  BY <1>1, JobFacts, CardFacts, ContentFacts DEF TypeOK, Worker, Unpack, UnpackFails, RemoveArchive
<1>4. stage' \in Files \cup {None} /\ out' \in SUBSET (Files \X Files)
  BY <1>1, JobFacts DEF TypeOK, Worker, Unpack, UnpackFails, RemoveArchive
<1>5. UNCHANGED <<push, rec, queue, pend, boot, owed, up, starts, faults>>
  BY DEF Worker, Unpack, UnpackFails, RemoveArchive, env
<1> QED BY <1>1, <1>2, <1>3, <1>4, <1>5

LEMMA WorkerKeeps ==
  ASSUME Base, Worker
  PROVE  Base'
<1> USE DEF Base
<1>1. TypeOK' BY WorkerFacts DEF TypeOK
<1>2. Flow' BY WorkerFacts DEF Flow, Inline
<1>3. Works' BY WorkerFacts DEF Works, Busy, Working
<1>4. Resumes' BY WorkerFacts DEF Resumes
<1> QED BY <1>1, <1>2, <1>3, <1>4

\* The end of a job: its successors are the jobs, in memory and on the card.
LEMMA TickFacts ==
  ASSUME TypeOK, Tick
  PROVE  /\ queue' \in Seq(Files) /\ cur' \in Job \cup {None} /\ pend' \in Seq(Files) /\ starts' = starts
         /\ stage' \in {stage, None}
         /\ cur' # None => cur'.st = "run" /\ (cur'.file \in Dats => stage' = None)
         /\ \A g : Busy(g)' <=> InSeq(queue, g)
         /\ \A g : InSeq(pend', g) => InSeq(queue, g)
         /\ \/ up' = up /\ faults' = faults /\ \A g : InSeq(queue, g) => InSeq(pend', g)
            \/ up' = "off" /\ faults' = faults + 1 /\ faults < MaxFaults
         /\ out' \in SUBSET (Files \X Files)
         /\ cur # None /\ cur.file \in Files /\ owed' = owed \ {cur.file}
         /\ UNCHANGED <<card, push, rec, boot>>
<1>1. queue \in Seq(Files) /\ StartFirst(queue, stage) /\ PxtSave(queue) BY DEF TypeOK, Tick
<1>2. cur # None /\ cur.file \in Files BY JobFacts DEF Tick
<1>3. out' \in SUBSET (Files \X Files) BY <1>2 DEF TypeOK, Tick
<1>4. /\ queue' \in Seq(Files) /\ cur' \in Job \cup {None}
      /\ \A g : Busy(g)' <=> InSeq(queue, g)
      /\ stage' \in {stage, None}
      /\ cur' # None => cur'.st = "run" /\ (cur'.file \in Dats => stage' = None)
  BY <1>1, StartFacts
<1>5. /\ pend' \in Seq(Files) /\ starts' = starts
      /\ \A g : InSeq(pend', g) => InSeq(queue, g)
      /\ \/ pend' = queue /\ up' = up /\ faults' = faults
         \/ up' = "off" /\ faults' = faults + 1 /\ faults < MaxFaults
  BY <1>1, PxtSaveFacts
<1> QED BY <1>2, <1>3, <1>4, <1>5 DEF Tick

LEMMA TickKeeps ==
  ASSUME Base, Tick
  PROVE  Base'
<1> USE DEF Base
<1>1. TypeOK' BY TickFacts, Kinds DEF TypeOK
<1>2. push # None => push.st = "recv" BY FreeFacts DEF Tick, Flow, Inline
<1>3. up = "up" BY DEF Tick
<1>4. Flow' BY <1>2, <1>3, TickFacts DEF Flow, TypeOK
<1>5. Works' BY TickFacts DEF Works, Busy
<1>6. Resumes'
  <2>1. push # None => push.file \notin owed BY <1>2 DEF Resumes
  <2> QED BY <1>2, <2>1, TickFacts DEF Resumes
<1> QED BY <1>1, <1>4, <1>5, <1>6

-----------------------------------------------------------------------------
(* Filing. *)

LEMMA FilingFacts ==
  ASSUME Base, NEW st, st # "recv", Applying(st)
  PROVE  /\ up = "up" /\ push # None /\ push.st = st /\ ~Inline /\ boot = <<>>
         /\ push.file \in owed /\ push.file \in Files /\ push.len = Blocks
         /\ st \in {"ask", "park", "place", "clean"} => push.file \in Apps
BY PushFacts DEF Base, Applying, Flow, Resumes

LEMMA LandFacts ==
  ASSUME Base, push # None, NEW place \in Places, Land(place)
  PROVE  /\ card' \in [Paths -> Content] /\ up' = up /\ starts' = starts
         /\ faults' = faults \/ (faults' = faults + 1 /\ faults < MaxFaults)
<1>1. At("part", push.file) \in Paths /\ At(place, push.file) \in Paths BY PushFacts DEF Base, Places
<1>2. card' \in [Paths -> Content]
  <2> DEFINE part == At("part", push.file)
             there == At(place, push.file)
  <2>1. part \in Paths /\ there \in Paths BY <1>1
  <2>2. card' = Moved(part, there) \/ card' = [Removed(part) EXCEPT ![there] = Absent] BY DEF Land
  <2> HIDE DEF part, there
  <2>3. Removed(part) \in [Paths -> Content] /\ Moved(part, there) \in [Paths -> Content]
    BY <2>1, CardFacts DEF Base
  <2>4. [Removed(part) EXCEPT ![there] = Absent] \in [Paths -> Content] BY <2>1, <2>3, AbsentIs
  <2> QED BY <2>2, <2>3, <2>4
<1> QED BY <1>2 DEF Land, Failing, Fault, env

\* A push that ends leaves everything as it should be.
LEMMA EndsBase ==
  ASSUME Base, push # None, push.st # "recv", push' = None, UNCHANGED <<up, rec>>, UNCHANGED jobs,
         owed' \in {owed, owed \ {push.file}}, card' \in [Paths -> Content], starts' = starts,
         faults' = faults \/ (faults' = faults + 1 /\ faults < MaxFaults)
  PROVE  Base'
<1> USE DEF Base
<1>1. TypeOK' BY Kinds DEF TypeOK, jobs
<1>2. Flow' BY DEF Flow
<1>3. Works' BY JobsSame
<1>4. Resumes' BY DEF Resumes
<1> QED BY <1>1, <1>2, <1>3, <1>4

\* A push that goes on being filed.
LEMMA GoesOnBase ==
  ASSUME Base, push # None, push.st # "recv", push' \in Push, push'.st # "recv",
         push'.file = push.file, push'.len = push.len,
         push'.st # "whole", push.file \in Apps, UNCHANGED <<up, rec, owed>>, UNCHANGED jobs,
         card' \in [Paths -> Content], starts' = starts,
         faults' = faults \/ (faults' = faults + 1 /\ faults < MaxFaults)
  PROVE  Base'
<1> USE DEF Base
<1>1. TypeOK' BY Kinds DEF TypeOK, jobs
<1>2. Flow' BY DEF Flow, TypeOK, jobs, Inline
<1>3. Works' BY JobsSame
<1>4. Resumes' BY DEF Resumes
<1> QED BY <1>1, <1>2, <1>3, <1>4

\* A push that is handed to the unpacker.
LEMMA HandedBase ==
  ASSUME Base, push # None, push.st = "whole", Unpacks(push.file), push' = None, Enqueue(push.file),
         UNCHANGED <<rec, owed, out, boot>>, card' \in [Paths -> Content], up = "up"
  PROVE  Base'
<1> USE DEF Base
<1>1. push.file \in Files BY PushFacts
<1>2. TypeOK' BY SMTT(30), <1>1, EnqueueFacts, Kinds DEF TypeOK
<1>3. Flow' BY <1>1, EnqueueFacts DEF Flow
<1>4. Works' BY <1>1, EnqueueFacts DEF Works
<1>5. Resumes' BY DEF Resumes
<1> QED BY <1>2, <1>3, <1>4, <1>5

LEMMA ApplyKeeps ==
  ASSUME Base, ApplyGame \/ ApplyConsole \/ ApplyArchive \/ ApplyApp
  PROVE  Base'
<1> USE DEF Base
<1>1. Applying("whole") BY DEF ApplyGame, ApplyConsole, ApplyArchive, ApplyApp
<1>2. up = "up" /\ push # None /\ push.st = "whole" /\ push.file \in Files BY <1>1, FilingFacts
<1>3. /\ At("part", push.file) \in Paths /\ At("lib", push.file) \in Paths
      /\ push \in Push BY <1>2, PushFacts DEF Places
<1>4. ASSUME LandInbox PROVE Base'
  BY <1>2, <1>4, LandFacts, EndsBase DEF LandInbox, Filed, Places
<1>5. CASE ApplyConsole
  <2>1. CASE /\ card' = Moved(At("part", push.file), At("lib", push.file))
             /\ Enqueue(push.file)
             /\ UNCHANGED <<owed, out, boot>>
    <3>1. card' \in [Paths -> Content] BY <1>3, <2>1, CardFacts
    <3>2. Unpacks(push.file) /\ push' = None /\ rec' = rec BY <1>5 DEF ApplyConsole, Unpacks
    <3> QED BY <1>2, <2>1, <3>1, <3>2, HandedBase
  <2>2. CASE /\ card' = [Removed(At("part", push.file)) EXCEPT ![At("lib", push.file)] = Absent]
             /\ Failing
             /\ owed' = owed \ {push.file} /\ UNCHANGED jobs
    BY <1>2, <1>3, <1>5, <2>2, CardFacts, ContentFacts, EndsBase DEF ApplyConsole, Failing, Fault
  <2> QED BY <1>5, <2>1, <2>2 DEF ApplyConsole
<1>6. CASE ApplyArchive
  BY <1>2, <1>6, HandedBase DEF ApplyArchive, Unpacks, TypeOK
<1>7. CASE ApplyApp
  <2>1. CASE push' = [push EXCEPT !.st = "ask"] /\ UNCHANGED <<card, rec, jobs, owed, env>>
    <3>1. push' \in Push /\ push'.st = "ask" /\ push'.file = push.file /\ push'.len = push.len
      BY <1>3, <2>1 DEF Push
    <3> QED BY <1>2, <1>7, <2>1, <3>1, GoesOnBase DEF ApplyApp, env, TypeOK
  <2> QED BY <1>4, <1>7, <2>1 DEF ApplyApp
<1> QED BY <1>4, <1>5, <1>6, <1>7 DEF ApplyGame, ApplyConsole, ApplyArchive, ApplyApp

LEMMA SwapFacts ==
  ASSUME Base, push # None, push.file \in Files
  PROVE  /\ push \in Push
         /\ \A x \in {"whole", "ask", "park", "place", "clean"}, r \in BOOLEAN :
              /\ [push EXCEPT !.st = x] \in Push /\ [push EXCEPT !.st = x].st = x
              /\ [push EXCEPT !.st = x].file = push.file /\ [push EXCEPT !.st = x].len = push.len
              /\ [push EXCEPT !.st = x].restore = push.restore
              /\ [push EXCEPT !.st = x, !.restore = r] \in Push
              /\ [push EXCEPT !.st = x, !.restore = r].st = x
              /\ [push EXCEPT !.st = x, !.restore = r].restore = r
              /\ [push EXCEPT !.st = x, !.restore = r].file = push.file
              /\ [push EXCEPT !.st = x, !.restore = r].len = push.len
         /\ At("part", push.file) \in Paths /\ At("app", push.file) \in Paths /\ At("bak", push.file) \in Paths
         /\ card \in [Paths -> Content]
BY PushFacts DEF Base, Push, Places, TypeOK

LEMMA InstallKeeps ==
  ASSUME Base, Refuse \/ Confirm \/ Park \/ Place \/ PlaceFails \/ Clean
  PROVE  Base'
<1>1. PICK st \in {"ask", "park", "place", "clean"} : Applying(st)
  BY DEF Refuse, Confirm, Park, Place, PlaceFails, Clean
<1>2. /\ up = "up" /\ push # None /\ push.st # "recv" /\ push.file \in Files /\ push.file \in Apps
  BY <1>1, FilingFacts
<1> DEFINE part == At("part", push.file)
           app == At("app", push.file)
           bak == At("bak", push.file)
<1>3. part \in Paths /\ app \in Paths /\ bak \in Paths /\ card \in [Paths -> Content] BY <1>2, SwapFacts
<1>4. \A p, q \in Paths :
        /\ Removed(p) \in [Paths -> Content] /\ Moved(p, q) \in [Paths -> Content]
        /\ [Removed(p) EXCEPT ![q] = Absent] \in [Paths -> Content]
  BY CardFacts DEF Base
<1>5. Absent \in Content BY DEF Content
<1>6. CASE Refuse
  BY <1>2, <1>3, <1>4, <1>6, EndsBase DEF Refuse, Filed, env
<1>7. CASE Confirm
  BY ZenonT(30), <1>2, <1>3, <1>7, SwapFacts, GoesOnBase DEF Confirm, env
<1>8. CASE Park
  <2>1. card' \in {Moved(app, bak), [Removed(app) EXCEPT ![bak] = Absent]}
    BY <1>8 DEF Park
  <2>2. card' \in [Paths -> Content]
    <3> HIDE DEF app, bak
    <3>1. Removed(app) \in [Paths -> Content] /\ Moved(app, bak) \in [Paths -> Content] BY <1>3, <1>4
    <3>2. [Removed(app) EXCEPT ![bak] = Absent] \in [Paths -> Content] BY <1>3, <1>5, <3>1
    <3> QED BY <2>1, <3>1, <3>2
  <2>3. push' \in {[push EXCEPT !.st = "place"], [push EXCEPT !.st = "place", !.restore = TRUE]}
    BY <1>8 DEF Park
  <2>4. push' \in Push /\ push'.st = "place" /\ push'.file = push.file /\ push'.len = push.len
    <3>1. CASE push' = [push EXCEPT !.st = "place"] BY <1>2, <3>1, SwapFacts
    <3>2. CASE push' = [push EXCEPT !.st = "place", !.restore = TRUE] BY <1>2, <3>2, SwapFacts
    <3> QED BY <2>3, <3>1, <3>2
  <2> QED BY <1>2, <1>8, <2>2, <2>4, GoesOnBase DEF Park, env, Failing, Fault
<1>9. CASE Place
  BY <1>2, <1>3, <1>4, <1>9, SwapFacts, GoesOnBase DEF Place, env
<1>10. CASE PlaceFails
  <2> DEFINE left == Removed(part)
  <2>1. left \in [Paths -> Content] BY <1>3, <1>4
  <2>2. card[bak] \in Content BY <1>3
  <2>3. [left EXCEPT ![app] = card[bak], ![bak] = Absent] \in [Paths -> Content]
    BY <1>3, <1>5, <2>1, <2>2
  <2>4. card' \in [Paths -> Content] BY <1>10, <2>1, <2>3 DEF PlaceFails
  <2> QED BY <1>2, <1>10, <2>4, EndsBase DEF PlaceFails, Filed, Failing, Fault
<1>11. CASE Clean
  BY <1>2, <1>3, <1>4, <1>11, EndsBase DEF Clean, Filed, env
<1> QED BY <1>6, <1>7, <1>8, <1>9, <1>10, <1>11

-----------------------------------------------------------------------------
(* Launch, exit, power. *)

LEMMA LaunchKeeps ==
  ASSUME Base, Launch
  PROVE  Base'
<1> USE DEF Base
<1>1. /\ boot' \in Seq(Files)
      /\ \A g : InSeq(boot', g) => InSeq(pend, g)
  BY ReadFacts DEF Launch
<1>2. <<>> \in Seq(Files) /\ \A g : ~InSeq(<<>>, g) BY NoJobs
<1>3. TypeOK' BY <1>1, <1>2, Kinds DEF TypeOK, Launch
<1>4. Flow' BY DEF Flow, Launch
<1>5. Works' BY <1>1, <1>2 DEF Works, Busy, Working, Launch
<1>6. Resumes' BY DEF Resumes, Launch
<1> QED BY <1>3, <1>4, <1>5, <1>6

LEMMA PxtResumeFacts ==
  ASSUME Base, PxtResume
  PROVE  /\ Head(boot) \in Files /\ Enqueue(Head(boot)) /\ Unpacks(Head(boot)) /\ boot' \in Seq(Files)
         /\ \A g : InSeq(boot, g) <=> Head(boot) = g \/ InSeq(boot', g)
         /\ push = None /\ push' = None
<1>1. boot \in Seq(Files) /\ boot # <<>> /\ boot' = Tail(boot) BY DEF Base, PxtResume, TypeOK
<1>2. /\ Head(boot) \in Files /\ boot' \in Seq(Files)
      /\ \A g : InSeq(boot, g) <=> Head(boot) = g \/ InSeq(boot', g)
  BY <1>1, HeadTail
<1> QED BY <1>1, <1>2 DEF Base, PxtResume, Works, Flow

LEMMA PxtResumeKeeps ==
  ASSUME Base, PxtResume
  PROVE  Base'
<1> USE DEF Base
<1>1. TypeOK' BY SMTT(30), PxtResumeFacts, EnqueueFacts, Kinds DEF TypeOK, PxtResume
<1>2. Flow' BY PxtResumeFacts, EnqueueFacts DEF Flow, PxtResume
<1>3. Works' BY PxtResumeFacts, EnqueueFacts DEF Works
<1>4. Resumes' BY DEF Resumes, PxtResume
<1> QED BY <1>1, <1>2, <1>3, <1>4

LEMMA ShutdownKeeps ==
  ASSUME Base, Shutdown
  PROVE  Base'
<1> USE DEF Base, Shutdown
<1>1. <<>> \in Seq(Files) /\ \A g : ~InSeq(<<>>, g) BY NoJobs
<1>2. TypeOK' BY <1>1, ResetFacts, Kinds DEF TypeOK
<1>3. Flow' BY DEF Flow
<1>4. Works' BY <1>1 DEF Works, Busy, Working
<1>5. Resumes'
  <2>1. push # None => push.st = "recv" BY FreeFacts
  <2>2. \A f, n : Kept(f, n).id = f /\ Kept(f, n).name = Name(f) BY DEF Kept
  <2> QED BY <2>1, <2>2, ResetFacts DEF Resumes
<1> QED BY <1>2, <1>3, <1>4, <1>5

LEMMA OffKeeps ==
  ASSUME Base, Off \/ PowerCut
  PROVE  Base'
<1> USE DEF Base
<1>1. UNCHANGED <<card, push, rec, owed, starts>> /\ UNCHANGED jobs /\ up' = "off"
  BY DEF Off, PowerCut, PowerOff
<1>2. \/ up = "exiting" /\ faults' = faults
      \/ faults' = faults + 1 /\ faults < MaxFaults
  BY DEF Off, PowerCut, PowerOff, Fault
<1>3. faults \in 0..MaxFaults BY DEF TypeOK
<1>4. TypeOK' BY <1>1, <1>2, Kinds DEF TypeOK, jobs
<1>5. Flow'
  BY <1>1, <1>2, <1>3 DEF Flow, jobs
<1>6. Works' BY <1>1, JobsSame
<1>7. Resumes' BY <1>1 DEF Resumes
<1> QED BY <1>4, <1>5, <1>6, <1>7

LEMMA InitBase == Init => Base
<1> SUFFICES ASSUME Init PROVE Base OBVIOUS
<1> USE DEF Init
<1>1. <<>> \in Seq(Files) /\ \A g : ~InSeq(<<>>, g) BY NoJobs
<1>2. card \in [Paths -> Content] BY ContentFacts DEF Content
<1>3. TypeOK BY <1>1, <1>2, Kinds DEF TypeOK
<1>4. Flow /\ Resumes BY DEF Flow, Resumes
<1>5. Works BY <1>1 DEF Works, Busy, Working
<1> QED BY <1>3, <1>4, <1>5 DEF Base

LEMMA NextBase == Base /\ [Next]_vars => Base'
<1> SUFFICES ASSUME Base, [Next]_vars PROVE Base' OBVIOUS
<1>1. CASE UNCHANGED vars
  <2>1. UNCHANGED jobs /\ UNCHANGED <<up, card, push, rec, owed, starts, faults>> BY <1>1 DEF vars, jobs
  <2> QED BY <2>1, JobsSame DEF Base, TypeOK, Flow, Resumes, Inline
<1>2. CASE Ui
  BY <1>2, ReceiveKeeps, AcceptKeeps, TickKeeps, PxtResumeKeeps, ApplyKeeps, InstallKeeps DEF Ui
<1>3. CASE Pc
  BY <1>3, PushFreshKeeps, PushRestKeeps, DropKeeps, GiveUpKeeps DEF Pc
<1>4. CASE Worker BY <1>4, WorkerKeeps
<1>5. CASE Program
  BY <1>5, LaunchKeeps, ShutdownKeeps, OffKeeps DEF Program
<1> QED BY <1>1, <1>2, <1>3, <1>4, <1>5 DEF Next

\* In every reachable state.
THEOREM Invariance == Spec => []Base
BY InitBase, NextBase, PTL DEF Spec

\* Every variable keeps its type: a record has something to offer, a job is of a
\* file, a push is in one of its phases.
THEOREM TypeCorrect == Spec => []TypeOK
<1>1. Base => TypeOK BY DEF Base
<1> QED BY <1>1, Invariance, PTL

-----------------------------------------------------------------------------
(* What lies in the .part files.                                           *)
(*                                                                         *)
(* A push without a resume id truncates the .part without a look at the    *)
(* record, and a failing fclose is not noticed: with a name shared between *)
(* pushes with and without an id, or a card that fails there, the record   *)
(* may offer what is not on the card.                                      *)

Resumable == ~FlushFails /\ \A f \in NoId, g \in Files \ NoId : Name(f) # Name(g)

\* The first n blocks of the .part of f, if there is one, are those of f.
Right(c, f, n) == c[At("part", f)] # Absent => \A k \in 1..n : c[At("part", f)][k] = f

Bytes ==
  /\ rec # None => Right(card, rec.id, rec.have)
  /\ push # None /\ push.st # "clean" => Right(card, push.file, push.len)

\* What most steps do to them: nothing, or they are taken away.
PartsShrink == \A f \in Files : card'[At("part", f)] \in {card[At("part", f)], Absent}

LEMMA RightShrinks ==
  ASSUME PartsShrink, NEW f \in Files, NEW n, Right(card, f, n)
  PROVE  Right(card', f, n)
BY DEF PartsShrink, Right, Exists

LEMMA MoveFacts ==
  ASSUME TypeOK
  PROVE  \A p, q, r \in Paths :
         /\ Removed(p)[r] = IF r = p THEN Absent ELSE card[r]
         /\ Moved(p, q)[r] = IF r = p THEN Absent ELSE IF r = q THEN card[p] ELSE card[r]
BY DEF TypeOK, Removed, Moved

LEMMA PartPaths ==
  /\ \A f \in Files : At("part", f) \in Paths
  /\ \A f, g : At("part", f) = At("part", g) <=> Name(f) = Name(g)
  /\ \A f, g, place : place # "part" => At("part", f) # At(place, g)
BY PathFacts DEF Places

LEMMA ResDroppedShrinks ==
  ASSUME Base, NEW f \in Files
  PROVE  /\ ResDropped \in [Paths -> Content]
         /\ ResDropped[At("part", f)] \in {card[At("part", f)], Absent}
         /\ \A place \in Places \ {"part"} : ResDropped[At(place, f)] = card[At(place, f)]
<1> TypeOK BY DEF Base
<1>1. CASE rec = None BY <1>1 DEF ResDropped, TypeOK
<1>2. CASE rec # None
  <2>1. <<"part", rec.name>> = At("part", rec.id) /\ rec.id \in Files
    BY <1>2, PathFacts DEF Base, Resumes, TypeOK, Record
  <2> DEFINE p == At("part", rec.id)
  <2>2. p \in Paths /\ At("part", f) \in Paths /\ ResDropped = Removed(p)
    BY <1>2, <2>1, PartPaths DEF ResDropped
  <2>3. \A place \in Places \ {"part"} : At(place, f) \in Paths /\ At(place, f) # p
    BY PartPaths, PathFacts
  <2> HIDE DEF p
  <2> QED BY <2>2, <2>3, MoveFacts, CardFacts
<1> QED BY <1>1, <1>2

LEMMA LandShrinks ==
  ASSUME Base, push # None, NEW place \in Places \ {"part"}, Land(place)
  PROVE  PartsShrink /\ card'[At("part", push.file)] = Absent
<1> DEFINE part == At("part", push.file)
           there == At(place, push.file)
<1>1. TypeOK /\ push.file \in Files BY PushFacts DEF Base
<1>2. part \in Paths /\ there \in Paths /\ part # there BY <1>1, PathFacts, PartPaths DEF Places
<1>3. card' = Moved(part, there) \/ card' = [Removed(part) EXCEPT ![there] = Absent] BY DEF Land
<1> HIDE DEF part, there
<1>4. \A r \in Paths : /\ Moved(part, there)[r] = IF r = part THEN Absent ELSE IF r = there THEN card[part] ELSE card[r]
                       /\ Removed(part)[r] = IF r = part THEN Absent ELSE card[r]
  BY <1>1, <1>2, MoveFacts
<1>5. Removed(part) \in [Paths -> Content] BY <1>1, <1>2, CardFacts
<1>6. \A r \in Paths \ {there} : card'[r] = IF r = part THEN Absent ELSE card[r] BY <1>3, <1>4, <1>5
<1>7. \A f \in Files : At("part", f) \in Paths \ {there} BY <1>2, PartPaths, PathFacts DEF there
<1> QED BY <1>2, <1>6, <1>7 DEF PartsShrink, part

\* All the steps but the two that begin and fill a .part.
LEMMA Shrinks ==
  ASSUME Base, ~FlushFails, Next, ~Receive, \A f \in Files : ~PushFresh(f)
  PROVE  PartsShrink
<1> TypeOK BY DEF Base
<1>1. ASSUME UNCHANGED card PROVE PartsShrink BY <1>1 DEF PartsShrink
<1>2. ASSUME NEW p \in Paths, card' = Removed(p) PROVE PartsShrink
  BY <1>2, MoveFacts, PartPaths DEF PartsShrink
<1>3. ASSUME NEW p \in Paths, NEW q \in Paths, card' = Moved(p, q), \A f : At("part", f) # q PROVE PartsShrink
  BY <1>3, MoveFacts, PartPaths DEF PartsShrink
<1>4. ASSUME NEW u, ClientReset(u) PROVE PartsShrink
  <2>1. UNCHANGED card \/ (push # None /\ card' = Removed(At("part", push.file)))
    BY <1>4 DEF ClientReset
  <2> QED BY <1>1, <1>2, <2>1, PushFacts DEF Places
<1>5. CASE Worker
  <2>1. CASE UNCHANGED card BY <1>1, <2>1
  <2>2. CASE RemoveArchive BY <1>2, <2>2, JobFacts DEF RemoveArchive
  <2> QED BY <1>5, <2>1, <2>2 DEF Worker, Unpack, UnpackFails
<1>6. CASE Program
  BY <1>1, <1>4, <1>6 DEF Program, Launch, Shutdown, Off, PowerCut
<1>7. CASE Pc
  <2>1. CASE GiveUp BY <1>2, <2>1, PushFacts DEF GiveUp, Places
  <2>2. CASE \E f \in Files : PushRest(f) BY <1>1, <2>2 DEF PushRest
  <2>3. CASE Drop BY <1>4, <2>3 DEF Drop
  <2> QED BY <1>7, <2>1, <2>2, <2>3 DEF Pc
<1>8. CASE ApplyGame \/ ApplyConsole \/ ApplyArchive \/ ApplyApp
  <2>1. push # None BY <1>8 DEF ApplyGame, ApplyConsole, ApplyArchive, ApplyApp, Applying
  <2>2. ASSUME LandInbox PROVE PartsShrink BY <2>1, <2>2, LandShrinks DEF LandInbox, Places
  <2>3. ASSUME ApplyConsole PROVE PartsShrink
    <3>1. Land("lib") \/ card' = Moved(At("part", push.file), At("lib", push.file))
      BY <2>3 DEF ApplyConsole, Land
    <3>2. CASE Land("lib") BY <2>1, <3>2, LandShrinks DEF Places
    <3>3. CASE card' = Moved(At("part", push.file), At("lib", push.file))
      BY <1>3, <2>1, <3>3, PushFacts, PartPaths DEF Places
    <3> QED BY <3>1, <3>2, <3>3
  <2> QED BY <1>1, <1>8, <2>2, <2>3 DEF ApplyGame, ApplyArchive, ApplyApp
<1>9. CASE Refuse \/ Confirm \/ Park \/ Place \/ PlaceFails \/ Clean
  <2>1. push # None BY <1>9 DEF Refuse, Confirm, Park, Place, PlaceFails, Clean, Applying
  <2> DEFINE part == At("part", push.file)
             app == At("app", push.file)
             bak == At("bak", push.file)
  <2>2. part \in Paths /\ app \in Paths /\ bak \in Paths BY <2>1, PushFacts DEF Places
  <2>3. \A f : At("part", f) # app /\ At("part", f) # bak BY PartPaths
  <2>4. \/ card' = card \/ card' = Removed(part) \/ card' = Removed(bak)
        \/ card' = Moved(app, bak) \/ card' = Moved(part, app)
        \/ card' = [Removed(app) EXCEPT ![bak] = Absent]
        \/ card' = [Removed(part) EXCEPT ![app] = card[bak], ![bak] = Absent]
    BY <1>9 DEF Refuse, Confirm, Park, Place, PlaceFails, Clean
  <2> HIDE DEF part, app, bak
  <2>5. Removed(part) \in [Paths -> Content] /\ Removed(app) \in [Paths -> Content] BY <2>2, CardFacts
  <2>6. CASE card' = [Removed(app) EXCEPT ![bak] = Absent]
    <3>1. \A r \in Paths \ {app, bak} : card'[r] = Removed(app)[r] BY <2>5, <2>6
    <3>2. \A f \in Files : At("part", f) \in Paths \ {app, bak} BY <2>3, PartPaths
    <3> QED BY <2>2, <3>1, <3>2, MoveFacts DEF PartsShrink
  <2>7. CASE card' = [Removed(part) EXCEPT ![app] = card[bak], ![bak] = Absent]
    <3>1. \A r \in Paths \ {app, bak} : card'[r] = Removed(part)[r] BY <2>5, <2>7
    <3>2. \A f \in Files : At("part", f) \in Paths \ {app, bak} BY <2>3, PartPaths
    <3> QED BY <2>2, <3>1, <3>2, MoveFacts DEF PartsShrink
  <2> QED BY <1>1, <1>2, <1>3, <2>2, <2>3, <2>4, <2>6, <2>7
<1>10. CASE Accept \/ Tick \/ PxtResume BY <1>1, <1>10 DEF Accept, Tick, PxtResume
<1> QED BY <1>5, <1>6, <1>7, <1>8, <1>9, <1>10 DEF Next, Ui, Pc

\* What becomes of a push but for the three steps that begin and fill it.
LEMMA PushGoesOn ==
  ASSUME Base, Next, ~Receive, \A f \in Files : ~PushFresh(f) /\ ~PushRest(f), push' # None
  PROVE  /\ push # None /\ push'.file = push.file /\ push'.len = push.len
         /\ push.st = "clean" => push'.st = "clean"
<1>1. CASE push' = push BY <1>1
<1>2. CASE push' # push
  <2>1. Accept \/ ApplyApp \/ Confirm \/ Park \/ Place
    BY <1>2, WorkerFacts DEF Base, Next, Ui, Pc, Program, Tick, PxtResume, ApplyGame, ApplyConsole, ApplyArchive, LandInbox,
       Refuse, PlaceFails, Clean, Filed, Drop, GiveUp, Launch, Shutdown, Off, PowerCut
  <2>2. push # None BY <2>1 DEF Accept, ApplyApp, Confirm, Park, Place, Applying
  <2>3. push \in Push /\ push.file \in Files BY <2>2, PushFacts DEF Base
  <2>4. PICK x \in {"whole", "ask", "park", "place", "clean"} :
          \/ push' = [push EXCEPT !.st = x]
          \/ push' = [push EXCEPT !.st = x, !.restore = TRUE]
    BY <1>2, <2>1 DEF Accept, ApplyApp, Confirm, Park, Place, LandInbox, Filed
  <2>5. push'.file = push.file /\ push'.len = push.len
    <3>1. CASE push' = [push EXCEPT !.st = x] BY <2>2, <2>3, <3>1, SwapFacts
    <3>2. CASE push' = [push EXCEPT !.st = x, !.restore = TRUE] BY <2>2, <2>3, <3>2, SwapFacts
    <3> QED BY <2>4, <3>1, <3>2
  <2>6. push.st # "clean" BY <2>1, FreeFacts DEF Accept, ApplyApp, Confirm, Park, Place, Applying
  <2> QED BY <2>2, <2>5, <2>6
<1> QED BY <1>1, <1>2

\* What becomes of the record.
LEMMA RecGoesOn ==
  ASSUME Base, Next, \A f \in Files : ~PushFresh(f), rec' # None
  PROVE  \/ rec' = rec
         \/ /\ push # None /\ push.file \notin NoId /\ push.len > 0 /\ push.st = "recv" /\ push' = None
            /\ rec' = Kept(push.file, push.len)
<1>1. CASE rec' = rec BY <1>1
<1>2. CASE Drop \/ Shutdown BY <1>2, ResetFacts, FreeFacts DEF Drop, Shutdown
<1>3. CASE rec' # rec /\ ~Drop /\ ~Shutdown
  <2>1. Accept
    BY <1>3, WorkerFacts DEF Base, Next, Ui, Pc, Program, PushRest, Receive, GiveUp, Tick, PxtResume, ApplyGame, ApplyConsole,
       ApplyArchive, ApplyApp, LandInbox, Refuse, Confirm, Park, Place, PlaceFails, Clean, Launch, Off, PowerCut
  <2> QED BY <1>3, <2>1 DEF Accept, ResDone
<1> QED BY <1>1, <1>2, <1>3

LEMMA NextBytes ==
  ASSUME Base, Bytes, Resumable, Next
  PROVE  Bytes'
<1> TypeOK BY DEF Base
<1>1. rec # None => rec.id \in Files \ NoId /\ rec.have \in 1..Blocks BY DEF Base, TypeOK, Record, Resumes
<1>2. push # None => push.file \in Files /\ push.len \in 0..Blocks BY PushFacts
<1>3. ASSUME NEW f \in Files, PushFresh(f) PROVE Bytes'
  <2>1. push'.file = f /\ push'.len = 0 BY <1>3 DEF PushFresh
  <2>2. Right(card', f, 0) BY Kinds DEF Right
  <2>3. rec' # None => Right(card', rec'.id, rec'.have)
    <3> SUFFICES ASSUME rec' # None PROVE Right(card', rec'.id, rec'.have) OBVIOUS
    <3>1. f \in NoId /\ rec' = rec BY <1>3 DEF PushFresh
    <3>2. At("part", rec.id) # At("part", f) BY <1>1, <3>1, PartPaths DEF Resumable
    <3>3. card'[At("part", rec.id)] = card[At("part", rec.id)]
      BY <1>1, <1>3, <3>1, <3>2, PartPaths DEF PushFresh, TypeOK
    <3> QED BY <3>1, <3>3 DEF Bytes, Right, Exists
  <2> QED BY <2>1, <2>2, <2>3 DEF Bytes
<1>4. ASSUME NEW f \in Files, PushRest(f) PROVE Bytes'
  BY <1>4 DEF PushRest, Bytes, Right, Exists
<1>5. CASE Receive
  <2> DEFINE f == push.file
             p == At("part", f)
             k == push.len + 1
  <2>1. /\ push # None /\ f \in Files /\ k \in 1..Blocks /\ push.st = "recv" /\ p \in Paths
    BY <1>2, <1>5, Kinds, FreeFacts, PartPaths DEF Receive
  <2>2. card' = [card EXCEPT ![p] = [card[p] EXCEPT ![k] = f]] BY <1>5 DEF Receive
  <2>3. card[p] \in Content /\ card \in [Paths -> Content] BY <2>1 DEF TypeOK
  <2>4. push'.file = f /\ push'.len = k /\ rec' = rec
    BY <1>5, <2>1, PushFacts DEF Receive, Push
  <2>5. Right(card, f, push.len) BY <2>1 DEF Bytes
  <2> HIDE DEF p
  <2>6. card'[p] = [card[p] EXCEPT ![k] = f] /\ \A q \in Paths : q # p => card'[q] = card[q]
    BY <2>1, <2>2, <2>3
  <2>7. /\ card'[p] = Absent <=> card[p] = Absent
        /\ card[p] # Absent => card'[p][k] = f
        /\ \A j \in 1..Blocks : j # k => card'[p][j] = card[p][j]
    BY <2>1, <2>3, <2>6, BlockWritten
  <2>8. \A j \in 1..k : j = k \/ j \in 1..push.len BY <1>2, <2>1
  <2>9. \A j \in 1..k : j \in 1..Blocks BY <2>1, Kinds
  <2>10. card'[p] # Absent => \A j \in 1..k : card'[p][j] = f
    BY <2>5, <2>7, <2>8, <2>9 DEF Right, Exists, p
  <2>11. Right(card', f, k) BY <2>10 DEF Right, Exists, p
  <2>12. rec # None => Right(card', rec.id, rec.have)
    <3> SUFFICES ASSUME rec # None PROVE Right(card', rec.id, rec.have) OBVIOUS
    <3>1. CASE f \in NoId
      <4>1. At("part", rec.id) # p BY <1>1, <3>1, PartPaths DEF Resumable, p
      <4> QED BY <1>1, <2>6, <4>1, PartPaths DEF Bytes, Right, Exists
    <3>2. CASE f \notin NoId
      <4>1. rec.id = f /\ rec.have <= push.len BY <2>1, <3>2 DEF Base, Resumes
      <4>2. \A j \in 1..rec.have : j \in 1..k BY <1>1, <1>2, <2>1, <4>1, Kinds
      <4> QED BY <2>11, <4>1, <4>2 DEF Right
    <3> QED BY <3>1, <3>2
  <2> QED BY <2>4, <2>11, <2>12 DEF Bytes
<1>6. CASE ~Receive /\ \A f \in Files : ~PushFresh(f) /\ ~PushRest(f)
  <2>1. PartsShrink BY <1>6, Shrinks DEF Resumable
  <2>2. rec' # None => Right(card', rec'.id, rec'.have)
    <3> SUFFICES ASSUME rec' # None PROVE Right(card', rec'.id, rec'.have) OBVIOUS
    <3>1. CASE rec' = rec BY <1>1, <2>1, <3>1, RightShrinks DEF Bytes
    <3>2. CASE push # None /\ push.st = "recv" /\ rec' = Kept(push.file, push.len)
      BY <1>2, <2>1, <3>2, RightShrinks DEF Bytes, Kept
    <3> QED BY <1>6, <3>1, <3>2, RecGoesOn
  <2>3. push' # None /\ push'.st # "clean" => Right(card', push'.file, push'.len)
    BY <1>2, <1>6, <2>1, PushGoesOn, RightShrinks DEF Bytes
  <2> QED BY <2>2, <2>3 DEF Bytes
<1> QED BY <1>3, <1>4, <1>5, <1>6

\* What push_resume offers to skip is on the card, as long as no name is pushed
\* both with and without a resume id and a card does not fail on closing a file
\* (httpsrv.c 2727, 841).
THEOREM ResumeCorrect == Resumable => (Spec => []ResumeIsRight)
<1> SUFFICES ASSUME Resumable PROVE Spec => []ResumeIsRight
  OBVIOUS
<1>1. Init => Bytes BY DEF Init, Bytes
<1>2. Base /\ Bytes /\ [Next]_vars => Bytes'
  <2>1. ASSUME Bytes, UNCHANGED vars PROVE Bytes' BY <2>1 DEF vars, Bytes, Right, Exists
  <2> QED BY <2>1, NextBytes
<1>3. Base /\ Bytes => ResumeIsRight
  <2> SUFFICES ASSUME Base, Bytes, NEW f \in Files, NEW k \in 1..Offer(f)
               PROVE  card[At("part", f)][k] = f
    BY DEF ResumeIsRight
  <2>1. rec # None /\ rec.id = f /\ Exists(<<"part", rec.name>>) /\ k \in 1..rec.have BY DEF Offer
  <2>2. <<"part", rec.name>> = At("part", f) BY <2>1, PathFacts DEF Base, Resumes
  <2> QED BY <2>1, <2>2 DEF Bytes, Right, Exists
<1> QED BY <1>1, <1>2, <1>3, Invariance, PTL DEF Spec

\* The record is only replaced by one of the same transfer that has more of it.
THEOREM ResumeOnlyGains == Spec => ResumeGains
<1>1. ASSUME Base, Next, rec # None, rec' # None
      PROVE  rec'.id = rec.id /\ rec'.have >= rec.have
  <2>1. rec.have \in 1..Blocks /\ Blocks \in Nat BY <1>1, Kinds DEF Base, TypeOK, Record
  <2>2. \A f \in Files : PushFresh(f) => rec' = rec BY <1>1 DEF PushFresh
  <2>3. CASE rec' = rec BY <2>1, <2>3
  <2>4. CASE push # None /\ push.file \notin NoId /\ rec' = Kept(push.file, push.len)
    <3>1. rec.id = push.file /\ rec.have <= push.len BY <1>1, <2>4 DEF Base, Resumes
    <3>2. push.len \in 0..Blocks BY <1>1, <2>4, PushFacts DEF Base
    <3> QED BY <2>1, <2>4, <3>1, <3>2 DEF Kept
  <2> QED BY <1>1, <2>2, <2>3, <2>4, RecGoesOn
<1>2. Base /\ [Next]_vars => [rec # None /\ rec' # None => rec'.id = rec.id /\ rec'.have >= rec.have]_rec
  BY <1>1 DEF vars
<1> QED BY <1>2, Invariance, PTL DEF Spec, ResumeGains

-----------------------------------------------------------------------------
(* What is filed.                                                          *)
(*                                                                         *)
(* An archive lies where it was pushed to until its job is done with it; a *)
(* push of another file to that place would be unpacked in its stead.      *)

Apart ==
  /\ \A f \in Folders \cup Dats, g \in Files : Name(g) = Name(f) => g = f
  /\ \A f, g \in Consoles : Name(g) = Name(f) => g = f

\* What may lie where f is filed, and where it waits for its job.
Fit(f)    == {Absent, Whole(Old)} \cup {Whole(g) : g \in {h \in Files : Name(h) = Name(f)}}
LibFit(f) == {Absent} \cup {Whole(g) : g \in {h \in Consoles : Name(h) = Name(f)}}

Filing ==
  /\ \A f \in Files : card[At("lib", f)] \in LibFit(f)
  /\ \A place \in {"inbox", "app", "bak"}, f \in Files : card[At(place, f)] \in Fit(f)

Unpacking ==
  /\ \A f \in Folders \cup Dats : \A k \in 1..Blocks :
       card[At("part", f)] # Absent => card[At("part", f)][k] \in {f, None}
  /\ cur # None /\ cur.file \in Dats /\ stage # None => stage = cur.file
  /\ \A p \in out : p[1] = p[2]

LEMMA FitFacts ==
  /\ \A f : Absent \in Fit(f) /\ Absent \in LibFit(f)
  /\ \A f \in Files : Whole(f) \in Fit(f) /\ (f \in Consoles => Whole(f) \in LibFit(f))
  /\ \A f, g : Name(f) = Name(g) => Fit(f) = Fit(g) /\ LibFit(f) = LibFit(g)
BY DEF Fit, LibFit

\* The .part of a push that is being filed is all its own.
LEMMA PushIsWhole ==
  ASSUME Base, Bytes, push # None, push.st \notin {"recv", "clean"}
  PROVE  card[At("part", push.file)] \in {Absent, Whole(push.file)}
<1> DEFINE c == card[At("part", push.file)]
<1>1. push.file \in Files /\ push.len = Blocks BY PushFacts DEF Base, Flow
<1>2. c \in Content BY <1>1, PartPaths DEF Base, TypeOK
<1>3. CASE c # Absent
  <2>1. c \in [1..Blocks -> Files \cup {Old, None}] BY <1>2, <1>3 DEF Content
  <2>2. \A k \in 1..Blocks : c[k] = push.file BY <1>1, <1>3 DEF Bytes, Right
  <2>3. c = [k \in 1..Blocks |-> push.file] BY <2>1, <2>2
  <2> QED BY <2>3 DEF Whole
<1> QED BY <1>3

\* What is filed changes where something is filed, and only there.
LandedSame == \A place \in Places \ {"part"}, f \in Files : card'[At(place, f)] = card[At(place, f)]

LEMMA OtherPaths ==
  ASSUME NEW place \in Places \ {"part"}, NEW f \in Files
  PROVE  At(place, f) \in Paths /\ \A g : At("part", g) # At(place, f)
BY PathFacts, PartPaths

LEMMA ResetSame ==
  ASSUME Base, NEW u, ClientReset(u)
  PROVE  LandedSame
<1> TypeOK BY DEF Base
<1>1. CASE UNCHANGED card BY <1>1 DEF LandedSame
<1>2. CASE push # None /\ card' = Removed(At("part", push.file))
  BY <1>2, PushFacts, OtherPaths, MoveFacts DEF LandedSame, Places
<1>3. CASE card' = Unflushed(At("part", push.file), push.len)
  <2> DEFINE p == At("part", push.file)
  <2>1. \A place \in Places \ {"part"}, g \in Files : At(place, g) \in Paths /\ At(place, g) # p
    BY OtherPaths
  <2>2. \A q \in Paths : q # p => card'[q] = card[q] BY <1>3 DEF Unflushed, TypeOK
  <2> QED BY <2>1, <2>2 DEF LandedSame
<1> QED BY <1>1, <1>2, <1>3 DEF ClientReset

LEMMA PcSame ==
  ASSUME Base, Pc \/ Receive
  PROVE  LandedSame
<1> TypeOK BY DEF Base
<1>1. ASSUME NEW f \in Files, PushFresh(f) PROVE LandedSame
  <2> DEFINE left == IF f \in NoId THEN card ELSE ResDropped
             p == At("part", f)
  <2>1. left \in [Paths -> Content] BY ResDroppedShrinks DEF TypeOK
  <2>2. \A place \in Places \ {"part"}, g \in Files : left[At(place, g)] = card[At(place, g)]
    BY ResDroppedShrinks
  <2>3. card' = [left EXCEPT ![p] = Whole(None)] BY <1>1 DEF PushFresh
  <2>4. \A place \in Places \ {"part"}, g \in Files : At(place, g) \in Paths /\ At(place, g) # p
    BY OtherPaths
  <2> HIDE DEF left, p
  <2> QED BY <2>1, <2>2, <2>3, <2>4 DEF LandedSame
<1>2. CASE Receive
  <2> DEFINE p == At("part", push.file)
  <2>1. \A place \in Places \ {"part"}, g \in Files : At(place, g) \in Paths /\ At(place, g) # p
    BY OtherPaths
  <2>2. \A q \in Paths : q # p => card'[q] = card[q] BY <1>2 DEF Receive, TypeOK
  <2> QED BY <2>1, <2>2 DEF LandedSame
<1>3. CASE GiveUp
  BY <1>3, PushFacts, OtherPaths, MoveFacts DEF GiveUp, LandedSame, Places
<1>4. CASE Drop BY <1>4, ResetSame DEF Drop
<1>5. ASSUME NEW f \in Files, PushRest(f) PROVE LandedSame BY <1>5 DEF PushRest, LandedSame
<1> QED BY <1>1, <1>2, <1>3, <1>4, <1>5 DEF Pc

\* A file that is landed takes its place, or both are lost.
LEMMA LandLands ==
  ASSUME Base, push # None, NEW place \in Places \ {"part"}, Land(place),
         NEW q \in Places \ {"part"}, NEW f \in Files
  PROVE  card'[At(q, f)] = card[At(q, f)]
         \/ (q = place /\ Name(f) = Name(push.file) /\ card'[At(q, f)] \in {Absent, card[At("part", push.file)]})
<1> DEFINE part == At("part", push.file)
           there == At(place, push.file)
           r == At(q, f)
<1>1. TypeOK /\ push.file \in Files BY PushFacts DEF Base
<1>2. part \in Paths /\ there \in Paths /\ r \in Paths /\ r # part /\ there # part
  BY <1>1, PartPaths, OtherPaths
<1>3. card' = Moved(part, there) \/ card' = [Removed(part) EXCEPT ![there] = Absent] BY DEF Land
<1>4. r = there => q = place /\ Name(f) = Name(push.file) BY PathFacts
<1> HIDE DEF part, there, r
<1>5. /\ Moved(part, there)[r] = IF r = there THEN card[part] ELSE card[r]
      /\ Removed(part)[r] = card[r]
  BY <1>1, <1>2, MoveFacts
<1>6. Removed(part) \in [Paths -> Content] BY <1>1, <1>2, CardFacts
<1>7. card'[r] = IF r = there THEN card'[there] ELSE card[r] BY <1>2, <1>3, <1>5, <1>6
<1>8. card'[there] \in {Absent, card[part]}
  <2>1. Moved(part, there)[there] = card[part] BY <1>1, <1>2, MoveFacts
  <2> QED BY <1>2, <1>3, <1>6, <2>1
<1> QED BY <1>4, <1>7, <1>8 DEF part, r

LEMMA FilingSame ==
  ASSUME Filing, LandedSame
  PROVE  Filing'
BY DEF Filing, LandedSame, Places

LEMMA LandFits ==
  ASSUME Base, Bytes, Filing, Applying("whole"), NEW place \in {"inbox", "lib"}, Land(place),
         place = "lib" => push.file \in Consoles
  PROVE  Filing'
<1>1. push # None /\ push.st = "whole" /\ push.file \in Files BY PushFacts DEF Applying, Base
<1>2. card[At("part", push.file)] \in {Absent, Whole(push.file)} BY <1>1, PushIsWhole
<1>3. ASSUME NEW q \in Places \ {"part"}, NEW f \in Files
      PROVE  card'[At(q, f)] = card[At(q, f)]
             \/ (q = place /\ Name(f) = Name(push.file) /\ card'[At(q, f)] \in {Absent, Whole(push.file)})
  BY <1>1, <1>2, <1>3, LandLands DEF Places
<1>4. ASSUME NEW f \in Files PROVE card'[At("lib", f)] \in LibFit(f)
  BY <1>1, <1>3, <1>4, FitFacts DEF Filing, Places
<1>5. ASSUME NEW q \in {"inbox", "app", "bak"}, NEW f \in Files PROVE card'[At(q, f)] \in Fit(f)
  BY <1>1, <1>3, <1>5, FitFacts DEF Filing, Places
<1> QED BY <1>4, <1>5 DEF Filing

LEMMA InstallFits ==
  ASSUME Base, Bytes, Filing, Refuse \/ Confirm \/ Park \/ Place \/ PlaceFails \/ Clean
  PROVE  Filing'
<1>1. push # None /\ push.file \in Files /\ TypeOK
  BY PushFacts DEF Refuse, Confirm, Park, Place, PlaceFails, Clean, Applying, Base
<1> DEFINE part == At("part", push.file)
           app == At("app", push.file)
           bak == At("bak", push.file)
<1>2. part \in Paths /\ app \in Paths /\ bak \in Paths /\ part # app /\ part # bak /\ app # bak
  BY <1>1, PathFacts DEF Places
<1>3. \/ card' = card \/ card' = Removed(part) \/ card' = Removed(bak)
      \/ card' = Moved(app, bak) \/ (Place /\ card' = Moved(part, app))
      \/ card' = [Removed(app) EXCEPT ![bak] = Absent]
      \/ card' = [Removed(part) EXCEPT ![app] = card[bak], ![bak] = Absent]
  BY DEF Refuse, Confirm, Park, Place, PlaceFails, Clean
<1>4. Place => card[part] \in {Absent, Whole(push.file)}
  BY <1>1, PushIsWhole DEF Place, Applying
<1>5. card[app] \in Fit(push.file) /\ card[bak] \in Fit(push.file) BY <1>1 DEF Filing
<1> HIDE DEF part, app, bak
<1>6. /\ \A r \in Paths \ {part, app, bak} : card'[r] = card[r]
      /\ card'[app] \in {card[app], card[bak], Absent} \/ (Place /\ card'[app] = card[part])
      /\ card'[bak] \in {card[app], card[bak], Absent}
  <2>1. Removed(part) \in [Paths -> Content] /\ Removed(app) \in [Paths -> Content] BY <1>1, <1>2, CardFacts
  <2>2. CASE card' = [Removed(app) EXCEPT ![bak] = Absent]
    BY <1>1, <1>2, <2>1, <2>2, MoveFacts
  <2>3. CASE card' = [Removed(part) EXCEPT ![app] = card[bak], ![bak] = Absent]
    BY <1>1, <1>2, <2>1, <2>3, MoveFacts
  <2> QED BY <1>1, <1>2, <1>3, <2>2, <2>3, MoveFacts
<1>7. card'[app] \in Fit(push.file) /\ card'[bak] \in Fit(push.file)
  BY <1>1, <1>4, <1>5, <1>6, FitFacts
<1>8. ASSUME NEW q \in Places \ {"part"}, NEW f \in Files
      PROVE  card'[At(q, f)] = card[At(q, f)]
             \/ (q \in {"app", "bak"} /\ card'[At(q, f)] \in Fit(f))
  <2>1. At(q, f) \in Paths /\ At(q, f) # part BY <1>8, OtherPaths DEF part
  <2>2. At(q, f) = app => q = "app" /\ Name(f) = Name(push.file) BY PathFacts DEF app
  <2>3. At(q, f) = bak => q = "bak" /\ Name(f) = Name(push.file) BY PathFacts DEF bak
  <2>4. Name(f) = Name(push.file) => Fit(f) = Fit(push.file) BY FitFacts
  <2> QED BY <1>6, <1>7, <2>1, <2>2, <2>3, <2>4
<1> QED BY <1>8 DEF Filing, Places

LEMMA NextFits ==
  ASSUME Base, Bytes, Filing, ~FlushFails, Next
  PROVE  Filing'
<1> TypeOK BY DEF Base
<1>1. ASSUME UNCHANGED card PROVE Filing' BY <1>1 DEF Filing
<1>2. CASE Pc \/ Receive BY <1>2, PcSame, FilingSame
<1>3. CASE RemoveArchive
  <2>1. card' = Removed(Archive(cur.file)) /\ Archive(cur.file) \in Paths BY <1>3, JobFacts DEF RemoveArchive
  <2>2. \A r \in Paths : card'[r] \in {card[r], Absent} BY <2>1, MoveFacts
  <2>3. \A place \in Places, f \in Files : card'[At(place, f)] \in {card[At(place, f)], Absent}
    BY <2>2, PathFacts
  <2> QED BY <2>3, FitFacts DEF Filing, Places
<1>4. CASE ApplyGame \/ ApplyConsole \/ ApplyArchive \/ ApplyApp
  <2>1. Applying("whole") BY <1>4 DEF ApplyGame, ApplyConsole, ApplyArchive, ApplyApp
  <2>2. ASSUME LandInbox PROVE Filing' BY <2>1, <2>2, LandFits DEF LandInbox
  <2>3. CASE ApplyConsole
    <3>1. push # None BY <2>1 DEF Applying
    <3>2. CASE Land("lib") BY <2>1, <2>3, <3>2, LandFits DEF ApplyConsole
    <3>3. CASE card' = Moved(At("part", push.file), At("lib", push.file))
      <4> DEFINE part == At("part", push.file)
                 lib == At("lib", push.file)
      <4>1. push.file \in Files /\ push.file \in Consoles /\ push.st = "whole"
        BY <2>1, <2>3, <3>1, PushFacts DEF ApplyConsole, Applying
      <4>2. part \in Paths /\ lib \in Paths BY <4>1, PathFacts DEF Places
      <4>3. card[part] \in {Absent, Whole(push.file)} BY <3>1, <4>1, PushIsWhole
      <4>4. card'[lib] \in LibFit(push.file) \/ lib = part
        BY <3>3, <4>1, <4>2, <4>3, MoveFacts, FitFacts
      <4>5. \A r \in Paths \ {part, lib} : card'[r] = card[r] BY <3>3, <4>2, MoveFacts
      <4>6. lib # part BY OtherPaths, <4>1 DEF Places
      <4>7. ASSUME NEW q \in Places \ {"part"}, NEW f \in Files
            PROVE  card'[At(q, f)] = card[At(q, f)] \/ (q = "lib" /\ card'[At(q, f)] \in LibFit(f))
        <5>1. At(q, f) \in Paths /\ At(q, f) # part BY <4>7, OtherPaths
        <5>2. At(q, f) = lib => q = "lib" /\ Name(f) = Name(push.file) BY PathFacts
        <5>3. Name(f) = Name(push.file) => LibFit(f) = LibFit(push.file) BY FitFacts
        <5> QED BY <4>4, <4>5, <4>6, <5>1, <5>2, <5>3
      <4> QED BY <4>7 DEF Filing, Places
    <3> QED BY <2>3, <3>2, <3>3 DEF ApplyConsole, Land
  <2> QED BY <1>1, <1>4, <2>2, <2>3 DEF ApplyGame, ApplyArchive, ApplyApp
<1>5. CASE Refuse \/ Confirm \/ Park \/ Place \/ PlaceFails \/ Clean BY <1>5, InstallFits
<1>6. CASE Program
  BY <1>1, <1>6, ResetSame, FilingSame DEF Program, Launch, Shutdown, Off, PowerCut
<1>7. CASE Accept \/ Tick \/ PxtResume BY <1>1, <1>7 DEF Accept, Tick, PxtResume
<1>8. CASE Unpack \/ UnpackFails BY <1>1, <1>8 DEF Unpack, UnpackFails
<1> QED BY <1>2, <1>3, <1>4, <1>5, <1>6, <1>7, <1>8 DEF Next, Ui, Worker

\* The archive of a job is of that job's file.
LEMMA ArchiveIsOfJob ==
  ASSUME Base, Filing, Unpacking, Apart, cur # None, NEW g \in Files, card[Archive(cur.file)] = Whole(g)
  PROVE  g = cur.file
<1>1. cur.file \in Files /\ Unpacks(cur.file) BY JobFacts DEF Base, Works, Busy, Working
<1>2. CASE cur.file \in Consoles
  <2>1. Whole(g) \in LibFit(cur.file) BY <1>1, <1>2 DEF Archive, Filing
  <2>2. Whole(g) # Absent BY ContentFacts
  <2>3. PICK h \in Consoles : Name(h) = Name(cur.file) /\ Whole(g) = Whole(h) BY <2>1, <2>2 DEF LibFit
  <2> QED BY <1>2, <2>3, WholeIs DEF Apart
<1>3. CASE cur.file \in Folders \cup Dats
  <2>1. Archive(cur.file) = At("part", cur.file) BY <1>3, Kinds DEF Archive
  <2>2. Whole(g) # Absent /\ Whole(g)[1] = g BY ContentFacts, Kinds
  <2>3. g \in {cur.file, None} BY <1>3, <2>1, <2>2, Kinds DEF Unpacking
  <2> QED BY <2>3, Kinds
<1> QED BY <1>1, <1>2, <1>3 DEF Unpacks

LEMMA UnpackingShrinks ==
  ASSUME Base, Unpacking, PartsShrink
  PROVE  \A f \in Folders \cup Dats : \A k \in 1..Blocks :
           card'[At("part", f)] # Absent => card'[At("part", f)][k] \in {f, None}
BY Kinds DEF PartsShrink, Unpacking

LEMMA NextUnpacking ==
  ASSUME Base, Filing, Unpacking, Apart, ~FlushFails, Next
  PROVE  Unpacking'
<1> TypeOK BY DEF Base
<1>1. \A f \in Folders \cup Dats : \A k \in 1..Blocks :
        card'[At("part", f)] # Absent => card'[At("part", f)][k] \in {f, None}
  <2>1. CASE ~Receive /\ \A f \in Files : ~PushFresh(f) BY <2>1, Shrinks, UnpackingShrinks
  <2>2. ASSUME NEW g \in Files, PushFresh(g)
        PROVE  \A f \in Folders \cup Dats : \A k \in 1..Blocks :
               card'[At("part", f)] # Absent => card'[At("part", f)][k] \in {f, None}
    <3> DEFINE left == IF g \in NoId THEN card ELSE ResDropped
               p == At("part", g)
    <3>1. left \in [Paths -> Content] /\ \A f \in Files : left[At("part", f)] \in {card[At("part", f)], Absent}
      BY ResDroppedShrinks DEF TypeOK
    <3>2. card' = [left EXCEPT ![p] = Whole(None)] BY <2>2 DEF PushFresh
    <3>3. \A f \in Files : At("part", f) \in Paths BY PartPaths
    <3> HIDE DEF left, p
    <3>4. \A f \in Files : At("part", f) # p => card'[At("part", f)] \in {card[At("part", f)], Absent}
      BY <3>1, <3>2, <3>3
    <3>5. p \in Paths => card'[p] = Whole(None) BY <3>1, <3>2
    <3>6. \A k \in 1..Blocks : Whole(None)[k] = None BY ContentFacts
    <3> QED BY <3>3, <3>4, <3>5, <3>6, Kinds DEF Unpacking
  <2>3. CASE Receive
    <3> DEFINE g == push.file
               p == At("part", g)
               k == push.len + 1
    <3>1. g \in Files /\ k \in 1..Blocks /\ p \in Paths
      BY <2>3, PushFacts, Kinds, PartPaths DEF Receive
    <3>2. card' = [card EXCEPT ![p] = [card[p] EXCEPT ![k] = g]] BY <2>3 DEF Receive
    <3>3. card[p] \in Content /\ card \in [Paths -> Content] BY <3>1 DEF TypeOK
    <3> HIDE DEF p
    <3>4. card'[p] = [card[p] EXCEPT ![k] = g] /\ \A q \in Paths : q # p => card'[q] = card[q]
      BY <3>1, <3>2, <3>3
    <3>5. /\ card'[p] = Absent <=> card[p] = Absent
          /\ card[p] # Absent => card'[p][k] = g
          /\ \A j \in 1..Blocks : j # k => card'[p][j] = card[p][j]
      BY <3>1, <3>3, <3>4, BlockWritten
    <3>6. ASSUME NEW f \in Folders \cup Dats, NEW j \in 1..Blocks, card'[At("part", f)] # Absent
          PROVE  card'[At("part", f)][j] \in {f, None}
      <4>1. f \in Files BY Kinds
      <4>2. CASE At("part", f) = p
        <5>1. g = f BY <3>1, <4>1, <4>2, PartPaths DEF Apart, p
        <5> QED BY <3>1, <3>5, <3>6, <4>2, <5>1 DEF Unpacking
      <4>3. CASE At("part", f) # p
        BY <3>4, <3>6, <4>1, <4>3, PartPaths DEF Unpacking
      <4> QED BY <4>2, <4>3
    <3> QED BY <3>6
  <2> QED BY <2>1, <2>2, <2>3
<1>2. /\ cur' # None /\ cur'.file \in Dats /\ stage' # None => stage' = cur'.file
      /\ \A p \in out' : p[1] = p[2]
  <2>1. CASE UNCHANGED <<cur, stage, out>> BY <2>1 DEF Unpacking
  <2>2. CASE Unpack
    <3>1. cur # None BY <2>2 DEF Unpack
    <3>2. PICK g \in Files :
            /\ card[Archive(cur.file)] = Whole(g)
            /\ IF cur.file \in Dats THEN stage' = g /\ UNCHANGED out
                                    ELSE out' = out \cup {<<cur.file, g>>} /\ UNCHANGED stage
      BY <2>2 DEF Unpack
    <3>3. g = cur.file BY <3>1, <3>2, ArchiveIsOfJob
    <3>4. cur'.file = cur.file BY <2>2, WorkerFacts DEF Worker
    <3> QED BY <3>1, <3>2, <3>3, <3>4 DEF Unpacking
  <2>3. CASE UnpackFails \/ RemoveArchive
    <3>1. cur # None /\ cur'.file = cur.file BY <2>3, WorkerFacts DEF Worker
    <3> QED BY <2>3, <3>1 DEF UnpackFails, RemoveArchive, Unpacking
  <2>4. CASE Tick
    <3>1. \A p \in out' : p[1] = p[2] BY <2>4 DEF Tick, Unpacking
    <3> QED BY <2>4, <3>1, TickFacts DEF Unpacking
  <2>5. ASSUME NEW f \in Files, Enqueue(f), out' = out
        PROVE  /\ cur' # None /\ cur'.file \in Dats /\ stage' # None => stage' = cur'.file
               /\ \A p \in out' : p[1] = p[2]
    BY <2>5, EnqueueFacts DEF Unpacking
  <2>6. CASE PxtResume BY <2>5, <2>6, PxtResumeFacts DEF PxtResume
  <2>7. CASE ApplyGame \/ ApplyConsole \/ ApplyArchive \/ ApplyApp
    <3>1. push # None BY <2>7 DEF ApplyGame, ApplyConsole, ApplyArchive, ApplyApp, Applying
    <3>2. push.file \in Files BY <3>1, PushFacts
    <3>3. CASE UNCHANGED jobs BY <2>1, <3>3 DEF jobs
    <3>4. CASE Enqueue(push.file) /\ out' = out BY <2>5, <3>2, <3>4
    <3> QED BY <2>7, <3>3, <3>4 DEF ApplyGame, ApplyConsole, ApplyArchive, ApplyApp, LandInbox
  <2>8. CASE Refuse \/ Confirm \/ Park \/ Place \/ PlaceFails \/ Clean \/ Accept \/ Receive \/ Pc
    <3>1. UNCHANGED jobs
      BY <2>8 DEF Refuse, Confirm, Park, Place, PlaceFails, Clean, Accept, Receive, Pc, PushFresh, PushRest, Drop, GiveUp
    <3> QED BY <2>1, <3>1 DEF jobs
  <2>9. CASE Program
    BY <2>1, <2>9 DEF Program, Launch, Shutdown, Off, PowerCut, jobs, Unpacking
  <2> QED BY <2>2, <2>3, <2>4, <2>6, <2>7, <2>8, <2>9 DEF Next, Ui, Worker
<1> QED BY <1>1, <1>2 DEF Unpacking

\* What lies where, in every reachable state.
THEOREM FilingCorrect == Resumable /\ Apart => (Spec => [](Bytes /\ Filing /\ Unpacking))
<1> SUFFICES ASSUME Resumable, Apart PROVE Spec => [](Bytes /\ Filing /\ Unpacking)
  OBVIOUS
<1> DEFINE Inv == Bytes /\ Filing /\ Unpacking
<1>1. Init => Inv
  <2> SUFFICES ASSUME Init PROVE Inv OBVIOUS
  <2>1. Bytes BY DEF Init, Bytes
  <2>2. \A p \in Paths : card[p] \in {Absent, Whole(Old)} /\ (p[1] # "app" => card[p] = Absent)
    BY DEF Init
  <2>3. \A place \in Places, f \in Files : At(place, f) \in Paths /\ At(place, f)[1] = place BY PathFacts
  <2>4. Filing BY <2>2, <2>3 DEF Filing, Fit, LibFit, Places
  <2>5. Unpacking BY <2>2, <2>3, Kinds DEF Init, Unpacking, Places
  <2> QED BY <2>1, <2>4, <2>5
<1>2. Base /\ Inv /\ [Next]_vars => Inv'
  <2>1. ASSUME Inv, UNCHANGED vars PROVE Inv' BY <2>1 DEF vars, Bytes, Right, Filing, Unpacking
  <2> QED BY <2>1, NextBytes, NextFits, NextUnpacking DEF Resumable
<1> QED BY <1>1, <1>2, Invariance, PTL DEF Spec

\* Only whole files are filed, whatever is interrupted, resumed, parked or put
\* back on the way, as long as no two archives wait in one place.
THEOREM LandedCorrect == Resumable /\ Apart => (Spec => []LandedIsWhole)
<1> SUFFICES ASSUME Resumable, Apart PROVE Spec => []LandedIsWhole
  OBVIOUS
<1>1. Filing /\ Unpacking => LandedIsWhole
  <2> SUFFICES ASSUME Filing, Unpacking PROVE LandedIsWhole OBVIOUS
  <2>1. ASSUME NEW place \in {"inbox", "lib", "app"}, NEW n \in Names
        PROVE  card[<<place, n>>] \in {Absent, Whole(Old)} \cup {Whole(f) : f \in {g \in Files : Name(g) = n}}
    <3>1. PICK f \in Files : n = Name(f) BY DEF Names
    <3>2. <<place, n>> = At(place, f) BY <3>1, PathFacts
    <3>3. card[At(place, f)] \in Fit(f) \cup LibFit(f) BY <2>1 DEF Filing
    <3> QED BY <3>1, <3>2, <3>3, Kinds DEF Fit, LibFit
  <2> QED BY <2>1 DEF LandedIsWhole, Unpacking
<1> QED BY <1>1, FilingCorrect, PTL

-----------------------------------------------------------------------------
(* What has been answered 200 while the card and the power hold. *)

LEMMA CatFacts ==
  ASSUME NEW s \in Seq(Files), NEW t \in Seq(Files), NEW g
  PROVE  (\E i \in 1..Len(s \o t) : (s \o t)[i] = g) <=> InSeq(s, g) \/ InSeq(t, g)
<1> DEFINE u == s \o t
<1>1. /\ Len(s) \in Nat /\ Len(t) \in Nat /\ Len(u) = Len(s) + Len(t)
      /\ \A i \in 1..Len(s) : u[i] = s[i]
      /\ \A i \in 1..Len(t) : u[Len(s) + i] = t[i]
  OBVIOUS
<1>2. \A i \in 1..Len(u) : i \in 1..Len(s) \/ (i - Len(s) \in 1..Len(t) /\ i = Len(s) + (i - Len(s)))
  BY <1>1
<1>3. \A i \in 1..Len(s) : i \in 1..Len(u) BY <1>1
<1>4. \A i \in 1..Len(t) : Len(s) + i \in 1..Len(u) BY <1>1
<1> HIDE DEF u
<1>5. ASSUME NEW i \in 1..Len(u), u[i] = g PROVE InSeq(s, g) \/ InSeq(t, g)
  BY <1>1, <1>2, <1>5 DEF InSeq
<1>6. InSeq(s, g) \/ InSeq(t, g) => \E i \in 1..Len(u) : u[i] = g
  BY <1>1, <1>3, <1>4 DEF InSeq
<1> QED BY <1>5, <1>6 DEF u

LEMMA KnownIs ==
  ASSUME TypeOK, NEW f
  PROVE  Known(f) <=> IF up = "up" THEN Busy(f) \/ InSeq(boot, f) ELSE InSeq(pend, f)
<1>1. CASE up = "up" BY <1>1, CatFacts DEF TypeOK, Known, Busy, Working
<1>2. CASE up # "up" BY <1>2 DEF Known, InSeq
<1> QED BY <1>1, <1>2

LEMMA KnownNext ==
  ASSUME TypeOK', NEW f
  PROVE  Known(f)' <=> IF up' = "up" THEN Busy(f)' \/ InSeq(boot', f) ELSE InSeq(pend', f)
<1>1. CASE up' = "up" BY SMTT(30), <1>1, CatFacts DEF TypeOK, Known, Busy, Working
<1>2. CASE up' # "up" BY <1>2 DEF Known, InSeq
<1> QED BY <1>1, <1>2

\* Faults are only counted up, and the steps of Pc and Ui that touch no job
\* leave the program running.
LEMMA FaultsGrow ==
  ASSUME Base, Next
  PROVE  faults' \in {faults, faults + 1}
<1>1. CASE Worker BY <1>1, WorkerFacts DEF Base
<1>2. CASE Tick BY <1>2, TickFacts DEF Base
<1>3. CASE PxtResume BY <1>3, PxtResumeFacts, EnqueueFacts DEF Base
<1>4. CASE ApplyGame \/ ApplyConsole \/ ApplyArchive \/ ApplyApp
  <2>1. push # None /\ push.file \in Files
    BY <1>4, PushFacts DEF ApplyGame, ApplyConsole, ApplyArchive, ApplyApp, Applying, Base
  <2>2. ASSUME Enqueue(push.file) PROVE faults' \in {faults, faults + 1}
    BY <2>1, <2>2, EnqueueFacts DEF Base
  <2> QED BY <1>4, <2>2 DEF ApplyGame, ApplyConsole, ApplyArchive, ApplyApp, LandInbox, Land, Failing, Fault, env
<1>5. CASE Pc \/ Receive \/ Accept
  BY <1>5, ResetFacts DEF Pc, Receive, Accept, PushFresh, PushRest, Drop, GiveUp, env
<1>6. CASE Refuse \/ Confirm \/ Park \/ Place \/ PlaceFails \/ Clean
  BY <1>6 DEF Refuse, Confirm, Park, Place, PlaceFails, Clean, Failing, Fault, env
<1>7. CASE Program
  BY <1>7, ResetFacts DEF Program, Launch, Shutdown, Off, PowerCut, PowerOff, Fault
<1> QED BY <1>1, <1>2, <1>3, <1>4, <1>5, <1>6, <1>7 DEF Next, Ui

LEMMA Powered ==
  ASSUME Base, Next, faults' = 0
  PROVE  faults = 0 /\ ~(faults' = faults + 1)
BY FaultsGrow DEF Base, TypeOK

\* A job that is out of the archive has its content in place; so has a push
\* whose archive was removed meanwhile.
Opened ==
  /\ cur # None /\ cur.st = "out" /\ cur.file \notin Dats => <<cur.file, cur.file>> \in out
  /\ push # None /\ push.st # "clean" /\ push.file \notin Dats =>
       Exists(At("part", push.file)) \/ <<push.file, push.file>> \in out

JobsHeld ==
  faults = 0 =>
    /\ \A f \in owed \ Dats : Safe(f)
    /\ up = "up" => \A g : Busy(g) => InSeq(pend, g)

LEMMA OutGrows ==
  ASSUME Next
  PROVE  out \subseteq out'
<1>1. CASE Worker BY <1>1 DEF Worker, Unpack, UnpackFails, RemoveArchive
<1>2. CASE Tick BY <1>2 DEF Tick
<1>3. CASE ~Worker /\ ~Tick
  <2>1. out' = out
    BY <1>3 DEF Next, Ui, Pc, Program, jobs, PxtResume, Receive, Accept, ApplyGame, ApplyConsole, ApplyArchive, ApplyApp,
       LandInbox, Refuse, Confirm, Park, Place, PlaceFails, Clean, PushFresh, PushRest, Drop, GiveUp, Launch, Shutdown, Off, PowerCut
  <2> QED BY <2>1
<1> QED BY <1>1, <1>2, <1>3

\* No archive shares its place with anything else.
LEMMA ArchiveApart ==
  ASSUME Apart, NEW f \in Files, Unpacks(f), NEW g \in Files, f # g
  PROVE  /\ Archive(f) \in Paths /\ Archive(f) # At("part", g)
         /\ g \in Consoles => Archive(f) # At("lib", g)
         /\ Unpacks(g) => Archive(f) # Archive(g)
         /\ \A place \in Places \ {"part", "lib"} : Archive(f) # At(place, g)
<1>1. CASE f \in Consoles
  BY <1>1, PathFacts DEF Archive, Apart, Places
<1>2. CASE f \in Folders \cup Dats
  <2>1. Archive(f) = At("part", f) BY <1>2, Kinds DEF Archive
  <2>2. Name(f) # Name(g) BY <1>2 DEF Apart
  <2> QED BY <2>1, <2>2, PathFacts DEF Archive, Places
<1> QED BY <1>1, <1>2 DEF Unpacks

\* The .part of a push stays until the push ends, or its archive is done with.
LEMMA PartStays ==
  ASSUME Base, Next, ~Receive, \A f \in Files : ~PushFresh(f) /\ ~PushRest(f), ~RemoveArchive,
         push' # None, push'.st # "clean"
  PROVE  card'[At("part", push.file)] = card[At("part", push.file)]
<1>1. push # None /\ push.file \in Files BY PushGoesOn, PushFacts DEF Base
<1>3. CASE UNCHANGED card BY <1>3
<1>4. CASE Park
  <2> DEFINE part == At("part", push.file)
             app == At("app", push.file)
             bak == At("bak", push.file)
  <2>1. part \in Paths /\ app \in Paths /\ bak \in Paths /\ part # app /\ part # bak
    BY <1>1, OtherPaths, PartPaths DEF Places
  <2>2. card' = Moved(app, bak) \/ card' = [Removed(app) EXCEPT ![bak] = Absent] BY <1>4 DEF Park
  <2> HIDE DEF part, app, bak
  <2>3. Removed(app) \in [Paths -> Content] BY <2>1, CardFacts DEF Base
  <2>4. Moved(app, bak)[part] = card[part] /\ Removed(app)[part] = card[part] BY <2>1, MoveFacts DEF Base
  <2>5. card'[part] = card[part] BY <2>1, <2>2, <2>3, <2>4
  <2> QED BY <2>5 DEF part
<1>5. CASE Place
  BY <1>1, <1>5, SwapFacts DEF Place
<1>6. CASE ~Park /\ ~Place
  <2>1. UNCHANGED card
    BY <1>6 DEF Next, Ui, Pc, Program, Worker, Unpack, UnpackFails, PxtResume, Tick, Accept, ApplyGame, ApplyConsole, ApplyArchive,
       ApplyApp, LandInbox, Filed, Refuse, Confirm, PlaceFails, Clean, Drop, GiveUp, Launch, Shutdown, Off, PowerCut
  <2> QED BY <2>1
<1> QED BY <1>3, <1>4, <1>5, <1>6

\* A push begins with a .part and keeps it while it is filed.
LEMMA PartThere ==
  ASSUME Base, Next, ~RemoveArchive, push' # None, push'.st # "clean", card'[At("part", push'.file)] = Absent
  PROVE  push # None /\ push.st # "clean" /\ push'.file = push.file /\ card[At("part", push.file)] = Absent
<1> TypeOK BY DEF Base
<1>1. ASSUME NEW f \in Files, PushFresh(f) PROVE card'[At("part", push'.file)] # Absent
  <2> DEFINE left == IF f \in NoId THEN card ELSE ResDropped
             p == At("part", f)
  <2>1. left \in [Paths -> Content] BY ResDroppedShrinks DEF TypeOK
  <2>2. card' = [left EXCEPT ![p] = Whole(None)] /\ push'.file = f BY <1>1 DEF PushFresh
  <2>3. p \in Paths BY PartPaths
  <2> HIDE DEF left, p
  <2>4. card'[p] = Whole(None) BY <2>1, <2>2, <2>3
  <2> QED BY <2>2, <2>4, ContentFacts DEF p
<1>2. ASSUME NEW f \in Files, PushRest(f) PROVE card'[At("part", push'.file)] # Absent
  BY <1>2 DEF PushRest, Exists
<1>3. CASE Receive
  <2> DEFINE g == push.file
             p == At("part", g)
             k == push.len + 1
  <2>1. g \in Files /\ k \in 1..Blocks /\ p \in Paths /\ push # None /\ push.st = "recv"
    BY <1>3, PushFacts, Kinds, PartPaths, FreeFacts DEF Receive
  <2>2. card' = [card EXCEPT ![p] = [card[p] EXCEPT ![k] = g]] BY <1>3 DEF Receive
  <2>3. card[p] \in Content /\ card \in [Paths -> Content] BY <2>1 DEF TypeOK
  <2>4. push'.file = g BY <1>3, <2>1, PushFacts DEF Receive, Push
  <2> HIDE DEF p
  <2>5. card'[p] = [card[p] EXCEPT ![k] = g] BY <2>1, <2>2, <2>3
  <2>6. card'[p] = Absent <=> card[p] = Absent BY <2>1, <2>3, <2>5, BlockWritten
  <2> QED BY <2>1, <2>4, <2>6 DEF p
<1>4. CASE ~Receive /\ \A f \in Files : ~PushFresh(f) /\ ~PushRest(f)
  BY <1>4, PushGoesOn, PartStays
<1> QED BY <1>1, <1>2, <1>3, <1>4

LEMMA RemovesOwn ==
  ASSUME Base, Apart, RemoveArchive, push # None, card'[At("part", push.file)] = Absent
  PROVE  card[At("part", push.file)] = Absent \/ cur.file = push.file
<1>1. cur # None /\ card' = Removed(Archive(cur.file)) BY DEF RemoveArchive
<1>2. cur.file \in Files /\ Unpacks(cur.file) /\ Archive(cur.file) \in Paths
  BY <1>1, JobFacts DEF Base, Works, Busy, Working
<1>3. push.file \in Files /\ At("part", push.file) \in Paths BY PushFacts DEF Places, Base
<1>4. CASE cur.file # push.file
  <2>1. Archive(cur.file) # At("part", push.file) BY <1>2, <1>3, <1>4, ArchiveApart
  <2> QED BY <1>1, <1>2, <1>3, <2>1, MoveFacts DEF Base
<1> QED BY <1>4

LEMMA NextOpened ==
  ASSUME Base, Filing, Unpacking, Apart, ~FlushFails, Opened, Next
  PROVE  Opened'
<1> TypeOK BY DEF Base
<1>1. cur' # None /\ cur'.st = "out" /\ cur'.file \notin Dats => <<cur'.file, cur'.file>> \in out'
  <2>1. CASE UNCHANGED cur BY <2>1, OutGrows DEF Opened
  <2>2. CASE Unpack
    <3>1. cur # None /\ cur'.file = cur.file BY <2>2, WorkerFacts DEF Unpack, Worker
    <3>2. PICK g \in Files :
            /\ card[Archive(cur.file)] = Whole(g)
            /\ IF cur.file \in Dats THEN stage' = g /\ UNCHANGED out
                                    ELSE out' = out \cup {<<cur.file, g>>} /\ UNCHANGED stage
      BY <2>2 DEF Unpack
    <3>3. g = cur.file BY <3>1, <3>2, ArchiveIsOfJob
    <3> QED BY <3>1, <3>2, <3>3
  <2>3. CASE UnpackFails \/ RemoveArchive
    BY <2>3, JobFacts DEF UnpackFails, RemoveArchive, Job
  <2>4. CASE Tick BY <2>4, TickFacts
  <2>5. ASSUME NEW f \in Files, Enqueue(f)
        PROVE  cur' # None /\ cur'.st = "out" /\ cur'.file \notin Dats => <<cur'.file, cur'.file>> \in out'
    BY <2>1, <2>5, EnqueueFacts
  <2>6. CASE PxtResume BY <2>5, <2>6, PxtResumeFacts
  <2>7. CASE ApplyConsole \/ ApplyArchive
    <3>1. push.file \in Files BY <2>7, PushFacts DEF ApplyConsole, ApplyArchive, Applying
    <3> QED BY <2>1, <2>5, <2>7, <3>1 DEF ApplyConsole, ApplyArchive, jobs
  <2>8. CASE Launch BY <2>8 DEF Launch
  <2>9. CASE ~Worker /\ ~Tick /\ ~PxtResume /\ ~ApplyConsole /\ ~ApplyArchive /\ ~Launch
    <3>1. UNCHANGED cur
      BY <2>9 DEF Next, Ui, Pc, Program, jobs, Receive, Accept, ApplyGame, ApplyApp,
         LandInbox, Refuse, Confirm, Park, Place, PlaceFails, Clean, PushFresh, PushRest, Drop, GiveUp, Shutdown, Off, PowerCut
    <3> QED BY <2>1, <3>1
  <2> QED BY <2>2, <2>3, <2>4, <2>6, <2>7, <2>8, <2>9 DEF Worker
<1>2. push' # None /\ push'.st # "clean" /\ push'.file \notin Dats =>
        card'[At("part", push'.file)] # Absent \/ <<push'.file, push'.file>> \in out'
  <2> SUFFICES ASSUME push' # None, push'.st # "clean", push'.file \notin Dats, card'[At("part", push'.file)] = Absent
               PROVE  <<push'.file, push'.file>> \in out'
    OBVIOUS
  <2>1. CASE ~RemoveArchive
    BY <2>1, PartThere, OutGrows DEF Opened, Exists
  <2>2. CASE RemoveArchive
    <3>1. cur # None /\ cur.st = "out" /\ push' = push /\ out' = out BY <2>2 DEF RemoveArchive
    <3>2. card[At("part", push.file)] = Absent \/ cur.file = push.file BY <2>2, <3>1, RemovesOwn
    <3> QED BY <3>1, <3>2 DEF Opened, Exists
  <2> QED BY <2>1, <2>2
<1> QED BY <1>1, <1>2 DEF Opened, Exists

\* An archive that is owed for stays where it is but for its own push and its
\* own job.
LEMMA ArchiveStays ==
  ASSUME Base, Apart, ~FlushFails, Next, NEW f \in owed, Unpacks(f),
         push # None /\ push.st # "recv" => push.file # f,
         RemoveArchive => cur.file # f
  PROVE  card'[Archive(f)] = card[Archive(f)]
<1> DEFINE a == Archive(f)
<1> SUFFICES card'[a] = card[a] OBVIOUS
<1>1. TypeOK /\ f \in Files BY DEF Base, TypeOK
<1>2. a \in Paths /\ \A g \in Files : g # f => a # At("part", g)
  BY <1>1, ArchiveApart, PathFacts DEF Archive, Places
<1>3. push # None => push.file # f /\ push.file \in Files /\ At("part", push.file) \in Paths /\ At("lib", push.file) \in Paths
                     /\ At("inbox", push.file) \in Paths /\ At("app", push.file) \in Paths /\ At("bak", push.file) \in Paths
  BY PushFacts DEF Base, Resumes, Places
<1>4. push # None => /\ a # At("part", push.file) /\ a # At("inbox", push.file)
                     /\ a # At("app", push.file) /\ a # At("bak", push.file)
                     /\ push.file \in Consoles => a # At("lib", push.file)
  BY <1>1, <1>3, ArchiveApart DEF Places
<1>5. rec # None => /\ rec.id \in Files /\ rec.id # f /\ <<"part", rec.name>> = At("part", rec.id)
  BY PathFacts DEF Base, Resumes, TypeOK, Record
<1> HIDE DEF a
<1>6. /\ UNCHANGED card => card'[a] = card[a]
      /\ \A p \in Paths : p # a /\ card' = Removed(p) => card'[a] = card[a]
      /\ \A p, q \in Paths : p # a /\ q # a /\ card' = Moved(p, q) => card'[a] = card[a]
      /\ \A p, q \in Paths : p # a /\ q # a /\ card' = [Removed(p) EXCEPT ![q] = Absent] => card'[a] = card[a]
  <2>1. \A p, q \in Paths : p # a /\ q # a => Removed(p)[a] = card[a] /\ Moved(p, q)[a] = card[a]
    BY <1>1, <1>2, MoveFacts
  <2>2. ASSUME NEW p \in Paths, NEW q \in Paths, p # a, q # a, card' = [Removed(p) EXCEPT ![q] = Absent]
        PROVE  card'[a] = card[a]
    <3>1. Removed(p) \in [Paths -> Content] BY <1>1, CardFacts
    <3> QED BY <1>2, <2>1, <2>2, <3>1
  <2> QED BY <2>1, <2>2
<1>7. ASSUME NEW g \in Files, PushFresh(g) PROVE card'[a] = card[a]
  <2> DEFINE left == IF g \in NoId THEN card ELSE ResDropped
             p == At("part", g)
  <2>1. g # f BY <1>7 DEF PushFresh
  <2>2. p \in Paths /\ p # a BY <1>2, <2>1, PartPaths
  <2>3. left \in [Paths -> Content] BY ResDroppedShrinks, <1>1 DEF TypeOK
  <2>4. left[a] = card[a]
    <3>1. rec # None => At("part", rec.id) \in Paths /\ At("part", rec.id) # a /\ ResDropped = Removed(At("part", rec.id))
      BY <1>2, <1>5, PartPaths DEF ResDropped
    <3>2. rec # None => ResDropped[a] = card[a] BY <1>1, <1>2, <3>1, MoveFacts
    <3> QED BY <3>2 DEF ResDropped
  <2>5. card' = [left EXCEPT ![p] = Whole(None)] BY <1>7 DEF PushFresh
  <2> HIDE DEF left, p
  <2> QED BY <1>2, <2>2, <2>3, <2>4, <2>5
<1>8. CASE Receive
  <2> DEFINE p == At("part", push.file)
  <2>1. push # None /\ \A q \in Paths : q # p => card'[q] = card[q] BY <1>1, <1>8 DEF Receive, TypeOK
  <2> QED BY <1>2, <1>4, <2>1
<1>9. ASSUME NEW u, ClientReset(u) PROVE card'[a] = card[a]
  <2>1. UNCHANGED card \/ (push # None /\ card' = Removed(At("part", push.file)))
    BY <1>9 DEF ClientReset
  <2> QED BY <1>3, <1>4, <1>6, <2>1
<1>10. CASE Pc
  <2>1. CASE GiveUp BY <1>3, <1>4, <1>6, <2>1 DEF GiveUp
  <2>2. ASSUME NEW g \in Files, PushRest(g) PROVE card'[a] = card[a] BY <2>2 DEF PushRest
  <2>3. CASE Drop BY <1>9, <2>3 DEF Drop
  <2> QED BY <1>7, <1>10, <2>1, <2>2, <2>3 DEF Pc
<1>11. CASE Worker
  <2>1. CASE RemoveArchive
    <3>1. cur # None /\ card' = Removed(Archive(cur.file)) /\ cur.file # f BY <2>1 DEF RemoveArchive
    <3>2. cur.file \in Files /\ Unpacks(cur.file) /\ Archive(cur.file) \in Paths
      BY <3>1, JobFacts DEF Base, Works, Busy, Working
    <3>3. Archive(cur.file) # a BY <1>1, <3>1, <3>2, ArchiveApart DEF a
    <3> QED BY <1>6, <3>1, <3>2, <3>3
  <2> QED BY <1>11, <2>1 DEF Worker, Unpack, UnpackFails
<1>12. CASE Program
  BY <1>6, <1>9, <1>12 DEF Program, Launch, Shutdown, Off, PowerCut
<1>13. CASE Accept \/ Tick \/ PxtResume \/ ApplyArchive \/ Confirm
  BY <1>13 DEF Accept, Tick, PxtResume, ApplyArchive, Confirm
<1>14. ASSUME LandInbox, push # None PROVE card'[a] = card[a]
  <2>1. \/ card' = Moved(At("part", push.file), At("inbox", push.file))
        \/ card' = [Removed(At("part", push.file)) EXCEPT ![At("inbox", push.file)] = Absent]
    BY <1>14 DEF LandInbox, Land
  <2> QED BY <1>3, <1>4, <1>6, <1>14, <2>1
<1>15. CASE ApplyConsole
  <2>1. push # None /\ push.file \in Consoles BY <1>15 DEF ApplyConsole, Applying
  <2>2. \/ card' = Moved(At("part", push.file), At("lib", push.file))
        \/ card' = [Removed(At("part", push.file)) EXCEPT ![At("lib", push.file)] = Absent]
    BY <1>15 DEF ApplyConsole
  <2> QED BY <1>3, <1>4, <1>6, <2>1, <2>2
<1>16. CASE ApplyGame \/ ApplyApp
  BY <1>6, <1>14, <1>16 DEF ApplyGame, ApplyApp, Applying
<1>17. CASE Refuse \/ Park \/ Place \/ PlaceFails \/ Clean
  <2>1. push # None BY <1>17 DEF Refuse, Park, Place, PlaceFails, Clean, Applying
  <2> DEFINE part == At("part", push.file)
             app == At("app", push.file)
             bak == At("bak", push.file)
  <2>2. part \in Paths /\ app \in Paths /\ bak \in Paths /\ part # a /\ app # a /\ bak # a
    BY <1>3, <1>4, <2>1
  <2>3. \/ card' = card \/ card' = Removed(part) \/ card' = Removed(bak)
        \/ card' = Moved(app, bak) \/ card' = Moved(part, app)
        \/ card' = [Removed(app) EXCEPT ![bak] = Absent]
        \/ card' = [Removed(part) EXCEPT ![app] = card[bak], ![bak] = Absent]
    BY <1>17 DEF Refuse, Park, Place, PlaceFails, Clean
  <2> HIDE DEF part, app, bak
  <2>4. CASE card' = [Removed(part) EXCEPT ![app] = card[bak], ![bak] = Absent]
    <3>1. Removed(part) \in [Paths -> Content] /\ Removed(part)[a] = card[a]
      BY <1>1, <1>2, <2>2, CardFacts, MoveFacts
    <3>2. [Removed(part) EXCEPT ![app] = card[bak]] \in [Paths -> Content \cup {card[bak]}] BY <2>2, <3>1
    <3>3. [Removed(part) EXCEPT ![app] = card[bak]][a] = card[a] BY <1>2, <2>2, <3>1
    <3> QED BY <1>2, <2>2, <2>4, <3>1, <3>2, <3>3
  <2> QED BY <1>6, <2>2, <2>3, <2>4
<1> QED BY <1>7, <1>8, <1>10, <1>11, <1>12, <1>13, <1>15, <1>16, <1>17 DEF Next, Ui

\* What is known of a job that is still owed for passes from the running program
\* to the pending file and back.
LEMMA KnownStays ==
  ASSUME Base, Base', JobsHeld, Next, faults' = 0, NEW f \in owed', Known(f), Exists(Archive(f))
  PROVE  Known(f)'
<1> TypeOK /\ TypeOK' BY DEF Base
<1>1. faults = 0 /\ ~(faults' = faults + 1) BY Powered
<1>2. ASSUME UNCHANGED jobs, up' = up PROVE Known(f)'
  BY <1>2, KnownIs, KnownNext DEF jobs, Busy, Working
<1>3. CASE Worker
  BY <1>3, WorkerFacts, KnownIs, KnownNext DEF Busy, Working
<1>4. CASE Tick
  <2>1. cur # None /\ f # cur.file /\ up = "up" BY <1>4, TickFacts DEF Tick
  <2> QED BY <1>1, <1>4, <2>1, TickFacts, KnownIs, KnownNext DEF Busy, Working
<1>5. CASE PxtResume
  <2>1. up = "up" BY <1>5 DEF PxtResume
  <2> QED BY <1>1, <1>5, <2>1, PxtResumeFacts, EnqueueFacts, KnownIs, KnownNext
<1>6. CASE ApplyGame \/ ApplyConsole \/ ApplyArchive \/ ApplyApp
  <2>1. push # None /\ push.file \in Files /\ up = "up"
    BY <1>6, PushFacts DEF ApplyGame, ApplyConsole, ApplyArchive, ApplyApp, Applying
  <2>2. ASSUME Enqueue(push.file), boot' = boot PROVE Known(f)'
    BY <1>1, <2>1, <2>2, EnqueueFacts, KnownIs, KnownNext
  <2> QED BY <1>2, <1>6, <2>2 DEF ApplyGame, ApplyConsole, ApplyArchive, ApplyApp, LandInbox, Land, Failing, Fault, env
<1>7. CASE Refuse \/ Confirm \/ Park \/ Place \/ PlaceFails \/ Clean
  BY <1>2, <1>7 DEF Refuse, Confirm, Park, Place, PlaceFails, Clean, Failing, Fault, env
<1>8. CASE Pc \/ Receive \/ Accept
  <2>1. Drop => up' = up BY <1>1, FreeFacts, ResetFacts DEF Drop
  <2> QED BY <1>2, <1>8, <2>1 DEF Pc, Receive, Accept, PushFresh, PushRest, Drop, GiveUp, env
<1>9. CASE Launch
  BY <1>9, ReadFacts, KnownIs, KnownNext DEF Launch
<1>10. CASE Shutdown
  <2>1. up = "up" /\ boot = <<>> BY <1>10, FreeFacts DEF Shutdown
  <2>2. up' = "exiting" BY <1>1, <1>10, ResetFacts DEF Shutdown
  <2>3. InSeq(pend, f) /\ pend' = pend BY <1>1, <1>10, <2>1, KnownIs, NoJobs DEF JobsHeld, Shutdown
  <2> QED BY <2>2, <2>3, KnownNext
<1>11. CASE Off
  BY <1>11, KnownIs, KnownNext DEF Off, jobs
<1>12. CASE PowerCut BY <1>1, <1>12 DEF PowerCut, PowerOff, Fault
<1> QED BY <1>3, <1>4, <1>5, <1>6, <1>7, <1>8, <1>9, <1>10, <1>11, <1>12 DEF Next, Ui, Program

\* The pending file lists what the running program has to do.
LEMMA PendingListed ==
  ASSUME Base, Base', JobsHeld, Next, faults' = 0, up' = "up"
  PROVE  \A g : Busy(g)' => InSeq(pend', g)
<1> TypeOK BY DEF Base
<1>1. faults = 0 /\ ~(faults' = faults + 1) BY Powered
<1>2. ASSUME UNCHANGED jobs, up = "up" PROVE \A g : Busy(g)' => InSeq(pend', g)
  BY <1>1, <1>2 DEF jobs, Busy, Working, JobsHeld
<1>3. CASE Worker BY <1>1, <1>3, WorkerFacts DEF Busy, Working, JobsHeld
<1>4. CASE Tick BY <1>1, <1>4, TickFacts
<1>5. CASE PxtResume BY <1>1, <1>5, PxtResumeFacts, EnqueueFacts
<1>6. CASE ApplyGame \/ ApplyConsole \/ ApplyArchive \/ ApplyApp
  <2>1. push # None /\ push.file \in Files /\ up = "up"
    BY <1>6, PushFacts DEF ApplyGame, ApplyConsole, ApplyArchive, ApplyApp, Applying
  <2>2. ASSUME Enqueue(push.file) PROVE \A g : Busy(g)' => InSeq(pend', g)
    BY <1>1, <2>1, <2>2, EnqueueFacts
  <2> QED BY <1>2, <1>6, <2>1, <2>2 DEF ApplyGame, ApplyConsole, ApplyArchive, ApplyApp, LandInbox
<1>7. CASE Refuse \/ Confirm \/ Park \/ Place \/ PlaceFails \/ Clean
  BY <1>2, <1>7 DEF Refuse, Confirm, Park, Place, PlaceFails, Clean, Applying
<1>8. CASE Pc \/ Receive \/ Accept
  BY <1>2, <1>8, FreeFacts DEF Pc, Receive, Accept, PushFresh, PushRest, Drop, GiveUp
<1>9. CASE Launch BY <1>9, NoJobs DEF Launch, Busy, Working
<1>10. CASE Shutdown \/ Off \/ PowerCut
  BY <1>1, <1>10, ResetFacts DEF Shutdown, Off, PowerCut, PowerOff, Fault
<1> QED BY <1>3, <1>4, <1>5, <1>6, <1>7, <1>8, <1>9, <1>10 DEF Next, Ui, Program

\* A push that is being filed goes on, ends, or is handed to the unpacker with
\* its archive whole.
LEMMA PushKept ==
  ASSUME Base, Base', Bytes, Opened, Next, faults' = 0,
         push # None, push.st # "recv", NEW f \in Files \ Dats, push.file = f, f \in owed'
  PROVE  Safe(f)'
<1> TypeOK /\ TypeOK' BY DEF Base
<1>1. faults = 0 /\ ~(faults' = faults + 1) BY Powered
<1>2. ASSUME push' # None, push'.file = f PROVE Safe(f)' BY <1>2 DEF Safe
<1>3. CASE ApplyConsole \/ ApplyArchive
  <2>1. /\ Enqueue(f) /\ up = "up" /\ push.st = "whole"
        /\ \/ f \in Consoles /\ card' = Moved(At("part", f), At("lib", f))
           \/ f \in Folders /\ UNCHANGED card
    BY <1>3 DEF ApplyConsole, ApplyArchive, Applying
  <2>2. Busy(f)' /\ up' = "up" BY <1>1, <2>1, EnqueueFacts
  <2>3. Known(f)' BY <2>2, KnownNext
  <2>4. card[At("part", f)] = Whole(f) \/ <<f, f>> \in out
    BY <2>1, PushIsWhole DEF Opened, Exists
  <2>5. At("part", f) \in Paths /\ At("lib", f) \in Paths /\ At("part", f) # At("lib", f)
    BY PartPaths, OtherPaths DEF Places
  <2>6. card[At("part", f)] = Whole(f) => card'[Archive(f)] = Whole(f)
    <3>1. CASE f \in Consoles /\ card' = Moved(At("part", f), At("lib", f))
      BY <2>5, <3>1, MoveFacts DEF Archive
    <3>2. CASE f \in Folders /\ UNCHANGED card
      <4>1. Archive(f) = At("part", f) BY <3>2, Kinds DEF Archive
      <4> QED BY <3>2, <4>1
    <3> QED BY <2>1, <3>1, <3>2
  <2>7. Archive(f)' = Archive(f) /\ Whole(f)' = Whole(f) BY DEF Archive, At, Whole, Name
  <2> QED BY <2>3, <2>4, <2>6, <2>7, OutGrows DEF Safe
<1>4. CASE ~ApplyConsole /\ ~ApplyArchive
  <2>1. ~Receive /\ \A g \in Files : ~PushFresh(g) /\ ~PushRest(g)
    BY FreeFacts DEF Receive, PushFresh, PushRest
  <2>2. push' # None
    <3>1. CASE UNCHANGED push BY <3>1
    <3>2. CASE Ui
      <4>1. push' = push \/ Filed \/ Accept \/ \E x \in {"ask", "park", "place", "clean"} :
              push' = [push EXCEPT !.st = x] \/ push' = [push EXCEPT !.st = x, !.restore = TRUE]
        BY <1>4, <2>1, <3>2 DEF Ui, Tick, PxtResume, ApplyGame, ApplyApp, LandInbox, Refuse, Confirm, Park,
           Place, PlaceFails, Clean
      <4>2. ~Filed BY DEF Filed
      <4>3. ~Accept BY FreeFacts DEF Accept
      <4>4. push' \in Push \cup {push}
        <5>1. CASE push' = push BY <5>1
        <5>2. ASSUME NEW x \in {"ask", "park", "place", "clean"},
                     push' = [push EXCEPT !.st = x] \/ push' = [push EXCEPT !.st = x, !.restore = TRUE]
              PROVE  push' \in Push
          <6>1. push \in Push BY PushFacts
          <6> QED BY <5>2, <6>1 DEF Push
        <5> QED BY <4>1, <4>2, <4>3, <5>1, <5>2
      <4> QED BY <4>4, NoneAssumption
    <3>3. ~Drop /\ ~GiveUp /\ ~Shutdown BY FreeFacts DEF Drop, GiveUp, Shutdown
    <3>4. ~Launch BY <1>1 DEF Launch, Base, Flow
    <3> QED BY <2>1, <3>1, <3>2, <3>3, <3>4, WorkerFacts DEF Next, Pc, Program, Off, PowerCut
  <2>3. push'.file = f BY <2>1, <2>2, PushGoesOn
  <2> QED BY <1>2, <2>2, <2>3
<1> QED BY <1>3, <1>4

LEMMA NextHeld ==
  ASSUME Base, Base', Bytes, Opened, JobsHeld, Apart, ~FlushFails, Next
  PROVE  JobsHeld'
<1> SUFFICES ASSUME faults' = 0
             PROVE  /\ \A f \in owed' \ Dats : Safe(f)'
                    /\ up' = "up" => \A g : Busy(g)' => InSeq(pend', g)
  BY DEF JobsHeld
<1> TypeOK /\ TypeOK' BY DEF Base
<1>1. faults = 0 BY Powered
<1>2. ASSUME NEW f \in owed' \ Dats PROVE Safe(f)'
  <2>1. CASE f \notin owed
    <3>1. Accept /\ f = push.file
      BY <1>2, <2>1, WorkerFacts, TickFacts DEF Next, Ui, Pc, Program, Accept, Receive, PxtResume, ApplyGame, ApplyConsole, ApplyArchive,
         ApplyApp, LandInbox, Filed, Refuse, Confirm, Park, Place, PlaceFails, Clean, PushFresh, PushRest, Drop, GiveUp, Launch,
         Shutdown, Off, PowerCut
    <3>2. push # None /\ push' = [push EXCEPT !.st = "whole"] BY <3>1 DEF Accept
    <3>3. push' # None /\ push'.file = f BY <3>1, <3>2, PushFacts, SwapFacts, NoneAssumption
    <3> QED BY <3>3 DEF Safe
  <2>2. CASE f \in owed /\ push # None /\ push.file = f
    <3>1. push.st # "recv" BY <2>2 DEF Base, Resumes
    <3> QED BY <1>2, <2>2, <3>1, PushKept DEF TypeOK
  <2>3. CASE f \in owed /\ ~(push # None /\ push.file = f)
    <3>1. <<f, f>> \in out \/ (Known(f) /\ card[Archive(f)] = Whole(f))
      BY <1>1, <1>2, <2>3 DEF JobsHeld, Safe
    <3>2. CASE <<f, f>> \in out BY <3>2, OutGrows DEF Safe
    <3>3. CASE RemoveArchive /\ cur.file = f
      BY <1>2, <3>2, <3>3 DEF RemoveArchive, Opened
    <3>4. CASE Known(f) /\ card[Archive(f)] = Whole(f) /\ (RemoveArchive => cur.file # f)
      <4>1. f \in Files /\ Whole(f) # Absent BY <2>3, ContentFacts DEF TypeOK
      <4>2. Unpacks(f) BY <3>4, KnownIs DEF Base, Works
      <4>3. card'[Archive(f)] = card[Archive(f)] BY <2>3, <3>4, <4>2, ArchiveStays
      <4>4. Known(f)' BY <1>2, <3>4, <4>1, KnownStays DEF Exists
      <4>5. Archive(f)' = Archive(f) /\ Whole(f)' = Whole(f) BY DEF Archive, At, Whole, Name
      <4> QED BY <3>4, <4>3, <4>4, <4>5 DEF Safe
    <3> QED BY <3>1, <3>2, <3>3, <3>4
  <2> QED BY <2>1, <2>2, <2>3
<1>3. up' = "up" => \A g : Busy(g)' => InSeq(pend', g) BY PendingListed
<1> QED BY <1>2, <1>3

\* A file answered 200 is not lost by the program while the card and the power
\* hold: it is being filed, its content is in place, or its archive is whole and
\* its job known, to the running program or to the next launch.
THEOREM JobsCorrect == Resumable /\ Apart => (Spec => []JobsKept)
<1> SUFFICES ASSUME Resumable, Apart PROVE Spec => []JobsKept
  OBVIOUS
<1> DEFINE Inv == Opened /\ JobsHeld
<1>1. Init => Inv
  BY NoJobs DEF Init, Opened, JobsHeld
<1>2. Base /\ Base' /\ Bytes /\ Filing /\ Unpacking /\ Inv /\ [Next]_vars => Inv'
  <2>1. ASSUME Inv, UNCHANGED vars PROVE Inv'
    BY <2>1 DEF vars, Opened, JobsHeld, Safe, Known, Busy, Working, InSeq, Exists, Archive, At, Whole, Name
  <2> QED BY <2>1, NextOpened, NextHeld DEF Resumable
<1>3. Inv => JobsKept BY DEF JobsHeld, JobsKept
<1> QED BY <1>1, <1>2, <1>3, Invariance, FilingCorrect, PTL DEF Spec

-----------------------------------------------------------------------------
(* What is installed. *)

\* Where the old and the new build of an app are while it is installed.
Installing ==
  /\ push # None /\ push.st # "clean" /\ push.file \notin Folders \cup Dats => Exists(At("part", push.file))
  /\ push # None /\ push.st \in {"recv", "whole", "ask", "park"} => ~push.restore
  /\ push # None /\ push.st \in {"park", "clean"} => Exists(At("app", push.file))
  /\ push # None /\ push.st = "place" /\ (push.restore \/ faults = 0) => Exists(At("bak", push.file))

Swap == Park \/ Place \/ PlaceFails \/ Clean

LEMMA AppsSame ==
  ASSUME Base, Next, ~Swap, NEW place \in {"app", "bak"}, NEW f \in Files
  PROVE  card'[At(place, f)] = card[At(place, f)]
<1> DEFINE r == At(place, f)
<1> TypeOK BY DEF Base
<1>1. r \in Paths /\ \A g : r # At("part", g) /\ r # At("lib", g) BY PathFacts DEF Places
<1>2. CASE UNCHANGED card BY <1>2
<1>3. CASE Pc \/ Receive BY <1>3, PcSame DEF LandedSame, Places
<1>4. CASE Shutdown BY <1>4, ResetSame DEF Shutdown, LandedSame, Places
<1>5. CASE RemoveArchive
  <2>1. card' = Removed(Archive(cur.file)) /\ Archive(cur.file) \in Paths BY <1>5, JobFacts DEF RemoveArchive
  <2>2. r # Archive(cur.file) BY <1>1 DEF Archive
  <2> HIDE DEF r
  <2>3. card'[r] = card[r] BY <1>1, <2>1, <2>2, MoveFacts
  <2> QED BY <2>3 DEF r
<1>6. CASE Refuse
  <2>1. push # None /\ push.file \in Files BY <1>6, PushFacts DEF Refuse, Applying
  <2>2. card' = Removed(At("part", push.file)) /\ At("part", push.file) \in Paths BY <1>6, <2>1, PartPaths DEF Refuse
  <2>3. r # At("part", push.file) BY <1>1
  <2> HIDE DEF r
  <2>4. card'[r] = card[r] BY <1>1, <2>2, <2>3, MoveFacts
  <2> QED BY <2>4 DEF r
<1>7. CASE ApplyGame \/ ApplyConsole \/ ApplyArchive \/ ApplyApp
  <2>1. push # None /\ push.file \in Files
    BY <1>7, PushFacts DEF ApplyGame, ApplyConsole, ApplyArchive, ApplyApp, Applying
  <2>2. ASSUME LandInbox PROVE card'[r] = card[r] BY <2>1, <2>2, LandLands DEF LandInbox, Places
  <2>3. CASE Land("lib") BY <2>1, <2>3, LandLands DEF Places
  <2>4. CASE card' = Moved(At("part", push.file), At("lib", push.file))
    <3>1. At("part", push.file) \in Paths /\ At("lib", push.file) \in Paths BY <2>1, PathFacts DEF Places
    <3>2. r # At("part", push.file) /\ r # At("lib", push.file) BY <1>1
    <3> HIDE DEF r
    <3>3. card'[r] = card[r] BY <1>1, <2>4, <3>1, <3>2, MoveFacts
    <3> QED BY <3>3 DEF r
  <2> QED BY <1>2, <1>7, <2>2, <2>3, <2>4 DEF ApplyGame, ApplyConsole, ApplyArchive, ApplyApp, Land
<1>8. CASE ~(Pc \/ Receive \/ Shutdown \/ RemoveArchive \/ Refuse \/ ApplyGame \/ ApplyConsole \/ ApplyArchive \/ ApplyApp)
  <2>1. UNCHANGED card
    BY <1>8 DEF Swap, Next, Ui, Program, Worker, Unpack, UnpackFails, Accept, Tick, PxtResume, Confirm, Launch, Off, PowerCut
  <2> QED BY <2>1
<1> QED BY <1>3, <1>4, <1>5, <1>6, <1>7, <1>8

\* What the steps of the swap do to the places of that app.
LEMMA SwapMoves ==
  ASSUME Base, Swap
  PROVE  /\ push # None /\ push.file \in Apps /\ up = "up" /\ push.st \in {"park", "place", "clean"}
         /\ \A place \in {"app", "bak"}, f \in Files :
              Name(f) # Name(push.file) => card'[At(place, f)] = card[At(place, f)]
         /\ Park => \/ /\ card'[At("bak", push.file)] = card[At("app", push.file)]
                       /\ push' = [push EXCEPT !.st = "place", !.restore = TRUE] /\ UNCHANGED env
                    \/ push' = [push EXCEPT !.st = "place"] /\ Failing
         /\ Place => card'[At("app", push.file)] = card[At("part", push.file)]
         /\ PlaceFails => \/ push.restore /\ card'[At("app", push.file)] = card[At("bak", push.file)]
                          \/ /\ ~push.restore /\ card'[At("app", push.file)] = card[At("app", push.file)]
                             /\ card'[At("bak", push.file)] = card[At("bak", push.file)]
         /\ Clean => card'[At("app", push.file)] = card[At("app", push.file)]
<1>1. push # None /\ push.file \in Apps /\ push.file \in Files /\ up = "up" /\ push.st \in {"park", "place", "clean"}
  BY FilingFacts DEF Swap, Park, Place, PlaceFails, Clean, Applying
<1> DEFINE part == At("part", push.file)
           app == At("app", push.file)
           bak == At("bak", push.file)
<1>2. /\ part \in Paths /\ app \in Paths /\ bak \in Paths /\ part # app /\ part # bak /\ app # bak
      /\ card \in [Paths -> Content] /\ TypeOK
  BY <1>1, PathFacts, SwapFacts DEF Places, Base
<1>3. \A place \in {"app", "bak"}, f \in Files :
        Name(f) # Name(push.file) => At(place, f) \in Paths /\ At(place, f) \notin {part, app, bak}
  BY <1>1, PathFacts DEF Places
<1>4. /\ Park => \/ /\ card' = Moved(app, bak)
                    /\ push' = [push EXCEPT !.st = "place", !.restore = TRUE] /\ UNCHANGED env
                 \/ /\ card' = [Removed(app) EXCEPT ![bak] = Absent]
                    /\ push' = [push EXCEPT !.st = "place"] /\ Failing
      /\ Place => card' = Moved(part, app)
      /\ PlaceFails => \/ push.restore /\ card' = [Removed(part) EXCEPT ![app] = card[bak], ![bak] = Absent]
                       \/ ~push.restore /\ card' = Removed(part)
      /\ Clean => card' = Removed(bak) \/ card' = card
  BY DEF Park, Place, PlaceFails, Clean
<1>5. Removed(part) \in [Paths -> Content] /\ Removed(app) \in [Paths -> Content]
  BY <1>2, CardFacts
<1> HIDE DEF part, app, bak
<1>6. \A r \in Paths :
        /\ Removed(part)[r] = IF r = part THEN Absent ELSE card[r]
        /\ Removed(app)[r] = IF r = app THEN Absent ELSE card[r]
        /\ Removed(bak)[r] = IF r = bak THEN Absent ELSE card[r]
        /\ Moved(app, bak)[r] = IF r = app THEN Absent ELSE IF r = bak THEN card[app] ELSE card[r]
        /\ Moved(part, app)[r] = IF r = part THEN Absent ELSE IF r = app THEN card[part] ELSE card[r]
        /\ [Removed(app) EXCEPT ![bak] = Absent][r] = IF r = bak THEN Absent ELSE Removed(app)[r]
  BY <1>2, <1>5, MoveFacts
<1>7. \A r \in Paths :
        [Removed(part) EXCEPT ![app] = card[bak], ![bak] = Absent][r] =
          IF r = bak THEN Absent ELSE IF r = app THEN card[bak] ELSE Removed(part)[r]
  <2>1. [Removed(part) EXCEPT ![app] = card[bak]] \in [Paths -> Content] BY <1>2, <1>5
  <2> QED BY <1>2, <1>5, <2>1
<1>8. \A r \in Paths : r \notin {part, app, bak} => card'[r] = card[r]
  BY <1>4, <1>6, <1>7 DEF Swap
<1>9. /\ Park /\ card' = Moved(app, bak) => card'[bak] = card[app]
      /\ Place => card'[app] = card[part]
      /\ PlaceFails /\ push.restore => card'[app] = card[bak]
      /\ PlaceFails /\ ~push.restore => card'[app] = card[app] /\ card'[bak] = card[bak]
      /\ Clean => card'[app] = card[app]
  BY <1>2, <1>4, <1>6, <1>7
<1> QED BY <1>1, <1>3, <1>4, <1>8, <1>9 DEF part, app, bak

\* A build on its way to its place gets there, unless the power goes.
LEMMA PlaceStays ==
  ASSUME Base, Next, Applying("place"), ~Place, ~PlaceFails
  PROVE  push' = push /\ (up' = up \/ (up' = "off" /\ faults' = faults + 1))
<1>1. up = "up" /\ push # None /\ push.st = "place" /\ ~Inline /\ boot = <<>> /\ ~UiFree
  BY FilingFacts DEF UiFree
<1>2. CASE Worker BY <1>2, WorkerFacts DEF Base
<1>3. CASE PowerCut BY <1>3 DEF PowerCut, PowerOff, Fault
<1>4. ~Tick BY <1>1 DEF Tick, Inline
<1>5. ~(PxtResume \/ Launch \/ Off) BY <1>1 DEF PxtResume, Launch, Off
<1>6. ~(Pc \/ Receive \/ Accept \/ Shutdown)
  BY <1>1 DEF Pc, Receive, Accept, Shutdown, PushFresh, PushRest, Drop, GiveUp
<1>7. ~(ApplyGame \/ ApplyConsole \/ ApplyArchive \/ ApplyApp \/ Refuse \/ Confirm \/ Park \/ Clean)
  BY <1>1 DEF ApplyGame, ApplyConsole, ApplyArchive, ApplyApp, Refuse, Confirm, Park, Clean, Applying
<1> QED BY <1>2, <1>3, <1>4, <1>5, <1>6, <1>7 DEF Next, Ui, Program

\* What the other steps do to a push: it is begun anew, stays as it is, or goes
\* from one phase to the next.
LEMMA PushMoves ==
  ASSUME Base, Next, ~Swap, push' # None
  PROVE  \/ push'.st = "recv" /\ ~push'.restore
         \/ push # None /\ push' = push
         \/ /\ push # None /\ push'.file = push.file /\ push'.restore = push.restore
            /\ \/ push.st = "recv" /\ push'.st \in {"recv", "whole"}
               \/ push.st = "whole" /\ push'.st = "ask"
               \/ Confirm /\ push'.st = IF Exists(At("app", push.file)) THEN "park" ELSE "place"
<1>1. CASE push' = push BY <1>1
<1>2. CASE \E f \in Files : PushFresh(f) \/ PushRest(f) BY <1>2 DEF PushFresh, PushRest
<1>3. CASE Receive
  <2>1. push # None /\ push \in Push /\ push.st = "recv" BY <1>3, PushFacts, FreeFacts DEF Receive, Base
  <2>2. push' = [push EXCEPT !.len = @ + 1] BY <1>3 DEF Receive
  <2> QED BY <2>1, <2>2 DEF Push
<1>4. CASE Accept
  <2>1. push # None /\ push.st = "recv" /\ push \in Push BY <1>4, PushFacts, FreeFacts DEF Accept, Base
  <2>2. push' = [push EXCEPT !.st = "whole"] BY <1>4 DEF Accept
  <2> QED BY <2>1, <2>2 DEF Push
<1>5. CASE ApplyApp
  <2>1. push # None /\ push.st = "whole" /\ push \in Push BY <1>5, PushFacts DEF ApplyApp, Applying, Base
  <2>2. push' = [push EXCEPT !.st = "ask"] BY <1>5 DEF ApplyApp, LandInbox, Filed
  <2> QED BY <2>1, <2>2 DEF Push
<1>6. CASE Confirm
  <2>1. push # None /\ push \in Push BY <1>6, PushFacts DEF Confirm, Applying, Base
  <2>2. push' = [push EXCEPT !.st = IF Exists(At("app", push.file)) THEN "park" ELSE "place"] BY <1>6 DEF Confirm
  <2> QED BY <1>6, <2>1, <2>2 DEF Push
<1>7. CASE push' # push /\ ~Receive /\ ~Accept /\ ~ApplyApp /\ ~Confirm /\ ~(\E f \in Files : PushFresh(f) \/ PushRest(f))
  BY <1>7, WorkerFacts DEF Base, Swap, Next, Ui, Pc, Program, Tick, PxtResume, ApplyGame, ApplyConsole, ApplyArchive,
     LandInbox, Filed, Refuse, Drop, GiveUp, Launch, Shutdown, Off, PowerCut
<1> QED BY <1>1, <1>2, <1>3, <1>4, <1>5, <1>6, <1>7

LEMMA NextInstalling ==
  ASSUME Base, Apart, Installing, AppSurvives, Next
  PROVE  Installing'
<1> TypeOK BY DEF Base
<1>1. faults' = 0 => faults = 0 BY Powered
<1>2. ASSUME push' # None, push'.st # "clean", push'.file \notin Folders \cup Dats
      PROVE  card'[At("part", push'.file)] # Absent
  <2>1. CASE ~RemoveArchive BY <1>2, <2>1, PartThere DEF Installing, Exists
  <2>2. CASE RemoveArchive
    <3>1. cur # None /\ cur.st = "out" /\ push' = push BY <2>2 DEF RemoveArchive
    <3>2. card' = Removed(Archive(cur.file)) /\ cur.file \in Files /\ Unpacks(cur.file) /\ Archive(cur.file) \in Paths
      BY <2>2, <3>1, JobFacts DEF RemoveArchive, Base, Works, Busy, Working
    <3>3. push.file \in Files /\ At("part", push.file) \in Paths /\ Exists(At("part", push.file))
      BY <1>2, <3>1, PushFacts, PartPaths DEF Installing
    <3>4. Archive(cur.file) # At("part", push.file)
      <4>1. CASE cur.file \in Consoles BY <4>1, PartPaths DEF Archive
      <4>2. CASE cur.file # push.file BY <3>2, <3>3, <4>2, ArchiveApart
      <4> QED BY <1>2, <3>1, <3>2, <4>1, <4>2 DEF Unpacks
    <3> QED BY <3>1, <3>2, <3>3, <3>4, MoveFacts DEF Exists
  <2> QED BY <2>1, <2>2
<1>3. CASE Swap
  <2>1. push # None /\ push.file \in Apps /\ push.file \in Files /\ push.st \in {"park", "place", "clean"}
    BY <1>3, SwapMoves, Kinds
  <2>2. CASE Park
    <3>1. push.st = "park" /\ ~push.restore /\ Exists(At("app", push.file))
      BY <2>1, <2>2 DEF Park, Applying, Installing
    <3>2. CASE /\ card'[At("bak", push.file)] = card[At("app", push.file)]
               /\ push' = [push EXCEPT !.st = "place", !.restore = TRUE]
      <4>1. push'.st = "place" /\ push'.file = push.file BY <2>1, <3>2, SwapFacts
      <4>2. push' # None BY <2>2, <3>2, <2>1, SwapFacts, NoneAssumption
      <4> QED BY <1>2, <3>1, <3>2, <4>1, <4>2 DEF Installing, Exists
    <3>3. CASE push' = [push EXCEPT !.st = "place"] /\ Failing
      <4>1. push'.st = "place" /\ push'.file = push.file /\ push'.restore = push.restore BY <2>1, <3>3, SwapFacts
      <4>2. faults' # 0 BY <3>3 DEF Failing, Fault, TypeOK
      <4> QED BY <1>2, <3>1, <4>1, <4>2 DEF Installing, Exists
    <3> QED BY <1>3, <2>2, <3>2, <3>3, SwapMoves
  <2>3. CASE Place
    <3>1. push' = [push EXCEPT !.st = "clean"] /\ push.st = "place" BY <2>3 DEF Place, Applying
    <3>2. push'.st = "clean" /\ push'.file = push.file BY <2>1, <3>1, SwapFacts
    <3>3. card[At("part", push.file)] # Absent BY <2>1, <3>1, Kinds DEF Installing, Exists
    <3> QED BY <1>3, <2>3, <3>2, <3>3, SwapMoves DEF Installing, Exists
  <2>4. CASE PlaceFails \/ Clean BY <2>4 DEF PlaceFails, Clean, Filed, Installing
  <2> QED BY <1>3, <2>2, <2>3, <2>4 DEF Swap
<1>4. CASE ~Swap
  <2>2. \A place \in {"app", "bak"}, f \in Files : card'[At(place, f)] = card[At(place, f)] BY <1>4, AppsSame
  <2>3. CASE push' = None BY <2>3 DEF Installing
  <2>4. CASE push' # None
    <3>1. CASE push'.st = "recv" /\ ~push'.restore BY <1>2, <2>4, <3>1 DEF Installing, Exists
    <3>2. CASE push # None /\ push' = push
      <4>1. push.file \in Files BY <3>2, PushFacts
      <4> QED BY <1>1, <1>2, <2>2, <3>2, <4>1 DEF Installing, Exists
    <3>3. CASE /\ push # None /\ push'.file = push.file /\ push'.restore = push.restore
               /\ \/ push.st = "recv" /\ push'.st \in {"recv", "whole"}
                  \/ push.st = "whole" /\ push'.st = "ask"
      BY <1>2, <2>4, <3>3 DEF Installing, Exists
    <3>4. CASE /\ push # None /\ push'.file = push.file /\ push'.restore = push.restore
               /\ Confirm /\ push'.st = IF Exists(At("app", push.file)) THEN "park" ELSE "place"
      <4>1. push.st = "ask" /\ push.file \in Apps /\ push.file \in Files /\ ~push.restore
        BY <3>4, FilingFacts DEF Confirm, Applying, Installing
      <4>2. faults = 0 => Exists(At("app", push.file)) \/ Exists(At("bak", push.file))
        BY <4>1 DEF AppSurvives, Applying
      <4> QED BY <1>1, <1>2, <2>2, <2>4, <3>4, <4>1, <4>2 DEF Installing, Exists
    <3> QED BY <1>4, <2>4, <3>1, <3>2, <3>3, <3>4, PushMoves
  <2> QED BY <2>3, <2>4
<1> QED BY <1>3, <1>4

LEMMA NextSurvives ==
  ASSUME Base, Base', Apart, Installing, AppSurvives, Next
  PROVE  AppSurvives'
<1> TypeOK BY DEF Base
<1> SUFFICES ASSUME faults' <= 1, NEW f \in Apps
             PROVE  \/ card'[At("app", f)] # Absent \/ card'[At("bak", f)] # Absent
                    \/ Applying("place")' /\ At("app", push'.file) = At("app", f)
  BY DEF AppSurvives, Exists, At, Name
<1>1. f \in Files BY Kinds
<1>2. faults <= 1 BY FaultsGrow DEF TypeOK
<1>3. \/ card[At("app", f)] # Absent \/ card[At("bak", f)] # Absent
      \/ Applying("place") /\ At("app", push.file) = At("app", f)
  BY <1>2 DEF AppSurvives, Exists
<1>4. At("app", push.file) = At("app", f) <=> Name(f) = Name(push.file) BY PathFacts
<1>5. CASE Swap /\ Name(f) # Name(push.file)
  BY <1>1, <1>3, <1>4, <1>5, SwapMoves
<1>6. CASE Swap /\ Name(f) = Name(push.file)
  <2>1. At("app", f) = At("app", push.file) /\ At("bak", f) = At("bak", push.file) BY <1>6, PathFacts
  <2>2. push # None /\ push.file \in Apps /\ push.file \in Files /\ up = "up" BY <1>6, SwapMoves, Kinds
  <2>3. CASE Park
    <3>1. push.st = "park" /\ card[At("app", push.file)] # Absent
      BY <2>2, <2>3 DEF Park, Applying, Installing, Exists
    <3>2. CASE card'[At("bak", push.file)] = card[At("app", push.file)] BY <2>1, <3>1, <3>2
    <3>3. CASE push' = [push EXCEPT !.st = "place"] /\ Failing
      <4>1. push'.st = "place" /\ push'.file = push.file /\ push' \in Push BY <2>2, <3>3, SwapFacts
      <4>2. push' # None /\ up' = "up" BY <2>2, <3>3, <4>1, NoneAssumption DEF Failing
      <4>3. cur' = cur BY <2>3 DEF Park, jobs
      <4>4. ~Inline BY <2>3 DEF Park, Applying
      <4> QED BY <2>1, <4>1, <4>2, <4>3, <4>4 DEF Applying, Inline
    <3> QED BY <1>6, <2>3, <3>2, <3>3, SwapMoves
  <2>4. CASE Place
    <3>1. push.st = "place" BY <2>4 DEF Place, Applying
    <3>2. card[At("part", push.file)] # Absent BY <2>2, <3>1, Kinds DEF Installing, Exists
    <3> QED BY <1>6, <2>1, <2>4, <3>2, SwapMoves
  <2>5. CASE PlaceFails
    <3>1. push.st = "place" /\ faults' = faults + 1 BY <2>5 DEF PlaceFails, Applying, Failing, Fault
    <3>2. faults = 0 BY <3>1 DEF TypeOK
    <3>3. card[At("bak", push.file)] # Absent BY <2>2, <3>1, <3>2 DEF Installing, Exists
    <3> QED BY <1>6, <2>1, <2>5, <3>3, SwapMoves
  <2>6. CASE Clean
    <3>1. card[At("app", push.file)] # Absent BY <2>2, <2>6 DEF Clean, Applying, Installing, Exists
    <3> QED BY <1>6, <2>1, <2>6, <3>1, SwapMoves
  <2> QED BY <1>6, <2>3, <2>4, <2>5, <2>6 DEF Swap
<1>7. CASE ~Swap
  <2>1. \A place \in {"app", "bak"} : card'[At(place, f)] = card[At(place, f)] BY <1>1, <1>7, AppsSame
  <2>2. CASE card[At("app", f)] # Absent \/ card[At("bak", f)] # Absent BY <2>1, <2>2
  <2>3. CASE Applying("place") /\ At("app", push.file) = At("app", f)
    <3>1. push' = push /\ (up' = up \/ (up' = "off" /\ faults' = faults + 1))
      BY <1>7, <2>3, PlaceStays DEF Swap
    <3>2. CASE up' = up
      <4>1. push # None /\ push.st = "place" BY <2>3 DEF Applying
      <4> QED BY <2>3, <3>1, <3>2, <4>1 DEF Applying, Base, Flow
    <3>3. CASE faults' = faults + 1
      <4>1. faults = 0 BY <3>3 DEF TypeOK
      <4>2. card[At("bak", push.file)] # Absent BY <2>3, <4>1 DEF Applying, Installing, Exists
      <4>3. At("bak", push.file) = At("bak", f) BY <1>4, <2>3, PathFacts
      <4> QED BY <2>1, <4>2, <4>3
    <3> QED BY <3>1, <3>2, <3>3
  <2> QED BY <1>3, <2>2, <2>3
<1> QED BY <1>5, <1>6, <1>7

\* An app that was installed is at its place or at .bak, or the new build is
\* about to take the place, whatever single failure or power cut hits its
\* update.
THEOREM AppsCorrect == Apart => (Spec => []AppSurvives)
<1> SUFFICES ASSUME Apart PROVE Spec => []AppSurvives
  OBVIOUS
<1> DEFINE Inv == Installing /\ AppSurvives
<1>1. Init => Inv
  <2> SUFFICES ASSUME Init PROVE Inv OBVIOUS
  <2>1. Installing BY DEF Init, Installing
  <2>2. ASSUME NEW f \in Apps PROVE Exists(At("app", f))
    <3>1. At("app", f) \in Paths /\ At("app", f)[1] = "app" /\ At("app", f)[2] = Name(f)
      BY Kinds, PathFacts DEF Places
    <3>2. card[At("app", f)] = Whole(Old) BY <3>1 DEF Init
    <3> QED BY <3>2, ContentFacts DEF Exists
  <2> QED BY <2>1, <2>2 DEF AppSurvives
<1>2. Base /\ Base' /\ Inv /\ [Next]_vars => Inv'
  <2>1. ASSUME Inv, UNCHANGED vars PROVE Inv'
    BY <2>1 DEF vars, Installing, AppSurvives, Exists, At, Name, Applying, Inline
  <2> QED BY <2>1, NextInstalling, NextSurvives
<1>3. Inv => AppSurvives OBVIOUS
<1> QED BY <1>1, <1>2, <1>3, Invariance, PTL DEF Spec
=============================================================================
