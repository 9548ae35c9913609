-------------------------- MODULE MtpSessionProofs --------------------------
(***************************************************************************)
(* The USB session, for any files, ring, number of transfers, packets and  *)
(* faults: the command loop stays in step with the host, and what the host *)
(* was told has arrived stays on the card, as much of it as came to it.    *)
(*                                                                         *)
(* The first rests on there being one command in the pipe at a time        *)
(* (Commanded), with as many packets behind it as the receive loop has     *)
(* still to take (InSync), or one less and an empty one where the host     *)
(* sends less than it announced (Lined).  The second rests on whoever is   *)
(* to remove a file holding one the host has given up, or one that came    *)
(* to its path while the removal was pending (Placed), and on what ended   *)
(* early never counting as whole (Whole).  No card shows an unpacking      *)
(* that nobody does, because a row is of the transfer that is being        *)
(* received, whose id goes with the job.                                   *)
(***************************************************************************)
EXTENDS MtpSession, FiniteSetTheorems, TLAPS

Packets == {"info", "send", "delete", "head", "long", "body", "zlp"}
Whose   == (-MaxIds)..MaxIds   \* what a path can hold
Job     == [file : Files, id : Ids]
Row     == [id : Ids, file : Files, st : {"active", "unzip", "done", "failed"}]

WireOK  == wire \in [link : {"up", "down"}, dropped : BOOLEAN, pipe : Seq(Packets),
                     await : BOOLEAN, told : Files \cup {None}]
LifeOK  == /\ life \in [up : BOOLEAN, stopping : BOOLEAN, ev : BOOLEAN, bg : BOOLEAN]
           /\ ui \in {"idle", "cancel", "startE", "startD", "undoE", "undoR",
                      "stopR", "stopE", "stopD"}
RespOK  == resp \in [pc : {"none", "poll", "cmd", "prime", "write", "reap", "drop", "close",
                          "exit"},
                     pend : [file : Files \cup {None}, id : Ids \cup {0}],
                     recv : [n : Nat, cancelled : BOOLEAN, wfail : BOOLEAN],
                     stopping : BOOLEAN]
Pcs     == {"none", "wait", "pop", "job", "exit"}
WorkOK  == /\ ext \in [pc : Pcs, q : Seq(Job), job : [file : Files \cup {None},
                       id : Ids \cup {0}, got : Whose]]
           /\ del \in [pc : Pcs, q : Seq(Files), cur : Files \cup {None}]
RingOK  == ring \in [rows : Seq(Row), cur : Ids \cup {None}, cancel : BOOLEAN, seq : Ids \cup {0}]
           /\ Len(ring.rows) <= XferMax
CardsOK == /\ DOMAIN cards = {"st", "wants", "seen", "last"}
           /\ cards.st \in [Ids -> {"unseen", "echo", "recv", "unzip", "done", "failed"}]
Pasts   == [unpacked : SUBSET Int, acked : SUBSET Ids, over : SUBSET Int, early : SUBSET Int,
            cut : SUBSET Ids, torn : BOOLEAN]
DiskOK  == disk \in [Files -> Whose] /\ past \in Pasts
Types   == WireOK /\ LifeOK /\ RespOK /\ WorkOK /\ RingOK /\ CardsOK /\ DiskOK

-----------------------------------------------------------------------------
(* The invariant. *)

Off   == ui = "idle" /\ ~life.up
Quiet == resp.pc \in {"none", "poll", "exit"}

\* Who runs when.  A worker between jobs has none.
Threads ==
  /\ life.ev => life.stopping
  /\ Off => resp.pc = "none" /\ wire.link = "down"
  /\ ui = "cancel" => life.up
  /\ ui \in {"stopE", "stopD"} => resp.pc = "none"
  /\ Off \/ ui \in {"startE", "undoR", "stopD"} => ext.pc = "none"
  /\ Off \/ ui \in {"startE", "startD", "undoE", "undoR"} => del.pc = "none"
  /\ ext.pc = "pop" => ext.q # <<>>
  /\ del.pc = "pop" => del.q # <<>>
  /\ IF ext.pc = "job" THEN ext.job.file \in Files /\ ext.job.id \in Ids ELSE ext.job = NoJob
  /\ del.pc = "job" => del.cur \in Files

Kinds    == {"info", "send", "delete"}
Commands == {i \in DOMAIN wire.pipe : wire.pipe[i] \in Kinds}
In(p)    == \E i \in DOMAIN wire.pipe : wire.pipe[i] = p
Single   == \A i, j \in Commands : i = j

\* One command at a time, which the host waits for; a file is sent after it was announced.
Commanded ==
  /\ wire.dropped => wire.link = "down"
  /\ wire.link = "down" => wire.pipe = <<>> /\ ~wire.await
  /\ Single /\ (Commands # {} => wire.await)
  /\ In("info") => wire.told \in Files /\ ring.seq < MaxIds
  /\ In("delete") => wire.told \in Files
  /\ In("send") => \/ resp.pc = "cmd" /\ resp.pend.file \in Files
                   \/ Quiet /\ (resp.pc = "poll" => life.stopping)
  /\ Quiet => resp.pend = NoPending
  /\ Receiving => (wire.await \/ wire.dropped) /\ Commands = {} /\ resp.pend.file \in Files
  /\ resp.pend.file \in Files => resp.pend.id \in Ids /\ ring.cur = resp.pend.id
  /\ resp.stopping <=> resp.pc = "drop"
  /\ resp.stopping => life.stopping \/ wire.dropped
  /\ resp.pc = "reap" => resp.recv.n > 0

Heads  == {i \in DOMAIN wire.pipe : wire.pipe[i] \in {"head", "long"}}
Behind == \A i \in Bodies \cup Heads : \E j \in DOMAIN wire.pipe : j < i /\ wire.pipe[j] = "send"

\* One file, and after its first packet no empty one before the others.
Lined ==
  /\ \A i, j \in Heads : i = j
  /\ \A i \in Bodies, j \in DOMAIN wire.pipe :
       wire.pipe[j] = "zlp" /\ j < i => \E k \in Heads : j < k /\ k < i

\* A file's packets are behind the command that brings them, or counted.
InStep ==
  /\ Lined
  /\ resp.pc = "cmd" => Behind
  /\ resp.pc = "poll" /\ ~life.stopping => Bodies \cup Heads = {}
  /\ resp.pc \in {"write", "reap"} => Heads = {} /\ Cardinality(Bodies) <= resp.recv.n
  /\ resp.pc = "close" => Bodies \cup Heads = {}
InSync == past.torn \/ InStep

\* Whose file may be removed from a path: nobody's, or one the host does not count on.
Spent == {0} \cup past.over \cup past.early

\* What was acknowledged and is whole.
Entire == past.acked \ past.cut

Placed ==
  /\ Receiving => disk[Path] = -resp.pend.id /\ (JobPending(Path) => resp.pend.id \in past.early)
  /\ \A f \in Files : DeletePending(f) => Of(f) \in Spent
  /\ ext.pc = "job" => \/ disk[ext.job.file] \in {0, ext.job.got}
                       \/ Of(ext.job.file) \in past.early
  /\ GameOnDisk

\* A whole file is one that was acknowledged, and what is unpacked was whole; the file
\* being received was not acknowledged before.
Whole ==
  /\ \A f \in Files : disk[f] > 0 => disk[f] \in Entire
  /\ ext.pc = "job" /\ ext.job.got > 0 => ext.job.got \in Entire
  /\ past.unpacked \subseteq Entire
  /\ past.cut \subseteq past.acked /\ past.acked \subseteq 1..ring.seq
  /\ resp.pend.file \in Files => resp.pend.id \in (1..ring.seq) \ past.acked

IInv == Types /\ Threads /\ Commanded /\ InSync /\ Placed /\ Whole /\ UnzipIsInHand

\* What NoGhostCard says of a step.
CardsStay ==
  \A id \in Ids : cards.st[id] \in {"done", "failed", "echo"} => cards'.st[id] = cards.st[id]

-----------------------------------------------------------------------------
(* The pipe. *)

LEMMA SamePipe ==
  ASSUME wire'.pipe = wire.pipe
  PROVE  /\ Commands' = Commands /\ Bodies' = Bodies /\ Heads' = Heads
         /\ (Single' <=> Single) /\ (Lined' <=> Lined) /\ (Behind' <=> Behind)
         /\ \A p : In(p)' <=> In(p)
<1>1. Commands' = Commands /\ Bodies' = Bodies /\ Heads' = Heads BY DEF Commands, Bodies, Heads
<1> QED BY <1>1 DEF Single, Lined, Behind, In

LEMMA NoPipe ==
  ASSUME wire'.pipe = <<>>
  PROVE  /\ Commands' = {} /\ Bodies' = {} /\ Heads' = {} /\ Single' /\ Lined' /\ Behind'
         /\ \A p : ~In(p)'
BY DEF Commands, Bodies, Heads, Single, Lined, Behind, In

LEMMA PipeFacts ==
  ASSUME WireOK
  PROVE  /\ IsFiniteSet(Bodies) /\ Cardinality(Bodies) \in Nat
         /\ Cardinality(Bodies) = 0 <=> Bodies = {}
         /\ Behind /\ ~In("send") => Bodies \cup Heads = {}
         /\ Commands = {} => \A p \in Kinds : ~In(p)
         /\ \A p \in Kinds : In(p) => Commands # {}
<1>1. Bodies \subseteq 1..Len(wire.pipe) /\ Len(wire.pipe) \in Nat BY DEF WireOK, Bodies
<1>2. IsFiniteSet(1..Len(wire.pipe)) BY <1>1, FS_Interval
<1>3. IsFiniteSet(Bodies) BY <1>1, <1>2, FS_Subset
<1>4. Cardinality(Bodies) \in Nat /\ (Cardinality(Bodies) = 0 <=> Bodies = {})
  BY <1>3, FS_CardinalityType, FS_EmptySet
<1>5. Behind /\ ~In("send") => Bodies \cup Heads = {} BY DEF Behind, In, Bodies, Heads
<1>6. /\ Commands = {} => \A p \in Kinds : ~In(p)
      /\ \A p \in Kinds : In(p) => Commands # {}
  BY DEF Commands, In
<1> QED BY <1>3, <1>4, <1>5, <1>6

\* The first packet is taken.
LEMMA Taking ==
  ASSUME WireOK, NEW x, First(x), wire'.pipe = Tail(wire.pipe), Single
  PROVE  /\ wire'.pipe \in Seq(Packets) /\ Single' /\ In(x)
         /\ \A p : In(p)' => In(p)
         /\ x \in Kinds \/ Commands = {} => Commands' = {}
         /\ Commands' # {} => Commands # {}
         /\ Bodies = {} => Bodies' = {}
         /\ Heads = {} => Heads' = {}
         /\ Lined => Lined' /\ (x \in {"head", "long"} => Heads' = {})
         /\ Lined /\ Heads = {} /\ x = "zlp" => Bodies' = {}
         /\ x # "send" /\ Behind => Behind'
         /\ Cardinality(Bodies') = IF x = "body" THEN Cardinality(Bodies) - 1
                                                 ELSE Cardinality(Bodies)
<1> DEFINE p == wire.pipe
           t == wire'.pipe
<1>1. /\ p \in Seq(Packets) /\ p # <<>> /\ p[1] = x /\ t = Tail(p) BY DEF WireOK, First
<1>2. /\ t \in Seq(Packets) /\ Len(p) \in Nat \ {0} /\ Len(t) = Len(p) - 1
      /\ DOMAIN p = 1..Len(p) /\ DOMAIN t = 1..(Len(p) - 1)
      /\ \A i \in 1..(Len(p) - 1) : t[i] = p[i + 1]
  BY <1>1
<1> HIDE DEF p, t
<1>3. \A i \in DOMAIN t : i + 1 \in DOMAIN p /\ i + 1 # 1 /\ t[i] = p[i + 1] BY <1>2
<1>4. /\ Commands = {i \in DOMAIN p : p[i] \in Kinds}
      /\ Commands' = {i \in DOMAIN t : t[i] \in Kinds}
      /\ Bodies = {i \in DOMAIN p : p[i] = "body"}
      /\ Bodies' = {i \in DOMAIN t : t[i] = "body"}
      /\ Heads = {i \in DOMAIN p : p[i] \in {"head", "long"}}
      /\ Heads' = {i \in DOMAIN t : t[i] \in {"head", "long"}}
  BY DEF Commands, Bodies, Heads, p, t
<1>5. In(x) /\ 1 \in DOMAIN p BY <1>1, <1>2 DEF In, p
<1>6. \A y : In(y)' => In(y) BY <1>3 DEF In, p, t
<1>7. \A i \in Commands' : i + 1 \in Commands BY <1>3, <1>4
<1>8. Single'
  <2> SUFFICES ASSUME NEW i \in Commands', NEW j \in Commands' PROVE i = j BY DEF Single
  <2>1. i + 1 = j + 1 BY <1>7 DEF Single
  <2> QED BY <1>2, <1>4, <2>1
<1>9. x \in Kinds \/ Commands = {} => Commands' = {}
  <2>1. x \in Kinds => 1 \in Commands BY <1>1, <1>4, <1>5
  <2> QED BY <1>3, <1>4, <1>7, <2>1 DEF Single
<1>10. Commands' # {} => Commands # {} BY <1>7
<1>11. \A i \in Bodies' : i + 1 \in Bodies /\ i + 1 # 1 BY <1>3, <1>4
<1>12. \A i \in Bodies : i # 1 => i - 1 \in Bodies'
  BY <1>2, <1>4
<1>13. x # "send" /\ Behind => Behind'
  <2> SUFFICES ASSUME x # "send", Behind, NEW i \in (Bodies \cup Heads)'
               PROVE  \E j \in DOMAIN t : j < i /\ t[j] = "send"
    BY DEF Behind, t
  <2>0. i + 1 \in Bodies \cup Heads BY <1>3, <1>4
  <2>1. PICK j \in DOMAIN p : j < i + 1 /\ p[j] = "send" BY <2>0 DEF Behind, p
  <2>2. j # 1 BY <1>1, <2>1
  <2>3. j - 1 \in DOMAIN t /\ t[j - 1] = "send" /\ j - 1 < i BY <1>2, <1>4, <2>1, <2>2
  <2> QED BY <2>3
<1>14. Cardinality(Bodies') = IF x = "body" THEN Cardinality(Bodies) - 1 ELSE Cardinality(Bodies)
  <2> DEFINE B == Bodies \ {1}
  <2>1. IsFiniteSet(Bodies) /\ Cardinality(Bodies) \in Nat BY PipeFacts
  <2>2. IsFiniteSet(B) /\ Cardinality(B) = IF 1 \in Bodies THEN Cardinality(Bodies) - 1
                                                           ELSE Cardinality(Bodies)
    BY <2>1, FS_RemoveElement
  <2>3. 1 \in Bodies <=> x = "body" BY <1>1, <1>4, <1>5
  <2>4. Cardinality(Bodies') = Cardinality(B)
    <3> DEFINE f == [i \in B |-> i - 1]
    <3>1. \A i \in B : i \in Int /\ f[i] \in Bodies' BY <1>2, <1>4, <1>12
    <3>2. \A i, j \in B : f[i] = f[j] => i = j BY <3>1
    <3>3. \A k \in Bodies' : \E i \in B : f[i] = k
      <4> SUFFICES ASSUME NEW k \in Bodies' PROVE \E i \in B : f[i] = k OBVIOUS
      <4>1. k + 1 \in B /\ k \in Int BY <1>2, <1>4, <1>11
      <4>2. f[k + 1] = k BY <4>1
      <4> QED BY <4>1, <4>2
    <3>4. f \in [B -> Bodies'] BY <3>1
    <3> HIDE DEF f, B
    <3>5. f \in Bijection(B, Bodies')
      BY <3>2, <3>3, <3>4 DEF Bijection, Injection, Surjection, IsInjective
    <3>6. ExistsBijection(B, Bodies') BY <3>5 DEF ExistsBijection
    <3> QED BY <2>2, <3>6, FS_Bijection
  <2> QED BY <2>2, <2>3, <2>4
<1>15. Bodies = {} => Bodies' = {} BY <1>11
<1>16. \A i \in Heads' : i + 1 \in Heads /\ i + 1 # 1 BY <1>3, <1>4
<1>17. ASSUME Lined PROVE Lined'
  <2>1. \A i, j \in Heads' : i = j
    <3> SUFFICES ASSUME NEW i \in Heads', NEW j \in Heads' PROVE i = j OBVIOUS
    <3>1. i + 1 = j + 1 BY <1>16, <1>17 DEF Lined
    <3> QED BY <1>2, <1>4, <3>1
  <2>2. ASSUME NEW i \in Bodies', NEW j \in DOMAIN t, t[j] = "zlp", j < i
        PROVE  \E k \in Heads' : j < k /\ k < i
    <3>1. i + 1 \in Bodies /\ j + 1 \in DOMAIN p /\ p[j + 1] = "zlp" /\ j + 1 < i + 1
      BY <1>2, <1>3, <1>4, <1>11, <2>2
    <3>2. PICK k \in Heads : j + 1 < k /\ k < i + 1 BY <1>17, <3>1 DEF Lined, p
    <3>3. k - 1 \in Heads' /\ j < k - 1 /\ k - 1 < i BY <1>2, <1>4, <3>1, <3>2
    <3> QED BY <3>3
  <2> QED BY <2>1, <2>2 DEF Lined, t
<1>18. ASSUME Lined, x \in {"head", "long"} PROVE Heads' = {}
  <2>1. 1 \in Heads BY <1>1, <1>4, <1>5, <1>18
  <2> QED BY <1>16, <1>18, <2>1 DEF Lined
<1>19. ASSUME Lined, Heads = {}, x = "zlp", NEW i \in Bodies' PROVE FALSE
  <2>1. i + 1 \in Bodies /\ 1 < i + 1 /\ p[1] = "zlp"
    BY <1>1, <1>2, <1>4, <1>11, <1>19
  <2> QED BY <1>5, <1>19, <2>1 DEF Lined, p
<1> QED BY <1>2, <1>5, <1>6, <1>8, <1>9, <1>10, <1>13, <1>14, <1>15, <1>16, <1>17, <1>18, <1>19 DEF t

-----------------------------------------------------------------------------
(* Steps that leave a part of the state alone. *)

LEMMA SameTypes ==
  ASSUME IInv
  PROVE  /\ wire' = wire => WireOK'
         /\ UNCHANGED <<life, ui>> => LifeOK'
         /\ resp' = resp => RespOK'
         /\ UNCHANGED <<ext, del>> => WorkOK'
         /\ ring' = ring => RingOK'
         /\ cards' = cards => CardsOK'
         /\ UNCHANGED <<disk, past>> => DiskOK'
BY DEF IInv, Types, WireOK, LifeOK, RespOK, WorkOK, RingOK, CardsOK, DiskOK

\* The responder and the pipe as they were: at most, the session is being stopped.
LEMMA SameTalk ==
  ASSUME IInv, UNCHANGED <<wire, resp>>, past'.torn = past.torn,
         life'.stopping \/ life'.stopping = life.stopping,
         ring'.seq = ring.seq, ring'.cur = ring.cur
  PROVE  Commanded' /\ InSync'
<1> USE DEF IInv
<1>1. /\ Commands' = Commands /\ Bodies' = Bodies /\ Heads' = Heads
      /\ (Single' <=> Single) /\ (Lined' <=> Lined) /\ (Behind' <=> Behind)
      /\ \A p : In(p)' <=> In(p)
  BY SamePipe
<1>2. Receiving' = Receiving /\ Quiet' = Quiet BY DEF Receiving, Quiet
<1>3. Commanded' BY <1>1, <1>2 DEF Commanded
<1>4. InSync' BY <1>1 DEF InSync, InStep
<1> QED BY <1>3, <1>4

\* The files as they were, and no more jobs to come.
LEMMA SameFiles ==
  ASSUME IInv, UNCHANGED <<resp, disk, past>>,
         \A f : JobPending(f)' => JobPending(f),
         \A f : DeletePending(f)' => DeletePending(f),
         ext'.pc = "job" => ext.pc = "job" /\ ext'.job = ext.job,
         ring'.seq = ring.seq
  PROVE  Placed' /\ Whole'
<1>1. Receiving' = Receiving /\ Path' = Path BY DEF Receiving, Path
<1>2. GameOnDisk' /\ (\A f : Of(f)' = Of(f)) BY DEF IInv, Placed, GameOnDisk, Kept, Stored, Of
<1>3. Whole' BY DEF IInv, Whole, Entire
<1> QED BY <1>1, <1>2, <1>3 DEF IInv, Placed, Spent

\* Nobody at work on the files or the rows takes a step.
LEMMA SameWork ==
  ASSUME IInv, UNCHANGED <<resp, ext, del, disk, past>>,
         ring'.rows = ring.rows, ring'.seq = ring.seq
  PROVE  Placed' /\ Whole' /\ UnzipIsInHand'
<1>1. \A f : (JobPending(f)' => JobPending(f)) /\ (DeletePending(f)' => DeletePending(f))
  BY DEF JobPending, DeletePending
<1>2. UnzipIsInHand' BY DEF IInv, UnzipIsInHand, InHand
<1> QED BY <1>1, <1>2, SameFiles

LEMMA SameCards == ASSUME cards' = cards PROVE CardsStay
BY DEF CardsStay

-----------------------------------------------------------------------------
(* The host. *)

LEMMA LinkUpStep == ASSUME IInv, LinkUp PROVE IInv' /\ CardsStay
<1> USE DEF LinkUp
<1>0. WireOK' BY DEF IInv, Types, WireOK
<1>1. Types' BY <1>0, SameTypes DEF Types
<1>2. Threads' BY DEF IInv, Threads, Off
<1>3. wire'.pipe = wire.pipe /\ wire'.pipe = <<>> /\ ~wire'.dropped /\ wire'.link = "up"
      /\ wire'.told = wire.told /\ wire'.await = wire.await
  BY DEF IInv, Types, WireOK, Commanded
<1>4. /\ Commands' = {} /\ Bodies' = {} /\ Heads' = {} /\ Single' /\ Lined' /\ Behind'
      /\ \A p : ~In(p)' BY <1>3, NoPipe
<1>5. Receiving' = Receiving /\ Quiet' = Quiet BY DEF Receiving, Quiet
<1>6. Commanded' BY <1>3, <1>4, <1>5 DEF IInv, Commanded
<1>7. InSync'
  <2>1. Bodies' = Bodies BY <1>3, SamePipe
  <2> QED BY <1>3, <1>4, <2>1 DEF IInv, InSync, InStep
<1> QED BY <1>1, <1>2, <1>6, <1>7, SameWork, SameCards DEF IInv

LEMMA LinkDropStep == ASSUME IInv, LinkDrop PROVE IInv' /\ CardsStay
<1> USE DEF LinkDrop
<1>0. WireOK' BY MtpAssumption DEF IInv, Types, WireOK
<1>1. Types' BY <1>0, SameTypes DEF Types
<1>2. Threads' BY DEF IInv, Threads, Off
<1>3. /\ wire'.pipe = <<>> /\ wire'.link = "down" /\ wire'.told = None /\ ~wire'.await
      /\ wire'.dropped <=> resp.pc \notin {"none", "poll", "exit"}
  OBVIOUS
<1>4. /\ Commands' = {} /\ Bodies' = {} /\ Heads' = {} /\ Single' /\ Lined' /\ Behind'
      /\ \A p : ~In(p)' BY <1>3, NoPipe
<1>5. /\ Receiving' = Receiving /\ Quiet' = Quiet
      /\ Receiving \/ resp.stopping => resp.pc \notin {"none", "poll", "exit"}
  BY DEF Receiving, Quiet, IInv, Commanded
<1>6. Commanded' BY <1>3, <1>4, <1>5 DEF IInv, Commanded
<1>7. InSync'
  <2>1. Cardinality({}) = 0 /\ resp.recv.n \in Nat BY FS_EmptySet DEF IInv, Types, RespOK
  <2> QED BY <1>3, <1>4, <2>1 DEF IInv, InSync, InStep
<1> QED BY <1>1, <1>2, <1>6, <1>7, SameWork, SameCards DEF IInv

\* What the host sends after a command: nothing of a file but after "send", and there
\* a first packet, the others behind it, and no empty one between.
FileIn(q) ==
  /\ q[1] # "send" => \A i \in 1..Len(q) : q[i] \notin {"head", "long", "body"}
  /\ \E h \in Nat : \A i \in 1..Len(q) :
       /\ q[i] \in {"head", "long"} => i = h
       /\ q[i] = "body" => /\ h \in 1..i /\ q[h] \in {"head", "long"}
                          /\ \A j \in 1..i : q[j] = "zlp" => j < h

\* The pipe after a command: all of it that is no command was there, or is behind it.
LEMMA Asking ==
  ASSUME IInv, NEW q \in Seq(Packets), Len(q) \in Nat \ {0}, q[1] \in Kinds,
         \A i \in 2..Len(q) : q[i] \notin Kinds,
         FileIn(q),
         NEW to \in Files \cup {None}, Ask(q, to)
  PROVE  /\ WireOK' /\ wire'.link = "up" /\ ~wire'.dropped /\ wire'.await /\ wire'.told = to
         /\ ~Receiving /\ Single' /\ \A p \in Kinds : In(p)' => p = q[1]
         /\ resp.pc = "cmd" /\ Behind => Behind'
         /\ q[1] # "send" /\ Bodies \cup Heads = {} => (Bodies \cup Heads)' = {}
         /\ Lined /\ (Behind \/ q[1] # "send") => Lined'
<1> DEFINE p == wire.pipe
           t == wire'.pipe
           m == Len(p)
<1>1. /\ wire.link = "up" /\ ~wire.await /\ p \in Seq(Packets) /\ t = p \o q
      /\ wire'.link = "up" /\ wire'.dropped = wire.dropped /\ wire'.await /\ wire'.told = to
  BY DEF Ask, IInv, Types, WireOK
<1>2. ~wire.dropped /\ Commands = {} /\ ~Receiving BY <1>1 DEF IInv, Commanded
<1>3. WireOK'
  <2> DEFINE s == p \o q
  <2>1. s \in Seq(Packets) BY <1>1
  <2>2. wire' = [wire EXCEPT !.pipe = s, !.await = TRUE, !.told = to] BY DEF Ask
  <2> HIDE DEF s
  <2> QED BY <2>1, <2>2 DEF IInv, Types, WireOK
<1>4. /\ m \in Nat /\ t \in Seq(Packets) /\ Len(t) = m + Len(q)
      /\ DOMAIN p = 1..m /\ DOMAIN t = 1..(m + Len(q))
      /\ \A i \in 1..m : t[i] = p[i]
      /\ \A i \in (m + 1)..(m + Len(q)) : t[i] = q[i - m]
  BY <1>1
<1>5. /\ Commands = {i \in DOMAIN p : p[i] \in Kinds}
      /\ Commands' = {i \in DOMAIN t : t[i] \in Kinds}
      /\ Bodies = {i \in DOMAIN p : p[i] = "body"}
      /\ Bodies' = {i \in DOMAIN t : t[i] = "body"}
      /\ Heads = {i \in DOMAIN p : p[i] \in {"head", "long"}}
      /\ Heads' = {i \in DOMAIN t : t[i] \in {"head", "long"}}
  BY DEF Commands, Bodies, Heads
<1>6. Behind' <=> \A i \in (Bodies \cup Heads)' : \E j \in DOMAIN t : j < i /\ t[j] = "send"
  BY DEF Behind
<1>7. \A x : In(x)' <=> \E i \in DOMAIN t : t[i] = x BY DEF In
<1>8. ~In("send") BY <1>2 DEF Commands, In, Kinds
<1>9. Behind => Bodies \cup Heads = {} BY <1>8 DEF Behind, In
<1> HIDE DEF p, t, m
<1>10. m + 1 \in DOMAIN t /\ t[m + 1] = q[1] BY <1>4
<1>11. \A i \in DOMAIN t : t[i] \in Kinds => i = m + 1
  <2> SUFFICES ASSUME NEW i \in DOMAIN t, t[i] \in Kinds, i # m + 1 PROVE FALSE OBVIOUS
  <2>1. CASE i \in 1..m BY <1>2, <1>4, <1>5, <2>1
  <2>2. CASE i \in (m + 2)..(m + Len(q))
    <3>1. i \in (m + 1)..(m + Len(q)) BY <1>4, <2>2
    <3>4. t[i] = q[i - m] BY <1>4, <3>1
    <3>2. m \in Nat /\ Len(q) \in Nat BY <1>4
    <3>3. i - m \in 2..Len(q) BY <2>2, <3>2
    <3> QED BY <3>3, <3>4
  <2> QED BY <1>4, <2>1, <2>2
<1>12. Single' BY <1>5, <1>11 DEF Single
<1>13. \A x \in Kinds : In(x)' => x = q[1] BY <1>7, <1>10, <1>11
<1>14. ASSUME NEW i \in (Bodies \cup Heads)', i \notin Bodies \cup Heads
       PROVE  i > m + 1 /\ q[1] = "send" /\ i - m \in 1..Len(q) /\ t[i] = q[i - m]
  <2>1. i \notin 1..m BY <1>4, <1>5, <1>14
  <2>2. t[i] = q[i - m] /\ t[i] \in {"head", "long", "body"} /\ i - m \in 1..Len(q)
    BY <1>4, <1>5, <1>14, <2>1
  <2>3. i # m + 1 BY <1>10, <2>2 DEF Kinds
  <2>4. i \in DOMAIN t BY <1>5, <1>14
  <2>5. i > m + 1 BY <1>4, <2>1, <2>3, <2>4
  <2> QED BY <2>2, <2>5 DEF FileIn
<1>15. resp.pc = "cmd" /\ Behind => Behind' BY <1>6, <1>9, <1>10, <1>14, <1>4
<1>16. q[1] # "send" /\ Bodies \cup Heads = {} => (Bodies \cup Heads)' = {} BY <1>14
<1>17. ASSUME Lined, Behind \/ q[1] # "send" PROVE Lined'
  <2>1. CASE q[1] # "send"
    <3>1. Bodies' \subseteq Bodies /\ Heads' \subseteq Heads BY <1>4, <1>5, <1>14, <2>1
    <3>2. Heads \subseteq Heads' BY <1>4, <1>5
    <3>3. \A i \in Bodies : \A j \in DOMAIN t : j < i => j \in DOMAIN p /\ t[j] = p[j]
      BY <1>4, <1>5
    <3> QED BY <1>17, <3>1, <3>2, <3>3 DEF Lined, p, t
  <2>2. CASE Behind
    <3>1. Bodies \cup Heads = {} BY <1>9, <2>2
    <3>2. PICK h \in Nat : \A i \in 1..Len(q) :
            /\ q[i] \in {"head", "long"} => i = h
            /\ q[i] = "body" => /\ h \in 1..i /\ q[h] \in {"head", "long"}
                               /\ \A j \in 1..i : q[j] = "zlp" => j < h
      BY DEF FileIn
    <3>3. \A i \in Heads' : i = m + h
      <4> SUFFICES ASSUME NEW i \in Heads' PROVE i = m + h OBVIOUS
      <4>1. i - m \in 1..Len(q) /\ t[i] = q[i - m] BY <1>14, <3>1
      <4>2. t[i] \in {"head", "long"} /\ i \in 1..(m + Len(q)) BY <1>4, <1>5
      <4>3. i - m = h BY <3>2, <4>1, <4>2
      <4> QED BY <1>4, <4>2, <4>3
    <3>4. ASSUME NEW i \in Bodies', NEW j \in DOMAIN t, t[j] = "zlp", j < i
          PROVE  \E k \in Heads' : j < k /\ k < i
      <4>1. i - m \in 1..Len(q) /\ q[i - m] = "body" BY <1>5, <1>14, <3>1
      <4>2. /\ h \in 1..(i - m) /\ q[h] \in {"head", "long"} /\ h # i - m
            /\ \A y \in 1..(i - m) : q[y] = "zlp" => y < h
        BY <3>2, <4>1
      <4>0. i \in Nat /\ j \in Nat /\ i - m <= Len(q) BY <1>4, <1>5, <3>4, <4>1
      <4>3. m + h \in Heads'
        <5>1. h \in 1..Len(q) BY <4>0, <4>1, <4>2
        <5>2. m + h \in (m + 1)..(m + Len(q)) /\ (m + h) - m = h BY <1>4, <5>1
        <5>3. m + h \in DOMAIN t /\ t[m + h] = q[h] BY <1>4, <5>2
        <5> QED BY <1>5, <4>2, <5>3
      <4>4. j < m + h
        <5>1. CASE j <= m BY <1>4, <4>0, <4>2, <5>1
        <5>2. CASE j > m
          <6>1. j - m \in 1..(i - m) /\ q[j - m] = "zlp"
            BY <1>4, <3>4, <4>0, <4>1, <5>2
          <6>2. j - m < h BY <4>2, <6>1
          <6> QED BY <1>4, <4>0, <6>1, <6>2
        <5> QED BY <1>4, <4>0, <5>1, <5>2
      <4>5. m + h < i BY <1>4, <4>0, <4>1, <4>2
      <4> QED BY <4>3, <4>4, <4>5
    <3> QED BY <3>3, <3>4 DEF Lined, t
  <2> QED BY <1>17, <2>1, <2>2
<1> QED BY <1>1, <1>2, <1>3, <1>12, <1>13, <1>15, <1>16, <1>17

\* A command other than "send", or "send" to a responder that expects it.
LEMMA AskStep ==
  ASSUME IInv, NEW q \in Seq(Packets), Len(q) \in Nat \ {0}, q[1] \in Kinds,
         \A i \in 2..Len(q) : q[i] \notin Kinds,
         FileIn(q), NEW to \in Files \cup {None}, Ask(q, to),
         q[1] = "send" => resp.pend.file \in Files,
         q[1] # "send" => to \in Files,
         q[1] = "info" => ring.seq < MaxIds,
         UNCHANGED <<life, ui, resp, ext, del, ring, cards, disk, past>>
  PROVE  IInv' /\ CardsStay
<1>1. /\ WireOK' /\ wire'.link = "up" /\ ~wire'.dropped /\ wire'.await /\ wire'.told = to
      /\ ~Receiving /\ Single' /\ \A p \in Kinds : In(p)' => p = q[1]
      /\ resp.pc = "cmd" /\ Behind => Behind'
      /\ q[1] # "send" /\ Bodies \cup Heads = {} => (Bodies \cup Heads)' = {}
      /\ Lined /\ (Behind \/ q[1] # "send") => Lined'
  BY Asking
<1>2. wire.link = "up" /\ ~wire.dropped BY DEF Ask, IInv, Commanded
<1>3. Types' BY <1>1, SameTypes DEF Types
<1>4. Threads' BY <1>1, <1>2 DEF IInv, Threads, Off
<1>5. Receiving' = Receiving /\ Quiet' = Quiet BY DEF Receiving, Quiet
<1>6. resp.pend.file \in Files => resp.pc = "cmd"
  <2>1. None \notin Files BY MtpAssumption
  <2> QED BY <1>1, <2>1 DEF Receiving, Quiet, NoPending, IInv, Types, RespOK, Commanded
<1>7. Commanded' BY <1>1, <1>2, <1>5, <1>6 DEF Kinds, IInv, Commanded
<1>8. InSync'
  <2>1. resp.pc \notin {"write", "reap", "close"} BY <1>1 DEF Receiving
  <2>2. resp.pc = "poll" => q[1] # "send" BY <1>6
  <2>3. InSync /\ ~past.torn => Lined /\ (Behind \/ q[1] # "send")
    BY <1>6 DEF InSync, InStep
  <2> QED BY <1>1, <2>1, <2>2, <2>3 DEF IInv, InSync, InStep
<1> QED BY <1>3, <1>4, <1>7, <1>8, SameWork, SameCards DEF IInv

LEMMA Joined ==
  ASSUME NEW S, NEW p \in Seq(S), NEW q \in Seq(S)
  PROVE  /\ p \o q \in Seq(S) /\ Len(p \o q) = Len(p) + Len(q)
         /\ \A i \in 1..Len(p) : (p \o q)[i] = p[i]
         /\ \A i \in (Len(p) + 1)..(Len(p) + Len(q)) : (p \o q)[i] = q[i - Len(p)]
OBVIOUS

LEMMA SentFile ==
  ASSUME NEW before \in {<<>>, <<"zlp">>}, NEW after \in {<<>>, <<"zlp">>},
         NEW x \in {"head", "long"}, NEW k \in Nat \ {0}
  PROVE  LET q == Sent(before, x, k, after)
         IN  /\ q \in Seq(Packets) /\ Len(q) \in Nat \ {0} /\ q[1] = "send"
             /\ (\A i \in 2..Len(q) : q[i] \notin Kinds) /\ FileIn(q)
<1> DEFINE rest == [i \in 1..(k - 1) |-> "body"]
           q    == <<"send">> \o before \o <<x>> \o rest \o after
           Data == {"head", "long", "body", "zlp"}
<1>0. \A y \in {<<>>, <<"zlp">>} :
        y \in Seq(Packets) /\ Len(y) \in 0..1 /\ \A i \in 1..Len(y) : y[i] = "zlp"
  <2>1. <<>> \in Seq(Packets) /\ Len(<<>>) = 0 OBVIOUS
  <2>2. <<"zlp">> \in Seq(Packets) /\ Len(<<"zlp">>) = 1 /\ <<"zlp">>[1] = "zlp" BY DEF Packets
  <2> SUFFICES ASSUME NEW y \in {<<>>, <<"zlp">>}
               PROVE  y \in Seq(Packets) /\ Len(y) \in 0..1 /\ \A i \in 1..Len(y) : y[i] = "zlp"
    OBVIOUS
  <2>3. CASE y = <<>> BY <2>1, <2>3
  <2>4. CASE y = <<"zlp">>
    <3>1. Len(y) = 1 /\ y[1] = "zlp" BY <2>2, <2>4
    <3>2. 1..Len(y) = {1} BY <3>1
    <3> QED BY <2>2, <2>4, <3>1, <3>2
  <2> QED BY <2>3, <2>4
<1>1. PICK b \in 0..1, a \in 0..1 :
        /\ before \in Seq(Packets) /\ Len(before) = b /\ \A i \in 1..b : before[i] = "zlp"
        /\ after \in Seq(Packets) /\ Len(after) = a /\ \A i \in 1..a : after[i] = "zlp"
  BY <1>0
<1>2. /\ rest \in Seq(Packets) /\ Len(rest) = k - 1 /\ \A i \in 1..(k - 1) : rest[i] = "body"
  BY DEF Packets
<1> HIDE DEF rest
<1>3. /\ <<x>> \in Seq(Packets) /\ Len(<<x>>) = 1 /\ <<x>>[1] = x
      /\ <<"send">> \in Seq(Packets) /\ Len(<<"send">>) = 1 /\ <<"send">>[1] = "send"
  BY DEF Packets
<1> DEFINE q1 == <<"send">> \o before
           q2 == q1 \o <<x>>
           q3 == q2 \o rest
<1>4. /\ q1 \in Seq(Packets) /\ Len(q1) = 1 + b /\ q1[1] = "send"
      /\ \A i \in 2..(1 + b) : q1[i] = "zlp"
  BY <1>1, <1>3, Joined
<1> HIDE DEF q1
<1>5. /\ q2 \in Seq(Packets) /\ Len(q2) = 2 + b /\ q2[1] = "send"
      /\ (\A i \in 2..(1 + b) : q2[i] = "zlp") /\ q2[2 + b] = x
  BY <1>3, <1>4, Joined
<1> HIDE DEF q2
<1>6. /\ q3 \in Seq(Packets) /\ Len(q3) = 1 + b + k /\ q3[1] = "send"
      /\ (\A i \in 2..(1 + b) : q3[i] = "zlp") /\ q3[2 + b] = x
      /\ \A i \in (3 + b)..(1 + b + k) : q3[i] = "body"
  BY <1>2, <1>5, Joined
<1> HIDE DEF q3
<1>7. q = q3 \o after BY DEF q3, q2, q1
<1> HIDE DEF q
<1>8. /\ q \in Seq(Packets) /\ Len(q) = 1 + b + k + a /\ q[1] = "send"
      /\ (\A i \in 2..(1 + b) : q[i] = "zlp") /\ q[2 + b] = x
      /\ \A i \in (3 + b)..(1 + b + k) : q[i] = "body"
      /\ \A i \in (2 + b + k)..(1 + b + k + a) : q[i] = "zlp"
  BY <1>1, <1>6, <1>7, Joined
<1>9. q = Sent(before, x, k, after) BY DEF q, Sent, rest
<1>10. \A i \in 2..Len(q) : q[i] \in Data
  <2> SUFFICES ASSUME NEW i \in 2..Len(q) PROVE q[i] \in Data OBVIOUS
  <2>1. \/ i \in 2..(1 + b) \/ i = 2 + b \/ i \in (3 + b)..(1 + b + k)
        \/ i \in (2 + b + k)..(1 + b + k + a)
    BY <1>8
  <2> QED BY <1>8, <2>1
<1>11. FileIn(q)
  <2>0. ASSUME NEW i \in 1..Len(q)
        PROVE  \/ i = 1 \/ i \in 2..(1 + b) \/ i = 2 + b \/ i \in (3 + b)..(1 + b + k)
               \/ i \in (2 + b + k)..(1 + b + k + a)
    BY <1>8
  <2>1. \A i \in 1..Len(q) : q[i] \in {"head", "long"} => i = 2 + b
    BY <1>8, <2>0
  <2>2. \A i \in 1..Len(q) : q[i] = "body" => i \in (3 + b)..(1 + b + k)
    BY <1>8, <2>0
  <2>3. ASSUME NEW i \in (3 + b)..(1 + b + k), NEW j \in 1..i, q[j] = "zlp" PROVE j < 2 + b
    <3>1. j # 2 + b /\ j \notin (3 + b)..(1 + b + k) BY <1>8, <2>3
    <3> QED BY <3>1
  <2>4. 2 + b \in Nat /\ \A i \in (3 + b)..(1 + b + k) : 2 + b \in 1..i BY <1>1
  <2> QED BY <1>8, <2>1, <2>2, <2>3, <2>4 DEF FileIn
<1> QED BY <1>8, <1>9, <1>10, <1>11 DEF Kinds

LEMMA HostStep == ASSUME IInv, Host PROVE IInv' /\ CardsStay
<1>1. CASE LinkUp BY <1>1, LinkUpStep
<1>2. CASE LinkDrop BY <1>2, LinkDropStep
<1>3. CASE HostAnnounce
  <2>1. PICK f \in Files : Ask(<<"info">>, f) BY <1>3 DEF HostAnnounce
  <2>2. ring.seq < MaxIds /\ UNCHANGED <<life, ui, resp, ext, del, ring, cards, disk, past>>
    BY <1>3 DEF HostAnnounce
  <2> DEFINE q == <<"info">>
  <2>3. q \in Seq(Packets) /\ Len(q) = 1 /\ q[1] = "info" /\ FileIn(q) BY DEF Packets, FileIn
  <2>4. Ask(q, f) BY <2>1
  <2> HIDE DEF q
  <2>5. (\A i \in 2..Len(q) : q[i] \notin Kinds) /\ q[1] \in Kinds BY <2>3 DEF Kinds
  <2> QED BY <2>2, <2>3, <2>4, <2>5, AskStep
<1>4. CASE HostDelete
  <2>1. PICK f \in Files : Ask(<<"delete">>, f) BY <1>4 DEF HostDelete
  <2>2. UNCHANGED <<life, ui, resp, ext, del, ring, cards, disk, past>>
    BY <1>4 DEF HostDelete
  <2> DEFINE q == <<"delete">>
  <2>3. q \in Seq(Packets) /\ Len(q) = 1 /\ q[1] = "delete" /\ FileIn(q) BY DEF Packets, FileIn
  <2>4. Ask(q, f) BY <2>1
  <2> HIDE DEF q
  <2> QED BY <2>2, <2>3, <2>4, AskStep DEF Kinds
<1>5. CASE HostSend \/ HostSendLess
  <2>1. /\ resp.pend.file # None
        /\ UNCHANGED <<life, ui, resp, ext, del, ring, cards, disk, past>>
    BY <1>5 DEF HostSend, HostSendLess
  <2>2. resp.pend.file \in Files BY <2>1 DEF IInv, Types, RespOK
  <2>3. PICK q : /\ Ask(q, None) /\ q \in Seq(Packets) /\ Len(q) \in Nat \ {0} /\ q[1] = "send"
                 /\ (\A i \in 2..Len(q) : q[i] \notin Kinds) /\ FileIn(q)
    <3>1. CASE HostSend
      <4>1. PICK k \in 1..Chunks :
              LET zlp == IF k = Chunks THEN <<"zlp">> ELSE <<>>
              IN  Ask(Sent(zlp, "head", k, zlp), None)
        BY <3>1 DEF HostSend
      <4>2. k \in Nat \ {0} BY MtpAssumption
      <4>3. PICK zlp \in {<<>>, <<"zlp">>} : Ask(Sent(zlp, "head", k, zlp), None) BY <4>1
      <4> QED BY <4>2, <4>3, SentFile
    <3>2. CASE HostSendLess
      <4>1. PICK k \in 1..(Chunks - 1) : Ask(Sent(<<>>, "long", k, <<"zlp">>), None)
        BY <3>2 DEF HostSendLess
      <4>2. k \in Nat \ {0} BY MtpAssumption
      <4> QED BY <4>1, <4>2, SentFile
    <3> QED BY <1>5, <3>1, <3>2
  <2> QED BY <2>1, <2>2, <2>3, AskStep DEF Kinds
<1> QED BY <1>1, <1>2, <1>3, <1>4, <1>5 DEF Host

-----------------------------------------------------------------------------
(* The responder. *)

\* It is not receiving, and nobody touches the files or their jobs.
LEMMA NotReceiving ==
  ASSUME IInv, ~Receiving', UNCHANGED <<del, disk, past>>, ext'.pc = ext.pc, ext'.job = ext.job,
         \/ ring'.seq = ring.seq /\ resp'.pend.file \notin Files
         \/ ring'.seq = ring.seq + 1 /\ resp'.pend.id = ring'.seq
  PROVE  Placed' /\ Whole'
<1>1. \A f \in Files : DeletePending(f)' => DeletePending(f) BY DEF DeletePending
<1>2. GameOnDisk' /\ (\A f : Of(f)' = Of(f)) BY DEF IInv, Placed, GameOnDisk, Kept, Stored, Of
<1>3. ring.seq \in Nat BY DEF IInv, Types, RingOK, Ids
<1>4. Whole' BY <1>3 DEF IInv, Whole, Entire
<1> QED BY <1>1, <1>2, <1>4 DEF IInv, Placed, Spent

LEMMA SameRows ==
  ASSUME IInv, ring'.rows = ring.rows, ext' = ext
  PROVE  UnzipIsInHand'
BY DEF IInv, UnzipIsInHand, InHand

RespPcs == {"none", "poll", "cmd", "prime", "write", "reap", "drop", "close", "exit"}

LEMMA NewResp ==
  ASSUME NEW x \in RespPcs, resp' = Resp(x)
  PROVE  /\ RespOK' /\ resp'.pc = x /\ resp'.pend = NoPending /\ ~resp'.stopping
         /\ resp'.pend.file \notin Files
<1>1. NoPending \in [file : Files \cup {None}, id : Ids \cup {0}] /\ NoPending.file \notin Files
  BY MtpAssumption DEF NoPending
<1>2. Recv \in [n : Nat, cancelled : BOOLEAN, wfail : BOOLEAN] BY DEF Recv
<1> QED BY <1>1, <1>2 DEF Resp, RespOK, RespPcs

LEMMA RPollStep == ASSUME IInv, RPoll PROVE IInv' /\ CardsStay
<1>1. PICK x \in {"exit", "cmd"} :
        /\ resp' = Resp(x)
        /\ IF x = "exit" THEN life.stopping ELSE ~life.stopping /\ wire.link = "up"
  BY DEF RPoll
<1>2. /\ resp.pc = "poll" /\ UNCHANGED <<wire, life, ui, ext, del, ring, cards, disk, past, spent>>
  BY DEF RPoll
<1>3. /\ RespOK' /\ resp'.pc = x /\ resp'.pend = NoPending /\ ~resp'.stopping
      /\ resp'.pend.file \notin Files
  BY <1>1, NewResp DEF RespPcs
<1>4. Types' BY <1>2, <1>3, SameTypes DEF Types
<1>5. Threads' BY <1>2, <1>3 DEF IInv, Threads, Off
<1>6. /\ Commands' = Commands /\ Bodies' = Bodies /\ Heads' = Heads
      /\ (Single' <=> Single) /\ (Lined' <=> Lined) /\ (Behind' <=> Behind)
      /\ \A p : In(p)' <=> In(p)
  BY <1>2, SamePipe
<1>7. ~Receiving' BY <1>1, <1>3 DEF Receiving
<1>8. In("send") => life.stopping BY <1>2 DEF IInv, Commanded
<1>9. Commanded' BY <1>1, <1>2, <1>3, <1>6, <1>7, <1>8 DEF IInv, Commanded, Quiet
<1>10. Bodies \cup Heads = {} => Behind BY DEF Behind
<1>11. InSync' BY <1>1, <1>2, <1>3, <1>6, <1>10 DEF IInv, InSync, InStep
<1>12. Placed' /\ Whole' BY <1>2, <1>3, <1>7, NotReceiving
<1> QED BY <1>2, <1>4, <1>5, <1>9, <1>11, <1>12, SameRows, SameCards DEF IInv

LEMMA RLeaveStep == ASSUME IInv, RLeave PROVE IInv' /\ CardsStay
<1>1. /\ resp' = Resp("poll") /\ wire' = [wire EXCEPT !.dropped = FALSE] /\ Cut
      /\ resp.pc = "cmd" /\ UNCHANGED <<life, ui, ext, del, ring, cards, disk, past, spent>>
  BY DEF RLeave
<1>2. /\ RespOK' /\ resp'.pc = "poll" /\ resp'.pend = NoPending /\ ~resp'.stopping
      /\ resp'.pend.file \notin Files
  BY <1>1, NewResp DEF RespPcs
<1>3. WireOK' /\ wire'.pipe = wire.pipe /\ wire'.link = wire.link /\ ~wire'.dropped
      /\ wire'.await = wire.await /\ wire'.told = wire.told
  BY <1>1 DEF IInv, Types, WireOK
<1>4. Types' BY <1>1, <1>2, <1>3, SameTypes DEF Types
<1>5. Threads' BY <1>1, <1>2, <1>3 DEF IInv, Threads, Off
<1>6. /\ Commands' = Commands /\ Bodies' = Bodies /\ Heads' = Heads
      /\ (Single' <=> Single) /\ (Lined' <=> Lined) /\ (Behind' <=> Behind)
      /\ \A p : In(p)' <=> In(p)
  BY <1>3, SamePipe
<1>7. ~Receiving' BY <1>2 DEF Receiving
<1>8. ~life.stopping => ~In("send") /\ Bodies \cup Heads = {}
  <2>1. ~life.stopping => wire.pipe = <<>> BY <1>1 DEF Cut, IInv, Threads, Commanded
  <2> QED BY <2>1 DEF In, Bodies, Heads
<1>9. Commanded' BY <1>1, <1>2, <1>3, <1>6, <1>7, <1>8 DEF IInv, Commanded, Quiet
<1>10. InSync'
  <2>1. Bodies \cup Heads = {} => Behind BY DEF Behind
  <2> QED BY <1>1, <1>2, <1>6, <1>8, <2>1 DEF IInv, InSync, InStep
<1>11. Placed' /\ Whole' BY <1>1, <1>2, <1>7, NotReceiving
<1> QED BY <1>1, <1>4, <1>5, <1>9, <1>10, <1>11, SameRows, SameCards DEF IInv

\* Packets that nobody waits for.
LEMMA RSkipStep == ASSUME IInv, RSkip PROVE IInv' /\ CardsStay
<1>1. PICK x \in {"zlp", "head", "long", "body"} : First(x)
  BY DEF RSkip
<1>2. /\ wire' = Taken /\ resp.pc = "cmd"
      /\ UNCHANGED <<life, ui, resp, ext, del, ring, cards, disk, past, spent>>
  BY DEF RSkip
<1>3. Single /\ WireOK BY DEF IInv, Types, Commanded
<1>4. /\ wire'.pipe = Tail(wire.pipe) /\ wire'.link = wire.link /\ wire'.dropped = wire.dropped
      /\ wire'.await = wire.await /\ wire'.told = wire.told
  BY <1>2, <1>3 DEF Taken, WireOK
<1>5. /\ wire'.pipe \in Seq(Packets) /\ Single' /\ \A p : In(p)' => In(p)
      /\ Commands' # {} => Commands # {}
      /\ (Behind => Behind') /\ (Lined => Lined')
  BY <1>1, <1>3, <1>4, Taking
<1>6. Types'
  <2> DEFINE t == wire'.pipe
  <2>1. wire' = [wire EXCEPT !.pipe = t] BY <1>2 DEF Taken, IInv, Types, WireOK
  <2> HIDE DEF t
  <2>2. t \in Seq(Packets) BY <1>5 DEF t
  <2>3. WireOK' BY <1>3, <2>1, <2>2 DEF WireOK
  <2> QED BY <1>2, <2>3, SameTypes DEF Types
<1>7. Threads' BY <1>2, <1>4 DEF IInv, Threads, Off
<1>8. wire.link = "up" BY <1>1 DEF First, IInv, Types, WireOK, Commanded
<1>9. ~Receiving /\ ~Receiving' /\ Quiet' = Quiet BY <1>2 DEF Receiving, Quiet
<1>10. Commanded' BY <1>2, <1>4, <1>5, <1>8, <1>9 DEF IInv, Commanded
<1>11. InSync' BY <1>2, <1>5 DEF IInv, InSync, InStep
<1> QED BY <1>2, <1>6, <1>7, <1>10, <1>11, SameWork, SameCards DEF IInv

\* The one command is taken: what is left brings no file.
LEMMA Obeying ==
  ASSUME IInv, resp.pc = "cmd", NEW x \in Kinds, First(x), wire'.pipe = Tail(wire.pipe)
  PROVE  /\ wire.link = "up" /\ ~wire.dropped /\ wire'.pipe \in Seq(Packets) /\ In(x)
         /\ Commands' = {} /\ Single' /\ \A p \in Kinds : ~In(p)'
         /\ ~past.torn => Lined'
         /\ x # "send" /\ ~past.torn => (Bodies \cup Heads)' = {} /\ Behind'
<1>1. Single /\ WireOK /\ wire.link = "up" /\ ~wire.dropped
  BY DEF First, IInv, Types, WireOK, Commanded
<1>2. /\ wire'.pipe \in Seq(Packets) /\ Single' /\ In(x) /\ Commands' = {}
      /\ (Bodies = {} => Bodies' = {}) /\ (Heads = {} => Heads' = {}) /\ (Lined => Lined')
  BY <1>1, Taking
<1>3. \A p \in Kinds : ~In(p)' BY <1>2 DEF In, Commands
<1>4. x # "send" => ~In("send")
  <2> SUFFICES ASSUME x # "send", NEW i \in DOMAIN wire.pipe, wire.pipe[i] = "send" PROVE FALSE
    BY DEF In
  <2>1. PICK j \in DOMAIN wire.pipe : wire.pipe[j] = x BY <1>2 DEF In
  <2>2. i \in Commands /\ j \in Commands BY <2>1 DEF Commands, Kinds
  <2> QED BY <1>1, <2>1, <2>2 DEF Single
<1>5. /\ ~past.torn => Lined
      /\ x # "send" /\ ~past.torn => Bodies \cup Heads = {}
  BY <1>4 DEF IInv, InSync, InStep, Behind, In
<1>6. (Bodies \cup Heads)' = {} => Behind' BY DEF Behind
<1> QED BY <1>1, <1>2, <1>3, <1>5, <1>6

\* The ring's new row is of a transfer in progress, and the oldest may go.
LEMMA Begins ==
  ASSUME IInv, NEW f \in Files, ring.seq < MaxIds, XferBegin(f), ext' = ext
  PROVE  /\ RingOK' /\ UnzipIsInHand' /\ ring'.cur = ring.seq + 1 /\ ring'.seq = ring.seq + 1
         /\ ring.seq + 1 \in Ids
<1> DEFINE kept == IF Len(ring.rows) = XferMax THEN Tail(ring.rows) ELSE ring.rows
           id   == ring.seq + 1
           row  == [id |-> id, file |-> f, st |-> "active"]
           rows == Append(kept, row)
<1>1. ring' = [rows |-> rows, cur |-> id, cancel |-> FALSE, seq |-> id] BY DEF XferBegin
<1>2. /\ ring.rows \in Seq(Row) /\ Len(ring.rows) <= XferMax /\ ring.seq \in Ids \cup {0}
      /\ XferMax \in Nat \ {0} /\ MaxIds \in Nat
  BY MtpAssumption DEF IInv, Types, RingOK
<1>3. id \in Ids BY <1>2 DEF Ids
<1>4. row \in Row /\ row.st = "active" BY <1>3 DEF Row
<1>5. /\ kept \in Seq(Row) /\ Len(kept) < XferMax
      /\ \A i \in DOMAIN kept : \E j \in DOMAIN ring.rows : kept[i] = ring.rows[j]
  <2>1. CASE Len(ring.rows) = XferMax
    <3>1. kept = Tail(ring.rows) /\ ring.rows # <<>> BY <1>2, <2>1
    <3> DEFINE old == ring.rows
    <3>2. old \in Seq(Row) /\ old # <<>> /\ kept = Tail(old) BY <1>2, <3>1
    <3> HIDE DEF old, kept
    <3>3. /\ kept \in Seq(Row) /\ Len(kept) = Len(old) - 1 /\ Len(old) \in Nat
          /\ DOMAIN kept = 1..(Len(old) - 1) /\ DOMAIN old = 1..Len(old)
          /\ \A i \in 1..(Len(old) - 1) : kept[i] = old[i + 1]
      BY <3>2
    <3>4. \A i \in DOMAIN kept : kept[i] = old[i + 1] /\ i + 1 \in DOMAIN old BY <3>3
    <3> QED BY <1>2, <3>3, <3>4 DEF old
  <2>2. CASE Len(ring.rows) # XferMax
    <3>1. kept = ring.rows BY <2>2
    <3> QED BY <1>2, <2>2, <3>1
  <2> QED BY <2>1, <2>2
<1> HIDE DEF kept, row, id
<1>6. /\ rows \in Seq(Row) /\ Len(rows) <= XferMax /\ DOMAIN rows = 1..(Len(kept) + 1)
      /\ DOMAIN kept = 1..Len(kept) /\ Len(kept) \in Nat
      /\ \A i \in 1..Len(kept) : rows[i] = kept[i]
      /\ rows[Len(kept) + 1] = row
  BY <1>2, <1>4, <1>5
<1> HIDE DEF rows
<1>7. ring'.rows = rows /\ ring'.cur = id /\ ring'.seq = id BY <1>1
<1>8. RingOK' BY <1>1, <1>3, <1>6 DEF RingOK
<1>9. UnzipIsInHand'
  <2> SUFFICES ASSUME NEW i \in DOMAIN rows, rows[i].st = "unzip" PROVE InHand(rows[i].id)
    BY <1>7 DEF UnzipIsInHand, InHand
  <2>1. i \in 1..Len(kept) BY <1>4, <1>6
  <2>2. PICK j \in DOMAIN ring.rows : rows[i] = ring.rows[j] BY <1>5, <1>6, <2>1
  <2>3. InHand(ring.rows[j].id) BY <2>2 DEF IInv, UnzipIsInHand
  <2> QED BY <2>2, <2>3
<1> QED BY <1>3, <1>7, <1>8, <1>9 DEF id

LEMMA RInfoStep == ASSUME IInv, RInfo PROVE IInv' /\ CardsStay
<1>1. /\ resp.pc = "cmd" /\ First("info") /\ wire' = Answered /\ XferBegin(wire.told)
      /\ resp' = [resp EXCEPT !.pend = [file |-> wire.told, id |-> ring.seq + 1]]
      /\ UNCHANGED <<life, ui, ext, del, cards, disk, past, spent>>
  BY DEF RInfo
<1>2. /\ wire'.pipe = Tail(wire.pipe) /\ wire'.link = wire.link /\ wire'.dropped = wire.dropped
      /\ ~wire'.await /\ wire'.told = wire.told
  BY <1>1 DEF Answered, IInv, Types, WireOK
<1>3. /\ wire.link = "up" /\ ~wire.dropped /\ wire'.pipe \in Seq(Packets) /\ In("info")
      /\ Commands' = {} /\ Single' /\ \A p \in Kinds : ~In(p)'
      /\ ~past.torn => (Bodies \cup Heads)' = {} /\ Behind' /\ Lined'
  BY <1>1, <1>2, Obeying DEF Kinds
<1>4. wire.told \in Files /\ ring.seq < MaxIds BY <1>3 DEF IInv, Commanded
<1>5. /\ RingOK' /\ UnzipIsInHand' /\ ring'.cur = ring.seq + 1 /\ ring.seq + 1 \in Ids
      /\ ring'.seq = ring.seq + 1
  BY <1>1, <1>4, Begins
<1>6. WireOK'
  <2> DEFINE t == wire'.pipe
  <2>1. wire' = [wire EXCEPT !.pipe = t, !.await = FALSE]
    BY <1>1 DEF Answered, IInv, Types, WireOK
  <2> HIDE DEF t
  <2>2. t \in Seq(Packets) BY <1>3 DEF t
  <2> QED BY <2>1, <2>2 DEF IInv, Types, WireOK
<1>7. /\ RespOK' /\ resp'.pc = "cmd" /\ resp'.pend.id = ring.seq + 1 /\ resp'.stopping = resp.stopping
      /\ resp'.pend.file = wire.told
  BY <1>1, <1>4, <1>5 DEF IInv, Types, RespOK
<1>8. Types' BY <1>1, <1>5, <1>6, <1>7, SameTypes DEF Types
<1>9. Threads' BY <1>1, <1>2, <1>7 DEF IInv, Threads, Off
<1>10. ~Receiving' /\ ~Quiet' BY <1>7 DEF Receiving, Quiet
<1>11. Commanded' BY <1>1, <1>2, <1>3, <1>5, <1>7, <1>10 DEF IInv, Commanded, Kinds
<1>12. InSync' BY <1>1, <1>3, <1>7 DEF IInv, InSync, InStep
<1>13. Placed' /\ Whole' BY <1>1, <1>5, <1>7, <1>10, NotReceiving
<1> QED BY <1>1, <1>5, <1>8, <1>9, <1>11, <1>12, <1>13, SameCards DEF IInv

\* Whose a path's content is: an id's, or nobody's.
LEMMA OfFacts ==
  ASSUME DiskOK, NEW f \in Files
  PROVE  /\ disk[f] \in Int /\ Of(f) \in 0..MaxIds
         /\ disk[f] = 0 => Of(f) = 0
         /\ \A id \in Ids : disk[f] = id \/ disk[f] = -id => Of(f) = id
BY MtpAssumption DEF DiskOK, Whose, Of, Ids

\* A file that is to be deleted is one the host has given up.
LEMMA RDeleteStep == ASSUME IInv, RDelete PROVE IInv' /\ CardsStay
<1>1. /\ resp.pc = "cmd" /\ First("delete") /\ wire' = [Answered EXCEPT !.told = None]
      /\ del' = [del EXCEPT !.q = Append(@, wire.told)]
      /\ past' = [past EXCEPT !.over = @ \cup {Of(wire.told)}]
      /\ UNCHANGED <<life, ui, resp, ext, ring, cards, disk, spent>>
  BY DEF RDelete
<1>2. /\ wire'.pipe = Tail(wire.pipe) /\ wire'.link = wire.link /\ wire'.dropped = wire.dropped
      /\ ~wire'.await
  BY <1>1 DEF Answered, IInv, Types, WireOK
<1>3. /\ wire.link = "up" /\ ~wire.dropped /\ wire'.pipe \in Seq(Packets) /\ In("delete")
      /\ Commands' = {} /\ Single' /\ \A p \in Kinds : ~In(p)'
      /\ ~past.torn => (Bodies \cup Heads)' = {} /\ Behind' /\ Lined'
  BY <1>1, <1>2, Obeying DEF Kinds
<1>4. wire.told \in Files BY <1>3 DEF IInv, Commanded
<1>5. WireOK'
  <2> DEFINE t == wire'.pipe
  <2>1. wire' = [wire EXCEPT !.pipe = t, !.await = FALSE, !.told = None]
    BY <1>1 DEF Answered, IInv, Types, WireOK
  <2> HIDE DEF t
  <2>2. t \in Seq(Packets) BY <1>3 DEF t
  <2> QED BY <2>1, <2>2 DEF IInv, Types, WireOK
<1>6. /\ del'.pc = del.pc /\ del'.cur = del.cur /\ del'.q = Append(del.q, wire.told)
      /\ del.q \in Seq(Files)
  BY <1>1 DEF IInv, Types, WorkOK
<1>7. WorkOK' /\ del'.q # <<>>
  <2> DEFINE q == Append(del.q, wire.told)
  <2>1. q \in Seq(Files) /\ q # <<>> BY <1>4, <1>6
  <2>2. del' = [del EXCEPT !.q = q] BY <1>1
  <2> HIDE DEF q
  <2> QED BY <1>1, <2>1, <2>2 DEF IInv, Types, WorkOK
<1>8. /\ past'.over = past.over \cup {Of(wire.told)} /\ past'.acked = past.acked
      /\ past'.unpacked = past.unpacked /\ past'.early = past.early /\ past'.torn = past.torn
      /\ past'.cut = past.cut /\ DiskOK'
  <2> DEFINE o == past.over \cup {Of(wire.told)}
  <2>1. DiskOK BY DEF IInv, Types
  <2>2. Of(wire.told) \in Int BY <1>4, <2>1, OfFacts
  <2>3. o \in SUBSET Int /\ past' = [past EXCEPT !.over = o] BY <1>1, <2>1, <2>2 DEF DiskOK, Pasts
  <2> HIDE DEF o
  <2>4. past' \in Pasts /\ past'.over = o BY <2>1, <2>3 DEF DiskOK, Pasts
  <2> QED BY <1>1, <2>1, <2>3, <2>4 DEF DiskOK, Pasts, o
<1>9. Types' BY <1>1, <1>5, <1>7, <1>8, SameTypes DEF Types
<1>10. Threads' BY <1>1, <1>2, <1>6, <1>7 DEF IInv, Threads, Off
<1>11. ~Receiving' /\ Quiet' = Quiet BY <1>1 DEF Receiving, Quiet
<1>12. Commanded' BY <1>1, <1>2, <1>3, <1>11 DEF IInv, Commanded, Kinds
<1>13. InSync' BY <1>1, <1>3, <1>8 DEF IInv, InSync, InStep
<1>14. \A f \in Files : DeletePending(f)' => DeletePending(f) \/ f = wire.told
  <2> SUFFICES ASSUME NEW f \in Files, f \in Range(del'.q), f # wire.told PROVE f \in Range(del.q)
    BY <1>6 DEF DeletePending
  <2>1. PICK i \in DOMAIN del'.q : del'.q[i] = f BY DEF Range
  <2>2. i \in DOMAIN del.q /\ del.q[i] = f BY <1>6, <2>1
  <2> QED BY <2>2 DEF Range
<1>15. GameOnDisk' /\ (\A f : Of(f)' = Of(f))
  BY <1>1, <1>8 DEF IInv, Placed, GameOnDisk, Kept, Stored, Of
<1>16. Placed' /\ Whole'
  <2>1. Whole' BY <1>1, <1>8 DEF IInv, Whole, Entire
  <2> QED BY <1>1, <1>8, <1>11, <1>14, <1>15, <2>1 DEF IInv, Placed, Spent
<1> QED BY <1>1, <1>9, <1>10, <1>12, <1>13, <1>16, SameRows, SameCards DEF IInv

-----------------------------------------------------------------------------
(* Receiving a file. *)

\* The host's file is emptied; what was there is the host's to forget.
LEMMA ROpenStep == ASSUME IInv, ROpen PROVE IInv' /\ CardsStay
<1>1. /\ resp.pc = "cmd" /\ First("send") /\ wire' = Taken
      /\ resp' = [resp EXCEPT !.pc = "prime", !.recv = Recv]
      /\ disk' = [disk EXCEPT ![Path] = -resp.pend.id]
      /\ past' = [past EXCEPT !.over = @ \cup {Of(Path)},
                              !.early = IF JobPending(Path) THEN @ \cup {resp.pend.id} ELSE @]
      /\ UNCHANGED <<life, ui, ext, del, ring, cards, spent>>
  BY DEF ROpen
<1>2. /\ wire'.pipe = Tail(wire.pipe) /\ wire'.link = wire.link /\ wire'.dropped = wire.dropped
      /\ wire'.await = wire.await /\ wire'.told = wire.told
  BY <1>1 DEF Taken, IInv, Types, WireOK
<1>3. /\ wire.link = "up" /\ ~wire.dropped /\ wire'.pipe \in Seq(Packets) /\ In("send")
      /\ Commands' = {} /\ Single' /\ (\A p \in Kinds : ~In(p)') /\ (~past.torn => Lined')
  BY <1>1, <1>2, Obeying DEF Kinds
<1>4. Path \in Files /\ resp.pend.id \in Ids /\ ring.cur = resp.pend.id
  BY <1>1, <1>3 DEF IInv, Commanded, Path, Quiet
<1>5. wire.await BY <1>3, PipeFacts DEF Kinds, IInv, Types, Commanded
<1>6. WireOK'
  <2> DEFINE t == wire'.pipe
  <2>1. wire' = [wire EXCEPT !.pipe = t] BY <1>1 DEF Taken, IInv, Types, WireOK
  <2> HIDE DEF t
  <2>2. t \in Seq(Packets) BY <1>3 DEF t
  <2> QED BY <2>1, <2>2 DEF IInv, Types, WireOK
<1>7. Recv \in [n : Nat, cancelled : BOOLEAN, wfail : BOOLEAN] BY DEF Recv
<1>8. RespOK' /\ resp'.pc = "prime" /\ resp'.pend = resp.pend /\ resp'.stopping = resp.stopping
  BY <1>1, <1>7 DEF IInv, Types, RespOK
<1>9. /\ past'.over = past.over \cup {Of(Path)} /\ past'.acked = past.acked
      /\ past'.unpacked = past.unpacked /\ past'.torn = past.torn /\ past'.cut = past.cut
      /\ past'.early = IF JobPending(Path) THEN past.early \cup {resp.pend.id} ELSE past.early
      /\ disk'[Path] = -resp.pend.id /\ \A f \in Files \ {Path} : disk'[f] = disk[f]
      /\ past \in Pasts
  BY <1>1, <1>4 DEF IInv, Types, DiskOK, Pasts
<1>10. DiskOK'
  <2>1. disk' \in [Files -> Whose]
    BY <1>1, <1>4, MtpAssumption DEF IInv, Types, DiskOK, Whose, Ids
  <2>2. Of(Path) \in Int /\ resp.pend.id \in Int BY <1>4, OfFacts DEF IInv, Types, Ids
  <2> DEFINE o == past.over \cup {Of(Path)}
             e == IF JobPending(Path) THEN past.early \cup {resp.pend.id} ELSE past.early
  <2>3. o \in SUBSET Int /\ e \in SUBSET Int BY <1>9, <2>2 DEF Pasts
  <2>4. past' = [past EXCEPT !.over = o, !.early = e] BY <1>1
  <2> HIDE DEF o, e
  <2>5. past' \in Pasts BY <1>9, <2>3, <2>4 DEF Pasts
  <2> QED BY <2>1, <2>5 DEF DiskOK
<1>11. Types' BY <1>1, <1>6, <1>8, <1>10, SameTypes DEF Types
<1>12. Threads' BY <1>1, <1>2, <1>8 DEF IInv, Threads, Off
<1>13. Receiving' /\ ~Quiet' /\ Path' = Path BY <1>8 DEF Receiving, Quiet, Path
<1>14. Commanded' BY <1>1, <1>2, <1>3, <1>4, <1>5, <1>8, <1>13 DEF IInv, Commanded, Kinds, Path
<1>15. InSync' BY <1>3, <1>8, <1>9 DEF IInv, InSync, InStep
<1>16. \A f : (JobPending(f)' <=> JobPending(f)) /\ (DeletePending(f)' <=> DeletePending(f))
  BY <1>1 DEF JobPending, DeletePending
<1>17. \A f \in Files : Of(f)' = IF f = Path THEN resp.pend.id ELSE Of(f)
  BY <1>4, <1>9 DEF Of, Ids
<1>18. GameOnDisk'
  <2> SUFFICES ASSUME NEW id \in past.acked PROVE Kept(id)' \/ id \in past'.early
    BY <1>9 DEF GameOnDisk, IInv, Placed
  <2>1. Kept(id) \/ id \in past.early BY DEF IInv, Placed, GameOnDisk
  <2>2. id \in Ids BY <1>9 DEF Pasts
  <2>3. ASSUME NEW f \in Files, NEW v \in {id, -id}, disk[f] = v
        PROVE  id \in past'.over \/ disk'[f] = v
    BY <1>4, <1>9, <2>2, <2>3, OfFacts DEF IInv, Types
  <2> QED BY <1>9, <2>1, <2>3 DEF Kept, Stored
<1>19. Placed'
  <2>1. disk'[Path] = -resp'.pend.id /\ (JobPending(Path)' => resp'.pend.id \in past'.early)
    BY <1>8, <1>9, <1>13, <1>16
  <2>2. \A f \in Files : DeletePending(f)' => Of(f)' \in Spent'
    BY <1>4, <1>9, <1>16, <1>17 DEF IInv, Placed, Spent, JobPending
  <2>3. ext.pc = "job" => \/ disk'[ext.job.file] \in {0, ext.job.got}
                         \/ Of(ext.job.file)' \in past'.early
    <3> SUFFICES ASSUME ext.pc = "job"
                 PROVE  \/ disk'[ext.job.file] \in {0, ext.job.got}
                        \/ Of(ext.job.file)' \in past'.early
      OBVIOUS
    <3>1. ext.job.file \in Files /\ ext'.job.file = ext.job.file BY <1>1 DEF IInv, Threads
    <3>2. Of(ext.job.file)' = IF ext.job.file = Path THEN resp.pend.id ELSE Of(ext.job.file)
      BY <1>1, <1>17, <3>1 DEF Of
    <3> QED BY <1>9, <3>1, <3>2 DEF IInv, Placed, JobPending
  <2> QED BY <1>1, <1>13, <1>18, <2>1, <2>2, <2>3 DEF Placed
<1>20. Whole'
  <2>1. \A f \in Files : disk'[f] > 0 => disk'[f] = disk[f] BY <1>4, <1>9 DEF Ids
  <2> QED BY <1>1, <1>8, <1>9, <2>1 DEF IInv, Whole, Entire
<1> QED BY <1>1, <1>11, <1>12, <1>14, <1>15, <1>19, <1>20, SameRows, SameCards DEF IInv

\* A row's new state, and no other row's.
LEMMA RowSet ==
  ASSUME RingOK, NEW id, NEW st \in {"active", "unzip", "done", "failed"}, NEW rows,
         rows = SetRow(ring.rows, id, st)
  PROVE  /\ rows \in Seq(Row) /\ Len(rows) <= XferMax /\ DOMAIN rows = DOMAIN ring.rows
         /\ \A i \in DOMAIN ring.rows :
              /\ rows[i].id = ring.rows[i].id
              /\ rows[i].st = IF ring.rows[i].id = id THEN st ELSE ring.rows[i].st
<1> DEFINE old == ring.rows
<1>1. old \in Seq(Row) /\ Len(old) <= XferMax BY DEF RingOK
<1>2. rows = [i \in DOMAIN old |-> IF old[i].id = id THEN [old[i] EXCEPT !.st = st] ELSE old[i]]
  BY DEF SetRow
<1> HIDE DEF old
<1>3. DOMAIN old = 1..Len(old) /\ Len(old) \in Nat /\ \A i \in DOMAIN old : old[i] \in Row
  BY <1>1
<1>4. \A i \in DOMAIN old :
        /\ rows[i] \in Row /\ rows[i].id = old[i].id
        /\ rows[i].st = IF old[i].id = id THEN st ELSE old[i].st
  BY <1>2, <1>3 DEF Row
<1>5. DOMAIN rows = DOMAIN old BY <1>2
<1>6. rows \in Seq(Row) /\ Len(rows) = Len(old)
  <2>1. rows \in [1..Len(old) -> Row] BY <1>2, <1>3, <1>4
  <2> QED BY <1>3, <2>1
<1> QED BY <1>1, <1>4, <1>5, <1>6 DEF old

\* The transfer ends, well or not, with nothing left for the worker.
LEMMA Ending ==
  ASSUME IInv, NEW ok \in BOOLEAN, XferEnd(ok), ext' = ext
  PROVE  RingOK' /\ UnzipIsInHand' /\ ring'.seq = ring.seq
<1> DEFINE rows == SetRow(ring.rows, ring.cur, IF ok THEN "done" ELSE "failed")
<1>1. ring' = [ring EXCEPT !.rows = rows, !.cur = None, !.cancel = FALSE] BY DEF XferEnd
<1>2. RingOK BY DEF IInv, Types
<1> DEFINE st == IF ok THEN "done" ELSE "failed"
<1>3. st \in {"active", "unzip", "done", "failed"} /\ rows = SetRow(ring.rows, ring.cur, st)
  OBVIOUS
<1> HIDE DEF rows, st
<1>4. /\ rows \in Seq(Row) /\ Len(rows) <= XferMax /\ DOMAIN rows = DOMAIN ring.rows
      /\ \A i \in DOMAIN ring.rows :
           /\ rows[i].id = ring.rows[i].id
           /\ rows[i].st = IF ring.rows[i].id = ring.cur THEN st ELSE ring.rows[i].st
  BY <1>2, <1>3, RowSet
<1>5. RingOK' /\ ring'.rows = rows /\ ring'.seq = ring.seq BY <1>1, <1>2, <1>4 DEF RingOK
<1>6. st # "unzip" BY DEF st
<1>7. UnzipIsInHand' BY <1>4, <1>5, <1>6 DEF IInv, UnzipIsInHand, InHand
<1> QED BY <1>5, <1>7

LEMMA RNoOpenStep == ASSUME IInv, RNoOpen PROVE IInv' /\ CardsStay
<1>1. /\ resp.pc = "cmd" /\ First("send") /\ wire' = Answered /\ resp' = Resp("cmd")
      /\ XferEnd(FALSE) /\ past' = [past EXCEPT !.torn = TRUE]
      /\ UNCHANGED <<life, ui, ext, del, cards, disk>>
  BY DEF RNoOpen
<1>2. /\ wire'.pipe = Tail(wire.pipe) /\ wire'.link = wire.link /\ wire'.dropped = wire.dropped
      /\ ~wire'.await /\ wire'.told = wire.told
  BY <1>1 DEF Answered, IInv, Types, WireOK
<1>3. /\ wire.link = "up" /\ ~wire.dropped /\ wire'.pipe \in Seq(Packets)
      /\ Commands' = {} /\ Single' /\ \A p \in Kinds : ~In(p)'
  BY <1>1, <1>2, Obeying DEF Kinds
<1>4. WireOK'
  <2> DEFINE t == wire'.pipe
  <2>1. wire' = [wire EXCEPT !.pipe = t, !.await = FALSE]
    BY <1>1 DEF Answered, IInv, Types, WireOK
  <2> HIDE DEF t
  <2>2. t \in Seq(Packets) BY <1>3 DEF t
  <2> QED BY <2>1, <2>2 DEF IInv, Types, WireOK
<1>5. /\ RespOK' /\ resp'.pc = "cmd" /\ resp'.pend = NoPending /\ ~resp'.stopping
      /\ resp'.pend.file \notin Files
  BY <1>1, NewResp DEF RespPcs
<1>6. RingOK' /\ UnzipIsInHand' /\ ring'.seq = ring.seq BY <1>1, Ending
<1>7. /\ past'.over = past.over /\ past'.acked = past.acked /\ past'.unpacked = past.unpacked
      /\ past'.early = past.early /\ past'.torn /\ past'.cut = past.cut /\ DiskOK'
  BY <1>1 DEF IInv, Types, DiskOK, Pasts
<1>8. Types' BY <1>1, <1>4, <1>5, <1>6, <1>7, SameTypes DEF Types
<1>9. Threads' BY <1>1, <1>2, <1>5 DEF IInv, Threads, Off
<1>10. ~Receiving' /\ ~Quiet' BY <1>5 DEF Receiving, Quiet
<1>11. Commanded' BY <1>2, <1>3, <1>5, <1>10 DEF Commanded, Kinds
<1>12. InSync' BY <1>7 DEF InSync
<1>13. Placed' /\ Whole'
  <2>1. \A f : DeletePending(f)' <=> DeletePending(f) BY <1>1 DEF DeletePending
  <2>2. GameOnDisk' /\ (\A f : Of(f)' = Of(f))
    BY <1>1, <1>7 DEF IInv, Placed, GameOnDisk, Kept, Stored, Of
  <2>3. Whole' BY <1>1, <1>5, <1>6, <1>7 DEF IInv, Whole, Entire
  <2> QED BY <1>1, <1>7, <1>10, <2>1, <2>2, <2>3 DEF IInv, Placed, Spent
<1> QED BY <1>1, <1>6, <1>8, <1>9, <1>11, <1>12, <1>13, SameCards DEF IInv

\* The receive loop goes on: nothing but its place in the file changes.
LEMMA StillReceiving ==
  ASSUME IInv, Receiving, resp'.pend = resp.pend, UNCHANGED <<ext, del, ring, disk, past>>
  PROVE  Placed' /\ Whole'
<1>1. Path' = Path BY DEF Path
<1>2. \A f : (JobPending(f)' <=> JobPending(f)) /\ (DeletePending(f)' <=> DeletePending(f))
  BY DEF JobPending, DeletePending
<1>3. GameOnDisk' /\ (\A f : Of(f)' = Of(f)) BY DEF IInv, Placed, GameOnDisk, Kept, Stored, Of
<1>4. Whole' BY DEF IInv, Whole, Entire
<1> QED BY <1>1, <1>2, <1>3, <1>4 DEF IInv, Placed, Spent

\* It takes a packet.
LEMMA Reading ==
  ASSUME IInv, Receiving, NEW x, First(x), wire' = Taken
  PROVE  /\ WireOK' /\ wire'.link = wire.link /\ wire'.dropped = wire.dropped
         /\ wire'.await = wire.await /\ wire'.told = wire.told
         /\ ~wire.dropped /\ wire.link = "up" /\ wire.await /\ Commands' = {} /\ Single'
         /\ \A p \in Kinds : ~In(p)'
         /\ Lined => Lined' /\ (x \in {"head", "long"} => Heads' = {})
         /\ Heads = {} => Heads' = {}
         /\ Lined /\ Heads = {} /\ x = "zlp" => Bodies' = {}
         /\ Cardinality(Bodies') = IF x = "body" THEN Cardinality(Bodies) - 1
                                                 ELSE Cardinality(Bodies)
<1>1. Single /\ WireOK /\ Commands = {} /\ wire.link = "up" /\ ~wire.dropped /\ wire.await
  BY DEF First, IInv, Types, WireOK, Commanded
<1>2. /\ wire'.pipe = Tail(wire.pipe) /\ wire'.link = wire.link /\ wire'.dropped = wire.dropped
      /\ wire'.await = wire.await /\ wire'.told = wire.told
  BY <1>1 DEF Taken, WireOK
<1>3. /\ wire'.pipe \in Seq(Packets) /\ Single' /\ Commands' = {}
      /\ Lined => Lined' /\ (x \in {"head", "long"} => Heads' = {})
      /\ Heads = {} => Heads' = {}
      /\ Lined /\ Heads = {} /\ x = "zlp" => Bodies' = {}
      /\ Cardinality(Bodies') = IF x = "body" THEN Cardinality(Bodies) - 1
                                              ELSE Cardinality(Bodies)
  BY <1>1, <1>2, Taking
<1>4. WireOK'
  <2> DEFINE t == wire'.pipe
  <2>1. wire' = [wire EXCEPT !.pipe = t] BY <1>2 DEF Taken
  <2> HIDE DEF t
  <2>2. t \in Seq(Packets) BY <1>3 DEF t
  <2> QED BY <1>1, <2>1, <2>2 DEF WireOK
<1>5. \A p \in Kinds : ~In(p)' BY <1>3 DEF In, Commands
<1> QED BY <1>1, <1>2, <1>3, <1>4, <1>5

\* A step of the receive loop that keeps the link, the file and the ring.
LEMMA LoopStep ==
  ASSUME IInv, Receiving, RespOK', resp'.pc \in {"prime", "write", "reap", "close"},
         resp'.pend = resp.pend, ~resp'.stopping, InSync',
         resp'.pc = "reap" => resp'.recv.n > 0,
         \/ wire' = wire
         \/ \E x : First(x) /\ wire' = Taken,
         UNCHANGED <<life, ui, ext, del, ring, cards, disk, past>>
  PROVE  IInv' /\ CardsStay
<1>1. /\ WireOK' /\ wire'.link = wire.link /\ wire'.dropped = wire.dropped
      /\ wire'.await = wire.await /\ wire'.told = wire.told
      /\ Commands' = {} /\ Single' /\ \A p \in Kinds : ~In(p)'
      /\ wire'.link = "down" => wire'.pipe = <<>>
  <2>1. CASE wire' = wire
    <3>1. WireOK' BY <2>1, SameTypes
    <3>2. Commands' = {} /\ Single' BY <2>1, SamePipe DEF IInv, Commanded
    <3>3. \A p \in Kinds : ~In(p)' BY <3>2 DEF In, Commands
    <3> QED BY <2>1, <3>1, <3>2, <3>3 DEF IInv, Commanded
  <2>2. CASE \E x : First(x) /\ wire' = Taken BY <2>2, Reading
  <2> QED BY <2>1, <2>2
<1>2. Types' BY <1>1, SameTypes DEF Types
<1>3. resp.pc \notin {"none", "poll", "exit"} BY DEF Receiving
<1>4. Threads' BY <1>1, <1>3 DEF IInv, Threads, Off
<1>5. Receiving' /\ ~Quiet' BY DEF Receiving, Quiet
<1>6. Commanded' BY <1>1, <1>5 DEF IInv, Commanded, Kinds
<1>7. Placed' /\ Whole' BY StillReceiving
<1> QED BY <1>2, <1>4, <1>6, <1>7, SameRows, SameCards DEF IInv

LEMMA RPrimeStep == ASSUME IInv, RPrime PROVE IInv' /\ CardsStay
<1>1. /\ resp.pc = "prime" /\ wire' = Taken /\ Receiving
      /\ UNCHANGED <<life, ui, ext, del, ring, cards, disk, past, spent>>
  BY DEF RPrime, Receiving
<1>2. ~resp.stopping BY <1>1 DEF IInv, Commanded
<1>3. CASE First("zlp") /\ UNCHANGED resp
  <2>1. RespOK' /\ resp'.pc = "prime" BY <1>1, <1>3, SameTypes
  <2>2. InSync' BY <1>1, <1>3, Reading DEF IInv, InSync, InStep
  <2> QED BY <1>1, <1>2, <1>3, <2>1, <2>2, LoopStep
<1>4. CASE ~(First("zlp") /\ UNCHANGED resp)
  <2>0. Cardinality(Bodies) \in Nat BY PipeFacts DEF IInv, Types
  <2>1. PICK x \in {"head", "long"}, n \in {Cardinality(Bodies), Cardinality(Bodies) + 1} :
          First(x) /\ resp' = [resp EXCEPT !.pc = "write", !.recv.n = n]
    <3>1. CASE First("head") /\ resp' = [resp EXCEPT !.pc = "write", !.recv.n = Cardinality(Bodies) + 0]
      <4>1. Cardinality(Bodies) + 0 = Cardinality(Bodies) BY <2>0
      <4> QED BY <3>1, <4>1, Zenon
    <3>2. CASE First("long") /\ resp' = [resp EXCEPT !.pc = "write", !.recv.n = Cardinality(Bodies) + 1]
      BY <3>2, Zenon
    <3>3. First("long") => ~First("head") BY DEF First
    <3> QED BY <1>4, <3>1, <3>2, <3>3 DEF RPrime
  <2>3. /\ RespOK' /\ resp'.pc = "write" /\ resp'.pend = resp.pend /\ ~resp'.stopping
        /\ resp'.recv.n = n
    <3> DEFINE c == [resp.recv EXCEPT !.n = n]
    <3>1. c \in [n : Nat, cancelled : BOOLEAN, wfail : BOOLEAN] /\ c.n = n
      BY <2>0, <2>1 DEF IInv, Types, RespOK
    <3>2. resp' = [resp EXCEPT !.pc = "write", !.recv = c] BY <2>1
    <3> HIDE DEF c
    <3> QED BY <1>2, <3>1, <3>2 DEF IInv, Types, RespOK
  <2>4. /\ Cardinality(Bodies') = Cardinality(Bodies)
        /\ Lined => Lined' /\ Heads' = {}
    BY <1>1, <2>1, Reading
  <2>5. InSync' BY <1>1, <2>0, <2>3, <2>4 DEF IInv, InSync, InStep
  <2> QED BY <1>1, <2>1, <2>3, <2>5, LoopStep
<1> QED BY <1>3, <1>4

\* A write that fails, or a cancel, changes nothing of the reading.
LEMMA RWriteStep == ASSUME IInv, RWrite PROVE IInv' /\ CardsStay
<1> DEFINE next == IF resp.recv.n > 0 THEN "reap" ELSE "close"
<1>1. /\ resp.pc = "write" /\ Receiving
      /\ UNCHANGED <<wire, life, ui, ext, del, ring, cards, disk, past>>
  BY DEF RWrite, Receiving
<1>2. ~resp.stopping /\ resp.recv \in [n : Nat, cancelled : BOOLEAN, wfail : BOOLEAN]
      /\ ring.cancel \in BOOLEAN
  BY <1>1 DEF IInv, Commanded, Types, RespOK, RingOK
<1>3. PICK c \in BOOLEAN, w \in BOOLEAN :
        resp' = [resp EXCEPT !.pc = next, !.recv = [resp.recv EXCEPT !.cancelled = c, !.wfail = w]]
  <2> DEFINE quit == resp.recv.cancelled \/ ring.cancel
  <2>1. quit \in BOOLEAN OBVIOUS
  <2>2. CASE resp' = [resp EXCEPT !.pc = next, !.recv.cancelled = quit]
    <3>1. resp' = [resp EXCEPT !.pc = next,
                     !.recv = [resp.recv EXCEPT !.cancelled = quit, !.wfail = resp.recv.wfail]]
      BY <1>2, <2>2 DEF IInv, Types, RespOK
    <3> QED BY <1>2, <2>1, <3>1
  <2>3. CASE resp' = [resp EXCEPT !.pc = next, !.recv.wfail = TRUE]
    <3>1. resp' = [resp EXCEPT !.pc = next,
                     !.recv = [resp.recv EXCEPT !.cancelled = resp.recv.cancelled, !.wfail = TRUE]]
      BY <1>2, <2>3 DEF IInv, Types, RespOK
    <3> QED BY <1>2, <3>1
  <2> QED BY <2>2, <2>3 DEF RWrite
<1>4. [resp.recv EXCEPT !.cancelled = c, !.wfail = w] \in [n : Nat, cancelled : BOOLEAN,
        wfail : BOOLEAN] /\ [resp.recv EXCEPT !.cancelled = c, !.wfail = w].n = resp.recv.n
  BY <1>2
<1>5. /\ RespOK' /\ resp'.pc = next /\ resp'.pend = resp.pend /\ ~resp'.stopping
      /\ resp'.recv.n = resp.recv.n
  BY <1>2, <1>3, <1>4 DEF IInv, Types, RespOK
<1>6. InSync'
  <2>1. Bodies' = Bodies /\ Heads' = Heads /\ (Lined' <=> Lined) BY <1>1, SamePipe
  <2>2. /\ Cardinality(Bodies) \in Nat /\ resp.recv.n \in Nat
        /\ Cardinality(Bodies) = 0 <=> Bodies = {}
    BY <1>2, PipeFacts DEF IInv, Types
  <2>3. InStep => InStep' BY <1>1, <1>2, <1>5, <2>1, <2>2 DEF InStep
  <2> QED BY <1>1, <2>3 DEF IInv, InSync
<1>7. next = "reap" => resp.recv.n > 0 OBVIOUS
<1> QED BY <1>1, <1>5, <1>6, <1>7, LoopStep

LEMMA RReapStep == ASSUME IInv, RReap PROVE IInv' /\ CardsStay
<1>1. /\ resp.pc = "reap" /\ wire' = Taken /\ Receiving /\ First("body")
      /\ UNCHANGED <<life, ui, ext, del, ring, cards, disk, past, spent>>
  BY DEF RReap, Receiving
<1>2. ~resp.stopping BY <1>1 DEF IInv, Commanded
<1>3. /\ Cardinality(Bodies') = Cardinality(Bodies) - 1 /\ (Lined => Lined')
      /\ Heads = {} => Heads' = {}
  BY <1>1, Reading
<1>4. resp'.pc = "write" /\ resp'.pend = resp.pend /\ ~resp'.stopping
      /\ resp'.recv.n = resp.recv.n - 1
  BY <1>2 DEF RReap, IInv, Types, RespOK
<1>5. RespOK'
  <2> DEFINE r == [resp.recv EXCEPT !.n = @ - 1]
  <2>1. resp.recv.n > 0 BY <1>1 DEF IInv, Commanded
  <2>2. r \in [n : Nat, cancelled : BOOLEAN, wfail : BOOLEAN] BY <2>1 DEF IInv, Types, RespOK
  <2>3. resp' = [resp EXCEPT !.pc = "write", !.recv = r] BY DEF RReap, IInv, Types, RespOK
  <2> HIDE DEF r
  <2> QED BY <2>2, <2>3 DEF IInv, Types, RespOK
<1>6. InSync'
  <2>1. Cardinality(Bodies) \in Nat /\ resp.recv.n \in Nat BY PipeFacts DEF IInv, Types, RespOK
  <2> QED BY <1>1, <1>3, <1>4, <2>1 DEF IInv, InSync, InStep
<1> QED BY <1>1, <1>4, <1>5, <1>6, LoopStep

LEMMA REarlyEndStep == ASSUME IInv, REarlyEnd PROVE IInv' /\ CardsStay
<1>1. /\ resp.pc = "reap" /\ wire' = Taken /\ Receiving /\ First("zlp")
      /\ UNCHANGED <<life, ui, ext, del, ring, cards, disk, past, spent>>
  BY DEF REarlyEnd, Receiving
<1>2. /\ ~resp.stopping /\ resp.recv \in [n : Nat, cancelled : BOOLEAN, wfail : BOOLEAN]
      /\ ring.cancel \in BOOLEAN
  BY <1>1 DEF IInv, Commanded, Types, RespOK, RingOK
<1>3. /\ RespOK' /\ resp'.pc = "close" /\ resp'.pend = resp.pend /\ ~resp'.stopping
  <2> DEFINE c == [resp.recv EXCEPT !.cancelled = @ \/ ring.cancel]
  <2>1. (resp.recv.cancelled \/ ring.cancel) \in BOOLEAN OBVIOUS
  <2>2. c \in [n : Nat, cancelled : BOOLEAN, wfail : BOOLEAN] BY ZenonT(30), <1>2, <2>1
  <2>3. resp' = [resp EXCEPT !.pc = "close", !.recv = c] BY DEF REarlyEnd
  <2> HIDE DEF c
  <2> QED BY <1>2, <2>2, <2>3 DEF IInv, Types, RespOK
<1>4. InSync'
  <2>1. /\ Lined => Lined'
        /\ Heads = {} => Heads' = {}
        /\ Lined /\ Heads = {} => Bodies' = {}
    BY <1>1, Reading
  <2> QED BY <1>1, <1>3, <2>1 DEF IInv, InSync, InStep
<1> QED BY <1>1, <1>3, <1>4, LoopStep

LEMMA RBreakStep == ASSUME IInv, RBreak PROVE IInv' /\ CardsStay
<1>1. /\ resp.pc \in {"prime", "reap"} /\ Receiving /\ Cut
      /\ UNCHANGED <<wire, life, ui, ext, del, ring, cards, disk, past, spent>>
  BY DEF RBreak, Receiving
<1>2. RespOK' /\ resp'.pc = "drop" /\ resp'.pend = resp.pend /\ resp'.stopping
  BY DEF RBreak, IInv, Types, RespOK
<1>3. Types' BY <1>1, <1>2, SameTypes DEF Types
<1>4. Threads' BY <1>1, <1>2 DEF IInv, Threads, Off
<1>5. /\ Commands' = Commands /\ (Single' <=> Single) /\ (Lined' <=> Lined)
      /\ \A p : In(p)' <=> In(p)
  BY <1>1, SamePipe
<1>6. Receiving' /\ ~Quiet' BY <1>2 DEF Receiving, Quiet
<1>7. life.stopping \/ wire.dropped BY <1>1 DEF Cut, IInv, Threads
<1>8. ~In("send") BY <1>1 DEF IInv, Commanded, Quiet
<1>9. Commanded' BY <1>1, <1>2, <1>5, <1>6, <1>7, <1>8 DEF IInv, Commanded
<1>10. InSync' BY <1>1, <1>2, <1>5 DEF IInv, InSync, InStep
<1>11. Placed' /\ Whole' BY <1>1, <1>2, StillReceiving
<1> QED BY <1>1, <1>3, <1>4, <1>9, <1>10, <1>11, SameRows, SameCards DEF IInv

\* An incomplete file goes: nothing anybody counts on was in its place.
LEMMA RFailStep == ASSUME IInv, RFail PROVE IInv' /\ CardsStay
<1> DEFINE x == IF resp.stopping THEN "poll" ELSE "cmd"
<1>1. /\ resp.pc \in {"drop", "close"} /\ Receiving /\ disk' = [disk EXCEPT ![Path] = 0]
      /\ XferEnd(FALSE) /\ resp' = Resp(x)
      /\ wire' = [wire EXCEPT !.await = FALSE, !.dropped = @ /\ ~resp.stopping]
      /\ UNCHANGED <<life, ui, ext, del, cards, past, spent>>
  BY DEF RFail, Receiving
<1>2. /\ RespOK' /\ resp'.pc = x /\ resp'.pend = NoPending /\ ~resp'.stopping
      /\ resp'.pend.file \notin Files
  BY <1>1, NewResp DEF RespPcs
<1>3. /\ WireOK' /\ wire'.pipe = wire.pipe /\ wire'.link = wire.link /\ ~wire'.await
      /\ wire'.told = wire.told
      /\ wire'.dropped => wire.dropped
  BY <1>1 DEF IInv, Types, WireOK, RespOK
<1>4. RingOK' /\ UnzipIsInHand' /\ ring'.seq = ring.seq BY <1>1, Ending
<1>5. /\ Path \in Files /\ disk[Path] = -resp.pend.id /\ resp.pend.id \in Ids
      /\ resp.pend.id \notin past.acked
  BY <1>1 DEF IInv, Commanded, Placed, Whole, Path
<1>6. /\ DiskOK' /\ disk'[Path] = 0 /\ \A f \in Files \ {Path} : disk'[f] = disk[f]
      /\ past.acked \subseteq Ids
  BY <1>1, <1>5, MtpAssumption DEF IInv, Types, DiskOK, Pasts, Whose
<1>7. Types' BY <1>1, <1>2, <1>3, <1>4, <1>6, SameTypes DEF Types
<1>8. Threads' BY <1>1, <1>2, <1>3 DEF IInv, Threads, Off
<1>9. /\ Commands' = Commands /\ Bodies' = Bodies /\ Heads' = Heads
      /\ (Single' <=> Single) /\ (Lined' <=> Lined) /\ (Behind' <=> Behind)
      /\ \A p : In(p)' <=> In(p)
  BY <1>3, SamePipe
<1>10. Commands = {} /\ \A p \in Kinds : ~In(p)
  BY <1>1 DEF IInv, Commanded, Commands, In
<1>11. ~Receiving' BY <1>2 DEF Receiving
<1>12. Commanded' BY <1>2, <1>3, <1>9, <1>10, <1>11 DEF IInv, Commanded, Kinds
<1>13. resp.pc = "drop" => life.stopping \/ Bodies \cup Heads = {}
  BY DEF IInv, Commanded, Bodies, Heads
<1>14. InSync'
  <2>1. resp.pc = "drop" <=> resp.stopping BY DEF IInv, Commanded
  <2>2. Bodies \cup Heads = {} => Behind BY DEF Behind
  <2> QED BY <1>1, <1>2, <1>9, <1>13, <2>1, <2>2 DEF IInv, InSync, InStep
<1>15. Placed'
  <2>1. \A f : DeletePending(f)' <=> DeletePending(f) BY <1>1 DEF DeletePending
  <2>2. GameOnDisk'
    <3>1. \A id \in past.acked, f \in Files : \A v \in {id, -id} : disk[f] = v => disk'[f] = v
      BY <1>5, <1>6 DEF Ids
    <3> QED BY <1>1, <3>1 DEF IInv, Placed, GameOnDisk, Kept, Stored
  <2>3. \A f \in Files : Of(f)' = Of(f) \/ Of(f)' = 0 BY <1>6 DEF Of
  <2>4. \A f \in Files : DeletePending(f)' => Of(f)' \in Spent'
    BY <1>1, <2>1, <2>3 DEF IInv, Placed, Spent
  <2>5. ext.pc = "job" => \/ disk'[ext.job.file] \in {0, ext.job.got}
                         \/ Of(ext.job.file)' \in past.early
    <3> SUFFICES ASSUME ext.pc = "job", disk'[ext.job.file] # 0
                 PROVE  \/ disk'[ext.job.file] = ext.job.got
                        \/ Of(ext.job.file)' \in past.early
      OBVIOUS
    <3>1. ext.job.file \in Files /\ disk'[ext.job.file] = disk[ext.job.file]
      BY <1>6 DEF IInv, Threads
    <3>2. Of(ext.job.file)' = Of(ext.job.file) BY <1>1, <3>1 DEF Of
    <3> QED BY <3>1, <3>2 DEF IInv, Placed
  <2> QED BY <1>1, <1>11, <2>2, <2>4, <2>5 DEF Placed
<1>16. Whole'
  <2>1. \A f \in Files : disk'[f] > 0 => disk'[f] = disk[f] BY <1>6
  <2> QED BY <1>1, <1>2, <1>4, <2>1 DEF IInv, Whole, Entire
<1> QED BY <1>1, <1>4, <1>7, <1>8, <1>12, <1>14, <1>15, <1>16, SameCards DEF IInv

LEMMA Appending ==
  ASSUME NEW S, NEW q \in Seq(S), NEW x \in S
  PROVE  /\ Append(q, x) \in Seq(S) /\ Append(q, x) # <<>>
         /\ Len(q) + 1 \in DOMAIN Append(q, x) /\ Append(q, x)[Len(q) + 1] = x
         /\ \A i \in DOMAIN q : i \in DOMAIN Append(q, x) /\ Append(q, x)[i] = q[i]
OBVIOUS

\* A whole file arrives, where nothing is about to be removed but what came too early.
LEMMA RAckStep == ASSUME IInv, RAck PROVE IInv' /\ CardsStay
<1>0. PICK id : id = resp.pend.id OBVIOUS
<1>1. /\ resp.pc = "close" /\ Receiving
      /\ wire' = [wire EXCEPT !.await = FALSE] /\ resp' = Resp("cmd")
      /\ UNCHANGED <<life, ui, del, cards>>
  BY DEF RAck, Receiving
<1>2. /\ RespOK' /\ resp'.pc = "cmd" /\ resp'.pend = NoPending /\ ~resp'.stopping
      /\ resp'.pend.file \notin Files
  BY <1>1, NewResp DEF RespPcs
<1>3. /\ WireOK' /\ wire'.pipe = wire.pipe /\ wire'.link = wire.link /\ ~wire'.await
      /\ wire'.told = wire.told /\ wire'.dropped = wire.dropped
  BY <1>1 DEF IInv, Types, WireOK
<1>4. /\ Path = resp.pend.file /\ Path \in Files /\ disk[Path] = -id /\ id \in Ids
      /\ ring.cur = id /\ (JobPending(Path) => id \in past.early)
      /\ id \in (1..ring.seq) \ past.acked
  BY <1>0, <1>1 DEF IInv, Commanded, Placed, Whole, Path
<1>5. /\ DiskOK' /\ \A f \in Files \ {Path} : disk'[f] = disk[f]
      /\ past'.acked = past.acked \cup {id} /\ past'.over = past.over
      /\ past'.unpacked = past.unpacked /\ past'.early = past.early /\ past'.torn = past.torn
      /\ past.acked \subseteq Ids
      /\ \/ disk'[Path] = id /\ past'.cut = past.cut
         \/ disk'[Path] = -id /\ past'.cut = past.cut \cup {id}
  <2>1. PICK v \in {id, -id}, c \in {past.cut, past.cut \cup {id}} :
          /\ disk' = [disk EXCEPT ![Path] = v]
          /\ past' = [past EXCEPT !.acked = @ \cup {id}, !.cut = c]
          /\ (v = id /\ c = past.cut) \/ (v = -id /\ c = past.cut \cup {id})
    <3>1. CASE /\ disk' = [disk EXCEPT ![Path] = id]
               /\ past' = [past EXCEPT !.acked = @ \cup {id}]
      <4>1. past' = [past EXCEPT !.acked = @ \cup {id}, !.cut = past.cut]
        BY <3>1 DEF IInv, Types, DiskOK, Pasts
      <4> QED BY <3>1, <4>1, Zenon
    <3>2. CASE /\ disk' = [disk EXCEPT ![Path] = -id]
               /\ past' = [past EXCEPT !.acked = @ \cup {id}, !.cut = @ \cup {id}]
      BY <3>2, Zenon
    <3> QED BY <1>0, <3>1, <3>2 DEF RAck
  <2> DEFINE a == past.acked \cup {id}
  <2>2. a \in SUBSET Ids /\ c \in SUBSET Ids /\ v \in Whose
    BY <1>4, MtpAssumption DEF IInv, Types, DiskOK, Pasts, Whose, Ids
  <2>3. past' = [past EXCEPT !.acked = a, !.cut = c] BY <2>1
  <2> HIDE DEF a
  <2>4. /\ past' \in Pasts /\ past'.acked = a /\ past'.cut = c /\ past'.over = past.over
        /\ past'.unpacked = past.unpacked /\ past'.early = past.early /\ past'.torn = past.torn
    BY <2>2, <2>3 DEF IInv, Types, DiskOK, Pasts
  <2>5. disk' \in [Files -> Whose] /\ disk'[Path] = v /\ \A f \in Files \ {Path} : disk'[f] = disk[f]
    BY <1>4, <2>1, <2>2 DEF IInv, Types, DiskOK
  <2> QED BY <2>1, <2>4, <2>5 DEF IInv, Types, DiskOK, Pasts, a
<1>6. /\ RingOK' /\ UnzipIsInHand' /\ ring'.seq = ring.seq
      /\ WorkOK' /\ ext'.pc = ext.pc /\ ext'.job = ext.job /\ (ext.q # <<>> => ext'.q # <<>>)
  <2>1. CASE Path \in Archives
    <3> DEFINE rows == SetRow(ring.rows, ring.cur, "unzip")
               q == Append(ext.q, resp.pend)
    <3>1. /\ ring' = [ring EXCEPT !.rows = rows, !.cur = None, !.cancel = FALSE]
          /\ ext' = [ext EXCEPT !.q = q]
      BY <2>1 DEF RAck
    <3>2. RingOK /\ ext.q \in Seq(Job) /\ resp.pend \in Job
      BY <1>0, <1>4 DEF IInv, Types, WorkOK, RespOK, Job
    <3>3. /\ q \in Seq(Job) /\ q # <<>> /\ Len(ext.q) + 1 \in DOMAIN q
          /\ q[Len(ext.q) + 1] = resp.pend
          /\ \A i \in DOMAIN ext.q : i \in DOMAIN q /\ q[i] = ext.q[i]
      BY <3>2, Appending
    <3>4. /\ rows \in Seq(Row) /\ Len(rows) <= XferMax /\ DOMAIN rows = DOMAIN ring.rows
          /\ \A i \in DOMAIN ring.rows :
               /\ rows[i].id = ring.rows[i].id
               /\ rows[i].st = IF ring.rows[i].id = ring.cur THEN "unzip" ELSE ring.rows[i].st
      BY <3>2, RowSet
    <3> HIDE DEF rows, q
    <3>5. RingOK' /\ ring'.rows = rows /\ ring'.seq = ring.seq BY <3>1, <3>2, <3>4 DEF RingOK
    <3>6. WorkOK' /\ ext'.pc = ext.pc /\ ext'.job = ext.job /\ ext'.q = q
      BY <1>1, <3>1, <3>3 DEF IInv, Types, WorkOK
    <3>7. UnzipIsInHand'
      <4> SUFFICES ASSUME NEW i \in DOMAIN rows, rows[i].st = "unzip"
                   PROVE  ext.job.id = rows[i].id \/ \E j \in DOMAIN q : q[j].id = rows[i].id
        BY <3>5, <3>6 DEF UnzipIsInHand, InHand
      <4>1. CASE ring.rows[i].id = ring.cur
        <5>1. q[Len(ext.q) + 1].id = rows[i].id BY <1>0, <1>4, <3>3, <3>4, <4>1
        <5> QED BY <3>3, <5>1
      <4>2. CASE ring.rows[i].id # ring.cur
        <5>1. InHand(ring.rows[i].id) BY <3>4, <4>2 DEF IInv, UnzipIsInHand
        <5> QED BY <3>3, <3>4, <5>1 DEF InHand
      <4> QED BY <4>1, <4>2
    <3> QED BY <3>3, <3>5, <3>6, <3>7
  <2>2. CASE Path \notin Archives
    <3>1. XferEnd(TRUE) /\ ext' = ext BY <2>2 DEF RAck
    <3> QED BY <1>1, <3>1, Ending, SameTypes
  <2> QED BY <2>1, <2>2
<1>7. Types' BY <1>1, <1>2, <1>3, <1>5, <1>6, SameTypes DEF Types
<1>8. Threads' BY <1>1, <1>2, <1>3, <1>6 DEF IInv, Threads, Off
<1>9. /\ Commands' = Commands /\ Bodies' = Bodies /\ Heads' = Heads
      /\ (Single' <=> Single) /\ (Lined' <=> Lined) /\ (Behind' <=> Behind)
      /\ \A p : In(p)' <=> In(p)
  BY <1>3, SamePipe
<1>10. Commands = {} /\ \A p \in Kinds : ~In(p)
  BY <1>1 DEF IInv, Commanded, Commands, In
<1>11. ~Receiving' /\ ~Quiet' BY <1>2 DEF Receiving, Quiet
<1>12. Commanded' BY <1>2, <1>3, <1>9, <1>10, <1>11 DEF IInv, Commanded, Kinds
<1>13. InSync'
  <2>1. Bodies \cup Heads = {} => Behind BY DEF Behind
  <2> QED BY <1>1, <1>2, <1>5, <1>9, <2>1 DEF IInv, InSync, InStep
<1>14. \A f \in Files : Of(f)' = IF f = Path THEN id ELSE Of(f) BY <1>4, <1>5 DEF Of, Ids
<1>15. Placed'
  <2>1. \A f : DeletePending(f)' <=> DeletePending(f) BY <1>1 DEF DeletePending
  <2>2. DeletePending(Path) \/ ext.job.file = Path => id \in past.early
    BY <1>4 DEF JobPending
  <2>3. GameOnDisk'
    <3>1. \A i \in past.acked, f \in Files : \A v \in {i, -i} : disk[f] = v => disk'[f] = v
      BY <1>4, <1>5 DEF Ids
    <3>2. \A i \in past.acked : Kept(i)' \/ i \in past'.early
      BY <1>5, <3>1 DEF IInv, Placed, GameOnDisk, Kept, Stored
    <3>3. Kept(id)' BY <1>4, <1>5 DEF Kept, Stored
    <3>4. id \notin past'.unpacked BY <1>4, <1>5 DEF IInv, Whole, Entire
    <3>5. (past.cut \cap past.unpacked) = {} BY DEF IInv, Placed, GameOnDisk
    <3> QED BY <1>5, <3>2, <3>3, <3>4, <3>5 DEF GameOnDisk
  <2>4. \A f \in Files : DeletePending(f)' => Of(f)' \in Spent'
    BY <1>5, <1>14, <2>1, <2>2 DEF IInv, Placed, Spent
  <2>5. ext.pc = "job" => \/ disk'[ext.job.file] \in {0, ext.job.got}
                         \/ Of(ext.job.file)' \in past.early
    <3> SUFFICES ASSUME ext.pc = "job"
                 PROVE  \/ disk'[ext.job.file] \in {0, ext.job.got}
                        \/ Of(ext.job.file)' \in past.early
      OBVIOUS
    <3>1. ext.job.file \in Files /\ ext'.job.file = ext.job.file BY <1>6 DEF IInv, Threads
    <3>2. Of(ext.job.file)' = IF ext.job.file = Path THEN id ELSE Of(ext.job.file)
      BY <1>6, <1>14, <3>1 DEF Of
    <3> QED BY <1>5, <2>2, <3>1, <3>2 DEF IInv, Placed
  <2> QED BY <1>5, <1>6, <1>11, <2>3, <2>4, <2>5 DEF Placed
<1>16. Whole'
  <2>1. past.acked \cup {id} \subseteq 1..ring.seq BY <1>4 DEF IInv, Whole
  <2>2. Entire \subseteq Entire' BY <1>4, <1>5 DEF Entire
  <2>3. \A f \in Files : disk'[f] > 0 => disk'[f] \in Entire'
    <3>1. disk'[Path] > 0 => disk'[Path] \in Entire'
      <4>1. id \notin past.cut BY <1>4 DEF IInv, Whole
      <4> QED BY <1>4, <1>5, <4>1 DEF Ids, Entire
    <3> QED BY <1>5, <2>2, <3>1 DEF IInv, Whole
  <2> QED BY <1>2, <1>5, <1>6, <2>1, <2>2, <2>3 DEF IInv, Whole
<1> QED BY <1>1, <1>6, <1>7, <1>8, <1>12, <1>13, <1>15, <1>16, SameCards DEF IInv

LEMMA ResponderStep == ASSUME IInv, Responder PROVE IInv' /\ CardsStay
BY RPollStep, RLeaveStep, RSkipStep, RInfoStep, RDeleteStep, ROpenStep, RNoOpenStep, RPrimeStep,
   RWriteStep, RReapStep, REarlyEndStep, RBreakStep, RFailStep, RAckStep DEF Responder

-----------------------------------------------------------------------------
(* The workers. *)

\* The first element is taken.
LEMMA Popping ==
  ASSUME NEW S, NEW q \in Seq(S), q # <<>>
  PROVE  /\ Head(q) \in S /\ Head(q) = q[1] /\ 1 \in DOMAIN q /\ Tail(q) \in Seq(S)
         /\ \A i \in DOMAIN Tail(q) : i + 1 \in DOMAIN q /\ Tail(q)[i] = q[i + 1]
         /\ \A i \in DOMAIN q : i # 1 => i - 1 \in DOMAIN Tail(q) /\ Tail(q)[i - 1] = q[i]
<1> DEFINE t == Tail(q)
<1>1. /\ Len(q) \in Nat \ {0} /\ DOMAIN q = 1..Len(q) /\ t \in Seq(S)
      /\ DOMAIN t = 1..(Len(q) - 1) /\ \A i \in 1..(Len(q) - 1) : t[i] = q[i + 1]
      /\ Head(q) = q[1] /\ \A i \in 1..Len(q) : q[i] \in S
  OBVIOUS
<1> HIDE DEF t
<1>2. \A i \in DOMAIN t : i + 1 \in DOMAIN q /\ t[i] = q[i + 1] BY <1>1
<1>3. ASSUME NEW i \in DOMAIN q, i # 1 PROVE i - 1 \in DOMAIN t /\ t[i - 1] = q[i]
  <2>1. i - 1 \in 1..(Len(q) - 1) /\ (i - 1) + 1 = i BY <1>1, <1>3
  <2> QED BY <1>1, <2>1
<1> QED BY <1>1, <1>2, <1>3 DEF t

LEMMA RestFacts ==
  ASSUME NEW w
  PROVE  Rest(w) \in {"wait", "pop", "exit"} /\ (Rest(w) = "pop" => w.q # <<>>)
BY DEF Rest

LEMMA EWaitStep == ASSUME IInv, EWait PROVE IInv' /\ CardsStay
<1> DEFINE pc == Rest(ext)
<1>1. /\ ext.pc = "wait" /\ ext' = [ext EXCEPT !.pc = pc]
      /\ UNCHANGED <<wire, life, ui, resp, del, ring, cards, disk, past, spent>>
  BY DEF EWait, Idle
<1>2. pc \in {"wait", "pop", "exit"} /\ (pc = "pop" => ext.q # <<>>) BY RestFacts
<1> HIDE DEF pc
<1>3. ext'.pc = pc /\ ext'.q = ext.q /\ ext'.job = ext.job /\ WorkOK'
  BY <1>1, <1>2 DEF IInv, Types, WorkOK, Pcs
<1>4. Types' BY <1>1, <1>3, SameTypes DEF Types
<1>5. Threads' BY <1>1, <1>2, <1>3 DEF IInv, Threads, Off
<1>6. \A f : (JobPending(f)' <=> JobPending(f)) /\ (DeletePending(f)' <=> DeletePending(f))
  BY <1>1, <1>3 DEF JobPending, DeletePending
<1>7. Placed' /\ Whole' BY <1>1, <1>2, <1>3, <1>6, SameFiles
<1>8. UnzipIsInHand' BY <1>1, <1>3 DEF IInv, UnzipIsInHand, InHand
<1> QED BY <1>1, <1>4, <1>5, <1>7, <1>8, SameTalk, SameCards DEF IInv

\* A row's id goes from the queue to the job.
LEMMA ETakeStep == ASSUME IInv, ETake PROVE IInv' /\ CardsStay
<1> DEFINE h == Head(ext.q)
           t == Tail(ext.q)
           rows == SetRow(ring.rows, h.id, "unzip")
<1>1. /\ ext.pc = "pop" /\ ring' = [ring EXCEPT !.rows = rows]
      /\ ext' = [ext EXCEPT !.pc = "job", !.q = t,
                            !.job = [file |-> h.file, id |-> h.id, got |-> disk[h.file]]]
      /\ UNCHANGED <<wire, life, ui, resp, del, cards, disk, past, spent>>
  BY DEF ETake
<1>2. ext.q \in Seq(Job) /\ ext.q # <<>> /\ ext.job = NoJob
  BY <1>1 DEF IInv, Types, WorkOK, Threads
<1>3. /\ h \in Job /\ h = ext.q[1] /\ 1 \in DOMAIN ext.q /\ t \in Seq(Job)
      /\ \A i \in DOMAIN t : i + 1 \in DOMAIN ext.q /\ t[i] = ext.q[i + 1]
      /\ \A i \in DOMAIN ext.q : i # 1 => i - 1 \in DOMAIN t /\ t[i - 1] = ext.q[i]
  BY <1>2, Popping
<1>4. RingOK BY DEF IInv, Types
<1>5. /\ rows \in Seq(Row) /\ Len(rows) <= XferMax /\ DOMAIN rows = DOMAIN ring.rows
      /\ \A i \in DOMAIN ring.rows :
           /\ rows[i].id = ring.rows[i].id
           /\ rows[i].st = IF ring.rows[i].id = h.id THEN "unzip" ELSE ring.rows[i].st
  BY <1>4, RowSet
<1> HIDE DEF h, t, rows
<1>6. h.file \in Files /\ h.id \in Ids /\ disk[h.file] \in Whose
  BY <1>3 DEF Job, IInv, Types, DiskOK
<1>7. /\ WorkOK' /\ ext'.pc = "job" /\ ext'.q = t /\ ext'.job.file = h.file
      /\ ext'.job.id = h.id /\ ext'.job.got = disk[h.file]
  BY <1>1, <1>3, <1>6 DEF IInv, Types, WorkOK, Pcs
<1>8. RingOK' /\ ring'.rows = rows /\ ring'.seq = ring.seq /\ ring'.cur = ring.cur
  BY <1>1, <1>4, <1>5 DEF RingOK
<1>9. Types' BY <1>1, <1>7, <1>8, SameTypes DEF Types
<1>10. Threads' BY <1>1, <1>6, <1>7 DEF IInv, Threads, Off
<1>11. \A f : JobPending(f)' => JobPending(f)
  <2> SUFFICES ASSUME NEW f, JobPending(f)' PROVE JobPending(f) OBVIOUS
  <2>1. CASE DeletePending(f)' BY <1>1, <2>1 DEF JobPending, DeletePending
  <2>2. CASE h.file = f BY <1>3, <2>2 DEF JobPending
  <2>3. CASE \E i \in DOMAIN t : t[i].file = f BY <1>3, <2>3 DEF JobPending
  <2> QED BY <1>7, <2>1, <2>2, <2>3 DEF JobPending
<1>12. Placed' /\ Whole'
  <2>1. Receiving' = Receiving /\ Path' = Path BY <1>1 DEF Receiving, Path
  <2>2. GameOnDisk' /\ (\A f : Of(f)' = Of(f))
    BY <1>1 DEF IInv, Placed, GameOnDisk, Kept, Stored, Of
  <2>3. \A f : DeletePending(f)' <=> DeletePending(f) BY <1>1 DEF DeletePending
  <2>4. disk'[ext'.job.file] = ext'.job.got BY <1>1, <1>7
  <2>5. Whole' BY <1>1, <1>6, <1>7, <1>8, <2>4 DEF IInv, Whole, Entire
  <2> QED BY <1>1, <1>11, <2>1, <2>2, <2>3, <2>4, <2>5 DEF IInv, Placed, Spent
<1>13. UnzipIsInHand'
  <2> SUFFICES ASSUME NEW i \in DOMAIN rows, rows[i].st = "unzip"
               PROVE  h.id = rows[i].id \/ \E j \in DOMAIN t : t[j].id = rows[i].id
    BY <1>7, <1>8 DEF UnzipIsInHand, InHand
  <2> SUFFICES ASSUME rows[i].id # h.id PROVE \E j \in DOMAIN t : t[j].id = rows[i].id
    OBVIOUS
  <2>1. InHand(ring.rows[i].id) BY <1>5 DEF IInv, UnzipIsInHand
  <2>2. ext.job.id # ring.rows[i].id
    <3>1. rows[i] \in Row BY <1>5
    <3>2. rows[i].id \in Ids BY <3>1 DEF Row
    <3> QED BY <1>2, <1>5, <3>2 DEF NoJob, Ids
  <2>3. PICK j \in DOMAIN ext.q : ext.q[j].id = rows[i].id BY <1>5, <2>1, <2>2 DEF InHand
  <2> QED BY <1>3, <2>3
<1> QED BY <1>1, <1>8, <1>9, <1>10, <1>12, <1>13, SameTalk, SameCards DEF IInv

\* An archive goes when what it was handed out with has been unpacked, unless
\* another has come in its place.
LEMMA EDoneStep == ASSUME IInv, EDone PROVE IInv' /\ CardsStay
<1> DEFINE pc   == Rest(ext)
           job  == ext.job
           rows == SetRow(ring.rows, job.id, "done")
<1>1. /\ ext.pc = "job" /\ ring' = [ring EXCEPT !.rows = rows]
      /\ ext' = [ext EXCEPT !.pc = pc, !.job = NoJob]
      /\ UNCHANGED <<wire, life, ui, resp, del, cards, spent>>
  BY DEF EDone
<1>2. pc \in {"wait", "pop", "exit"} /\ (pc = "pop" => ext.q # <<>>) BY RestFacts
<1>3. /\ job.file \in Files /\ job.id \in Ids /\ job.got \in Whose
      /\ disk[job.file] \in {0, job.got} \/ Of(job.file) \in past.early
      /\ job.got > 0 => job.got \in Entire
  BY <1>1 DEF IInv, Threads, Types, WorkOK, Placed, Whole
<1>4. RingOK BY DEF IInv, Types
<1>5. /\ rows \in Seq(Row) /\ Len(rows) <= XferMax /\ DOMAIN rows = DOMAIN ring.rows
      /\ \A i \in DOMAIN ring.rows :
           /\ rows[i].id = ring.rows[i].id
           /\ rows[i].st = IF ring.rows[i].id = job.id THEN "done" ELSE ring.rows[i].st
  BY <1>4, RowSet
<1>6. NoJob \in [file : Files \cup {None}, id : Ids \cup {0}, got : Whose]
  BY MtpAssumption DEF NoJob, Whose
<1> HIDE DEF pc, rows, job
<1>7. WorkOK' /\ ext'.pc = pc /\ ext'.q = ext.q /\ ext'.job = NoJob
  BY <1>1, <1>2, <1>6 DEF IInv, Types, WorkOK, Pcs
<1>8. RingOK' /\ ring'.rows = rows /\ ring'.seq = ring.seq /\ ring'.cur = ring.cur
  BY <1>1, <1>4, <1>5 DEF RingOK
<1>9. /\ DiskOK' /\ past'.acked = past.acked /\ past'.over = past.over /\ past'.cut = past.cut
      /\ past'.early = past.early /\ past'.torn = past.torn /\ past.acked \subseteq Ids
      /\ past.unpacked \subseteq past'.unpacked /\ past'.unpacked \subseteq past.unpacked \cup Entire
      /\ \A f \in Files : disk'[f] = disk[f] \/ /\ f = job.file /\ ~Open(f) /\ disk'[f] = 0
                                                /\ job.got > 0 /\ job.got \in past'.unpacked
  <2>1. DiskOK BY DEF IInv, Types
  <2>2. CASE UNCHANGED <<disk, past>> BY <2>1, <2>2 DEF DiskOK, Pasts
  <2>3. CASE /\ job.got > 0 /\ past' = [past EXCEPT !.unpacked = @ \cup {job.got}]
             /\ disk' = IF Open(job.file) THEN disk ELSE [disk EXCEPT ![job.file] = 0]
    <3>1. /\ past' = [past EXCEPT !.unpacked = @ \cup {job.got}]
          /\ disk' = IF Open(job.file) THEN disk ELSE [disk EXCEPT ![job.file] = 0]
      BY <2>3
    <3>2. job.got \in Int /\ job.got \in Entire BY <1>3, <2>3 DEF Whose
    <3>3. disk' \in [Files -> Whose] BY <1>3, <2>1, <3>1, MtpAssumption DEF DiskOK, Whose
    <3> DEFINE u == past.unpacked \cup {job.got}
    <3>4. u \in SUBSET Int /\ job.got \in u /\ past.unpacked \subseteq u
          /\ u \subseteq past.unpacked \cup Entire
      BY <2>1, <3>2 DEF DiskOK, Pasts
    <3>5. past' = [past EXCEPT !.unpacked = u] BY <3>1
    <3> HIDE DEF u
    <3>6. /\ past'.unpacked = u /\ past'.acked = past.acked /\ past'.over = past.over
          /\ past'.early = past.early /\ past'.torn = past.torn /\ past'.cut = past.cut /\ DiskOK'
      BY <2>1, <3>3, <3>4, <3>5 DEF DiskOK, Pasts
    <3>7. \A f \in Files : disk'[f] = disk[f] \/ (f = job.file /\ ~Open(f) /\ disk'[f] = 0)
      BY <1>3, <2>1, <3>1 DEF DiskOK
    <3> QED BY <2>1, <2>3, <3>4, <3>6, <3>7 DEF DiskOK, Pasts
  <2> QED BY <2>2, <2>3 DEF EDone, job
<1>10. Types' BY <1>1, <1>7, <1>8, <1>9, SameTypes DEF Types
<1>11. Threads' BY <1>1, <1>2, <1>7 DEF IInv, Threads, Off
<1>12. Commanded' /\ InSync' BY <1>1, <1>8, <1>9, SameTalk
<1>13. Placed'
  <2>1. Receiving' = Receiving /\ Path' = Path BY <1>1 DEF Receiving, Path
  <2>2. Receiving => Path \in Files /\ disk'[Path] = -resp.pend.id
    BY <1>9 DEF IInv, Commanded, Placed, Path, Open
  <2>3. \A f \in Files : JobPending(f)' => JobPending(f)
    BY <1>1, <1>7, MtpAssumption DEF JobPending, DeletePending, NoJob
  <2>4. \A f : DeletePending(f)' <=> DeletePending(f) BY <1>1 DEF DeletePending
  <2>5. \A f \in Files : DeletePending(f) => Of(f)' \in Spent
    <3>1. \A f \in Files : Of(f)' = Of(f) \/ Of(f)' = 0 BY <1>9 DEF Of
    <3> QED BY <3>1 DEF IInv, Placed, Spent
  <2>6. GameOnDisk'
    <3>1. ASSUME NEW id \in past.acked PROVE Kept(id)' \/ id \in past.early
      <4>1. Kept(id) \/ id \in past.early BY DEF IInv, Placed, GameOnDisk
      <4>2. id \in Ids /\ id # 0 BY <1>9 DEF Ids
      <4>3. ASSUME NEW f \in Files, disk[f] = -id
            PROVE  disk'[f] = -id \/ id \in past.early
        <5> SUFFICES ASSUME disk'[f] # -id PROVE id \in past.early OBVIOUS
        <5>1. f = job.file /\ job.got > 0 BY <1>9, <4>3
        <5>2. Of(f) = id BY <4>2, <4>3, OfFacts DEF IInv, Types
        <5>3. disk[f] \notin {0, job.got} BY <1>3, <4>2, <4>3, <5>1 DEF Ids, Whose
        <5> QED BY <1>3, <5>1, <5>2, <5>3
      <4>4. ASSUME NEW f \in Files, disk[f] = id
            PROVE  disk'[f] = id \/ id \in past'.unpacked \/ id \in past.early
        <5> SUFFICES ASSUME disk'[f] # id PROVE id \in past'.unpacked \/ id \in past.early
          OBVIOUS
        <5>1. f = job.file /\ job.got \in past'.unpacked BY <1>9, <4>4
        <5>2. disk[f] = id /\ Of(f) = id BY <4>2, <4>4, OfFacts DEF IInv, Types
        <5> QED BY <1>3, <4>2, <5>1, <5>2
      <4> QED BY <1>9, <4>1, <4>3, <4>4 DEF Kept, Stored
    <3>2. past'.cut \cap past'.unpacked = {}
      BY <1>9 DEF IInv, Placed, GameOnDisk, Entire
    <3> QED BY <1>9, <3>1, <3>2 DEF GameOnDisk
  <2>7. ext'.pc # "job" BY <1>2, <1>7
  <2> QED BY <1>1, <1>9, <2>1, <2>2, <2>3, <2>4, <2>5, <2>6, <2>7 DEF IInv, Placed, Spent
<1>14. UnzipIsInHand'
  <2> SUFFICES ASSUME NEW i \in DOMAIN rows, rows[i].st = "unzip"
               PROVE  \E j \in DOMAIN ext.q : ext.q[j].id = rows[i].id
    BY <1>7, <1>8 DEF UnzipIsInHand, InHand
  <2>1. rows[i].id # job.id /\ InHand(ring.rows[i].id) BY <1>5 DEF IInv, UnzipIsInHand
  <2> QED BY <1>5, <2>1 DEF InHand, job
<1>15. Whole'
  <2>1. \A f \in Files : disk'[f] > 0 => disk'[f] = disk[f] BY <1>9
  <2>2. ext'.pc # "job" BY <1>2, <1>7
  <2> QED BY <1>1, <1>8, <1>9, <2>1, <2>2 DEF IInv, Whole, Entire
<1> QED BY <1>1, <1>10, <1>11, <1>12, <1>13, <1>14, <1>15, SameCards DEF IInv

LEMMA ExtractStep == ASSUME IInv, Extract PROVE IInv' /\ CardsStay
BY EWaitStep, ETakeStep, EDoneStep DEF Extract

LEMMA DWaitStep == ASSUME IInv, DWait PROVE IInv' /\ CardsStay
<1> DEFINE pc == Rest(del)
<1>1. /\ del.pc = "wait" /\ del' = [del EXCEPT !.pc = pc]
      /\ UNCHANGED <<wire, life, ui, resp, ext, ring, cards, disk, past, spent>>
  BY DEF DWait, Idle
<1>2. pc \in {"wait", "pop", "exit"} /\ (pc = "pop" => del.q # <<>>) BY RestFacts
<1> HIDE DEF pc
<1>3. del'.pc = pc /\ del'.q = del.q /\ del'.cur = del.cur /\ WorkOK'
  BY <1>1, <1>2 DEF IInv, Types, WorkOK, Pcs
<1>4. Types' BY <1>1, <1>3, SameTypes DEF Types
<1>5. Threads' BY <1>1, <1>2, <1>3 DEF IInv, Threads, Off
<1>6. \A f : (JobPending(f)' <=> JobPending(f)) /\ (DeletePending(f)' <=> DeletePending(f))
  BY <1>1, <1>3 DEF JobPending, DeletePending
<1>7. Placed' /\ Whole' BY <1>1, <1>6, SameFiles
<1> QED BY <1>1, <1>4, <1>5, <1>7, SameTalk, SameRows, SameCards DEF IInv

LEMMA DTakeStep == ASSUME IInv, DTake PROVE IInv' /\ CardsStay
<1> DEFINE h == Head(del.q)
           t == Tail(del.q)
<1>1. /\ del.pc = "pop" /\ del' = [del EXCEPT !.pc = "job", !.q = t, !.cur = h]
      /\ UNCHANGED <<wire, life, ui, resp, ext, ring, cards, disk, past, spent>>
  BY DEF DTake
<1>2. del.q \in Seq(Files) /\ del.q # <<>> BY <1>1 DEF IInv, Types, WorkOK, Threads
<1>3. /\ h \in Files /\ h = del.q[1] /\ 1 \in DOMAIN del.q /\ t \in Seq(Files)
      /\ \A i \in DOMAIN t : i + 1 \in DOMAIN del.q /\ t[i] = del.q[i + 1]
  BY <1>2, Popping
<1> HIDE DEF h, t
<1>4. WorkOK' /\ del'.pc = "job" /\ del'.q = t /\ del'.cur = h
  BY <1>1, <1>3 DEF IInv, Types, WorkOK, Pcs
<1>5. Types' BY <1>1, <1>4, SameTypes DEF Types
<1>6. Threads' BY <1>1, <1>3, <1>4 DEF IInv, Threads, Off
<1>7. \A f : DeletePending(f)' => DeletePending(f)
  BY <1>3, <1>4 DEF DeletePending, Range
<1>8. \A f : JobPending(f)' => JobPending(f) BY <1>1, <1>7 DEF JobPending
<1>9. Placed' /\ Whole' BY <1>1, <1>7, <1>8, SameFiles
<1> QED BY <1>1, <1>5, <1>6, <1>9, SameTalk, SameRows, SameCards DEF IInv

\* What is removed is nothing the host counts on.
LEMMA DDoneStep == ASSUME IInv, DDone PROVE IInv' /\ CardsStay
<1> DEFINE pc == Rest(del)
<1>1. /\ del.pc = "job" /\ del' = [del EXCEPT !.pc = pc, !.cur = None]
      /\ disk' = IF Open(del.cur) \/ ext.job.file = del.cur \/ life.stopping THEN disk
                 ELSE [disk EXCEPT ![del.cur] = 0]
      /\ UNCHANGED <<wire, life, ui, resp, ext, ring, cards, past, spent>>
  BY DEF DDone
<1>2. pc \in {"wait", "pop", "exit"} /\ (pc = "pop" => del.q # <<>>) BY RestFacts
<1> HIDE DEF pc
<1>3. WorkOK' /\ del'.pc = pc /\ del'.q = del.q /\ del'.cur = None
  BY <1>1, <1>2 DEF IInv, Types, WorkOK, Pcs
<1>4. del.cur \in Files /\ Of(del.cur) \in Spent
  BY <1>1 DEF IInv, Threads, Placed, DeletePending
<1>5. /\ DiskOK' /\ past.acked \subseteq Ids
      /\ \A f \in Files : disk'[f] = disk[f] \/ (f = del.cur /\ ~Open(f) /\ disk'[f] = 0)
  BY <1>1, <1>4, MtpAssumption DEF IInv, Types, DiskOK, Pasts, Whose
<1>6. Types' BY <1>1, <1>3, <1>5, SameTypes DEF Types
<1>7. Threads' BY <1>1, <1>2, <1>3 DEF IInv, Threads, Off
<1>8. \A f \in Files : /\ DeletePending(f)' => DeletePending(f)
                       /\ JobPending(f)' => JobPending(f)
  BY <1>1, <1>3, MtpAssumption DEF DeletePending, JobPending
<1>9. Placed'
  <2>1. Receiving' = Receiving /\ Path' = Path BY <1>1 DEF Receiving, Path
  <2>2. Receiving => Path \in Files /\ disk'[Path] = -resp.pend.id
    BY <1>5 DEF IInv, Commanded, Placed, Path, Open
  <2>3. \A f \in Files : Of(f)' = Of(f) \/ Of(f)' = 0 BY <1>5 DEF Of
  <2>4. \A f \in Files : DeletePending(f)' => Of(f)' \in Spent
    BY <1>8, <2>3 DEF IInv, Placed, Spent
  <2>5. ext.pc = "job" => \/ disk'[ext.job.file] \in {0, ext.job.got}
                         \/ Of(ext.job.file)' \in past.early
    <3> SUFFICES ASSUME ext.pc = "job", disk'[ext.job.file] # 0
                 PROVE  \/ disk'[ext.job.file] = ext.job.got
                        \/ Of(ext.job.file)' \in past.early
      OBVIOUS
    <3>1. ext.job.file \in Files /\ disk'[ext.job.file] = disk[ext.job.file]
      BY <1>5 DEF IInv, Threads
    <3>2. Of(ext.job.file)' = Of(ext.job.file) BY <1>1, <3>1 DEF Of
    <3> QED BY <3>1, <3>2 DEF IInv, Placed
  <2>6. GameOnDisk'
    <3> SUFFICES ASSUME NEW id \in past.acked PROVE Kept(id)' \/ id \in past.early
      BY <1>1 DEF GameOnDisk, IInv, Placed
    <3>1. Kept(id) \/ id \in past.early BY DEF IInv, Placed, GameOnDisk
    <3>2. id \in Ids /\ id # 0 BY <1>5 DEF Ids
    <3>3. ASSUME NEW f \in Files, NEW v \in {id, -id}, disk[f] = v
          PROVE  disk'[f] = v \/ id \in past.over \/ id \in past.early
      <4>1. Of(f) = id BY <3>2, <3>3, OfFacts DEF IInv, Types
      <4> QED BY <1>4, <1>5, <3>2, <3>3, <4>1 DEF Spent
    <3> QED BY <1>1, <3>1, <3>3 DEF Kept, Stored
  <2> QED BY <1>1, <1>8, <2>1, <2>2, <2>4, <2>5, <2>6 DEF IInv, Placed, Spent
<1>10. Whole'
  <2>1. \A f \in Files : disk'[f] > 0 => disk'[f] = disk[f] BY <1>5
  <2> QED BY <1>1, <2>1 DEF IInv, Whole, Entire
<1> QED BY <1>1, <1>6, <1>7, <1>9, <1>10, SameTalk, SameRows, SameCards DEF IInv

LEMMA DeleteStep == ASSUME IInv, Delete PROVE IInv' /\ CardsStay
BY DWaitStep, DTakeStep, DDoneStep DEF Delete

-----------------------------------------------------------------------------
(* The UI thread. *)

\* A step that touches neither the wire nor the workers: a Stop begins, or the
\* cards change.
LEMMA FrameStep ==
  ASSUME IInv, UNCHANGED <<wire, resp, ext, del, disk, past>>,
         ring'.rows = ring.rows, ring'.seq = ring.seq, ring'.cur = ring.cur,
         life'.stopping \/ life'.stopping = life.stopping,
         LifeOK', RingOK', CardsOK', Threads'
  PROVE  IInv'
<1>1. Types' BY SameTypes DEF Types
<1> QED BY <1>1, SameTalk, SameWork DEF IInv

LEMMA HaltedFacts ==
  ASSUME IInv, Halted
  PROVE  /\ life' \in [up : BOOLEAN, stopping : BOOLEAN, ev : BOOLEAN, bg : BOOLEAN]
         /\ life'.stopping /\ life'.ev /\ life'.up = life.up
BY DEF Halted, IInv, Types, LifeOK

LEMMA StartRStep == ASSUME IInv, StartR PROVE IInv' /\ CardsStay
<1>1. /\ ui = "idle" /\ ~life.up
      /\ ring' = [ring EXCEPT !.rows = <<>>, !.cur = None, !.cancel = FALSE]
      /\ ext' = [ext EXCEPT !.q = <<>>]
      /\ UNCHANGED <<wire, del, cards, disk, past>>
  BY DEF StartR
<1>2. PICK b \in BOOLEAN : life' = [up |-> FALSE, stopping |-> FALSE, ev |-> FALSE, bg |-> b]
  BY DEF StartR
<1>3. /\ resp.pc = "none" /\ wire.link = "down" /\ wire.pipe = <<>> /\ ~wire.await
      /\ resp.pend = NoPending /\ ~resp.stopping
  BY <1>1 DEF IInv, Threads, Commanded, Off, Quiet
<1>4. /\ RespOK' /\ resp'.pend = NoPending /\ ~resp'.stopping
      /\ \/ resp'.pc = "poll" /\ ui' = "startE"
         \/ resp'.pc = "none" /\ ui' = "idle"
  <2>1. CASE resp' = Resp("poll") /\ ui' = "startE" BY <2>1, NewResp DEF RespPcs
  <2>2. CASE UNCHANGED <<resp, ui>> BY <1>1, <1>3, <2>2, SameTypes
  <2> QED BY <2>1, <2>2 DEF StartR
<1>5. LifeOK' BY <1>2, <1>4 DEF LifeOK
<1>6. WorkOK' /\ ext'.pc = ext.pc /\ ext'.job = ext.job
  <2> DEFINE q == <<>>
  <2>1. q \in Seq(Job) OBVIOUS
  <2>2. ext' = [ext EXCEPT !.q = q] BY <1>1
  <2> HIDE DEF q
  <2> QED BY <1>1, <2>1, <2>2 DEF IInv, Types, WorkOK
<1>7. RingOK' /\ ring'.rows = <<>> /\ ring'.seq = ring.seq
  <2> DEFINE q == <<>>
  <2>1. q \in Seq(Row) /\ Len(q) = 0 OBVIOUS
  <2>2. ring' = [ring EXCEPT !.rows = q, !.cur = None, !.cancel = FALSE] BY <1>1
  <2>3. q = <<>> OBVIOUS
  <2> HIDE DEF q
  <2>4. 0 <= XferMax BY MtpAssumption
  <2> QED BY <2>1, <2>2, <2>3, <2>4 DEF IInv, Types, RingOK
<1>8. Types' BY <1>1, <1>4, <1>5, <1>6, <1>7, SameTypes DEF Types
<1>9. ext.pc = "none" /\ del.pc = "none" /\ ext.job = NoJob BY <1>1 DEF IInv, Threads, Off
<1>10. Threads' BY <1>1, <1>2, <1>3, <1>4, <1>6, <1>9 DEF Threads, Off
<1>11. /\ Commands' = {} /\ Bodies' = {} /\ Heads' = {} /\ Single' /\ Lined' /\ Behind'
      /\ \A p : ~In(p)'
  BY <1>1, <1>3, NoPipe
<1>12. ~Receiving' BY <1>4 DEF Receiving
<1>13. NoPending.file \notin Files BY MtpAssumption DEF NoPending
<1>14. Commanded' BY <1>1, <1>3, <1>4, <1>11, <1>12, <1>13 DEF IInv, Commanded
<1>15. InSync' BY <1>4, <1>11 DEF InSync, InStep
<1>16. Placed' /\ Whole' BY <1>1, <1>4, <1>6, <1>7, <1>12, <1>13, NotReceiving
<1>17. UnzipIsInHand' BY <1>7 DEF UnzipIsInHand
<1> QED BY <1>1, <1>8, <1>10, <1>14, <1>15, <1>16, <1>17, SameCards DEF IInv

LEMMA StartEStep == ASSUME IInv, StartE PROVE IInv' /\ CardsStay
<1>1. ui = "startE" /\ UNCHANGED <<wire, resp, del, ring, cards, disk, past>> BY DEF StartE
<1>2. ext.pc = "none" /\ del.pc = "none" /\ ext.job = NoJob BY <1>1 DEF IInv, Threads
<1>3. CASE ext' = [ext EXCEPT !.pc = "wait"] /\ ui' = "startD" /\ UNCHANGED <<life, spent>>
  <2>1. WorkOK' /\ ext'.pc = "wait" /\ ext'.q = ext.q /\ ext'.job = ext.job
    BY <1>1, <1>3 DEF IInv, Types, WorkOK, Pcs
  <2>2. LifeOK' BY <1>3 DEF IInv, Types, LifeOK
  <2>3. Types' BY <1>1, <2>1, <2>2, SameTypes DEF Types
  <2>4. Threads' BY <1>1, <1>2, <1>3, <2>1 DEF IInv, Threads, Off
  <2>5. \A f : (JobPending(f)' <=> JobPending(f)) /\ (DeletePending(f)' <=> DeletePending(f))
    BY <1>1, <2>1 DEF JobPending, DeletePending
  <2>6. Placed' /\ Whole' BY <1>1, <2>1, <2>5, SameFiles
  <2>7. UnzipIsInHand' BY <1>1, <2>1 DEF IInv, UnzipIsInHand, InHand
  <2>8. Commanded' /\ InSync' BY <1>1, <1>3, SameTalk
  <2> QED BY <1>1, <2>3, <2>4, <2>6, <2>7, <2>8, SameCards DEF IInv
<1>4. CASE Halted /\ ui' = "undoR" /\ UNCHANGED ext
  <2>1. /\ life' \in [up : BOOLEAN, stopping : BOOLEAN, ev : BOOLEAN, bg : BOOLEAN]
        /\ life'.stopping /\ life'.ev /\ life'.up = life.up
    BY <1>4, HaltedFacts
  <2>2. LifeOK' BY <1>4, <2>1 DEF LifeOK
  <2>3. Threads' BY <1>1, <1>2, <1>4, <2>1 DEF IInv, Threads, Off
  <2> QED BY <1>1, <1>4, <2>1, <2>2, <2>3, FrameStep, SameTypes, SameCards
<1> QED BY <1>3, <1>4 DEF StartE

LEMMA StartDStep == ASSUME IInv, StartD PROVE IInv' /\ CardsStay
<1>1. ui = "startD" /\ UNCHANGED <<wire, resp, ext, ring, cards, disk, past>> BY DEF StartD
<1>2. del.pc = "none" BY <1>1 DEF IInv, Threads
<1>3. PICK pc \in {"none", "wait"} : del' = [del EXCEPT !.pc = pc, !.q = <<>>]
  <2>1. CASE del' = [del EXCEPT !.pc = "wait", !.q = <<>>] BY <2>1
  <2>2. CASE del' = [del EXCEPT !.q = <<>>]
    <3>1. del' = [del EXCEPT !.pc = "none", !.q = <<>>] BY <1>2, <2>2 DEF IInv, Types, WorkOK
    <3> QED BY <3>1
  <2> QED BY <2>1, <2>2 DEF StartD
<1>4. WorkOK' /\ del'.pc = pc /\ del'.q = <<>> /\ del'.cur = del.cur
  <2> DEFINE q == <<>>
  <2>1. q \in Seq(Files) OBVIOUS
  <2>2. del' = [del EXCEPT !.pc = pc, !.q = q] BY <1>3
  <2>3. q = <<>> OBVIOUS
  <2> HIDE DEF q
  <2> QED BY <1>1, <2>1, <2>2, <2>3 DEF IInv, Types, WorkOK, Pcs
<1>5. \/ life' = [life EXCEPT !.up = TRUE] /\ ui' = "idle"
      \/ Halted /\ ui' = "undoE" /\ pc = "none"
  <2>1. CASE Halted /\ ui' = "undoE" /\ del' = [del EXCEPT !.q = <<>>]
    <3>1. del'.pc = "none" BY <1>2, <2>1 DEF IInv, Types, WorkOK
    <3> QED BY <1>4, <2>1, <3>1
  <2> QED BY <2>1 DEF StartD
<1>6. /\ LifeOK' /\ (life'.stopping \/ life'.stopping = life.stopping)
      /\ life'.ev => life'.stopping
      /\ \/ life'.up /\ ui' = "idle"
         \/ ui' = "undoE" /\ pc = "none"
  <2>1. CASE life' = [life EXCEPT !.up = TRUE] /\ ui' = "idle"
    BY <2>1 DEF IInv, Types, LifeOK, Threads
  <2>2. CASE Halted /\ ui' = "undoE" /\ pc = "none" BY <2>2, HaltedFacts DEF LifeOK
  <2> QED BY <1>5, <2>1, <2>2
<1>7. Types' BY <1>1, <1>4, <1>6, SameTypes DEF Types
<1>8. Threads' BY <1>1, <1>4, <1>6 DEF IInv, Threads, Off
<1>9. \A f : DeletePending(f)' => DeletePending(f) BY <1>4 DEF DeletePending, Range
<1>10. \A f : JobPending(f)' => JobPending(f) BY <1>1, <1>9 DEF JobPending
<1>11. Placed' /\ Whole' BY <1>1, <1>9, <1>10, SameFiles
<1> QED BY <1>1, <1>6, <1>7, <1>8, <1>11, SameTalk, SameRows, SameCards DEF IInv

LEMMA StopStep == ASSUME IInv, Stop \/ TickLost PROVE IInv' /\ CardsStay
<1>1. /\ ui = "idle" /\ life.up /\ Halted /\ ui' = "stopR"
      /\ UNCHANGED <<wire, resp, ext, del, ring, cards, disk, past, spent>>
  BY DEF Stop, TickLost
<1>2. /\ life' \in [up : BOOLEAN, stopping : BOOLEAN, ev : BOOLEAN, bg : BOOLEAN]
      /\ life'.stopping /\ life'.ev /\ life'.up = life.up
  BY <1>1, HaltedFacts
<1>3. LifeOK' BY <1>1, <1>2 DEF LifeOK
<1>4. Threads' BY <1>1, <1>2 DEF IInv, Threads, Off
<1> QED BY <1>1, <1>2, <1>3, <1>4, FrameStep, SameTypes, SameCards

\* The extract worker is gone, what it was given still in its queue.
LEMMA JoinEStep ==
  ASSUME IInv, JoinE("undoE", "undoR") \/ JoinE("stopE", "stopD")
  PROVE  IInv' /\ CardsStay
<1>1. /\ ext.pc = "exit" /\ ext' = [ext EXCEPT !.pc = "none"]
      /\ \/ ui = "undoE" /\ ui' = "undoR"
         \/ ui = "stopE" /\ ui' = "stopD"
      /\ UNCHANGED <<wire, life, resp, del, ring, cards, disk, past, spent>>
  BY DEF JoinE
<1>2. WorkOK' /\ ext'.pc = "none" /\ ext'.q = ext.q /\ ext'.job = ext.job
  BY <1>1 DEF IInv, Types, WorkOK, Pcs
<1>3. LifeOK' BY <1>1 DEF IInv, Types, LifeOK
<1>4. Types' BY <1>1, <1>2, <1>3, SameTypes DEF Types
<1>5. Threads' BY <1>1, <1>2 DEF IInv, Threads, Off
<1>6. \A f : (JobPending(f)' <=> JobPending(f)) /\ (DeletePending(f)' <=> DeletePending(f))
  BY <1>1, <1>2 DEF JobPending, DeletePending
<1>7. Placed' /\ Whole' BY <1>1, <1>2, <1>6, SameFiles
<1>8. UnzipIsInHand' BY <1>1, <1>2 DEF IInv, UnzipIsInHand, InHand
<1> QED BY <1>1, <1>4, <1>5, <1>7, <1>8, SameTalk, SameCards DEF IInv

\* The responder is gone; a start that failed drops the link with it.
LEMMA JoinRStep == ASSUME IInv, UndoR \/ StopR PROVE IInv' /\ CardsStay
<1>1. /\ resp' = Resp("none") /\ resp.pc = "exit"
      /\ UNCHANGED <<life, ext, del, ring, cards, disk, past, spent>>
      /\ \/ ui = "undoR" /\ ui' = "idle" /\ Unplugged
         \/ ui = "stopR" /\ ui' = "stopE" /\ wire' = wire
  BY DEF UndoR, StopR, JoinR
<1>2. /\ RespOK' /\ resp'.pc = "none" /\ resp'.pend = NoPending /\ ~resp'.stopping
      /\ resp'.pend.file \notin Files
  BY <1>1, NewResp DEF RespPcs
<1>3. LifeOK' BY <1>1 DEF IInv, Types, LifeOK
<1>4. /\ WireOK' /\ Single' /\ (Commands' # {} => wire'.await)
      /\ wire'.dropped => wire'.link = "down"
      /\ wire'.link = "down" => wire'.pipe = <<>> /\ ~wire'.await
      /\ In("info")' => wire'.told \in Files /\ ring.seq < MaxIds
      /\ In("delete")' => wire'.told \in Files
      /\ ui' = "idle" => wire'.link = "down"
      /\ past.torn \/ Lined'
  <2>1. CASE ui' = "idle" /\ Unplugged
    <3>1. wire'.pipe = <<>> /\ wire'.link = "down" /\ ~wire'.await /\ ~wire'.dropped
      BY <2>1 DEF Unplugged
    <3>2. WireOK' BY <2>1 DEF Unplugged, WireOK
    <3>3. Commands' = {} /\ Single' /\ Lined' /\ \A p : ~In(p)' BY <3>1, NoPipe
    <3> QED BY <3>1, <3>2, <3>3
  <2>2. CASE ui' = "stopE" /\ wire' = wire
    <3>1. /\ Commands' = Commands /\ (Single' <=> Single) /\ (Lined' <=> Lined)
          /\ \A p : In(p)' <=> In(p)
      BY <2>2, SamePipe
    <3> QED BY <2>2, <3>1, SameTypes DEF IInv, Commanded, InSync, InStep
  <2> QED BY <1>1, <2>1, <2>2
<1>5. Types' BY <1>1, <1>2, <1>3, <1>4, SameTypes DEF Types
<1>6. Threads' BY <1>1, <1>2, <1>4 DEF IInv, Threads, Off
<1>7. ~Receiving' /\ Quiet' BY <1>2 DEF Receiving, Quiet
<1>8. Commanded' BY <1>1, <1>2, <1>4, <1>7 DEF Commanded
<1>9. InSync' BY <1>1, <1>2, <1>4 DEF InSync, InStep
<1>10. Placed' /\ Whole' BY <1>1, <1>2, <1>7, NotReceiving
<1> QED BY <1>1, <1>5, <1>6, <1>8, <1>9, <1>10, SameRows, SameCards DEF IInv

\* The cards still in progress end.
LEMMA EndLiveFacts ==
  ASSUME IInv, DOMAIN cards' = DOMAIN cards, cards'.st = EndLive
  PROVE  CardsOK' /\ CardsStay
BY DEF IInv, Types, CardsOK, CardsStay, EndLive, Live

LEMMA StopDStep == ASSUME IInv, StopD PROVE IInv' /\ CardsStay
<1>1. /\ ui = "stopD" /\ del.pc = "exit" /\ del' = [del EXCEPT !.pc = "none"] /\ ui' = "idle"
      /\ life' = [life EXCEPT !.up = FALSE] /\ Unplugged
      /\ cards' = [cards EXCEPT !.st = EndLive, !.seen = FALSE]
      /\ UNCHANGED <<resp, ext, ring, disk, past, spent>>
  BY DEF StopD
<1>2. DOMAIN cards' = DOMAIN cards /\ cards'.st = EndLive BY <1>1 DEF IInv, Types, CardsOK
<1>3. CardsOK' /\ CardsStay BY <1>2, EndLiveFacts
<1>4. WorkOK' /\ del'.pc = "none" /\ del'.q = del.q /\ del'.cur = del.cur
  BY <1>1 DEF IInv, Types, WorkOK, Pcs
<1>5. LifeOK' /\ life'.stopping = life.stopping /\ life'.ev = life.ev /\ ~life'.up
  BY <1>1 DEF IInv, Types, LifeOK
<1>6. WireOK' /\ wire'.pipe = <<>> /\ wire'.link = "down" /\ ~wire'.await /\ ~wire'.dropped
  BY <1>1 DEF Unplugged, WireOK
<1>7. Types' BY <1>1, <1>3, <1>4, <1>5, <1>6, SameTypes DEF Types
<1>8. resp.pc = "none" /\ ext.pc = "none" BY <1>1 DEF IInv, Threads
<1>9. Threads' BY <1>1, <1>4, <1>5, <1>6, <1>8 DEF IInv, Threads, Off
<1>10. /\ Commands' = {} /\ Bodies' = {} /\ Heads' = {} /\ Single' /\ Lined' /\ Behind'
      /\ \A p : ~In(p)'
  BY <1>6, NoPipe
<1>11. ~Receiving' /\ (Quiet' <=> Quiet) BY <1>1, <1>8 DEF Receiving, Quiet
<1>12. Commanded' BY <1>1, <1>6, <1>8, <1>10, <1>11 DEF IInv, Commanded
<1>13. InSync' BY <1>1, <1>8, <1>10 DEF InSync, InStep
<1>14. \A f : (JobPending(f)' <=> JobPending(f)) /\ (DeletePending(f)' <=> DeletePending(f))
  BY <1>1, <1>4 DEF JobPending, DeletePending
<1>15. Placed' /\ Whole' BY <1>1, <1>14, SameFiles
<1> QED BY <1>1, <1>3, <1>7, <1>9, <1>12, <1>13, <1>15, SameRows DEF IInv

LEMMA TickGoneStep == ASSUME IInv, TickGone PROVE IInv' /\ CardsStay
<1>1. /\ cards' = [cards EXCEPT !.st = EndLive, !.seen = FALSE, !.last = LastOf(LiveRows)]
      /\ UNCHANGED <<wire, life, ui, resp, ext, del, ring, disk, past, spent>>
  BY DEF TickGone
<1>2. DOMAIN cards' = DOMAIN cards /\ cards'.st = EndLive BY <1>1 DEF IInv, Types, CardsOK
<1>3. CardsOK' /\ CardsStay BY <1>2, EndLiveFacts
<1>4. Threads' BY <1>1 DEF IInv, Threads, Off
<1> QED BY <1>1, <1>3, <1>4, FrameStep, SameTypes

\* A card that has ended is not the row's any more.
LEMMA Mirroring ==
  ASSUME IInv, NEW echo \in SUBSET {i \in DOMAIN ring.rows : Echo(i)},
         DOMAIN cards' = DOMAIN cards, cards'.st = Mirrored(echo)
  PROVE  CardsOK' /\ CardsStay
<1> DEFINE States == {"unseen", "echo", "recv", "unzip", "done", "failed"}
           at(id) == CHOOSE i \in DOMAIN ring.rows : ring.rows[i].id = id
<1>1. cards.st \in [Ids -> States] /\ ring.rows \in Seq(Row)
  BY DEF IInv, Types, CardsOK, RingOK
<1>2. ASSUME NEW id \in Ids
      PROVE  /\ cards'.st[id] \in States
             /\ cards.st[id] \in {"done", "failed", "echo"} => cards'.st[id] = cards.st[id]
  <2> DEFINE i == at(id)
  <2>1. cards'.st[id] = IF ~InRing(id) THEN cards.st[id]
                        ELSE IF i \in echo THEN "echo" ELSE CardOf(ring.rows[i])
    BY DEF Mirrored
  <2>2. InRing(id) => i \in DOMAIN ring.rows /\ ring.rows[i].id = id BY DEF InRing
  <2> HIDE DEF i
  <2>3. CASE ~InRing(id) BY <1>1, <2>1, <2>3
  <2>4. CASE InRing(id) /\ i \in echo
    <3>1. cards.st[id] = "unseen" BY <2>2, <2>4 DEF Echo
    <3> QED BY <2>1, <2>4, <3>1
  <2>5. CASE InRing(id) /\ i \notin echo
    <3>1. ring.rows[i] \in Row BY <1>1, <2>2, <2>5
    <3>2. ring.rows[i].st \in {"active", "unzip", "done", "failed"} BY <3>1 DEF Row
    <3>3. cards'.st[id] = CardOf(ring.rows[i]) BY <2>1, <2>5
    <3> QED BY <1>1, <2>2, <2>5, <3>2, <3>3 DEF CardOf, Live
  <2> QED BY <2>3, <2>4, <2>5
<1>3. cards'.st = [id \in Ids |-> cards'.st[id]] BY DEF Mirrored
<1>4. cards'.st \in [Ids -> States] BY <1>2, <1>3
<1> QED BY <1>2, <1>4 DEF CardsOK, CardsStay, IInv, Types

LEMMA TickMirrorStep == ASSUME IInv, TickMirror PROVE IInv' /\ CardsStay
<1>1. PICK echo \in SUBSET {i \in DOMAIN ring.rows : Echo(i)} :
        cards' = [cards EXCEPT
          !.st = Mirrored(echo), !.seen = @ \/ wire.link = "up",
          !.last = LastOf({i \in DOMAIN ring.rows \ echo : EndsNow(i)})]
  BY DEF TickMirror
<1>2. /\ ui = "idle" /\ life.up /\ ui' \in {"cancel", "idle"}
      /\ UNCHANGED <<wire, life, resp, ext, del, ring, disk, past, spent>>
  BY DEF TickMirror
<1>3. DOMAIN cards' = DOMAIN cards /\ cards'.st = Mirrored(echo) BY <1>1 DEF IInv, Types, CardsOK
<1>4. CardsOK' /\ CardsStay BY <1>3, Mirroring
<1>5. Threads' BY <1>2 DEF IInv, Threads, Off
<1>6. LifeOK' BY <1>2 DEF IInv, Types, LifeOK
<1> QED BY <1>2, <1>4, <1>5, <1>6, FrameStep, SameTypes

LEMMA TickCancelStep == ASSUME IInv, TickCancel PROVE IInv' /\ CardsStay
<1> DEFINE c == ring.cancel \/ ring.cur # None
<1>1. /\ ui = "cancel" /\ ui' = "idle" /\ ring' = [ring EXCEPT !.cancel = c]
      /\ UNCHANGED <<wire, life, resp, ext, del, cards, disk, past, spent>>
  BY DEF TickCancel, IInv, Types, RingOK
<1>2. c \in BOOLEAN OBVIOUS
<1> HIDE DEF c
<1>3. RingOK' /\ ring'.rows = ring.rows /\ ring'.seq = ring.seq /\ ring'.cur = ring.cur
  BY <1>1, <1>2 DEF IInv, Types, RingOK
<1>4. Threads' BY <1>1 DEF IInv, Threads, Off
<1>5. LifeOK' BY <1>1 DEF IInv, Types, LifeOK
<1> QED BY <1>1, <1>3, <1>4, <1>5, FrameStep, SameTypes, SameCards

LEMMA UserCancelStep == ASSUME IInv, UserCancel PROVE IInv' /\ CardsStay
<1>1. PICK id \in Ids : cards' = [cards EXCEPT !.wants = @ \cup {id}] BY DEF UserCancel
<1>2. UNCHANGED <<wire, life, ui, resp, ext, del, ring, disk, past>> BY DEF UserCancel
<1>3. DOMAIN cards' = DOMAIN cards /\ cards'.st = cards.st BY <1>1
<1>4. CardsOK' /\ CardsStay BY <1>3 DEF IInv, Types, CardsOK, CardsStay
<1>5. Threads' BY <1>2 DEF IInv, Threads, Off
<1> QED BY <1>2, <1>4, <1>5, FrameStep, SameTypes

LEMMA UIStep ==
  ASSUME IInv, StartR \/ Starting \/ Stop \/ Stopping \/ Tick \/ UserCancel
  PROVE  IInv' /\ CardsStay
<1>1. CASE Starting BY <1>1, StartEStep, StartDStep DEF Starting
<1>2. CASE Stopping BY <1>2, JoinEStep, JoinRStep, StopDStep DEF Stopping, UndoE, StopE
<1>3. CASE Tick BY <1>3, TickGoneStep, StopStep, TickMirrorStep, TickCancelStep DEF Tick
<1> QED BY <1>1, <1>2, <1>3, StartRStep, StopStep, UserCancelStep

-----------------------------------------------------------------------------

LEMMA Initially == Init => IInv
<1> SUFFICES ASSUME Init PROVE IInv
  OBVIOUS
<1>1. /\ wire.pipe = <<>> /\ wire.link = "down" /\ ~wire.await /\ ~wire.dropped
      /\ resp.pc = "none" /\ resp.pend = NoPending /\ ~resp.stopping
  BY DEF Init, Resp
<1>2. Commands = {} /\ Bodies = {} /\ Heads = {} /\ Single /\ Lined /\ \A p : ~In(p)
  BY <1>1 DEF Commands, Bodies, Heads, Single, Lined, In
<1>3. NoPending \in [file : Files \cup {None}, id : Ids \cup {0}] /\ NoPending.file \notin Files
  BY MtpAssumption DEF NoPending
<1>4. Types
  <2>1. WireOK /\ LifeOK BY DEF Init, WireOK, LifeOK
  <2>2. Recv \in [n : Nat, cancelled : BOOLEAN, wfail : BOOLEAN] BY DEF Recv
  <2>3. RespOK BY <1>3, <2>2 DEF Init, Resp, RespOK
  <2>4. NoJob \in [file : Files \cup {None}, id : Ids \cup {0}, got : Whose]
    BY MtpAssumption DEF NoJob, Whose
  <2>5. WorkOK BY <2>4 DEF Init, WorkOK, Pcs
  <2>6. RingOK BY MtpAssumption DEF Init, RingOK
  <2>7. CardsOK /\ DiskOK BY MtpAssumption DEF Init, CardsOK, DiskOK, Pasts, Whose
  <2> QED BY <2>1, <2>3, <2>5, <2>6, <2>7 DEF Types
<1>5. Threads BY DEF Init, Threads, Off, Resp
<1>6. ~Receiving BY <1>1 DEF Receiving
<1>7. Commanded BY <1>1, <1>2, <1>3, <1>6 DEF Commanded
<1>8. InSync BY <1>1, <1>2 DEF InSync, InStep
<1>9. Placed BY <1>6 DEF Init, Placed, Spent, GameOnDisk, Of
<1>11. Whole BY <1>1, <1>3 DEF Init, Whole
<1>10. UnzipIsInHand BY DEF Init, UnzipIsInHand
<1> QED BY <1>4, <1>5, <1>7, <1>8, <1>9, <1>10, <1>11 DEF IInv

LEMMA Inductive == ASSUME IInv, [Next]_vars PROVE IInv' /\ CardsStay
<1>1. CASE Next BY <1>1, HostStep, ResponderStep, ExtractStep, DeleteStep, UIStep DEF Next
<1>2. CASE UNCHANGED vars
  <2> USE <1>2 DEF vars
  <2>1. Types' BY SameTypes DEF Types
  <2>2. Threads' BY DEF IInv, Threads, Off
  <2> QED BY <2>1, <2>2, SameTalk, SameWork, SameCards DEF IInv
<1> QED BY <1>1, <1>2

LEMMA Invariant == Spec => []IInv
<1>1. IInv /\ [Next]_vars => IInv' BY Inductive
<1> QED BY <1>1, Initially, PTL DEF Spec

\* TypeCorrect: the variables keep their types, and the ring its length.
THEOREM TypeCorrect == Spec => []TypeOK
<1>1. IInv => TypeOK
  <2> SUFFICES ASSUME IInv PROVE TypeOK OBVIOUS
  <2> QED BY DEF IInv, Types, WireOK, LifeOK, RespOK, WorkOK, Pcs, RingOK, CardsOK, DiskOK, Whose, TypeOK
<1> QED BY <1>1, Invariant, PTL

\* PipeCorrect: whatever the host, the user and the card do, the command loop
\* never takes what is left of a file for commands, until a file could not be
\* opened.
THEOREM PipeCorrect == Spec => []PipeInSync
<1>1. IInv => PipeInSync
  <2> SUFFICES ASSUME IInv, resp.pc = "cmd", "body" \in Range(wire.pipe), ~past.torn
               PROVE  \E i \in DOMAIN wire.pipe : wire.pipe[i] = "send"
    BY DEF PipeInSync
  <2>1. Behind BY DEF IInv, InSync, InStep
  <2>2. PICK i \in DOMAIN wire.pipe : wire.pipe[i] = "body" BY DEF Range
  <2> QED BY <2>1, <2>2 DEF Behind, Bodies
<1> QED BY <1>1, Invariant, PTL

\* GamesCorrect: a file the host was told has arrived is lost to no worker,
\* restart, cancel or dropped link, only to the host's own doing.  Of one that ended
\* early, or that the fclose cut short without anybody looking, this is the part that
\* came; and the worker never takes that for the archive it was sent as.
THEOREM GamesCorrect == Spec => []GameOnDisk
<1>1. IInv => GameOnDisk BY DEF IInv, Placed
<1> QED BY <1>1, Invariant, PTL

\* CardsCorrect: no step gives an ended card another end, or leaves a row of an
\* unpacking with nobody to end it.
THEOREM CardsCorrect == Spec => NoGhostCard
<1> DEFINE Step == /\ \A id \in Ids : cards.st[id] \in {"done", "failed", "echo"}
                                        => cards'.st[id] = cards.st[id]
                   /\ UnzipIsInHand'
<1>1. IInv /\ [Next]_vars => [Step]_vars BY Inductive DEF CardsStay, IInv
<1>2. [][Step]_vars <=> NoGhostCard BY DEF NoGhostCard
<1> HIDE DEF Step
<1> QED BY <1>1, <1>2, Invariant, PTL DEF Spec
=============================================================================
