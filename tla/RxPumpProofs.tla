---------------------------- MODULE RxPumpProofs ----------------------------
(***************************************************************************)
(* Theorems about RxPump, for a file, a ring and slots of any size.        *)
(*                                                                         *)
(* The inductive invariant IInv says, besides the types: the filled slots  *)
(* are the `count` ones from `head` up to `tail`; each holds consecutive   *)
(* bytes, each continues the one before it, the first continues what is    *)
(* written and the last ends at what is received (Chain); the slot being   *)
(* filled is not one of them and continues the last (Filling); and a       *)
(* thread that has stopped without an error and without having been told   *)
(* to has left nothing behind (Outcome).                                   *)
(***************************************************************************)
EXTENDS RxPump, TLAPS

-----------------------------------------------------------------------------
(* The inductive invariant *)

Started == net # "off"

\* The filled slots, and the place of the next one, without remainders.
Filled(i) == IF head + count <= NBuf
             THEN head <= i /\ i < head + count
             ELSE head <= i \/ i < head + count - NBuf
Shape == tail = IF head + count < NBuf THEN head + count
                     ELSE head + count - NBuf

\* Where the writer is in the stream: it counts a slot before it frees it.
Drained == IF wr = "free" THEN written - len[head] ELSE written

Chain ==
  /\ \A i \in Index : Filled(i) =>
       /\ len[i] >= 1
       /\ \A b \in 1..len[i] : slot[i][b] = slot[i][1] + b - 1
       /\ Next1(i) # tail => slot[Next1(i)][1] = slot[i][1] + len[i]
       /\ Next1(i) = tail => slot[i][1] + len[i] = received + 1
  /\ Started => IF count = 0 THEN Drained = received
                ELSE slot[head][1] = Drained + 1
  /\ wr \in {"write", "free"} => count > 0

Filling ==
  /\ net \in {"fill", "recv", "publish"} =>
       /\ count < NBuf
       /\ sock = received + filled
       /\ \A b \in 1..filled : slot[tail][b] = received + b
  /\ net \notin {"off", "fill", "recv", "publish"} => sock = received
  /\ ~Started => sock = written

Idle ==
  /\ ~Started => count = 0
  /\ ui \in {"spawn", "half", "lone"} => received = written
  /\ ui \in {"spawn", "half"} => ~netdone
  /\ ui = "spawn" => wr = "off" /\ live = 0
  /\ ui = "half"  => wr \in {"take", "parked"} /\ ~cancel
  /\ ui \in {"spawn", "half", "lone", "inline"} => ~Started
  /\ ui \in {"pump", "stopping", "joining", "join"} => Started
  /\ ~Started => wrst = "OK" /\ wr \in {"off", "take", "parked", "exit", "gone"}
  /\ ~Started /\ ui \in {"inline", "closed"} => wr \in {"off", "gone"}
  /\ ui \in {"half", "lone"} => live = IF wr = "gone" THEN 1 ELSE 2
  /\ ui = "closed" /\ Started => Joined
  /\ Started => wr # "off"
  /\ wrst # "OK" => wr \in {"wake", "exit", "gone"}
  /\ wr = "wake" => wrst = "WRITEERR"
  /\ netst # "OK" => net \in {"publish", "end", "exit", "gone"}

Ending ==
  /\ Started => live = (IF net = "gone" THEN 0 ELSE 1) + (IF wr = "gone" THEN 0 ELSE 1)
  /\ done => Joined /\ status = IF wrst # "OK" THEN wrst ELSE netst
  /\ Started /\ netdone => net \in {"exit", "gone"}
  /\ net \in {"end", "exit", "gone"} /\ netst = "OK" => received = Total
  /\ net = "publish" /\ netst = "OK" => filled > 0
  /\ net \in {"claim", "parked", "fill", "recv"} => received < Total

\* The flag is up only for a reason, and without one nobody leaves bytes behind.
Outcome ==
  /\ ui = "pump" /\ cancel => asked \/ wrst = "WRITEERR"
  /\ ui = "stopping" => asked
  /\ ui = "pump" /\ wr \in {"exit", "gone"} /\ wrst = "OK" =>
       asked \/ (netdone /\ count = 0)
  /\ (result = "none") = (ui # "closed")

IInv == /\ BuffersOK /\ CountersOK /\ ControlOK
        /\ Shape /\ Chain /\ Filling /\ Idle /\ Ending /\ Outcome
        /\ CountedIsRight

\* The definitions every step is made of: tuples of variables, sets of values
\* and shorthands for a change of one thread's place.
USE PumpAssumption DEF vars, buf, ring, nloc, nvar, wvar, out, disk, main, opts,
   NetGo, NetStop, WakeWriter, WakeNet, ThreadExit, WrGo, Reset, Close, Joined,
   Started, Index, Bytes, Status, NetPcs, WrPcs, UiPcs

-----------------------------------------------------------------------------
(* Lemmas *)

\* Next1 without the remainder.
LEMMA NextIndex ==
  ASSUME NEW i \in Index
  PROVE  Next1(i) = (IF i + 1 = NBuf THEN 0 ELSE i + 1)
BY DEF Next1

\* A ring that is not full has a free slot at tail, one that is not empty a
\* filled one at head, and one that holds more than one slot a successor to it.
LEMMA Ends ==
  ASSUME CountersOK, Shape
  PROVE  /\ count < NBuf => ~Filled(tail)
         /\ count > 0 => Filled(head)
         /\ count = 1 => Next1(head) = tail
         /\ count > 1 => Next1(head) # tail
<1>1. Next1(head) = (IF head + 1 = NBuf THEN 0 ELSE head + 1)
  BY NextIndex DEF CountersOK
<1> QED BY <1>1 DEF CountersOK, Shape, Filled

\* Nothing of the ring's content changes.
LEMMA Kept ==
  ASSUME Chain, Shape,
         UNCHANGED <<slot, len, head, tail, count, received, written>>,
         Started' => Started \/ (count = 0 /\ written = received /\ wr' # "free"),
         wr' = "free" <=> wr = "free",
         wr' = "write" => count > 0
  PROVE  Shape' /\ Chain'
<1>1. Shape' BY DEF Shape
<1>2. \A i : Filled(i)' = Filled(i) BY DEF Filled
<1>3. \A i : Next1(i)' = Next1(i) BY DEF Next1
<1>4. Chain' BY <1>2, <1>3 DEF Chain, Drained
<1> QED BY <1>1, <1>4

\* Publishing a slot adds the one at tail to the filled ones.
LEMMA Published ==
  ASSUME CountersOK, Shape, count < NBuf,
         tail' = Next1(tail), count' = count + 1, head' = head
  PROVE  /\ Shape'
         /\ \A i \in Index : Filled(i)' <=> Filled(i) \/ i = tail
<1>1. Next1(tail) = (IF tail + 1 = NBuf THEN 0 ELSE tail + 1)
  BY NextIndex DEF CountersOK
<1>2. Shape' BY <1>1 DEF CountersOK, Shape
<1>3. \A i \in Index : Filled(i)' <=> Filled(i) \/ i = tail
  BY <1>1 DEF CountersOK, Shape, Filled
<1> QED BY <1>2, <1>3

\* Freeing a slot takes the one at head from them.
LEMMA Freed ==
  ASSUME CountersOK, Shape, count > 0,
         head' = Next1(head), count' = count - 1, tail' = tail
  PROVE  /\ Shape'
         /\ \A i \in Index : Filled(i)' <=> Filled(i) /\ i # head
<1>1. Next1(head) = (IF head + 1 = NBuf THEN 0 ELSE head + 1)
  BY NextIndex DEF CountersOK
<1>2. Shape' BY <1>1 DEF CountersOK, Shape
<1>3. \A i \in Index : Filled(i)' <=> Filled(i) /\ i # head
  BY <1>1 DEF CountersOK, Shape, Filled
<1> QED BY <1>2, <1>3

-----------------------------------------------------------------------------
(* IInv is inductive *)

\* The invariant holds before the pump is started.
LEMMA InitIInv ==
  ASSUME Init
  PROVE  IInv
<1>1. BuffersOK /\ CountersOK
  BY DEF Init, BuffersOK, CountersOK
<1>2. ControlOK
  BY DEF Init, ControlOK
<1>3. Shape /\ Filling /\ Idle /\ Ending /\ Outcome /\ CountedIsRight
  BY DEF Init, Shape, Filling, Idle, Ending, Outcome, CountedIsRight
<1>4. Chain
  BY DEF Init, Chain, Filled
<1> QED BY <1>1, <1>2, <1>3, <1>4 DEF IInv

\* Every step of the net thread, the writer and the UI thread preserves it.
LEMMA Inductive ==
  ASSUME IInv, [Next]_vars
  PROVE  IInv'
<1> USE DEF IInv
<1>1. CASE NetLoop
  <2>1. Shape' /\ Chain'
    BY Kept, <1>1 DEF NetLoop, Idle, Chain
  <2>2. BuffersOK' /\ CountersOK'
    BY <1>1 DEF NetLoop, BuffersOK, CountersOK
  <2>3. ControlOK'
    BY <1>1 DEF NetLoop, ControlOK
  <2>4. Filling' /\ Idle' /\ Ending' /\ Outcome' /\ CountedIsRight'
    BY <1>1 DEF NetLoop, CountersOK, Filling, Idle, ControlOK, Ending, Outcome,
       CountedIsRight
  <2> QED
    BY <2>1, <2>2, <2>3, <2>4
<1>2. CASE NetClaim
  <2>1. Shape' /\ Chain'
    BY Kept, <1>2 DEF NetClaim, Idle, Chain
  <2>2. BuffersOK'
    BY <1>2 DEF NetClaim, BuffersOK, CountersOK
  <2>3. CountersOK'
    BY <1>2 DEF NetClaim, CountersOK
  <2>4. ControlOK'
    BY <1>2 DEF NetClaim, ControlOK
  <2>5. Filling' /\ Idle' /\ Ending' /\ Outcome' /\ CountedIsRight'
    BY <1>2 DEF NetClaim, CountersOK, Filling, Idle, ControlOK, Ending, Outcome,
       CountedIsRight
  <2> QED
    BY <2>1, <2>2, <2>3, <2>4, <2>5
<1>3. CASE NetFill
  <2>1. Shape' /\ Chain'
    BY Kept, <1>3 DEF NetFill, Idle, Chain
  <2>2. Ending'
    <3>1. net = "fill" BY <1>3 DEF NetFill
    <3>2. netst = "OK" BY <3>1 DEF Idle
    <3>3. received < Total BY <3>1 DEF Ending
    <3>4. Wanted = 0 => filled > 0
      BY <3>3 DEF Wanted, CountersOK
    <3>5. /\ net' \in {"publish", "recv"} /\ (netst' # "OK" \/ net' = "recv" \/ Wanted = 0)
          /\ UNCHANGED <<ring, wvar, out, cancel, filled, ui>>
      BY <1>3 DEF NetFill
    <3> QED BY <3>1, <3>2, <3>3, <3>4, <3>5 DEF Ending
  <2>3. BuffersOK' /\ CountersOK'
    BY <1>3 DEF NetFill, BuffersOK, CountersOK
  <2>4. ControlOK'
    BY <1>3 DEF NetFill, ControlOK
  <2>5. Filling' /\ Idle' /\ Outcome' /\ CountedIsRight'
    BY <1>3 DEF NetFill, CountersOK, Filling, Idle, ControlOK, Outcome, Ending,
       CountedIsRight
  <2> QED
    BY <2>1, <2>2, <2>3, <2>4, <2>5
<1>4. CASE NetData
  <2>0. PICK r \in 1..Wanted :
          /\ slot' = [slot EXCEPT ![tail] = Extended(r)]
          /\ sock' = sock + r /\ filled' = filled + r
    BY <1>4 DEF NetData
  <2>a. /\ net' = "fill" /\ net = "recv" /\ stalls' = 0
        /\ UNCHANGED <<len, ring, wvar, netst, out, cancel, disk, main>>
    BY <1>4 DEF NetData
  <2>b. /\ count < NBuf /\ sock = received + filled
        /\ \A b \in 1..filled : slot[tail][b] = received + b
    BY <2>a DEF Filling
  <2>c. r \in Nat /\ r > 0 /\ filled + r <= SlotSize /\ received + filled + r <= Total
    BY <2>0 DEF Wanted, CountersOK
  <2>d. /\ \A i \in Index : i # tail => slot'[i] = slot[i]
        /\ \A b \in 1..SlotSize :
             slot'[tail][b] = IF b \in filled+1..filled+r THEN sock + b - filled
                              ELSE slot[tail][b]
    BY <2>0 DEF Extended, BuffersOK, CountersOK
  <2>1. BuffersOK'
    <3>1. Extended(r) \in [1..SlotSize -> 0..Total]
      BY SMTT(30), <2>b, <2>c DEF Extended, BuffersOK, CountersOK
    <3> QED BY <3>1, <2>0, <2>a DEF BuffersOK, CountersOK
  <2>2. CountersOK'
    BY <2>0, <2>a, <2>b, <2>c DEF CountersOK
  <2>3. ControlOK'
    BY <2>a DEF ControlOK
  <2>4. Shape'
    BY <2>a DEF Shape
  <2>5. Chain'
    <3>1. \A i \in Index : Filled(i)' = Filled(i) BY <2>a DEF Filled
    <3>2. \A i : Next1(i)' = Next1(i) BY DEF Next1
    <3>3. \A i \in Index : Filled(i) => slot'[i] = slot[i]
      BY <2>b, <2>d, Ends
    <3>4. \A i \in Index : Next1(i) # tail => slot'[Next1(i)] = slot[Next1(i)]
      BY <2>d, NextIndex
    <3>5. count > 0 => slot'[head] = slot[head]
      BY <3>3, Ends DEF CountersOK
    <3>6. ASSUME NEW i \in Index, Filled(i)'
          PROVE  /\ len'[i] >= 1
                 /\ \A b \in 1..len'[i] : slot'[i][b] = slot'[i][1] + b - 1
                 /\ Next1(i)' # tail' => slot'[Next1(i)'][1] = slot'[i][1] + len'[i]
                 /\ Next1(i)' = tail' => slot'[i][1] + len'[i] = received' + 1
      BY <3>1, <3>2, <3>3, <3>4, <3>6, <2>a DEF Chain
    <3>7. Started' => IF count' = 0 THEN Drained' = received'
                      ELSE slot'[head'][1] = Drained' + 1
      BY <3>5, <2>a DEF Chain, Drained, CountersOK
    <3>8. wr' \in {"write", "free"} => count' > 0
      BY <2>a DEF Chain
    <3> QED BY <3>6, <3>7, <3>8 DEF Chain
  <2>6. Filling'
    <3>1. \A b \in 1..filled+r : slot'[tail][b] = received + b
      BY <2>b, <2>c, <2>d DEF CountersOK
    <3> QED BY <3>1, <2>0, <2>a, <2>b, <2>c DEF Filling, CountersOK
  <2>7. Idle'
    BY <2>a DEF Idle, ControlOK
  <2>8. Ending'
    BY <2>a DEF Ending, Idle
  <2>9. Outcome'
    BY <2>a DEF Outcome
  <2>10. CountedIsRight'
    BY <2>a DEF CountedIsRight
  <2> QED
    BY <2>1, <2>2, <2>3, <2>4, <2>5, <2>6, <2>7, <2>8, <2>9, <2>10
<1>5. CASE NetQuiet
  <2>1. Shape' /\ Chain'
    BY Kept, <1>5 DEF NetQuiet, Idle, Chain
  <2>2. BuffersOK'
    BY <1>5 DEF NetQuiet, BuffersOK, CountersOK
  <2>3. CountersOK'
    BY <1>5 DEF NetQuiet, CountersOK
  <2>4. ControlOK'
    BY <1>5 DEF NetQuiet, ControlOK
  <2>5. Filling' /\ Idle' /\ Ending' /\ Outcome' /\ CountedIsRight'
    BY <1>5 DEF NetQuiet, CountersOK, Filling, Idle, ControlOK, Ending, Outcome,
       CountedIsRight
  <2> QED
    BY <2>1, <2>2, <2>3, <2>4, <2>5
<1>6. CASE NetLost
  <2>1. Shape' /\ Chain'
    BY Kept, <1>6 DEF NetLost, Idle, Chain
  <2>2. BuffersOK' /\ CountersOK' /\ ControlOK'
    BY SMTT(30), <1>6 DEF NetLost, BuffersOK, CountersOK, ControlOK
  <2>3. Filling' /\ Idle' /\ Ending' /\ Outcome' /\ CountedIsRight'
    BY <1>6 DEF NetLost, CountersOK, Filling, Idle, ControlOK, Ending, Outcome,
       CountedIsRight
  <2> QED
    BY <2>1, <2>2, <2>3
<1>7. CASE NetPublish
  <2>a. /\ net = "publish" /\ net' = (IF netst = "OK" THEN "loop" ELSE "end")
        /\ UNCHANGED <<sock, slot, head, netdone, nloc, wrst, out, cancel, disk, main>>
    BY <1>7 DEF NetPublish, Publish
  <2>b. /\ count < NBuf /\ sock = received + filled
        /\ \A b \in 1..filled : slot[tail][b] = received + b
    BY <2>a DEF Filling
  <2>c. wr' = wr \/ (wr = "parked" /\ wr' = "take")
    BY <1>7 DEF NetPublish, Publish
  <2>d. CASE ~(filled > 0)
    <3>1. UNCHANGED <<len, ring, wvar>> BY <1>7, <2>d DEF NetPublish
    <3>2. Shape' /\ Chain' BY Kept, <3>1, <2>a DEF Chain
    <3>3. BuffersOK' /\ CountersOK' /\ ControlOK'
      BY SMTT(30), <3>1, <2>a DEF BuffersOK, CountersOK, ControlOK
    <3>4. Filling' BY <3>1, <2>a, <2>b, <2>d DEF Filling, CountersOK
    <3>5. Idle' BY <3>1, <2>a DEF Idle
    <3>6. Ending' BY <3>1, <2>a, <2>d DEF Ending
    <3>7. Outcome' /\ CountedIsRight' BY <3>1, <2>a DEF Outcome, CountedIsRight
    <3> QED BY <3>2, <3>3, <3>4, <3>5, <3>6, <3>7
  <2>e. CASE filled > 0
    <3>1. /\ len' = [len EXCEPT ![tail] = filled]
          /\ tail' = Next1(tail) /\ count' = count + 1 /\ received' = received + filled
      BY <1>7, <2>e DEF NetPublish, Publish
    <3>2. Shape' /\ \A i \in Index : Filled(i)' <=> Filled(i) \/ i = tail
      BY <3>1, <2>a, <2>b, Published
    <3>3. \A i : Next1(i)' = Next1(i) BY DEF Next1
    <3>4. /\ \A i \in Index : i # tail => len'[i] = len[i]
          /\ len'[tail] = filled
      BY <3>1 DEF BuffersOK, CountersOK
    <3>5. \A i \in Index : Filled(i) => i # tail
      BY <2>b, Ends
    <3>6. Chain'
      <4>1. ASSUME NEW i \in Index, Filled(i)
            PROVE  /\ len'[i] >= 1
                   /\ \A b \in 1..len'[i] : slot'[i][b] = slot'[i][1] + b - 1
                   /\ Next1(i) # tail' => slot'[Next1(i)][1] = slot'[i][1] + len'[i]
                   /\ Next1(i) = tail' => slot'[i][1] + len'[i] = received' + 1
        <5>1. i # tail /\ len'[i] = len[i] /\ slot' = slot BY <4>1, <3>4, <3>5, <2>a
        <5>2. Next1(i) # tail'
          BY <5>1, <3>1, NextIndex DEF CountersOK
        <5>3. Next1(i) = tail => slot[tail][1] = slot[i][1] + len[i]
          BY <4>1, <2>b, <2>e DEF Chain, CountersOK
        <5> QED BY <4>1, <5>1, <5>2, <5>3 DEF Chain
      <4>2. /\ len'[tail] >= 1
            /\ \A b \in 1..len'[tail] : slot'[tail][b] = slot'[tail][1] + b - 1
            /\ Next1(tail) = tail'
            /\ slot'[tail][1] + len'[tail] = received' + 1
        BY <3>1, <3>4, <2>a, <2>b, <2>e DEF CountersOK
      <4>3. IF count = 0 THEN head = tail /\ Drained = received
            ELSE slot[head][1] = Drained + 1 /\ Filled(head)
        BY <2>a, Ends DEF Chain, Shape, CountersOK
      <4>4. Drained' = Drained
        <5>1. wr = "free" => len'[head] = len[head]
          BY <4>3, <3>4, <3>5 DEF Chain, CountersOK
        <5> QED BY <5>1, <2>a, <2>c DEF Drained
      <4>5. slot'[head'][1] = Drained' + 1
        BY <4>3, <4>4, <2>a, <2>b, <2>e DEF CountersOK
      <4>6. count' > 0 /\ count' # 0 BY <3>1 DEF CountersOK
      <4> QED BY <4>1, <4>2, <4>5, <4>6, <3>2, <3>3 DEF Chain
    <3>7. BuffersOK' BY <3>1, <2>a DEF BuffersOK, CountersOK
    <3>8. CountersOK' BY <3>1, <2>a, <2>b, NextIndex DEF CountersOK
    <3>9. ControlOK' BY <2>a, <2>c DEF ControlOK
    <3>10. Filling' BY <3>1, <2>a, <2>b DEF Filling
    <3>11. Idle' BY <3>1, <2>a, <2>c, <2>e DEF Idle, ControlOK
    <3>12. Ending' BY <3>1, <2>a, <2>c DEF Ending, Idle
    <3>13. Outcome' /\ CountedIsRight' BY <3>1, <2>a, <2>c DEF Outcome, Ending,
       Idle, CountedIsRight
    <3> QED BY <3>2, <3>6, <3>7, <3>8, <3>9, <3>10, <3>11, <3>12, <3>13
  <2> QED BY <2>d, <2>e DEF CountersOK
<1>8. CASE NetEnd
  <2>1. Shape' /\ Chain'
    BY Kept, <1>8 DEF NetEnd, Idle, Chain
  <2>2. BuffersOK' /\ CountersOK' /\ ControlOK'
    BY SMTT(30), <1>8 DEF NetEnd, BuffersOK, CountersOK, ControlOK
  <2>3. Filling' /\ Idle' /\ Ending' /\ Outcome' /\ CountedIsRight'
    BY <1>8 DEF NetEnd, CountersOK, Filling, Idle, ControlOK, Ending, Outcome,
       CountedIsRight
  <2> QED
    BY <2>1, <2>2, <2>3
<1>9. CASE NetExit
  <2>1. CountersOK'
    <3>1. live \in 1..2
      BY <1>9 DEF NetExit, CountersOK, ControlOK, Idle, Ending
    <3> QED BY <3>1, <1>9 DEF NetExit, CountersOK
  <2>2. ControlOK'
    <3>1. net' = "gone" /\ UNCHANGED <<wrst, netst, netdone, cancel, main>>
      BY <1>9 DEF NetExit
    <3>2. UNCHANGED wr
      BY <1>9 DEF NetExit
    <3>3. status' \in Status /\ done' \in BOOLEAN
      BY <1>9 DEF NetExit, ControlOK
    <3> QED BY <3>1, <3>2, <3>3 DEF ControlOK
  <2>3. Shape' /\ Chain'
    BY Kept, <1>9 DEF NetExit, Idle, Chain
  <2>4. BuffersOK'
    BY <1>9 DEF NetExit, BuffersOK, CountersOK
  <2>5. Filling' /\ Idle' /\ Ending' /\ Outcome' /\ CountedIsRight'
    BY <1>9 DEF NetExit, CountersOK, Filling, Idle, ControlOK, Ending, Outcome,
       CountedIsRight
  <2> QED
    BY <2>1, <2>2, <2>3, <2>4, <2>5
<1>10. CASE WrTake
  <2>1. Shape' /\ Chain'
    BY Kept, <1>10 DEF WrTake, Idle, Chain
  <2>2. Outcome'
    <3>1. CASE wr' = "exit"
      <4>1. wr = "take" /\ count = 0 /\ (netdone \/ cancel)
        BY <1>10, <3>1 DEF WrTake, CountersOK
      <4> QED BY <4>1, <1>10 DEF WrTake, Outcome, Idle
    <3>2. CASE wr' # "exit"
      BY <1>10, <3>2 DEF WrTake, Outcome
    <3> QED BY <3>1, <3>2
  <2>3. BuffersOK' /\ CountersOK' /\ ControlOK'
    BY <1>10 DEF WrTake, BuffersOK, CountersOK, ControlOK
  <2>4. Filling' /\ Idle' /\ Ending' /\ CountedIsRight'
    BY <1>10 DEF WrTake, CountersOK, Filling, Idle, ControlOK, Ending, CountedIsRight
  <2> QED
    BY <2>1, <2>2, <2>3, <2>4
<1>11. CASE WrWrite
  <2>a. /\ wr = "write" /\ wr' = "free" /\ written' = written + len[head]
        /\ UNCHANGED <<buf, ring, nvar, out, cancel, main, wrst>>
    BY <1>11 DEF WrWrite
  <2>b. count > 0 /\ Started /\ Filled(head)
    BY <2>a, Ends DEF Chain, Idle
  <2>c. /\ len[head] >= 1 /\ len[head] \in 0..SlotSize
        /\ slot[head][1] = written + 1
        /\ \A b \in 1..len[head] : slot[head][b] = written + b
    BY <2>a, <2>b DEF Chain, Drained, BuffersOK, CountersOK
  <2>d. written + len[head] <= Total
    <3>1. slot[head][len[head]] \in 0..Total
      BY SMTT(30), <2>c DEF BuffersOK, CountersOK
    <3> QED BY <3>1, <2>c DEF CountersOK
  <2>e. \A k \in Bytes : file'[k] = IF k \in written+1..written+len[head]
                                    THEN slot[head][k - written] ELSE file[k]
    BY <1>11 DEF WrWrite, Append
  <2>1. BuffersOK'
    <3>1. \A k \in Bytes : k \in written+1..written+len[head] =>
            k - written \in 1..SlotSize
      BY <2>c DEF CountersOK
    <3> QED BY <1>11, <3>1, <2>a DEF WrWrite, Append, BuffersOK, CountersOK
  <2>2. CountersOK'
    BY <2>a, <2>c, <2>d DEF CountersOK
  <2>3. ControlOK'
    BY <2>a, <2>b DEF ControlOK
  <2>4. Shape'
    BY <2>a, <2>b DEF Shape
  <2>5. Chain'
    <3>1. \A i : Filled(i)' = Filled(i) /\ Next1(i)' = Next1(i)
      BY <2>a DEF Filled, Next1
    <3>2. Drained' = Drained
      BY <2>a, <2>c DEF Drained, CountersOK
    <3> QED BY <3>1, <3>2, <2>a, <2>b DEF Chain
  <2>6. Filling'
    BY <2>a, <2>b DEF Filling
  <2>7. Idle'
    BY <2>a, <2>b DEF Idle
  <2>8. Ending'
    BY <2>a, <2>b DEF Ending, Idle
  <2>9. Outcome'
    BY <2>a, <2>b DEF Outcome
  <2>10. CountedIsRight'
    <3>1. ASSUME NEW k \in 1..written+len[head] PROVE file'[k] = k
      <4>1. k \in Bytes BY <2>c, <2>d DEF CountersOK
      <4>2. CASE k <= written
        BY <4>1, <4>2, <2>e DEF CountedIsRight, CountersOK
      <4>3. CASE k > written
        <5>1. k - written \in 1..len[head] BY <4>3, <2>c DEF CountersOK
        <5> QED BY <5>1, <4>1, <2>c, <2>e DEF CountersOK
      <4> QED BY <4>2, <4>3, <2>c DEF CountersOK
    <3> QED BY <3>1, <2>a DEF CountedIsRight
  <2> QED
    BY <2>1, <2>2, <2>3, <2>4, <2>5, <2>6, <2>7, <2>8, <2>9, <2>10
<1>12. CASE WrFail
  <2>a. /\ wr = "write" /\ wr' = "wake" /\ wrst' = "WRITEERR" /\ cancel' = TRUE
        /\ UNCHANGED <<buf, ring, nvar, out, written, main>>
    BY <1>12 DEF WrFail
  <2>b. count > 0 /\ Started
    BY <2>a DEF Chain, Idle
  <2>0. PICK n \in 0..len[head]-1 :
          file' = [k \in Bytes |-> IF k \in written+1..written+n
                                   THEN slot[head][k - written] ELSE file[k]]
    BY <1>12 DEF WrFail, Append
  <2>c. len[head] \in 0..SlotSize /\ n \in Nat /\ n < SlotSize
    BY SMTT(30), <2>0 DEF BuffersOK, CountersOK
  <2>1. BuffersOK'
    <3>1. \A k \in Bytes : k \in written+1..written+n => k - written \in 1..SlotSize
      BY <2>c DEF CountersOK
    <3> QED BY <2>0, <3>1, <2>a DEF BuffersOK, CountersOK
  <2>2. CountersOK'
    BY <2>a, <2>b DEF CountersOK
  <2>3. ControlOK'
    BY <2>a, <2>b DEF ControlOK
  <2>4. Shape'
    BY <2>a, <2>b DEF Shape
  <2>5. Chain'
    <3>1. \A i : Filled(i)' = Filled(i) /\ Next1(i)' = Next1(i)
      BY <2>a DEF Filled, Next1
    <3> QED BY <3>1, <2>a, <2>b DEF Chain, Drained
  <2>6. Filling'
    BY <2>a, <2>b DEF Filling
  <2>7. Idle'
    BY <2>a, <2>b DEF Idle
  <2>8. Ending'
    BY <2>a, <2>b DEF Ending
  <2>9. Outcome'
    BY <2>a, <2>b DEF Outcome
  <2>10. CountedIsRight'
    <3>1. \A k \in 1..written : file'[k] = file[k]
      BY <2>0, <2>c DEF CountersOK
    <3> QED BY <3>1, <2>a DEF CountedIsRight
  <2> QED
    BY <2>1, <2>2, <2>3, <2>4, <2>5, <2>6, <2>7, <2>8, <2>9, <2>10
<1>13. CASE WrWake
  <2>1. Shape' /\ Chain'
    BY Kept, <1>13 DEF WrWake, Idle, Chain
  <2>2. Outcome'
    BY <1>13 DEF WrWake, Outcome, Idle
  <2>3. BuffersOK' /\ CountersOK' /\ ControlOK'
    BY <1>13 DEF WrWake, BuffersOK, CountersOK, ControlOK
  <2>4. Filling' /\ Idle' /\ Ending' /\ CountedIsRight'
    BY <1>13 DEF WrWake, CountersOK, Filling, Idle, ControlOK, Ending, CountedIsRight
  <2> QED
    BY <2>1, <2>2, <2>3, <2>4
<1>14. CASE WrFree
  <2>a. /\ wr = "free" /\ wr' = "take" /\ head' = Next1(head) /\ count' = count - 1
        /\ UNCHANGED <<buf, tail, received, netdone, nloc, wrst, out, cancel, disk, main>>
        /\ net' = (IF net = "parked" THEN "claim" ELSE net)
    BY <1>14 DEF WrFree
  <2>b. count > 0 /\ Started /\ Filled(head)
    BY <2>a, Ends DEF Chain, Idle
  <2>c. Shape' /\ \A i \in Index : Filled(i)' <=> Filled(i) /\ i # head
    BY <2>a, <2>b, Freed
  <2>1. BuffersOK'
    BY <2>a DEF BuffersOK
  <2>2. CountersOK'
    BY <2>a, <2>b, NextIndex DEF CountersOK
  <2>3. ControlOK'
    BY <2>a DEF ControlOK
  <2>4. Shape'
    BY <2>c
  <2>5. Chain'
    <3>1. \A i : Next1(i)' = Next1(i) BY DEF Next1
    <3>2. /\ slot[head][1] = written - len[head] + 1 /\ len[head] \in 0..SlotSize
          /\ slot[head][1] \in 0..Total
      BY <2>a, <2>b DEF Chain, Drained, BuffersOK, CountersOK
    <3>3. count = 1 => written = received
      BY <3>2, <2>b, Ends DEF Chain, CountersOK
    <3>4. count > 1 => slot[Next1(head)][1] = written + 1
      BY <3>2, <2>b, Ends DEF Chain, CountersOK
    <3>5. Started' => IF count' = 0 THEN Drained' = received'
                      ELSE slot'[head'][1] = Drained' + 1
      BY <3>3, <3>4, <2>a, <2>b DEF Drained, CountersOK
    <3>6. \A i \in Index : Filled(i)' =>
            /\ len'[i] >= 1
            /\ \A b \in 1..len'[i] : slot'[i][b] = slot'[i][1] + b - 1
            /\ Next1(i) # tail' => slot'[Next1(i)][1] = slot'[i][1] + len'[i]
            /\ Next1(i) = tail' => slot'[i][1] + len'[i] = received' + 1
      BY <2>a, <2>c DEF Chain
    <3> QED BY <3>1, <3>5, <3>6, <2>a DEF Chain
  <2>6. Filling'
    BY <2>a, <2>b DEF Filling, CountersOK
  <2>7. Idle'
    BY <2>a, <2>b DEF Idle
  <2>8. Ending'
    BY <2>a, <2>b DEF Ending
  <2>9. Outcome'
    BY <2>a DEF Outcome
  <2>10. CountedIsRight'
    BY <2>a DEF CountedIsRight
  <2> QED
    BY <2>1, <2>2, <2>3, <2>4, <2>5, <2>6, <2>7, <2>8, <2>9, <2>10
<1>15. CASE WrExit
  <2>1. CountersOK'
    <3>1. live \in 1..2
      BY <1>15 DEF WrExit, CountersOK, ControlOK, Idle, Ending
    <3> QED BY <3>1, <1>15 DEF WrExit, CountersOK
  <2>2. ControlOK'
    <3>1. wr' = "gone" /\ UNCHANGED <<wrst, netst, netdone, cancel, main>>
      BY <1>15 DEF WrExit
    <3>2. UNCHANGED net
      BY <1>15 DEF WrExit
    <3>3. status' \in Status /\ done' \in BOOLEAN
      BY <1>15 DEF WrExit, ControlOK
    <3> QED BY <3>1, <3>2, <3>3 DEF ControlOK
  <2>3. Shape' /\ Chain'
    BY Kept, <1>15 DEF WrExit, Idle, Chain
  <2>4. BuffersOK'
    BY <1>15 DEF WrExit, BuffersOK, CountersOK
  <2>5. Filling' /\ Idle' /\ Ending' /\ Outcome' /\ CountedIsRight'
    BY <1>15 DEF WrExit, CountersOK, Filling, Idle, ControlOK, Ending, Outcome,
       CountedIsRight
  <2> QED
    BY <2>1, <2>2, <2>3, <2>4, <2>5
<1>16. CASE StartWriter
  <2>1. Shape' /\ Chain'
    BY Kept, <1>16 DEF StartWriter, Idle, Chain
  <2>2. BuffersOK' /\ CountersOK'
    BY SMTT(30), <1>16 DEF StartWriter, BuffersOK, CountersOK
  <2>3. ControlOK'
    BY ZenonT(30), <1>16 DEF StartWriter, ControlOK
  <2>4. Filling' /\ Idle' /\ Ending' /\ Outcome' /\ CountedIsRight'
    BY <1>16 DEF StartWriter, CountersOK, Filling, Idle, ControlOK, Ending, Outcome,
       CountedIsRight
  <2> QED
    BY <2>1, <2>2, <2>3, <2>4
<1>17. CASE StartNet
  <2>1. Shape' /\ Chain'
    BY Kept, <1>17 DEF StartNet, Idle, Chain
  <2>2. BuffersOK' /\ CountersOK' /\ ControlOK'
    BY SMTT(30), <1>17 DEF StartNet, BuffersOK, CountersOK, ControlOK
  <2>3. Filling' /\ Idle' /\ Ending' /\ Outcome' /\ CountedIsRight'
    BY <1>17 DEF StartNet, CountersOK, Filling, Idle, ControlOK, Ending, Outcome,
       CountedIsRight
  <2> QED
    BY <2>1, <2>2, <2>3
<1>18. CASE StartNone
  <2>1. Shape' /\ Chain'
    BY Kept, <1>18 DEF StartNone, Idle, Chain
  <2>2. BuffersOK' /\ CountersOK' /\ ControlOK'
    BY SMTT(30), <1>18 DEF StartNone, BuffersOK, CountersOK, ControlOK
  <2>3. Filling' /\ Idle' /\ Ending' /\ Outcome' /\ CountedIsRight'
    BY <1>18 DEF StartNone, CountersOK, Filling, Idle, ControlOK, Ending, Outcome,
       CountedIsRight
  <2> QED
    BY <2>1, <2>2, <2>3
<1>19. CASE StartHalf
  <2>1. Shape' /\ Chain'
    BY Kept, <1>19 DEF StartHalf, Idle, Chain
  <2>2. BuffersOK' /\ CountersOK' /\ ControlOK'
    BY <1>19 DEF StartHalf, BuffersOK, CountersOK, ControlOK
  <2>3. Filling' /\ Idle' /\ Ending' /\ Outcome' /\ CountedIsRight'
    BY <1>19 DEF StartHalf, CountersOK, Filling, Idle, ControlOK, Ending, Outcome,
       CountedIsRight
  <2> QED
    BY <2>1, <2>2, <2>3
<1>20. CASE LoneJoined
  <2>1. ControlOK'
    <3>1. ui' \in UiPcs /\ cancel' \in BOOLEAN /\ resumable' \in BOOLEAN
      BY <1>20 DEF LoneJoined, ControlOK
    <3>2. UNCHANGED <<nvar, wvar, netdone, done, status, asked, result>>
      BY <1>20 DEF LoneJoined
    <3> QED BY <3>1, <3>2 DEF ControlOK
  <2>2. Shape' /\ Chain'
    BY Kept, <1>20 DEF LoneJoined, Idle, Chain
  <2>3. BuffersOK' /\ CountersOK'
    BY <1>20 DEF LoneJoined, BuffersOK, CountersOK
  <2>4. Filling' /\ Idle' /\ Ending' /\ Outcome' /\ CountedIsRight'
    BY <1>20 DEF LoneJoined, CountersOK, Filling, Idle, ControlOK, Ending, Outcome,
       CountedIsRight
  <2> QED
    BY <2>1, <2>2, <2>3, <2>4
<1>21. CASE InlineData
  <2>a. /\ ui = "inline" /\ ~Started
        /\ UNCHANGED <<slot, len, ring, nvar, wvar, out, cancel, main>>
    BY <1>21 DEF InlineData, Idle
  <2>0. PICK r \in 1..Total-written :
          /\ file' = [k \in Bytes |-> IF k \in written+1..written+r
                                      THEN sock + k - written ELSE file[k]]
          /\ sock' = sock + r /\ written' = written + r
    BY <1>21 DEF InlineData
  <2>b. sock = written /\ count = 0 /\ r \in Nat /\ r > 0 /\ written + r <= Total
    BY <2>0, <2>a DEF Filling, Idle, CountersOK
  <2>1. BuffersOK'
    <3>1. \A k \in Bytes : k \in written+1..written+r => sock + k - written \in 0..Total
      BY <2>b DEF CountersOK
    <3> QED BY <2>0, <3>1, <2>a DEF BuffersOK, CountersOK
  <2>2. CountersOK'
    BY <2>0, <2>a, <2>b DEF CountersOK
  <2>3. ControlOK'
    BY <2>a DEF ControlOK
  <2>4. Shape'
    BY <2>a DEF Shape
  <2>5. Chain'
    <3>1. \A i \in Index : ~Filled(i)'
      BY <2>a, <2>b DEF Filled, CountersOK
    <3> QED BY <3>1, <2>a DEF Chain, Idle
  <2>6. Filling'
    BY <2>0, <2>a, <2>b DEF Filling, Idle
  <2>7. Idle'
    BY <2>a DEF Idle
  <2>8. Ending'
    BY <2>a DEF Ending, Idle
  <2>9. Outcome'
    BY <2>a DEF Outcome
  <2>10. CountedIsRight'
    <3>1. ASSUME NEW k \in 1..written+r PROVE file'[k] = k
      BY <2>0, <2>b DEF CountedIsRight, CountersOK
    <3> QED BY <3>1, <2>0 DEF CountedIsRight
  <2> QED
    BY <2>1, <2>2, <2>3, <2>4, <2>5, <2>6, <2>7, <2>8, <2>9, <2>10
<1>22. CASE InlineEnd
  <2>1. Shape' /\ Chain'
    BY Kept, <1>22 DEF InlineEnd, Idle, Chain
  <2>2. BuffersOK' /\ CountersOK' /\ ControlOK'
    BY <1>22 DEF InlineEnd, BuffersOK, CountersOK, ControlOK
  <2>3. Filling' /\ Idle' /\ Ending' /\ Outcome' /\ CountedIsRight'
    BY <1>22 DEF InlineEnd, CountersOK, Filling, Idle, ControlOK, Ending, Outcome,
       CountedIsRight
  <2> QED
    BY <2>1, <2>2, <2>3
<1>23. CASE InlineDrop
  <2>1. Shape' /\ Chain'
    BY Kept, <1>23 DEF InlineDrop, Idle, Chain
  <2>2. BuffersOK' /\ CountersOK' /\ ControlOK'
    BY <1>23 DEF InlineDrop, BuffersOK, CountersOK, ControlOK
  <2>3. Filling' /\ Idle' /\ Ending' /\ Outcome' /\ CountedIsRight'
    BY <1>23 DEF InlineDrop, CountersOK, Filling, Idle, ControlOK, Ending, Outcome,
       CountedIsRight
  <2> QED
    BY <2>1, <2>2, <2>3
<1>24. CASE Finalize
  <2>1. Shape' /\ Chain'
    BY Kept, <1>24 DEF Finalize, Idle, Chain
  <2>2. BuffersOK' /\ CountersOK' /\ ControlOK'
    BY <1>24 DEF Finalize, BuffersOK, CountersOK, ControlOK
  <2>3. Filling' /\ Idle' /\ Ending' /\ Outcome' /\ CountedIsRight'
    BY <1>24 DEF Finalize, CountersOK, Filling, Idle, ControlOK, Ending, Outcome,
       CountedIsRight
  <2> QED
    BY <2>1, <2>2, <2>3
<1>25. CASE Stop
  <2>1. Shape' /\ Chain'
    BY Kept, <1>25 DEF Stop, Idle, Chain
  <2>2. BuffersOK' /\ CountersOK' /\ ControlOK'
    BY SMTT(30), <1>25 DEF Stop, BuffersOK, CountersOK, ControlOK
  <2>3. Filling' /\ Idle' /\ Ending' /\ Outcome' /\ CountedIsRight'
    BY <1>25 DEF Stop, CountersOK, Filling, Idle, ControlOK, Ending, Outcome,
       CountedIsRight
  <2> QED
    BY <2>1, <2>2, <2>3
<1>26. CASE Join
  <2>1. ControlOK'
    <3>1. ui' \in UiPcs /\ cancel' \in BOOLEAN /\ resumable' \in BOOLEAN
      BY <1>26 DEF Join, ControlOK
    <3>2. UNCHANGED <<nvar, wvar, netdone, done, status, asked, result>>
      BY <1>26 DEF Join
    <3> QED BY <3>1, <3>2 DEF ControlOK
  <2>2. Shape' /\ Chain'
    BY Kept, <1>26 DEF Join, Idle, Chain
  <2>3. BuffersOK' /\ CountersOK'
    BY <1>26 DEF Join, BuffersOK, CountersOK
  <2>4. Filling' /\ Idle' /\ Ending' /\ Outcome' /\ CountedIsRight'
    BY <1>26 DEF Join, CountersOK, Filling, Idle, ControlOK, Ending, Outcome,
       CountedIsRight
  <2> QED
    BY <2>1, <2>2, <2>3, <2>4
<1>27. CASE WakeAll
  <2>1. Shape' /\ Chain'
    BY Kept, <1>27 DEF WakeAll, Idle, Chain
  <2>2. BuffersOK' /\ CountersOK' /\ ControlOK'
    BY SMTT(30), <1>27 DEF WakeAll, BuffersOK, CountersOK, ControlOK
  <2>3. Filling' /\ Idle' /\ Ending' /\ Outcome' /\ CountedIsRight'
    BY <1>27 DEF WakeAll, CountersOK, Filling, Idle, ControlOK, Ending, Outcome,
       CountedIsRight
  <2> QED
    BY <2>1, <2>2, <2>3
<1>28. CASE JoinEnd
  <2>1. Shape' /\ Chain'
    BY Kept, <1>28 DEF JoinEnd, Idle, Chain
  <2>2. BuffersOK' /\ CountersOK' /\ ControlOK'
    BY <1>28 DEF JoinEnd, BuffersOK, CountersOK, ControlOK
  <2>3. Filling' /\ Idle' /\ Ending' /\ Outcome' /\ CountedIsRight'
    BY <1>28 DEF JoinEnd, CountersOK, Filling, Idle, ControlOK, Ending, Outcome,
       CountedIsRight
  <2> QED
    BY <2>1, <2>2, <2>3
<1>29. CASE UNCHANGED vars
  <2>1. Shape' /\ Chain'
    BY Kept, <1>29 DEF Chain
  <2> QED
    BY SMTT(30), <2>1, <1>29 DEF BuffersOK, CountersOK, ControlOK, Filling, Idle, Ending,
       Outcome, CountedIsRight
<1> QED
  BY <1>1, <1>2, <1>3, <1>4, <1>5, <1>6, <1>7, <1>8, <1>9, <1>10, <1>11, <1>12,
     <1>13, <1>14, <1>15, <1>16, <1>17, <1>18, <1>19, <1>20, <1>21, <1>22, <1>23,
     <1>24, <1>25, <1>26, <1>27, <1>28, <1>29
     DEF Next, Net, Wr, Ui, Over

-----------------------------------------------------------------------------
(* Theorems *)

\* Every behaviour of the pump satisfies IInv.
THEOREM Invariance == Spec => []IInv
<1>1. Init => IInv BY InitIInv
<1>2. IInv /\ [Next]_vars => IInv' BY Inductive
<1> QED BY <1>1, <1>2, PTL DEF Spec

\* Types: in particular no count of bytes passes the length of the file and
\* both indices stay in the ring, whatever the threads and the UI do.
THEOREM TypeCorrect == Spec => []TypeOK
<1>1. IInv => TypeOK BY DEF IInv, TypeOK
<1> QED BY <1>1, Invariance, PTL

\* The bytes a transfer is recorded to have put on the card are there, and are
\* the right ones (cbody_len in rx_wr_fn, and client_reset's "have").
THEOREM ProgressExact == Spec => []CountedIsRight
<1>1. IInv => CountedIsRight BY DEF IInv
<1> QED BY <1>1, Invariance, PTL

\* The net thread and the writer never use the same slot (rx_net_fn's recv
\* and rx_wr_fn's fwrite, both outside the mutex).
THEOREM NoSlotRace == Spec => []SlotsDisjoint
<1>1. IInv => SlotsDisjoint
  <2> SUFFICES ASSUME IInv, net = "recv", wr = "write" PROVE head # tail
    BY DEF SlotsDisjoint
  <2>1. count < NBuf /\ count > 0 BY DEF IInv, Filling, Chain
  <2> QED BY <2>1, Ends DEF IInv
<1> QED BY <1>1, Invariance, PTL

\* A transfer reported as received is complete, if nobody stopped it.
LEMMA OkIsWhole ==
  ASSUME IInv, ui = "pump", done, status = "OK", ~asked
  PROVE  written = Total
<1>1. Joined /\ wrst = "OK" /\ netst = "OK" /\ Started
  BY DEF IInv, Ending, Idle, ControlOK
<1>2. netdone /\ count = 0
  BY <1>1 DEF IInv, Outcome
<1>3. received = Total
  BY <1>1 DEF IInv, Ending
<1> QED BY <1>1, <1>2, <1>3 DEF IInv, Chain, Drained

\* Each step, seen from outside the ring, is one of PushStream, or the one
\* exception a resume query opens.
LEMMA StreamStep ==
  ASSUME IInv, IInv', [Next]_vars
  PROVE  [Stream!Next \/ AcceptShort]_<<written, result>>
<1> USE DEF Stream!Next, Stream!Land, Stream!Accept, Stream!Keep, Stream!Remove
<1>0. CASE UNCHANGED <<written, result>> BY <1>0
<1>1. CASE WrWrite
  <2>1. len[head] >= 1 /\ len[head] \in Nat /\ result = "none"
    BY <1>1, Ends DEF WrWrite, IInv, Chain, BuffersOK, CountersOK, Idle, Outcome
  <2> QED BY <1>1, <2>1 DEF WrWrite, IInv, CountersOK
<1>2. CASE InlineData
  BY <1>2 DEF InlineData, IInv, CountersOK, Outcome
<1>3. CASE InlineEnd
  BY <1>3 DEF InlineEnd, IInv, Outcome
<1>4. CASE InlineDrop
  BY <1>4 DEF InlineDrop, IInv, Outcome
<1>5. CASE Finalize
  <2>1. result = "none" /\ UNCHANGED written
    BY <1>5 DEF Finalize, IInv, Outcome
  <2>2. CASE status = "OK" /\ ~asked
    BY <1>5, <2>1, <2>2, OkIsWhole DEF Finalize
  <2>3. CASE status = "OK" /\ asked
    BY <1>5, <2>1, <2>3 DEF Finalize, AcceptShort
  <2>4. CASE status # "OK"
    BY <1>5, <2>1, <2>4 DEF Finalize
  <2> QED BY <2>2, <2>3, <2>4
<1>6. CASE JoinEnd
  BY <1>6 DEF JoinEnd, IInv, Outcome
<1>7. CASE Net
  BY <1>7 DEF Net, NetLoop, NetClaim, NetFill, NetData, NetQuiet, NetLost,
              NetPublish, NetEnd, NetExit
<1>8. CASE WrTake \/ WrFail \/ WrWake \/ WrFree \/ WrExit
  BY <1>8 DEF WrTake, WrFail, WrWake, WrFree, WrExit
<1>9. CASE StartWriter \/ StartNet \/ StartNone \/ StartHalf \/ LoneJoined
           \/ Stop \/ Join \/ WakeAll
  BY <1>9 DEF StartWriter, StartNet, StartNone, StartHalf, LoneJoined, Stop, Join,
     WakeAll
<1> QED BY <1>0, <1>1, <1>2, <1>3, <1>4, <1>5, <1>6, <1>7, <1>8, <1>9
        DEF Next, Wr, Ui, Over

\* The pump implements PushStream, but for the acceptance of a push that a
\* resume query had stopped.
THEOREM ImplementsStream == Spec => StreamUnlessStopped
<1>1. Init => Stream!Init BY DEF Init, Stream!Init
<1>2. IInv /\ IInv' /\ [Next]_vars => [Stream!Next \/ AcceptShort]_<<written, result>>
  BY StreamStep
<1> QED BY <1>1, <1>2, Invariance, PTL DEF Spec, StreamUnlessStopped
=============================================================================
