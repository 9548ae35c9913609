-------------------------- MODULE InvServerProofs ---------------------------
(***************************************************************************)
(* The always-on server, for any number of connections and faults: types,  *)
(* the place of every open connection, the owner of every worker thread,   *)
(* and the end of the item of a streamed push.                             *)
(*                                                                         *)
(* The last needs all the others.  An item is named after the connection   *)
(* in the main slot, and is forgotten when that connection is; so no other *)
(* connection may carry the name of a pending item into the slot (Items,   *)
(* from Placed), and what is in the slot under an item's name must be at   *)
(* the work its request asked for (Working), which a rebind leaves alone.  *)
(***************************************************************************)
EXTENDS InvServer, FiniteSetTheorems, TLAPS

\* An open connection is in the backlog or a slot, in one place; what is there is open.
Placed ==
  /\ Range(backlog) \cup ({main, side} \ {None}) = open
  /\ main \notin Range(backlog) /\ side \notin Range(backlog)
  /\ main # None => main # side
  /\ \A i, j \in DOMAIN backlog : backlog[i] = backlog[j] => i = j

\* A frame serves only what is there, and without a socket nothing is.
Framed ==
  /\ pc = "serve" => main # None
  /\ pc = "read" => side # None
  /\ pc \in {"read", "main", "serve"} => listener # "none"
  /\ listener = "none" => main = None /\ side = None /\ backlog = <<>>

\* The main slot is at what its request asked for.
KindOf(d) == IF d \in {"pump", "inline"} THEN "push" ELSE d
Working == main # None /\ doing # "head" => kind[main] = KindOf(doing)

\* Who waits has no item, and the item on show is not that of a connection whose
\* request has not been read.
Items ==
  /\ item \in items \cup {None}
  /\ side \notin items /\ Range(backlog) \cap items = {}
  /\ item # None /\ main = item => doing \in {"pump", "inline", "form"}

IInv == TypeOK /\ Placed /\ Framed /\ WorkerIsOwned /\ Working /\ Items

\* What ItemEndsWithPush says of a step.
Ends == item # None /\ main = item /\ kind[item] = "push" /\ main' # item /\ inv_open'
          => item' = None /\ item \notin items'

-----------------------------------------------------------------------------
(* Sequences. *)

LEMMA Taking ==
  ASSUME backlog \in Seq(Conns), backlog # <<>>,
         \A i, j \in DOMAIN backlog : backlog[i] = backlog[j] => i = j
  PROVE  /\ Head(backlog) \in Conns /\ Tail(backlog) \in Seq(Conns)
         /\ Range(backlog) = Range(Tail(backlog)) \cup {Head(backlog)}
         /\ Head(backlog) \notin Range(Tail(backlog))
         /\ \A i, j \in DOMAIN Tail(backlog) : Tail(backlog)[i] = Tail(backlog)[j] => i = j
<1> DEFINE t == Tail(backlog)
<1>1. /\ Len(backlog) \in Nat /\ Len(backlog) >= 1 /\ DOMAIN backlog = 1..Len(backlog)
      /\ Head(backlog) = backlog[1] /\ backlog[1] \in Conns
  OBVIOUS
<1>2. /\ t \in Seq(Conns) /\ DOMAIN t = 1..(Len(backlog) - 1)
      /\ \A i \in DOMAIN t : t[i] = backlog[i + 1]
  BY <1>1
<1> HIDE DEF t
<1>3. \A i \in DOMAIN t : i + 1 \in DOMAIN backlog /\ i + 1 # 1 BY <1>1, <1>2
<1>4. \A i \in DOMAIN backlog : i = 1 \/ (i - 1 \in DOMAIN t /\ t[i - 1] = backlog[i])
  BY <1>1, <1>2
<1>5. Range(backlog) \subseteq Range(t) \cup {Head(backlog)} BY <1>1, <1>4 DEF Range
<1>6. Range(t) \cup {Head(backlog)} \subseteq Range(backlog) BY <1>1, <1>2, <1>3 DEF Range
<1>7. Head(backlog) \notin Range(t) BY <1>1, <1>2, <1>3 DEF Range
<1>8. \A i, j \in DOMAIN t : t[i] = t[j] => i = j BY <1>1, <1>2, <1>3
<1> QED BY <1>1, <1>2, <1>5, <1>6, <1>7, <1>8 DEF t

LEMMA Queueing ==
  ASSUME backlog \in Seq(Conns), NEW c \in Conns, c \notin Range(backlog),
         \A i, j \in DOMAIN backlog : backlog[i] = backlog[j] => i = j
  PROVE  LET b == Append(backlog, c) IN
         /\ b \in Seq(Conns) /\ Range(b) = Range(backlog) \cup {c}
         /\ \A i, j \in DOMAIN b : b[i] = b[j] => i = j
<1> DEFINE b == Append(backlog, c)
<1>1. /\ Len(backlog) \in Nat /\ DOMAIN backlog = 1..Len(backlog)
      /\ b \in Seq(Conns) /\ DOMAIN b = 1..(Len(backlog) + 1)
      /\ b[Len(backlog) + 1] = c /\ \A i \in DOMAIN backlog : b[i] = backlog[i]
  OBVIOUS
<1> HIDE DEF b
<1>2. \A i \in DOMAIN b : i \in DOMAIN backlog \/ i = Len(backlog) + 1 BY <1>1
<1>3. \A i \in DOMAIN backlog : i \in DOMAIN b /\ backlog[i] # c BY <1>1 DEF Range
<1>4. Len(backlog) + 1 \in DOMAIN b BY <1>1
<1>5. Range(b) \subseteq Range(backlog) \cup {c} BY <1>1, <1>2 DEF Range
<1>6. Range(backlog) \cup {c} \subseteq Range(b) BY <1>1, <1>3, <1>4 DEF Range
<1>7. \A i, j \in DOMAIN b : b[i] = b[j] => i = j BY <1>1, <1>2, <1>3
<1> QED BY <1>1, <1>5, <1>6, <1>7 DEF b

LEMMA Emptied == Range(<<>>) = {} /\ <<>> \in Seq(Conns) /\ DOMAIN <<>> = {}
BY DEF Range

-----------------------------------------------------------------------------
(* The world around the frames: the PC, the worker, sleep, the link, the user. *)

\* A step that leaves the places, and what the main slot is at, alone.
LEMMA Unmoved ==
  ASSUME IInv, TypeOK', WorkerIsOwned',
         UNCHANGED <<backlog, open, main, side, doing, kind, item, items>>,
         pc' = pc \/ pc' \in {"wake", "link", "recv", "side", "tick"}
                  \/ (pc' = "main" /\ listener # "none"),
         listener' = listener \/ (listener # "none" /\ listener' # "none")
  PROVE  IInv' /\ Ends
<1>1. Placed' BY DEF IInv, Placed, Range
<1>2. Framed' BY DEF IInv, Framed
<1>3. Working' /\ Items' BY DEF IInv, Working, KindOf, Items, Range
<1>4. Ends BY DEF Ends
<1> QED BY <1>1, <1>2, <1>3, <1>4 DEF IInv

LEMMA ConnectStep == ASSUME IInv, NEW c \in Conns, Connect(c) PROVE IInv' /\ Ends
<1> USE DEF IInv
<1>1. /\ c \notin open \cup items /\ listener = "live" /\ pc = "wake"
      /\ open' = open \cup {c} /\ backlog' = Append(backlog, c)
      /\ UNCHANGED <<pc, net, sent, lost, mute, side, slot, live, folder, faults>>
  BY DEF Connect
<1>2. PICK k \in Kinds[c] : kind' = [kind EXCEPT ![c] = k] BY DEF Connect
<1>3. k \in Requests BY ServerAssumption
<1>4. kind' \in [Conns -> Requests] /\ \A d \in Conns \ {c} : kind'[d] = kind[d]
  BY <1>2, <1>3 DEF TypeOK
<1>5. /\ backlog' \in Seq(Conns) /\ Range(backlog') = Range(backlog) \cup {c}
      /\ \A i, j \in DOMAIN backlog' : backlog'[i] = backlog'[j] => i = j
  BY <1>1, Queueing DEF TypeOK, Placed
<1>6. c # None /\ c # main /\ c # side BY <1>1, ServerAssumption DEF Placed
<1>7. TypeOK' BY <1>1, <1>4, <1>5 DEF TypeOK, net, slot, live
<1>8. Placed' BY <1>1, <1>5, <1>6 DEF Placed, slot, Range
<1>9. Framed' BY <1>1 DEF Framed, net, slot
<1>10. WorkerIsOwned' BY <1>1 DEF WorkerIsOwned, slot
<1>11. Working' BY <1>1, <1>4, <1>6 DEF Working, KindOf, slot, TypeOK
<1>12. Range(backlog)' \cap items' = {} BY <1>1, <1>5 DEF Items, live, Range
<1>13. Items' BY <1>1, <1>12 DEF Items, live, slot
<1>14. Ends BY <1>1 DEF Ends, slot, live
<1> QED BY <1>7, <1>8, <1>9, <1>10, <1>11, <1>13, <1>14

LEMMA PeerSteps ==
  ASSUME IInv, NEW c \in Conns, SendHead(c) \/ HangUp(c)
  PROVE  IInv' /\ Ends
<1>1. UNCHANGED <<pc, listener, backlog, open, main, side, doing, kind, item, items, worker>>
  BY DEF SendHead, HangUp, net, slot, live
<1>2. TypeOK'
  BY ServerAssumption DEF IInv, TypeOK, SendHead, HangUp, Fault, net, slot, live
<1>3. WorkerIsOwned' BY <1>1 DEF IInv, WorkerIsOwned
<1> QED BY <1>1, <1>2, <1>3, Unmoved

LEMMA WorldSteps ==
  ASSUME IInv, WorkerEnds \/ Sleep \/ LinkReturns \/ UserCancel
  PROVE  IInv' /\ Ends
<1>1. /\ UNCHANGED <<pc, backlog, open, main, side, doing, kind, item, items>>
      /\ listener' = listener \/ (listener # "none" /\ listener' # "none")
      /\ worker' = worker \/ (worker = "run" /\ worker' \in {"ok", "fail"})
  BY DEF WorkerEnds, Sleep, LinkReturns, UserCancel, net, slot, live, pc_
<1>2. TypeOK'
  <2>1. CASE WorkerEnds BY <2>1 DEF IInv, TypeOK, WorkerEnds, net, slot, live, pc_
  <2>2. CASE Sleep BY <2>2, ServerAssumption DEF IInv, TypeOK, Sleep, Fault, net, slot, live, pc_
  <2>3. CASE LinkReturns BY <2>3 DEF IInv, TypeOK, LinkReturns, net, slot, live, pc_
  <2>4. CASE UserCancel
    BY <2>4, ServerAssumption DEF IInv, TypeOK, UserCancel, Fault, net, slot, live, pc_
  <2> QED BY <2>1, <2>2, <2>3, <2>4
<1>3. WorkerIsOwned' BY <1>1 DEF IInv, WorkerIsOwned
<1> QED BY <1>1, <1>2, <1>3, Unmoved

-----------------------------------------------------------------------------
(* The listening socket. *)

\* Whatever is cleared, nothing is left in the slots.
LEMMA Clearing ==
  ASSUME IInv, Cleared,
         UNCHANGED <<item, items>> \/ LiveRecvEnd,
         pc' \in {"wake", "link", "recv"}
  PROVE  /\ Placed' /\ Framed' /\ WorkerIsOwned' /\ Working' /\ Items'
         /\ backlog' \in Seq(Conns)
<1>1. None \notin items BY ServerAssumption DEF IInv, TypeOK
<1>2. Range(backlog)' = {} /\ backlog' \in Seq(Conns) /\ DOMAIN backlog' = {}
  BY Emptied DEF Cleared, Range
<1>3. Placed' BY <1>2 DEF Cleared, Placed
<1>4. Framed' BY DEF Cleared, Framed
<1>5. WorkerIsOwned' /\ Working' BY DEF Cleared, WorkerIsOwned, Working
<1>6. items' \subseteq items /\ item' \in items' \cup {None}
  BY DEF IInv, Items, LiveRecvEnd
<1>7. Items' BY <1>1, <1>2, <1>6 DEF Cleared, Items
<1> QED BY <1>2, <1>3, <1>4, <1>5, <1>7

\* A push with an item is being received.
LEMMA Pushing ==
  ASSUME IInv, item # None, main = item, kind[item] = "push"
  PROVE  doing \in {"pump", "inline"} /\ Receiving
<1>1. doing \in {"pump", "inline", "form"} BY DEF IInv, Items
<1>2. kind[main] = KindOf(doing) BY <1>1 DEF IInv, Working
<1>3. doing # "form" BY <1>2 DEF KindOf
<1>4. listener # "none" BY DEF IInv, Framed
<1> QED BY <1>1, <1>3, <1>4 DEF Receiving

LEMMA SwitchStep == ASSUME IInv, Switch PROVE IInv' /\ Ends
<1> USE DEF IInv
<1>1. /\ pc = "wake" /\ Fault /\ inv_open' = ~inv_open
      /\ UNCHANGED <<pc, pc_, live>>
  BY DEF Switch
<1>2. CASE inv_open
  <2>1. /\ listener' = "none" /\ Cleared /\ UNCHANGED <<link, link_up, gap, folder>>
    BY <1>2 DEF Switch
  <2>2. /\ Placed' /\ Framed' /\ WorkerIsOwned' /\ Working' /\ Items' /\ backlog' \in Seq(Conns)
    BY <1>1, <2>1, Clearing DEF live
  <2>3. TypeOK' BY <1>1, <2>1, <2>2, ServerAssumption DEF TypeOK, Cleared, Fault, pc_, live
  <2>4. Ends BY <1>1, <1>2 DEF Ends
  <2> QED BY <2>2, <2>3, <2>4
<1>3. CASE ~inv_open
  <2>1. /\ listener' = "live" /\ link' = "same" /\ folder' = None
        /\ UNCHANGED <<open, backlog, side, slot>>
    BY <1>3 DEF Switch
  <2>2. TypeOK' BY <1>1, <2>1, ServerAssumption DEF TypeOK, Fault, pc_, live, slot
  <2>3. Placed' BY <2>1 DEF Placed, slot, Range
  <2>4. Framed' BY <1>1, <2>1 DEF Framed
  <2>5. WorkerIsOwned' /\ Working' BY <1>1, <2>1 DEF WorkerIsOwned, Working, KindOf, slot, pc_
  <2>6. Items' BY <1>1, <2>1 DEF Items, Range, slot, live
  <2>7. Ends BY <1>1, <2>1 DEF Ends, slot
  <2> QED BY <2>2, <2>3, <2>4, <2>5, <2>6, <2>7
<1> QED BY <1>2, <1>3

LEMMA WakeCheckStep == ASSUME IInv, WakeCheck PROVE IInv' /\ Ends
<1> USE DEF IInv
<1>1. pc' = "link" /\ UNCHANGED <<inv_open, pc_, folder, faults>> BY DEF WakeCheck
<1>2. CASE gap /\ ~Receiving
  <2>1. Rebind /\ (UNCHANGED <<item, items, quit>> \/ LiveRecvEnd)
    BY <1>2 DEF WakeCheck, live
  <2>2. Cleared /\ listener' \in {"live", "none"} /\ link' \in {link, "same"}
    BY <2>1 DEF Rebind
  <2>3. /\ Placed' /\ Framed' /\ WorkerIsOwned' /\ Working' /\ Items' /\ backlog' \in Seq(Conns)
    BY <1>1, <2>1, <2>2, Clearing
  <2>4. TypeOK' BY <1>1, <2>1, <2>2, <2>3 DEF TypeOK, Cleared, LiveRecvEnd, pc_
  <2>5. Ends BY <1>2, Pushing DEF Ends
  <2> QED BY <2>3, <2>4, <2>5
<1>3. CASE ~(gap /\ ~Receiving)
  <2>1. UNCHANGED <<listener, link, link_up, open, backlog, side, slot, live>>
    BY <1>3 DEF WakeCheck
  <2>2. TypeOK' BY <1>1, <2>1 DEF TypeOK, slot, live, pc_
  <2>3. WorkerIsOwned' BY <2>1 DEF WorkerIsOwned, slot
  <2> QED BY <1>1, <2>1, <2>2, <2>3, Unmoved DEF slot, live, pc_
<1> QED BY <1>2, <1>3

LEMMA LinkCheckStep == ASSUME IInv, LinkCheck PROVE IInv' /\ Ends
<1> USE DEF IInv
<1>1. pc' = "recv" /\ UNCHANGED <<inv_open, gap, pc_, folder, faults>> BY DEF LinkCheck
<1>2. CASE LinkDue
  <2>1. Rebind /\ (UNCHANGED <<item, items, quit>> \/ LiveRecvEnd)
    BY <1>2 DEF LinkCheck, live
  <2>2. Cleared /\ listener' \in {"live", "none"} /\ link' \in {link, "same"}
    BY <2>1 DEF Rebind
  <2>3. /\ Placed' /\ Framed' /\ WorkerIsOwned' /\ Working' /\ Items' /\ backlog' \in Seq(Conns)
    BY <1>1, <2>1, <2>2, Clearing
  <2>4. TypeOK' BY <1>1, <2>1, <2>2, <2>3 DEF TypeOK, Cleared, LiveRecvEnd, pc_
  <2>5. Ends BY <1>2, Pushing DEF Ends, LinkDue
  <2> QED BY <2>3, <2>4, <2>5
<1>3. CASE ~LinkDue
  <2>1. UNCHANGED <<listener, link, open, backlog, side, slot, live>>
    BY <1>3 DEF LinkCheck
  <2>2. TypeOK' BY <1>1, <2>1 DEF TypeOK, slot, live, pc_
  <2>3. WorkerIsOwned' BY <2>1 DEF WorkerIsOwned, slot
  <2> QED BY <1>1, <2>1, <2>2, <2>3, Unmoved DEF slot, live, pc_
<1> QED BY <1>2, <1>3

-----------------------------------------------------------------------------
(* A frame, as far as the main slot. *)

\* A slot is emptied.
LEMMA FreeingMain ==
  ASSUME IInv, open' = open \ {main}, main' = None, UNCHANGED <<backlog, side>>
  PROVE  Placed'
BY ServerAssumption DEF IInv, TypeOK, Placed, Range

LEMMA FreeingSide ==
  ASSUME IInv, open' = open \ {side}, side' = None, UNCHANGED <<backlog, main>>
  PROVE  Placed'
BY ServerAssumption DEF IInv, TypeOK, Placed, Range

LEMMA RecvCancelStep == ASSUME IInv, RecvCancel PROVE IInv' /\ Ends
<1> USE DEF IInv
<1>1. /\ LiveRecvEnd /\ open' = open \ {main} /\ main' = None /\ doing' = "head"
      /\ worker' = "none" /\ halt' = FALSE /\ pc' = "tick"
      /\ UNCHANGED <<net, backlog, pc_, side, folder, faults>>
  BY DEF RecvCancel, Ended
<1>2. None \notin items BY ServerAssumption DEF TypeOK
<1>3. TypeOK' BY <1>1 DEF TypeOK, LiveRecvEnd, net, pc_
<1>4. Placed' BY <1>1, FreeingMain
<1>5. Framed' BY <1>1 DEF Framed, net
<1>6. WorkerIsOwned' /\ Working' BY <1>1 DEF WorkerIsOwned, Working
<1>7. Items' BY <1>1, <1>2 DEF Items, LiveRecvEnd, Range
<1>8. Ends BY <1>1, <1>2 DEF Ends, LiveRecvEnd, TypeOK
<1> QED BY <1>3, <1>4, <1>5, <1>6, <1>7, <1>8

\* The item of what comes in is named after the main slot, which no other has.
LEMMA RecvBeginStep == ASSUME IInv, RecvBegin PROVE IInv' /\ Ends
<1> USE DEF IInv
<1>1. /\ pc' = "side" /\ UNCHANGED <<net, backlog, open, pc_, side, slot, quit, folder, faults>>
  BY DEF RecvBegin
<1>2. \/ item' = main /\ items' = items \cup {main} /\ Receiving
      \/ item' = item /\ items' = items
  BY DEF RecvBegin
<1>3. TypeOK' BY <1>1, <1>2 DEF TypeOK, Receiving, net, slot, pc_
<1>4. Placed' BY <1>1 DEF Placed, slot, Range
<1>5. Framed' BY <1>1 DEF Framed, net, slot
<1>6. WorkerIsOwned' /\ Working' BY <1>1 DEF WorkerIsOwned, Working, KindOf, slot, pc_
<1>7. Items'
  <2>1. CASE item' = main /\ items' = items \cup {main} /\ Receiving
    BY <1>1, <2>1 DEF Items, Placed, Receiving, Range, slot
  <2>2. CASE item' = item /\ items' = items
    BY <1>1, <2>2 DEF Items, Range, slot
  <2> QED BY <1>2, <2>1, <2>2
<1>8. Ends BY <1>1 DEF Ends, slot
<1> QED BY <1>3, <1>4, <1>5, <1>6, <1>7, <1>8

LEMMA PassSteps ==
  ASSUME IInv, PollNothing \/ SideNobody \/ MainNobody
  PROVE  IInv' /\ Ends
<1>1. /\ pc' = "tick" \/ (pc' = "main" /\ listener # "none")
      /\ UNCHANGED <<net, backlog, open, pc_, side, slot, live, folder, faults>>
  BY DEF PollNothing, SideNobody, MainNobody
<1>2. TypeOK' BY <1>1 DEF IInv, TypeOK, net, slot, live, pc_
<1>3. WorkerIsOwned' BY <1>1 DEF IInv, WorkerIsOwned, slot
<1> QED BY <1>1, <1>2, <1>3, Unmoved DEF net, slot, live, pc_

LEMMA TickSteps == ASSUME IInv, Tick \/ PanelTick PROVE IInv' /\ Ends
<1>1. /\ pc' = "wake" /\ folder' \in {folder, None}
      /\ sent' = sent \cap open /\ lost' = lost \cap open /\ mute' = mute \cap open
      /\ UNCHANGED <<net, backlog, open, kind, side, slot, live, faults>>
  BY DEF Tick, PanelTick, EndOfPoll
<1>2. TypeOK' BY <1>1 DEF IInv, TypeOK, net, slot, live
<1>3. WorkerIsOwned' BY <1>1 DEF IInv, WorkerIsOwned, slot
<1> QED BY <1>1, <1>2, <1>3, Unmoved DEF net, slot, live

-----------------------------------------------------------------------------
(* The side slot. *)

\* What becomes of a connection there: it stays, ends, or has the main slot.
LEMMA SideHeadStep ==
  ASSUME IInv, side # None, SideHead(side), pc' = "main", listener # "none",
         UNCHANGED <<net, pc_, live, folder, faults>>
  PROVE  IInv' /\ Ends
<1> USE DEF IInv
<1>1. side \in Conns /\ side \notin Range(backlog) /\ main # side /\ side \in open
  BY ServerAssumption DEF TypeOK, Placed
<1>2. \/ /\ open' \in {open, open \ {side}} /\ UNCHANGED <<main, doing, worker, backlog>>
         /\ side' = IF open' = open THEN side ELSE None
      \/ /\ main = None /\ main' = side /\ doing' = "head" /\ side' = None
         /\ UNCHANGED <<open, backlog, worker>>
  BY <1>1 DEF SideHead, SideQuick, SidePark, Ended, slot
<1>3. TypeOK' BY <1>1, <1>2 DEF TypeOK, net, pc_, live
<1>4. Framed' BY <1>2 DEF Framed, net
<1>5. CASE /\ open' \in {open, open \ {side}} /\ UNCHANGED <<main, doing, worker, backlog>>
           /\ side' = IF open' = open THEN side ELSE None
  <2>1. Placed'
    <3>1. CASE open' = open BY <1>5, <3>1 DEF Placed, Range
    <3>2. CASE open' # open BY <1>5, <3>2, FreeingSide
    <3> QED BY <3>1, <3>2
  <2>2. WorkerIsOwned' /\ Working' BY <1>5 DEF WorkerIsOwned, Working, KindOf, pc_
  <2>3. None \notin items BY ServerAssumption DEF TypeOK
  <2>4. Items' BY <1>5, <2>3 DEF Items, Range, live
  <2>5. Ends BY <1>5 DEF Ends
  <2> QED BY <1>3, <1>4, <2>1, <2>2, <2>4, <2>5
<1>6. CASE /\ main = None /\ main' = side /\ doing' = "head" /\ side' = None
           /\ UNCHANGED <<open, backlog, worker>>
  <2>1. Placed' BY <1>1, <1>6, ServerAssumption DEF Placed, TypeOK, Range
  <2>2. WorkerIsOwned' /\ Working' BY <1>6 DEF WorkerIsOwned, Working
  <2>3. None \notin items BY ServerAssumption DEF TypeOK
  <2>4. Items' BY <1>6, <2>3 DEF Items, Range, live
  <2>5. Ends BY <1>6 DEF Ends
  <2> QED BY <1>3, <1>4, <2>1, <2>2, <2>4, <2>5
<1> QED BY <1>2, <1>5, <1>6

LEMMA SideSteps == ASSUME IInv, SideStep \/ SideRead PROVE IInv' /\ Ends
BY SideHeadStep DEF SideStep, SideRead, IInv, Framed

LEMMA SideAcceptStep == ASSUME IInv, SideAccept PROVE IInv' /\ Ends
<1> USE DEF IInv
<1>1. /\ side = None /\ listener = "live" /\ backlog # <<>> /\ main # None /\ pc' = "read"
      /\ side' = Head(backlog) /\ backlog' = Tail(backlog)
      /\ UNCHANGED <<net, open, pc_, slot, live, folder, faults>>
  BY DEF SideAccept, CanAccept, Long
<1>2. /\ side' \in Conns /\ backlog' \in Seq(Conns)
      /\ Range(backlog) = Range(backlog') \cup {side'} /\ side' \notin Range(backlog')
      /\ \A i, j \in DOMAIN backlog' : backlog'[i] = backlog'[j] => i = j
  BY <1>1, Taking DEF TypeOK, Placed
<1>3. side' # None BY <1>2, ServerAssumption
<1>4. TypeOK' BY <1>1, <1>2 DEF TypeOK, net, pc_, slot, live
<1>5. Placed' BY <1>1, <1>2, <1>3 DEF Placed, slot, Range
<1>6. Framed' BY <1>1, <1>3 DEF Framed, net
<1>7. WorkerIsOwned' /\ Working' BY <1>1 DEF WorkerIsOwned, Working, KindOf, slot, pc_
<1>8. Items' BY <1>1, <1>2 DEF Items, slot, live, Range
<1>9. Ends BY <1>1 DEF Ends, slot
<1> QED BY <1>4, <1>5, <1>6, <1>7, <1>8, <1>9

-----------------------------------------------------------------------------
(* The main slot. *)

LEMMA MainAcceptStep == ASSUME IInv, MainAccept PROVE IInv' /\ Ends
<1> USE DEF IInv
<1>1. /\ main = None /\ listener = "live" /\ backlog # <<>> /\ pc' = "serve"
      /\ main' = Head(backlog) /\ backlog' = Tail(backlog) /\ doing' = "head"
      /\ UNCHANGED <<net, open, pc_, side, worker, halt, live, folder, faults>>
  BY DEF MainAccept, CanAccept
<1>2. /\ main' \in Conns /\ backlog' \in Seq(Conns)
      /\ Range(backlog) = Range(backlog') \cup {main'} /\ main' \notin Range(backlog')
      /\ \A i, j \in DOMAIN backlog' : backlog'[i] = backlog'[j] => i = j
  BY <1>1, Taking DEF TypeOK, Placed
<1>3. main' # None BY <1>2, ServerAssumption
<1>4. TypeOK' BY <1>1, <1>2 DEF TypeOK, net, pc_, live
<1>5. Placed' BY <1>1, <1>2, <1>3 DEF Placed, Range
<1>6. Framed' BY <1>1, <1>3 DEF Framed, net
<1>7. WorkerIsOwned' /\ Working' BY <1>1 DEF WorkerIsOwned, Working
<1>8. Items' BY <1>1, <1>2 DEF Items, live, Range
<1>9. Ends BY <1>1 DEF Ends
<1> QED BY <1>4, <1>5, <1>6, <1>7, <1>8, <1>9

LEMMA Occupied == ASSUME IInv, Serving PROVE main # None /\ main \in Conns /\ listener # "none"
BY DEF IInv, TypeOK, Framed, Serving

\* The main slot goes on, or is emptied; if it was receiving, the item ends with it.
LEMMA ServeStep ==
  ASSUME IInv, Serving, pc' = "tick",
         UNCHANGED <<net, backlog, pc_, side, faults>>,
         halt' \in {halt, FALSE}, folder' \in Conns \cup {None},
         \/ /\ UNCHANGED <<open, main, doing, worker, item, items, quit>>
         \/ /\ Free /\ worker' = "none"
            /\ \/ UNCHANGED <<item, items, quit>> /\ doing \notin {"pump", "inline"}
               \/ Reported
  PROVE  IInv' /\ Ends
<1> USE DEF IInv
<1>1. CASE UNCHANGED <<open, main, doing, worker, item, items, quit>>
  <2>1. TypeOK' BY <1>1 DEF TypeOK, net, pc_
  <2>2. WorkerIsOwned' BY <1>1 DEF WorkerIsOwned
  <2> QED BY <1>1, <2>1, <2>2, Unmoved DEF net, pc_
<1>2. CASE /\ Free /\ worker' = "none"
           /\ \/ UNCHANGED <<item, items, quit>> /\ doing \notin {"pump", "inline"}
              \/ Reported
  <2>1. open' = open \ {main} /\ main' = None /\ doing' = "head" BY <1>2 DEF Free, Ended
  <2>2. None \notin items BY ServerAssumption DEF TypeOK
  <2>3. /\ items' \subseteq items /\ item' \in items' \cup {None} /\ quit' \subseteq items'
        /\ UNCHANGED <<item, items, quit>> \/ item = None \/ (item' = None /\ item \notin items')
    BY <1>2 DEF Reported, LiveRecvEnd, Items, TypeOK
  <2>4. TypeOK' BY <2>1, <2>3 DEF TypeOK, net, pc_
  <2>5. Placed' BY <2>1, FreeingMain
  <2>6. Framed' BY <2>1 DEF Framed, net
  <2>7. WorkerIsOwned' /\ Working' BY <1>2, <2>1 DEF WorkerIsOwned, Working
  <2>8. Items' BY <2>1, <2>2, <2>3 DEF Items, Range
  <2>9. Ends BY <1>2, <2>3, Pushing DEF Ends, Reported, LiveRecvEnd
  <2> QED BY <2>4, <2>5, <2>6, <2>7, <2>8, <2>9
<1> QED BY <1>1, <1>2

\* What is being answered or sent out has no thread.
LEMMA ServeWaitStep == ASSUME IInv, ServeWait PROVE IInv' /\ Ends
<1>1. /\ Serving /\ doing = "head" /\ pc' = "tick" /\ folder' \in Conns \cup {None}
      /\ UNCHANGED <<net, backlog, pc_, side, worker, halt, live, folder, faults>>
      /\ Free \/ UNCHANGED <<open, main, doing>>
  BY DEF ServeWait, IInv, TypeOK
<1>2. worker = "none" BY <1>1 DEF IInv, WorkerIsOwned
<1> QED BY <1>1, <1>2, ServeStep DEF live

LEMMA ServeAnswerStep == ASSUME IInv, ServeAnswer PROVE IInv' /\ Ends
<1>1. /\ Serving /\ doing = "head" /\ pc' = "tick" /\ Free
      /\ UNCHANGED <<net, backlog, pc_, side, worker, halt, live, faults>>
      /\ folder' \in {folder, main}
  BY DEF ServeAnswer, Answer
<1>2. worker = "none" BY <1>1 DEF IInv, WorkerIsOwned
<1>3. folder' \in Conns \cup {None} BY <1>1 DEF IInv, TypeOK
<1> QED BY <1>1, <1>2, <1>3, ServeStep DEF live

LEMMA ServeStartStep == ASSUME IInv, ServeStart PROVE IInv' /\ Ends
<1> USE DEF IInv
<1>1. /\ Serving /\ doing = "head" /\ pc' = "tick"
      /\ UNCHANGED <<net, backlog, open, pc_, main, side, halt, live, folder, faults>>
      /\ doing' \in {"pull", "pump", "inline", "form", "rm"} /\ kind[main] = KindOf(doing')
      /\ worker' = worker \/ (worker' = "run" /\ doing' \in {"pump", "rm"})
  BY DEF ServeStart, KindOf
<1>2. main # None /\ worker = "none" BY <1>1, Occupied DEF WorkerIsOwned
<1>3. TypeOK' BY <1>1 DEF TypeOK, net, pc_, live
<1>4. Placed' BY <1>1 DEF Placed, Range
<1>5. Framed' BY <1>1 DEF Framed, net
<1>6. WorkerIsOwned' BY <1>1, <1>2 DEF WorkerIsOwned
<1>7. Working' BY <1>1 DEF Working, KindOf, pc_
<1>8. Items' BY <1>1 DEF Items, Range, live
<1>9. Ends BY <1>1 DEF Ends
<1> QED BY <1>3, <1>4, <1>5, <1>6, <1>7, <1>8, <1>9

LEMMA ServePullStep == ASSUME IInv, ServePull PROVE IInv' /\ Ends
<1>1. /\ Serving /\ doing = "pull" /\ pc' = "tick" /\ folder' \in Conns \cup {None}
      /\ UNCHANGED <<net, backlog, pc_, side, worker, halt, live, folder, faults>>
      /\ Free \/ UNCHANGED <<open, main, doing>>
  BY DEF ServePull, IInv, TypeOK
<1>2. worker = "none" BY <1>1 DEF IInv, WorkerIsOwned
<1> QED BY <1>1, <1>2, ServeStep DEF live

\* A thread is joined before its slot is emptied.
LEMMA ServeRmStep == ASSUME IInv, ServeRm PROVE IInv' /\ Ends
<1>1. /\ Serving /\ doing = "rm" /\ pc' = "tick" /\ folder' \in Conns \cup {None}
      /\ UNCHANGED <<net, backlog, pc_, side, halt, live, folder, faults>>
      /\ \/ UNCHANGED <<open, main, doing, worker>>
         \/ Free /\ worker' = "none"
  BY DEF ServeRm, IInv, TypeOK
<1> QED BY <1>1, ServeStep DEF live

LEMMA ServePumpStep == ASSUME IInv, ServePump PROVE IInv' /\ Ends
<1>1. /\ Serving /\ pc' = "tick" /\ folder' \in Conns \cup {None}
      /\ UNCHANGED <<net, backlog, pc_, side, was, folder, faults>>
      /\ \/ UNCHANGED <<open, main, doing, worker, halt, item, items, quit>>
         \/ Free /\ worker' = "none" /\ halt' = FALSE /\ Reported
  BY DEF ServePump, IInv, TypeOK
<1> QED BY <1>1, ServeStep

LEMMA ServeBodyStep == ASSUME IInv, ServeBody PROVE IInv' /\ Ends
<1>1. /\ Serving /\ doing \in {"inline", "form"} /\ pc' = "tick"
      /\ folder' \in Conns \cup {None}
      /\ UNCHANGED <<net, backlog, pc_, side, worker, halt, was, folder, faults>>
      /\ \/ UNCHANGED <<open, main, doing, item, items, quit>>
         \/ Free /\ Reported
         \/ Free /\ UNCHANGED <<item, items, quit>> /\ doing # "inline"
  BY DEF ServeBody, IInv, TypeOK
<1>2. worker = "none" BY <1>1 DEF IInv, WorkerIsOwned
<1> QED BY <1>1, <1>2, ServeStep

-----------------------------------------------------------------------------
(* The theorems. *)

LEMMA InitIInv == ASSUME Init PROVE IInv
<1>1. TypeOK BY ServerAssumption, Emptied DEF Init, TypeOK, Requests
<1>2. Placed BY Emptied DEF Init, Placed, Range
<1>3. Framed /\ WorkerIsOwned /\ Working BY DEF Init, Framed, WorkerIsOwned, Working
<1>4. Items BY Emptied DEF Init, Items
<1> QED BY <1>1, <1>2, <1>3, <1>4 DEF IInv

LEMMA StutterStep == ASSUME IInv, UNCHANGED vars PROVE IInv' /\ Ends
<1>1. TypeOK' BY DEF IInv, TypeOK, vars, net, pc_, slot, live
<1>2. WorkerIsOwned' BY DEF IInv, WorkerIsOwned, vars, slot
<1> QED BY <1>1, <1>2, Unmoved DEF vars, net, pc_, slot, live

LEMMA FrameStep == ASSUME IInv, Frame PROVE IInv' /\ Ends
<1>1. CASE WakeCheck \/ LinkCheck \/ RecvCancel \/ RecvBegin
  BY <1>1, WakeCheckStep, LinkCheckStep, RecvCancelStep, RecvBeginStep
<1>2. CASE PollNothing \/ SideNobody \/ MainNobody \/ Tick \/ PanelTick
  BY <1>2, PassSteps, TickSteps
<1>3. CASE SideStep \/ SideAccept \/ SideRead BY <1>3, SideSteps, SideAcceptStep
<1>4. CASE MainAccept BY <1>4, MainAcceptStep
<1>5. CASE Serve
  BY <1>5, ServeWaitStep, ServeAnswerStep, ServeStartStep, ServePullStep, ServeRmStep,
     ServePumpStep, ServeBodyStep DEF Serve
<1> QED BY <1>1, <1>2, <1>3, <1>4, <1>5 DEF Frame

LEMMA NextStep == ASSUME IInv, [Next]_vars PROVE IInv' /\ Ends
<1>1. CASE \E c \in Conns : Connect(c) \/ SendHead(c) \/ HangUp(c)
  BY <1>1, ConnectStep, PeerSteps
<1>2. CASE WorkerEnds \/ Sleep \/ LinkReturns \/ UserCancel BY <1>2, WorldSteps
<1>3. CASE Switch BY <1>3, SwitchStep
<1>4. CASE Frame BY <1>4, FrameStep
<1>5. CASE UNCHANGED vars BY <1>5, StutterStep
<1> QED BY <1>1, <1>2, <1>3, <1>4, <1>5 DEF Next

LEMMA Invariance == Spec => []IInv
<1>1. IInv /\ [Next]_vars => IInv' BY NextStep
<1> QED BY <1>1, InitIInv, PTL DEF Spec

\* Every variable keeps its type.
THEOREM TypeCorrect == Spec => []TypeOK
<1>1. IInv => TypeOK BY DEF IInv
<1> QED BY <1>1, Invariance, PTL

\* Counted as OnePlace counts.
LEMMA Counting == ASSUME TypeOK, Placed PROVE OnePlace
<1> SUFFICES ASSUME NEW c \in Conns
             PROVE  c \in open <=>
                      Cardinality({i \in DOMAIN backlog : backlog[i] = c})
                        + (IF main = c THEN 1 ELSE 0) + (IF side = c THEN 1 ELSE 0) = 1
  BY DEF OnePlace
<1> DEFINE at == {i \in DOMAIN backlog : backlog[i] = c}
<1>1. c # None BY ServerAssumption
<1>2. CASE c \in Range(backlog)
  <2>1. PICK i \in DOMAIN backlog : backlog[i] = c BY <1>2 DEF Range
  <2>2. at = {i} BY <2>1 DEF Placed
  <2>3. Cardinality(at) = 1 BY <2>2, FS_Singleton
  <2>4. c \in open /\ main # c /\ side # c BY <1>2 DEF Placed
  <2> QED BY <2>3, <2>4
<1>3. CASE c \notin Range(backlog)
  <2>1. at = {} BY <1>3 DEF Range
  <2>2. Cardinality(at) = 0 BY <2>1, FS_EmptySet
  <2>3. c \in open <=> main = c \/ side = c BY <1>1, <1>3 DEF Placed
  <2>4. ~(main = c /\ side = c) BY <1>1 DEF Placed
  <2> QED BY <2>2, <2>3, <2>4
<1> QED BY <1>2, <1>3

\* An open connection is in the backlog or in a slot and in no two of them, and a slot
\* holds none that was closed (client_reset, side_reset, the adoption of side_fd by the
\* main slot), whatever the rebinds, cancels and switches: nothing is answered twice, no
\* socket is used after its close, and none is forgotten open.
THEOREM PlacesCorrect == Spec => []OnePlace
<1>1. IInv => OnePlace BY Counting DEF IInv
<1> QED BY <1>1, Invariance, PTL

\* A thread works only for the connection that holds the main slot, and none is left
\* behind by a rebind, a cancel or a switch-off (rx_join and rm_join in client_reset).
THEOREM WorkerCorrect == Spec => []WorkerIsOwned
<1>1. IInv => WorkerIsOwned BY DEF IInv
<1> QED BY <1>1, Invariance, PTL

\* The Queue-tab item of a streamed push ends in the step in which its connection leaves
\* the main slot (PollXfers, httpsrv_abort, rx_finalize), whichever way it ends, unless
\* the server is switched off.
THEOREM ItemsEnd == Spec => ItemEndsWithPush
<1>1. IInv /\ [Next]_vars =>
        [item # None /\ main = item /\ kind[item] = "push" /\ main' # item /\ inv_open'
           => item' = None /\ item \notin items']_vars
  BY NextStep DEF Ends
<1> QED BY <1>1, Invariance, PTL DEF Spec, ItemEndsWithPush
=============================================================================
