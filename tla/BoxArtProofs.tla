---------------------------- MODULE BoxArtProofs ----------------------------
(***************************************************************************)
(* Box art, for any titles, requests, scans and edits: an outcome shown is *)
(* never that of an older request, and a title the index resolves has its  *)
(* image as long as no fetch or push of it fails.                          *)
(*                                                                         *)
(* A request is on its way through four places: the mailbox, the waiting   *)
(* request, the running job, the outcome shown.  The first rests on what   *)
(* the foremost of them holds being no older than what was asked for last  *)
(* (AtLeast, Mailed).  The second rests on a thread about to record a hit  *)
(* having left the image behind.                                           *)
(***************************************************************************)
EXTENDS BoxArt, TLAPS

Steps == {"idle", "next", "look", "search", "miss", "open", "load", "remove", "hit"}

Thread == [pc : Steps, title : Titles \cup {None}, force : BOOLEAN, code : {0, 1, 200}]
Sane(r) == r \in Thread /\ (r.pc \in {"idle", "next"} \/ r.title \in Titles)

ArtOK ==
  /\ idx \in [Titles -> {"none", "miss", "hit"}]
  /\ png \in [Titles -> {"no", "part", "auto", "user"}]
  /\ held \in [Titles -> Pics \cup {None}] /\ left \subseteq Titles
  /\ th \in [Pics -> Thread] /\ \A t \in Pics : Sane(th[t])

Status == [req : Nat, running : BOOLEAN, done : BOOLEAN, res : Nat]
TalkOK ==
  /\ srv \in [Kinds -> Status] /\ pub \in [Kinds -> Status]
  /\ job \in [Kinds -> [pc : {"idle", "run", "done"}, id : Nat]]
  /\ asked \in [Kinds -> [wifi : Nat, usb : Nat]]
  /\ mail \in Seq([kind : Kinds, id : Nat \ {0}])

PastOK == past \in [reqs : Nat, scans : Nat, edits : Nat,
                    hurt : SUBSET Titles, own : SUBSET Titles]

TypeOK == ArtOK /\ TalkOK /\ PastOK

-----------------------------------------------------------------------------
(* The invariant. *)

\* Numbers are given out in order.
Numbered ==
  /\ \A k \in Kinds : asked[k].wifi <= past.reqs /\ asked[k].usb <= past.reqs
  /\ \A i \in DOMAIN mail : mail[i].id <= past.reqs

\* No outcome is shown while a request waits or runs, and one job runs at a time.
Quiet ==
  /\ \A k \in Kinds : srv[k].req # 0 \/ job[k].pc # "idle" => ~srv[k].done
  /\ job["search"].pc = "idle" \/ job["pick"].pc = "idle"

\* What is under way is no older than n.
AtLeast(k, n) ==
  /\ srv[k].req # 0 => srv[k].req >= n
  /\ srv[k].req = 0 /\ job[k].pc # "idle" => job[k].id >= n
  /\ srv[k].done => srv[k].res >= n

InMail(k) == \E i \in DOMAIN mail : mail[i].kind = k
\* The last request of a kind in the mailbox.
LastOf(k, i) == mail[i].kind = k /\ \A j \in DOMAIN mail : mail[j].kind = k => j <= i

Mailed ==
  /\ \A k \in Kinds : AtLeast(k, asked[k].wifi) /\ (~InMail(k) => AtLeast(k, asked[k].usb))
  /\ \A i \in DOMAIN mail :
       /\ mail[i].id >= asked[mail[i].kind].wifi
       /\ LastOf(mail[i].kind, i) => mail[i].id >= asked[mail[i].kind].usb

Shown == \A k \in Kinds : pub[k].done => pub[k].res >= asked[k].usb

TalkInv == Numbered /\ Quiet /\ Mailed /\ Shown

\* There is an image, or it is known why there is none.
Imaged(x) ==
  \/ png[x] \in {"auto", "user"} \/ held[x] # None \/ x \in past.hurt
  \/ \E t \in Pics : At(t, "remove") /\ Title(t) = x
Claimed(x) == idx[x] = "hit" \/ \E t \in Pics : At(t, "hit") /\ Title(t) = x
ArtInv == \A x \in Titles : Claimed(x) => Imaged(x)

\* What the pick thread does, it does for a running job.
Linked == th["pick"].pc # "idle" => job["pick"].pc = "run"

IInv == TypeOK /\ TalkInv /\ ArtInv /\ Linked

-----------------------------------------------------------------------------
(* A step about the image of a title leaves the requests alone, and vice versa. *)

LEMMA TalkStays ==
  ASSUME IInv, UNCHANGED <<mail, pub, srv, job, asked>>, past'.reqs = past.reqs
  PROVE  TalkOK' /\ TalkInv'
<1>1. TalkOK' BY DEF IInv, TypeOK, TalkOK
<1>2. Numbered' BY DEF IInv, TalkInv, Numbered
<1>3. Quiet' BY DEF IInv, TalkInv, Quiet
<1>4. Mailed' BY DEF IInv, TalkInv, Mailed, AtLeast, InMail, LastOf
<1>5. Shown' BY DEF IInv, TalkInv, Shown
<1> QED BY <1>1, <1>2, <1>3, <1>4, <1>5 DEF TalkInv

LEMMA ArtStays ==
  ASSUME IInv, UNCHANGED art, past'.hurt = past.hurt
  PROVE  ArtOK' /\ ArtInv'
<1>1. ArtOK' BY DEF IInv, TypeOK, ArtOK, art
<1>2. ArtInv' BY DEF IInv, ArtInv, Claimed, Imaged, At, Title, art
<1> QED BY <1>1, <1>2

-----------------------------------------------------------------------------
(* Images. *)

\* A thread goes on to another step, and every image stays.
LEMMA Going ==
  ASSUME IInv, NEW t \in Pics, NEW r, th' = [th EXCEPT ![t] = r], Sane(r), r.pc # "hit",
         th[t].pc # "remove", UNCHANGED <<idx, png, held, past>>, left' \subseteq Titles,
         UNCHANGED <<mail, pub, srv, job, asked>>,
         t = "pick" => job[t].pc = "run"
  PROVE  IInv'
<1> USE DEF IInv, TypeOK
<1>1. th'[t] = r /\ \A b \in Pics \ {t} : th'[b] = th[b] BY DEF ArtOK
<1>2. ArtOK' BY <1>1 DEF ArtOK, Sane
<1>3. ArtInv' 
  <2> SUFFICES ASSUME NEW x \in Titles, Claimed(x)' PROVE Imaged(x)' BY DEF ArtInv
  <2>1. Claimed(x) BY <1>1 DEF Claimed, At, Title
  <2>2. Imaged(x) BY <2>1 DEF ArtInv
  <2> QED BY <1>1, <2>2 DEF Imaged, At, Title
<1>4. TalkOK' /\ TalkInv' BY TalkStays
<1>5. PastOK' BY DEF PastOK
<1>6. Linked' BY <1>1 DEF Linked, Pics
<1> QED BY <1>2, <1>3, <1>4, <1>5, <1>6

\* What a step does about one title.
LEMMA ArtStep ==
  ASSUME IInv, ArtOK', PastOK', ArtInv', past'.reqs = past.reqs,
         UNCHANGED <<mail, pub, srv, job, asked>>,
         th'["pick"] = th["pick"] \/ th["pick"].pc # "idle"
  PROVE  IInv'
BY TalkStays DEF IInv, TypeOK, Linked

LEMMA Working ==
  ASSUME IInv, NEW t \in Pics, th[t].pc \notin {"idle", "next"}
  PROVE  Title(t) \in Titles /\ th[t] \in Thread
BY DEF IInv, TypeOK, ArtOK, Sane, Title

\* A thread goes to another step.
LEMMA Stepping ==
  ASSUME IInv, NEW t \in Pics, NEW x \in Steps, Go(t, x),
         x \in {"idle", "next"} \/ th[t].pc \notin {"idle", "next"}
  PROVE  LET r == [th[t] EXCEPT !.pc = x] IN
         /\ th' = [th EXCEPT ![t] = r] /\ Sane(r) /\ r.pc = x /\ r.title = th[t].title
         /\ th'[t] = r /\ \A b \in Pics \ {t} : th'[b] = th[b]
BY DEF IInv, TypeOK, ArtOK, Sane, Thread, Go

LEMMA LookSteps == ASSUME IInv, Look \/ Search PROVE IInv'
<1> DEFINE t == "scan"
<1>1. /\ t \in Pics /\ th[t].pc \in {"look", "search"}
      /\ UNCHANGED <<idx, png, held, left, talk, past>>
  BY DEF Look, Search, At, Pics
<1>2. PICK x \in {"next", "search", "miss", "open"} : Go(t, x) BY DEF Look, Search
<1>3. x \in Steps BY DEF Steps
<1>4. left' \subseteq Titles BY <1>1 DEF IInv, TypeOK, ArtOK
<1> DEFINE r == [th[t] EXCEPT !.pc = x]
<1>5. th' = [th EXCEPT ![t] = r] /\ Sane(r) /\ r.pc = x BY <1>1, <1>2, <1>3, Stepping
<1> HIDE DEF r
<1>6. r.pc # "hit" /\ th[t].pc # "remove" BY <1>1, <1>2, <1>5
<1> QED BY <1>1, <1>4, <1>5, <1>6, Going DEF talk

LEMMA ScanNextStep == ASSUME IInv, ScanNext PROVE IInv'
<1> DEFINE t == "scan"
<1>1. t \in Pics /\ th[t].pc = "next" /\ UNCHANGED <<idx, png, held, talk, past>>
  BY DEF ScanNext, At, Pics
<1>2. left \subseteq Titles /\ th[t] \in Thread BY <1>1 DEF IInv, TypeOK, ArtOK, Sane
<1>3. CASE \E x \in left :
             /\ left' = left \ {x}
             /\ th' = [th EXCEPT !["scan"] = [@ EXCEPT !.pc = "look", !.title = x, !.code = 0]]
  <2>1. PICK x \in left :
          /\ left' = left \ {x}
          /\ th' = [th EXCEPT ![t] = [th[t] EXCEPT !.pc = "look", !.title = x, !.code = 0]]
    BY <1>3
  <2> DEFINE r == [th[t] EXCEPT !.pc = "look", !.title = x, !.code = 0]
  <2>2. Sane(r) /\ r.pc = "look" BY <1>2 DEF Sane, Thread, Steps
  <2> QED BY <1>1, <1>2, <2>1, <2>2, Going DEF talk
<1>4. CASE left' = {} /\ th' = [th EXCEPT !["scan"] = Rest]
  <2>1. Sane(Rest) /\ Rest.pc = "idle" BY DEF Sane, Thread, Steps, Rest
  <2> QED BY <1>1, <1>4, <2>1, Going DEF talk
<1> QED BY <1>3, <1>4 DEF ScanNext

LEMMA ScanStartStep == ASSUME IInv, ScanStart PROVE IInv'
<1> USE DEF IInv, TypeOK
<1>1. /\ "scan" \in Pics /\ th["scan"].pc = "idle" /\ UNCHANGED <<idx, png, held, talk>>
      /\ past' = [past EXCEPT !.scans = @ + 1]
  BY DEF ScanStart, At, Pics
<1>2. PICK ts \in SUBSET Titles, force \in BOOLEAN :
        left' = ts /\ th' = [th EXCEPT !["scan"] = [Rest EXCEPT !.pc = "next", !.force = force]]
  BY DEF ScanStart
<1> DEFINE r == [Rest EXCEPT !.pc = "next", !.force = force]
<1>3. Sane(r) /\ r.pc = "next" BY DEF Sane, Thread, Steps, Rest
<1> HIDE DEF r
<1>4. th'["scan"] = r /\ \A b \in Pics \ {"scan"} : th'[b] = th[b] BY <1>1, <1>2 DEF ArtOK, r
<1>5. ArtOK' BY <1>1, <1>2, <1>3, <1>4 DEF ArtOK, r, Sane
<1>6. PastOK' /\ past'.hurt = past.hurt /\ past'.reqs = past.reqs BY <1>1 DEF PastOK
<1>7. ArtInv'
  <2> SUFFICES ASSUME NEW x \in Titles, Claimed(x)' PROVE Imaged(x)' BY DEF ArtInv
  <2>1. Claimed(x) BY <1>1, <1>3, <1>4 DEF Claimed, At, Title
  <2>2. Imaged(x) BY <2>1 DEF ArtInv
  <2> QED BY <1>1, <1>4, <1>6, <2>2 DEF Imaged, At, Title
<1> QED BY <1>1, <1>4, <1>5, <1>6, <1>7, ArtStep DEF talk, Pics

\* The file is open for writing, or is to be removed.
LEMMA OpenDestStep == ASSUME IInv, NEW t \in Pics, OpenDest(t) PROVE IInv'
<1> USE DEF IInv, TypeOK
<1> DEFINE y == Title(t)
<1>1. th[t].pc = "open" /\ UNCHANGED <<idx, left, talk, past>> BY DEF OpenDest, At
<1>2. y \in Titles BY <1>1, Working
<1>3. PICK x \in {"load", "remove"} :
        /\ Go(t, x)
        /\ \/ x = "load" /\ held' = [held EXCEPT ![y] = t] /\ png' = [png EXCEPT ![y] = "part"]
           \/ x = "remove" /\ UNCHANGED <<held, png>>
  BY DEF OpenDest
<1>4. x \in Steps BY DEF Steps
<1> DEFINE r == [th[t] EXCEPT !.pc = x]
<1>5. /\ Sane(r) /\ r.pc = x /\ r.title = y /\ th' = [th EXCEPT ![t] = r]
      /\ th'[t] = r /\ \A b \in Pics \ {t} : th'[b] = th[b]
  BY <1>1, <1>3, <1>4, Stepping DEF Title
<1> HIDE DEF r
<1>6. ArtOK' BY <1>1, <1>2, <1>3, <1>5 DEF ArtOK, Sane
<1>7. t # None BY BoxArtAssumption DEF Pics
<1>8. ArtInv'
  <2> SUFFICES ASSUME NEW z \in Titles, Claimed(z)' PROVE Imaged(z)' BY DEF ArtInv
  <2>1. Claimed(z) BY <1>1, <1>3, <1>5 DEF Claimed, At, Title
  <2>2. Imaged(z) BY <2>1 DEF ArtInv
  <2>3. CASE z # y BY <1>1, <1>3, <1>5, <2>2, <2>3 DEF Imaged, At, Title, ArtOK
  <2>4. CASE z = y /\ x = "load"
    <3>1. held'[z] = t BY <1>2, <1>3, <2>4 DEF ArtOK
    <3> QED BY <1>7, <3>1 DEF Imaged
  <2>5. CASE z = y /\ x = "remove" BY <1>5, <2>5 DEF Imaged, At, Title
  <2> QED BY <1>3, <2>3, <2>4, <2>5
<1>9. PastOK' BY <1>1 DEF PastOK
<1> QED BY <1>1, <1>5, <1>6, <1>8, <1>9, ArtStep DEF talk

\* The image is whole, or is to be removed.
LEMMA LoadStep == ASSUME IInv, NEW t \in Pics, Load(t) PROVE IInv'
<1> USE DEF IInv, TypeOK
<1> DEFINE y == Title(t)
<1>1. /\ th[t].pc = "load" /\ UNCHANGED <<idx, left, talk>>
      /\ held' = [held EXCEPT ![y] = None]
  BY DEF Load, At
<1>2. y \in Titles /\ th[t] \in Thread BY <1>1, Working
<1>3. PICK r :
        /\ Sane(r) /\ r.title = y /\ th' = [th EXCEPT ![t] = r]
        /\ \/ /\ r.pc = "hit"
              /\ png' = [png EXCEPT ![y] = IF t = "pick" THEN "user" ELSE "auto"]
              /\ past' = [past EXCEPT !.hurt = @ \ {y}]
           \/ r.pc = "remove" /\ png' = png /\ past' = past
  <2>1. CASE /\ png' = [png EXCEPT ![y] = IF t = "pick" THEN "user" ELSE "auto"]
             /\ past' = [past EXCEPT !.hurt = @ \ {y}]
             /\ Go(t, "hit")
    <3> DEFINE s == [th[t] EXCEPT !.pc = "hit"]
    <3>1. th' = [th EXCEPT ![t] = s] BY <2>1 DEF Go
    <3>2. s.pc = "hit" /\ s.title = y /\ Sane(s)
      BY <1>2 DEF Thread, Sane, Steps, Title
    <3> QED BY <2>1, <3>1, <3>2
  <2>2. CASE \E code \in {0, 200} :
               /\ th' = [th EXCEPT ![t] = [@ EXCEPT !.pc = "remove", !.code = code]]
               /\ UNCHANGED <<png, past>>
    <3>1. PICK code \in {0, 200} :
            /\ th' = [th EXCEPT ![t] = [@ EXCEPT !.pc = "remove", !.code = code]]
            /\ UNCHANGED <<png, past>>
      BY <2>2
    <3> DEFINE s == [th[t] EXCEPT !.pc = "remove", !.code = code]
    <3>2. th' = [th EXCEPT ![t] = s] BY <3>1
    <3>3. s.pc = "remove" /\ s.title = y /\ Sane(s)
      BY <1>2 DEF Thread, Sane, Steps, Title
    <3> QED BY <3>1, <3>2, <3>3
  <2> QED BY <2>1, <2>2 DEF Load
<1>4. Sane(r) /\ r.title = y BY <1>3
<1>5. th'[t] = r /\ \A b \in Pics \ {t} : th'[b] = th[b] BY <1>3 DEF ArtOK
<1>6. ArtOK' BY <1>1, <1>2, <1>3, <1>4, <1>5 DEF ArtOK, Sane
<1>7. PastOK' /\ past'.reqs = past.reqs /\ \A z \in Titles \ {y} : z \in past'.hurt <=> z \in past.hurt
  <2>1. past.hurt \ {y} \in SUBSET Titles BY DEF PastOK
  <2> QED BY <1>3, <2>1 DEF PastOK
<1>8. ArtInv'
  <2> SUFFICES ASSUME NEW z \in Titles, Claimed(z)' PROVE Imaged(z)' BY DEF ArtInv
  <2>1. CASE z # y
    <3>1. Claimed(z) BY <1>1, <1>4, <1>5, <2>1 DEF Claimed, At, Title
    <3>2. Imaged(z) BY <3>1 DEF ArtInv
    <3> QED BY <1>1, <1>3, <1>5, <1>7, <2>1, <3>2 DEF Imaged, At, Title, ArtOK
  <2>2. CASE z = y /\ r.pc = "hit"
    <3>1. png'[z] \in {"auto", "user"} BY <1>2, <1>3, <2>2 DEF ArtOK
    <3> QED BY <3>1 DEF Imaged
  <2>3. CASE z = y /\ r.pc = "remove" BY <1>4, <1>5, <2>3 DEF Imaged, At, Title
  <2> QED BY <1>3, <2>1, <2>2, <2>3
<1> QED BY <1>1, <1>5, <1>6, <1>7, <1>8, ArtStep DEF talk, Pics

\* A file that could not be removed is not missed: the title is marked.
LEMMA RemoveStep == ASSUME IInv, NEW t \in Pics, Remove(t) PROVE IInv'
<1> USE DEF IInv, TypeOK
<1> DEFINE y == Title(t)
           x == IF t = "scan" /\ th[t].code > 0 THEN "miss" ELSE "next"
           r == [th[t] EXCEPT !.pc = x]
<1>1. /\ th[t].pc = "remove" /\ UNCHANGED <<idx, held, left, talk>> /\ Go(t, x)
      /\ png' = IF held[y] = None THEN [png EXCEPT ![y] = "no"] ELSE png
      /\ past' = [past EXCEPT !.hurt = @ \cup {y}]
  BY DEF Remove, At
<1>2. y \in Titles BY <1>1, Working
<1>3. x \in Steps /\ x # "hit" BY DEF Steps
<1> HIDE DEF x
<1>4. /\ Sane(r) /\ r.pc = x /\ r.title = y /\ th' = [th EXCEPT ![t] = r]
      /\ th'[t] = r /\ \A b \in Pics \ {t} : th'[b] = th[b]
  BY <1>1, <1>3, Stepping DEF Title
<1> HIDE DEF r
<1>5. ArtOK' BY <1>1, <1>2, <1>4 DEF ArtOK, Sane
<1>6. PastOK' /\ past'.hurt = past.hurt \cup {y} /\ past'.reqs = past.reqs
  BY <1>1, <1>2 DEF PastOK
<1>7. ArtInv'
  <2> SUFFICES ASSUME NEW z \in Titles, Claimed(z)' PROVE Imaged(z)' BY DEF ArtInv
  <2>1. CASE z # y
    <3>1. Claimed(z) BY <1>1, <1>3, <1>4 DEF Claimed, At, Title
    <3>2. Imaged(z) BY <3>1 DEF ArtInv
    <3> QED BY <1>1, <1>4, <1>6, <2>1, <3>2 DEF Imaged, At, Title, ArtOK
  <2>2. CASE z = y BY <1>6, <2>2 DEF Imaged
  <2> QED BY <2>1, <2>2
<1> QED BY <1>1, <1>4, <1>5, <1>6, <1>7, ArtStep DEF talk

\* A hit is recorded of a title that has its image.
LEMMA RecordStep == ASSUME IInv, NEW t \in Pics, Record(t) PROVE IInv'
<1> USE DEF IInv, TypeOK
<1> DEFINE y == Title(t)
           c == IF At(t, "hit") THEN 1 ELSE 0
           r == [th[t] EXCEPT !.pc = "next", !.code = c]
           own == IF t = "pick" THEN past.own \cup {y} ELSE past.own
<1>1. /\ th[t].pc \in {"hit", "miss"} /\ UNCHANGED <<png, held, left, talk>>
      /\ idx' = [idx EXCEPT ![y] = th[t].pc] /\ th' = [th EXCEPT ![t] = r]
      /\ past' = [past EXCEPT !.own = own]
  BY DEF Record, At
<1>2. y \in Titles /\ th[t] \in Thread BY <1>1, Working
<1>3. Sane(r) /\ r.pc = "next" BY <1>2 DEF Sane, Thread, Steps
<1> HIDE DEF r
<1>4. th'[t] = r /\ \A b \in Pics \ {t} : th'[b] = th[b] BY <1>1 DEF ArtOK
<1>5. ArtOK' BY <1>1, <1>2, <1>3, <1>4 DEF ArtOK, Sane
<1>6. own \in SUBSET Titles BY <1>2 DEF PastOK
<1> HIDE DEF own
<1>7. PastOK' /\ past'.hurt = past.hurt /\ past'.reqs = past.reqs BY <1>1, <1>6 DEF PastOK
<1>8. ArtInv'
  <2> SUFFICES ASSUME NEW z \in Titles, Claimed(z)' PROVE Imaged(z)' BY DEF ArtInv
  <2>1. Claimed(z) BY <1>1, <1>2, <1>3, <1>4 DEF Claimed, At, Title, ArtOK
  <2>2. Imaged(z) BY <2>1 DEF ArtInv
  <2> QED BY <1>1, <1>4, <1>7, <2>2 DEF Imaged, At, Title
<1> QED BY <1>1, <1>4, <1>5, <1>7, <1>8, ArtStep DEF talk

\* A cover that goes during a fetch marks its title.
LEMMA ForgetStep == ASSUME IInv, NEW y \in Titles, Forget(y) PROVE IInv'
<1> USE DEF IInv, TypeOK
<1> DEFINE hurt == IF Fetching(y) THEN past.hurt \cup {y} ELSE past.hurt \ {y}
<1>1. /\ UNCHANGED <<held, th, left, talk>> /\ idx' = [idx EXCEPT ![y] = "none"]
      /\ png' \in {png, [png EXCEPT ![y] = "no"]}
      /\ past' = [past EXCEPT !.edits = @ + 1, !.own = @ \ {y}, !.hurt = hurt]
  BY DEF Forget
<1>2. hurt \subseteq Titles BY DEF PastOK
<1>3. \A z \in Titles \ {y} : z \in hurt <=> z \in past.hurt OBVIOUS
<1>4. Fetching(y) => y \in hurt OBVIOUS
<1> HIDE DEF hurt
<1>5. PastOK' /\ past'.hurt = hurt /\ past'.reqs = past.reqs
  <2>1. past.edits + 1 \in Nat /\ past.own \ {y} \in SUBSET Titles BY DEF PastOK
  <2> QED BY <1>1, <1>2, <2>1 DEF PastOK
<1>6. ArtOK' BY <1>1 DEF ArtOK
<1>7. ArtInv'
  <2> SUFFICES ASSUME NEW z \in Titles, Claimed(z)' PROVE Imaged(z)' BY DEF ArtInv
  <2>1. CASE z # y
    <3>1. Claimed(z) BY <1>1, <2>1 DEF Claimed, At, Title, ArtOK
    <3>2. Imaged(z) BY <3>1 DEF ArtInv
    <3> QED BY <1>1, <1>3, <1>5, <2>1, <3>2 DEF Imaged, At, Title, ArtOK
  <2>2. CASE z = y
    <3>1. idx'[z] = "none" BY <1>1, <2>2 DEF ArtOK
    <3>2. Fetching(y) BY <1>1, <2>2, <3>1 DEF Claimed, At, Title, Fetching, ArtOK
    <3> QED BY <1>4, <1>5, <2>2, <3>2 DEF Imaged
  <2> QED BY <2>1, <2>2
<1> QED BY <1>1, <1>5, <1>6, <1>7, ArtStep DEF talk

\* The image pushed is whole, or its title is marked.
LEMMA SetConsoleArtStep == ASSUME IInv, NEW y \in Titles, SetConsoleArt(y) PROVE IInv'
<1> USE DEF IInv, TypeOK
<1>1. UNCHANGED <<held, th, left, talk>> BY DEF SetConsoleArt
<1> DEFINE Pushed(i, g, own, hurt) ==
             /\ idx' = [idx EXCEPT ![y] = i] /\ png' = [png EXCEPT ![y] = g]
             /\ past' = [past EXCEPT !.edits = @ + 1, !.own = own, !.hurt = hurt]
             /\ g = "user" \/ y \in hurt
             /\ \A z \in Titles \ {y} : z \in hurt <=> z \in past.hurt
<1>2. PICK i \in {"none", "miss", "hit"}, g \in {"no", "part", "user"},
           own \in SUBSET Titles, hurt \in SUBSET Titles : Pushed(i, g, own, hurt)
  <2>1. /\ past.own \in SUBSET Titles /\ past.own \cup {y} \in SUBSET Titles
        /\ past.hurt \ {y} \in SUBSET Titles /\ past.hurt \cup {y} \in SUBSET Titles
    BY DEF PastOK
  <2>2. CASE /\ png' = [png EXCEPT ![y] = "user"] /\ idx' = [idx EXCEPT ![y] = "hit"]
             /\ past' = [past EXCEPT !.edits = @ + 1, !.own = @ \cup {y}, !.hurt = @ \ {y}]
    BY <2>1, <2>2
  <2>3. CASE /\ png' = [png EXCEPT ![y] = "no"] /\ UNCHANGED idx
             /\ past' = [past EXCEPT !.edits = @ + 1, !.hurt = @ \cup {y}]
    <3>1. idx[y] \in {"none", "miss", "hit"} /\ idx' = [idx EXCEPT ![y] = idx[y]]
      BY <2>3 DEF ArtOK
    <3>2. past' = [past EXCEPT !.edits = @ + 1, !.own = past.own, !.hurt = past.hurt \cup {y}]
      BY <2>3 DEF PastOK
    <3>3. Pushed(idx[y], "no", past.own, past.hurt \cup {y}) BY <2>3, <3>1, <3>2
    <3> HIDE DEF Pushed
    <3> QED BY <2>1, <3>1, <3>3
  <2>4. CASE /\ png' = [png EXCEPT ![y] = "part"] /\ idx' = [idx EXCEPT ![y] = "hit"]
             /\ past' = [past EXCEPT !.edits = @ + 1, !.own = @ \cup {y}, !.hurt = @ \cup {y}]
    BY <2>1, <2>4
  <2> QED BY <2>2, <2>3, <2>4 DEF SetConsoleArt
<1>3. PastOK' /\ past'.hurt = hurt /\ past'.reqs = past.reqs
  <2>1. past.edits + 1 \in Nat BY DEF PastOK
  <2> QED BY <1>2, <2>1 DEF PastOK
<1>4. ArtOK' BY <1>1, <1>2 DEF ArtOK
<1>5. ArtInv'
  <2> SUFFICES ASSUME NEW z \in Titles, Claimed(z)' PROVE Imaged(z)' BY DEF ArtInv
  <2>1. CASE z # y
    <3>1. Claimed(z) BY <1>1, <1>2, <2>1 DEF Claimed, At, Title, ArtOK
    <3>2. Imaged(z) BY <3>1 DEF ArtInv
    <3> QED BY <1>1, <1>2, <1>3, <2>1, <3>2 DEF Imaged, At, Title, ArtOK
  <2>2. CASE z = y BY <1>2, <1>3, <2>2 DEF Imaged, ArtOK
  <2> QED BY <2>1, <2>2
<1> QED BY <1>1, <1>3, <1>4, <1>5, ArtStep DEF talk

-----------------------------------------------------------------------------
(* Requests. *)

\* A job is done: what it is of stays.
LEMMA JobEnds ==
  ASSUME IInv, NEW k \in Kinds, job[k].pc = "run", job' = [job EXCEPT ![k].pc = "done"],
         UNCHANGED <<mail, pub, srv, asked, past>>
  PROVE  TalkOK' /\ TalkInv' /\ PastOK'
<1> USE DEF IInv, TypeOK
<1>1. /\ job' \in [Kinds -> [pc : {"idle", "run", "done"}, id : Nat]]
      /\ \A j \in Kinds : /\ job'[j].id = job[j].id
                          /\ job'[j].pc # "idle" <=> job[j].pc # "idle"
  BY DEF TalkOK
<1>2. TalkOK' BY <1>1 DEF TalkOK
<1>3. Numbered' BY DEF TalkInv, Numbered
<1>4. Quiet' BY <1>1 DEF TalkInv, Quiet, Kinds
<1>5. Mailed' BY <1>1 DEF TalkInv, Mailed, AtLeast, InMail, LastOf
<1>6. Shown' BY DEF TalkInv, Shown
<1> QED BY <1>2, <1>3, <1>4, <1>5, <1>6 DEF TalkInv, PastOK

LEMMA SearchRunStep == ASSUME IInv, SearchRun PROVE IInv'
<1>1. /\ "search" \in Kinds /\ job["search"].pc = "run"
      /\ job' = [job EXCEPT !["search"].pc = "done"]
      /\ UNCHANGED <<art, mail, pub, srv, asked, past>>
  BY DEF SearchRun, Kinds
<1>2. TalkOK' /\ TalkInv' /\ PastOK' BY <1>1, JobEnds
<1>3. ArtOK' /\ ArtInv' BY <1>1, ArtStays
<1>4. Linked' BY <1>1 DEF IInv, Linked, art, TypeOK, TalkOK
<1> QED BY <1>2, <1>3, <1>4 DEF IInv, TypeOK

LEMMA PickRunStep == ASSUME IInv, PickRun PROVE IInv'
<1>1. /\ "pick" \in Kinds /\ "pick" \in Pics /\ job["pick"].pc = "run" /\ th["pick"].pc = "idle"
      /\ UNCHANGED <<idx, png, held, left, mail, pub, srv, asked, past>>
  BY DEF PickRun, At, Kinds, Pics
<1>2. CASE /\ \E x \in Titles : th' = [th EXCEPT !["pick"] = [Rest EXCEPT !.pc = "open", !.title = x]]
           /\ UNCHANGED job
  <2>1. PICK x \in Titles : th' = [th EXCEPT !["pick"] = [Rest EXCEPT !.pc = "open", !.title = x]]
    BY <1>2
  <2> DEFINE r == [Rest EXCEPT !.pc = "open", !.title = x]
  <2>2. Sane(r) /\ r.pc = "open" BY DEF Sane, Thread, Steps, Rest
  <2>3. left' \subseteq Titles BY <1>1 DEF IInv, TypeOK, ArtOK
  <2> HIDE DEF r
  <2>4. th' = [th EXCEPT !["pick"] = r] BY <2>1 DEF r
  <2>5. r.pc # "hit" /\ th["pick"].pc # "remove" BY <1>1, <2>2
  <2> QED BY <1>1, <1>2, <2>2, <2>3, <2>4, <2>5, Going
<1>3. CASE job' = [job EXCEPT !["pick"].pc = "done"] /\ UNCHANGED th
  <2>1. TalkOK' /\ TalkInv' /\ PastOK' BY <1>1, <1>3, JobEnds
  <2>2. ArtOK' /\ ArtInv' BY <1>1, <1>3, ArtStays DEF art
  <2>3. Linked' BY <1>1, <1>3 DEF Linked
  <2> QED BY <2>1, <2>2, <2>3 DEF IInv, TypeOK
<1> QED BY <1>2, <1>3 DEF PickRun

LEMMA PickEndStep == ASSUME IInv, PickEnd PROVE IInv'
<1> USE DEF IInv, TypeOK
<1>1. /\ "pick" \in Kinds /\ "pick" \in Pics /\ th["pick"].pc = "next"
      /\ th' = [th EXCEPT !["pick"] = Rest] /\ job' = [job EXCEPT !["pick"].pc = "done"]
      /\ UNCHANGED <<idx, png, held, left, mail, pub, srv, asked, past>>
  BY DEF PickEnd, At, Kinds, Pics
<1>2. job["pick"].pc = "run" BY <1>1 DEF Linked
<1>3. TalkOK' /\ TalkInv' /\ PastOK' BY <1>1, <1>2, JobEnds
<1>4. Sane(Rest) /\ Rest.pc = "idle" BY DEF Sane, Thread, Steps, Rest
<1>5. th'["pick"] = Rest /\ \A b \in Pics \ {"pick"} : th'[b] = th[b] BY <1>1 DEF ArtOK
<1>6. ArtOK' BY <1>1, <1>4, <1>5 DEF ArtOK, Sane
<1>7. ArtInv'
  <2> SUFFICES ASSUME NEW x \in Titles, Claimed(x)' PROVE Imaged(x)' BY DEF ArtInv
  <2>1. Claimed(x) BY <1>1, <1>4, <1>5 DEF Claimed, At, Title
  <2>2. Imaged(x) BY <2>1 DEF ArtInv
  <2> QED BY <1>1, <1>5, <2>2 DEF Imaged, At, Title
<1>8. Linked' BY <1>4, <1>5 DEF Linked
<1> QED BY <1>3, <1>6, <1>7, <1>8

\* A step of the companion or the tick leaves the images alone.
LEMMA TalkStep ==
  ASSUME IInv, TalkOK', TalkInv', PastOK', UNCHANGED art, past'.hurt = past.hurt,
         job["pick"].pc = "run" => job'["pick"].pc = "run"
  PROVE  IInv'
BY ArtStays DEF IInv, TypeOK, Linked, art

\* A request over Wi-Fi: the newest there is, and nothing in the mailbox.
LEMMA WifiAskStep == ASSUME IInv, NEW k \in Kinds, WifiAsk(k) PROVE IInv'
<1> USE DEF IInv, TypeOK
<1> DEFINE n == past.reqs + 1
<1>1. /\ mail = <<>> /\ mail' = mail /\ UNCHANGED <<art, pub, job, ui>>
      /\ srv' = [srv EXCEPT ![k] = [@ EXCEPT !.req = n, !.running = TRUE, !.done = FALSE]]
      /\ asked' = [asked EXCEPT ![k].wifi = n]
      /\ past' = [past EXCEPT !.reqs = n]
  BY DEF WifiAsk, Taken
<1>2. past.reqs \in Nat /\ n \in Nat /\ n > past.reqs /\ n # 0 BY DEF PastOK
<1>3. PastOK' /\ past'.hurt = past.hurt /\ past'.reqs = n BY <1>1, <1>2 DEF PastOK
<1> HIDE DEF n
<1>4. /\ srv' \in [Kinds -> Status] /\ srv'[k].req = n /\ ~srv'[k].done
      /\ \A j \in Kinds \ {k} : srv'[j] = srv[j]
  BY ZenonT(30), <1>1, <1>2 DEF TalkOK, Status
<1>5. /\ asked' \in [Kinds -> [wifi : Nat, usb : Nat]]
      /\ asked'[k].wifi = n /\ \A j \in Kinds : asked'[j].usb = asked[j].usb
      /\ \A j \in Kinds \ {k} : asked'[j].wifi = asked[j].wifi
  BY <1>1, <1>2 DEF TalkOK
<1>6. TalkOK' BY <1>1, <1>4, <1>5 DEF TalkOK
<1>7. \A j \in Kinds : asked[j].wifi <= past.reqs /\ asked[j].usb <= past.reqs
                       /\ asked[j].wifi \in Nat /\ asked[j].usb \in Nat
  BY DEF TalkInv, Numbered, TalkOK
<1>8. DOMAIN mail = {} /\ DOMAIN mail' = {} BY <1>1
<1>9. Numbered' BY <1>2, <1>3, <1>5, <1>7, <1>8 DEF Numbered
<1>10. Quiet' BY <1>1, <1>4 DEF TalkInv, Quiet
<1>11. Mailed'
  <2> SUFFICES ASSUME NEW j \in Kinds
               PROVE  AtLeast(j, asked[j].wifi)' /\ AtLeast(j, asked[j].usb)'
    BY <1>8 DEF Mailed
  <2>1. CASE j = k BY <1>2, <1>4, <1>5, <1>7, <2>1 DEF AtLeast
  <2>2. CASE j # k
    <3>1. AtLeast(j, asked[j].wifi) /\ AtLeast(j, asked[j].usb)
      BY <1>8 DEF TalkInv, Mailed, InMail
    <3>2. srv'[j] = srv[j] /\ job' = job /\ asked'[j].wifi = asked[j].wifi
          /\ asked'[j].usb = asked[j].usb
      BY <1>1, <1>4, <1>5, <2>2
    <3> QED BY <3>1, <3>2 DEF AtLeast
  <2> QED BY <2>1, <2>2
<1>12. Shown' BY <1>1, <1>5 DEF TalkInv, Shown
<1> QED BY <1>1, <1>3, <1>6, <1>9, <1>10, <1>11, <1>12, TalkStep DEF TalkInv

LEMMA Entry == ASSUME NEW S, NEW q \in Seq(S), NEW i \in DOMAIN q PROVE q[i] \in S
OBVIOUS

\* What a status says with requests in the mailbox.
LEMMA Applying ==
  ASSUME NEW st \in [Kinds -> Status], NEW q
  PROVE  /\ Applied(st, q) \in [Kinds -> Status]
         /\ \A k \in Kinds : /\ Applied(st, q)[k].res = st[k].res
                             /\ Applied(st, q)[k].done =>
                                  st[k].done /\ ~\E i \in DOMAIN q : q[i].kind = k
<1> SUFFICES ASSUME NEW k \in Kinds
             PROVE  LET a == IF \E i \in DOMAIN q : q[i].kind = k
                               THEN [st[k] EXCEPT !.running = TRUE, !.done = FALSE] ELSE st[k]
                    IN  /\ a \in Status /\ a.res = st[k].res
                        /\ a.done => st[k].done /\ ~\E i \in DOMAIN q : q[i].kind = k
  BY DEF Applied
<1>1. st[k] \in Status OBVIOUS
<1>2. [st[k] EXCEPT !.running = TRUE, !.done = FALSE] \in Status BY <1>1 DEF Status
<1>3. /\ [st[k] EXCEPT !.running = TRUE, !.done = FALSE].res = st[k].res
      /\ [st[k] EXCEPT !.running = TRUE, !.done = FALSE].done = FALSE
  BY <1>1 DEF Status
<1> QED BY <1>1, <1>2, <1>3

\* A request over USB goes behind those in the mailbox.
LEMMA UsbAskStep == ASSUME IInv, NEW k \in Kinds, UsbAsk(k) PROVE IInv'
<1> USE DEF IInv, TypeOK
<1> DEFINE n == past.reqs + 1
           e == [kind |-> k, id |-> n]
           z == Len(mail) + 1
<1>1. /\ mail' = Append(mail, e) /\ UNCHANGED <<art, srv, job, ui>>
      /\ pub' = Applied(pub, mail') /\ asked' = [asked EXCEPT ![k].usb = n]
      /\ past' = [past EXCEPT !.reqs = n]
  BY DEF UsbAsk
<1>2. past.reqs \in Nat /\ n \in Nat /\ n > past.reqs /\ n # 0 BY DEF PastOK
<1>3. PastOK' /\ past'.hurt = past.hurt /\ past'.reqs = n BY <1>1, <1>2 DEF PastOK
<1>4. /\ mail' \in Seq([kind : Kinds, id : Nat \ {0}])
      /\ z \in Nat /\ DOMAIN mail = 1..(z - 1) /\ z \in DOMAIN mail'
      /\ \A i \in DOMAIN mail' : i <= z /\ (i = z \/ i \in DOMAIN mail)
      /\ mail'[z] = e /\ \A i \in DOMAIN mail : i < z /\ i \in DOMAIN mail' /\ mail'[i] = mail[i]
      /\ \A i \in DOMAIN mail : mail[i].kind \in Kinds /\ mail[i].id \in Nat
  <2>1. e \in [kind : Kinds, id : Nat \ {0}] BY <1>2
  <2>2. mail \in Seq([kind : Kinds, id : Nat \ {0}]) BY DEF TalkOK
  <2> HIDE DEF e
  <2>3. Len(mail) \in Nat /\ DOMAIN mail = 1..Len(mail) BY <2>2
  <2>4. \A i \in DOMAIN mail : mail[i] \in [kind : Kinds, id : Nat \ {0}] BY <2>2, Entry
  <2>5. /\ mail' \in Seq([kind : Kinds, id : Nat \ {0}]) /\ Len(mail') = z
        /\ DOMAIN mail' = 1..z /\ mail'[z] = e /\ \A i \in 1..Len(mail) : mail'[i] = mail[i]
    BY <1>1, <2>1, <2>2
  <2> QED BY <2>3, <2>4, <2>5
<1>5. e.kind = k /\ e.id = n OBVIOUS
<1> HIDE DEF n, e, z
<1>6. \A i \in DOMAIN mail' : i = z \/ i \in DOMAIN mail BY <1>4
<1>7. /\ asked' \in [Kinds -> [wifi : Nat, usb : Nat]]
      /\ asked'[k].usb = n /\ \A j \in Kinds : asked'[j].wifi = asked[j].wifi
      /\ \A j \in Kinds \ {k} : asked'[j].usb = asked[j].usb
  BY <1>1, <1>2 DEF TalkOK
<1>8. /\ pub' \in [Kinds -> Status] /\ ~pub'[k].done
      /\ \A j \in Kinds : pub'[j].res = pub[j].res /\ (pub'[j].done => pub[j].done)
  <2>1. pub \in [Kinds -> Status] BY DEF TalkOK
  <2>2. \E i \in DOMAIN mail' : mail'[i].kind = k BY <1>4, <1>5
  <2>3. /\ Applied(pub, mail') \in [Kinds -> Status]
        /\ \A j \in Kinds : /\ Applied(pub, mail')[j].res = pub[j].res
                            /\ Applied(pub, mail')[j].done =>
                                 pub[j].done /\ ~\E i \in DOMAIN mail' : mail'[i].kind = j
    BY <2>1, Applying
  <2>4. pub' = Applied(pub, mail') BY <1>1
  <2> QED BY <2>2, <2>3, <2>4, Zenon
<1>9. TalkOK' BY <1>1, <1>4, <1>7, <1>8 DEF TalkOK
<1>10. \A j \in Kinds : asked[j].wifi <= past.reqs /\ asked[j].usb <= past.reqs
                        /\ asked[j].wifi \in Nat /\ asked[j].usb \in Nat
  BY DEF TalkInv, Numbered, TalkOK
<1>11. Numbered'
  <2>1. \A j \in Kinds : asked'[j].wifi <= n /\ asked'[j].usb <= n BY <1>2, <1>7, <1>10
  <2>2. \A i \in DOMAIN mail : mail[i].id <= past.reqs BY DEF TalkInv, Numbered
  <2>3. \A i \in DOMAIN mail' : mail'[i].id <= n BY SMTT(30), <1>2, <1>4, <1>5, <1>6, <2>2
  <2> QED BY <1>3, <2>1, <2>3 DEF Numbered
<1>12. Quiet' BY <1>1 DEF TalkInv, Quiet
<1>13. Mailed'
  <2>1. ASSUME NEW j \in Kinds PROVE AtLeast(j, asked[j].wifi)'
    BY <1>1, <1>7 DEF TalkInv, Mailed, AtLeast
  <2>2. ASSUME NEW j \in Kinds, ~InMail(j)' PROVE AtLeast(j, asked[j].usb)'
    <3>1. j # k BY <1>4, <1>5, <2>2 DEF InMail
    <3>2. ~InMail(j) BY <1>4, <1>6, <2>2 DEF InMail
    <3>3. AtLeast(j, asked[j].usb) BY <3>2 DEF TalkInv, Mailed
    <3>4. asked'[j].usb = asked[j].usb BY <1>7, <3>1
    <3> QED BY <1>1, <3>3, <3>4 DEF AtLeast
  <2>3. ASSUME NEW i \in DOMAIN mail'
        PROVE  /\ mail'[i].id >= asked'[mail'[i].kind].wifi
               /\ LastOf(mail[i].kind, i)' => mail'[i].id >= asked'[mail'[i].kind].usb
    <3>1. CASE i = z BY SMTT(30), <1>2, <1>4, <1>5, <1>7, <1>10, <3>1
    <3>2. CASE i \in DOMAIN mail
      <4> DEFINE j == mail[i].kind
      <4>1. mail'[i] = mail[i] /\ j \in Kinds BY <1>4, <3>2
      <4>2. mail[i].id >= asked[j].wifi BY <3>2 DEF TalkInv, Mailed
      <4>3. ASSUME LastOf(mail[i].kind, i)' PROVE mail[i].id >= asked'[j].usb
        <5>1. j # k BY <1>4, <1>5, <3>2, <4>1, <4>3 DEF LastOf
        <5>2. LastOf(j, i) BY <1>4, <3>2, <4>1, <4>3 DEF LastOf
        <5>3. mail[i].id >= asked[j].usb BY <3>2, <5>2 DEF TalkInv, Mailed
        <5> QED BY <1>7, <4>1, <5>1, <5>3
      <4> QED BY <1>7, <4>1, <4>2, <4>3
    <3> QED BY <1>6, <3>1, <3>2
  <2> QED BY <2>1, <2>2, <2>3 DEF Mailed
<1>14. Shown' BY <1>7, <1>8 DEF TalkInv, Shown
<1> QED BY <1>1, <1>3, <1>9, <1>11, <1>12, <1>13, <1>14, TalkStep DEF TalkInv

\* A step of the tick: what is under way for each kind is at least as new as before, a
\* request out of the mailbox included.
LEMMA Moving ==
  ASSUME IInv, srv' \in [Kinds -> Status], UNCHANGED <<art, pub, asked, past, mail>>,
         job' \in [Kinds -> [pc : {"idle", "run", "done"}, id : Nat]],
         Quiet', job["pick"].pc = "run" => job'["pick"].pc = "run",
         \A k \in Kinds, n \in Nat : AtLeast(k, n) => AtLeast(k, n)'
  PROVE  IInv'
<1> USE DEF IInv, TypeOK
<1>1. TalkOK' /\ PastOK' BY DEF TalkOK, PastOK
<1>2. Numbered' BY DEF TalkInv, Numbered
<1>3. Mailed'
  <2>1. \A k \in Kinds : AtLeast(k, asked[k].wifi)'
    BY DEF TalkInv, Mailed, TalkOK, AtLeast
  <2>2. \A k \in Kinds : ~InMail(k)' => AtLeast(k, asked[k].usb)'
    BY DEF TalkInv, Mailed, TalkOK, AtLeast, InMail
  <2>3. \A i \in DOMAIN mail' :
          /\ mail'[i].id >= asked'[mail'[i].kind].wifi
          /\ LastOf(mail[i].kind, i)' => mail'[i].id >= asked'[mail'[i].kind].usb
    BY DEF TalkInv, Mailed, LastOf
  <2> QED BY <2>1, <2>2, <2>3 DEF Mailed
<1>4. Shown' BY DEF TalkInv, Shown
<1> QED BY <1>1, <1>2, <1>3, <1>4, TalkStep DEF TalkInv

\* A finished job's outcome.
LEMMA Reaping ==
  ASSUME NEW s \in [Kinds -> Status], NEW k \in Kinds, NEW n \in Nat
  PROVE  /\ Reaped(s, k, n) \in [Kinds -> Status]
         /\ \A j \in Kinds \ {k} : Reaped(s, k, n)[j] = s[j]
         /\ s[k].req # 0 => Reaped(s, k, n)[k] = s[k]
         /\ s[k].req = 0 => /\ Reaped(s, k, n)[k].req = 0 /\ Reaped(s, k, n)[k].done
                            /\ Reaped(s, k, n)[k].res = n
<1> DEFINE r == [s[k] EXCEPT !.running = FALSE, !.done = TRUE, !.res = n]
<1>1. s[k] \in Status OBVIOUS
<1>2. r \in Status /\ r.req = s[k].req /\ r.done /\ r.res = n BY <1>1 DEF Status
<1> HIDE DEF r
<1>3. Reaped(s, k, n) = IF s[k].req # 0 THEN s ELSE [s EXCEPT ![k] = r] BY DEF Reaped, r
<1> QED BY <1>2, <1>3

LEMMA StartStep ==
  ASSUME IInv, NEW k \in Kinds, NEW then, Start(k, then)
  PROVE  IInv'
<1> USE DEF IInv, TypeOK
<1>1. UNCHANGED <<art, mail, pub, asked, past>> BY DEF Start
<1>2. CASE UNCHANGED <<srv, job>>
  BY <1>1, <1>2, Moving DEF TalkOK, TalkInv, Quiet, AtLeast
<1>3. CASE ~(Busy(k) \/ srv[k].req = 0)
  <2>1. /\ \A j \in Kinds : job[j].pc = "idle"
        /\ srv[k].req # 0 /\ job' = [job EXCEPT ![k] = [pc |-> "run", id |-> srv[k].req]]
        /\ srv' = [srv EXCEPT ![k].req = 0]
    BY <1>3 DEF Start, Busy
  <2>2. /\ srv' \in [Kinds -> Status] /\ srv'[k].req = 0 /\ srv'[k].done = srv[k].done
        /\ \A j \in Kinds \ {k} : srv'[j] = srv[j]
    <3> DEFINE r == [srv[k] EXCEPT !.req = 0]
    <3>1. srv[k] \in Status BY DEF TalkOK
    <3>2. r \in Status /\ r.req = 0 /\ r.done = srv[k].done BY <3>1 DEF Status
    <3>3. srv' = [srv EXCEPT ![k] = r] BY <2>1
    <3> HIDE DEF r
    <3> QED BY <3>2, <3>3 DEF TalkOK
  <2>3. srv[k].req \in Nat BY DEF TalkOK, Status
  <2>4. /\ job' \in [Kinds -> [pc : {"idle", "run", "done"}, id : Nat]]
        /\ job'[k].pc = "run" /\ job'[k].id = srv[k].req
        /\ \A j \in Kinds \ {k} : job'[j] = job[j]
    BY <2>1, <2>3 DEF TalkOK
  <2>5. ~srv[k].done BY <2>1 DEF TalkInv, Quiet
  <2>6. Quiet' BY <2>1, <2>2, <2>4, <2>5 DEF TalkInv, Quiet, Kinds
  <2>7. \A j \in Kinds, n \in Nat : AtLeast(j, n) => AtLeast(j, n)'
    BY <2>1, <2>2, <2>4, <2>5 DEF AtLeast
  <2>8. job["pick"].pc # "run" BY <2>1 DEF Kinds
  <2> QED BY <1>1, <2>2, <2>4, <2>6, <2>7, <2>8, Moving
<1> QED BY <1>2, <1>3 DEF Start

LEMMA InlineStep ==
  ASSUME IInv, NEW k \in Kinds, NEW then, Inline(k, then)
  PROVE  IInv'
<1> USE DEF IInv, TypeOK
<1>1. /\ UNCHANGED <<art, mail, pub, asked, past>> /\ job[k].pc = "done"
      /\ job' = [job EXCEPT ![k].pc = "idle"] /\ srv' = Reaped(srv, k, job[k].id)
  BY DEF Inline, Done
<1>2. /\ job' \in [Kinds -> [pc : {"idle", "run", "done"}, id : Nat]] /\ job[k].id \in Nat
      /\ job'[k].pc = "idle" /\ \A j \in Kinds \ {k} : job'[j] = job[j]
  BY <1>1 DEF TalkOK
<1>3. srv \in [Kinds -> Status] BY DEF TalkOK
<1>4. /\ srv' \in [Kinds -> Status]
      /\ \A j \in Kinds \ {k} : srv'[j] = srv[j]
      /\ srv[k].req # 0 => srv'[k] = srv[k]
      /\ srv[k].req = 0 => srv'[k].req = 0 /\ srv'[k].done /\ srv'[k].res = job[k].id
  BY <1>1, <1>2, <1>3, Reaping
<1>5. Quiet' BY <1>1, <1>2, <1>4 DEF TalkInv, Quiet, Kinds
<1>6. \A j \in Kinds, n \in Nat : AtLeast(j, n) => AtLeast(j, n)'
  BY <1>1, <1>2, <1>4 DEF AtLeast
<1>7. job["pick"].pc = "run" => job'["pick"].pc = "run" BY <1>1, <1>2 DEF Kinds
<1> QED BY <1>1, <1>2, <1>4, <1>5, <1>6, <1>7, Moving

LEMMA TickPublishStep == ASSUME IInv, TickPublish PROVE IInv'
<1> USE DEF IInv, TypeOK
<1>1. UNCHANGED <<art, mail, srv, job, asked, past>> /\ pub' = Applied(srv, mail)
  BY DEF TickPublish
<1>2. srv \in [Kinds -> Status] BY DEF TalkOK
<1>3. /\ pub' \in [Kinds -> Status]
      /\ \A k \in Kinds : pub'[k].res = srv[k].res /\ (pub'[k].done => srv[k].done /\ ~InMail(k))
  BY <1>1, <1>2, Applying DEF InMail
<1>4. TalkOK' /\ PastOK' BY <1>1, <1>3 DEF TalkOK, PastOK
<1>5. Numbered' /\ Quiet' BY <1>1 DEF TalkInv, Numbered, Quiet
<1>6. Mailed' BY <1>1 DEF TalkInv, Mailed, AtLeast, InMail, LastOf
<1>7. Shown' BY <1>1, <1>3 DEF TalkInv, Shown, Mailed, AtLeast
<1> QED BY <1>1, <1>4, <1>5, <1>6, <1>7, TalkStep DEF TalkInv

\* The mailbox without its first request.
LEMMA Shifting ==
  ASSUME NEW S, NEW q \in Seq(S), q # <<>>
  PROVE  /\ Head(q) = q[1] /\ 1 \in DOMAIN q /\ q[1] \in S /\ Tail(q) \in Seq(S)
         /\ \A i \in DOMAIN Tail(q) : i + 1 \in DOMAIN q /\ Tail(q)[i] = q[i + 1] /\ i \in Nat
         /\ \A i \in DOMAIN q : /\ i \in Nat
                                /\ i # 1 => i - 1 \in DOMAIN Tail(q) /\ Tail(q)[i - 1] = q[i]
<1>1. /\ Len(q) \in Nat /\ Len(q) >= 1 /\ DOMAIN q = 1..Len(q) /\ Head(q) = q[1]
      /\ \A i \in 1..Len(q) : q[i] \in S
  OBVIOUS
<1>2. /\ Tail(q) \in Seq(S) /\ DOMAIN Tail(q) = 1..(Len(q) - 1)
      /\ \A i \in 1..(Len(q) - 1) : Tail(q)[i] = q[i + 1]
  BY <1>1
<1> QED BY <1>1, <1>2

\* A poll takes the first request of the mailbox, and the outcomes of finished jobs.
LEMMA TickPollStep == ASSUME IInv, TickPoll PROVE IInv'
<1> USE DEF IInv, TypeOK
<1> DEFINE M(k) == mail # <<>> /\ Head(mail).kind = k
           s0 == IF mail = <<>> THEN srv ELSE Taken(Head(mail).kind, Head(mail).id)
           s1 == IF Done("search") THEN Reaped(s0, "search", job["search"].id) ELSE s0
           s2 == IF Done("pick") THEN Reaped(s1, "pick", job["pick"].id) ELSE s1
           Entries == [kind : Kinds, id : Nat \ {0}]
<1>1. /\ UNCHANGED <<art, pub, asked, past>> /\ srv' = s2
      /\ mail' = IF mail = <<>> THEN mail ELSE Tail(mail)
      /\ job' = [k \in Kinds |-> IF Done(k) THEN [job[k] EXCEPT !.pc = "idle"] ELSE job[k]]
  BY DEF TickPoll
<1>2. /\ srv \in [Kinds -> Status] /\ mail \in Seq(Entries)
      /\ job \in [Kinds -> [pc : {"idle", "run", "done"}, id : Nat]]
  BY DEF TalkOK
<1>3. /\ mail # <<>> => /\ Head(mail) = mail[1] /\ 1 \in DOMAIN mail /\ mail[1] \in Entries
                        /\ Tail(mail) \in Seq(Entries)
      /\ \A i \in DOMAIN mail' :
           i \in Nat /\ i + 1 \in DOMAIN mail /\ mail # <<>> /\ mail'[i] = mail[i + 1]
      /\ \A i \in DOMAIN mail : /\ i \in Nat /\ mail # <<>>
                                /\ i # 1 => i - 1 \in DOMAIN mail' /\ mail'[i - 1] = mail[i]
  <2>1. CASE mail = <<>> BY <1>1, <2>1
  <2>2. CASE mail # <<>> BY ZenonT(30), <1>1, <1>2, <2>2, Shifting
  <2> QED BY <2>1, <2>2
<1>4. /\ s0 \in [Kinds -> Status]
      /\ \A k \in Kinds :
           /\ M(k) => s0[k].req = mail[1].id /\ mail[1].id # 0 /\ ~s0[k].done
           /\ ~M(k) => s0[k] = srv[k]
  <2>1. CASE mail = <<>> BY <1>2, <2>1
  <2>2. CASE mail # <<>>
    <3> DEFINE c == Head(mail).kind
               r == [srv[c] EXCEPT !.req = Head(mail).id, !.running = TRUE, !.done = FALSE]
    <3>1. c \in Kinds /\ Head(mail).id \in Nat /\ Head(mail) = mail[1] /\ mail[1].id # 0
      BY <1>3, <2>2
    <3>2. srv[c] \in Status BY <1>2, <3>1
    <3>3. r \in Status /\ r.req = mail[1].id /\ ~r.done BY <3>1, <3>2 DEF Status
    <3>4. s0 = [srv EXCEPT ![c] = r] BY <2>2 DEF Taken
    <3>5. \A k \in Kinds : M(k) <=> k = c BY <2>2
    <3> HIDE DEF r, c, s0, M
    <3> QED BY <1>2, <3>1, <3>3, <3>4, <3>5
  <2> QED BY <2>1, <2>2
<1> HIDE DEF s0, M
<1>5. /\ s1 \in [Kinds -> Status] /\ s1["pick"] = s0["pick"]
      /\ Done("search") /\ s0["search"].req = 0 =>
           s1["search"].req = 0 /\ s1["search"].done /\ s1["search"].res = job["search"].id
      /\ ~(Done("search") /\ s0["search"].req = 0) => s1["search"] = s0["search"]
  <2>1. "search" \in Kinds /\ "pick" \in Kinds /\ job["search"].id \in Nat /\ s0 \in [Kinds -> Status]
    BY <1>2, <1>4 DEF Kinds
  <2> DEFINE r == Reaped(s0, "search", job["search"].id)
  <2>2. /\ r \in [Kinds -> Status] /\ \A j \in Kinds \ {"search"} : r[j] = s0[j]
        /\ s0["search"].req # 0 => r["search"] = s0["search"]
        /\ s0["search"].req = 0 =>
             r["search"].req = 0 /\ r["search"].done /\ r["search"].res = job["search"].id
    BY <2>1, Reaping
  <2> HIDE DEF r
  <2>3. s1 = IF Done("search") THEN r ELSE s0 BY DEF r
  <2> QED BY <2>1, <2>2, <2>3
<1> HIDE DEF s1
<1>6. /\ s2 \in [Kinds -> Status] /\ s2["search"] = s1["search"]
      /\ Done("pick") /\ s1["pick"].req = 0 =>
           s2["pick"].req = 0 /\ s2["pick"].done /\ s2["pick"].res = job["pick"].id
      /\ ~(Done("pick") /\ s1["pick"].req = 0) => s2["pick"] = s1["pick"]
  <2>1. "search" \in Kinds /\ "pick" \in Kinds /\ job["pick"].id \in Nat /\ s1 \in [Kinds -> Status]
    BY <1>2, <1>5 DEF Kinds
  <2> DEFINE r == Reaped(s1, "pick", job["pick"].id)
  <2>2. /\ r \in [Kinds -> Status] /\ \A j \in Kinds \ {"pick"} : r[j] = s1[j]
        /\ s1["pick"].req # 0 => r["pick"] = s1["pick"]
        /\ s1["pick"].req = 0 =>
             r["pick"].req = 0 /\ r["pick"].done /\ r["pick"].res = job["pick"].id
    BY <2>1, Reaping
  <2> HIDE DEF r
  <2>3. s2 = IF Done("pick") THEN r ELSE s1 BY DEF r
  <2> QED BY <2>1, <2>2, <2>3
<1> HIDE DEF s2
<1>7. ASSUME NEW k \in Kinds
      PROVE  /\ Done(k) /\ s0[k].req = 0 =>
                  srv'[k].req = 0 /\ srv'[k].done /\ srv'[k].res = job[k].id
             /\ ~(Done(k) /\ s0[k].req = 0) => srv'[k] = s0[k]
  BY <1>1, <1>5, <1>6 DEF Kinds
<1>8. /\ job' \in [Kinds -> [pc : {"idle", "run", "done"}, id : Nat]]
      /\ \A k \in Kinds : job'[k] = job[k] \/ (Done(k) /\ job'[k].pc = "idle")
      /\ \A k \in Kinds : Done(k) => job'[k].pc = "idle"
  BY <1>1, <1>2
<1>9. TalkOK' BY <1>1, <1>3, <1>6, <1>8 DEF TalkOK
<1>10. Numbered' BY <1>1, <1>3 DEF TalkInv, Numbered
<1>11. Quiet'
  <2>1. ASSUME NEW k \in Kinds, srv'[k].req # 0 \/ job'[k].pc # "idle" PROVE ~srv'[k].done
    BY <1>4, <1>7, <1>8, <2>1 DEF TalkInv, Quiet
  <2>2. job'["search"].pc = "idle" \/ job'["pick"].pc = "idle"
    BY <1>8 DEF TalkInv, Quiet, Kinds
  <2> QED BY <2>1, <2>2 DEF Quiet
\* What is foremost for a kind is what was, or comes out of the mailbox.
<1>12. ASSUME NEW k \in Kinds, NEW n \in Nat,
              IF M(k) THEN mail[1].id >= n ELSE AtLeast(k, n)
       PROVE  AtLeast(k, n)'
  <2>1. CASE M(k) BY <1>4, <1>7, <1>12, <2>1 DEF AtLeast
  <2>2. CASE ~M(k) BY <1>4, <1>7, <1>8, <1>12, <2>2 DEF AtLeast, Done
  <2> QED BY <2>1, <2>2
<1>13. \A k \in Kinds : M(k) => mail # <<>> /\ mail[1].kind = k BY <1>3 DEF M
<1>14. \A k \in Kinds : mail # <<>> /\ mail[1].kind = k => M(k) BY <1>3 DEF M
<1>15. Mailed'
  <2>1. \A k \in Kinds : asked[k].wifi \in Nat /\ asked[k].usb \in Nat BY DEF TalkOK
  <2>2. ASSUME NEW k \in Kinds PROVE AtLeast(k, asked[k].wifi)'
    BY <1>1, <1>3, <1>12, <1>13, <2>1 DEF TalkInv, Mailed, AtLeast
  <2>3. ASSUME NEW k \in Kinds, ~InMail(k)' PROVE AtLeast(k, asked[k].usb)'
    <3>1. CASE M(k)
      <4>1. LastOf(k, 1) BY <1>3, <1>13, <2>3, <3>1 DEF LastOf, InMail
      <4>2. mail[1].id >= asked[k].usb BY <1>3, <1>13, <3>1, <4>1 DEF TalkInv, Mailed
      <4> QED BY <1>1, <1>12, <2>1, <3>1, <4>2 DEF AtLeast
    <3>2. CASE ~M(k)
      <4>1. ~InMail(k) BY <1>3, <1>14, <2>3, <3>2 DEF InMail
      <4>2. AtLeast(k, asked[k].usb) BY <4>1 DEF TalkInv, Mailed
      <4> QED BY <1>1, <1>12, <2>1, <3>2, <4>2 DEF AtLeast
    <3> QED BY <3>1, <3>2
  <2>4. ASSUME NEW i \in DOMAIN mail'
        PROVE  /\ mail'[i].id >= asked'[mail'[i].kind].wifi
               /\ LastOf(mail[i].kind, i)' => mail'[i].id >= asked'[mail'[i].kind].usb
    <3>1. i \in Nat /\ i + 1 \in DOMAIN mail /\ mail'[i] = mail[i + 1] BY <1>3
    <3>2. LastOf(mail[i].kind, i)' => LastOf(mail[i + 1].kind, i + 1)
      <4> SUFFICES ASSUME LastOf(mail[i].kind, i)', NEW j \in DOMAIN mail,
                          mail[j].kind = mail[i + 1].kind
                   PROVE  j <= i + 1
        BY DEF LastOf
      <4>1. j \in Nat /\ (j # 1 => j - 1 \in DOMAIN mail' /\ mail'[j - 1] = mail[j]) BY <1>3
      <4>2. CASE j = 1 BY <3>1, <4>2
      <4>3. CASE j # 1
        <5>1. j - 1 <= i BY <3>1, <4>1, <4>3 DEF LastOf
        <5> QED BY <3>1, <4>1, <5>1
      <4> QED BY <4>2, <4>3
    <3> QED BY <1>1, <3>1, <3>2 DEF TalkInv, Mailed
  <2> QED BY <2>2, <2>3, <2>4 DEF Mailed
<1>16. Shown' BY <1>1 DEF TalkInv, Shown
<1>17. PastOK' BY <1>1 DEF PastOK
<1>18. job["pick"].pc = "run" => job'["pick"].pc = "run" BY <1>8 DEF Done, Kinds
<1> QED BY <1>1, <1>9, <1>10, <1>11, <1>15, <1>16, <1>17, <1>18, TalkStep DEF TalkInv

-----------------------------------------------------------------------------
(* The theorems. *)

LEMMA InitIInv == ASSUME Init PROVE IInv
<1>1. Sane(Rest) /\ Rest.pc = "idle" BY DEF Sane, Thread, Steps, Rest
<1>2. Blank \in Status /\ Blank.req = 0 /\ ~Blank.done BY DEF Blank, Status
<1>3. "scan" \in Pics /\ "pick" \in Pics /\ Pics = {"scan", "pick"} BY DEF Pics
<1>4. ArtOK BY <1>1, <1>3 DEF Init, ArtOK, Sane
<1>5. mail = <<>> /\ mail \in Seq([kind : Kinds, id : Nat \ {0}]) /\ DOMAIN mail = {}
  BY DEF Init
<1>6. TalkOK BY <1>2, <1>5 DEF Init, TalkOK
<1>7. PastOK BY DEF Init, PastOK
<1>8. \A k \in Kinds : /\ srv[k].req = 0 /\ ~srv[k].done /\ ~pub[k].done /\ job[k].pc = "idle"
                       /\ asked[k].wifi = 0 /\ asked[k].usb = 0
  BY <1>2 DEF Init
<1>9. TalkInv
  <2>1. Numbered BY <1>5, <1>8 DEF Init, Numbered
  <2>2. Quiet BY <1>8 DEF Quiet, Kinds
  <2>3. Mailed BY <1>5, <1>8 DEF Mailed, AtLeast
  <2>4. Shown BY <1>8 DEF Shown
  <2> QED BY <2>1, <2>2, <2>3, <2>4 DEF TalkInv
<1>10. \A t \in Pics : th[t].pc = "idle" BY <1>1, <1>3 DEF Init
<1>11. ArtInv BY <1>10 DEF Init, ArtInv, Claimed, At
<1>12. Linked BY <1>3, <1>10 DEF Linked
<1> QED BY <1>4, <1>6, <1>7, <1>9, <1>11, <1>12 DEF IInv, TypeOK

LEMMA StutterStep == ASSUME IInv, UNCHANGED vars PROVE IInv'
<1>1. ArtOK' /\ PastOK' BY DEF IInv, TypeOK, ArtOK, PastOK, vars
<1>2. ArtInv' BY ArtStays DEF art, vars
<1> QED BY <1>1, <1>2, ArtStep DEF vars

LEMMA NextStep == ASSUME IInv, [Next]_vars PROVE IInv'
<1>1. "scan" \in Pics /\ "pick" \in Pics /\ "search" \in Kinds /\ "pick" \in Kinds
  BY DEF Pics, Kinds
<1>2. CASE ScanStart BY <1>2, ScanStartStep
<1>3. CASE Scan
  BY <1>1, <1>3, LookSteps, OpenDestStep, LoadStep, RemoveStep, RecordStep, ScanNextStep DEF Scan
<1>4. CASE User BY <1>4, ForgetStep, SetConsoleArtStep DEF User
<1>5. CASE Companion BY <1>5, WifiAskStep, UsbAskStep DEF Companion
<1>6. CASE SearchRun BY <1>6, SearchRunStep
<1>7. CASE Pick
  BY <1>1, <1>7, PickRunStep, OpenDestStep, LoadStep, RemoveStep, RecordStep, PickEndStep DEF Pick
<1>8. CASE Tick
  BY <1>1, <1>8, TickPollStep, TickPublishStep, StartStep, InlineStep DEF Tick
<1>9. CASE UNCHANGED vars BY <1>9, StutterStep
<1> QED BY <1>2, <1>3, <1>4, <1>5, <1>6, <1>7, <1>8, <1>9 DEF Next

LEMMA Invariance == Spec => []IInv
<1>1. IInv /\ [Next]_vars => IInv' BY NextStep
<1> QED BY <1>1, InitIInv, PTL DEF Spec

\* Every variable keeps its type, and a thread at work has a title.
THEOREM TypeCorrect == Spec => []TypeOK
<1>1. IInv => TypeOK BY DEF IInv
<1> QED BY <1>1, Invariance, PTL

\* What a companion polls as done (g_boxart_status, the fields of HttpSrv) is the outcome
\* of its last request over that link or of a newer one, however requests over both links
\* are mixed and jobs end; and no search runs beside a pick (InvBoxartTick).
THEOREM PollCorrect == Spec => []PollIsOfLastRequest
<1>1. ASSUME IInv PROVE PollIsOfLastRequest
  <2>1. \A k \in Kinds : srv[k].done => srv[k].res >= asked[k].wifi
    BY <1>1 DEF IInv, TalkInv, Mailed, AtLeast
  <2>2. ~(job["search"].pc = "run" /\ job["pick"].pc = "run")
    BY <1>1 DEF IInv, TalkInv, Quiet
  <2> QED BY <1>1, <2>1, <2>2 DEF PollIsOfLastRequest, IInv, TalkInv, Shown
<1> QED BY <1>1, Invariance, PTL

\* A title the index resolves has its image (ba_record after http_download, and
\* boxart_set_console_art), unless a fetch or a push of it has failed since an image was last
\* written whole, or it was forgotten in the middle of a fetch.
THEOREM ImagesCorrect == Spec => []HitHasImage
<1>1. ASSUME IInv PROVE HitHasImage
  <2>1. DOMAIN th = Pics BY <1>1 DEF IInv, TypeOK, ArtOK
  <2> QED BY <1>1, <2>1 DEF HitHasImage, IInv, ArtInv, Claimed, Imaged
<1> QED BY <1>1, Invariance, PTL
=============================================================================
