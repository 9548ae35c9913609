------------------------------- MODULE BoxArt -------------------------------
(***************************************************************************)
(* Box art: the index of source/boxart.c and its fetches over the network, *)
(* and the companion's search and pick requests -- over Wi-Fi              *)
(* (source/httpsrv.c) or USB (the mailbox in source/mtp/mtp.cpp) -- that   *)
(* InvBoxartTick of source/MainApplication.cpp serves one at a time.       *)
(*                                                                         *)
(* Three threads use the index beside the UI thread: "scan" (a scan of the *)
(* library, or the drain of newly landed games: the two never run          *)
(* together), "pick" (the companion's pick) and the search, which only     *)
(* lists candidates.  The index is locked for each touch and never over    *)
(* the network; a file open for writing cannot be opened or removed by     *)
(* another thread.                                                         *)
(*                                                                         *)
(* Requests carry ids, as the companion knows them apart.  It speaks over  *)
(* one link at a time.  The file an image is written to is one per title.  *)
(*                                                                         *)
(* A definition marked "Variant" is the next one with a plausible slip;    *)
(* no behaviour uses it, it shows which property would notice.             *)
(***************************************************************************)
EXTENDS Integers, Sequences, FiniteSets

CONSTANTS
  Titles,    \* games, and consoles as "console:<target>"
  None,
  MaxReqs,   \* bound: requests of the companion
  MaxScans,  \* bound: scans
  MaxEdits   \* bound: covers forgotten or pushed, also in vain

ASSUME BoxArtAssumption ==
  None \notin Titles \cup {"scan", "pick"} /\ {MaxReqs, MaxScans, MaxEdits} \subseteq Nat

VARIABLES
  idx,    \* the index: what a title resolves to, "none", "miss" or "hit"
  png,    \* the image file of a title: "no", "part", "auto" or "user"
  held,   \* which thread has that file open
  th,     \* the scan and pick threads: pc, title, force, code
  left,   \* titles the scan has still to do
  mail,   \* g_boxartq
  pub,    \* g_boxart_status, what a USB poll reads
  srv,    \* the HttpSrv fields: per kind the waiting request (0: none), the
          \* status flags and the request the outcome shown is of
  job,    \* inv_boxsearch and inv_boxpick: the worker's state and request
  ui,     \* where the UI thread is in InvBoxartTick, "idle" outside
  asked,  \* the last request accepted, per kind and link
  past    \* requests, scans and edits so far; titles of which a fetch or a push has
          \* failed, or that were forgotten during a fetch, since an image was last
          \* written whole (hurt); and those the user chose (own)

vars == <<idx, png, held, th, left, mail, pub, srv, job, ui, asked, past>>
art  == <<idx, png, held, th, left>>
talk == <<mail, pub, srv, job, ui, asked>>

Kinds == {"search", "pick"}
Links == {"wifi", "usb"}
Pics  == {"scan", "pick"}
Rest  == [pc |-> "idle", title |-> None, force |-> FALSE, code |-> 0]

-----------------------------------------------------------------------------
(* boxart.c: a fetch, one step per touch of the index, the card or the net *)

Go(t, pc)     == th' = [th EXCEPT ![t].pc = pc]
At(t, pc)     == th[t].pc = pc
Title(t)      == th[t].title

\* ba_fetch_internal: what is resolved is not asked for again unless forced.
Look ==
  /\ At("scan", "look")
  /\ Go("scan", IF idx[Title("scan")] # "none" /\ ~th["scan"].force THEN "next" ELSE "search")
  /\ UNCHANGED <<idx, png, held, left, talk, past>>

\* ba_search_game_id and ba_grid_url: no answer, nothing of that name, or an
\* image to get.
Search ==
  /\ At("scan", "search")
  /\ \E pc \in {"next", "miss", "open"} : Go("scan", pc)
  /\ UNCHANGED <<idx, png, held, left, talk, past>>

\* http_download into the title's file.
OpenDest(t) ==
  /\ At(t, "open")
  /\ IF held[Title(t)] = None
     THEN /\ held' = [held EXCEPT ![Title(t)] = t]
          /\ png' = [png EXCEPT ![Title(t)] = "part"]
          /\ Go(t, "load")
     ELSE Go(t, "remove") /\ UNCHANGED <<held, png>>
  /\ UNCHANGED <<idx, left, talk, past>>

\* (Variant: the status of the answer is not looked at.)
LoadAnyCode(t) ==
  /\ At(t, "load")
  /\ held' = [held EXCEPT ![Title(t)] = None]
  /\ \/ png' = [png EXCEPT ![Title(t)] = IF t = "pick" THEN "user" ELSE "auto"]
     \/ UNCHANGED png
  /\ Go(t, "hit")
  /\ UNCHANGED <<idx, left, talk, past>>

Load(t) ==
  /\ At(t, "load")
  /\ held' = [held EXCEPT ![Title(t)] = None]
  /\ \/ /\ png' = [png EXCEPT ![Title(t)] = IF t = "pick" THEN "user" ELSE "auto"]
        /\ past' = [past EXCEPT !.hurt = @ \ {Title(t)}]
        /\ Go(t, "hit")
     \/ \E code \in {0, 200} :
          /\ th' = [th EXCEPT ![t] = [@ EXCEPT !.pc = "remove", !.code = code]]
          /\ UNCHANGED <<png, past>>
  /\ UNCHANGED <<idx, left, talk>>

\* What did not arrive whole is removed.  A status code makes a scan take it
\* for an answer; a pick leaves the index alone.
Remove(t) ==
  /\ At(t, "remove")
  /\ png' = IF held[Title(t)] = None THEN [png EXCEPT ![Title(t)] = "no"] ELSE png
  /\ Go(t, IF t = "scan" /\ th[t].code > 0 THEN "miss" ELSE "next")
  /\ past' = [past EXCEPT !.hurt = @ \cup {Title(t)}]
  /\ UNCHANGED <<idx, held, left, talk>>

\* ba_record
Record(t) ==
  /\ At(t, "hit") \/ At(t, "miss")
  /\ idx' = [idx EXCEPT ![Title(t)] = th[t].pc]
  /\ past' = [past EXCEPT !.own = IF t = "pick" THEN @ \cup {Title(t)} ELSE @]
  /\ th' = [th EXCEPT ![t] = [@ EXCEPT !.pc = "next", !.code = IF At(t, "hit") THEN 1 ELSE 0]]
  /\ UNCHANGED <<png, held, left, talk>>

\* BoxArtScanThread and BoxArtAutoThread: title by title, until cancelled.
ScanStart ==
  /\ At("scan", "idle") /\ past.scans < MaxScans
  /\ \E ts \in SUBSET Titles \ {{}}, force \in BOOLEAN :
       left' = ts /\ th' = [th EXCEPT !["scan"] = [Rest EXCEPT !.pc = "next", !.force = force]]
  /\ past' = [past EXCEPT !.scans = @ + 1]
  /\ UNCHANGED <<idx, png, held, talk>>

ScanNext ==
  /\ At("scan", "next")
  /\ \/ \E x \in left :
          /\ left' = left \ {x}
          /\ th' = [th EXCEPT !["scan"] = [@ EXCEPT !.pc = "look", !.title = x, !.code = 0]]
     \/ left' = {} /\ th' = [th EXCEPT !["scan"] = Rest]
  /\ UNCHANGED <<idx, png, held, talk, past>>

Scan == Look \/ Search \/ OpenDest("scan") \/ Load("scan") \/ Remove("scan") \/ Record("scan")
        \/ ScanNext

\* The UI thread: a cover is forgotten (boxart_forget, or one of a clear), or
\* one the companion pushes is written and recorded (boxart_set_console_art).
Fetching(x) == \E t \in DOMAIN th : Title(t) = x
Edit == past.edits < MaxEdits /\ ui = "idle"

Forget(x) ==
  /\ Edit /\ idx[x] # "none"
  /\ idx' = [idx EXCEPT ![x] = "none"]
  /\ png' = IF idx[x] = "hit" /\ held[x] = None THEN [png EXCEPT ![x] = "no"] ELSE png
  /\ past' = [past EXCEPT !.edits = @ + 1, !.own = @ \ {x},
                          !.hurt = IF Fetching(x) THEN @ \cup {x} ELSE @ \ {x}]
  /\ UNCHANGED <<held, th, left, talk>>

\* The file is emptied as it is opened, unless another thread has it open.  A short
\* write removes it and leaves the index as it was; a card that turns out to be full
\* only at the fclose, whose result nobody looks at, leaves a part that is recorded.
SetConsoleArt(x) ==
  /\ Edit /\ held[x] = None
  /\ \/ /\ png' = [png EXCEPT ![x] = "user"] /\ idx' = [idx EXCEPT ![x] = "hit"]
        /\ past' = [past EXCEPT !.edits = @ + 1, !.own = @ \cup {x}, !.hurt = @ \ {x}]
     \/ /\ png' = [png EXCEPT ![x] = "no"] /\ UNCHANGED idx
        /\ past' = [past EXCEPT !.edits = @ + 1, !.hurt = @ \cup {x}]
     \/ /\ png' = [png EXCEPT ![x] = "part"] /\ idx' = [idx EXCEPT ![x] = "hit"]
        /\ past' = [past EXCEPT !.edits = @ + 1, !.own = @ \cup {x}, !.hurt = @ \cup {x}]
  /\ UNCHANGED <<held, th, left, talk>>

User == \E x \in Titles : Forget(x) \/ SetConsoleArt(x)

-----------------------------------------------------------------------------
(* The companion's requests *)

Blank    == [req |-> 0, running |-> FALSE, done |-> FALSE, res |-> 0]
Taken(k, id) == [srv EXCEPT ![k] = [@ EXCEPT !.req = id, !.running = TRUE, !.done = FALSE]]

\* Served by the UI thread between frames.
WifiAsk(k) ==
  /\ past.reqs < MaxReqs /\ ui = "idle" /\ mail = <<>>
  /\ srv' = Taken(k, past.reqs + 1)
  /\ asked' = [asked EXCEPT ![k].wifi = past.reqs + 1]
  /\ past' = [past EXCEPT !.reqs = @ + 1]
  /\ UNCHANGED <<art, mail, pub, job, ui>>

\* (Variant: a status says nothing of what still waits in the mailbox.)
AppliedLater(st, q) == st

\* ApplyPendingBoxartReqs
Applied(st, q) == [k \in Kinds |->
  IF \E i \in DOMAIN q : q[i].kind = k THEN [st[k] EXCEPT !.running = TRUE, !.done = FALSE]
                                      ELSE st[k]]

\* EnqueueBoxartReq, by the responder thread.
UsbAsk(k) ==
  /\ past.reqs < MaxReqs
  /\ mail' = Append(mail, [kind |-> k, id |-> past.reqs + 1])
  /\ pub' = Applied(pub, mail')
  /\ asked' = [asked EXCEPT ![k].usb = past.reqs + 1]
  /\ past' = [past EXCEPT !.reqs = @ + 1]
  /\ UNCHANGED <<art, srv, job, ui>>

Companion == \E k \in Kinds : WifiAsk(k) \/ UsbAsk(k)

\* InvBoxartSearchThread lists and previews; InvBoxartPickThread gets what was
\* picked, or nothing for an index it does not know.
SearchRun ==
  /\ job["search"].pc = "run"
  /\ job' = [job EXCEPT !["search"].pc = "done"]
  /\ UNCHANGED <<art, mail, pub, srv, ui, asked, past>>

PickRun ==
  /\ job["pick"].pc = "run" /\ At("pick", "idle")
  /\ \/ /\ \E x \in Titles : th' = [th EXCEPT !["pick"] = [Rest EXCEPT !.pc = "open", !.title = x]]
        /\ UNCHANGED job
     \/ job' = [job EXCEPT !["pick"].pc = "done"] /\ UNCHANGED th
  /\ UNCHANGED <<idx, png, held, left, mail, pub, srv, ui, asked, past>>

PickEnd ==
  /\ At("pick", "next")
  /\ th' = [th EXCEPT !["pick"] = Rest] /\ job' = [job EXCEPT !["pick"].pc = "done"]
  /\ UNCHANGED <<idx, png, held, left, mail, pub, srv, ui, asked, past>>

Pick == PickRun \/ OpenDest("pick") \/ Load("pick") \/ Remove("pick") \/ Record("pick") \/ PickEnd

-----------------------------------------------------------------------------
(* InvBoxartTick *)

\* A finished job's outcome is shown, unless a newer request waits.
Reaped(s, k, id) ==
  IF s[k].req # 0 THEN s
  ELSE [s EXCEPT ![k] = [@ EXCEPT !.running = FALSE, !.done = TRUE, !.res = id]]
Done(k) == job[k].pc = "done"

\* PollBoxartReq, and the reaping of both workers.
TickPoll ==
  /\ ui = "idle"
  /\ mail # <<>> \/ \E k \in Kinds : Done(k) \/ srv[k].req # 0
  /\ LET s0 == IF mail = <<>> THEN srv ELSE Taken(Head(mail).kind, Head(mail).id)
         s1 == IF Done("search") THEN Reaped(s0, "search", job["search"].id) ELSE s0
     IN  srv' = IF Done("pick") THEN Reaped(s1, "pick", job["pick"].id) ELSE s1
  /\ mail' = IF mail = <<>> THEN mail ELSE Tail(mail)
  /\ job' = [k \in Kinds |-> IF Done(k) THEN [job[k] EXCEPT !.pc = "idle"] ELSE job[k]]
  /\ ui' = "search"
  /\ UNCHANGED <<art, pub, asked, past>>

\* One job at a time.
Busy(k) == \E j \in Kinds : job[j].pc # "idle"

\* With no thread to be had, the job is run here and now.
Start(k, then) ==
  /\ ui = k
  /\ IF Busy(k) \/ srv[k].req = 0 THEN ui' = then /\ UNCHANGED <<srv, job>>
     ELSE /\ job' = [job EXCEPT ![k] = [pc |-> "run", id |-> srv[k].req]]
          /\ srv' = [srv EXCEPT ![k].req = 0]
          /\ ui' \in {then, k \o " inline"}
  /\ UNCHANGED <<art, mail, pub, asked, past>>

\* (Variant: only a thread's outcome is shown.)
InlineQuiet(k, then) ==
  /\ ui = k \o " inline" /\ Done(k)
  /\ job' = [job EXCEPT ![k].pc = "idle"]
  /\ ui' = then
  /\ UNCHANGED <<art, mail, pub, srv, asked, past>>

Inline(k, then) ==
  /\ ui = k \o " inline" /\ Done(k)
  /\ job' = [job EXCEPT ![k].pc = "idle"]
  /\ srv' = Reaped(srv, k, job[k].id)
  /\ ui' = then
  /\ UNCHANGED <<art, mail, pub, asked, past>>

\* SetBoxartStatus
TickPublish ==
  /\ ui = "publish"
  /\ pub' = Applied(srv, mail)
  /\ ui' = "idle"
  /\ UNCHANGED <<art, mail, srv, job, asked, past>>

Tick == \/ TickPoll \/ TickPublish
        \/ Start("search", "pick") \/ Inline("search", "pick")
        \/ Start("pick", "publish") \/ Inline("pick", "publish")

-----------------------------------------------------------------------------
Init ==
  /\ idx = [x \in Titles |-> "none"] /\ png = [x \in Titles |-> "no"]
  /\ held = [x \in Titles |-> None] /\ left = {}
  /\ th = [t \in {"scan", "pick"} |-> Rest]
  /\ mail = <<>> /\ ui = "idle"
  /\ pub = [k \in Kinds |-> Blank] /\ srv = [k \in Kinds |-> Blank]
  /\ job = [k \in Kinds |-> [pc |-> "idle", id |-> 0]]
  /\ asked = [k \in Kinds |-> [wifi |-> 0, usb |-> 0]]
  /\ past = [reqs |-> 0, scans |-> 0, edits |-> 0, hurt |-> {}, own |-> {}]

Next == ScanStart \/ Scan \/ User \/ Companion \/ SearchRun \/ Pick \/ Tick

Spec == Init /\ [][Next]_vars

\* Frames follow each other, and a worker's calls come back.
FairSpec == Spec /\ WF_vars(Tick) /\ WF_vars(SearchRun \/ Pick)

-----------------------------------------------------------------------------
(* What is to hold *)

\* What a companion polls as done is the outcome of its last request, never of
\* one before: of the search or pick it asked for, over the link it asked on; and
\* no search rewrites the list a running pick picks from.
PollIsOfLastRequest ==
  /\ \A k \in Kinds : /\ pub[k].done => pub[k].res >= asked[k].usb
                      /\ srv[k].done => srv[k].res >= asked[k].wifi
  /\ ~(job["search"].pc = "run" /\ job["pick"].pc = "run")

\* A title the index resolves has its image on the card, unless a fetch or a push of it
\* has failed since an image was last written whole, or it was forgotten in the middle of
\* a fetch: whatever scan, pick, push and clear do at once, a hit is only lost to a
\* failure, and the next image that arrives makes up for it.
HitHasImage ==
  \A x \in Titles : idx[x] = "hit" =>
    png[x] \in {"auto", "user"} \/ held[x] # None \/ x \in past.hurt
    \/ \E t \in DOMAIN th : At(t, "remove") /\ Title(t) = x

\* ... and a failure costs no image either (refuted by TLC: the index keeps its hit
\* when a push or a fetch that fails removes the file).
HitIsWhole ==
  \A x \in Titles : idx[x] = "hit" /\ held[x] = None /\ (\A t \in DOMAIN th : Title(t) # x) =>
    png[x] \in {"auto", "user"}

\* A cover the user chose stays until the user changes it ("an explicit
\* interactive search always wins over a stale scan answer",
\* include/boxart.h:67).
ChoiceStays == \A x \in past.own : idx[x] = "hit" /\ (held[x] = None => png[x] = "user")

\* Every request gets its answer, or that of a newer one.
AnswersCome == \A k \in Kinds : srv[k].running ~> srv[k].done
=============================================================================
