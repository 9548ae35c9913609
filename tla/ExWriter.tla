------------------------------ MODULE ExWriter ------------------------------
(***************************************************************************)
(* extract_archive of source/extract.c: the thread that decompresses walks *)
(* the archive and fills chunks, a second thread writes them to the card.  *)
(* The chunks go through a ring of nslots slots under one mutex and two    *)
(* condition variables; without a second core, a thread or memory the      *)
(* first thread writes itself.  An entry whose file exists is written      *)
(* beside it and swapped in when it is whole.  The caller deletes the      *)
(* archive when extract_archive returns a positive count.                  *)
(*                                                                         *)
(* An entry is a name and the offsets its blocks have in the file (a gap   *)
(* is a hole of a sparse entry); a chunk holds SlotSz blocks.  A mishap is *)
(* whatever may go wrong once: a bad header or block, a name the card      *)
(* refuses, a failing write or close, a cancel, a power cut.               *)
(*                                                                         *)
(* A definition marked "Variant" is the next one with a plausible slip;    *)
(* no behaviour uses it, it shows which property would notice.             *)
(***************************************************************************)
EXTENDS Integers, Sequences, Functions

CONSTANTS
  Archive,     \* the entries, a sequence of [name, at : sequence of offsets]
  Existing,    \* names of which the card holds an older file
  Rings,       \* what nslots may come to: 0, 1 or EX_WQ_SLOTS
  SlotSz,      \* blocks in a chunk
  RenameFails, \* whether the rename of the swap may fail
  MaxMishaps,  \* bound: mishaps
  None

Names == {Archive[i].name : i \in DOMAIN Archive}

ASSUME ExWriterAssumption ==
  /\ Rings \subseteq Nat /\ SlotSz \in Nat \ {0}
  /\ Archive \in Seq([name : Names, at : Seq(Nat)])
  /\ Existing \subseteq Names /\ RenameFails \in BOOLEAN
  /\ None \notin Names \X {"out", "hxtmp"}

VARIABLES
  card,       \* the files on the card: path |-> content
  src,        \* whether the archive is still there
  nslots,     \* slots in the ring, 0 without a buffer
  threaded,   \* whether a second thread writes
  slots, head, tail, count, stop,  \* the ring
  f, pos, disk_fail,               \* ExWriter: the open file, its position
  pc, ret,    \* where extract_archive is; where ex_flush goes back to
  n, k,       \* entry and block being read
  fill, run_off,                   \* the chunk being filled
  ok,         \* write_ok of this entry
  cancelled,  \* ... and whether the callback has said to stop
  incomplete, \* some entry is missing
  done,       \* entries counted
  skipped,    \* entries the card refused
  wpc,        \* where the writer thread is
  mishaps     \* mishaps so far

disk   == <<card, src>>
mode   == <<nslots, threaded>>
ring   == <<slots, head, tail, count, stop>>
file   == <<f, pos, disk_fail>>
chunk  == <<fill, run_off>>
entry  == <<ok, cancelled>>
tally  == <<incomplete, done, skipped>>
vars   == <<disk, mode, ring, file, pc, ret, n, k, chunk, entry, tally, wpc, mishaps>>

Blocks   == ({0} \cup DOMAIN Archive) \X Nat
Out(i)   == <<Archive[i].name, "out">>
Tmp(i)   == <<Archive[i].name, "hxtmp">>
Paths    == Names \X {"out", "hxtmp"}
Exists(p) == p \in DOMAIN card
Whole(i) == [o \in Range(Archive[i].at) |-> <<i, o>>]
Older    == [o \in {0} |-> <<0, 0>>]

Put(p, c)  == [q \in DOMAIN card \cup {p} |-> IF q = p THEN c ELSE card[q]]
Removed(p) == Restrict(card, DOMAIN card \ {p})

Mishap   == mishaps < MaxMishaps /\ mishaps' = mishaps + 1
Smoothly == UNCHANGED mishaps

-----------------------------------------------------------------------------
(* ex_do_write: the one place bytes reach the card *)

Overlay(c, data, at) ==
  LET new == at .. at + Len(data) - 1
  IN  [o \in DOMAIN c \cup new |-> IF o \in new THEN data[o - at + 1] ELSE c[o]]

\* (Variant: the position is trusted and the seek left out.)
WriteNoSeek(data, at) ==
  IF disk_fail \/ f = None
  THEN UNCHANGED <<card, pos, disk_fail>> /\ Smoothly
  ELSE /\ card' = [card EXCEPT ![f] = Overlay(@, data, pos)]
       /\ pos' = pos + Len(data)
       /\ UNCHANGED disk_fail /\ Smoothly

DoWrite(data, at) ==
  IF disk_fail \/ f = None
  THEN UNCHANGED <<card, pos, disk_fail>> /\ Smoothly
  ELSE \/ /\ card' = [card EXCEPT ![f] = Overlay(@, data, at)]
          /\ pos' = at + Len(data)
          /\ UNCHANGED disk_fail /\ Smoothly
       \/ /\ disk_fail' = TRUE   \* the seek or the write fails
          /\ UNCHANGED <<card, pos>> /\ Mishap

-----------------------------------------------------------------------------
(* The writer thread: ex_writer_main *)

WriterTake ==
  /\ wpc = "wait" /\ count > 0
  /\ wpc' = "write"
  /\ UNCHANGED <<disk, mode, ring, file, pc, ret, n, k, chunk, entry, tally, mishaps>>

\* (Variant: a failed write ends the thread.)
WriterWriteOnce ==
  /\ wpc = "write"
  /\ DoWrite(SubSeq(slots[tail].data, 1, slots[tail].len), slots[tail].offset)
  /\ wpc' = IF disk_fail' THEN "exit" ELSE "pop"
  /\ UNCHANGED <<src, mode, ring, f, pc, ret, n, k, chunk, entry, tally>>

\* Outside the mutex; after a failure the slots are only popped.
WriterWrite ==
  /\ wpc = "write"
  /\ DoWrite(SubSeq(slots[tail].data, 1, slots[tail].len), slots[tail].offset)
  /\ wpc' = "pop"
  /\ UNCHANGED <<src, mode, ring, f, pc, ret, n, k, chunk, entry, tally>>

WriterPop ==
  /\ wpc = "pop"
  /\ tail' = (tail + 1) % nslots
  /\ count' = count - 1
  /\ wpc' = "wait"
  /\ UNCHANGED <<disk, mode, slots, head, stop, file, pc, ret, n, k, chunk, entry, tally, mishaps>>

WriterExit ==
  /\ wpc = "wait" /\ count = 0 /\ stop
  /\ wpc' = "exit"
  /\ UNCHANGED <<disk, mode, ring, file, pc, ret, n, k, chunk, entry, tally, mishaps>>

Writer == WriterTake \/ WriterWrite \/ WriterPop \/ WriterExit

-----------------------------------------------------------------------------
(* The walk over the entries *)

Path(i) == IF Exists(Out(i)) THEN Tmp(i) ELSE Out(i)

\* (Variant: the existing file is truncated and written in place.)
OpenInPlace ==
  /\ pc = "header" /\ n < Len(Archive)
  /\ n' = n + 1
  /\ card' = Put(Out(n'), <<>>) /\ f' = Out(n')
  /\ pos' = 0 /\ k' = 0 /\ fill' = 0 /\ run_off' = 0
  /\ ok' = TRUE /\ cancelled' = FALSE
  /\ pc' = "read"
  /\ UNCHANGED <<src, mode, ring, disk_fail, ret, tally, wpc, mishaps>>

\* The next header, and ex_open_out of a fresh file or of one beside the old.
Open ==
  /\ pc = "header" /\ n < Len(Archive)
  /\ n' = n + 1
  /\ card' = Put(Path(n'), <<>>) /\ f' = Path(n')
  /\ pos' = 0 /\ k' = 0 /\ fill' = 0 /\ run_off' = 0
  /\ ok' = TRUE /\ cancelled' = FALSE
  /\ pc' = "read"
  /\ UNCHANGED <<src, mode, ring, disk_fail, ret, tally, wpc, mishaps>>

\* A name the card will not take, or a path too long.
Skip ==
  /\ pc = "header" /\ n < Len(Archive)
  /\ Mishap
  /\ n' = n + 1
  /\ skipped' = skipped \cup {n'}
  /\ UNCHANGED <<disk, mode, ring, file, pc, ret, k, chunk, entry, incomplete, done, wpc>>

EndOfArchive ==
  /\ pc = "header"
  /\ \/ n = Len(Archive) /\ Smoothly /\ UNCHANGED incomplete
     \/ Mishap /\ incomplete' = TRUE   \* a header that cannot be read
  /\ pc' = "stop"
  /\ UNCHANGED <<disk, mode, ring, file, ret, n, k, chunk, entry, done, skipped, wpc>>

ReadBlock ==
  /\ pc = "read" /\ k < Len(Archive[n].at)
  /\ k' = k + 1
  /\ pc' = "put"
  /\ UNCHANGED <<disk, mode, ring, file, ret, n, chunk, entry, tally, wpc, mishaps>>

\* Damaged data, or a block outside the declared size.
ReadBad ==
  /\ pc = "read" /\ Mishap
  /\ ok' = FALSE /\ pc' = "drain"
  /\ UNCHANGED <<disk, mode, ring, file, ret, n, k, chunk, cancelled, tally, wpc>>

\* The last chunk, if any, is flushed.
ReadEnd ==
  /\ pc = "read" /\ k = Len(Archive[n].at)
  /\ pc' = IF fill = 0 THEN "drain" ELSE "flush"
  /\ ret' = "drain"
  /\ UNCHANGED <<disk, mode, ring, file, n, k, chunk, entry, tally, wpc, mishaps>>

\* ex_put, when the block goes straight through ...
PutThrough ==
  /\ pc = "put" /\ nslots = 0
  /\ DoWrite(<<<<n, Archive[n].at[k]>>>>, Archive[n].at[k])
  /\ ok' = ~disk_fail'
  /\ pc' = IF disk_fail' THEN "drain" ELSE "progress"
  /\ UNCHANGED <<src, mode, ring, f, ret, n, k, chunk, cancelled, tally, wpc>>

\* ... when it does not continue the chunk ...
Jumps == fill > 0 /\ Archive[n].at[k] # run_off + fill

PutJump ==
  /\ pc = "put" /\ nslots > 0 /\ Jumps
  /\ pc' = "flush" /\ ret' = "put"
  /\ UNCHANGED <<disk, mode, ring, file, n, k, chunk, entry, tally, wpc, mishaps>>

\* ... and when it does: it is copied into the slot at head.
PutCopy ==
  /\ pc = "put" /\ nslots > 0 /\ ~Jumps
  /\ slots' = [slots EXCEPT ![head].data[fill + 1] = <<n, Archive[n].at[k]>>]
  /\ run_off' = IF fill = 0 THEN Archive[n].at[k] ELSE run_off
  /\ fill' = fill + 1
  /\ pc' = IF fill' = SlotSz THEN "flush" ELSE "progress"
  /\ ret' = "progress"
  /\ UNCHANGED <<disk, mode, head, tail, count, stop, file, n, k, entry, tally, wpc, mishaps>>

\* ex_flush without a second thread
FlushSync ==
  /\ pc = "flush" /\ ~threaded
  /\ DoWrite(SubSeq(slots[head].data, 1, fill), run_off)
  /\ fill' = 0
  /\ ok' = ~disk_fail'
  /\ pc' = IF disk_fail' THEN "drain" ELSE ret
  /\ UNCHANGED <<src, mode, ring, f, ret, n, k, run_off, cancelled, tally, wpc>>

\* ... and with one: ex_publish ...
Publish ==
  /\ pc = "flush" /\ threaded
  /\ slots' = [slots EXCEPT ![head].len = fill, ![head].offset = run_off]
  /\ head' = (head + 1) % nslots
  /\ count' = count + 1
  /\ fill' = 0
  /\ pc' = "begin"
  /\ UNCHANGED <<disk, mode, tail, stop, file, ret, n, k, run_off, entry, tally, wpc, mishaps>>

\* ... and ex_begin_slot: wait until the next slot is free.
Begin ==
  /\ pc = "begin"
  /\ count < nslots \/ disk_fail
  /\ ok' = ~disk_fail
  /\ pc' = IF disk_fail THEN "drain" ELSE ret
  /\ UNCHANGED <<disk, mode, ring, file, ret, n, k, chunk, cancelled, tally, wpc, mishaps>>

\* The callback after a block: go on, or a cancel.
Progress ==
  /\ pc = "progress"
  /\ \/ Smoothly /\ pc' = "read" /\ UNCHANGED entry
     \/ Mishap /\ pc' = "drain" /\ ok' = FALSE /\ cancelled' = TRUE
  /\ UNCHANGED <<disk, mode, ring, file, ret, n, k, chunk, tally, wpc>>

\* ex_drain, and what the writer has met.
Drain ==
  /\ pc = "drain"
  /\ threaded => count = 0
  /\ ok' = (ok /\ ~disk_fail)
  /\ pc' = "close"
  /\ UNCHANGED <<disk, mode, ring, file, ret, n, k, chunk, cancelled, tally, wpc, mishaps>>

\* (Variant: a bad entry is dropped and not held against the whole.)
CloseForgiving ==
  /\ pc = "close"
  /\ f' = None /\ Smoothly
  /\ card' = IF ok THEN card ELSE Removed(f)
  /\ pc' = CASE ok /\ f = Tmp(n) -> "swap" [] ok /\ f = Out(n) -> "count"
             [] ~ok /\ (cancelled \/ disk_fail) -> "stop" [] OTHER -> "header"
  /\ UNCHANGED <<src, mode, ring, pos, disk_fail, ret, n, k, chunk, entry, tally, wpc>>

\* fclose, which may be where a full card shows; a file that is not whole goes.
Close ==
  /\ pc = "close"
  /\ \/ Smoothly /\ UNCHANGED <<ok, disk_fail>>
     \/ ok /\ Mishap /\ ok' = FALSE /\ disk_fail' = TRUE
  /\ f' = None
  /\ card' = IF ok' THEN card ELSE Removed(f)
  /\ incomplete' = (incomplete \/ ~ok')
  /\ pc' = CASE ok' /\ f = Tmp(n) -> "swap"
             [] ok' /\ f = Out(n) -> "count"
             [] ~ok' /\ (cancelled \/ disk_fail') -> "stop"
             [] OTHER -> "header"
  /\ UNCHANGED <<src, mode, ring, pos, ret, n, k, chunk, cancelled, done, skipped, wpc>>

\* The old file is removed (if that fails the new one is) ...
Swap ==
  /\ pc = "swap"
  /\ \/ Smoothly /\ card' = Removed(Out(n)) /\ pc' = "rename" /\ UNCHANGED incomplete
     \/ Mishap /\ card' = Removed(Tmp(n)) /\ pc' = "header" /\ incomplete' = TRUE
  /\ UNCHANGED <<src, mode, ring, file, ret, n, k, chunk, entry, done, skipped, wpc>>

\* ... and the new one takes its name, or is removed as well.
Rename ==
  /\ pc = "rename"
  /\ \/ /\ card' = [q \in (DOMAIN card \ {Tmp(n)}) \cup {Out(n)} |->
                      IF q = Out(n) THEN card[Tmp(n)] ELSE card[q]]
        /\ Smoothly /\ pc' = "count" /\ UNCHANGED incomplete
     \/ RenameFails /\ Mishap /\ card' = Removed(Tmp(n)) /\ pc' = "header" /\ incomplete' = TRUE
  /\ UNCHANGED <<src, mode, ring, file, ret, n, k, chunk, entry, done, skipped, wpc>>

\* The entry counts; the callback may cancel here too.
Count ==
  /\ pc = "count"
  /\ done' = done \cup {n}
  /\ \/ Smoothly /\ pc' = "header" /\ UNCHANGED incomplete
     \/ Mishap /\ pc' = "stop" /\ incomplete' = TRUE
  /\ UNCHANGED <<disk, mode, ring, file, ret, n, k, chunk, entry, skipped, wpc>>

\* The writer is told to stop ...
Stop ==
  /\ pc = "stop"
  /\ stop' = TRUE /\ pc' = "join"
  /\ UNCHANGED <<disk, mode, slots, head, tail, count, file, ret, n, k, chunk, entry, tally, wpc, mishaps>>

\* ... and joined; the caller deletes the archive on a positive count.
Result == IF disk_fail \/ incomplete THEN -1 ELSE IF done = {} THEN 0 ELSE 1

Return ==
  /\ pc = "join"
  /\ threaded => wpc = "exit"
  /\ pc' = "done"
  /\ src' = (Result <= 0)
  /\ UNCHANGED <<card, mode, ring, file, ret, n, k, chunk, entry, tally, wpc, mishaps>>

Decompress ==
  \/ Open \/ Skip \/ EndOfArchive \/ ReadBlock \/ ReadBad \/ ReadEnd
  \/ PutThrough \/ PutJump \/ PutCopy \/ FlushSync \/ Publish \/ Begin \/ Progress
  \/ Drain \/ Close \/ Swap \/ Rename \/ Count \/ Stop \/ Return

-----------------------------------------------------------------------------
Blank == [data |-> [j \in 1..SlotSz |-> None], len |-> 0, offset |-> 0]

\* What extract_archive sets up: memory and a second core decide how.
Init ==
  /\ card = [p \in Existing \X {"out"} |-> Older]
  /\ src = TRUE /\ mishaps = 0
  /\ nslots \in Rings /\ threaded \in BOOLEAN
  /\ threaded => nslots >= 2
  /\ slots = [s \in 0..nslots - 1 |-> Blank]
  /\ head = 0 /\ tail = 0 /\ count = 0 /\ stop = FALSE
  /\ f = None /\ pos = 0 /\ disk_fail = FALSE
  /\ pc = "header" /\ ret = None /\ n = 0 /\ k = 0
  /\ fill = 0 /\ run_off = 0 /\ ok = TRUE /\ cancelled = FALSE
  /\ incomplete = FALSE /\ done = {} /\ skipped = {}
  /\ wpc = IF threaded THEN "wait" ELSE "exit"

\* The power goes; with the archive still there it is unpacked again later.
Again ==
  /\ \/ pc # "done" /\ Mishap
     \/ pc = "done" /\ src /\ Mishap
  /\ UNCHANGED disk
  /\ nslots' \in Rings /\ threaded' \in BOOLEAN
  /\ threaded' => nslots' >= 2
  /\ slots' = [s \in 0..nslots' - 1 |-> Blank]
  /\ head' = 0 /\ tail' = 0 /\ count' = 0 /\ stop' = FALSE
  /\ f' = None /\ pos' = 0 /\ disk_fail' = FALSE
  /\ pc' = "header" /\ ret' = None /\ n' = 0 /\ k' = 0
  /\ fill' = 0 /\ run_off' = 0 /\ ok' = TRUE /\ cancelled' = FALSE
  /\ incomplete' = FALSE /\ done' = {} /\ skipped' = {}
  /\ wpc' = IF threaded' THEN "wait" ELSE "exit"

Next == Decompress \/ Writer \/ Again

Spec == Init /\ [][Next]_vars
\* Both threads keep running.
FairSpec == Spec /\ WF_vars(Decompress) /\ WF_vars(Writer)

-----------------------------------------------------------------------------
(* What is to hold *)

\* The variables keep their types.
TypeOK ==
  /\ DOMAIN card \subseteq Paths
  /\ \A p \in DOMAIN card : DOMAIN card[p] \subseteq Nat /\ Range(card[p]) \subseteq Blocks \cup {None}
  /\ src \in BOOLEAN /\ threaded \in BOOLEAN /\ nslots \in Rings
  /\ slots \in [0..nslots - 1 -> [data : [1..SlotSz -> Blocks \cup {None}],
                                  len : 0..SlotSz, offset : Nat]]
  /\ {head, tail} \subseteq {0} \cup DOMAIN slots /\ count \in 0..nslots
  /\ f \in Paths \cup {None} /\ pos \in Nat
  /\ n \in 0..Len(Archive) /\ k \in Nat /\ fill \in 0..SlotSz
  /\ done \subseteq DOMAIN Archive /\ skipped \subseteq DOMAIN Archive

\* The writer never reads the slot the decompressor is filling (ExSlot has no
\* lock of its own; ex_begin_slot keeps them apart).
SlotsApart ==
  (threaded /\ wpc = "write" /\ pc \in {"read", "put", "progress", "flush"}) => head # tail

\* Chunks wait only for the file they belong to: nothing is left in the ring
\* when the file is closed and the next one opened (ex_drain).
RingIsOfThisFile == (threaded /\ count > 0) => f # None

\* An entry counted is on the card whole, block by block in its place, or a
\* later entry of its name is (the count decides the archive's deletion).
CountedIsWhole ==
  \A i \in done : /\ Exists(Out(i)) \/ pc = "rename"
                  /\ pc # "rename" /\ f # Out(i) =>
                       \E j \in DOMAIN Archive : Archive[j].name = Archive[i].name /\ card[Out(i)] = Whole(j)

\* A file that was on the card gives way only to a whole replacement, which
\* lies beside it by then: neither a bad entry nor a cancel, a full card or a
\* power cut empties it (the O_TRUNC the comment at wpath is about).
GivesWayToWhole ==
  [][\A i \in DOMAIN Archive :
       LET is(p, c) == p \in DOMAIN card /\ card[p] = c
           will(p, c) == p \in DOMAIN card' /\ card'[p] = c
       IN  is(Out(i), Older) /\ ~will(Out(i), Older) =>
             \E j \in DOMAIN Archive : is(Tmp(i), Whole(j)) /\ will(Tmp(i), Whole(j))]_vars

\* What the comment at remove(wpath) says: an entry that does not make it
\* leaves the file that was there ("never `out` when it existed: the original
\* stays").
OriginalStays ==
  pc = "done" => \A i \in DOMAIN Archive :
    Archive[i].name \in Existing /\ (\A j \in done : Archive[j].name # Archive[i].name) =>
      Exists(Out(i)) /\ card[Out(i)] = Older

\* The archive is deleted only when all its entries but those the card
\* refused are unpacked.
ArchiveKept ==
  ~src => \A i \in DOMAIN Archive \ skipped :
            /\ Exists(Out(i))
            /\ \E j \in DOMAIN Archive : Archive[j].name = Archive[i].name /\ card[Out(i)] = Whole(j)

\* An extraction comes to an end, whatever the card and the archive do: a
\* failed write empties the ring all the same, and the writer is joined.
Ends == (pc = "header") ~> (pc = "done")
=============================================================================
