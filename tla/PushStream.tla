----------------------------- MODULE PushStream -----------------------------
(***************************************************************************)
(* What the receive pump of source/httpsrv.c promises to the rest of the   *)
(* server for one streamed push: bytes reach the .part in order, and the   *)
(* push ends once, either whole ("ok") or short, its .part then kept for a *)
(* resume together with the number of bytes on the card, or removed.       *)
(***************************************************************************)
EXTENDS Integers

CONSTANT Total   \* length of the file being pushed

VARIABLES
  landed,   \* bytes of the file the server counts as written
  result    \* how the push ended

Results == {"none", "ok", "kept", "removed"}

Init == landed \in 0..Total-1 /\ result = "none"

\* More of the body is written.
Land ==
  /\ result = "none"
  /\ landed' \in landed+1..Total
  /\ UNCHANGED result

\* Only a push that is there to the last byte is accepted.
Accept ==
  /\ result = "none" /\ landed = Total
  /\ result' = "ok"
  /\ UNCHANGED landed

Keep ==
  /\ result = "none" /\ landed > 0
  /\ result' = "kept"
  /\ UNCHANGED landed

Remove ==
  /\ result = "none"
  /\ result' = "removed"
  /\ UNCHANGED landed

Next == Land \/ Accept \/ Keep \/ Remove
Spec == Init /\ [][Next]_<<landed, result>>
=============================================================================
