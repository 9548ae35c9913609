------------------------------ MODULE JobPool -------------------------------
(***************************************************************************)
(* What the download queue promises about who may touch an item.  A job    *)
(* is open (any download worker may take it), staged (the extract worker   *)
(* may), held by exactly one worker, closed, outside (driven by somebody   *)
(* else), left (abandoned by its worker at shutdown) or none.  The user    *)
(* moves jobs nobody holds; a held job is in the hands of its holder until *)
(* that worker lets go of it, and a staged one waits for its worker.       *)
(***************************************************************************)
CONSTANTS Jobs, Downloaders, Extractor, Nobody

VARIABLES job, holder

vars == <<job, holder>>
Crew == Downloaders \cup {Extractor}

TypeOK ==
  /\ job \in [Jobs -> {"none", "open", "staged", "held", "closed", "outside", "left"}]
  /\ holder \in [Jobs -> Crew \cup {Nobody}]

Init == job = [j \in Jobs |-> "none"] /\ holder = [j \in Jobs |-> Nobody]

\* What the user, or an outside owner, may make of jobs that nobody holds: any
\* number of them in one call.
Reachable(a) ==
  {a} \cup CASE a = "none"    -> {"open", "outside"}
             [] a = "open"    -> {"closed"}
             [] a = "closed"  -> {"open", "none"}
             [] a = "outside" -> {"closed"}
             [] OTHER         -> {}

Command ==
  /\ \E J \in SUBSET Jobs :
       \E to \in [J -> {"none", "open", "closed", "outside"}] :
         /\ \A j \in J : to[j] \in Reachable(job[j])
         /\ job' = [j \in Jobs |-> IF j \in J THEN to[j] ELSE job[j]]
  /\ UNCHANGED holder

Take(w, j) ==
  /\ \A k \in Jobs : holder[k] # w
  /\ job[j] = IF w = Extractor THEN "staged" ELSE "open"
  /\ job' = [job EXCEPT ![j] = "held"]
  /\ holder' = [holder EXCEPT ![j] = w]

\* A worker that leaves its job at shutdown leaves it to whoever drives it then.
LetGo(w, j) ==
  /\ holder[j] = w
  /\ \E to \in {"open", "closed", "left", "outside"} \cup (IF w = Extractor THEN {} ELSE {"staged"}) :
       job' = [job EXCEPT ![j] = to]
  /\ holder' = [holder EXCEPT ![j] = Nobody]

\* The program ends; the next one starts with what was saved.
End     == Init'
Restore == /\ job = [j \in Jobs |-> "none"] /\ UNCHANGED holder
           /\ job' \in [Jobs -> {"none", "open", "staged"}]

Next ==
  \/ Command \/ End \/ Restore
  \/ \E w \in Crew, j \in Jobs : Take(w, j) \/ LetGo(w, j)

Spec == Init /\ [][Next]_vars
=============================================================================
