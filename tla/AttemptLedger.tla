--------------------------- MODULE AttemptLedger ---------------------------
(***************************************************************************)
(* What the durable runs promise about attempts, with no rows, leases,     *)
(* clocks or workers: a run is worked on by one attempt at a time, an      *)
(* attempt is opened after the one before it was closed, and it is closed  *)
(* once.  One step may close the attempts of several runs.                 *)
(***************************************************************************)
EXTENDS Naturals

CONSTANT Runs

VARIABLES
    issued,   \* issued[r]: how many attempts run r has had
    current,  \* current[r]: the attempt being worked on, 0 if there is none
    closed    \* the <<run, attempt>> pairs that have their one outcome

vars == <<issued, current, closed>>

Init ==
    /\ issued = [r \in Runs |-> 0]
    /\ current = [r \in Runs |-> 0]
    /\ closed = {}

Open(r) ==
    /\ current[r] = 0
    /\ issued' = [issued EXCEPT ![r] = @ + 1]
    /\ current' = [current EXCEPT ![r] = issued[r] + 1]
    /\ UNCHANGED closed

Close(S) ==
    /\ S # {}
    /\ \A r \in S : current[r] # 0 /\ <<r, current[r]>> \notin closed
    /\ current' = [r \in Runs |-> IF r \in S THEN 0 ELSE current[r]]
    /\ closed' = closed \cup {<<r, current[r]>> : r \in S}
    /\ UNCHANGED issued

Next ==
    \/ \E r \in Runs : Open(r)
    \/ \E S \in SUBSET Runs : Close(S)

Spec == Init /\ [][Next]_vars
=============================================================================
