------------------------------ MODULE Service ------------------------------
(***************************************************************************)
(* What the process promises the clients and the supervisor that starts    *)
(* it, start-up and shutdown detail left out: requests are taken in while  *)
(* it is up and by nobody else, those taken in may end while it drains,    *)
(* and its exit status says whether it dropped any.                        *)
(*                                                                         *)
(* App implements this specification.                                      *)
(***************************************************************************)

CONSTANT Requests    \* identities of the HTTP requests

VARIABLES phase,     \* "down", "up" or "draining"
          waiting,   \* the requests taken in and not answered
          served,    \* the requests answered
          status     \* the exit status: "none" while it runs, "ok" or "failed"

vars == <<phase, waiting, served, status>>

Init == phase = "down" /\ waiting = {} /\ served = {} /\ status = "none"

Open ==
    /\ phase = "down" /\ status = "none"
    /\ phase' = "up"
    /\ UNCHANGED <<waiting, served, status>>

TakeIn(r) ==
    /\ phase = "up"
    /\ r \notin served
    /\ waiting' = waiting \cup {r}
    /\ UNCHANGED <<phase, served, status>>

Answer(r) ==
    /\ r \in waiting
    /\ waiting' = waiting \ {r}
    /\ served' = served \cup {r}
    /\ UNCHANGED <<phase, status>>

Drain ==
    /\ phase \in {"down", "up"} /\ status = "none"
    /\ phase' = "draining"
    /\ UNCHANGED <<waiting, served, status>>

(* Leaving in order: nobody is waiting.                                    *)
Leave ==
    /\ phase = "draining" /\ waiting = {}
    /\ phase' = "down" /\ status' = "ok"
    /\ UNCHANGED <<waiting, served>>

(* Whatever it was doing: those who waited get no answer.                  *)
Fail ==
    /\ status = "none"
    /\ phase' = "down" /\ status' = "failed"
    /\ waiting' = {}
    /\ UNCHANGED served

(* Only a failure is followed by a new start.                              *)
StartAgain ==
    /\ status = "failed"
    /\ status' = "none"
    /\ UNCHANGED <<phase, waiting, served>>

Next ==
    \/ Open \/ Drain \/ Leave \/ Fail \/ StartAgain
    \/ \E r \in Requests : TakeIn(r) \/ Answer(r)

Spec == Init /\ [][Next]_vars
=============================================================================
