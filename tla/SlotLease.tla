----------------------------- MODULE SlotLease -----------------------------
(***************************************************************************)
(* What the web service promises about running: there is one slot, a job   *)
(* takes it only while it is free, keeps it until it gives it up, and      *)
(* never takes it a second time.                                           *)
(***************************************************************************)
CONSTANT Jobs

VARIABLES
    holder, \* the job that has the slot: empty or a singleton
    served  \* every job that ever had it

Init == holder = {} /\ served = {}

Take(j) ==
    /\ holder = {}
    /\ j \notin served
    /\ holder' = {j}
    /\ served' = served \cup {j}

GiveUp ==
    /\ holder # {}
    /\ holder' = {}
    /\ UNCHANGED served

Next == GiveUp \/ \E j \in Jobs : Take(j)

Spec == Init /\ [][Next]_<<holder, served>>
=============================================================================
