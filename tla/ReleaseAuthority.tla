-------------------------- MODULE ReleaseAuthority --------------------------
(***************************************************************************)
(* What the production operations promise, without files, journals, traps  *)
(* or crashes: at every instant there is one deployment of record and at   *)
(* most one rollback target; traffic goes to a slot that runs; the record  *)
(* moves only to a slot that runs and already serves; and a slot stops     *)
(* only when neither the record nor the traffic needs it.                  *)
(*                                                                         *)
(* The promise is the one of README and of section 7 of the runbook; the    *)
(* scripts that keep it are module BlueGreen.                              *)
(***************************************************************************)
CONSTANTS Slots, Releases, None

VARIABLES
    active,    \* the deployment of record, or None
    previous,  \* the rollback target, or None
    serving,   \* the slot traffic goes to
    live       \* the slots whose project runs

vars == <<active, previous, serving, live>>

Deployment == [slot : Slots, release : Releases]

Needed == IF active = None THEN {} ELSE {active.slot, serving}

Init ==
    /\ active = None
    /\ previous = None
    /\ serving \in Slots
    /\ live = {}

StartSlot(s) ==
    /\ live' = live \cup {s}
    /\ UNCHANGED <<active, previous, serving>>

StopSlot(s) ==
    /\ s \notin Needed
    /\ live' = live \ {s}
    /\ UNCHANGED <<active, previous, serving>>

Route(s) ==
    /\ active # None => s \in live
    /\ serving' = s
    /\ UNCHANGED <<active, previous, live>>

\* A rollback is a promotion of the rollback target.
Promote(d) ==
    /\ d.slot \in live
    /\ serving = d.slot
    /\ active # None => active.slot # d.slot
    /\ active' = d
    /\ previous' = active
    /\ UNCHANGED <<serving, live>>

Retire ==
    /\ previous # None
    /\ previous.slot \notin live
    /\ previous' = None
    /\ UNCHANGED <<active, serving, live>>

Next ==
    \/ \E s \in Slots : StartSlot(s) \/ StopSlot(s) \/ Route(s)
    \/ \E d \in Deployment : Promote(d)
    \/ Retire

Spec == Init /\ [][Next]_vars

=============================================================================
