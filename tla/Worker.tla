------------------------------- MODULE Worker -------------------------------
(***************************************************************************)
(* The handshake the state machine of the accelerator relies on from each  *)
(* of its sub-components (burst_reader, burst_writer, adaptive_threshold): *)
(* an `enable' sampled at a clock edge while `done' is high starts a job   *)
(* and lowers `done' AFTER that edge; `done' rises again at some later     *)
(* edge.  A dummy job leaves `done' high.                                  *)
(*                                                                         *)
(* It says nothing of what a job does: BurstReader, BurstWriter and        *)
(* AdaptiveThreshold are the detailed components that implement it.        *)
(***************************************************************************)
CONSTANT Address       \* the values the address input can carry

VARIABLES done,        \* the done output
          address      \* the address latched with the last accepted job

vars == <<done, address>>

TypeOK == done \in BOOLEAN /\ address \in Address

Init == done = TRUE /\ address \in Address

Rest ==
  /\ done
  /\ UNCHANGED vars

Accept(a) ==
  /\ done
  /\ done' = FALSE
  /\ address' = a

\* An edge at which the job goes on, or ends.
Work ==
  /\ ~done
  /\ done' \in BOOLEAN
  /\ UNCHANGED address

\* One clock edge, with the command inputs sampled at that edge.
Clock(enable, dummy, a) ==
  \/ enable /\ ~dummy /\ Accept(a)
  \/ (enable => dummy) /\ Rest
  \/ Work

Reset ==
  /\ done' = TRUE
  /\ UNCHANGED address

Next ==
  \/ \E enable, dummy \in BOOLEAN, a \in Address : Clock(enable, dummy, a)
  \/ Reset

Spec == Init /\ [][Next]_vars
=============================================================================
