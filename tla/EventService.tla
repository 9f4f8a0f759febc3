---------------------------- MODULE EventService ----------------------------
(***************************************************************************)
(* What the event queue of a reactor promises to the threads that use it:  *)
(* events are fired one at a time, in the order in which they were         *)
(* accepted, each at most once; only an event the loop thread sends to     *)
(* itself overtakes, and a closed reactor fires nothing any more.          *)
(***************************************************************************)

CONSTANT Events

VARIABLES pending,   \* accepted events
          ahead,     \* for each of them, the pending ones accepted before it
          fired,     \* events whose OnEventFire was entered
          open       \* the loop thread still runs

serviceVars == <<pending, ahead, fired, open>>

ServiceInit ==
  /\ pending = {} /\ ahead = [e \in Events |-> {}]
  /\ fired = {} /\ open = TRUE

Accept(e) ==
  /\ open
  /\ e \notin fired \cup pending
  /\ pending' = pending \cup {e}
  /\ ahead' = [ahead EXCEPT ![e] = pending]
  /\ UNCHANGED <<fired, open>>

Fire(e) ==
  /\ open
  /\ e \in pending /\ ahead[e] = {}
  /\ fired' = fired \cup {e}
  /\ pending' = pending \ {e}
  /\ ahead' = [f \in Events |-> ahead[f] \ {e}]
  /\ UNCHANGED open

FireInPlace(e) ==
  /\ open
  /\ e \notin fired \cup pending
  /\ fired' = fired \cup {e}
  /\ UNCHANGED <<pending, ahead, open>>

Shut ==
  /\ open /\ open' = FALSE
  /\ pending' = {} /\ ahead' = [e \in Events |-> {}]
  /\ UNCHANGED fired

ServiceNext ==
  (\E e \in Events : Accept(e) \/ Fire(e) \/ FireInPlace(e)) \/ Shut

ServiceSpec == ServiceInit /\ [][ServiceNext]_serviceVars
=============================================================================
