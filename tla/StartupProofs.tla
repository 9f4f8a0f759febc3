--------------------------- MODULE StartupProofs ---------------------------
(***************************************************************************)
(* What holds of the creation of the network thread for every set of       *)
(* posters and events.  The steps of the posters and of the loop leave the *)
(* variables of Startup alone, so the argument is about CreatorStep and    *)
(* NetThreadStep: how far the new thread can be for each place of the      *)
(* creating one.                                                           *)
(***************************************************************************)
EXTENDS Startup, TLAPS

(* Nobody waits for a thread that was not created: the new thread has not  *)
(* started before StartThread, and the start event is there from           *)
(* StartThread to its return, reset until the new thread signals it.       *)
StartOrder ==
  /\ start \in {"none", "posted", "StartThread"} => net = "none" /\ startEvent = "null"
  /\ start = "Wait" => startEvent = IF net = "signal" THEN "reset" ELSE "signalled"
  /\ start \in {"AddThread", "done"} => net # "signal"

(* Where the creating thread is: the main thread creates inside            *)
(* kthread_add_, any other one after Instance() has returned.              *)
InstOrder ==
  /\ inst = "none" => caller = "none" /\ start = "none"
  /\ caller = "none" => inst = "none" \/ inst = "done"
  /\ caller = "other" /\ inst # "done" => start \in {"none", "posted"}
  /\ caller = "main" /\ start # "done" => inst = "thread_create"
  /\ inst = "thread_create" /\ caller = "other" => start = "none"
  /\ start = "posted" => caller = "other"

(* The inductive invariant.                                                *)
SInv == StartupTypeOK /\ StartOrder /\ InstOrder

(* Before Instance() there is no thread.                                   *)
LEMMA InitSInv == StartupInit => SInv
  BY DEF StartupInit, SInv, StartupTypeOK, StartOrder, InstOrder

(* A step of the creating thread keeps the order.                          *)
LEMMA CreatorKeeps == SInv /\ CreatorStep => SInv'
<1> SUFFICES ASSUME SInv, CreatorStep PROVE SInv'
  OBVIOUS
<1> USE DEF SInv, StartupTypeOK, StartOrder, InstOrder
<1>1. CASE Instance
  BY <1>1 DEF Instance
<1>2. CASE thread_create
  BY <1>2 DEF thread_create
<1>3. CASE CThreadCreateEvent
  BY <1>3 DEF CThreadCreateEvent
<1>4. CASE StartThread
  BY <1>4 DEF StartThread
<1>5. CASE StartThreadReturns
  BY <1>5 DEF StartThreadReturns
<1>6. CASE AddThread
  BY <1>6 DEF AddThread
<1>7. CASE thread_cow_get_proc
  BY <1>7 DEF thread_cow_get_proc
<1>8. CASE thread_link
  BY <1>8 DEF thread_link
<1> QED
  BY <1>1, <1>2, <1>3, <1>4, <1>5, <1>6, <1>7, <1>8 DEF CreatorStep

(* A step of the new thread keeps the order.                               *)
LEMMA NetThreadKeeps == SInv /\ NetThreadStep => SInv'
<1> SUFFICES ASSUME SInv, NetThreadStep PROVE SInv'
  OBVIOUS
<1> USE DEF SInv, StartupTypeOK, StartOrder, InstOrder, NetStep
<1>1. CASE MainThreadFun
  BY <1>1 DEF MainThreadFun
<1>2. CASE OnThreadInit \/ epoll_create
  BY <1>2 DEF OnThreadInit, epoll_create
<1>3. CASE BaseOpen
  BY <1>3 DEF BaseOpen
<1>4. CASE PipeOpen \/ RegisterHandler \/ SetStartFlag
  BY <1>4 DEF PipeOpen, RegisterHandler, SetStartFlag
<1> QED
  BY <1>1, <1>2, <1>3, <1>4 DEF NetThreadStep

(* So does every step of the system.                                       *)
LEMMA NextKeeps == SInv /\ [StartupNext]_allVars => SInv'
<1> SUFFICES ASSUME SInv, [StartupNext]_allVars PROVE SInv'
  OBVIOUS
<1>1. UNCHANGED startVars => SInv'
  BY DEF startVars, SInv, StartupTypeOK, StartOrder, InstOrder
<1>2. CASE CreatorStep
  BY <1>2, CreatorKeeps
<1>3. CASE NetThreadStep
  BY <1>3, NetThreadKeeps
<1>4. CASE (\E p \in Posters : Client(p)) \/ Loop(LoopStep) \/ Loop(LoopChoice)
  BY <1>1, <1>4 DEF Client, Loop
<1>5. CASE UNCHANGED allVars
  BY <1>1, <1>5 DEF allVars
<1> QED
  BY <1>2, <1>3, <1>4, <1>5 DEF StartupNext

(* The order of the two threads holds in every behaviour.                  *)
THEOREM StartupOrdered == StartupSpec => []SInv
  BY InitSInv, NextKeeps, PTL DEF StartupSpec

(* StartThread waits for the signal before it deletes m_pEvent4Start, so   *)
(* MainThreadFun finds the event it signals.                               *)
THEOREM StartEventFound == StartupSpec => []StartEventAlive
<1>1. SInv => StartEventAlive
  BY DEF SInv, StartupTypeOK, StartOrder, StartEventAlive
<1> QED
  BY <1>1, StartupOrdered, PTL

(* Unless the main thread creates it, the network thread makes no system   *)
(* call before kthread_add_ has given it credentials and linked it.        *)
THEOREM LinkedOffMain == StartupSpec => []LinkedBeforeRunOffMain
<1>1. SInv => LinkedBeforeRunOffMain
  BY DEF SInv, StartupTypeOK, StartOrder, InstOrder, LinkedBeforeRunOffMain,
         LinkedBeforeRun
<1> QED
  BY <1>1, StartupOrdered, PTL
=============================================================================
