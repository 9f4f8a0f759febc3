------------------------------- MODULE Startup -------------------------------
(***************************************************************************)
(* How the network thread comes to life: IFSConnectionManager::Instance    *)
(* spawns it (CFSManagerImp), kthread_add_ asks the port for a thread      *)
(* (port_thread.cpp), and the new thread opens the reactor it will run     *)
(* (CFSReactorEpoll::Open) while the threads that already hold the manager *)
(* post to it.  The loop and the posters are those of module Reactor; here *)
(* they start before Open.                                                 *)
(*                                                                         *)
(* Instance() is not locked: the first call returns before another thread  *)
(* makes one, as in the programs of the repository.  Open succeeds, as     *)
(* CFSThreadReactor::OnThreadInit asserts.                                 *)
(***************************************************************************)
EXTENDS Reactor

CONSTANT Creator   \* the poster whose Instance() spawns the thread

ASSUME CreatorAssumption == Creator \in Posters

VARIABLES
  caller,       \* the kind of thread that creates, until it has done so
  inst,         \* where the first Instance() is
  start,        \* where CFBPortThreadManager::CreateThread is
  startEvent,   \* m_pEvent4Start
  net,          \* where the new thread is
  tid           \* m_Tid of the event queue

startVars == <<caller, inst, start, startEvent, net, tid>>
allVars == <<vars, startVars>>

StartupInit ==
  /\ m_Events = <<>> /\ m_dwSize = 0
  /\ pipe = <<>> /\ edge = FALSE /\ writeHandle = FALSE
  /\ m_bStoppedFlag \in BOOLEAN
  /\ loop = "top" /\ after = "top" /\ resume = "timer"
  /\ listEvents = <<>> /\ dwRemainSize = 0 /\ iter = 1
  /\ pc = [p \in Posters |-> "idle"]
  /\ sending = [p \in Posters |-> NoEvent]
  /\ ev = [e \in Events |-> Unused]
  /\ caller = "none"
  /\ inst = "none" /\ start = "none" /\ startEvent = "null"
  /\ net = "none" /\ tid = "unset"

-----------------------------------------------------------------------------
(* The creating thread: Instance, SpawnNetworkThread_i, kthread_add_. *)

\* No network thread yet: thread and reactor objects, then kthread_add_ up to
\* context_thread_create.
Instance ==
  /\ inst = "none"
  /\ inst' = "thread_create"
  /\ caller' \in {"main", "other"}
  /\ UNCHANGED <<vars, start, startEvent, net, tid>>

\* Mutant: every thread creates by an event of its own queue.
thread_createLater ==
  /\ inst = "thread_create"
  /\ start = "none"
  /\ start' = "posted" /\ inst' = "thread_cow_get_proc"
  /\ UNCHANGED <<vars, caller, startEvent, net, tid>>

\* The main thread creates the thread now, any other one posts a
\* CThreadCreateEvent to its own queue.
thread_create ==
  /\ inst = "thread_create"
  /\ start = "none"
  /\ IF caller = "main"
       THEN start' = "StartThread" /\ UNCHANGED inst
       ELSE start' = "posted" /\ inst' = "thread_cow_get_proc"
  /\ UNCHANGED <<vars, caller, startEvent, net, tid>>

\* The creating thread is back in its own event loop and fires the event.
CThreadCreateEvent ==
  /\ inst = "done" /\ start = "posted" /\ pc[Creator] = "idle"
  /\ start' = "StartThread"
  /\ UNCHANGED <<vars, caller, inst, startEvent, net, tid>>

\* Mutant: the creating thread does not wait for the signal.
StartThreadNoWait ==
  /\ start = "StartThread"
  /\ start' = "AddThread" /\ startEvent' = "null" /\ net' = "signal"
  /\ UNCHANGED <<vars, caller, inst, tid>>

\* m_pEvent4Start and pthread_create ...
StartThread ==
  /\ start = "StartThread"
  /\ start' = "Wait" /\ startEvent' = "reset" /\ net' = "signal"
  /\ UNCHANGED <<vars, caller, inst, tid>>

\* ... until the new thread has signalled.
StartThreadReturns ==
  /\ start = "Wait" /\ startEvent = "signalled"
  /\ start' = "AddThread" /\ startEvent' = "null"
  /\ UNCHANGED <<vars, caller, inst, net, tid>>

AddThread ==
  /\ start = "AddThread"
  /\ start' = "done"
  /\ IF caller = "main"
       THEN inst' = "thread_cow_get_proc" /\ UNCHANGED caller
       ELSE caller' = "none" /\ UNCHANGED inst
  /\ UNCHANGED <<vars, startEvent, net, tid>>

\* The credentials of the process are given to the thread ...
thread_cow_get_proc ==
  /\ inst = "thread_cow_get_proc"
  /\ inst' = "thread_link"
  /\ UNCHANGED <<vars, caller, start, startEvent, net, tid>>

\* ... it is linked, made runnable, hashed and scheduled; Instance returns.
thread_link ==
  /\ inst = "thread_link"
  /\ inst' = "done"
  /\ caller' = IF caller = "main" THEN "none" ELSE caller
  /\ UNCHANGED <<vars, start, startEvent, net, tid>>

-----------------------------------------------------------------------------
(* The new thread, from MainThreadFun to RunEventLoop. *)

NetStep(from, to) == net = from /\ net' = to

MainThreadFun ==
  /\ NetStep("signal", "OnThreadInit")
  /\ startEvent' = IF startEvent = "null" THEN "null" ELSE "signalled"
  /\ UNCHANGED <<vars, caller, inst, start, tid>>

\* context_init_thread_ makes newtd the current thread; RunNetworkThread
\* registers it.
OnThreadInit ==
  /\ NetStep("OnThreadInit", "epoll_create")
  /\ UNCHANGED <<vars, caller, inst, start, startEvent, tid>>

\* CFSReactorEpoll::Open: a kqueue with the credentials of the thread ...
epoll_create ==
  /\ NetStep("epoll_create", "BaseOpen")
  /\ UNCHANGED <<vars, caller, inst, start, startEvent, tid>>

\* ... the thread ids and the timer queue ...
BaseOpen ==
  /\ NetStep("BaseOpen", "PipeOpen")
  /\ tid' = "net"
  /\ UNCHANGED <<vars, caller, inst, start, startEvent>>

\* ... the socket pair ...
PipeOpen ==
  /\ NetStep("PipeOpen", "RegisterHandler")
  /\ writeHandle' = TRUE
  /\ UNCHANGED <<queueVars, pipe, edge, m_bStoppedFlag, loopVars, posterVars, ev>>
  /\ UNCHANGED <<caller, inst, start, startEvent, tid>>

\* ... whose knote is active at once when a record was already written ...
RegisterHandler ==
  /\ NetStep("RegisterHandler", "SetStartFlag")
  /\ edge' = (pipe # <<>>)
  /\ UNCHANGED <<queueVars, pipe, writeHandle, m_bStoppedFlag, loopVars, posterVars, ev>>
  /\ UNCHANGED <<caller, inst, start, startEvent, tid>>

\* ... and the flag, whatever StopEventLoop has done to it.
SetStartFlag ==
  /\ NetStep("SetStartFlag", "RunEventLoop")
  /\ m_bStoppedFlag' = FALSE
  /\ UNCHANGED <<queueVars, pipeVars, loopVars, posterVars, ev>>
  /\ UNCHANGED <<caller, inst, start, startEvent, tid>>

-----------------------------------------------------------------------------
(* The reactor in use. *)

\* A thread uses the manager once Instance() has returned; the creating thread
\* not while it fires CThreadCreateEvent.
CanUse(p) == inst = "done" /\ (p = Creator => start \in {"posted", "done"})

\* SendEvent compares the caller with m_Tid, which nobody has set before
\* BaseOpen: it may take the caller for the loop thread and fire in place.
SendEventInPlace(p, e) ==
  /\ tid = "unset" /\ pc[p] = "idle"
  /\ ev[e].kind = "unused"
  /\ ev' = [ev EXCEPT ![e].kind = "plain", ![e].fired = @ + 1,
                        ![e].deleted = @ + 1]
  /\ UNCHANGED <<queueVars, pipeVars, m_bStoppedFlag, loopVars, posterVars>>

Client(p) ==
  /\ CanUse(p)
  /\ PosterStep(p) \/ \E e \in Events : SendEventInPlace(p, e)
  /\ UNCHANGED startVars

Loop(A) == net = "RunEventLoop" /\ A /\ UNCHANGED startVars

CreatorStep ==
  \/ Instance \/ thread_create \/ CThreadCreateEvent
  \/ StartThread \/ StartThreadReturns \/ AddThread
  \/ thread_cow_get_proc \/ thread_link

NetThreadStep ==
  \/ MainThreadFun \/ OnThreadInit \/ epoll_create \/ BaseOpen
  \/ PipeOpen \/ RegisterHandler \/ SetStartFlag

StartupNext ==
  \/ CreatorStep \/ NetThreadStep
  \/ \E p \in Posters : Client(p)
  \/ Loop(LoopStep) \/ Loop(LoopChoice)

StartupSpec == StartupInit /\ [][StartupNext]_allVars

\* The host schedules both threads, and the creating thread gets back to its
\* own event loop; nobody has to call Instance, to post or to stop.  As built
\* epoll_wait does not sleep, so an idle loop thread polls (EpollTimeout).
StartupFairSpec ==
  /\ StartupSpec
  /\ WF_allVars(inst # "none" /\ CreatorStep)
  /\ WF_allVars(NetThreadStep)
  /\ WF_allVars(Loop(LoopStep \/ EpollTimeout))
  /\ \A p \in Posters :
       WF_allVars(CanUse(p) /\ (Notify(p) \/ WaitResultAndDeleteThis(p))
                    /\ UNCHANGED startVars)

-----------------------------------------------------------------------------
(* Properties *)

\* The variables of this module have their types.
StartupTypeOK ==
  /\ caller \in {"none", "main", "other"}
  /\ inst \in {"none", "thread_create", "thread_cow_get_proc", "thread_link", "done"}
  /\ start \in {"none", "posted", "StartThread", "Wait", "AddThread", "done"}
  /\ startEvent \in {"null", "reset", "signalled"}
  /\ net \in {"none", "signal", "OnThreadInit", "epoll_create", "BaseOpen",
              "PipeOpen", "RegisterHandler", "SetStartFlag", "RunEventLoop"}
  /\ tid \in {"unset", "net"}

\* The new thread finds the event it has to signal, as MainThreadFun asserts:
\* StartThread deletes m_pEvent4Start, but not before it was signalled.
StartEventAlive == net = "signal" => startEvent = "reset"

\* The new thread runs its function, and with it system calls in the name of
\* newtd, when kthread_add_ is through with newtd ("Delay putting it on the
\* run queue until now").
LinkedBeforeRun == net \notin {"none", "signal", "OnThreadInit"} => inst = "done"

\* A thread other than the main thread creates by an event of its own queue,
\* hence after kthread_add_: there the order of kthread_add_ is kept, and the
\* main thread alone, before it is through with newtd, breaks it.
LinkedBeforeRunOffMain == caller # "main" => LinkedBeforeRun

\* A creating thread other than the main thread waits in SendEvent for the
\* network thread that the event in its own queue is yet to create.
SelfBlocked == caller = "other" /\ start = "posted" /\ sending[Creator] # NoEvent

\* An event posted before Open is queued without a notification, for the pipe
\* is not there, and keeps later posts from notifying; it is fired all the
\* same, in every order of posting and opening, unless the reactor closes or
\* the creating thread has blocked itself.
EarlyEventsFire ==
  \A e \in Events :
    ev[e].kind # "unused" ~> ev[e].fired > 0 \/ loop \in Closing \/ SelfBlocked

\* A thread that sends to a reactor not yet open gets its result, unless the
\* reactor closes.  The one exception: a creating thread that is not the main
\* thread and sends before its own queue has created the network thread.
EarlySendReturns ==
  \A p \in Posters :
    sending[p] # NoEvent ~> sending[p] = NoEvent \/ loop \in Closing \/ SelfBlocked
==============================================================================
