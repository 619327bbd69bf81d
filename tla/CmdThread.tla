------------------------------ MODULE CmdThread ------------------------------
(***************************************************************************)
(* The command queue and its thread: core/rtw_cmd.c, with the submit       *)
(* contexts of core/rtw_xmit.c and the start and stop of the thread in     *)
(* os_dep/linux/os_intfs.c.                                                *)
(*                                                                         *)
(* Any kernel context builds a cmd_obj and hands it to rtw_enqueue_cmd;    *)
(* one thread takes the objects in order, runs their handlers and frees    *)
(* them.  A caller that wants the outcome (RTW_CMDF_WAIT_ACK) puts a       *)
(* submit_ctx on its own stack, leaves its address in the object and       *)
(* waits, with a timeout.  The object belongs to the thread, the context   *)
(* to the caller, and each side reaches into the other's memory: only      *)
(* sctx_mutex and the order of the accesses keep that safe.                *)
(*                                                                         *)
(* Every access to shared state is a step of its own; queue operations are *)
(* atomic because of the queue's spin lock.                                *)
(***************************************************************************)
EXTENDS Integers, Sequences

CONSTANTS
  Cmd,          \* the command objects of the behaviour, one call each
  NoCmd,        \* no command in the thread's hands
  Waiter,       \* commands sent with RTW_CMDF_WAIT_ACK: they carry an sctx
  Allowed,      \* no_io commands and _SetChannelPlan: pass without hardware
  NoHandler,    \* commands whose wlancmds entry has no function
  Disconnect,   \* _DisConnect_CMD_, completed by rtw_disassoc_cmd_callback
  MaxOpen,      \* bound: how often the interface is opened
  MaxIps        \* bound: inactive power save entries and exits

ASSUME CmdAssumption ==
  /\ NoCmd \notin Cmd /\ "none" \notin Cmd /\ "thread" \notin Cmd
  /\ Waiter \subseteq Cmd /\ Allowed \subseteq Cmd
  /\ NoHandler \subseteq Cmd /\ Disconnect \subseteq Cmd
  /\ MaxOpen \in Nat /\ MaxIps \in Nat

VARIABLES
  queue,     \* cmd_queue, in list order
  sema,      \* cmd_queue_sema
  running,   \* cmdthd_running
  stopped,   \* RTW_CANNOT_RUN: bDriverStopped or bSurpriseRemoved
  hwInit,    \* hw_init_completed
  thr,       \* the thread's place in rtw_cmd_thread, "none" without a thread
  cur,       \* pcmd
  res,       \* pcmd->res
  mutex,     \* holder of sctx_mutex: "none", "thread" or a caller
  caller,    \* place of the context that sends a command
  obj,       \* the object's memory: "none", "live", "freed"
  sctx,      \* pcmd->sctx is not NULL
  status,    \* sctx.status, on the caller's stack
  ctl,       \* open and close of the interface
  opens,     \* interface opens so far
  ips,       \* power save transitions so far
  \* history
  accepted,  \* commands in the order rtw_enqueue_cmd accepted them
  taken,     \* commands in the order the thread took them
  executed   \* commands whose handler returned H2C_SUCCESS

threadVars  == <<thr, cur, res>>
callerVars  == <<caller, status>>
ctlVars     == <<ctl, opens, ips, stopped, hwInit>>
historyVars == <<accepted, taken, executed>>
vars == <<queue, sema, running, threadVars, mutex, callerVars, obj, sctx,
          ctlVars, historyVars>>

Free == "none"
Thread == "thread"

Init ==
  /\ queue = <<>> /\ sema = 0 /\ running = FALSE
  /\ stopped = TRUE /\ hwInit = FALSE
  /\ thr = "none" /\ cur = NoCmd /\ res = "SUCCESS"
  /\ mutex = Free
  /\ caller = [c \in Cmd |-> "idle"]
  /\ obj = [c \in Cmd |-> "none"]
  /\ sctx = [c \in Cmd |-> FALSE]
  /\ status = [c \in Cmd |-> "SUBMITTED"]
  /\ ctl = "closed" /\ opens = 0 /\ ips = 0
  /\ accepted = <<>> /\ taken = <<>> /\ executed = {}

-----------------------------------------------------------------------------
(* The calling side *)

\* rtw_cmd_filter: the hardware is up or not needed, and the thread runs.
Passes(c) == (hwInit \/ c \in Allowed) /\ running

\* The caller allocates the object and rtw_enqueue_cmd accepts it ...
EnqueueAllowed(c) ==
  /\ caller[c] = "idle" /\ Passes(c)
  /\ obj' = [obj EXCEPT ![c] = "live"]
  /\ sctx' = [sctx EXCEPT ![c] = c \in Waiter]
  /\ caller' = [caller EXCEPT ![c] = "enqueue"]
  /\ UNCHANGED <<queue, sema, running, threadVars, mutex, status,
                 ctlVars, historyVars>>

EnqueueRefused_KeepsObject(c) ==  \* mutant: the early exit forgets the object
  /\ caller[c] = "idle" /\ ~Passes(c)
  /\ obj' = [obj EXCEPT ![c] = "live"]
  /\ caller' = [caller EXCEPT ![c] = "failed"]
  /\ UNCHANGED <<queue, sema, running, threadVars, mutex, status, sctx,
                 ctlVars, historyVars>>

\* ... or frees it and tells the caller _FAIL.
EnqueueRefused(c) ==
  /\ caller[c] = "idle" /\ ~Passes(c)
  /\ obj' = [obj EXCEPT ![c] = "freed"]
  /\ caller' = [caller EXCEPT ![c] = "failed"]
  /\ UNCHANGED <<queue, sema, running, threadVars, mutex, status, sctx,
                 ctlVars, historyVars>>

\* _rtw_enqueue_cmd: list insertion under the queue's lock.
ListInsert(c) == Append(queue, c)

EnqueueInsert(c) ==
  /\ caller[c] = "enqueue"
  /\ queue' = ListInsert(c)
  /\ accepted' = Append(accepted, c)
  /\ caller' = [caller EXCEPT ![c] = "up"]
  /\ UNCHANGED <<sema, running, threadVars, mutex, obj, sctx, status,
                 ctlVars, taken, executed>>

\* Where the caller goes once its command is queued.
AfterEnqueue(c) == IF c \in Waiter THEN "wait" ELSE "returned"

EnqueueUp_Forgotten(c) ==   \* mutant: the thread is not woken
  /\ caller[c] = "up"
  /\ caller' = [caller EXCEPT ![c] = AfterEnqueue(c)]
  /\ UNCHANGED <<queue, sema, running, threadVars, mutex, obj, sctx, status,
                 ctlVars, historyVars>>

EnqueueUp(c) ==
  /\ caller[c] = "up"
  /\ sema' = sema + 1
  /\ caller' = [caller EXCEPT ![c] = AfterEnqueue(c)]
  /\ UNCHANGED <<queue, running, threadVars, mutex, obj, sctx, status,
                 ctlVars, historyVars>>

WaitEnds_JustReturns(c) ==   \* mutant: after the wait the object is left alone
  /\ caller[c] = "wait"
  /\ caller' = [caller EXCEPT ![c] = "returned"]
  /\ UNCHANGED <<queue, sema, running, threadVars, mutex, obj, sctx, status,
                 ctlVars, historyVars>>

\* rtw_sctx_wait returns: completed, or the timeout expired (any time: its
\* 2 or 10 seconds have no relation to the other steps).
WaitEnds(c) ==
  /\ caller[c] = "wait"
  /\ caller' = [caller EXCEPT ![c] = "lock"]
  /\ UNCHANGED <<queue, sema, running, threadVars, mutex, obj, sctx, status,
                 ctlVars, historyVars>>

WaiterLock(c) ==
  /\ caller[c] = "lock" /\ mutex = Free
  /\ mutex' = c
  /\ caller' = [caller EXCEPT ![c] = "check"]
  /\ UNCHANGED <<queue, sema, running, threadVars, obj, sctx, status,
                 ctlVars, historyVars>>

StillSubmitted_Always(c) == TRUE   \* mutant: the status is not looked at

\* The caller's test for a command that nobody has completed.
StillSubmitted(c) == status[c] = "SUBMITTED"

WaiterCheck(c) ==
  /\ caller[c] = "check"
  /\ caller' = [caller EXCEPT ![c] = IF StillSubmitted(c) THEN "clear"
                                                          ELSE "unlock"]
  /\ UNCHANGED <<queue, sema, running, threadVars, mutex, obj, sctx, status,
                 ctlVars, historyVars>>

\* cmdobj->sctx = NULL, a write to an object the thread owns.
WaiterClear(c) ==
  /\ caller[c] = "clear"
  /\ sctx' = [sctx EXCEPT ![c] = FALSE]
  /\ caller' = [caller EXCEPT ![c] = "unlock"]
  /\ UNCHANGED <<queue, sema, running, threadVars, mutex, obj, status,
                 ctlVars, historyVars>>

WaiterUnlock(c) ==
  /\ caller[c] = "unlock"
  /\ mutex' = Free
  /\ caller' = [caller EXCEPT ![c] = "returned"]
  /\ UNCHANGED <<queue, sema, running, threadVars, obj, sctx, status,
                 ctlVars, historyVars>>
-----------------------------------------------------------------------------
(* rtw_cmd_thread *)

\* The thread announces itself; rtw_start_drv_threads waits for that.
ThreadEnter ==
  /\ thr = "enter"
  /\ running' = TRUE
  /\ thr' = "down"
  /\ UNCHANGED <<queue, sema, cur, res, mutex, callerVars, obj, sctx,
                 ctlVars, historyVars>>

ThreadDown ==
  /\ thr = "down" /\ sema > 0
  /\ sema' = sema - 1
  /\ thr' = "woken"
  /\ UNCHANGED <<queue, running, cur, res, mutex, callerVars, obj, sctx,
                 ctlVars, historyVars>>

\* thread_enter allows SIGTERM: down_interruptible fails and the loop ends.
ThreadSignalled ==
  /\ thr = "down"
  /\ thr' = "leave"
  /\ UNCHANGED <<queue, sema, running, cur, res, mutex, callerVars, obj, sctx,
                 ctlVars, historyVars>>

\* RTW_CANNOT_RUN, tested after the semaphore and before every command.
ThreadTest ==
  /\ thr \in {"woken", "next"}
  /\ thr' = CASE stopped -> "leave"
              [] ~stopped /\ thr = "woken" -> "peek"
              [] ~stopped /\ thr = "next" -> "dequeue"
  /\ UNCHANGED <<queue, sema, running, cur, res, mutex, callerVars, obj, sctx,
                 ctlVars, historyVars>>

ThreadPeek ==
  /\ thr = "peek"
  /\ thr' = IF queue = <<>> THEN "down" ELSE "next"
  /\ UNCHANGED <<queue, sema, running, cur, res, mutex, callerVars, obj, sctx,
                 ctlVars, historyVars>>

\* rtw_dequeue_cmd, in the loop and in the final drain: the drain runs with
\* cmdthd_running cleared, drops what it takes and ends at an empty queue.
ThreadDequeue ==
  /\ thr = "dequeue" /\ queue # <<>>
  /\ cur' = Head(queue) /\ queue' = Tail(queue)
  /\ taken' = Append(taken, Head(queue))
  /\ thr' = IF running THEN "filter" ELSE "lock"
  /\ res' = IF running THEN "SUCCESS" ELSE "DROPPED"
  /\ UNCHANGED <<sema, running, mutex, callerVars, obj, sctx, ctlVars,
                 accepted, executed>>

ThreadQueueEmpty ==
  /\ thr = "dequeue" /\ queue = <<>>
  /\ thr' = IF running THEN "down" ELSE "exited"
  /\ UNCHANGED <<queue, sema, running, cur, res, mutex, callerVars, obj, sctx,
                 ctlVars, historyVars>>

\* No handler, or the command no longer passes rtw_cmd_filter.
ThreadReject ==
  /\ thr = "filter"
  /\ \/ cur \in NoHandler /\ res' = "ERROR"
     \/ cur \notin NoHandler /\ ~Passes(cur) /\ res' = "DROPPED"
  /\ thr' = "lock"
  /\ UNCHANGED <<queue, sema, running, cur, mutex, callerVars, obj, sctx,
                 ctlVars, historyVars>>

\* The handler runs; what it does is its own component's model.  That of
\* _DisConnect_CMD_ always succeeds.
ThreadExecute ==
  /\ thr = "filter" /\ cur \notin NoHandler /\ Passes(cur)
  /\ \/ res' = "SUCCESS" /\ executed' = executed \cup {cur}
     \/ cur \notin Disconnect /\ res' = "ERROR" /\ UNCHANGED executed
  /\ thr' = "lock"
  /\ UNCHANGED <<queue, sema, running, cur, mutex, callerVars, obj, sctx,
                 ctlVars, accepted, taken>>

ThreadLock ==
  /\ thr = "lock" /\ mutex = Free
  /\ mutex' = Thread
  /\ thr' = IF sctx[cur] THEN "status" ELSE "unlock"
  /\ UNCHANGED <<queue, sema, running, cur, res, callerVars, obj, sctx,
                 ctlVars, historyVars>>

Outcome_Success == "DONE_SUCCESS"   \* mutant: res is not looked at

\* What the thread reports: success, or an error for a command that failed
\* or was refused, or a drop.
Outcome ==
  CASE ~running -> "DONE_CMD_DROP"
    [] running /\ res = "SUCCESS" -> "DONE_SUCCESS"
    [] running /\ res # "SUCCESS" -> "DONE_CMD_ERROR"

\* rtw_sctx_done_err writes the caller's stack: the status ...
ThreadStatus ==
  /\ thr = "status"
  /\ status' = [status EXCEPT ![cur] = Outcome]
  /\ thr' = "complete"
  /\ UNCHANGED <<queue, sema, running, cur, res, mutex, caller, obj, sctx,
                 ctlVars, historyVars>>

\* ... then the completion, which lets the caller go on (WaitEnds) ...
ThreadComplete ==
  /\ thr = "complete"
  /\ thr' = "clear"
  /\ UNCHANGED <<queue, sema, running, cur, res, mutex, callerVars, obj, sctx,
                 ctlVars, historyVars>>

\* ... and forgets the pointer.
ThreadClear ==
  /\ thr = "clear"
  /\ sctx' = [sctx EXCEPT ![cur] = FALSE]
  /\ thr' = "unlock"
  /\ UNCHANGED <<queue, sema, running, cur, res, mutex, callerVars, obj,
                 ctlVars, historyVars>>

ThreadUnlock_OnlySctx ==   \* mutant: kept when the wait had already timed out
  /\ thr = "unlock"
  /\ mutex' = IF cur \in Waiter /\ status[cur] = "SUBMITTED" THEN mutex ELSE Free
  /\ thr' = "free"
  /\ UNCHANGED <<queue, sema, running, cur, res, callerVars, obj, sctx,
                 ctlVars, historyVars>>

ThreadUnlock ==
  /\ thr = "unlock"
  /\ mutex' = Free
  /\ thr' = "free"
  /\ UNCHANGED <<queue, sema, running, cur, res, callerVars, obj, sctx,
                 ctlVars, historyVars>>

\* The callback frees the object; without one the thread does.  The one of
\* _DisConnect_CMD_ frees it after success only.  The drain calls none.
Frees(c) == ~running \/ c \notin Disconnect \/ res = "SUCCESS"

ThreadFree ==
  /\ thr = "free"
  /\ obj' = [obj EXCEPT ![cur] = IF Frees(cur) THEN "freed" ELSE @]
  /\ cur' = NoCmd
  /\ thr' = IF running THEN "next" ELSE "dequeue"
  /\ UNCHANGED <<queue, sema, running, res, mutex, callerVars, sctx,
                 ctlVars, historyVars>>

\* "to avoid enqueue cmd after free all cmd_obj"
ThreadLeave ==
  /\ thr = "leave"
  /\ running' = FALSE
  /\ thr' = "dequeue"
  /\ UNCHANGED <<queue, sema, cur, res, mutex, callerVars, obj, sctx,
                 ctlVars, historyVars>>

-----------------------------------------------------------------------------
(* Opening, powering and closing the interface *)

\* Everything but the thread, the flags and the place of the controller.
restVars == <<queue, running, cur, res, mutex, callerVars, obj, sctx,
              historyVars>>

\* rtw_start_drv_threads: a thread that a failed open left behind is kept.
Open ==
  /\ ctl \in {"closed", "failed"} /\ opens < MaxOpen
  /\ opens' = opens + 1
  /\ stopped' = FALSE
  /\ thr' = IF thr = "none" THEN "enter" ELSE thr
  /\ ctl' = "opening"
  /\ UNCHANGED <<restVars, sema, hwInit, ips>>

\* rtw_hal_init ends, after the thread said it runs.
OpenEnds(ok) ==
  /\ ctl = "opening" /\ thr # "enter"
  /\ hwInit' = ok
  /\ ctl' = IF ok THEN "open" ELSE "failed"
  /\ UNCHANGED <<restVars, sema, thr, stopped, opens, ips>>

\* Inactive power save turns the hardware off and on again.
PowerSave ==
  /\ ctl = "open" /\ ips < MaxIps
  /\ hwInit' = ~hwInit
  /\ ips' = ips + 1
  /\ UNCHANGED <<restVars, sema, thr, stopped, ctl, opens>>

SurpriseRemove ==
  /\ ctl = "open"
  /\ stopped' = TRUE
  /\ UNCHANGED <<restVars, sema, thr, hwInit, ctl, opens, ips>>

\* rtw_set_drv_stopped of rtw_dev_unload and rtw_dev_remove.
SetStopped ==
  /\ ctl \in {"open", "failed"}
  /\ stopped' = TRUE
  /\ ctl' = "stopping"
  /\ UNCHANGED <<restVars, sema, thr, hwInit, opens, ips>>

\* rtw_stop_cmd_thread: wake the thread ...
StopUp ==
  /\ ctl = "stopping"
  /\ sema' = sema + 1
  /\ ctl' = "joining"
  /\ UNCHANGED <<restVars, thr, stopped, hwInit, opens, ips>>

\* ... and wait for its end: it stays in rtw_thread_wait_stop until then.
StopJoin ==
  /\ ctl = "joining" /\ thr = "exited"
  /\ thr' = "none"
  /\ ctl' = "deinit"
  /\ UNCHANGED <<restVars, sema, stopped, hwInit, opens, ips>>

\* rtw_hal_deinit
Deinit ==
  /\ ctl = "deinit"
  /\ hwInit' = FALSE
  /\ ctl' = "closed"
  /\ UNCHANGED <<restVars, sema, thr, stopped, opens, ips>>

-----------------------------------------------------------------------------
Enqueue(c) == EnqueueAllowed(c) \/ EnqueueRefused(c)
Caller(c) ==
  \/ EnqueueInsert(c) \/ EnqueueUp(c)
  \/ WaitEnds(c) \/ WaiterLock(c) \/ WaiterCheck(c) \/ WaiterClear(c)
  \/ WaiterUnlock(c)

ThreadStep ==
  \/ ThreadEnter \/ ThreadDown \/ ThreadTest \/ ThreadPeek
  \/ ThreadDequeue \/ ThreadQueueEmpty \/ ThreadReject \/ ThreadExecute
  \/ ThreadLock \/ ThreadStatus \/ ThreadComplete \/ ThreadClear
  \/ ThreadUnlock \/ ThreadFree \/ ThreadLeave

Controller ==
  \/ Open \/ (\E ok \in BOOLEAN : OpenEnds(ok)) \/ PowerSave
  \/ SurpriseRemove \/ SetStopped \/ StopUp \/ StopJoin \/ Deinit

Next ==
  \/ \E c \in Cmd : Enqueue(c) \/ Caller(c)
  \/ ThreadStep \/ ThreadSignalled
  \/ Controller

Spec == Init /\ [][Next]_vars

\* A started call, the thread and a started stop are never abandoned by the
\* kernel's scheduler; mutexes are taken in turn.  Nobody has to send a
\* command, open or close the interface, or raise a signal.
Fairness ==
  /\ \A c \in Cmd : WF_vars(Caller(c)) /\ SF_vars(WaiterLock(c))
  /\ WF_vars(ThreadStep) /\ SF_vars(ThreadLock)
  /\ WF_vars(StopUp \/ StopJoin \/ Deinit)

FairSpec == Spec /\ Fairness

-----------------------------------------------------------------------------
(* Properties *)

Places == {"idle", "enqueue", "up", "wait", "lock", "check", "clear",
           "unlock", "returned", "failed"}
ThreadPlaces == {"none", "enter", "down", "woken", "peek", "next", "dequeue",
                 "filter", "lock", "status", "complete", "clear", "unlock",
                 "free", "leave", "exited"}

\* Types of the state of the command queue, its thread and its callers.
TypeOK ==
  /\ queue \in Seq(Cmd) /\ sema \in Nat /\ running \in BOOLEAN
  /\ stopped \in BOOLEAN /\ hwInit \in BOOLEAN
  /\ thr \in ThreadPlaces /\ cur \in Cmd \cup {NoCmd}
  /\ res \in {"SUCCESS", "ERROR", "DROPPED"}
  /\ mutex \in Cmd \cup {Free, Thread}
  /\ caller \in [Cmd -> Places]
  /\ obj \in [Cmd -> {"none", "live", "freed"}]
  /\ sctx \in [Cmd -> BOOLEAN]
  /\ status \in [Cmd -> {"SUBMITTED", "DONE_SUCCESS", "DONE_CMD_ERROR",
                         "DONE_CMD_DROP"}]
  /\ ctl \in {"closed", "opening", "open", "failed", "stopping", "joining",
              "deinit"}
  /\ opens \in Nat /\ ips \in Nat
  /\ accepted \in Seq(Cmd) /\ taken \in Seq(Cmd) /\ executed \subseteq Cmd

Queued(c) == \E i \in DOMAIN queue : queue[i] = c

\* rtw_sctx_wait has a timeout and the submit_ctx is on the caller's stack: an
\* object the thread can still reach never holds the address of a context
\* whose function has returned.
NoDanglingSctx ==
  \A c \in Cmd : obj[c] = "live" /\ sctx[c] => caller[c] \notin {"returned", "failed"}

\* A waiter whose timeout expired clears the pointer inside an object that the
\* thread frees: whoever is about to touch an object, the thread or the
\* waiter, finds it alive, and no object is in the queue twice or both in the
\* queue and in the thread's hands.
NoUseAfterFree ==
  /\ \A i \in DOMAIN queue : obj[queue[i]] = "live" /\ queue[i] # cur
  /\ \A i, j \in DOMAIN queue : queue[i] = queue[j] => i = j
  /\ cur # NoCmd => obj[cur] = "live"
  /\ \A c \in Cmd : caller[c] = "clear" => obj[c] = "live"

\* rtw_enqueue_cmd inserts first and raises the semaphore afterwards, the
\* thread takes the whole queue per wake-up: it never sleeps on a queue that
\* holds a command unless the wake-up is on its way.  The same holds while
\* there is no thread, so a restarted one finds what it has to find.
NoLostWakeup ==
  thr \in {"none", "enter", "down", "exited"} /\ queue # <<>>
    => sema > 0 \/ \E c \in Cmd : caller[c] = "up"

\* Who still answers for freeing an object.
Owned(c) == Queued(c) \/ cur = c \/ caller[c] = "enqueue"

\* Every path frees the object once: the refusal in rtw_enqueue_cmd, the
\* callbacks, the plain free and the final drain (the callback of a disconnect
\* command that was dropped is the one that does not).
NoLeak == \A c \in Cmd \ Disconnect : obj[c] = "live" => Owned(c)

\* Commands are taken in the order in which rtw_enqueue_cmd accepted them.
CmdFifo == accepted = taken \o queue

\* The status a waiter reads is DONE_SUCCESS only when the handler of its own
\* command ran and succeeded.
AckMeansExecuted == \A c \in Cmd : status[c] = "DONE_SUCCESS" => c \in executed

\* Every command that was accepted leaves the queue while a thread lives.
CommandHandled ==
  \A c \in Cmd : (caller[c] = "up") ~> (~Owned(c) \/ thr \in {"exited", "none"})

\* Nobody waits for ever on anybody: rtw_stop_cmd_thread comes back, because
\* the thread is woken and notices the flag wherever it is, and every waiter
\* gets in and out of sctx_mutex and returns.
WaitsEnd ==
  /\ (ctl = "stopping") ~> (ctl = "closed")
  /\ \A c \in Waiter : (caller[c] = "wait") ~> (caller[c] = "returned")
=============================================================================
