--------------------------- MODULE CmdThreadProofs ---------------------------
(***************************************************************************)
(* Proofs about CmdThread, for any number of commands and callers, any     *)
(* number of restarts and power save transitions.                          *)
(***************************************************************************)
EXTENDS CmdThread, SequenceTheorems, TLAPS

-----------------------------------------------------------------------------
(* The inductive invariant, in parts.                                      *)

\* sctx_mutex excludes: its holder is where the code has taken it.
MutexInv ==
  /\ mutex = Thread <=> thr \in {"status", "complete", "clear", "unlock"}
  /\ \A c \in Cmd : mutex = c <=> caller[c] \in {"check", "clear", "unlock"}

\* The thread has a command in its hands exactly between taking and freeing it.
CurInv ==
  cur # NoCmd <=> thr \in {"filter", "lock", "status", "complete", "clear",
                           "unlock", "free"}

\* Who holds an object: its caller until it is queued, then the queue, then
\* the thread, and it is alive with each of them.
OwnInv ==
  /\ \A c \in Cmd : caller[c] = "idle" => obj[c] = "none"
  /\ \A c \in Cmd : caller[c] = "enqueue" => obj[c] = "live"
  /\ \A i \in DOMAIN queue :
       /\ obj[queue[i]] = "live" /\ queue[i] # cur
       /\ caller[queue[i]] \notin {"idle", "enqueue", "failed"}
  /\ \A i, j \in DOMAIN queue : queue[i] = queue[j] => i = j
  /\ cur # NoCmd =>
       /\ obj[cur] = "live"
       /\ caller[cur] \notin {"idle", "enqueue", "failed"}

\* The caller needs its context until it has seen the completion or has
\* cleared the pointer.
Waiting == {"enqueue", "up", "wait", "lock", "check", "clear"}

\* The handshake over the pointer in the object: while a waiter's command is
\* not completed the object is alive and points to the context; a completed
\* command still has the pointer only inside the thread's critical section.
SctxInv ==
  /\ \A c \in Cmd : sctx[c] => c \in Waiter
  /\ \A c \in Waiter : status[c] = "SUBMITTED" /\ caller[c] \in Waiting
                         => obj[c] = "live" /\ sctx[c]
  /\ \A c \in Cmd : caller[c] = "idle" => status[c] = "SUBMITTED" /\ ~sctx[c]
  /\ \A c \in Cmd : obj[c] = "live" /\ sctx[c] => caller[c] \in Waiting
  /\ \A c \in Cmd : status[c] # "SUBMITTED" /\ sctx[c]
                      => cur = c /\ thr \in {"complete", "clear"}
  /\ \A c \in Cmd : caller[c] = "clear" => status[c] = "SUBMITTED"
  /\ thr \in {"complete", "clear"} => status[cur] # "SUBMITTED"
  /\ thr \in {"unlock", "free"} => ~sctx[cur]
  /\ \A c \in Cmd : caller[c] \in {"wait", "lock", "check", "clear", "unlock"}
                      => c \in Waiter

\* The result the thread is about to report is that of the command it holds.
AckInv ==
  /\ thr \in {"lock", "status"} /\ running /\ res = "SUCCESS" => cur \in executed
  /\ \A c \in Cmd : status[c] = "DONE_SUCCESS" => c \in executed

-----------------------------------------------------------------------------

(* Type correctness.                                                       *)

\* A new object points to a context exactly when its caller will wait.
LEMMA SctxAfterEnqueue ==
  ASSUME sctx \in [Cmd -> BOOLEAN], NEW c \in Cmd, EnqueueAllowed(c)
  PROVE  sctx'[c] <=> c \in Waiter
  BY DEF EnqueueAllowed

\* Every step of the callers, the thread and the controller keeps the types.
LEMMA TypeStep ==
  ASSUME TypeOK, CurInv, [Next]_vars
  PROVE  TypeOK'
  <1> USE CmdAssumption DEF TypeOK, CurInv, Places, ThreadPlaces, Free, Thread,
       threadVars, callerVars, ctlVars, historyVars, restVars
  <1>1. ASSUME NEW c \in Cmd, EnqueueAllowed(c) PROVE TypeOK'
    BY <1>1 DEF EnqueueAllowed
  <1>2. ASSUME NEW c \in Cmd, EnqueueRefused(c) PROVE TypeOK'
    BY <1>2 DEF EnqueueRefused
  <1>3. ASSUME NEW c \in Cmd, EnqueueInsert(c) PROVE TypeOK'
    <2>1. queue' \in Seq(Cmd) /\ accepted' \in Seq(Cmd)
      BY <1>3, AppendProperties DEF EnqueueInsert, ListInsert
    <2> QED BY <1>3, <2>1 DEF EnqueueInsert
  <1>4. ASSUME NEW c \in Cmd, EnqueueUp(c) PROVE TypeOK'
    BY <1>4 DEF EnqueueUp, AfterEnqueue
  <1>5. ASSUME NEW c \in Cmd, WaitEnds(c) PROVE TypeOK'
    BY <1>5 DEF WaitEnds
  <1>6. ASSUME NEW c \in Cmd, WaiterLock(c) PROVE TypeOK'
    BY <1>6 DEF WaiterLock
  <1>7. ASSUME NEW c \in Cmd, WaiterCheck(c) PROVE TypeOK'
    BY <1>7 DEF WaiterCheck
  <1>8. ASSUME NEW c \in Cmd, WaiterClear(c) PROVE TypeOK'
    BY <1>8 DEF WaiterClear
  <1>9. ASSUME NEW c \in Cmd, WaiterUnlock(c) PROVE TypeOK'
    BY <1>9 DEF WaiterUnlock
  <1>10. CASE ThreadEnter
    BY <1>10 DEF ThreadEnter
  <1>11. CASE ThreadDown
    BY <1>11 DEF ThreadDown
  <1>12. CASE ThreadTest
    BY <1>12 DEF ThreadTest
  <1>13. CASE ThreadPeek
    BY <1>13 DEF ThreadPeek
  <1>14. CASE ThreadDequeue
    <2>1. Head(queue) \in Cmd /\ queue' \in Seq(Cmd) /\ taken' \in Seq(Cmd)
      BY <1>14, HeadTailProperties, AppendProperties DEF ThreadDequeue
    <2> QED BY <1>14, <2>1 DEF ThreadDequeue
  <1>15. CASE ThreadQueueEmpty
    BY <1>15 DEF ThreadQueueEmpty
  <1>16. CASE ThreadReject
    BY <1>16 DEF ThreadReject
  <1>17. CASE ThreadExecute
    BY <1>17 DEF ThreadExecute
  <1>18. CASE ThreadLock
    BY <1>18 DEF ThreadLock
  <1>19. CASE ThreadStatus
    BY <1>19 DEF ThreadStatus, Outcome
  <1>20. CASE ThreadComplete
    BY <1>20 DEF ThreadComplete
  <1>21. CASE ThreadClear
    BY <1>21 DEF ThreadClear
  <1>22. CASE ThreadUnlock
    BY <1>22 DEF ThreadUnlock
  <1>23. CASE ThreadFree
    BY <1>23 DEF ThreadFree
  <1>24. CASE ThreadLeave
    BY <1>24 DEF ThreadLeave
  <1>25. CASE ThreadSignalled
    BY <1>25 DEF ThreadSignalled
  <1>26. CASE Open
    <2>1. opens' \in Nat /\ thr' \in ThreadPlaces
      BY <1>26 DEF Open
    <2> QED BY <1>26, <2>1 DEF Open
  <1>27. CASE PowerSave
    BY <1>27 DEF PowerSave
  <1>28. CASE SurpriseRemove
    BY <1>28 DEF SurpriseRemove
  <1>29. CASE SetStopped
    BY <1>29 DEF SetStopped
  <1>30. CASE StopUp
    BY <1>30 DEF StopUp
  <1>31. CASE StopJoin
    BY <1>31 DEF StopJoin
  <1>32. CASE Deinit
    BY <1>32 DEF Deinit
  <1>33. ASSUME NEW ok \in BOOLEAN, OpenEnds(ok) PROVE TypeOK'
    BY <1>33 DEF OpenEnds
  <1>34. CASE UNCHANGED vars
    BY <1>34 DEF vars, threadVars, callerVars, ctlVars, historyVars
  <1> QED
    BY <1>1, <1>2, <1>3, <1>4, <1>5, <1>6, <1>7, <1>8, <1>9, <1>10, <1>11,
       <1>12, <1>13, <1>14, <1>15, <1>16, <1>17, <1>18, <1>19, <1>20,
       <1>21, <1>22, <1>23, <1>24, <1>25, <1>26, <1>27, <1>28, <1>29,
       <1>30, <1>31, <1>32, <1>33, <1>34 DEF Next, Enqueue, Caller,
       ThreadStep, Controller

-----------------------------------------------------------------------------
(* The thread's command and the mutex.                                     *)

\* pcmd is set and cleared where CurInv says.
LEMMA CurStep ==
  ASSUME TypeOK, CurInv, [Next]_vars
  PROVE  CurInv'
  <1> USE CmdAssumption DEF TypeOK, CurInv, Places, ThreadPlaces, threadVars,
       callerVars, ctlVars, historyVars, restVars
  <1>1. ASSUME NEW c \in Cmd, EnqueueAllowed(c) PROVE CurInv'
    BY <1>1 DEF EnqueueAllowed
  <1>2. ASSUME NEW c \in Cmd, EnqueueRefused(c) PROVE CurInv'
    BY <1>2 DEF EnqueueRefused
  <1>3. ASSUME NEW c \in Cmd, EnqueueInsert(c) PROVE CurInv'
    BY <1>3 DEF EnqueueInsert
  <1>4. ASSUME NEW c \in Cmd, EnqueueUp(c) PROVE CurInv'
    BY <1>4 DEF EnqueueUp
  <1>5. ASSUME NEW c \in Cmd, WaitEnds(c) PROVE CurInv'
    BY <1>5 DEF WaitEnds
  <1>6. ASSUME NEW c \in Cmd, WaiterLock(c) PROVE CurInv'
    BY <1>6 DEF WaiterLock
  <1>7. ASSUME NEW c \in Cmd, WaiterCheck(c) PROVE CurInv'
    BY <1>7 DEF WaiterCheck
  <1>8. ASSUME NEW c \in Cmd, WaiterClear(c) PROVE CurInv'
    BY <1>8 DEF WaiterClear
  <1>9. ASSUME NEW c \in Cmd, WaiterUnlock(c) PROVE CurInv'
    BY <1>9 DEF WaiterUnlock
  <1>10. CASE ThreadEnter
    BY <1>10 DEF ThreadEnter
  <1>11. CASE ThreadDown
    BY <1>11 DEF ThreadDown
  <1>12. CASE ThreadTest
    BY <1>12 DEF ThreadTest
  <1>13. CASE ThreadPeek
    BY <1>13 DEF ThreadPeek
  <1>14. CASE ThreadDequeue
    <2>1. Head(queue) \in Cmd
      BY <1>14, HeadTailProperties DEF ThreadDequeue
    <2> QED BY <1>14, <2>1 DEF ThreadDequeue
  <1>15. CASE ThreadQueueEmpty
    BY <1>15 DEF ThreadQueueEmpty
  <1>16. CASE ThreadReject
    BY <1>16 DEF ThreadReject
  <1>17. CASE ThreadExecute
    BY <1>17 DEF ThreadExecute
  <1>18. CASE ThreadLock
    BY <1>18 DEF ThreadLock
  <1>19. CASE ThreadStatus
    BY <1>19 DEF ThreadStatus
  <1>20. CASE ThreadComplete
    BY <1>20 DEF ThreadComplete
  <1>21. CASE ThreadClear
    BY <1>21 DEF ThreadClear
  <1>22. CASE ThreadUnlock
    BY <1>22 DEF ThreadUnlock
  <1>23. CASE ThreadFree
    BY <1>23 DEF ThreadFree
  <1>24. CASE ThreadLeave
    BY <1>24 DEF ThreadLeave
  <1>25. CASE ThreadSignalled
    BY <1>25 DEF ThreadSignalled
  <1>26. CASE Open
    BY <1>26 DEF Open
  <1>27. CASE PowerSave
    BY <1>27 DEF PowerSave
  <1>28. CASE SurpriseRemove
    BY <1>28 DEF SurpriseRemove
  <1>29. CASE SetStopped
    BY <1>29 DEF SetStopped
  <1>30. CASE StopUp
    BY <1>30 DEF StopUp
  <1>31. CASE StopJoin
    BY <1>31 DEF StopJoin
  <1>32. CASE Deinit
    BY <1>32 DEF Deinit
  <1>33. ASSUME NEW ok \in BOOLEAN, OpenEnds(ok) PROVE CurInv'
    BY <1>33 DEF OpenEnds
  <1>34. CASE UNCHANGED vars
    BY <1>34 DEF vars, threadVars, callerVars, ctlVars, historyVars
  <1> QED
    BY <1>1, <1>2, <1>3, <1>4, <1>5, <1>6, <1>7, <1>8, <1>9, <1>10, <1>11,
       <1>12, <1>13, <1>14, <1>15, <1>16, <1>17, <1>18, <1>19, <1>20,
       <1>21, <1>22, <1>23, <1>24, <1>25, <1>26, <1>27, <1>28, <1>29,
       <1>30, <1>31, <1>32, <1>33, <1>34 DEF Next, Enqueue, Caller,
       ThreadStep, Controller

\* sctx_mutex is taken and released where MutexInv says.
LEMMA MutexStep ==
  ASSUME TypeOK, MutexInv, [Next]_vars
  PROVE  MutexInv'
  <1> USE CmdAssumption DEF TypeOK, MutexInv, Places, ThreadPlaces, Free, Thread,
       threadVars, callerVars, ctlVars, historyVars, restVars
  <1>1. ASSUME NEW c \in Cmd, EnqueueAllowed(c) PROVE MutexInv'
    BY <1>1 DEF EnqueueAllowed
  <1>2. ASSUME NEW c \in Cmd, EnqueueRefused(c) PROVE MutexInv'
    BY <1>2 DEF EnqueueRefused
  <1>3. ASSUME NEW c \in Cmd, EnqueueInsert(c) PROVE MutexInv'
    BY <1>3 DEF EnqueueInsert
  <1>4. ASSUME NEW c \in Cmd, EnqueueUp(c) PROVE MutexInv'
    BY <1>4 DEF EnqueueUp, AfterEnqueue
  <1>5. ASSUME NEW c \in Cmd, WaitEnds(c) PROVE MutexInv'
    BY <1>5 DEF WaitEnds
  <1>6. ASSUME NEW c \in Cmd, WaiterLock(c) PROVE MutexInv'
    BY <1>6 DEF WaiterLock
  <1>7. ASSUME NEW c \in Cmd, WaiterCheck(c) PROVE MutexInv'
    BY <1>7 DEF WaiterCheck
  <1>8. ASSUME NEW c \in Cmd, WaiterClear(c) PROVE MutexInv'
    BY <1>8 DEF WaiterClear
  <1>9. ASSUME NEW c \in Cmd, WaiterUnlock(c) PROVE MutexInv'
    BY <1>9 DEF WaiterUnlock
  <1>10. CASE ThreadEnter
    BY <1>10 DEF ThreadEnter
  <1>11. CASE ThreadDown
    BY <1>11 DEF ThreadDown
  <1>12. CASE ThreadTest
    BY <1>12 DEF ThreadTest
  <1>13. CASE ThreadPeek
    BY <1>13 DEF ThreadPeek
  <1>14. CASE ThreadDequeue
    BY <1>14 DEF ThreadDequeue
  <1>15. CASE ThreadQueueEmpty
    BY <1>15 DEF ThreadQueueEmpty
  <1>16. CASE ThreadReject
    BY <1>16 DEF ThreadReject
  <1>17. CASE ThreadExecute
    BY <1>17 DEF ThreadExecute
  <1>18. CASE ThreadLock
    BY <1>18 DEF ThreadLock
  <1>19. CASE ThreadStatus
    BY <1>19 DEF ThreadStatus
  <1>20. CASE ThreadComplete
    BY <1>20 DEF ThreadComplete
  <1>21. CASE ThreadClear
    BY <1>21 DEF ThreadClear
  <1>22. CASE ThreadUnlock
    BY <1>22 DEF ThreadUnlock
  <1>23. CASE ThreadFree
    BY <1>23 DEF ThreadFree
  <1>24. CASE ThreadLeave
    BY <1>24 DEF ThreadLeave
  <1>25. CASE ThreadSignalled
    BY <1>25 DEF ThreadSignalled
  <1>26. CASE Open
    BY <1>26 DEF Open
  <1>27. CASE PowerSave
    BY <1>27 DEF PowerSave
  <1>28. CASE SurpriseRemove
    BY <1>28 DEF SurpriseRemove
  <1>29. CASE SetStopped
    BY <1>29 DEF SetStopped
  <1>30. CASE StopUp
    BY <1>30 DEF StopUp
  <1>31. CASE StopJoin
    BY <1>31 DEF StopJoin
  <1>32. CASE Deinit
    BY <1>32 DEF Deinit
  <1>33. ASSUME NEW ok \in BOOLEAN, OpenEnds(ok) PROVE MutexInv'
    BY <1>33 DEF OpenEnds
  <1>34. CASE UNCHANGED vars
    BY <1>34 DEF vars, threadVars, callerVars, ctlVars, historyVars
  <1> QED
    BY <1>1, <1>2, <1>3, <1>4, <1>5, <1>6, <1>7, <1>8, <1>9, <1>10, <1>11,
       <1>12, <1>13, <1>14, <1>15, <1>16, <1>17, <1>18, <1>19, <1>20,
       <1>21, <1>22, <1>23, <1>24, <1>25, <1>26, <1>27, <1>28, <1>29,
       <1>30, <1>31, <1>32, <1>33, <1>34 DEF Next, Enqueue, Caller,
       ThreadStep, Controller

-----------------------------------------------------------------------------
(* Ownership of the objects.                                               *)

\* The queue after _rtw_enqueue_cmd put c at its end ...
IsInserted(c) ==
  /\ DOMAIN queue = 1 .. Len(queue) /\ Len(queue) \in Nat
  /\ DOMAIN queue' = 1 .. Len(queue) + 1
  /\ \A i \in 1 .. Len(queue) : queue'[i] = queue[i]
  /\ queue'[Len(queue) + 1] = c

\* ... and after rtw_dequeue_cmd took its first element.
IsTaken ==
  /\ DOMAIN queue = 1 .. Len(queue) /\ Len(queue) \in Nat \ {0}
  /\ DOMAIN queue' = 1 .. Len(queue) - 1
  /\ \A i \in 1 .. Len(queue) - 1 : queue'[i] = queue[i + 1]
  /\ cur' = queue[1]

\* _rtw_enqueue_cmd leaves the commands before c where they are.
LEMMA InsertedQueue ==
  ASSUME queue \in Seq(Cmd), NEW c \in Cmd, EnqueueInsert(c)
  PROVE  IsInserted(c)
  BY AppendProperties, LenProperties DEF EnqueueInsert, ListInsert, IsInserted

\* rtw_dequeue_cmd moves the others up by one.
LEMMA TakenQueue ==
  ASSUME queue \in Seq(Cmd), ThreadDequeue
  PROVE  IsTaken
  BY HeadTailProperties, LenProperties, EmptySeq DEF ThreadDequeue, IsTaken

\* An object has one owner at a time and is alive with it.
LEMMA OwnStep ==
  ASSUME TypeOK, CurInv, OwnInv, SctxInv, MutexInv, [Next]_vars
  PROVE  OwnInv'
  <1> USE CmdAssumption DEF TypeOK, CurInv, OwnInv, Places, ThreadPlaces, threadVars,
       callerVars, ctlVars, historyVars, restVars
  <1>1. ASSUME NEW c \in Cmd, EnqueueAllowed(c) PROVE OwnInv'
    BY <1>1 DEF EnqueueAllowed
  <1>2. ASSUME NEW c \in Cmd, EnqueueRefused(c) PROVE OwnInv'
    BY <1>2 DEF EnqueueRefused
  <1>3. ASSUME NEW c \in Cmd, EnqueueInsert(c) PROVE OwnInv'
    <2>1. IsInserted(c)
      BY <1>3, InsertedQueue DEF TypeOK
    <2> USE DEF IsInserted
    <2>2. \A i \in DOMAIN queue : queue[i] # c /\ queue[i] \in Cmd
      BY <1>3, ElementOfSeq, <2>1 DEF EnqueueInsert
    <2>3. cur # c
      BY <1>3 DEF EnqueueInsert
    <2>4. \A i \in DOMAIN queue' :
             /\ obj'[queue'[i]] = "live" /\ queue'[i] # cur'
             /\ caller'[queue'[i]] \notin {"idle", "enqueue", "failed"}
      <3>1. obj' = obj /\ cur' = cur /\ caller' = [caller EXCEPT ![c] = "up"]
        BY <1>3 DEF EnqueueInsert
      <3>2. obj[c] = "live"
        BY <1>3 DEF EnqueueInsert
      <3>3. ASSUME NEW i \in 1 .. Len(queue)
            PROVE  /\ obj'[queue'[i]] = "live" /\ queue'[i] # cur'
                   /\ caller'[queue'[i]] \notin {"idle", "enqueue", "failed"}
        BY <2>1, <2>2, <3>1
      <3> QED BY <2>1, <2>3, <3>1, <3>2, <3>3
    <2>5. \A i, j \in DOMAIN queue' : queue'[i] = queue'[j] => i = j
      BY <2>1, <2>2
    <2>6. /\ \A d \in Cmd : caller'[d] = "idle" => obj'[d] = "none"
          /\ \A d \in Cmd : caller'[d] = "enqueue" => obj'[d] = "live"
          /\ cur' # NoCmd => /\ obj'[cur'] = "live"
                             /\ caller'[cur'] \notin {"idle", "enqueue", "failed"}
      BY <1>3, <2>3 DEF EnqueueInsert
    <2> QED BY <2>4, <2>5, <2>6
  <1>4. ASSUME NEW c \in Cmd, EnqueueUp(c) PROVE OwnInv'
    BY <1>4 DEF EnqueueUp, AfterEnqueue
  <1>5. ASSUME NEW c \in Cmd, WaitEnds(c) PROVE OwnInv'
    BY <1>5 DEF WaitEnds
  <1>6. ASSUME NEW c \in Cmd, WaiterLock(c) PROVE OwnInv'
    BY <1>6 DEF WaiterLock
  <1>7. ASSUME NEW c \in Cmd, WaiterCheck(c) PROVE OwnInv'
    BY <1>7 DEF WaiterCheck
  <1>8. ASSUME NEW c \in Cmd, WaiterClear(c) PROVE OwnInv'
    BY <1>8 DEF WaiterClear
  <1>9. ASSUME NEW c \in Cmd, WaiterUnlock(c) PROVE OwnInv'
    BY <1>9 DEF WaiterUnlock
  <1>10. CASE ThreadEnter
    BY <1>10 DEF ThreadEnter
  <1>11. CASE ThreadDown
    BY <1>11 DEF ThreadDown
  <1>12. CASE ThreadTest
    BY <1>12 DEF ThreadTest
  <1>13. CASE ThreadPeek
    BY <1>13 DEF ThreadPeek
  <1>14. CASE ThreadDequeue
    <2>1. IsTaken
      BY <1>14, TakenQueue DEF TypeOK
    <2> USE DEF IsTaken
    <2>2. \A i \in DOMAIN queue : queue[i] \in Cmd
      BY ElementOfSeq, <2>1
    <2>3. 1 \in DOMAIN queue /\ \A i \in DOMAIN queue' : i + 1 \in DOMAIN queue /\ i + 1 # 1
      BY <2>1
    <2>4. \A i \in DOMAIN queue' :
             /\ obj'[queue'[i]] = "live" /\ queue'[i] # cur'
             /\ caller'[queue'[i]] \notin {"idle", "enqueue", "failed"}
      BY <1>14, <2>1, <2>2, <2>3 DEF ThreadDequeue
    <2>5. \A i, j \in DOMAIN queue' : queue'[i] = queue'[j] => i = j
      BY <2>1, <2>3
    <2>6. /\ \A d \in Cmd : caller'[d] = "idle" => obj'[d] = "none"
          /\ \A d \in Cmd : caller'[d] = "enqueue" => obj'[d] = "live"
          /\ cur' # NoCmd => /\ obj'[cur'] = "live"
                             /\ caller'[cur'] \notin {"idle", "enqueue", "failed"}
      <3>1. obj' = obj /\ caller' = caller /\ cur' = queue[1]
        BY <1>14, <2>1 DEF ThreadDequeue
      <3>2. obj[queue[1]] = "live" /\ caller[queue[1]] \notin {"idle", "enqueue", "failed"}
        BY <2>3
      <3> QED BY <3>1, <3>2
    <2> QED BY <2>4, <2>5, <2>6
  <1>15. CASE ThreadQueueEmpty
    BY <1>15 DEF ThreadQueueEmpty
  <1>16. CASE ThreadReject
    BY <1>16 DEF ThreadReject
  <1>17. CASE ThreadExecute
    BY <1>17 DEF ThreadExecute
  <1>18. CASE ThreadLock
    BY <1>18 DEF ThreadLock
  <1>19. CASE ThreadStatus
    BY <1>19 DEF ThreadStatus
  <1>20. CASE ThreadComplete
    BY <1>20 DEF ThreadComplete
  <1>21. CASE ThreadClear
    BY <1>21 DEF ThreadClear
  <1>22. CASE ThreadUnlock
    BY <1>22 DEF ThreadUnlock
  <1>23. CASE ThreadFree
    BY <1>23 DEF ThreadFree
  <1>24. CASE ThreadLeave
    BY <1>24 DEF ThreadLeave
  <1>25. CASE ThreadSignalled
    BY <1>25 DEF ThreadSignalled
  <1>26. CASE Open
    BY <1>26 DEF Open
  <1>27. CASE PowerSave
    BY <1>27 DEF PowerSave
  <1>28. CASE SurpriseRemove
    BY <1>28 DEF SurpriseRemove
  <1>29. CASE SetStopped
    BY <1>29 DEF SetStopped
  <1>30. CASE StopUp
    BY <1>30 DEF StopUp
  <1>31. CASE StopJoin
    BY <1>31 DEF StopJoin
  <1>32. CASE Deinit
    BY <1>32 DEF Deinit
  <1>33. ASSUME NEW ok \in BOOLEAN, OpenEnds(ok) PROVE OwnInv'
    BY <1>33 DEF OpenEnds
  <1>34. CASE UNCHANGED vars
    BY <1>34 DEF vars, threadVars, callerVars, ctlVars, historyVars
  <1> QED
    BY <1>1, <1>2, <1>3, <1>4, <1>5, <1>6, <1>7, <1>8, <1>9, <1>10, <1>11,
       <1>12, <1>13, <1>14, <1>15, <1>16, <1>17, <1>18, <1>19, <1>20,
       <1>21, <1>22, <1>23, <1>24, <1>25, <1>26, <1>27, <1>28, <1>29,
       <1>30, <1>31, <1>32, <1>33, <1>34 DEF Next, Enqueue, Caller,
       ThreadStep, Controller

-----------------------------------------------------------------------------
(* The handshake between waiter and thread.                                *)

\* The pointer handshake survives every step.
LEMMA SctxStep ==
  ASSUME TypeOK, CurInv, MutexInv, OwnInv, SctxInv, [Next]_vars
  PROVE  SctxInv'
  <1> USE CmdAssumption DEF TypeOK, CurInv, MutexInv, SctxInv, Waiting, Places,
       ThreadPlaces, Free, Thread, threadVars, callerVars, ctlVars, historyVars,
       restVars
  <1>1. ASSUME NEW c \in Cmd, EnqueueAllowed(c) PROVE SctxInv'
    <2>1. cur # c
      BY <1>1 DEF EnqueueAllowed, OwnInv
    <2>2. /\ sctx' = [sctx EXCEPT ![c] = c \in Waiter]
          /\ obj' = [obj EXCEPT ![c] = "live"]
          /\ caller' = [caller EXCEPT ![c] = "enqueue"]
          /\ status' = status /\ thr' = thr /\ cur' = cur
          /\ caller[c] = "idle" /\ status[c] = "SUBMITTED"
      BY <1>1 DEF EnqueueAllowed
    <2>3. \A d \in Cmd : d # c => /\ sctx'[d] <=> sctx[d]
                                  /\ obj'[d] = obj[d]
                                  /\ caller'[d] = caller[d]
      BY <2>2
    <2>4. /\ sctx'[c] <=> c \in Waiter
          /\ obj'[c] = "live"
          /\ caller'[c] = "enqueue" /\ status'[c] = "SUBMITTED"
      <3>1. sctx'[c] <=> c \in Waiter
        BY <1>1, SctxAfterEnqueue
      <3> QED BY <2>2, <3>1
    <2>5. \A d \in Cmd : sctx'[d] => d \in Waiter
      BY <2>3, <2>4
    <2>6. \A d \in Waiter : status'[d] = "SUBMITTED" /\ caller'[d] \in Waiting
                            => obj'[d] = "live" /\ sctx'[d]
      BY <2>2, <2>3, <2>4
    <2>7. \A d \in Cmd : caller'[d] = "idle" => status'[d] = "SUBMITTED" /\ ~sctx'[d]
      BY <2>2, <2>3, <2>4
    <2>8. \A d \in Cmd : obj'[d] = "live" /\ sctx'[d] => caller'[d] \in Waiting
      BY <2>2, <2>3, <2>4
    <2>9. \A d \in Cmd : status'[d] # "SUBMITTED" /\ sctx'[d]
                         => cur' = d /\ thr' \in {"complete", "clear"}
      BY <2>2, <2>3, <2>4
    <2> QED BY <2>1, <2>2, <2>3, <2>4, <2>5, <2>6, <2>7, <2>8, <2>9
  <1>2. ASSUME NEW c \in Cmd, EnqueueRefused(c) PROVE SctxInv'
    BY <1>2 DEF EnqueueRefused
  <1>3. ASSUME NEW c \in Cmd, EnqueueInsert(c) PROVE SctxInv'
    BY <1>3 DEF EnqueueInsert
  <1>4. ASSUME NEW c \in Cmd, EnqueueUp(c) PROVE SctxInv'
    BY <1>4 DEF EnqueueUp, AfterEnqueue
  <1>5. ASSUME NEW c \in Cmd, WaitEnds(c) PROVE SctxInv'
    BY <1>5 DEF WaitEnds
  <1>6. ASSUME NEW c \in Cmd, WaiterLock(c) PROVE SctxInv'
    BY <1>6 DEF WaiterLock
  <1>7. ASSUME NEW c \in Cmd, WaiterCheck(c) PROVE SctxInv'
    BY <1>7 DEF WaiterCheck, StillSubmitted
  <1>8. ASSUME NEW c \in Cmd, WaiterClear(c) PROVE SctxInv'
    BY <1>8 DEF WaiterClear
  <1>9. ASSUME NEW c \in Cmd, WaiterUnlock(c) PROVE SctxInv'
    BY <1>9 DEF WaiterUnlock
  <1>10. CASE ThreadEnter
    BY <1>10 DEF ThreadEnter
  <1>11. CASE ThreadDown
    BY <1>11 DEF ThreadDown
  <1>12. CASE ThreadTest
    BY <1>12 DEF ThreadTest
  <1>13. CASE ThreadPeek
    BY <1>13 DEF ThreadPeek
  <1>14. CASE ThreadDequeue
    BY <1>14 DEF ThreadDequeue
  <1>15. CASE ThreadQueueEmpty
    BY <1>15 DEF ThreadQueueEmpty
  <1>16. CASE ThreadReject
    BY <1>16 DEF ThreadReject
  <1>17. CASE ThreadExecute
    BY <1>17 DEF ThreadExecute
  <1>18. CASE ThreadLock
    BY <1>18 DEF ThreadLock
  <1>19. CASE ThreadStatus
    <2>1. cur \in Cmd /\ Outcome # "SUBMITTED"
      BY <1>19 DEF ThreadStatus, Outcome
    <2>2. /\ sctx' = sctx /\ obj' = obj /\ caller' = caller /\ cur' = cur
          /\ thr = "status" /\ thr' = "complete"
      BY <1>19 DEF ThreadStatus
    <2>3. status'[cur] # "SUBMITTED" /\ \A d \in Cmd : d # cur => status'[d] = status[d]
      BY <1>19, <2>1 DEF ThreadStatus
    <2>4. caller[cur] \notin {"clear", "idle"}
      BY <1>19, <2>1 DEF ThreadStatus, OwnInv
    <2> QED BY <2>1, <2>2, <2>3, <2>4
  <1>20. CASE ThreadComplete
    BY <1>20 DEF ThreadComplete
  <1>21. CASE ThreadClear
    BY <1>21 DEF ThreadClear
  <1>22. CASE ThreadUnlock
    BY <1>22 DEF ThreadUnlock
  <1>23. CASE ThreadFree
    BY <1>23 DEF ThreadFree
  <1>24. CASE ThreadLeave
    BY <1>24 DEF ThreadLeave
  <1>25. CASE ThreadSignalled
    BY <1>25 DEF ThreadSignalled
  <1>26. CASE Open
    BY <1>26 DEF Open
  <1>27. CASE PowerSave
    BY <1>27 DEF PowerSave
  <1>28. CASE SurpriseRemove
    BY <1>28 DEF SurpriseRemove
  <1>29. CASE SetStopped
    BY <1>29 DEF SetStopped
  <1>30. CASE StopUp
    BY <1>30 DEF StopUp
  <1>31. CASE StopJoin
    BY <1>31 DEF StopJoin
  <1>32. CASE Deinit
    BY <1>32 DEF Deinit
  <1>33. ASSUME NEW ok \in BOOLEAN, OpenEnds(ok) PROVE SctxInv'
    BY <1>33 DEF OpenEnds
  <1>34. CASE UNCHANGED vars
    BY <1>34 DEF vars, threadVars, callerVars, ctlVars, historyVars
  <1> QED
    BY <1>1, <1>2, <1>3, <1>4, <1>5, <1>6, <1>7, <1>8, <1>9, <1>10, <1>11,
       <1>12, <1>13, <1>14, <1>15, <1>16, <1>17, <1>18, <1>19, <1>20,
       <1>21, <1>22, <1>23, <1>24, <1>25, <1>26, <1>27, <1>28, <1>29,
       <1>30, <1>31, <1>32, <1>33, <1>34 DEF Next, Enqueue, Caller,
       ThreadStep, Controller

\* A reported success belongs to an executed command.
LEMMA AckStep ==
  ASSUME TypeOK, CurInv, AckInv, [Next]_vars
  PROVE  AckInv'
  <1> USE CmdAssumption DEF TypeOK, CurInv, AckInv, ThreadPlaces, threadVars,
       callerVars, ctlVars, historyVars, restVars
  <1>1. ASSUME NEW c \in Cmd, EnqueueAllowed(c) PROVE AckInv'
    BY <1>1 DEF EnqueueAllowed
  <1>2. ASSUME NEW c \in Cmd, EnqueueRefused(c) PROVE AckInv'
    BY <1>2 DEF EnqueueRefused
  <1>3. ASSUME NEW c \in Cmd, EnqueueInsert(c) PROVE AckInv'
    BY <1>3 DEF EnqueueInsert
  <1>4. ASSUME NEW c \in Cmd, EnqueueUp(c) PROVE AckInv'
    BY <1>4 DEF EnqueueUp
  <1>5. ASSUME NEW c \in Cmd, WaitEnds(c) PROVE AckInv'
    BY <1>5 DEF WaitEnds
  <1>6. ASSUME NEW c \in Cmd, WaiterLock(c) PROVE AckInv'
    BY <1>6 DEF WaiterLock
  <1>7. ASSUME NEW c \in Cmd, WaiterCheck(c) PROVE AckInv'
    BY <1>7 DEF WaiterCheck
  <1>8. ASSUME NEW c \in Cmd, WaiterClear(c) PROVE AckInv'
    BY <1>8 DEF WaiterClear
  <1>9. ASSUME NEW c \in Cmd, WaiterUnlock(c) PROVE AckInv'
    BY <1>9 DEF WaiterUnlock
  <1>10. CASE ThreadEnter
    BY <1>10 DEF ThreadEnter
  <1>11. CASE ThreadDown
    BY <1>11 DEF ThreadDown
  <1>12. CASE ThreadTest
    BY <1>12 DEF ThreadTest
  <1>13. CASE ThreadPeek
    BY <1>13 DEF ThreadPeek
  <1>14. CASE ThreadDequeue
    BY <1>14 DEF ThreadDequeue
  <1>15. CASE ThreadQueueEmpty
    BY <1>15 DEF ThreadQueueEmpty
  <1>16. CASE ThreadReject
    BY <1>16 DEF ThreadReject
  <1>17. CASE ThreadExecute
    BY <1>17 DEF ThreadExecute
  <1>18. CASE ThreadLock
    BY <1>18 DEF ThreadLock
  <1>19. CASE ThreadStatus
    BY <1>19 DEF ThreadStatus, Outcome
  <1>20. CASE ThreadComplete
    BY <1>20 DEF ThreadComplete
  <1>21. CASE ThreadClear
    BY <1>21 DEF ThreadClear
  <1>22. CASE ThreadUnlock
    BY <1>22 DEF ThreadUnlock
  <1>23. CASE ThreadFree
    BY <1>23 DEF ThreadFree
  <1>24. CASE ThreadLeave
    BY <1>24 DEF ThreadLeave
  <1>25. CASE ThreadSignalled
    BY <1>25 DEF ThreadSignalled
  <1>26. CASE Open
    BY <1>26 DEF Open
  <1>27. CASE PowerSave
    BY <1>27 DEF PowerSave
  <1>28. CASE SurpriseRemove
    BY <1>28 DEF SurpriseRemove
  <1>29. CASE SetStopped
    BY <1>29 DEF SetStopped
  <1>30. CASE StopUp
    BY <1>30 DEF StopUp
  <1>31. CASE StopJoin
    BY <1>31 DEF StopJoin
  <1>32. CASE Deinit
    BY <1>32 DEF Deinit
  <1>33. ASSUME NEW ok \in BOOLEAN, OpenEnds(ok) PROVE AckInv'
    BY <1>33 DEF OpenEnds
  <1>34. CASE UNCHANGED vars
    BY <1>34 DEF vars, threadVars, callerVars, ctlVars, historyVars
  <1> QED
    BY <1>1, <1>2, <1>3, <1>4, <1>5, <1>6, <1>7, <1>8, <1>9, <1>10, <1>11,
       <1>12, <1>13, <1>14, <1>15, <1>16, <1>17, <1>18, <1>19, <1>20,
       <1>21, <1>22, <1>23, <1>24, <1>25, <1>26, <1>27, <1>28, <1>29,
       <1>30, <1>31, <1>32, <1>33, <1>34 DEF Next, Enqueue, Caller,
       ThreadStep, Controller

-----------------------------------------------------------------------------
(* The wake-up, the order and the freeing of the commands.                 *)

\* No step makes the thread sleep on a command.
LEMMA WakeupStep ==
  ASSUME TypeOK, NoLostWakeup, [Next]_vars
  PROVE  NoLostWakeup'
  <1> USE CmdAssumption DEF TypeOK, NoLostWakeup, Places, ThreadPlaces, threadVars,
       callerVars, ctlVars, historyVars, restVars
  <1>1. ASSUME NEW c \in Cmd, EnqueueAllowed(c) PROVE NoLostWakeup'
    BY <1>1 DEF EnqueueAllowed
  <1>2. ASSUME NEW c \in Cmd, EnqueueRefused(c) PROVE NoLostWakeup'
    BY <1>2 DEF EnqueueRefused
  <1>3. ASSUME NEW c \in Cmd, EnqueueInsert(c) PROVE NoLostWakeup'
    BY <1>3 DEF EnqueueInsert
  <1>4. ASSUME NEW c \in Cmd, EnqueueUp(c) PROVE NoLostWakeup'
    BY <1>4 DEF EnqueueUp
  <1>5. ASSUME NEW c \in Cmd, WaitEnds(c) PROVE NoLostWakeup'
    BY <1>5 DEF WaitEnds
  <1>6. ASSUME NEW c \in Cmd, WaiterLock(c) PROVE NoLostWakeup'
    BY <1>6 DEF WaiterLock
  <1>7. ASSUME NEW c \in Cmd, WaiterCheck(c) PROVE NoLostWakeup'
    BY <1>7 DEF WaiterCheck
  <1>8. ASSUME NEW c \in Cmd, WaiterClear(c) PROVE NoLostWakeup'
    BY <1>8 DEF WaiterClear
  <1>9. ASSUME NEW c \in Cmd, WaiterUnlock(c) PROVE NoLostWakeup'
    BY <1>9 DEF WaiterUnlock
  <1>10. CASE ThreadEnter
    BY <1>10 DEF ThreadEnter
  <1>11. CASE ThreadDown
    BY <1>11 DEF ThreadDown
  <1>12. CASE ThreadTest
    BY <1>12 DEF ThreadTest
  <1>13. CASE ThreadPeek
    BY <1>13 DEF ThreadPeek
  <1>14. CASE ThreadDequeue
    BY <1>14 DEF ThreadDequeue
  <1>15. CASE ThreadQueueEmpty
    BY <1>15 DEF ThreadQueueEmpty
  <1>16. CASE ThreadReject
    BY <1>16 DEF ThreadReject
  <1>17. CASE ThreadExecute
    BY <1>17 DEF ThreadExecute
  <1>18. CASE ThreadLock
    BY <1>18 DEF ThreadLock
  <1>19. CASE ThreadStatus
    BY <1>19 DEF ThreadStatus
  <1>20. CASE ThreadComplete
    BY <1>20 DEF ThreadComplete
  <1>21. CASE ThreadClear
    BY <1>21 DEF ThreadClear
  <1>22. CASE ThreadUnlock
    BY <1>22 DEF ThreadUnlock
  <1>23. CASE ThreadFree
    BY <1>23 DEF ThreadFree
  <1>24. CASE ThreadLeave
    BY <1>24 DEF ThreadLeave
  <1>25. CASE ThreadSignalled
    BY <1>25 DEF ThreadSignalled
  <1>26. CASE Open
    BY <1>26 DEF Open
  <1>27. CASE PowerSave
    BY <1>27 DEF PowerSave
  <1>28. CASE SurpriseRemove
    BY <1>28 DEF SurpriseRemove
  <1>29. CASE SetStopped
    BY <1>29 DEF SetStopped
  <1>30. CASE StopUp
    BY <1>30 DEF StopUp
  <1>31. CASE StopJoin
    BY <1>31 DEF StopJoin
  <1>32. CASE Deinit
    BY <1>32 DEF Deinit
  <1>33. ASSUME NEW ok \in BOOLEAN, OpenEnds(ok) PROVE NoLostWakeup'
    BY <1>33 DEF OpenEnds
  <1>34. CASE UNCHANGED vars
    BY <1>34 DEF vars, threadVars, callerVars, ctlVars, historyVars
  <1> QED
    BY <1>1, <1>2, <1>3, <1>4, <1>5, <1>6, <1>7, <1>8, <1>9, <1>10, <1>11,
       <1>12, <1>13, <1>14, <1>15, <1>16, <1>17, <1>18, <1>19, <1>20,
       <1>21, <1>22, <1>23, <1>24, <1>25, <1>26, <1>27, <1>28, <1>29,
       <1>30, <1>31, <1>32, <1>33, <1>34 DEF Next, Enqueue, Caller,
       ThreadStep, Controller

\* The order of acceptance is the order of taking.
LEMMA FifoStep ==
  ASSUME TypeOK, CmdFifo, [Next]_vars
  PROVE  CmdFifo'
  <1> USE CmdAssumption DEF TypeOK, CmdFifo, threadVars, callerVars, ctlVars, historyVars, restVars
  <1>1. ASSUME NEW c \in Cmd, EnqueueAllowed(c) PROVE CmdFifo'
    BY <1>1 DEF EnqueueAllowed
  <1>2. ASSUME NEW c \in Cmd, EnqueueRefused(c) PROVE CmdFifo'
    BY <1>2 DEF EnqueueRefused
  <1>3. ASSUME NEW c \in Cmd, EnqueueInsert(c) PROVE CmdFifo'
    <2>1. queue' = queue \o <<c>> /\ accepted' = accepted \o <<c>>
      BY <1>3, AppendIsConcat DEF EnqueueInsert, ListInsert
    <2>2. <<c>> \in Seq(Cmd)
      OBVIOUS
    <2>3. (taken \o queue) \o <<c>> = taken \o (queue \o <<c>>)
      BY <2>2, ConcatAssociative
    <2> QED BY <1>3, <2>1, <2>3 DEF EnqueueInsert
  <1>4. ASSUME NEW c \in Cmd, EnqueueUp(c) PROVE CmdFifo'
    BY <1>4 DEF EnqueueUp
  <1>5. ASSUME NEW c \in Cmd, WaitEnds(c) PROVE CmdFifo'
    BY <1>5 DEF WaitEnds
  <1>6. ASSUME NEW c \in Cmd, WaiterLock(c) PROVE CmdFifo'
    BY <1>6 DEF WaiterLock
  <1>7. ASSUME NEW c \in Cmd, WaiterCheck(c) PROVE CmdFifo'
    BY <1>7 DEF WaiterCheck
  <1>8. ASSUME NEW c \in Cmd, WaiterClear(c) PROVE CmdFifo'
    BY <1>8 DEF WaiterClear
  <1>9. ASSUME NEW c \in Cmd, WaiterUnlock(c) PROVE CmdFifo'
    BY <1>9 DEF WaiterUnlock
  <1>10. CASE ThreadEnter
    BY <1>10 DEF ThreadEnter
  <1>11. CASE ThreadDown
    BY <1>11 DEF ThreadDown
  <1>12. CASE ThreadTest
    BY <1>12 DEF ThreadTest
  <1>13. CASE ThreadPeek
    BY <1>13 DEF ThreadPeek
  <1>14. CASE ThreadDequeue
    BY <1>14 DEF ThreadDequeue
  <1>15. CASE ThreadQueueEmpty
    BY <1>15 DEF ThreadQueueEmpty
  <1>16. CASE ThreadReject
    BY <1>16 DEF ThreadReject
  <1>17. CASE ThreadExecute
    BY <1>17 DEF ThreadExecute
  <1>18. CASE ThreadLock
    BY <1>18 DEF ThreadLock
  <1>19. CASE ThreadStatus
    BY <1>19 DEF ThreadStatus
  <1>20. CASE ThreadComplete
    BY <1>20 DEF ThreadComplete
  <1>21. CASE ThreadClear
    BY <1>21 DEF ThreadClear
  <1>22. CASE ThreadUnlock
    BY <1>22 DEF ThreadUnlock
  <1>23. CASE ThreadFree
    BY <1>23 DEF ThreadFree
  <1>24. CASE ThreadLeave
    BY <1>24 DEF ThreadLeave
  <1>25. CASE ThreadSignalled
    BY <1>25 DEF ThreadSignalled
  <1>26. CASE Open
    BY <1>26 DEF Open
  <1>27. CASE PowerSave
    BY <1>27 DEF PowerSave
  <1>28. CASE SurpriseRemove
    BY <1>28 DEF SurpriseRemove
  <1>29. CASE SetStopped
    BY <1>29 DEF SetStopped
  <1>30. CASE StopUp
    BY <1>30 DEF StopUp
  <1>31. CASE StopJoin
    BY <1>31 DEF StopJoin
  <1>32. CASE Deinit
    BY <1>32 DEF Deinit
  <1>33. ASSUME NEW ok \in BOOLEAN, OpenEnds(ok) PROVE CmdFifo'
    BY <1>33 DEF OpenEnds
  <1>34. CASE UNCHANGED vars
    BY <1>34 DEF vars, threadVars, callerVars, ctlVars, historyVars
  <1> QED
    BY <1>1, <1>2, <1>3, <1>4, <1>5, <1>6, <1>7, <1>8, <1>9, <1>10, <1>11,
       <1>12, <1>13, <1>14, <1>15, <1>16, <1>17, <1>18, <1>19, <1>20,
       <1>21, <1>22, <1>23, <1>24, <1>25, <1>26, <1>27, <1>28, <1>29,
       <1>30, <1>31, <1>32, <1>33, <1>34 DEF Next, Enqueue, Caller,
       ThreadStep, Controller

\* Every path of a command ends in a free.
LEMMA LeakStep ==
  ASSUME TypeOK, CurInv, OwnInv, NoLeak, [Next]_vars
  PROVE  NoLeak'
  <1> USE CmdAssumption DEF TypeOK, CurInv, NoLeak, Owned, Queued, Places, ThreadPlaces,
       threadVars, callerVars, ctlVars, historyVars, restVars
  <1>1. ASSUME NEW c \in Cmd, EnqueueAllowed(c) PROVE NoLeak'
    BY <1>1 DEF EnqueueAllowed
  <1>2. ASSUME NEW c \in Cmd, EnqueueRefused(c) PROVE NoLeak'
    BY <1>2 DEF EnqueueRefused
  <1>3. ASSUME NEW c \in Cmd, EnqueueInsert(c) PROVE NoLeak'
    <2>1. IsInserted(c)
      BY <1>3, InsertedQueue
    <2>2. \A d \in Cmd : Queued(d) \/ d = c => \E i \in DOMAIN queue' : queue'[i] = d
      BY <2>1 DEF IsInserted
    <2> QED BY <1>3, <2>2 DEF EnqueueInsert
  <1>4. ASSUME NEW c \in Cmd, EnqueueUp(c) PROVE NoLeak'
    BY <1>4 DEF EnqueueUp
  <1>5. ASSUME NEW c \in Cmd, WaitEnds(c) PROVE NoLeak'
    BY <1>5 DEF WaitEnds
  <1>6. ASSUME NEW c \in Cmd, WaiterLock(c) PROVE NoLeak'
    BY <1>6 DEF WaiterLock
  <1>7. ASSUME NEW c \in Cmd, WaiterCheck(c) PROVE NoLeak'
    BY <1>7 DEF WaiterCheck
  <1>8. ASSUME NEW c \in Cmd, WaiterClear(c) PROVE NoLeak'
    BY <1>8 DEF WaiterClear
  <1>9. ASSUME NEW c \in Cmd, WaiterUnlock(c) PROVE NoLeak'
    BY <1>9 DEF WaiterUnlock
  <1>10. CASE ThreadEnter
    BY <1>10 DEF ThreadEnter
  <1>11. CASE ThreadDown
    BY <1>11 DEF ThreadDown
  <1>12. CASE ThreadTest
    BY <1>12 DEF ThreadTest
  <1>13. CASE ThreadPeek
    BY <1>13 DEF ThreadPeek
  <1>14. CASE ThreadDequeue
    <2>1. IsTaken
      BY <1>14, TakenQueue
    <2>2. ASSUME NEW d \in Cmd, NEW i \in DOMAIN queue, queue[i] = d
          PROVE  cur' = d \/ \E j \in DOMAIN queue' : queue'[j] = d
      <3>1. CASE i = 1
        BY <2>1, <2>2, <3>1 DEF IsTaken
      <3>2. CASE i # 1
        <4>1. i - 1 \in DOMAIN queue' /\ queue'[i - 1] = queue[(i - 1) + 1] /\ i \in Nat
          BY <2>1, <2>2, <3>2 DEF IsTaken
        <4> QED BY <2>2, <4>1
      <3> QED BY <3>1, <3>2
    <2>3. cur = NoCmd
      BY <1>14 DEF ThreadDequeue
    <2> QED BY <1>14, <2>2, <2>3 DEF ThreadDequeue
  <1>15. CASE ThreadQueueEmpty
    BY <1>15 DEF ThreadQueueEmpty
  <1>16. CASE ThreadReject
    BY <1>16 DEF ThreadReject
  <1>17. CASE ThreadExecute
    BY <1>17 DEF ThreadExecute
  <1>18. CASE ThreadLock
    BY <1>18 DEF ThreadLock
  <1>19. CASE ThreadStatus
    BY <1>19 DEF ThreadStatus
  <1>20. CASE ThreadComplete
    BY <1>20 DEF ThreadComplete
  <1>21. CASE ThreadClear
    BY <1>21 DEF ThreadClear
  <1>22. CASE ThreadUnlock
    BY <1>22 DEF ThreadUnlock
  <1>23. CASE ThreadFree
    <2>1. cur \in Cmd /\ (obj'[cur] = "freed" \/ cur \in Disconnect)
      BY <1>23 DEF ThreadFree, Frees
    <2>2. \A d \in Cmd : d # cur => obj'[d] = obj[d]
      BY <1>23 DEF ThreadFree
    <2> QED BY <1>23, <2>1, <2>2 DEF ThreadFree
  <1>24. CASE ThreadLeave
    BY <1>24 DEF ThreadLeave
  <1>25. CASE ThreadSignalled
    BY <1>25 DEF ThreadSignalled
  <1>26. CASE Open
    BY <1>26 DEF Open
  <1>27. CASE PowerSave
    BY <1>27 DEF PowerSave
  <1>28. CASE SurpriseRemove
    BY <1>28 DEF SurpriseRemove
  <1>29. CASE SetStopped
    BY <1>29 DEF SetStopped
  <1>30. CASE StopUp
    BY <1>30 DEF StopUp
  <1>31. CASE StopJoin
    BY <1>31 DEF StopJoin
  <1>32. CASE Deinit
    BY <1>32 DEF Deinit
  <1>33. ASSUME NEW ok \in BOOLEAN, OpenEnds(ok) PROVE NoLeak'
    BY <1>33 DEF OpenEnds
  <1>34. CASE UNCHANGED vars
    BY <1>34 DEF vars, threadVars, callerVars, ctlVars, historyVars
  <1> QED
    BY <1>1, <1>2, <1>3, <1>4, <1>5, <1>6, <1>7, <1>8, <1>9, <1>10, <1>11,
       <1>12, <1>13, <1>14, <1>15, <1>16, <1>17, <1>18, <1>19, <1>20,
       <1>21, <1>22, <1>23, <1>24, <1>25, <1>26, <1>27, <1>28, <1>29,
       <1>30, <1>31, <1>32, <1>33, <1>34 DEF Next, Enqueue, Caller,
       ThreadStep, Controller

-----------------------------------------------------------------------------
(* The theorems.                                                           *)

\* What the safety theorems rest on.
IInv == TypeOK /\ CurInv /\ MutexInv /\ OwnInv /\ SctxInv

LEMMA IInvInit == Init => IInv /\ AckInv /\ NoLostWakeup /\ CmdFifo /\ NoLeak
  <1> SUFFICES ASSUME Init PROVE IInv /\ AckInv /\ NoLostWakeup /\ CmdFifo /\ NoLeak
    OBVIOUS
  <1> USE CmdAssumption DEF Init
  <1>0. queue \in Seq(Cmd) /\ accepted \in Seq(Cmd) /\ taken \in Seq(Cmd)
    BY EmptySeq
  <1>1. TypeOK
    <2>1. /\ caller \in [Cmd -> Places] /\ obj \in [Cmd -> {"none", "live", "freed"}]
          /\ sctx \in [Cmd -> BOOLEAN]
          /\ status \in [Cmd -> {"SUBMITTED", "DONE_SUCCESS", "DONE_CMD_ERROR",
                                 "DONE_CMD_DROP"}]
      BY DEF Places
    <2> QED BY <1>0, <2>1 DEF TypeOK, ThreadPlaces, Free, Thread
  <1>2. CurInv /\ MutexInv /\ SctxInv
    BY DEF CurInv, MutexInv, SctxInv, Waiting, Free, Thread
  <1>3. DOMAIN queue = {}
    OBVIOUS
  <1>4. OwnInv
    BY <1>3 DEF OwnInv
  <1>5. AckInv /\ NoLostWakeup /\ NoLeak
    BY DEF AckInv, NoLostWakeup, NoLeak
  <1>6. CmdFifo
    BY ConcatEmptySeq DEF CmdFifo
  <1> QED BY <1>1, <1>2, <1>4, <1>5, <1>6 DEF IInv

LEMMA IInvStep == IInv /\ [Next]_vars => IInv'
  BY TypeStep, CurStep, MutexStep, OwnStep, SctxStep DEF IInv

\* Every variable of the command queue keeps its type.
THEOREM TypeCorrect == Spec => []TypeOK
  <1>1. Init => IInv
    BY IInvInit
  <1>2. IInv => TypeOK
    BY DEF IInv
  <1> QED BY <1>1, <1>2, IInvStep, PTL DEF Spec

\* No command holds the address of a submit_ctx whose function has returned,
\* whatever the timeouts do (rtw_sctx_wait against rtw_sctx_done_err).
THEOREM SctxSafe == Spec => []NoDanglingSctx
  <1>1. Init => IInv
    BY IInvInit
  <1>2. IInv => NoDanglingSctx
    BY DEF IInv, SctxInv, NoDanglingSctx, Waiting
  <1> QED BY <1>1, <1>2, IInvStep, PTL DEF Spec

\* Neither the thread nor a waiter that timed out touches a freed object.
THEOREM ObjectSafe == Spec => []NoUseAfterFree
  <1>1. Init => IInv
    BY IInvInit
  <1>2. ASSUME IInv PROVE NoUseAfterFree
    <2>1. ASSUME NEW c \in Cmd, caller[c] = "clear" PROVE obj[c] = "live"
      BY <1>2, <2>1 DEF IInv, SctxInv, Waiting
    <2> QED BY <1>2, <2>1 DEF IInv, OwnInv, NoUseAfterFree
  <1> QED BY <1>1, <1>2, IInvStep, PTL DEF Spec

\* The thread never sleeps on a queued command without a wake-up on its way.
THEOREM WakeupNotLost == Spec => []NoLostWakeup
  <1>1. Init => IInv /\ NoLostWakeup
    BY IInvInit
  <1>2. IInv /\ NoLostWakeup /\ [Next]_vars => NoLostWakeup'
    BY WakeupStep DEF IInv
  <1> QED BY <1>1, <1>2, IInvStep, PTL DEF Spec

\* Commands are taken in the order in which they were accepted.
THEOREM TakenInOrder == Spec => []CmdFifo
  <1>1. Init => IInv /\ CmdFifo
    BY IInvInit
  <1>2. IInv /\ CmdFifo /\ [Next]_vars => CmdFifo'
    BY FifoStep DEF IInv
  <1> QED BY <1>1, <1>2, IInvStep, PTL DEF Spec

\* Every path frees the object of its command.
THEOREM ObjectsFreed == Spec => []NoLeak
  <1>1. Init => IInv /\ NoLeak
    BY IInvInit
  <1>2. IInv /\ NoLeak /\ [Next]_vars => NoLeak'
    BY LeakStep DEF IInv
  <1> QED BY <1>1, <1>2, IInvStep, PTL DEF Spec

\* A waiter that reads DONE_SUCCESS had its handler run and succeed.
THEOREM AckTruthful == Spec => []AckMeansExecuted
  <1>1. Init => IInv /\ AckInv
    BY IInvInit
  <1>2. IInv /\ AckInv /\ [Next]_vars => AckInv'
    BY AckStep DEF IInv
  <1>3. AckInv => AckMeansExecuted
    BY DEF AckInv, AckMeansExecuted
  <1> QED BY <1>1, <1>2, <1>3, IInvStep, PTL DEF Spec
=============================================================================
