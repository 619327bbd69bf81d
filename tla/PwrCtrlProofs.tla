---------------------------- MODULE PwrCtrlProofs ----------------------------
(***************************************************************************)
(* Proofs about PwrCtrl: its type invariant with the mutex, and the two    *)
(* safety invariants of the run pwr, for every set of callers, every set   *)
(* of them with a deny reason, and every bound.                            *)
(*                                                                         *)
(* The invariant is a list of small ones, each over few variables, in the  *)
(* order in which they support each other: types and places first, which   *)
(* hold unconditionally; then, as long as no undefended order was met,     *)
(* the handshake of wakeup and check (OrderInv), the power state that      *)
(* rests on it (PowerInv) and the doze mode (DozeInv).  Each has a lemma   *)
(* with one step per action that touches its variables and one for the     *)
(* others.                                                                 *)
(***************************************************************************)
EXTENDS PwrCtrl, TLAPS

\* a caller inside _ips_leave, which holds the mutex
Powering == {"up", "on", "upfail"}
\* a caller that has looked at ps_processing and is on its way to use the device
Past == {"susp", "decide", "ips", "up", "on", "upfail", "final"}
\* where the three kinds of thread can be
CmdPc == {"idle", "susp", "check", "activity", "enter", "down", "off", "exit",
          "lpsmode", "lpsh2c", "leaveh2c", "stopped"}
WkPc == {"idle", "leave", "h2c", "arm", "wait", "susp", "decide", "ips", "up", "on",
         "upfail", "final", "awake", "done"}
SusPc == {"run", "wait", "leave", "h2c", "cancel", "unload", "down", "opened"}

(* The types, one group of variables at a time. *)
DeviceFlags == rf \in BOOLEAN /\ chg \in BOOLEAN /\ hw \in BOOLEAN /\ up \in BOOLEAN
ThreadFlags == ipsP \in BOOLEAN /\ psP \in BOOLEAN /\ denyT \in BOOLEAN /\ susp \in BOOLEAN
QueueFlags == timer \in BOOLEAN /\ psQ \in BOOLEAN /\ lvQ \in BOOLEAN
DozeFlags == saving \in BOOLEAN /\ mode \in BOOLEAN /\ fwps \in BOOLEAN
Flags == DeviceFlags /\ ThreadFlags /\ QueueFlags /\ DozeFlags
Sets ==
  /\ deny \subseteq Denying \cup {"suspend"} /\ fresh \subseteq Callers
  /\ act \subseteq {"linked", "linking", "survey"} /\ idle \in 0..2
Places == cmd \in CmdPc /\ wk \in [Callers -> WkPc] /\ sus \in SusPc
\* the pwrctrl mutex is held by exactly the thread that changes the power state
Mutex ==
  /\ lock \in Callers \cup {"none", "cmd"}
  /\ (lock = "cmd") = (cmd \in {"down", "off"})
  /\ \A c \in Callers : (lock = c) = (wk[c] \in Powering)
\* what the threads' places say about the flags they raise: bInSuspend is up outside "run", the
\* command thread is stopped exactly while the driver is, ps_processing is up during the check
Stages ==
  /\ susp = (sus # "run") /\ up = (cmd # "stopped")
  /\ sus = "down" => ~up
  /\ cmd \in {"check", "activity", "enter", "down", "off"} => psP
\* a caller with a reason has it in ps_deny for all of its request; somebody's deny time is ahead
\* as long as one of them is fresh
Reasons ==
  /\ \A c \in Denying : wk[c] # "idle" => c \in deny
  /\ fresh # {} => denyT

\* The flags of the device keep their types.
LEMMA DeviceFlagsStep ==
  ASSUME DeviceFlags, [Next]_vars
  PROVE  DeviceFlags'
  <1> USE DEF DeviceFlags
  <1>1. ASSUME PsActivity PROVE DeviceFlags'
    BY <1>1, Zenon DEF PsActivity
  <1>2. ASSUME IpsDown PROVE DeviceFlags'
    BY <1>2, Zenon DEF IpsDown
  <1>3. ASSUME IpsOff PROVE DeviceFlags'
    BY <1>3, Zenon DEF IpsOff
  <1>4. ASSUME SuspendUnload PROVE DeviceFlags'
    BY <1>4, Zenon DEF SuspendUnload, Stop
  <1>5. ASSUME ResumeOpen PROVE DeviceFlags'
    BY <1>5, Zenon DEF ResumeOpen
  <1>6. ASSUME NEW c \in Callers, IpsLeave(c) PROVE DeviceFlags'
    BY <1>6, Zenon DEF IpsLeave, Goto
  <1>7. ASSUME NEW c \in Callers, IpsPwrUp(c) PROVE DeviceFlags'
    BY <1>7, Zenon DEF IpsPwrUp, Goto
  <1>8. ASSUME NEW c \in Callers, IpsLeft(c) PROVE DeviceFlags'
    BY <1>8, Zenon DEF IpsLeft, Goto
  <1>9. ASSUME \/ TimerFires \/ PsDenied \/ PsSuspended \/ PsDenyTime \/ IpsEnter \/ PsExit
               \/ LpsEnter \/ LpsMode \/ LpsH2C \/ CmdLeave \/ CmdLeaveH2C \/ ScanDone \/ LinkUp
               \/ LinkDown \/ DenyExpires \/ SuspendStart \/ SuspendWait \/ SuspendLeave
               \/ SuspendH2C \/ SuspendFree \/ ResumeEnd \/ UNCHANGED vars
               \/ \E c \in Callers : Request(c) \/ WakeTimeout(c) \/ WakeLeave(c)
                      \/ WakeLeaveH2C(c) \/ WakeArm(c) \/ WakeWait(c) \/ WakeSuspended(c)
                      \/ WakeDecide(c) \/ WakeFinal(c) \/ Use(c) \/ Release(c)
        PROVE DeviceFlags'
    <2>1. UNCHANGED <<chg, hw, rf, up>>
      BY <1>9, Zenon DEF TimerFires, PsDenied, PsSuspended, PsDenyTime, IpsEnter, PsExit,
         LpsEnter, LpsMode, LpsH2C, CmdLeave, CmdLeaveH2C, ScanDone, LinkUp, LinkDown,
         DenyExpires, SuspendStart, SuspendWait, SuspendLeave, SuspendH2C, SuspendFree,
         ResumeEnd, Request, WakeTimeout, WakeLeave, WakeLeaveH2C, WakeArm, WakeWait,
         WakeSuspended, WakeDecide, WakeFinal, Use, Release, Awake, Goto, LeaveH2C, pwr, vars
    <2> QED BY <2>1
  <1> QED BY <1>1, <1>2, <1>3, <1>4, <1>5, <1>6, <1>7, <1>8, <1>9,
         Zenon DEF Next, Processor, Leisure, Wakeup, Station, System

\* The flags the threads raise keep their types.
LEMMA ThreadFlagsStep ==
  ASSUME ThreadFlags, [Next]_vars
  PROVE  ThreadFlags'
  <1> USE DEF ThreadFlags
  <1>1. ASSUME PsSuspended PROVE ThreadFlags'
    BY <1>1, Zenon DEF PsSuspended, Stop, pwr, dny
  <1>2. ASSUME IpsEnter PROVE ThreadFlags'
    BY <1>2, Zenon DEF IpsEnter, dny
  <1>3. ASSUME IpsOff PROVE ThreadFlags'
    BY <1>3, Zenon DEF IpsOff, dny
  <1>4. ASSUME PsExit PROVE ThreadFlags'
    BY <1>4, Zenon DEF PsExit, pwr, dny
  <1>5. ASSUME ScanDone PROVE ThreadFlags'
    BY <1>5, Zenon DEF ScanDone, Stop, pwr
  <1>6. ASSUME DenyExpires PROVE ThreadFlags'
    BY <1>6, Zenon DEF DenyExpires, Stop, pwr
  <1>7. ASSUME SuspendStart PROVE ThreadFlags'
    BY <1>7, Zenon DEF SuspendStart, pwr, dny
  <1>8. ASSUME ResumeOpen PROVE ThreadFlags'
    BY <1>8, Zenon DEF ResumeOpen, dny
  <1>9. ASSUME ResumeEnd PROVE ThreadFlags'
    BY <1>9, Zenon DEF ResumeEnd, pwr, dny
  <1>10. ASSUME NEW c \in Callers, WakeArm(c) PROVE ThreadFlags'
    BY <1>10, Zenon DEF WakeArm, Goto, pwr
  <1>11. ASSUME NEW c \in Callers, WakeSuspended(c) PROVE ThreadFlags'
    BY <1>11, Zenon DEF WakeSuspended, Goto, pwr
  <1>12. ASSUME NEW c \in Callers, WakeDecide(c) PROVE ThreadFlags'
    BY <1>12, Zenon DEF WakeDecide, Goto, Awake, Linked, pwr
  <1>13. ASSUME NEW c \in Callers, IpsLeave(c) PROVE ThreadFlags'
    BY <1>13, Zenon DEF IpsLeave, Goto, dny
  <1>14. ASSUME NEW c \in Callers, IpsLeft(c) PROVE ThreadFlags'
    BY <1>14, Zenon DEF IpsLeft, Goto
  <1>15. ASSUME NEW c \in Callers, WakeFinal(c) PROVE ThreadFlags'
    BY <1>15, Zenon DEF WakeFinal, Goto, Awake, pwr
  <1>16. ASSUME \/ TimerFires \/ PsDenied \/ PsDenyTime \/ PsActivity \/ IpsDown \/ LpsEnter
               \/ LpsMode \/ LpsH2C \/ CmdLeave \/ CmdLeaveH2C \/ LinkUp \/ LinkDown
               \/ SuspendWait \/ SuspendLeave \/ SuspendH2C \/ SuspendFree \/ SuspendUnload
               \/ UNCHANGED vars
               \/ \E c \in Callers : Request(c) \/ WakeTimeout(c) \/ WakeLeave(c)
                      \/ WakeLeaveH2C(c) \/ WakeWait(c) \/ IpsPwrUp(c) \/ Use(c) \/ Release(c)
        PROVE ThreadFlags'
    <2>1. UNCHANGED <<denyT, ipsP, psP, susp>>
      BY <1>16, Zenon DEF TimerFires, PsDenied, PsDenyTime, PsActivity, IpsDown, LpsEnter,
         LpsMode, LpsH2C, CmdLeave, CmdLeaveH2C, LinkUp, LinkDown, SuspendWait, SuspendLeave,
         SuspendH2C, SuspendFree, SuspendUnload, Request, WakeTimeout, WakeLeave, WakeLeaveH2C,
         WakeWait, IpsPwrUp, Use, Release, Goto, LeaveH2C, pwr, dny, vars
    <2> QED BY <2>1
  <1> QED BY <1>1, <1>2, <1>3, <1>4, <1>5, <1>6, <1>7, <1>8, <1>9, <1>10, <1>11, <1>12, <1>13,
         <1>14, <1>15, <1>16, Zenon DEF Next, Processor, Leisure, Wakeup, Station, System

\* The timer and the queued commands keep their types.
LEMMA QueueFlagsStep ==
  ASSUME Flags, [Next]_vars
  PROVE  QueueFlags'
  <1> USE DEF QueueFlags, Flags, DeviceFlags
  <1>1. ASSUME TimerFires PROVE QueueFlags'
    BY <1>1, Zenon DEF TimerFires
  <1>2. ASSUME PsDenied PROVE QueueFlags'
    BY <1>2, Zenon DEF PsDenied
  <1>3. ASSUME PsExit PROVE QueueFlags'
    BY <1>3, Zenon DEF PsExit
  <1>4. ASSUME CmdLeave PROVE QueueFlags'
    BY <1>4, Zenon DEF CmdLeave, LeaveMode, Linked
  <1>5. ASSUME ScanDone PROVE QueueFlags'
    BY <1>5, Zenon DEF ScanDone, Stop
  <1>6. ASSUME LinkDown PROVE QueueFlags'
    BY <1>6, Zenon DEF LinkDown, Linked
  <1>7. ASSUME SuspendWait PROVE QueueFlags'
    BY <1>7, Zenon DEF SuspendWait, Stop
  <1>8. ASSUME SuspendFree PROVE QueueFlags'
    BY <1>8, Zenon DEF SuspendFree, Linked
  <1>9. ASSUME SuspendUnload PROVE QueueFlags'
    BY <1>9, Zenon DEF SuspendUnload, Stop
  <1>10. ASSUME ResumeOpen PROVE QueueFlags'
    BY <1>10, Zenon DEF ResumeOpen
  <1>11. ASSUME NEW c \in Callers, IpsPwrUp(c) PROVE QueueFlags'
    BY <1>11, Zenon DEF IpsPwrUp, Goto
  <1>12. ASSUME \/ PsSuspended \/ PsDenyTime \/ PsActivity \/ IpsEnter \/ IpsDown \/ IpsOff
               \/ LpsEnter \/ LpsMode \/ LpsH2C \/ CmdLeaveH2C \/ LinkUp \/ DenyExpires
               \/ SuspendStart \/ SuspendLeave \/ SuspendH2C \/ ResumeEnd \/ UNCHANGED vars
               \/ \E c \in Callers : Request(c) \/ WakeTimeout(c) \/ WakeLeave(c)
                      \/ WakeLeaveH2C(c) \/ WakeArm(c) \/ WakeWait(c) \/ WakeSuspended(c)
                      \/ WakeDecide(c) \/ IpsLeave(c) \/ IpsLeft(c) \/ WakeFinal(c) \/ Use(c)
                      \/ Release(c)
        PROVE QueueFlags'
    <2>1. UNCHANGED <<lvQ, psQ, timer>>
      BY <1>12, Zenon DEF PsSuspended, PsDenyTime, PsActivity, IpsEnter, IpsDown, IpsOff,
         LpsEnter, LpsMode, LpsH2C, CmdLeaveH2C, LinkUp, DenyExpires, SuspendStart, SuspendLeave,
         SuspendH2C, ResumeEnd, Request, WakeTimeout, WakeLeave, WakeLeaveH2C, WakeArm, WakeWait,
         WakeSuspended, WakeDecide, IpsLeave, IpsLeft, WakeFinal, Use, Release, Awake, Goto,
         LeaveH2C, que, vars
    <2> QED BY <2>1
  <1> QED BY <1>1, <1>2, <1>3, <1>4, <1>5, <1>6, <1>7, <1>8, <1>9, <1>10, <1>11, <1>12,
         Zenon DEF Next, Processor, Leisure, Wakeup, Station, System

\* The flags of the doze mode keep their types.
LEMMA DozeFlagsStep ==
  ASSUME DozeFlags, [Next]_vars
  PROVE  DozeFlags'
  <1> USE DEF DozeFlags
  <1>1. ASSUME IpsEnter PROVE DozeFlags'
    BY <1>1, Zenon DEF IpsEnter, lps
  <1>2. ASSUME IpsDown PROVE DozeFlags'
    BY <1>2, Zenon DEF IpsDown
  <1>3. ASSUME LpsEnter PROVE DozeFlags'
    BY <1>3, Zenon DEF LpsEnter, PS_RDY_CHECK, Linked
  <1>4. ASSUME LpsMode PROVE DozeFlags'
    BY <1>4, Zenon DEF LpsMode, Stop, Overlap, Leaving, PS_RDY_CHECK, Linked, pwr
  <1>5. ASSUME LpsH2C PROVE DozeFlags'
    BY <1>5, Zenon DEF LpsH2C, Stop, Overlap, Leaving, pwr
  <1>6. ASSUME CmdLeave PROVE DozeFlags'
    BY <1>6, Zenon DEF CmdLeave, LeaveMode, Linked
  <1>7. ASSUME CmdLeaveH2C PROVE DozeFlags'
    BY <1>7, Zenon DEF CmdLeaveH2C, LeaveH2C
  <1>8. ASSUME SuspendLeave PROVE DozeFlags'
    BY <1>8, Zenon DEF SuspendLeave, Stop, LeaveMode, Overlap, Linked
  <1>9. ASSUME SuspendH2C PROVE DozeFlags'
    BY <1>9, Zenon DEF SuspendH2C, Stop, LeaveH2C, Overlap
  <1>10. ASSUME SuspendUnload PROVE DozeFlags'
    BY <1>10, Zenon DEF SuspendUnload, Stop
  <1>11. ASSUME NEW c \in Callers, WakeLeave(c) PROVE DozeFlags'
    BY <1>11, Zenon DEF WakeLeave, Goto, Stop, LeaveMode, Overlap, Linked
  <1>12. ASSUME NEW c \in Callers, WakeLeaveH2C(c) PROVE DozeFlags'
    BY <1>12, Zenon DEF WakeLeaveH2C, Goto, Stop, LeaveH2C, Overlap
  <1>13. ASSUME NEW c \in Callers, IpsLeft(c) PROVE DozeFlags'
    BY <1>13, Zenon DEF IpsLeft, Goto, lps
  <1>14. ASSUME \/ TimerFires \/ PsDenied \/ PsSuspended \/ PsDenyTime \/ PsActivity \/ IpsOff
               \/ PsExit \/ ScanDone \/ LinkUp \/ LinkDown \/ DenyExpires \/ SuspendStart
               \/ SuspendWait \/ SuspendFree \/ ResumeOpen \/ ResumeEnd \/ UNCHANGED vars
               \/ \E c \in Callers : Request(c) \/ WakeTimeout(c) \/ WakeArm(c)
                      \/ WakeWait(c) \/ WakeSuspended(c) \/ WakeDecide(c) \/ IpsLeave(c)
                      \/ IpsPwrUp(c) \/ WakeFinal(c) \/ Use(c) \/ Release(c)
        PROVE DozeFlags'
    <2>1. UNCHANGED <<fwps, mode, saving>>
      BY <1>14, Zenon DEF TimerFires, PsDenied, PsSuspended, PsDenyTime, PsActivity, IpsOff,
         PsExit, ScanDone, LinkUp, LinkDown, DenyExpires, SuspendStart, SuspendWait, SuspendFree,
         ResumeOpen, ResumeEnd, Request, WakeTimeout, WakeArm, WakeWait, WakeSuspended,
         WakeDecide, IpsLeave, IpsPwrUp, WakeFinal, Use, Release, Awake, Goto, pwr, lps, vars
    <2> QED BY <2>1
  <1> QED BY <1>1, <1>2, <1>3, <1>4, <1>5, <1>6, <1>7, <1>8, <1>9, <1>10, <1>11, <1>12, <1>13,
         <1>14, Zenon DEF Next, Processor, Leisure, Wakeup, Station, System

\* ps_deny, the fresh callers, the activity and the idle count keep their types.
LEMMA SetsStep ==
  ASSUME Sets, [Next]_vars
  PROVE  Sets'
  <1> USE CallersAssumption DEF Sets
  <1>1. ASSUME LpsEnter PROVE Sets'
    BY <1>1 DEF LpsEnter, PS_RDY_CHECK, Linked, dny
  <1>2. ASSUME ScanDone PROVE Sets'
    BY <1>2 DEF ScanDone, Stop, lps
  <1>3. ASSUME LinkUp PROVE Sets'
    <2>1. act' \subseteq {"linked", "linking", "survey"}
      BY <1>3, Zenon DEF LinkUp
    <2>2. idle' \in 0..2
      BY <1>3, SMT DEF LinkUp
    <2> QED BY <1>3, <2>1, <2>2, Zenon DEF LinkUp, dny
  <1>4. ASSUME LinkDown PROVE Sets'
    BY <1>4 DEF LinkDown, Linked, dny, lps
  <1>5. ASSUME DenyExpires PROVE Sets'
    BY <1>5 DEF DenyExpires, Stop, lps
  <1>6. ASSUME SuspendWait PROVE Sets'
    BY <1>6 DEF SuspendWait, Stop, lps
  <1>7. ASSUME SuspendFree PROVE Sets'
    BY <1>7 DEF SuspendFree, Linked, lps
  <1>8. ASSUME ResumeOpen PROVE Sets'
    BY <1>8 DEF ResumeOpen, dny, lps
  <1>9. ASSUME NEW c \in Callers, Request(c) PROVE Sets'
    BY <1>9 DEF Request, Goto, lps
  <1>10. ASSUME NEW c \in Callers, WakeDecide(c) PROVE Sets'
    BY <1>10 DEF WakeDecide, Goto, Awake, Linked, lps
  <1>11. ASSUME NEW c \in Callers, IpsPwrUp(c) PROVE Sets'
    BY <1>11 DEF IpsPwrUp, Goto, dny, lps
  <1>12. ASSUME NEW c \in Callers, WakeFinal(c) PROVE Sets'
    BY <1>12 DEF WakeFinal, Goto, Awake, lps
  <1>13. ASSUME NEW c \in Callers, Use(c) PROVE Sets'
    BY <1>13 DEF Use, Goto, Linked, dny, lps
  <1>14. ASSUME NEW c \in Callers, Release(c) PROVE Sets'
    BY <1>14 DEF Release, Goto, lps
  <1>15. ASSUME \/ TimerFires \/ PsDenied \/ PsSuspended \/ PsDenyTime \/ PsActivity \/ IpsEnter
               \/ IpsDown \/ IpsOff \/ PsExit \/ LpsMode \/ LpsH2C \/ CmdLeave \/ CmdLeaveH2C
               \/ SuspendStart \/ SuspendLeave \/ SuspendH2C \/ SuspendUnload \/ ResumeEnd
               \/ UNCHANGED vars
               \/ \E c \in Callers : WakeTimeout(c) \/ WakeLeave(c) \/ WakeLeaveH2C(c)
                      \/ WakeArm(c) \/ WakeWait(c) \/ WakeSuspended(c) \/ IpsLeave(c)
                      \/ IpsLeft(c)
        PROVE Sets'
    <2>1. UNCHANGED <<act, deny, fresh, idle>>
      BY <1>15, Zenon DEF TimerFires, PsDenied, PsSuspended, PsDenyTime, PsActivity, IpsEnter,
         IpsDown, IpsOff, PsExit, LpsMode, LpsH2C, CmdLeave, CmdLeaveH2C, SuspendStart,
         SuspendLeave, SuspendH2C, SuspendUnload, ResumeEnd, WakeTimeout, WakeLeave,
         WakeLeaveH2C, WakeArm, WakeWait, WakeSuspended, IpsLeave, IpsLeft, Goto, LeaveH2C, dny,
         lps, vars
    <2> QED BY <2>1
  <1> QED BY <1>1, <1>2, <1>3, <1>4, <1>5, <1>6, <1>7, <1>8, <1>9, <1>10, <1>11, <1>12, <1>13,
         <1>14, <1>15, Zenon DEF Next, Processor, Leisure, Wakeup, Station, System

\* Every thread goes from one of its places to another.
LEMMA PlacesStep ==
  ASSUME Places, [Next]_vars
  PROVE  Places'
  <1> USE DEF Places, CmdPc, WkPc, SusPc
  <1>1. ASSUME PsDenied PROVE Places'
    BY <1>1 DEF PsDenied
  <1>2. ASSUME PsSuspended PROVE Places'
    BY <1>2 DEF PsSuspended, Stop
  <1>3. ASSUME PsDenyTime PROVE Places'
    BY <1>3 DEF PsDenyTime
  <1>4. ASSUME PsActivity PROVE Places'
    BY <1>4 DEF PsActivity
  <1>5. ASSUME IpsEnter PROVE Places'
    BY <1>5 DEF IpsEnter
  <1>6. ASSUME IpsDown PROVE Places'
    BY <1>6 DEF IpsDown
  <1>7. ASSUME IpsOff PROVE Places'
    BY <1>7 DEF IpsOff
  <1>8. ASSUME PsExit PROVE Places'
    BY <1>8 DEF PsExit
  <1>9. ASSUME LpsEnter PROVE Places'
    BY <1>9 DEF LpsEnter, PS_RDY_CHECK, Linked
  <1>10. ASSUME LpsMode PROVE Places'
    BY <1>10 DEF LpsMode, Stop, Overlap, Leaving, PS_RDY_CHECK, Linked
  <1>11. ASSUME LpsH2C PROVE Places'
    BY <1>11 DEF LpsH2C, Stop, Overlap, Leaving
  <1>12. ASSUME CmdLeave PROVE Places'
    BY <1>12 DEF CmdLeave, LeaveMode, Linked
  <1>13. ASSUME CmdLeaveH2C PROVE Places'
    BY <1>13 DEF CmdLeaveH2C, LeaveH2C
  <1>14. ASSUME SuspendStart PROVE Places'
    BY <1>14 DEF SuspendStart
  <1>15. ASSUME SuspendWait PROVE Places'
    BY <1>15 DEF SuspendWait, Stop
  <1>16. ASSUME SuspendLeave PROVE Places'
    BY <1>16 DEF SuspendLeave, Stop, LeaveMode, Overlap, Linked
  <1>17. ASSUME SuspendH2C PROVE Places'
    BY <1>17 DEF SuspendH2C, Stop, LeaveH2C, Overlap
  <1>18. ASSUME SuspendFree PROVE Places'
    BY <1>18 DEF SuspendFree, Linked
  <1>19. ASSUME SuspendUnload PROVE Places'
    BY <1>19 DEF SuspendUnload, Stop
  <1>20. ASSUME ResumeOpen PROVE Places'
    BY <1>20 DEF ResumeOpen
  <1>21. ASSUME ResumeEnd PROVE Places'
    BY <1>21 DEF ResumeEnd
  <1>22. ASSUME NEW c \in Callers, Request(c) PROVE Places'
    BY <1>22 DEF Request, Goto
  <1>23. ASSUME NEW c \in Callers, WakeTimeout(c) PROVE Places'
    BY <1>23 DEF WakeTimeout, Goto, Stop
  <1>24. ASSUME NEW c \in Callers, WakeLeave(c) PROVE Places'
    BY <1>24 DEF WakeLeave, Goto, Stop, LeaveMode, Overlap, Linked
  <1>25. ASSUME NEW c \in Callers, WakeLeaveH2C(c) PROVE Places'
    BY <1>25 DEF WakeLeaveH2C, Goto, Stop, LeaveH2C, Overlap
  <1>26. ASSUME NEW c \in Callers, WakeArm(c) PROVE Places'
    BY <1>26 DEF WakeArm, Goto
  <1>27. ASSUME NEW c \in Callers, WakeWait(c) PROVE Places'
    BY <1>27 DEF WakeWait, Goto
  <1>28. ASSUME NEW c \in Callers, WakeSuspended(c) PROVE Places'
    BY <1>28 DEF WakeSuspended, Goto
  <1>29. ASSUME NEW c \in Callers, WakeDecide(c) PROVE Places'
    BY <1>29 DEF WakeDecide, Goto, Awake, Linked
  <1>30. ASSUME NEW c \in Callers, IpsLeave(c) PROVE Places'
    BY <1>30 DEF IpsLeave, Goto
  <1>31. ASSUME NEW c \in Callers, IpsPwrUp(c) PROVE Places'
    BY <1>31 DEF IpsPwrUp, Goto
  <1>32. ASSUME NEW c \in Callers, IpsLeft(c) PROVE Places'
    BY <1>32 DEF IpsLeft, Goto
  <1>33. ASSUME NEW c \in Callers, WakeFinal(c) PROVE Places'
    BY <1>33 DEF WakeFinal, Goto, Awake
  <1>34. ASSUME NEW c \in Callers, Use(c) PROVE Places'
    BY <1>34 DEF Use, Goto, Linked
  <1>35. ASSUME NEW c \in Callers, Release(c) PROVE Places'
    BY <1>35 DEF Release, Goto
  <1>36. ASSUME \/ TimerFires \/ ScanDone \/ LinkUp \/ LinkDown \/ DenyExpires \/ UNCHANGED vars
        PROVE Places'
    <2>1. UNCHANGED <<cmd, sus, wk>>
      BY <1>36, Zenon DEF TimerFires, ScanDone, LinkUp, LinkDown, DenyExpires, vars
    <2> QED BY <2>1
  <1> QED BY <1>1, <1>2, <1>3, <1>4, <1>5, <1>6, <1>7, <1>8, <1>9, <1>10, <1>11, <1>12, <1>13,
         <1>14, <1>15, <1>16, <1>17, <1>18, <1>19, <1>20, <1>21, <1>22, <1>23, <1>24, <1>25,
         <1>26, <1>27, <1>28, <1>29, <1>30, <1>31, <1>32, <1>33, <1>34, <1>35, <1>36,
         Zenon DEF Next, Processor, Leisure, Wakeup, Station, System

\* Stages is kept: only the thread at a place raises or lowers the flag of that place.
LEMMA StagesStep ==
  ASSUME Flags, Stages, [Next]_vars
  PROVE  Stages'
  <1> USE DEF Stages
  <1>1. ASSUME PsDenied PROVE Stages'
    BY <1>1 DEF PsDenied, pwr
  <1>2. ASSUME PsSuspended PROVE Stages'
    BY <1>2 DEF PsSuspended, Stop, pwr
  <1>3. ASSUME PsDenyTime PROVE Stages'
    BY <1>3 DEF PsDenyTime, pwr
  <1>4. ASSUME PsActivity PROVE Stages'
    BY <1>4 DEF PsActivity
  <1>5. ASSUME IpsEnter PROVE Stages'
    BY <1>5 DEF IpsEnter
  <1>6. ASSUME IpsDown PROVE Stages'
    BY <1>6 DEF IpsDown
  <1>7. ASSUME IpsOff PROVE Stages'
    BY <1>7 DEF IpsOff
  <1>8. ASSUME PsExit PROVE Stages'
    BY <1>8 DEF PsExit, pwr
  <1>9. ASSUME LpsEnter PROVE Stages'
    BY <1>9 DEF LpsEnter, PS_RDY_CHECK, Linked
  <1>10. ASSUME LpsMode PROVE Stages'
    BY <1>10 DEF LpsMode, Stop, Overlap, Leaving, PS_RDY_CHECK, Linked, pwr
  <1>11. ASSUME LpsH2C PROVE Stages'
    BY <1>11 DEF LpsH2C, Stop, Overlap, Leaving, pwr
  <1>12. ASSUME CmdLeave PROVE Stages'
    BY <1>12 DEF CmdLeave, LeaveMode, Linked
  <1>13. ASSUME CmdLeaveH2C PROVE Stages'
    BY <1>13 DEF CmdLeaveH2C, LeaveH2C
  <1>14. ASSUME SuspendStart PROVE Stages'
    BY <1>14 DEF SuspendStart, pwr
  <1>15. ASSUME SuspendWait PROVE Stages'
    BY <1>15 DEF SuspendWait, Stop, pwr
  <1>16. ASSUME SuspendLeave PROVE Stages'
    BY <1>16 DEF SuspendLeave, Stop, LeaveMode, Overlap, Linked
  <1>17. ASSUME SuspendH2C PROVE Stages'
    BY <1>17 DEF SuspendH2C, Stop, LeaveH2C, Overlap
  <1>18. ASSUME SuspendFree PROVE Stages'
    BY <1>18 DEF SuspendFree, Linked, pwr
  <1>19. ASSUME SuspendUnload PROVE Stages'
    BY <1>19 DEF SuspendUnload, Stop
  <1>20. ASSUME ResumeOpen PROVE Stages'
    BY <1>20 DEF ResumeOpen
  <1>21. ASSUME ResumeEnd PROVE Stages'
    BY <1>21 DEF ResumeEnd, pwr
  <1>22. ASSUME \/ TimerFires \/ ScanDone \/ LinkUp \/ LinkDown \/ DenyExpires \/ UNCHANGED vars
               \/ \E c \in Callers : Request(c) \/ WakeTimeout(c) \/ WakeLeave(c)
                      \/ WakeLeaveH2C(c) \/ WakeArm(c) \/ WakeWait(c) \/ WakeSuspended(c)
                      \/ WakeDecide(c) \/ IpsLeave(c) \/ IpsPwrUp(c) \/ IpsLeft(c)
                      \/ WakeFinal(c) \/ Use(c) \/ Release(c)
        PROVE Stages'
    <2>1. UNCHANGED <<cmd, psP, sus, susp, up>>
      BY <1>22, Zenon DEF TimerFires, ScanDone, LinkUp, LinkDown, DenyExpires, Request,
         WakeTimeout, WakeLeave, WakeLeaveH2C, WakeArm, WakeWait, WakeSuspended, WakeDecide,
         IpsLeave, IpsPwrUp, IpsLeft, WakeFinal, Use, Release, Awake, Goto, LeaveH2C, pwr, vars
    <2> QED BY <2>1
  <1> QED BY <1>1, <1>2, <1>3, <1>4, <1>5, <1>6, <1>7, <1>8, <1>9, <1>10, <1>11, <1>12, <1>13,
         <1>14, <1>15, <1>16, <1>17, <1>18, <1>19, <1>20, <1>21, <1>22,
         Zenon DEF Next, Processor, Leisure, Wakeup, Station, System

\* Mutex is kept: IpsEnter and IpsLeave take the mutex when it is free and the step that ends the
\* power change gives it back; a resume restarts the command thread outside of it.
LEMMA MutexStep ==
  ASSUME Places, Mutex, Stages, [Next]_vars
  PROVE  Mutex'
  <1> USE CallersAssumption DEF Mutex, Powering, Places
  <1>1. ASSUME PsDenied PROVE Mutex'
    BY <1>1 DEF PsDenied
  <1>2. ASSUME PsSuspended PROVE Mutex'
    BY <1>2 DEF PsSuspended, Stop
  <1>3. ASSUME PsDenyTime PROVE Mutex'
    BY <1>3 DEF PsDenyTime
  <1>4. ASSUME PsActivity PROVE Mutex'
    BY <1>4 DEF PsActivity
  <1>5. ASSUME IpsEnter PROVE Mutex'
    BY <1>5 DEF IpsEnter
  <1>6. ASSUME IpsDown PROVE Mutex'
    BY <1>6 DEF IpsDown
  <1>7. ASSUME IpsOff PROVE Mutex'
    BY <1>7 DEF IpsOff
  <1>8. ASSUME PsExit PROVE Mutex'
    BY <1>8 DEF PsExit
  <1>9. ASSUME LpsEnter PROVE Mutex'
    BY <1>9 DEF LpsEnter, PS_RDY_CHECK, Linked
  <1>10. ASSUME LpsMode PROVE Mutex'
    BY <1>10 DEF LpsMode, Stop, Overlap, Leaving, PS_RDY_CHECK, Linked
  <1>11. ASSUME LpsH2C PROVE Mutex'
    BY <1>11 DEF LpsH2C, Stop, Overlap, Leaving
  <1>12. ASSUME CmdLeave PROVE Mutex'
    BY <1>12 DEF CmdLeave, LeaveMode, Linked
  <1>13. ASSUME CmdLeaveH2C PROVE Mutex'
    BY <1>13 DEF CmdLeaveH2C, LeaveH2C
  <1>14. ASSUME SuspendUnload PROVE Mutex'
    BY <1>14 DEF SuspendUnload, Stop
  <1>15. ASSUME ResumeOpen PROVE Mutex'
    <2>1. cmd = "stopped" /\ cmd' \in {"idle", "stopped"} /\ UNCHANGED <<lock, wk>>
      BY <1>15 DEF ResumeOpen, Stages
    <2> QED BY <2>1
  <1>16. ASSUME NEW c \in Callers, Request(c) PROVE Mutex'
    BY <1>16 DEF Request, Goto
  <1>17. ASSUME NEW c \in Callers, WakeTimeout(c) PROVE Mutex'
    BY <1>17 DEF WakeTimeout, Goto, Stop
  <1>18. ASSUME NEW c \in Callers, WakeLeave(c) PROVE Mutex'
    BY <1>18 DEF WakeLeave, Goto, Stop, LeaveMode, Overlap, Linked
  <1>19. ASSUME NEW c \in Callers, WakeLeaveH2C(c) PROVE Mutex'
    BY <1>19 DEF WakeLeaveH2C, Goto, Stop, LeaveH2C, Overlap
  <1>20. ASSUME NEW c \in Callers, WakeArm(c) PROVE Mutex'
    BY <1>20 DEF WakeArm, Goto
  <1>21. ASSUME NEW c \in Callers, WakeWait(c) PROVE Mutex'
    BY <1>21 DEF WakeWait, Goto
  <1>22. ASSUME NEW c \in Callers, WakeSuspended(c) PROVE Mutex'
    BY <1>22 DEF WakeSuspended, Goto
  <1>23. ASSUME NEW c \in Callers, WakeDecide(c) PROVE Mutex'
    BY <1>23 DEF WakeDecide, Goto, Awake, Linked
  <1>24. ASSUME NEW c \in Callers, IpsLeave(c) PROVE Mutex'
    BY <1>24 DEF IpsLeave, Goto
  <1>25. ASSUME NEW c \in Callers, IpsPwrUp(c) PROVE Mutex'
    BY <1>25 DEF IpsPwrUp, Goto
  <1>26. ASSUME NEW c \in Callers, IpsLeft(c) PROVE Mutex'
    BY <1>26 DEF IpsLeft, Goto
  <1>27. ASSUME NEW c \in Callers, WakeFinal(c) PROVE Mutex'
    BY <1>27 DEF WakeFinal, Goto, Awake
  <1>28. ASSUME NEW c \in Callers, Use(c) PROVE Mutex'
    BY <1>28 DEF Use, Goto, Linked
  <1>29. ASSUME NEW c \in Callers, Release(c) PROVE Mutex'
    BY <1>29 DEF Release, Goto
  <1>30. ASSUME \/ TimerFires \/ ScanDone \/ LinkUp \/ LinkDown \/ DenyExpires \/ SuspendStart
               \/ SuspendWait \/ SuspendLeave \/ SuspendH2C \/ SuspendFree \/ ResumeEnd
               \/ UNCHANGED vars
        PROVE Mutex'
    <2>1. UNCHANGED <<cmd, lock, wk>>
      BY <1>30, Zenon DEF TimerFires, ScanDone, LinkUp, LinkDown, DenyExpires, SuspendStart,
         SuspendWait, SuspendLeave, SuspendH2C, SuspendFree, ResumeEnd, LeaveH2C, vars
    <2> QED BY <2>1
  <1> QED BY <1>1, <1>2, <1>3, <1>4, <1>5, <1>6, <1>7, <1>8, <1>9, <1>10, <1>11, <1>12, <1>13,
         <1>14, <1>15, <1>16, <1>17, <1>18, <1>19, <1>20, <1>21, <1>22, <1>23, <1>24, <1>25,
         <1>26, <1>27, <1>28, <1>29, <1>30,
         Zenon DEF Next, Processor, Leisure, Wakeup, Station, System

\* Reasons is kept: rtw_ps_deny comes first and rtw_ps_deny_cancel last in a request.
LEMMA ReasonsStep ==
  ASSUME Places, Sets, Flags, Reasons, [Next]_vars
  PROVE  Reasons'
  <1> USE CallersAssumption DEF Reasons, Places, Sets
  <1>1. ASSUME ScanDone PROVE Reasons'
    BY <1>1 DEF ScanDone, Stop
  <1>2. ASSUME DenyExpires PROVE Reasons'
    BY <1>2 DEF DenyExpires, Stop
  <1>3. ASSUME SuspendWait PROVE Reasons'
    BY <1>3 DEF SuspendWait, Stop
  <1>4. ASSUME SuspendFree PROVE Reasons'
    BY <1>4 DEF SuspendFree, Linked
  <1>5. ASSUME NEW c \in Callers, Request(c) PROVE Reasons'
    BY <1>5 DEF Request, Goto
  <1>6. ASSUME NEW c \in Callers, WakeTimeout(c) PROVE Reasons'
    BY <1>6 DEF WakeTimeout, Goto, Stop, dny
  <1>7. ASSUME NEW c \in Callers, WakeLeave(c) PROVE Reasons'
    BY <1>7 DEF WakeLeave, Goto, Stop, LeaveMode, Overlap, Linked, dny
  <1>8. ASSUME NEW c \in Callers, WakeLeaveH2C(c) PROVE Reasons'
    BY <1>8 DEF WakeLeaveH2C, Goto, Stop, LeaveH2C, Overlap, dny
  <1>9. ASSUME NEW c \in Callers, WakeArm(c) PROVE Reasons'
    BY <1>9 DEF WakeArm, Goto
  <1>10. ASSUME NEW c \in Callers, WakeWait(c) PROVE Reasons'
    BY <1>10 DEF WakeWait, Goto, dny
  <1>11. ASSUME NEW c \in Callers, WakeSuspended(c) PROVE Reasons'
    BY <1>11 DEF WakeSuspended, Goto
  <1>12. ASSUME NEW c \in Callers, WakeDecide(c) PROVE Reasons'
    BY <1>12 DEF WakeDecide, Goto, Awake, Linked
  <1>13. ASSUME NEW c \in Callers, IpsLeave(c) PROVE Reasons'
    BY <1>13 DEF IpsLeave, Goto, dny
  <1>14. ASSUME NEW c \in Callers, IpsPwrUp(c) PROVE Reasons'
    BY <1>14 DEF IpsPwrUp, Goto, dny
  <1>15. ASSUME NEW c \in Callers, IpsLeft(c) PROVE Reasons'
    BY <1>15 DEF IpsLeft, Goto
  <1>16. ASSUME NEW c \in Callers, WakeFinal(c) PROVE Reasons'
    BY <1>16 DEF WakeFinal, Goto, Awake
  <1>17. ASSUME NEW c \in Callers, Use(c) PROVE Reasons'
    BY <1>17 DEF Use, Goto, Linked, dny
  <1>18. ASSUME NEW c \in Callers, Release(c) PROVE Reasons'
    BY <1>18 DEF Release, Goto
  <1>19. ASSUME \/ TimerFires \/ PsDenied \/ PsSuspended \/ PsDenyTime \/ PsActivity \/ IpsEnter
               \/ IpsDown \/ IpsOff \/ PsExit \/ LpsEnter \/ LpsMode \/ LpsH2C \/ CmdLeave
               \/ CmdLeaveH2C \/ LinkUp \/ LinkDown \/ SuspendStart \/ SuspendLeave
               \/ SuspendH2C \/ SuspendUnload \/ ResumeOpen \/ ResumeEnd \/ UNCHANGED vars
        PROVE Reasons'
    <2>1. UNCHANGED <<deny, denyT, fresh, wk>>
      BY <1>19, Zenon DEF TimerFires, PsDenied, PsSuspended, PsDenyTime, PsActivity, IpsEnter,
         IpsDown, IpsOff, PsExit, LpsEnter, LpsMode, LpsH2C, CmdLeave, CmdLeaveH2C, LinkUp,
         LinkDown, SuspendStart, SuspendLeave, SuspendH2C, SuspendUnload, ResumeOpen, ResumeEnd,
         LeaveH2C, dny, vars
    <2> QED BY <2>1
  <1> QED BY <1>1, <1>2, <1>3, <1>4, <1>5, <1>6, <1>7, <1>8, <1>9, <1>10, <1>11, <1>12, <1>13,
         <1>14, <1>15, <1>16, <1>17, <1>18, <1>19,
         Zenon DEF Next, Processor, Leisure, Wakeup, Station, System

\* a caller that was told the device is awake, and has a reason to rely on it
Holds(c) == wk[c] = "awake" /\ (c \in deny \/ c \in fresh)

\* The caller's half of the handshake: from the moment it set the deny time until it is done, a
\* check that has not read ips_deny_time yet will find it set, or was refused by ps_deny before.
Announced ==
  \A c \in Callers :
    /\ wk[c] \in Past \cup {"wait"} => denyT \/ (c \in deny /\ cmd \notin {"susp", "check"})
    /\ Holds(c) => denyT \/ cmd \notin {"susp", "check"}
\* The other half: once a caller saw ps_processing down, no check is past its read of the deny
\* time.  Announced and Excluded together are the argument of two threads that each raise a flag
\* and then read the other's.
Excluded ==
  \A c \in Callers :
    wk[c] \in Past \/ Holds(c) => cmd \notin {"activity", "enter", "down", "off"}
\* a suspend that got past its wait for bips_processing leaves nobody inside a wakeup
Stayed ==
  \A c \in Callers : sus \notin {"run", "wait"} => wk[c] \notin Past \ {"susp"}
\* a station that does something is not being powered off
Awaited == act # {} => ~Falling

\* all of the above: it holds in every order of steps, the undefended ones included
Types == Flags /\ Sets /\ Places /\ Mutex /\ Stages /\ Reasons

\* Announced is kept: the deny time ends only by DenyExpires and ScanDone, and a step of theirs that
\* would break it is recorded as a race.
LEMMA AnnouncedStep ==
  ASSUME Types, Orderly', Announced, [Next]_vars
  PROVE  Announced'
  <1> USE CallersAssumption DEF Announced, Holds, Past, Types, Places, Orderly
  <1>1. ASSUME PsDenied PROVE Announced'
    <2>1. CASE deny = {}
      <3>1. \A c \in Callers : wk[c] \in Past \cup {"wait"} \/ Holds(c) => denyT
        BY <2>1 DEF Reasons
      <3> QED BY <1>1, <3>1 DEF PsDenied, dny
    <2>2. CASE deny # {}
      BY <1>1, <2>2 DEF PsDenied, dny
    <2> QED BY <2>1, <2>2
  <1>2. ASSUME PsSuspended PROVE Announced'
    BY <1>2 DEF PsSuspended, Stop, dny
  <1>3. ASSUME PsDenyTime PROVE Announced'
    BY <1>3 DEF PsDenyTime, dny
  <1>4. ASSUME PsActivity PROVE Announced'
    BY <1>4 DEF PsActivity, dny
  <1>5. ASSUME IpsEnter PROVE Announced'
    BY <1>5 DEF IpsEnter, dny
  <1>6. ASSUME IpsDown PROVE Announced'
    BY <1>6 DEF IpsDown, dny
  <1>7. ASSUME IpsOff PROVE Announced'
    BY <1>7 DEF IpsOff, dny
  <1>8. ASSUME PsExit PROVE Announced'
    BY <1>8 DEF PsExit, dny
  <1>9. ASSUME LpsEnter PROVE Announced'
    BY <1>9 DEF LpsEnter, PS_RDY_CHECK, Linked, dny
  <1>10. ASSUME LpsMode PROVE Announced'
    BY <1>10 DEF LpsMode, Stop, Overlap, Leaving, PS_RDY_CHECK, Linked, dny
  <1>11. ASSUME LpsH2C PROVE Announced'
    BY <1>11 DEF LpsH2C, Stop, Overlap, Leaving, dny
  <1>12. ASSUME CmdLeave PROVE Announced'
    BY <1>12 DEF CmdLeave, LeaveMode, Linked, dny
  <1>13. ASSUME CmdLeaveH2C PROVE Announced'
    BY <1>13 DEF CmdLeaveH2C, LeaveH2C, dny
  <1>14. ASSUME ScanDone PROVE Announced'
    <2>1. UNCHANGED <<wk, deny, cmd>>
      BY <1>14 DEF ScanDone
    <2>2. CASE UNCHANGED <<denyT, fresh>>
      BY <2>1, <2>2
    <2>3. CASE fresh' = {} /\ InFlight \ deny = {} /\ ~(cmd \in {"susp", "check"} /\ deny # {})
      BY <2>1, <2>3 DEF InFlight
    <2> QED BY <1>14, <2>2, <2>3 DEF ScanDone, Stop
  <1>15. ASSUME DenyExpires PROVE Announced'
    <2>1. UNCHANGED <<wk, deny, cmd>> /\ fresh' = {}
      BY <1>15 DEF DenyExpires
    <2>2. InFlight = {} /\ ~(cmd \in {"susp", "check"} /\ deny # {})
      BY <1>15 DEF DenyExpires, Stop
    <2> QED BY <2>1, <2>2 DEF InFlight
  <1>16. ASSUME SuspendWait PROVE Announced'
    BY <1>16 DEF SuspendWait, Stop
  <1>17. ASSUME SuspendFree PROVE Announced'
    BY <1>17 DEF SuspendFree, Linked
  <1>18. ASSUME SuspendUnload PROVE Announced'
    BY <1>18 DEF SuspendUnload, Stop, dny
  <1>19. ASSUME ResumeOpen PROVE Announced'
    BY <1>19 DEF ResumeOpen, dny
  <1>20. ASSUME NEW c \in Callers, Request(c) PROVE Announced'
    BY <1>20 DEF Request, Goto
  <1>21. ASSUME NEW c \in Callers, WakeTimeout(c) PROVE Announced'
    BY <1>21 DEF WakeTimeout, Goto, Stop, dny
  <1>22. ASSUME NEW c \in Callers, WakeLeave(c) PROVE Announced'
    BY <1>22 DEF WakeLeave, Goto, Stop, LeaveMode, Overlap, Linked, dny
  <1>23. ASSUME NEW c \in Callers, WakeLeaveH2C(c) PROVE Announced'
    BY <1>23 DEF WakeLeaveH2C, Goto, Stop, LeaveH2C, Overlap, dny
  <1>24. ASSUME NEW c \in Callers, WakeArm(c) PROVE Announced'
    BY <1>24 DEF WakeArm, Goto
  <1>25. ASSUME NEW c \in Callers, WakeWait(c) PROVE Announced'
    BY <1>25 DEF WakeWait, Goto, dny
  <1>26. ASSUME NEW c \in Callers, WakeSuspended(c) PROVE Announced'
    BY <1>26 DEF WakeSuspended, Goto
  <1>27. ASSUME NEW c \in Callers, WakeDecide(c) PROVE Announced'
    BY <1>27 DEF WakeDecide, Goto, Awake, Linked
  <1>28. ASSUME NEW c \in Callers, IpsLeave(c) PROVE Announced'
    BY <1>28 DEF IpsLeave, Goto, dny
  <1>29. ASSUME NEW c \in Callers, IpsPwrUp(c) PROVE Announced'
    BY <1>29 DEF IpsPwrUp, Goto, dny
  <1>30. ASSUME NEW c \in Callers, IpsLeft(c) PROVE Announced'
    BY <1>30 DEF IpsLeft, Goto
  <1>31. ASSUME NEW c \in Callers, WakeFinal(c) PROVE Announced'
    BY <1>31 DEF WakeFinal, Goto, Awake
  <1>32. ASSUME NEW c \in Callers, Use(c) PROVE Announced'
    BY <1>32 DEF Use, Goto, Linked, dny
  <1>33. ASSUME NEW c \in Callers, Release(c) PROVE Announced'
    BY <1>33 DEF Release, Goto
  <1>34. ASSUME \/ TimerFires \/ LinkUp \/ LinkDown \/ SuspendStart \/ SuspendLeave
               \/ SuspendH2C \/ ResumeEnd \/ UNCHANGED vars
        PROVE Announced'
    <2>1. UNCHANGED <<cmd, deny, denyT, fresh, wk>>
      BY <1>34, Zenon DEF TimerFires, LinkUp, LinkDown, SuspendStart, SuspendLeave, SuspendH2C,
         ResumeEnd, LeaveH2C, dny, vars
    <2> QED BY <2>1
  <1> QED BY <1>1, <1>2, <1>3, <1>4, <1>5, <1>6, <1>7, <1>8, <1>9, <1>10, <1>11, <1>12, <1>13,
         <1>14, <1>15, <1>16, <1>17, <1>18, <1>19, <1>20, <1>21, <1>22, <1>23, <1>24, <1>25,
         <1>26, <1>27, <1>28, <1>29, <1>30, <1>31, <1>32, <1>33, <1>34,
         Zenon DEF Next, Processor, Leisure, Wakeup, Station, System

\* Excluded is kept: the check reads the deny time in PsDenyTime, and by Announced finds it.
LEMMA ExcludedStep ==
  ASSUME Types, Announced, Orderly', Excluded, [Next]_vars
  PROVE  Excluded'
  <1> USE CallersAssumption DEF Excluded, Announced, Holds, Past, Types, Places, Stages, Orderly
  <1>1. ASSUME PsDenied PROVE Excluded'
    BY <1>1 DEF PsDenied, dny
  <1>2. ASSUME PsSuspended PROVE Excluded'
    BY <1>2 DEF PsSuspended, Stop, dny
  <1>3. ASSUME PsDenyTime PROVE Excluded'
    BY <1>3 DEF PsDenyTime, dny
  <1>4. ASSUME PsActivity PROVE Excluded'
    BY <1>4 DEF PsActivity, dny
  <1>5. ASSUME IpsEnter PROVE Excluded'
    BY <1>5 DEF IpsEnter, dny
  <1>6. ASSUME IpsDown PROVE Excluded'
    BY <1>6 DEF IpsDown, dny
  <1>7. ASSUME IpsOff PROVE Excluded'
    BY <1>7 DEF IpsOff, dny
  <1>8. ASSUME PsExit PROVE Excluded'
    BY <1>8 DEF PsExit, dny
  <1>9. ASSUME LpsEnter PROVE Excluded'
    BY <1>9 DEF LpsEnter, PS_RDY_CHECK, Linked, dny
  <1>10. ASSUME LpsMode PROVE Excluded'
    BY <1>10 DEF LpsMode, Stop, Overlap, Leaving, PS_RDY_CHECK, Linked, dny
  <1>11. ASSUME LpsH2C PROVE Excluded'
    BY <1>11 DEF LpsH2C, Stop, Overlap, Leaving, dny
  <1>12. ASSUME CmdLeave PROVE Excluded'
    BY <1>12 DEF CmdLeave, LeaveMode, Linked, dny
  <1>13. ASSUME CmdLeaveH2C PROVE Excluded'
    BY <1>13 DEF CmdLeaveH2C, LeaveH2C, dny
  <1>14. ASSUME ScanDone PROVE Excluded'
    BY <1>14 DEF ScanDone, Stop
  <1>15. ASSUME DenyExpires PROVE Excluded'
    BY <1>15 DEF DenyExpires, Stop
  <1>16. ASSUME SuspendWait PROVE Excluded'
    BY <1>16 DEF SuspendWait, Stop
  <1>17. ASSUME SuspendFree PROVE Excluded'
    BY <1>17 DEF SuspendFree, Linked
  <1>18. ASSUME SuspendUnload PROVE Excluded'
    BY <1>18 DEF SuspendUnload, Stop, dny
  <1>19. ASSUME ResumeOpen PROVE Excluded'
    BY <1>19 DEF ResumeOpen, dny
  <1>20. ASSUME NEW c \in Callers, Request(c) PROVE Excluded'
    BY <1>20 DEF Request, Goto
  <1>21. ASSUME NEW c \in Callers, WakeTimeout(c) PROVE Excluded'
    BY <1>21 DEF WakeTimeout, Goto, Stop, dny
  <1>22. ASSUME NEW c \in Callers, WakeLeave(c) PROVE Excluded'
    BY <1>22 DEF WakeLeave, Goto, Stop, LeaveMode, Overlap, Linked, dny
  <1>23. ASSUME NEW c \in Callers, WakeLeaveH2C(c) PROVE Excluded'
    BY <1>23 DEF WakeLeaveH2C, Goto, Stop, LeaveH2C, Overlap, dny
  <1>24. ASSUME NEW c \in Callers, WakeArm(c) PROVE Excluded'
    BY <1>24 DEF WakeArm, Goto
  <1>25. ASSUME NEW c \in Callers, WakeWait(c) PROVE Excluded'
    BY <1>25 DEF WakeWait, Goto, dny
  <1>26. ASSUME NEW c \in Callers, WakeSuspended(c) PROVE Excluded'
    BY <1>26 DEF WakeSuspended, Goto
  <1>27. ASSUME NEW c \in Callers, WakeDecide(c) PROVE Excluded'
    BY <1>27 DEF WakeDecide, Goto, Awake, Linked
  <1>28. ASSUME NEW c \in Callers, IpsLeave(c) PROVE Excluded'
    BY <1>28 DEF IpsLeave, Goto, dny
  <1>29. ASSUME NEW c \in Callers, IpsPwrUp(c) PROVE Excluded'
    BY <1>29 DEF IpsPwrUp, Goto, dny
  <1>30. ASSUME NEW c \in Callers, IpsLeft(c) PROVE Excluded'
    BY <1>30 DEF IpsLeft, Goto
  <1>31. ASSUME NEW c \in Callers, WakeFinal(c) PROVE Excluded'
    BY <1>31 DEF WakeFinal, Goto, Awake
  <1>32. ASSUME NEW c \in Callers, Use(c) PROVE Excluded'
    BY <1>32 DEF Use, Goto, Linked, dny
  <1>33. ASSUME NEW c \in Callers, Release(c) PROVE Excluded'
    BY <1>33 DEF Release, Goto
  <1>34. ASSUME \/ TimerFires \/ LinkUp \/ LinkDown \/ SuspendStart \/ SuspendLeave
               \/ SuspendH2C \/ ResumeEnd \/ UNCHANGED vars
        PROVE Excluded'
    <2>1. UNCHANGED <<cmd, deny, fresh, wk>>
      BY <1>34, Zenon DEF TimerFires, LinkUp, LinkDown, SuspendStart, SuspendLeave, SuspendH2C,
         ResumeEnd, LeaveH2C, dny, vars
    <2> QED BY <2>1
  <1> QED BY <1>1, <1>2, <1>3, <1>4, <1>5, <1>6, <1>7, <1>8, <1>9, <1>10, <1>11, <1>12, <1>13,
         <1>14, <1>15, <1>16, <1>17, <1>18, <1>19, <1>20, <1>21, <1>22, <1>23, <1>24, <1>25,
         <1>26, <1>27, <1>28, <1>29, <1>30, <1>31, <1>32, <1>33, <1>34,
         Zenon DEF Next, Processor, Leisure, Wakeup, Station, System

\* Stayed is kept: a wakeup that polls bInSuspend after SuspendStart fails.
LEMMA StayedStep ==
  ASSUME Types, Orderly', Stayed, [Next]_vars
  PROVE  Stayed'
  <1> USE CallersAssumption DEF Stayed, Past, Powering, Types, Places, Stages, Mutex, Orderly
  <1>1. ASSUME SuspendStart PROVE Stayed'
    BY <1>1 DEF SuspendStart
  <1>2. ASSUME SuspendWait PROVE Stayed'
    BY <1>2 DEF SuspendWait, Stop
  <1>3. ASSUME SuspendLeave PROVE Stayed'
    BY <1>3 DEF SuspendLeave, Stop, LeaveMode, Overlap, Linked
  <1>4. ASSUME SuspendH2C PROVE Stayed'
    BY <1>4 DEF SuspendH2C, Stop, LeaveH2C, Overlap
  <1>5. ASSUME SuspendFree PROVE Stayed'
    BY <1>5 DEF SuspendFree, Linked
  <1>6. ASSUME SuspendUnload PROVE Stayed'
    BY <1>6 DEF SuspendUnload, Stop
  <1>7. ASSUME ResumeOpen PROVE Stayed'
    BY <1>7 DEF ResumeOpen
  <1>8. ASSUME ResumeEnd PROVE Stayed'
    BY <1>8 DEF ResumeEnd
  <1>9. ASSUME NEW c \in Callers, Request(c) PROVE Stayed'
    BY <1>9 DEF Request, Goto
  <1>10. ASSUME NEW c \in Callers, WakeTimeout(c) PROVE Stayed'
    BY <1>10 DEF WakeTimeout, Goto, Stop
  <1>11. ASSUME NEW c \in Callers, WakeLeave(c) PROVE Stayed'
    BY <1>11 DEF WakeLeave, Goto, Stop, LeaveMode, Overlap, Linked
  <1>12. ASSUME NEW c \in Callers, WakeLeaveH2C(c) PROVE Stayed'
    BY <1>12 DEF WakeLeaveH2C, Goto, Stop, LeaveH2C, Overlap
  <1>13. ASSUME NEW c \in Callers, WakeArm(c) PROVE Stayed'
    BY <1>13 DEF WakeArm, Goto
  <1>14. ASSUME NEW c \in Callers, WakeWait(c) PROVE Stayed'
    BY <1>14 DEF WakeWait, Goto
  <1>15. ASSUME NEW c \in Callers, WakeSuspended(c) PROVE Stayed'
    <2>1. CASE susp
      BY <1>15, <2>1 DEF WakeSuspended, Goto
    <2>2. CASE ~susp
      <3>1. sus = "run" /\ sus' = sus
        BY <1>15, <2>2, Zenon DEF WakeSuspended
      <3> QED BY <3>1
    <2> QED BY <2>1, <2>2
  <1>16. ASSUME NEW c \in Callers, WakeDecide(c) PROVE Stayed'
    BY <1>16 DEF WakeDecide, Goto, Awake, Linked
  <1>17. ASSUME NEW c \in Callers, IpsLeave(c) PROVE Stayed'
    BY <1>17 DEF IpsLeave, Goto
  <1>18. ASSUME NEW c \in Callers, IpsPwrUp(c) PROVE Stayed'
    BY <1>18 DEF IpsPwrUp, Goto
  <1>19. ASSUME NEW c \in Callers, IpsLeft(c) PROVE Stayed'
    BY <1>19 DEF IpsLeft, Goto
  <1>20. ASSUME NEW c \in Callers, WakeFinal(c) PROVE Stayed'
    BY <1>20 DEF WakeFinal, Goto, Awake
  <1>21. ASSUME NEW c \in Callers, Use(c) PROVE Stayed'
    BY <1>21 DEF Use, Goto, Linked
  <1>22. ASSUME NEW c \in Callers, Release(c) PROVE Stayed'
    BY <1>22 DEF Release, Goto
  <1>23. ASSUME \/ TimerFires \/ PsDenied \/ PsSuspended \/ PsDenyTime \/ PsActivity \/ IpsEnter
               \/ IpsDown \/ IpsOff \/ PsExit \/ LpsEnter \/ LpsMode \/ LpsH2C \/ CmdLeave
               \/ CmdLeaveH2C \/ ScanDone \/ LinkUp \/ LinkDown \/ DenyExpires \/ UNCHANGED vars
        PROVE Stayed'
    <2>1. UNCHANGED <<sus, wk>>
      BY <1>23, Zenon DEF TimerFires, PsDenied, PsSuspended, PsDenyTime, PsActivity, IpsEnter,
         IpsDown, IpsOff, PsExit, LpsEnter, LpsMode, LpsH2C, CmdLeave, CmdLeaveH2C, ScanDone,
         LinkUp, LinkDown, DenyExpires, LeaveH2C, vars
    <2> QED BY <2>1
  <1> QED BY <1>1, <1>2, <1>3, <1>4, <1>5, <1>6, <1>7, <1>8, <1>9, <1>10, <1>11, <1>12, <1>13,
         <1>14, <1>15, <1>16, <1>17, <1>18, <1>19, <1>20, <1>21, <1>22, <1>23,
         Zenon DEF Next, Processor, Leisure, Wakeup, Station, System

\* Awaited is kept: the check looks at the activity last, and by Excluded nobody who could start
\* something gets in between.
LEMMA AwaitedStep ==
  ASSUME Types, Excluded, Orderly', Awaited, [Next]_vars
  PROVE  Awaited'
  <1> USE CallersAssumption DEF Awaited, Falling, Types, Places, Reasons, Excluded, Holds, Orderly
  <1>1. ASSUME PsDenied PROVE Awaited'
    BY <1>1 DEF PsDenied
  <1>2. ASSUME PsSuspended PROVE Awaited'
    BY <1>2 DEF PsSuspended, Stop
  <1>3. ASSUME PsDenyTime PROVE Awaited'
    BY <1>3 DEF PsDenyTime
  <1>4. ASSUME PsActivity PROVE Awaited'
    BY <1>4 DEF PsActivity
  <1>5. ASSUME IpsEnter PROVE Awaited'
    BY <1>5 DEF IpsEnter
  <1>6. ASSUME IpsDown PROVE Awaited'
    BY <1>6 DEF IpsDown
  <1>7. ASSUME IpsOff PROVE Awaited'
    BY <1>7 DEF IpsOff
  <1>8. ASSUME PsExit PROVE Awaited'
    BY <1>8 DEF PsExit
  <1>9. ASSUME LpsEnter PROVE Awaited'
    BY <1>9 DEF LpsEnter, PS_RDY_CHECK, Linked
  <1>10. ASSUME LpsMode PROVE Awaited'
    BY <1>10 DEF LpsMode, Stop, Overlap, Leaving, PS_RDY_CHECK, Linked
  <1>11. ASSUME LpsH2C PROVE Awaited'
    BY <1>11 DEF LpsH2C, Stop, Overlap, Leaving
  <1>12. ASSUME CmdLeave PROVE Awaited'
    BY <1>12 DEF CmdLeave, LeaveMode, Linked
  <1>13. ASSUME CmdLeaveH2C PROVE Awaited'
    BY <1>13 DEF CmdLeaveH2C, LeaveH2C
  <1>14. ASSUME ScanDone PROVE Awaited'
    BY <1>14 DEF ScanDone, Stop
  <1>15. ASSUME LinkUp PROVE Awaited'
    BY <1>15 DEF LinkUp
  <1>16. ASSUME LinkDown PROVE Awaited'
    BY <1>16 DEF LinkDown, Linked
  <1>17. ASSUME SuspendFree PROVE Awaited'
    BY <1>17 DEF SuspendFree, Linked
  <1>18. ASSUME SuspendUnload PROVE Awaited'
    BY <1>18 DEF SuspendUnload, Stop
  <1>19. ASSUME ResumeOpen PROVE Awaited'
    BY <1>19 DEF ResumeOpen
  <1>20. ASSUME NEW c \in Callers, IpsPwrUp(c) PROVE Awaited'
    BY <1>20 DEF IpsPwrUp, Goto
  <1>21. ASSUME NEW c \in Callers, Use(c) PROVE Awaited'
    BY <1>21 DEF Use, Goto, Linked
  <1>22. ASSUME \/ TimerFires \/ DenyExpires \/ SuspendStart \/ SuspendWait \/ SuspendLeave
               \/ SuspendH2C \/ ResumeEnd \/ UNCHANGED vars
               \/ \E c \in Callers : Request(c) \/ WakeTimeout(c) \/ WakeLeave(c)
                      \/ WakeLeaveH2C(c) \/ WakeArm(c) \/ WakeWait(c) \/ WakeSuspended(c)
                      \/ WakeDecide(c) \/ IpsLeave(c) \/ IpsLeft(c) \/ WakeFinal(c)
                      \/ Release(c)
        PROVE Awaited'
    <2>1. UNCHANGED <<act, cmd>>
      BY <1>22, Zenon DEF TimerFires, DenyExpires, SuspendStart, SuspendWait, SuspendLeave,
         SuspendH2C, ResumeEnd, Request, WakeTimeout, WakeLeave, WakeLeaveH2C, WakeArm, WakeWait,
         WakeSuspended, WakeDecide, IpsLeave, IpsLeft, WakeFinal, Release, Awake, Goto, LeaveH2C,
         vars
    <2> QED BY <2>1
  <1> QED BY <1>1, <1>2, <1>3, <1>4, <1>5, <1>6, <1>7, <1>8, <1>9, <1>10, <1>11, <1>12, <1>13,
         <1>14, <1>15, <1>16, <1>17, <1>18, <1>19, <1>20, <1>21, <1>22,
         Zenon DEF Next, Processor, Leisure, Wakeup, Station, System

\* bips_processing is the mutex seen from outside: raised exactly while somebody holds it
Busy == ipsP = (lock # "none")
\* rf_pwrstate and hw_init_completed differ only under the mutex, in the way its holder's place
\* says; an unloaded device is recorded as on
Switched ==
  /\ lock = "none" /\ up => rf = hw
  /\ cmd = "off" => ~hw
  /\ ~up => rf
  /\ \A c \in Callers :
       /\ wk[c] \in Powering => ~rf
       /\ wk[c] = "on" => hw
       /\ wk[c] = "upfail" => ~hw
\* a device somebody uses is on, and one that is about to be called awake is
Used ==
  up => /\ act # {} => rf /\ hw
        /\ \A c \in Callers : wk[c] = "final" \/ Holds(c) => rf /\ hw

\* Busy is kept by every step.
LEMMA BusyStep ==
  ASSUME Types, Orderly', Stayed, Busy, [Next]_vars
  PROVE  Busy'
  <1> USE CallersAssumption DEF Busy, Types, Places, Mutex, Orderly
  <1>1. ASSUME IpsEnter PROVE Busy'
    BY <1>1 DEF IpsEnter
  <1>2. ASSUME IpsOff PROVE Busy'
    BY <1>2 DEF IpsOff
  <1>3. ASSUME ResumeOpen PROVE Busy'
    <2>1. sus = "down" /\ lock' = lock /\ (ipsP' = FALSE \/ ipsP' = ipsP)
      BY <1>3, Zenon DEF ResumeOpen
    <2>2. lock = "none"
      <3>1. cmd = "stopped" /\ \A c \in Callers : wk[c] \notin Powering
        BY <2>1 DEF Stages, Stayed, Past, Powering
      <3> QED BY <3>1
    <2> QED BY <2>1, <2>2
  <1>4. ASSUME NEW c \in Callers, IpsLeave(c) PROVE Busy'
    BY <1>4 DEF IpsLeave, Goto
  <1>5. ASSUME NEW c \in Callers, IpsLeft(c) PROVE Busy'
    BY <1>5 DEF IpsLeft, Goto
  <1>6. ASSUME \/ TimerFires \/ PsDenied \/ PsSuspended \/ PsDenyTime \/ PsActivity \/ IpsDown
               \/ PsExit \/ LpsEnter \/ LpsMode \/ LpsH2C \/ CmdLeave \/ CmdLeaveH2C \/ ScanDone
               \/ LinkUp \/ LinkDown \/ DenyExpires \/ SuspendStart \/ SuspendWait
               \/ SuspendLeave \/ SuspendH2C \/ SuspendFree \/ SuspendUnload \/ ResumeEnd
               \/ UNCHANGED vars
               \/ \E c \in Callers : Request(c) \/ WakeTimeout(c) \/ WakeLeave(c)
                      \/ WakeLeaveH2C(c) \/ WakeArm(c) \/ WakeWait(c) \/ WakeSuspended(c)
                      \/ WakeDecide(c) \/ IpsPwrUp(c) \/ WakeFinal(c) \/ Use(c) \/ Release(c)
        PROVE Busy'
    <2>1. UNCHANGED <<ipsP, lock>>
      BY <1>6, Zenon DEF TimerFires, PsDenied, PsSuspended, PsDenyTime, PsActivity, IpsDown,
         PsExit, LpsEnter, LpsMode, LpsH2C, CmdLeave, CmdLeaveH2C, ScanDone, LinkUp, LinkDown,
         DenyExpires, SuspendStart, SuspendWait, SuspendLeave, SuspendH2C, SuspendFree,
         SuspendUnload, ResumeEnd, Request, WakeTimeout, WakeLeave, WakeLeaveH2C, WakeArm,
         WakeWait, WakeSuspended, WakeDecide, IpsPwrUp, WakeFinal, Use, Release, Awake, Goto,
         LeaveH2C, pwr, vars
    <2> QED BY <2>1
  <1> QED BY <1>1, <1>2, <1>3, <1>4, <1>5, <1>6,
         Zenon DEF Next, Processor, Leisure, Wakeup, Station, System

\* Switched is kept: power goes down in the order HAL, then record, and comes up in the same one.
LEMMA SwitchedStep ==
  ASSUME Types, Orderly', Excluded, Stayed, Switched, Awaited, [Next]_vars
  PROVE  Switched'
  <1> USE CallersAssumption DEF Switched, Types, Flags, DeviceFlags, Places, Mutex, Powering,
         Stages, Orderly
  <1>1. ASSUME PsDenied PROVE Switched'
    BY <1>1 DEF PsDenied, pwr
  <1>2. ASSUME PsSuspended PROVE Switched'
    BY <1>2 DEF PsSuspended, Stop, pwr
  <1>3. ASSUME PsDenyTime PROVE Switched'
    BY <1>3 DEF PsDenyTime, pwr
  <1>4. ASSUME PsActivity PROVE Switched'
    BY <1>4 DEF PsActivity
  <1>5. ASSUME IpsEnter PROVE Switched'
    BY <1>5 DEF IpsEnter
  <1>6. ASSUME IpsDown PROVE Switched'
    BY <1>6 DEF IpsDown
  <1>7. ASSUME IpsOff PROVE Switched'
    BY <1>7 DEF IpsOff
  <1>8. ASSUME PsExit PROVE Switched'
    BY <1>8 DEF PsExit, pwr
  <1>9. ASSUME LpsEnter PROVE Switched'
    BY <1>9 DEF LpsEnter, PS_RDY_CHECK, Linked
  <1>10. ASSUME LpsMode PROVE Switched'
    BY <1>10 DEF LpsMode, Stop, Overlap, Leaving, PS_RDY_CHECK, Linked, pwr
  <1>11. ASSUME LpsH2C PROVE Switched'
    BY <1>11 DEF LpsH2C, Stop, Overlap, Leaving, pwr
  <1>12. ASSUME CmdLeave PROVE Switched'
    BY <1>12 DEF CmdLeave, LeaveMode, Linked
  <1>13. ASSUME CmdLeaveH2C PROVE Switched'
    BY <1>13 DEF CmdLeaveH2C, LeaveH2C
  <1>14. ASSUME SuspendUnload PROVE Switched'
    BY <1>14 DEF SuspendUnload, Stop
  <1>15. ASSUME ResumeOpen PROVE Switched'
    BY <1>15 DEF ResumeOpen
  <1>16. ASSUME NEW c \in Callers, Request(c) PROVE Switched'
    BY <1>16 DEF Request, Goto, pwr
  <1>17. ASSUME NEW c \in Callers, WakeTimeout(c) PROVE Switched'
    BY <1>17 DEF WakeTimeout, Goto, Stop, pwr
  <1>18. ASSUME NEW c \in Callers, WakeLeave(c) PROVE Switched'
    BY <1>18 DEF WakeLeave, Goto, Stop, LeaveMode, Overlap, Linked
  <1>19. ASSUME NEW c \in Callers, WakeLeaveH2C(c) PROVE Switched'
    BY <1>19 DEF WakeLeaveH2C, Goto, Stop, LeaveH2C, Overlap
  <1>20. ASSUME NEW c \in Callers, WakeArm(c) PROVE Switched'
    BY <1>20 DEF WakeArm, Goto, pwr
  <1>21. ASSUME NEW c \in Callers, WakeWait(c) PROVE Switched'
    BY <1>21 DEF WakeWait, Goto, pwr
  <1>22. ASSUME NEW c \in Callers, WakeSuspended(c) PROVE Switched'
    BY <1>22 DEF WakeSuspended, Goto, pwr
  <1>23. ASSUME NEW c \in Callers, WakeDecide(c) PROVE Switched'
    BY <1>23 DEF WakeDecide, Goto, Awake, Linked, pwr
  <1>24. ASSUME NEW c \in Callers, IpsLeave(c) PROVE Switched'
    BY <1>24 DEF IpsLeave, Goto
  <1>25. ASSUME NEW c \in Callers, IpsPwrUp(c) PROVE Switched'
    BY <1>25 DEF IpsPwrUp, Goto
  <1>26. ASSUME NEW c \in Callers, IpsLeft(c) PROVE Switched'
    BY <1>26 DEF IpsLeft, Goto
  <1>27. ASSUME NEW c \in Callers, WakeFinal(c) PROVE Switched'
    BY <1>27 DEF WakeFinal, Goto, Awake, pwr
  <1>28. ASSUME NEW c \in Callers, Use(c) PROVE Switched'
    BY <1>28 DEF Use, Goto, Linked, pwr
  <1>29. ASSUME NEW c \in Callers, Release(c) PROVE Switched'
    BY <1>29 DEF Release, Goto, pwr
  <1>30. ASSUME \/ TimerFires \/ ScanDone \/ LinkUp \/ LinkDown \/ DenyExpires \/ SuspendStart
               \/ SuspendWait \/ SuspendLeave \/ SuspendH2C \/ SuspendFree \/ ResumeEnd
               \/ UNCHANGED vars
        PROVE Switched'
    <2>1. UNCHANGED <<cmd, hw, lock, rf, up, wk>>
      BY <1>30, Zenon DEF TimerFires, ScanDone, LinkUp, LinkDown, DenyExpires, SuspendStart,
         SuspendWait, SuspendLeave, SuspendH2C, SuspendFree, ResumeEnd, LeaveH2C, pwr, vars
    <2> QED BY <2>1
  <1> QED BY <1>1, <1>2, <1>3, <1>4, <1>5, <1>6, <1>7, <1>8, <1>9, <1>10, <1>11, <1>12, <1>13,
         <1>14, <1>15, <1>16, <1>17, <1>18, <1>19, <1>20, <1>21, <1>22, <1>23, <1>24, <1>25,
         <1>26, <1>27, <1>28, <1>29, <1>30,
         Zenon DEF Next, Processor, Leisure, Wakeup, Station, System

\* Used is kept: a power-down finds nobody who relies on the device, a wakeup calls the device awake
\* only after it found it on or has powered it up.
LEMMA UsedStep ==
  ASSUME Types, Orderly', Excluded, Stayed, Busy, Switched, Used, Awaited, [Next]_vars
  PROVE  Used'
  <1> USE CallersAssumption DEF Used, Holds, Types, Flags, DeviceFlags, Places, Mutex, Powering,
         Stages, Orderly
  <1>1. ASSUME IpsDown PROVE Used'
    <2>1. act = {} /\ \A c \in Callers : ~(wk[c] = "final" \/ Holds(c))
      BY <1>1 DEF IpsDown, Awaited, Falling, Excluded, Past
    <2>2. UNCHANGED <<act, wk, deny, fresh>>
      BY <1>1 DEF IpsDown, dny
    <2> QED BY <2>1, <2>2
  <1>2. ASSUME IpsOff PROVE Used'
    <2>1. act = {} /\ \A c \in Callers : ~(wk[c] = "final" \/ Holds(c))
      BY <1>2 DEF IpsOff, Awaited, Falling, Excluded, Past
    <2>2. UNCHANGED <<act, wk, deny, fresh>>
      BY <1>2 DEF IpsOff, dny
    <2> QED BY <2>1, <2>2
  <1>3. ASSUME ScanDone PROVE Used'
    BY <1>3 DEF ScanDone, Stop, pwr
  <1>4. ASSUME LinkUp PROVE Used'
    BY <1>4 DEF LinkUp, pwr, dny
  <1>5. ASSUME LinkDown PROVE Used'
    BY <1>5 DEF LinkDown, Linked, pwr, dny
  <1>6. ASSUME DenyExpires PROVE Used'
    BY <1>6 DEF DenyExpires, Stop, pwr
  <1>7. ASSUME SuspendWait PROVE Used'
    BY <1>7 DEF SuspendWait, Stop, pwr
  <1>8. ASSUME SuspendFree PROVE Used'
    BY <1>8 DEF SuspendFree, Linked, pwr
  <1>9. ASSUME SuspendUnload PROVE Used'
    BY <1>9 DEF SuspendUnload, Stop, dny
  <1>10. ASSUME ResumeOpen PROVE Used'
    <2>1. rf' /\ (hw' \/ ~up')
      BY <1>10, Zenon DEF ResumeOpen, Switched
    <2> QED BY <2>1, Zenon
  <1>11. ASSUME NEW c \in Callers, Request(c) PROVE Used'
    BY <1>11 DEF Request, Goto, pwr
  <1>12. ASSUME NEW c \in Callers, WakeTimeout(c) PROVE Used'
    BY <1>12 DEF WakeTimeout, Goto, Stop, pwr, dny
  <1>13. ASSUME NEW c \in Callers, WakeLeave(c) PROVE Used'
    BY <1>13 DEF WakeLeave, Goto, Stop, LeaveMode, Overlap, Linked, dny
  <1>14. ASSUME NEW c \in Callers, WakeLeaveH2C(c) PROVE Used'
    BY <1>14 DEF WakeLeaveH2C, Goto, Stop, LeaveH2C, Overlap, dny
  <1>15. ASSUME NEW c \in Callers, WakeArm(c) PROVE Used'
    BY <1>15 DEF WakeArm, Goto, pwr
  <1>16. ASSUME NEW c \in Callers, WakeWait(c) PROVE Used'
    BY <1>16 DEF WakeWait, Goto, pwr, dny
  <1>17. ASSUME NEW c \in Callers, WakeSuspended(c) PROVE Used'
    BY <1>17 DEF WakeSuspended, Goto, pwr
  <1>18. ASSUME NEW c \in Callers, WakeDecide(c) PROVE Used'
    <2>1. wk[c] = "decide" /\ UNCHANGED <<up, act, rf, hw, deny>>
      BY <1>18 DEF WakeDecide, pwr
    <2>2. ASSUME up, Linked \/ rf PROVE rf /\ hw
      <3>1. CASE Linked
        BY <2>2, <3>1, Zenon DEF Linked
      <3>2. CASE rf
        <4>1. lock = "none"
          BY <2>1, <3>2 DEF Excluded, Past, Switched
        <4> QED BY <2>2, <3>2, <4>1, Zenon DEF Switched
      <3> QED BY <2>2, <3>1, <3>2
    <2>3. \A d \in Callers \ {c} : wk'[d] = wk[d] /\ (d \in fresh' => d \in fresh)
      BY <1>18 DEF WakeDecide, Goto, Awake
    <2>4. CASE Linked \/ rf
      BY <2>1, <2>2, <2>3, <2>4, Zenon
    <2>5. CASE ~Linked /\ ~rf
      <3>1. wk'[c] = "ips" /\ fresh' = fresh
        BY <1>18, <2>5 DEF WakeDecide, Goto
      <3> QED BY <2>1, <2>3, <3>1
    <2> QED BY <2>4, <2>5
  <1>19. ASSUME NEW c \in Callers, IpsLeave(c) PROVE Used'
    <2>1. /\ lock = "none" /\ UNCHANGED <<up, act, rf, hw, deny, fresh>>
          /\ \A d \in Callers \ {c} : wk'[d] = wk[d]
      BY <1>19 DEF IpsLeave, Goto, dny
    <2>2. ~ipsP
      BY <2>1 DEF Busy
    <2>3. CASE rf
      BY <2>1, <2>3, Zenon DEF Switched
    <2>4. CASE ~rf
      <3>1. wk'[c] = "up"
        BY <1>19, <2>2, <2>4 DEF IpsLeave, Goto
      <3> QED BY <2>1, <3>1
    <2> QED BY <2>3, <2>4
  <1>20. ASSUME NEW c \in Callers, IpsPwrUp(c) PROVE Used'
    <2>1. /\ ~rf /\ up
      BY <1>20 DEF IpsPwrUp, Switched
    <2>2. act = {} /\ \A d \in Callers : ~(wk[d] = "final" \/ Holds(d))
      BY <2>1, Zenon
    <2>3. /\ act' = {} /\ wk'[c] \in {"on", "upfail"} /\ \A d \in Callers \ {c} : wk'[d] = wk[d]
          /\ UNCHANGED <<deny, fresh>>
      BY <1>20, <2>2 DEF IpsPwrUp, Goto, dny
    <2> QED BY <2>2, <2>3
  <1>21. ASSUME NEW c \in Callers, IpsLeft(c) PROVE Used'
    <2>1. /\ ~rf /\ up
      BY <1>21 DEF IpsLeft, Switched
    <2>2. act = {} /\ \A d \in Callers : ~(wk[d] = "final" \/ Holds(d))
      BY <2>1, Zenon
    <2>3. /\ act' = {} /\ \A d \in Callers \ {c} : wk'[d] = wk[d]
          /\ UNCHANGED <<deny, fresh, hw>>
      BY <1>21, <2>2 DEF IpsLeft, Goto
    <2>4. CASE wk[c] = "on"
      <3>1. rf' = (wk[c] = "on") /\ hw' = hw
        BY <1>21, Zenon DEF IpsLeft
      <3>2. rf' /\ hw'
        BY <2>4, <3>1 DEF Switched
      <3> QED BY <3>2, Zenon
    <2>5. CASE wk[c] = "upfail"
      <3>1. wk'[c] = "done"
        BY <1>21, <2>5 DEF IpsLeft, Goto
      <3> QED BY <2>2, <2>3, <3>1
    <2> QED BY <1>21, <2>4, <2>5 DEF IpsLeft
  <1>22. ASSUME NEW c \in Callers, WakeFinal(c) PROVE Used'
    BY <1>22 DEF WakeFinal, Goto, Awake, pwr
  <1>23. ASSUME NEW c \in Callers, Use(c) PROVE Used'
    <2>1. /\ wk[c] = "awake" /\ wk'[c] = "done" /\ \A d \in Callers \ {c} : wk'[d] = wk[d]
          /\ UNCHANGED <<up, rf, hw, deny, fresh>>
      BY <1>23 DEF Use, Goto, pwr, dny
    <2>2. act' = act \/ c \in Denying
      BY <1>23 DEF Use
    <2>3. c \in Denying => Holds(c)
      BY <2>1 DEF Reasons
    <2> QED BY <2>1, <2>2, <2>3
  <1>24. ASSUME NEW c \in Callers, Release(c) PROVE Used'
    BY <1>24 DEF Release, Goto, pwr
  <1>25. ASSUME \/ TimerFires \/ PsDenied \/ PsSuspended \/ PsDenyTime \/ PsActivity \/ IpsEnter
               \/ PsExit \/ LpsEnter \/ LpsMode \/ LpsH2C \/ CmdLeave \/ CmdLeaveH2C
               \/ SuspendStart \/ SuspendLeave \/ SuspendH2C \/ ResumeEnd \/ UNCHANGED vars
        PROVE Used'
    <2>1. UNCHANGED <<act, deny, fresh, hw, rf, up, wk>>
      BY <1>25, Zenon DEF TimerFires, PsDenied, PsSuspended, PsDenyTime, PsActivity, IpsEnter,
         PsExit, LpsEnter, LpsMode, LpsH2C, CmdLeave, CmdLeaveH2C, SuspendStart, SuspendLeave,
         SuspendH2C, ResumeEnd, LeaveH2C, pwr, dny, vars
    <2> QED BY <2>1
  <1> QED BY <1>1, <1>2, <1>3, <1>4, <1>5, <1>6, <1>7, <1>8, <1>9, <1>10, <1>11, <1>12, <1>13,
         <1>14, <1>15, <1>16, <1>17, <1>18, <1>19, <1>20, <1>21, <1>22, <1>23, <1>24, <1>25,
         Zenon DEF Next, Processor, Leisure, Wakeup, Station, System

\* a thread has recorded the active mode and not told the firmware yet
Telling == cmd = "leaveh2c" \/ sus = "h2c" \/ \E c \in Callers : wk[c] = "h2c"
\* pwr_mode and the firmware differ only while a thread is between recording and telling
Told ==
  /\ cmd # "lpsh2c" /\ ~Telling => fwps = ~mode
  /\ Telling => mode
  /\ cmd = "lpsh2c" => ~mode
\* a mode other than active has bpower_saving raised, which keeps the check from powering off a
\* device whose firmware dozes: IPS and LPS exclude each other by that one flag
Saved ==
  /\ ~mode \/ cmd = "lpsmode" => saving
  /\ cmd \in {"lpsmode", "lpsh2c"} => rf
  /\ ~rf \/ cmd \in {"activity", "enter", "down", "off"} => mode

\* Saved is kept by every step.
LEMMA SavedStep ==
  ASSUME Types, Orderly', Switched, Used, Told, Saved, [Next]_vars
  PROVE  Saved'
  <1> USE CallersAssumption DEF Saved, Types, Flags, DeviceFlags, DozeFlags, Places, Orderly
  <1>1. ASSUME PsDenied PROVE Saved'
    BY <1>1 DEF PsDenied, pwr, lps
  <1>2. ASSUME PsSuspended PROVE Saved'
    BY <1>2 DEF PsSuspended, Stop, pwr, lps
  <1>3. ASSUME PsDenyTime PROVE Saved'
    BY <1>3 DEF PsDenyTime, pwr, lps
  <1>4. ASSUME PsActivity PROVE Saved'
    BY <1>4 DEF PsActivity, lps
  <1>5. ASSUME IpsEnter PROVE Saved'
    BY <1>5 DEF IpsEnter, lps
  <1>6. ASSUME IpsDown PROVE Saved'
    BY <1>6 DEF IpsDown
  <1>7. ASSUME IpsOff PROVE Saved'
    BY <1>7 DEF IpsOff, lps
  <1>8. ASSUME PsExit PROVE Saved'
    BY <1>8 DEF PsExit, pwr, lps
  <1>9. ASSUME LpsEnter PROVE Saved'
    <2>1. rf
      BY <1>9 DEF LpsEnter, Linked, Used, Stages
    <2> QED BY <1>9, <2>1 DEF LpsEnter
  <1>10. ASSUME LpsMode PROVE Saved'
    BY <1>10 DEF LpsMode, Stop, Overlap, Leaving, PS_RDY_CHECK, Linked, pwr
  <1>11. ASSUME LpsH2C PROVE Saved'
    BY <1>11 DEF LpsH2C, Stop, Overlap, Leaving, pwr
  <1>12. ASSUME CmdLeave PROVE Saved'
    BY <1>12 DEF CmdLeave, LeaveMode, Linked
  <1>13. ASSUME CmdLeaveH2C PROVE Saved'
    <2>1. mode
      BY <1>13 DEF CmdLeaveH2C, Told, Telling
    <2> QED BY <1>13, <2>1 DEF CmdLeaveH2C, LeaveH2C
  <1>14. ASSUME SuspendLeave PROVE Saved'
    BY <1>14 DEF SuspendLeave, Stop, LeaveMode, Overlap, Linked
  <1>15. ASSUME SuspendH2C PROVE Saved'
    <2>1. mode
      BY <1>15 DEF SuspendH2C, Told, Telling
    <2> QED BY <1>15, <2>1 DEF SuspendH2C, Stop, LeaveH2C, Overlap
  <1>16. ASSUME SuspendUnload PROVE Saved'
    BY <1>16 DEF SuspendUnload, Stop
  <1>17. ASSUME ResumeOpen PROVE Saved'
    BY <1>17 DEF ResumeOpen, lps
  <1>18. ASSUME NEW c \in Callers, WakeLeave(c) PROVE Saved'
    BY <1>18 DEF WakeLeave, Goto, Stop, LeaveMode, Overlap, Linked
  <1>19. ASSUME NEW c \in Callers, WakeLeaveH2C(c) PROVE Saved'
    <2>1. mode
      BY <1>19 DEF WakeLeaveH2C, Told, Telling
    <2> QED BY <1>19, <2>1 DEF WakeLeaveH2C, Stop, LeaveH2C, Overlap
  <1>20. ASSUME NEW c \in Callers, IpsLeft(c) PROVE Saved'
    <2>1. ~rf
      BY <1>20 DEF IpsLeft, Switched, Powering
    <2>2. mode /\ cmd \notin {"lpsmode", "lpsh2c"} /\ UNCHANGED <<mode, cmd>>
      BY <1>20, <2>1 DEF IpsLeft, lps
    <2> QED BY <2>2
  <1>21. ASSUME \/ TimerFires \/ ScanDone \/ LinkUp \/ LinkDown \/ DenyExpires \/ SuspendStart
               \/ SuspendWait \/ SuspendFree \/ ResumeEnd \/ UNCHANGED vars
               \/ \E c \in Callers : Request(c) \/ WakeTimeout(c) \/ WakeArm(c)
                      \/ WakeWait(c) \/ WakeSuspended(c) \/ WakeDecide(c) \/ IpsLeave(c)
                      \/ IpsPwrUp(c) \/ WakeFinal(c) \/ Use(c) \/ Release(c)
        PROVE Saved'
    <2>1. UNCHANGED <<cmd, mode, rf, saving>>
      BY <1>21, Zenon DEF TimerFires, ScanDone, LinkUp, LinkDown, DenyExpires, SuspendStart,
         SuspendWait, SuspendFree, ResumeEnd, Request, WakeTimeout, WakeArm, WakeWait,
         WakeSuspended, WakeDecide, IpsLeave, IpsPwrUp, WakeFinal, Use, Release, Awake, Goto,
         pwr, lps, vars
    <2> QED BY <2>1
  <1> QED BY <1>1, <1>2, <1>3, <1>4, <1>5, <1>6, <1>7, <1>8, <1>9, <1>10, <1>11, <1>12, <1>13,
         <1>14, <1>15, <1>16, <1>17, <1>18, <1>19, <1>20, <1>21,
         Zenon DEF Next, Processor, Leisure, Wakeup, Station, System

\* Told is kept: LPS_Enter and LPS_Leave of two threads overlap only in recorded races.
LEMMA ToldStep ==
  ASSUME Types, Orderly', Saved, Told, [Next]_vars
  PROVE  Told'
  <1> USE CallersAssumption DEF Told, Telling, Types, Flags, DozeFlags, Places, Orderly
  <1>1. ASSUME PsDenied PROVE Told'
    BY <1>1 DEF PsDenied, lps
  <1>2. ASSUME PsSuspended PROVE Told'
    BY <1>2 DEF PsSuspended, Stop, lps
  <1>3. ASSUME PsDenyTime PROVE Told'
    BY <1>3 DEF PsDenyTime, lps
  <1>4. ASSUME PsActivity PROVE Told'
    BY <1>4 DEF PsActivity, lps
  <1>5. ASSUME IpsEnter PROVE Told'
    BY <1>5 DEF IpsEnter, lps
  <1>6. ASSUME IpsDown PROVE Told'
    <2>1. mode /\ fwps' = FALSE /\ cmd' = "off" /\ UNCHANGED <<mode, sus, wk>>
      BY <1>6 DEF IpsDown, Saved
    <2> QED BY <2>1
  <1>7. ASSUME IpsOff PROVE Told'
    BY <1>7 DEF IpsOff, lps
  <1>8. ASSUME PsExit PROVE Told'
    BY <1>8 DEF PsExit, lps
  <1>9. ASSUME LpsEnter PROVE Told'
    BY <1>9 DEF LpsEnter, PS_RDY_CHECK, Linked
  <1>10. ASSUME LpsMode PROVE Told'
    BY <1>10 DEF LpsMode, Stop, Overlap, Leaving, PS_RDY_CHECK, Linked
  <1>11. ASSUME LpsH2C PROVE Told'
    BY <1>11 DEF LpsH2C, Stop, Overlap, Leaving
  <1>12. ASSUME CmdLeave PROVE Told'
    BY <1>12 DEF CmdLeave, LeaveMode, Linked
  <1>13. ASSUME CmdLeaveH2C PROVE Told'
    BY <1>13 DEF CmdLeaveH2C, LeaveH2C
  <1>14. ASSUME SuspendStart PROVE Told'
    BY <1>14 DEF SuspendStart, lps
  <1>15. ASSUME SuspendWait PROVE Told'
    BY <1>15 DEF SuspendWait, Stop, lps
  <1>16. ASSUME SuspendLeave PROVE Told'
    BY <1>16 DEF SuspendLeave, Stop, LeaveMode, Overlap, Linked
  <1>17. ASSUME SuspendH2C PROVE Told'
    BY <1>17 DEF SuspendH2C, Stop, LeaveH2C, Overlap
  <1>18. ASSUME SuspendFree PROVE Told'
    BY <1>18 DEF SuspendFree, Linked, lps
  <1>19. ASSUME SuspendUnload PROVE Told'
    BY <1>19 DEF SuspendUnload, Stop
  <1>20. ASSUME ResumeOpen PROVE Told'
    <2>1. /\ cmd = "stopped" /\ cmd' \in {"idle", "stopped"} /\ sus = "down" /\ sus' = "opened"
          /\ UNCHANGED <<wk, fwps, mode>>
      BY <1>20 DEF ResumeOpen, lps, Stages
    <2> QED BY <2>1
  <1>21. ASSUME ResumeEnd PROVE Told'
    BY <1>21 DEF ResumeEnd, lps
  <1>22. ASSUME NEW c \in Callers, Request(c) PROVE Told'
    BY <1>22 DEF Request, Goto, lps
  <1>23. ASSUME NEW c \in Callers, WakeTimeout(c) PROVE Told'
    BY <1>23 DEF WakeTimeout, Goto, Stop, lps
  <1>24. ASSUME NEW c \in Callers, WakeLeave(c) PROVE Told'
    BY <1>24 DEF WakeLeave, Goto, Stop, LeaveMode, Overlap, Linked
  <1>25. ASSUME NEW c \in Callers, WakeLeaveH2C(c) PROVE Told'
    BY <1>25 DEF WakeLeaveH2C, Goto, Stop, LeaveH2C, Overlap
  <1>26. ASSUME NEW c \in Callers, WakeArm(c) PROVE Told'
    BY <1>26 DEF WakeArm, Goto, lps
  <1>27. ASSUME NEW c \in Callers, WakeWait(c) PROVE Told'
    BY <1>27 DEF WakeWait, Goto, lps
  <1>28. ASSUME NEW c \in Callers, WakeSuspended(c) PROVE Told'
    BY <1>28 DEF WakeSuspended, Goto, lps
  <1>29. ASSUME NEW c \in Callers, WakeDecide(c) PROVE Told'
    BY <1>29 DEF WakeDecide, Goto, Awake, Linked, lps
  <1>30. ASSUME NEW c \in Callers, IpsLeave(c) PROVE Told'
    BY <1>30 DEF IpsLeave, Goto, lps
  <1>31. ASSUME NEW c \in Callers, IpsPwrUp(c) PROVE Told'
    BY <1>31 DEF IpsPwrUp, Goto, lps
  <1>32. ASSUME NEW c \in Callers, IpsLeft(c) PROVE Told'
    BY <1>32 DEF IpsLeft, Goto, lps
  <1>33. ASSUME NEW c \in Callers, WakeFinal(c) PROVE Told'
    BY <1>33 DEF WakeFinal, Goto, Awake, lps
  <1>34. ASSUME NEW c \in Callers, Use(c) PROVE Told'
    BY <1>34 DEF Use, Goto, Linked, lps
  <1>35. ASSUME NEW c \in Callers, Release(c) PROVE Told'
    BY <1>35 DEF Release, Goto, lps
  <1>36. ASSUME \/ TimerFires \/ ScanDone \/ LinkUp \/ LinkDown \/ DenyExpires \/ UNCHANGED vars
        PROVE Told'
    <2>1. UNCHANGED <<cmd, fwps, mode, sus, wk>>
      BY <1>36, Zenon DEF TimerFires, ScanDone, LinkUp, LinkDown, DenyExpires, lps, vars
    <2> QED BY <2>1
  <1> QED BY <1>1, <1>2, <1>3, <1>4, <1>5, <1>6, <1>7, <1>8, <1>9, <1>10, <1>11, <1>12, <1>13,
         <1>14, <1>15, <1>16, <1>17, <1>18, <1>19, <1>20, <1>21, <1>22, <1>23, <1>24, <1>25,
         <1>26, <1>27, <1>28, <1>29, <1>30, <1>31, <1>32, <1>33, <1>34, <1>35, <1>36,
         Zenon DEF Next, Processor, Leisure, Wakeup, Station, System

\* what holds as long as no undefended order was met
OrderInv == Announced /\ Excluded /\ Stayed /\ Awaited
\* the power state
PowerInv == Busy /\ Switched /\ Used
\* the doze mode
DozeInv == Saved /\ Told
\* The inductive invariant.
IInv == Types /\ (Orderly => OrderInv /\ PowerInv /\ DozeInv)

\* A race that was met stays on record: an orderly state has an orderly past.
LEMMA OrderlyBefore ==
  ASSUME [Next]_vars, Orderly'
  PROVE  Orderly
  <1>1. race \subseteq race'
    BY Zenon DEF Next, Processor, Leisure, Wakeup, Station, System, Stop, vars,
         TimerFires, PsDenied, PsSuspended, PsDenyTime, PsActivity, IpsEnter, IpsDown, IpsOff,
         PsExit, LpsEnter, LpsMode, LpsH2C, CmdLeave, CmdLeaveH2C, ScanDone, LinkUp, LinkDown,
         DenyExpires, SuspendStart, SuspendWait, SuspendLeave, SuspendH2C, SuspendFree,
         SuspendUnload, ResumeOpen, ResumeEnd, Request, WakeTimeout, WakeLeave, WakeLeaveH2C,
         WakeArm, WakeWait, WakeSuspended, WakeDecide, IpsLeave, IpsPwrUp, IpsLeft, WakeFinal,
         Use, Release
  <1> QED BY <1>1 DEF Orderly

\* The driver as it was opened satisfies the invariant.
LEMMA InitInv == Init => IInv
  <1> SUFFICES ASSUME Init PROVE IInv
    OBVIOUS
  <1> USE DEF Init
  <1>1. Flags
    BY Zenon DEF Flags, DeviceFlags, ThreadFlags, QueueFlags, DozeFlags
  <1>2. Sets /\ Places
    BY DEF Sets, Places, CmdPc, WkPc, SusPc
  <1>3. Mutex
    <2>1. \A c \in Callers : c # "none"
      BY CallersAssumption
    <2> QED BY <2>1 DEF Mutex, Powering
  <1>4. Stages
    BY Zenon DEF Stages
  <1>5. Reasons
    BY CallersAssumption DEF Reasons
  <1>6. OrderInv
    BY DEF OrderInv, Announced, Excluded, Stayed, Awaited, Holds, Past
  <1>7. PowerInv
    BY DEF PowerInv, Busy, Switched, Used, Holds, Powering
  <1>8. DozeInv
    BY DEF DozeInv, Saved, Told, Telling
  <1> QED BY <1>1, <1>2, <1>3, <1>4, <1>5, <1>6, <1>7, <1>8 DEF IInv, Types

\* The part that holds in every order is kept by every step.
LEMMA TypesStep ==
  ASSUME Types, [Next]_vars
  PROVE  Types'
  <1>1. Flags'
    BY DeviceFlagsStep, ThreadFlagsStep, QueueFlagsStep, DozeFlagsStep, Zenon DEF Types, Flags
  <1>2. Sets' /\ Places'
    BY SetsStep, PlacesStep, Zenon DEF Types
  <1>3. Mutex' /\ Stages' /\ Reasons'
    BY MutexStep, StagesStep, ReasonsStep, Zenon DEF Types
  <1> QED BY <1>1, <1>2, <1>3, Zenon DEF Types

\* Every step keeps the inductive invariant.
LEMMA InvStep ==
  ASSUME IInv, [Next]_vars
  PROVE  IInv'
  <1>1. Types'
    BY TypesStep, Zenon DEF IInv
  <1>2. ASSUME Orderly' PROVE OrderInv' /\ PowerInv' /\ DozeInv'
    <2>1. Types /\ OrderInv /\ PowerInv /\ DozeInv
      BY <1>2, OrderlyBefore, Zenon DEF IInv
    <2>2. OrderInv'
      BY <1>2, <2>1, AnnouncedStep, ExcludedStep, StayedStep, AwaitedStep, Zenon DEF OrderInv
    <2>3. PowerInv'
      BY <1>2, <2>1, BusyStep, SwitchedStep, UsedStep, Zenon DEF OrderInv, PowerInv
    <2>4. DozeInv'
      BY <1>2, <2>1, SavedStep, ToldStep, Zenon DEF PowerInv, DozeInv
    <2> QED BY <2>2, <2>3, <2>4
  <1> QED BY <1>1, <1>2, Zenon DEF IInv

\* The inductive invariant holds in every reachable state.
LEMMA InvHolds == Spec => []IInv
  BY InitInv, InvStep, PTL DEF Spec

\* For every set of callers and every bound: each variable keeps its type and the pwrctrl mutex is
\* held by exactly the thread inside _ips_enter or _ips_leave, whatever the order of the steps.
THEOREM TypeCorrect == Spec => []TypeOK
  <1>1. IInv => TypeOK
    BY DEF IInv, Types, Flags, DeviceFlags, ThreadFlags, QueueFlags, DozeFlags, Sets, Mutex,
       Powering, TypeOK
  <1> QED BY <1>1, InvHolds, PTL

\* For every set of callers: _rtw_pwr_wakeup and rtw_ps_processor, which share no lock over their
\* decision, never let the device be powered off under a caller that was told it is awake, nor
\* under a scan, a join or an association.
THEOREM DeviceOnWhileUsed == Spec => []PoweredWhileUsed
  <1>1. IInv => PoweredWhileUsed
    <2> SUFFICES ASSUME IInv, Orderly, Running,
                        act # {} \/ \E c \in Callers : Holds(c)
                 PROVE  rf /\ hw /\ ~Falling
      BY DEF PoweredWhileUsed, Holds
    <2>1. rf /\ hw
      BY Zenon DEF IInv, PowerInv, Used, Running
    <2>2. ~Falling
      BY DEF IInv, OrderInv, Awaited, Excluded, Falling
    <2> QED BY <2>1, <2>2
  <1> QED BY <1>1, InvHolds, PTL

\* For every set of callers: rf_pwrstate is right about the HAL whenever the mutex is free, and
\* pwr_mode about the firmware whenever nobody is between recording and telling.
THEOREM RecordsAgree == Spec => []RecordAgrees
  <1>1. IInv => RecordAgrees
    <2> SUFFICES ASSUME IInv, Orderly, Running PROVE RecordAgrees
      BY DEF RecordAgrees
    <2>1. sus = "run"
      BY Zenon DEF IInv, Types, Stages, Running
    <2>2. lock = "none" => rf = hw
      BY Zenon DEF IInv, PowerInv, Switched, Running
    <2>3. cmd \notin {"lpsh2c", "leaveh2c"} /\ (\A c \in Callers : wk[c] # "h2c") => fwps = ~mode
      BY <2>1 DEF IInv, DozeInv, Told, Telling
    <2> QED BY <2>2, <2>3, Zenon DEF RecordAgrees
  <1> QED BY <1>1, InvHolds, PTL
=============================================================================
