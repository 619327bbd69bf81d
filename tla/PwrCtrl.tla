---- MODULE PwrCtrl ----
(***************************************************************************)
(* Power control of a station: inactive power save (IPS: the device is     *)
(* powered off while nothing is associated), leisure power save (LPS: the  *)
(* firmware dozes while associated), the wakeup every request makes first, *)
(* and system suspend and resume.  Four kinds of actor share the state:    *)
(* the command thread (the periodic rtw_ps_processor, LPS_Enter and the    *)
(* queued LPS_Leave), the callers of rtw_pwr_wakeup, the thread that       *)
(* suspends the system, and timers.  Only the pwrctrl mutex is a lock; the *)
(* rest is flags that one side raises and the other polls.                 *)
(*                                                                         *)
(* Time is abstract: denyT says whether ips_deny_time lies ahead.  `race'  *)
(* collects the unsynchronised orders the code does not defend against;    *)
(* README.md describes each.                                               *)
(***************************************************************************)
EXTENDS Naturals, FiniteSets

CONSTANTS Callers,      \* threads that wake the device
          Denying,      \* those that hold a ps_deny reason meanwhile (scan, connect)
          MaxRequests,  \* bound: calls of rtw_pwr_wakeup
          MaxSuspend    \* bound: system suspends

ASSUME CallersAssumption == Denying \subseteq Callers /\ {"suspend", "none", "cmd"} \cap Callers = {}
ASSUME BoundsAssumption == MaxRequests \in Nat /\ MaxSuspend \in Nat

VARIABLES rf,      \* rf_pwrstate is rf_on
          chg,     \* change_rfpwrstate is rf_on
          hw,      \* hw_init_completed
          up,      \* bup, the driver not stopped
          ipsP,    \* bips_processing
          psP,     \* ps_processing
          saving,  \* bpower_saving
          deny,    \* reasons set in ps_deny
          denyT,   \* ips_deny_time lies in the future
          susp,    \* bInSuspend
          timer,   \* pwr_state_check_timer is armed
          psQ,     \* a POWER_SAVING_CTRL command is queued
          lvQ,     \* an LPS_CTRL_DISCONNECT command is queued
          act,     \* what the station is doing: linked, linking, survey
          mode,    \* pwr_mode is PS_MODE_ACTIVE
          fwps,    \* the firmware was told to doze
          idle,    \* LpsIdleCount
          lock,    \* holder of the pwrctrl mutex
          cmd,     \* where the command thread is
          wk,      \* where each caller is
          sus,     \* where the suspending thread is
          fresh,   \* ghost: callers whose deny time nobody ended since they woke the device
          race,    \* ghost: undefended orders met
          reqs, sleeps   \* bounds used up

pwr == <<rf, chg, hw, up, ipsP, saving>>
dny == <<deny, denyT, fresh>>
lps == <<mode, fwps, idle>>
que == <<timer, psQ, lvQ>>
bnd == <<reqs, sleeps>>
vars == <<pwr, dny, lps, que, bnd, psP, susp, act, lock, cmd, wk, sus, race>>

Linked == "linked" \in act
Stop(flag) == race' = race \cup flag
InFlight == {c \in Callers : wk[c] \in {"wait", "susp", "decide", "ips", "up", "on", "upfail", "final"}}

Init ==
  /\ rf = TRUE /\ chg = TRUE /\ hw = TRUE /\ up = TRUE /\ ipsP = FALSE /\ saving = FALSE
  /\ deny = {} /\ denyT = FALSE /\ fresh = {}
  /\ mode = TRUE /\ fwps = FALSE /\ idle = 0
  /\ timer = TRUE /\ psQ = FALSE /\ lvQ = FALSE
  /\ reqs = 0 /\ sleeps = 0
  /\ psP = FALSE /\ susp = FALSE /\ act = {} /\ lock = "none"
  /\ cmd = "idle" /\ wk = [c \in Callers |-> "idle"] /\ sus = "run" /\ race = {}

----
(* The dynamic check: rtw_ps_processor in the command thread. *)

\* pwr_state_check_handler; rtw_cmd_filter drops the command of a device that is off
TimerFires ==
  /\ timer
  /\ timer' = FALSE
  /\ psQ' = (psQ \/ (hw /\ cmd # "stopped"))
  /\ UNCHANGED <<pwr, dny, lps, bnd, lvQ, psP, susp, act, lock, cmd, wk, sus, race>>

\* the ps_deny test, under the mutex
PsDenied ==
  /\ cmd = "idle" /\ psQ /\ lock = "none"
  /\ psQ' = FALSE
  /\ cmd' = IF deny # {} THEN "exit" ELSE "susp"
  /\ UNCHANGED <<pwr, dny, lps, bnd, timer, lvQ, psP, susp, act, lock, wk, sus, race>>

PsSuspended_NoFlag ==  \* mutant: ps_processing is not raised
  /\ cmd = "susp"
  /\ IF susp
     THEN /\ cmd' = "idle"
          /\ Stop(IF sus = "opened" THEN {"resume"} ELSE {})
     ELSE cmd' = "check" /\ race' = race
  /\ UNCHANGED <<pwr, dny, lps, que, bnd, psP, susp, act, lock, wk, sus>>

\* a suspended system ends the check without arming the timer again
PsSuspended ==
  /\ cmd = "susp"
  /\ IF susp
     THEN /\ cmd' = "idle" /\ psP' = psP
          /\ Stop(IF sus = "opened" THEN {"resume"} ELSE {})
     ELSE cmd' = "check" /\ psP' = TRUE /\ race' = race
  /\ UNCHANGED <<pwr, dny, lps, que, bnd, susp, act, lock, wk, sus>>

\* rtw_pwr_unassociated_idle, first half: already saving, or denied for a while
PsDenyTime ==
  /\ cmd = "check"
  /\ cmd' = IF saving \/ denyT THEN "exit" ELSE "activity"
  /\ UNCHANGED <<pwr, dny, lps, que, bnd, psP, susp, act, lock, wk, sus, race>>

\* second half: linked, linking or scanning; then the decision to power off
PsActivity ==
  /\ cmd = "activity"
  /\ IF act = {} /\ rf THEN cmd' = "enter" /\ chg' = FALSE
                       ELSE cmd' = "exit" /\ chg' = chg
  /\ UNCHANGED <<rf, hw, up, ipsP, saving, dny, lps, que, bnd, psP, susp, act, lock, wk, sus, race>>

IpsEnter_NoLock ==  \* mutant: _ips_enter runs without the mutex
  /\ cmd = "enter"
  /\ IF ~chg THEN ipsP' = TRUE /\ saving' = TRUE /\ cmd' = "down"
             ELSE cmd' = "exit" /\ UNCHANGED <<ipsP, saving>>
  /\ UNCHANGED <<rf, chg, hw, up, dny, lps, que, bnd, psP, susp, act, lock, wk, sus, race>>

\* ips_enter takes the mutex for all of _ips_enter
IpsEnter ==
  /\ cmd = "enter" /\ lock = "none"
  /\ IF ~chg THEN lock' = "cmd" /\ ipsP' = TRUE /\ saving' = TRUE /\ cmd' = "down"
             ELSE cmd' = "exit" /\ UNCHANGED <<lock, ipsP, saving>>
  /\ UNCHANGED <<rf, chg, hw, up, dny, lps, que, bnd, psP, susp, act, wk, sus, race>>

\* rtw_ips_pwr_down: the interface is stopped and the HAL taken down
IpsDown ==
  /\ cmd = "down"
  /\ hw' = FALSE /\ fwps' = FALSE /\ cmd' = "off"
  /\ UNCHANGED <<rf, chg, up, ipsP, saving, dny, mode, idle, que, bnd, psP, susp, act, lock, wk, sus, race>>

IpsOff ==
  /\ cmd = "off"
  /\ rf' = FALSE /\ ipsP' = FALSE /\ lock' = "none" /\ cmd' = "exit"
  /\ UNCHANGED <<chg, hw, up, saving, dny, lps, que, bnd, psP, susp, act, wk, sus, race>>

\* the exit label: the timer is armed again, then ps_processing falls
PsExit ==
  /\ cmd = "exit"
  /\ timer' = TRUE /\ psP' = FALSE /\ cmd' = "idle"
  /\ UNCHANGED <<pwr, dny, lps, bnd, psQ, lvQ, susp, act, lock, wk, sus, race>>

----
(* Leisure power save.  None of this takes the mutex in this build. *)

\* LPS_Enter and LPS_Leave of two threads in each other's way
Overlap(b) == IF b THEN {"lps"} ELSE {}
Leaving == sus = "h2c" \/ \E c \in Callers : wk[c] = "h2c"

PS_RDY_CHECK == ~susp /\ act \cap {"survey", "linking"} = {}

\* LPS_Enter from the traffic watchdog of the command thread
LpsEnter ==
  /\ cmd = "idle" /\ hw /\ Linked /\ PS_RDY_CHECK
  /\ IF idle < 2 THEN idle' = idle + 1 /\ UNCHANGED <<saving, cmd>>
     ELSE mode /\ saving' = TRUE /\ cmd' = "lpsmode" /\ idle' = idle
  /\ UNCHANGED <<rf, chg, hw, up, ipsP, dny, mode, fwps, que, bnd, psP, susp, act, lock, wk, sus, race>>

\* rtw_set_ps_mode looks again and records the mode ...
LpsMode ==
  /\ cmd = "lpsmode"
  /\ IF PS_RDY_CHECK /\ Linked THEN mode' = FALSE /\ cmd' = "lpsh2c"
                               ELSE mode' = mode /\ cmd' = "idle"
  /\ Stop(Overlap(Leaving))
  /\ UNCHANGED <<pwr, dny, fwps, idle, que, bnd, psP, susp, act, lock, wk, sus>>

\* ... and then tells the firmware
LpsH2C ==
  /\ cmd = "lpsh2c"
  /\ fwps' = TRUE /\ cmd' = "idle"
  /\ Stop(Overlap(Leaving))
  /\ UNCHANGED <<pwr, dny, mode, idle, que, bnd, psP, susp, act, lock, wk, sus>>

LeaveMode_Early(there, after, pc) ==  \* mutant: nothing to leave, bpower_saving is left alone
  IF ~mode THEN mode' = TRUE /\ pc = there /\ saving' = saving
           ELSE mode' = mode /\ pc = after /\ saving' = saving

\* LPS_Leave: the mode is recorded, the firmware told, bpower_saving falls in
\* any case.  The thread goes `there' to tell the firmware, or is `after' the
\* call at once.
LeaveMode(there, after, pc) ==
  IF ~mode THEN mode' = TRUE /\ pc = there /\ saving' = saving
           ELSE mode' = mode /\ pc = after /\ saving' = FALSE

LeaveH2C == fwps' = FALSE /\ saving' = FALSE

\* a queued LPS_CTRL_DISCONNECT, or a watchdog that saw traffic
CmdLeave ==
  /\ cmd = "idle"
  /\ lvQ \/ (Linked /\ ~mode)
  /\ LeaveMode("leaveh2c", "idle", cmd')
  /\ lvQ' = FALSE
  /\ UNCHANGED <<rf, chg, hw, up, ipsP, dny, fwps, idle, timer, psQ, bnd, psP, susp, act, lock, wk, sus, race>>

CmdLeaveH2C ==
  /\ cmd = "leaveh2c"
  /\ LeaveH2C /\ cmd' = "idle"
  /\ UNCHANGED <<rf, chg, hw, up, ipsP, dny, mode, idle, que, bnd, psP, susp, act, lock, wk, sus, race>>

----
(* A caller of rtw_pwr_wakeup.  It raises its deny reason (if it has one), *)
(* leaves LPS, sets the deny time, waits for a running check and for a     *)
(* resume, powers the device up if it is off, and sets the deny time       *)
(* again.  What it then starts is what it woke the device for.             *)

Goto(c, pc) == wk' = [wk EXCEPT ![c] = pc]

\* rtw_ps_deny, or nothing for a caller without a reason
Request(c) ==
  /\ wk[c] = "idle" /\ reqs < MaxRequests /\ lock = "none"
  /\ deny' = deny \cup ({c} \cap Denying)
  /\ reqs' = reqs + 1
  /\ Goto(c, "leave")
  /\ UNCHANGED <<pwr, denyT, fresh, lps, que, sleeps, psP, susp, act, lock, cmd, sus, race>>

\* LeaveAllPowerSaveMode: LPS only, and only while associated
WakeLeave(c) ==
  /\ wk[c] = "leave"
  /\ IF up /\ Linked
     THEN /\ \E pc \in {"h2c", "arm"} : LeaveMode("h2c", "arm", pc) /\ Goto(c, pc)
          /\ Stop(Overlap(cmd \in {"lpsmode", "lpsh2c"}))
     ELSE Goto(c, "arm") /\ UNCHANGED <<mode, saving, race>>
  /\ UNCHANGED <<rf, chg, hw, up, ipsP, dny, fwps, idle, que, bnd, psP, susp, act, lock, cmd, sus>>

WakeLeaveH2C(c) ==
  /\ wk[c] = "h2c"
  /\ LeaveH2C /\ Goto(c, "arm")
  /\ Stop(Overlap(cmd \in {"lpsmode", "lpsh2c"}))
  /\ UNCHANGED <<rf, chg, hw, up, ipsP, dny, mode, idle, que, bnd, psP, susp, act, lock, cmd, sus>>

WakeArm(c) ==
  /\ wk[c] = "arm"
  /\ denyT' = TRUE /\ Goto(c, "wait")
  /\ UNCHANGED <<pwr, deny, fresh, lps, que, bnd, psP, susp, act, lock, cmd, sus, race>>

\* polls ps_processing ...
WakeWait(c) ==
  /\ wk[c] = "wait" /\ ~psP
  /\ Goto(c, "susp")
  /\ UNCHANGED <<pwr, dny, lps, que, bnd, psP, susp, act, lock, cmd, sus, race>>

\* ... for three seconds at most, and then goes on all the same
WakeTimeout(c) ==
  /\ wk[c] = "wait" /\ psP
  /\ Stop({"slow"}) /\ Goto(c, "susp")
  /\ UNCHANGED <<pwr, dny, lps, que, bnd, psP, susp, act, lock, cmd, sus>>

\* polls bInSuspend; when the time is up a suspended system fails the wakeup
WakeSuspended(c) ==
  /\ wk[c] = "susp"
  /\ IF susp THEN Goto(c, "done") /\ denyT' = TRUE
             ELSE Goto(c, "decide") /\ denyT' = denyT
  /\ UNCHANGED <<pwr, deny, fresh, lps, que, bnd, psP, susp, act, lock, cmd, sus, race>>

\* the exit of a wakeup that succeeded
Awake(c) == denyT' = TRUE /\ fresh' = fresh \cup {c} /\ Goto(c, "awake")

WakeDecide(c) ==
  /\ wk[c] = "decide"
  /\ \/ Linked /\ Awake(c)
     \/ ~Linked /\ ~rf /\ Goto(c, "ips") /\ UNCHANGED <<denyT, fresh>>
     \/ ~Linked /\ rf /\ Goto(c, "final") /\ UNCHANGED <<denyT, fresh>>
  /\ UNCHANGED <<pwr, deny, lps, que, bnd, psP, susp, act, lock, cmd, sus, race>>

\* ips_leave, the mutex held until the device is up
IpsLeave(c) ==
  /\ wk[c] = "ips" /\ lock = "none"
  /\ IF ~rf /\ ~ipsP THEN lock' = c /\ ipsP' = TRUE /\ chg' = TRUE /\ Goto(c, "up")
                     ELSE Goto(c, "final") /\ UNCHANGED <<lock, ipsP, chg>>
  /\ UNCHANGED <<rf, hw, up, saving, dny, lps, que, bnd, psP, susp, act, cmd, sus, race>>

\* rtw_ips_pwr_up: rtw_reset_drv_sw, then rtw_hal_init, which may fail; the
\* check timer is armed only for a device that came up
IpsPwrUp(c) ==
  /\ wk[c] = "up"
  /\ act' = act \ {"survey", "linking"}
  /\ \/ hw' = TRUE /\ timer' = TRUE /\ Goto(c, "on")
     \/ hw' = FALSE /\ timer' = timer /\ Goto(c, "upfail")
  /\ UNCHANGED <<rf, chg, up, ipsP, saving, dny, lps, psQ, lvQ, bnd, psP, susp, lock, cmd, sus, race>>

IpsLeft_Always(c) ==  \* mutant: rf_on is recorded for a device that did not come up
  /\ wk[c] \in {"on", "upfail"}
  /\ rf' = TRUE /\ ipsP' = FALSE /\ saving' = FALSE /\ lock' = "none"
  /\ IF wk[c] = "on" THEN Goto(c, "final") /\ denyT' = denyT
                     ELSE Goto(c, "done") /\ denyT' = TRUE
  /\ UNCHANGED <<chg, hw, up, deny, fresh, lps, que, bnd, psP, susp, act, cmd, sus, race>>

IpsLeft_Busy(c) ==  \* mutant: a failed power-up leaves bips_processing raised
  /\ wk[c] \in {"on", "upfail"}
  /\ rf' = (wk[c] = "on") /\ ipsP' = (wk[c] = "upfail") /\ saving' = FALSE /\ lock' = "none"
  /\ IF wk[c] = "on" THEN Goto(c, "final") /\ denyT' = denyT
                     ELSE Goto(c, "done") /\ denyT' = TRUE
  /\ UNCHANGED <<chg, hw, up, deny, fresh, lps, que, bnd, psP, susp, act, cmd, sus, race>>

\* the rest of _ips_leave, whether or not the device came up
IpsLeft(c) ==
  /\ wk[c] \in {"on", "upfail"}
  /\ rf' = (wk[c] = "on") /\ ipsP' = FALSE /\ saving' = FALSE /\ lock' = "none"
  /\ IF wk[c] = "on" THEN Goto(c, "final") /\ denyT' = denyT
                     ELSE Goto(c, "done") /\ denyT' = TRUE
  /\ UNCHANGED <<chg, hw, up, deny, fresh, lps, que, bnd, psP, susp, act, cmd, sus, race>>

WakeFinal(c) ==
  /\ wk[c] = "final"
  /\ IF up /\ hw THEN Awake(c) ELSE denyT' = TRUE /\ Goto(c, "done") /\ fresh' = fresh
  /\ UNCHANGED <<pwr, deny, lps, que, bnd, psP, susp, act, lock, cmd, sus, race>>

\* the woken device is used: a scan, a connection, or register access only
Use(c) ==
  /\ wk[c] = "awake"
  /\ \/ act' = act
     \/ c \in Denying /\ up /\ ~susp /\ hw /\ act' = act \cup {"survey"}
     \/ c \in Denying /\ up /\ ~susp /\ hw /\ ~Linked /\ act' = act \cup {"linking"}
  /\ Goto(c, "done")
  /\ UNCHANGED <<pwr, dny, lps, que, bnd, psP, susp, lock, cmd, sus, race>>

\* rtw_ps_deny_cancel
Release(c) ==
  /\ wk[c] = "done" /\ lock = "none"
  /\ deny' = deny \ {c} /\ fresh' = fresh \ {c} /\ Goto(c, "idle")
  /\ UNCHANGED <<pwr, denyT, lps, que, bnd, psP, susp, act, lock, cmd, sus, race>>

----
(* The station. *)

\* rtw_indicate_scan_done, from the command thread or from the scan timeout:
\* an unassociated device may go to sleep at once
ScanDone ==
  /\ "survey" \in act
  /\ act' = act \ {"survey"}
  /\ IF ~susp /\ act \cap {"linked", "linking"} = {}
     THEN /\ denyT' = FALSE /\ timer' = TRUE /\ fresh' = {}
          /\ Stop(IF (InFlight \ deny # {}) \/ (cmd \in {"susp", "check"} /\ deny # {}) THEN {"deny"} ELSE {})
     ELSE UNCHANGED <<denyT, timer, fresh, race>>
  /\ UNCHANGED <<pwr, deny, lps, psQ, lvQ, bnd, psP, susp, lock, cmd, wk, sus>>

\* the result of a join: LPS_CTRL_CONNECT resets the idle count
LinkUp ==
  /\ "linking" \in act /\ cmd = "idle"
  /\ \/ act' = (act \ {"linking"}) \cup {"linked"} /\ idle' = 0
     \/ act' = act \ {"linking"} /\ idle' = idle
  /\ UNCHANGED <<pwr, dny, mode, fwps, que, bnd, psP, susp, lock, cmd, wk, sus, race>>

\* rtw_indicate_disconnect queues LPS_CTRL_DISCONNECT
LinkDown ==
  /\ Linked
  /\ act' = act \ {"linked"} /\ lvQ' = (lvQ \/ cmd # "stopped")
  /\ UNCHANGED <<pwr, dny, lps, timer, psQ, bnd, psP, susp, lock, cmd, wk, sus, race>>

\* ips_deny_time passes; a wakeup that takes longer than its own deny time is a race
DenyExpires ==
  /\ denyT
  /\ denyT' = FALSE /\ fresh' = {}
  /\ Stop(IF InFlight # {} \/ (cmd \in {"susp", "check"} /\ deny # {}) THEN {"slow"} ELSE {})
  /\ UNCHANGED <<pwr, deny, lps, que, bnd, psP, susp, act, lock, cmd, wk, sus>>

----
(* System suspend and resume. *)

SuspendStart ==
  /\ sus = "run" /\ sleeps < MaxSuspend
  /\ susp' = TRUE /\ sus' = "wait" /\ sleeps' = sleeps + 1
  /\ UNCHANGED <<pwr, dny, lps, que, reqs, psP, act, lock, cmd, wk, race>>

\* polls bips_processing; a device that is not open has nothing to suspend.
\* Otherwise rtw_ps_deny and the timers are cancelled
SuspendWait ==
  /\ sus = "wait" /\ ~ipsP /\ lock = "none"
  /\ IF up THEN deny' = deny \cup {"suspend"} /\ timer' = FALSE /\ sus' = "leave"
           ELSE sus' = "down" /\ UNCHANGED <<deny, timer>>
  /\ Stop(IF \E c \in Callers : wk[c] \in {"decide", "ips", "final"} THEN {"suspend"} ELSE {})
  /\ UNCHANGED <<pwr, denyT, fresh, lps, psQ, lvQ, bnd, psP, susp, act, lock, cmd, wk>>

\* LeaveAllPowerSaveModeDirect: LPS is left, IPS is not
SuspendLeave ==
  /\ sus = "leave"
  /\ IF Linked THEN LeaveMode("h2c", "cancel", sus')
               ELSE sus' = "cancel" /\ UNCHANGED <<mode, saving>>
  /\ Stop(Overlap(cmd \in {"lpsmode", "lpsh2c"}))
  /\ UNCHANGED <<rf, chg, hw, up, ipsP, dny, fwps, idle, que, bnd, psP, susp, act, lock, cmd, wk>>

SuspendH2C ==
  /\ sus = "h2c"
  /\ LeaveH2C /\ sus' = "cancel"
  /\ Stop(Overlap(cmd \in {"lpsmode", "lpsh2c"}))
  /\ UNCHANGED <<rf, chg, hw, up, ipsP, dny, mode, idle, que, bnd, psP, susp, act, lock, cmd, wk>>

\* rtw_ps_deny_cancel; rtw_suspend_normal gives the association up
SuspendFree ==
  /\ sus = "cancel" /\ lock = "none"
  /\ deny' = deny \ {"suspend"} /\ act' = {} /\ lvQ' = (lvQ \/ Linked) /\ sus' = "unload"
  /\ UNCHANGED <<pwr, denyT, fresh, lps, timer, psQ, bnd, psP, susp, lock, cmd, wk, race>>

\* rtw_dev_unload: the command thread is stopped between two commands, its
\* queue freed, the HAL taken down and every timer cancelled
SuspendUnload ==
  /\ sus = "unload" /\ cmd = "idle"
  /\ cmd' = "stopped" /\ psQ' = FALSE /\ lvQ' = FALSE /\ timer' = FALSE
  /\ hw' = FALSE /\ up' = FALSE /\ fwps' = FALSE
  /\ sus' = "down"
  /\ Stop((IF ~rf THEN {"ips"} ELSE {}) \cup (IF saving \/ ~mode THEN {"dropped"} ELSE {}))
  /\ UNCHANGED <<rf, chg, ipsP, saving, dny, mode, idle, bnd, psP, susp, act, lock, wk>>

\* rtw_resume_process_normal: rtw_reset_drv_sw, then _netdev_open of a closed device
ResumeOpen ==
  /\ sus = "down"
  /\ act' = act \ {"survey", "linking"} /\ sus' = "opened"
  /\ \/ hw' = TRUE /\ up' = TRUE /\ ipsP' = FALSE /\ timer' = TRUE /\ cmd' = "idle"
     \/ hw' = FALSE /\ up' = FALSE /\ UNCHANGED <<ipsP, timer, cmd>>
  /\ UNCHANGED <<rf, chg, saving, dny, lps, psQ, lvQ, bnd, psP, susp, lock, wk, race>>

ResumeEnd ==
  /\ sus = "opened"
  /\ susp' = FALSE /\ sus' = "run"
  /\ UNCHANGED <<pwr, dny, lps, que, bnd, psP, act, lock, cmd, wk, race>>

----
Processor == TimerFires \/ PsDenied \/ PsSuspended \/ PsDenyTime \/ PsActivity
             \/ IpsEnter \/ IpsDown \/ IpsOff \/ PsExit
Leisure == LpsEnter \/ LpsMode \/ LpsH2C \/ CmdLeave \/ CmdLeaveH2C
Wakeup(c) == WakeLeave(c) \/ WakeLeaveH2C(c) \/ WakeArm(c) \/ WakeWait(c)
             \/ WakeSuspended(c) \/ WakeDecide(c) \/ IpsLeave(c) \/ IpsPwrUp(c) \/ IpsLeft(c)
             \/ WakeFinal(c) \/ Use(c) \/ Release(c)
Station == ScanDone \/ LinkUp \/ LinkDown \/ DenyExpires
System == SuspendStart \/ SuspendWait \/ SuspendLeave \/ SuspendH2C \/ SuspendFree
          \/ SuspendUnload \/ ResumeOpen \/ ResumeEnd

Next ==
  \/ Processor \/ Leisure \/ Station \/ System
  \/ \E c \in Callers : Request(c) \/ WakeTimeout(c) \/ Wakeup(c)

Spec == Init /\ [][Next]_vars

\* Timers fire, the command thread runs what is queued in the order of the
\* queue (strong fairness of CmdLeave, which competes with the check), callers and the
\* suspending thread run on, scans and joins end.  Nothing makes the traffic
\* watchdog, a new request, a lost link or another suspend happen.
Fairness ==
  /\ WF_vars(Processor)
  /\ WF_vars(LpsMode \/ LpsH2C \/ CmdLeaveH2C)
  /\ SF_vars(CmdLeave)
  /\ \A c \in Callers : WF_vars(Wakeup(c))
  /\ WF_vars(ScanDone) /\ WF_vars(LinkUp) /\ WF_vars(DenyExpires)
  /\ WF_vars(SuspendWait \/ SuspendLeave \/ SuspendH2C \/ SuspendFree \/ SuspendUnload
             \/ ResumeOpen \/ ResumeEnd)

FairSpec == Spec /\ Fairness

Orderly == race = {}

----
(* Properties *)

\* Every variable keeps its type, and the pwrctrl mutex is held by exactly the thread that is
\* powering the device down or up: no two of them change the power state at a time.
TypeOK ==
  /\ {rf, chg, hw, up, ipsP, psP, saving, denyT, susp, timer, psQ, lvQ, mode, fwps} \subseteq BOOLEAN
  /\ deny \subseteq Denying \cup {"suspend"} /\ fresh \subseteq Callers
  /\ act \subseteq {"linked", "linking", "survey"} /\ idle \in 0..2
  /\ lock \in Callers \cup {"none", "cmd"}
  /\ (lock = "cmd") = (cmd \in {"down", "off"})
  /\ \A c \in Callers : (lock = c) = (wk[c] \in {"up", "on", "upfail"})

Running == up /\ ~susp
Falling == cmd \in {"enter", "down", "off"}

\* The device is powered while it is used: as long as a woken caller holds its
\* deny reason, or its deny time has neither passed nor been taken back by a
\* finished scan, and as long as a scan, join or association is under way, the
\* device is on, recorded as on, and the periodic check has not decided to
\* power it off (_rtw_pwr_wakeup against rtw_ps_processor: the caller sets the
\* deny time and then looks at ps_processing, the check raises ps_processing
\* and then looks at the deny time and at the activity).
PoweredWhileUsed ==
  Orderly /\ Running /\
    (act # {} \/ \E c \in Callers : wk[c] = "awake" /\ (c \in deny \/ c \in fresh))
    => rf /\ hw /\ ~Falling

\* What the driver records about the power state is so whenever nobody is
\* changing it: rf_pwrstate says off exactly when the HAL is down, so that a
\* wakeup neither uses a dead device nor initialises a live one; and pwr_mode
\* says active exactly when the firmware does not doze.
RecordAgrees ==
  Orderly /\ Running =>
    /\ lock = "none" => (rf = hw)
    /\ cmd \notin {"lpsh2c", "leaveh2c"} /\ (\A c \in Callers : wk[c] # "h2c")
         => (fwps = ~mode)

\* An idle station ends up powered off, and stays so: bpower_saving, which
\* LPS and IPS share, is never left raised on a device that is on, and the
\* periodic check, whose timer dies while the device is off, is started again
\* by the power-up.
IdleSleeps ==
  <>[](up /\ sus = "run" /\ act = {} /\ \A c \in Callers : wk[c] = "idle") => <>[](~hw)

\* A suspend that was started reaches the unloaded device: neither the wait
\* for bips_processing nor the wait for the command thread goes on for ever.
SuspendEnds == sus = "wait" ~> sus = "down"

\* The message rtw_suspend_normal prints about it calls this state an error:
\* the device is not in IPS when it is unloaded.
NotSuspendedInIps == sus = "unload" => rf

====
