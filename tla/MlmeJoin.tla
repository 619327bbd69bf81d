------------------------------ MODULE MlmeJoin ------------------------------
(***************************************************************************)
(* A station joins, roams, scans and leaves.  Code: core/rtw_mlme.c,       *)
(* core/rtw_mlme_ext.c, core/rtw_ioctl_set.c, rtw_sitesurvey_cmd of        *)
(* core/rtw_cmd.c and the connect, disconnect and scan requests of         *)
(* os_dep/linux/ioctl_cfg80211.c.                                          *)
(*                                                                         *)
(* Five contexts work on the same state: the kernel's request (user), the  *)
(* command thread (cmd), the receive tasklet (rx) and the handlers of the  *)
(* association, link, scan and survey timers.  What happens under          *)
(* pmlmepriv->lock is one step.  pmlmeinfo->state (info) has no lock: a    *)
(* handler reads it in one step and acts on what it read in another.       *)
(* Networks and frames are left out; whether a candidate is found, and     *)
(* what an access point answers, is a choice.                              *)
(***************************************************************************)
EXTENDS Integers, Sequences

CONSTANTS
  MaxRoam,   \* registrypriv.max_roaming_times
  RetryLimit,\* REAUTH_LIMIT and REASSOC_LIMIT
  NumChan,   \* channels of a survey
  Budget     \* bound: a request of the kernel costs 2 of it, a lost link 1

ASSUME JoinAssumption ==
  /\ MaxRoam \in 1..255 /\ RetryLimit \in Nat
  /\ NumChan \in Nat \ {0} /\ Budget \in Nat

VARIABLES
  m,        \* mlme_priv and what is changed with it, see MlmeType
  info,     \* pmlmeinfo->state, the set of its bits
  tries,    \* reauth_count, then reassoc_count (start_clnt_auth clears both)
  jt,       \* rtw_join_timeout_handler has started and not yet got the lock
  linkT,    \* link_timer is pending
  lt,       \* link_timer_hdl: "idle", or what it decided from info
  scanRun,  \* rtw_scan_timeout_handler between its lock and its report
  surveyT,  \* survey_timer is pending
  scan,     \* sitesurvey state machine: 0 is SCAN_DISABLE, else the channel
  cmd,      \* command thread, inside rtw_surveydone_event_callback
  rx,       \* receive tasklet: "idle", or the frame whose check succeeded
  user,     \* request of the kernel: where it is and which one it is
  blk,      \* not_indic_disco
  scanReq,  \* pwdev_priv->scan_request
  spent,    \* what requests and lost links have cost so far
  stuck,    \* the lock is held by a canceller that waits for jt
  \* history
  race      \* what went out of order so far, see Orderly

infoVars == <<info, tries, linkT>>
scanVars == <<scanRun, surveyT, scan, scanReq>>
vars == <<m, infoVars, jt, lt, scanVars, cmd, rx, user, blk, spent, stuck, race>>

Bits == {"sta", "authnull", "auth", "authed", "assoc", "success"}
Linking == {"authnull", "auth", "authed", "assoc"}
Cmds == {"join", "survey", "disc", "surveydone", "stadel", "expired"}

\* fw: fw_state; toJoin, toRoam: to_join, to_roam; assocT, scanT: assoc_timer
\* and scan_to_timer are pending; queue: cmd_queue; req: connect_req; up: what
\* the kernel has been told
MlmeType ==
  [fw : SUBSET {"survey", "linking", "linked"}, toJoin : BOOLEAN,
   toRoam : 0..MaxRoam, assocT : BOOLEAN, scanT : BOOLEAN, queue : Seq(Cmds),
   req : BOOLEAN, up : {"idle", "connecting", "connected"}]

NoUser == [pc |-> "idle", op |-> "none", ld |-> {}]

Init ==
  /\ m = [fw |-> {}, toJoin |-> FALSE, toRoam |-> 0, assocT |-> FALSE,
          scanT |-> FALSE, queue |-> <<>>, req |-> FALSE, up |-> "idle"]
  /\ info = {} /\ tries = 0 /\ linkT = FALSE
  /\ jt = FALSE /\ lt = "idle"
  /\ scanRun = FALSE /\ surveyT = FALSE /\ scan = 0 /\ scanReq = FALSE
  /\ cmd = "idle" /\ rx = "idle" /\ user = NoUser
  /\ blk = FALSE /\ spent = 0 /\ stuck = FALSE
  /\ race = {}

Spend(n) == spent + n <= Budget /\ spent' = spent + n

scan_abort == user.pc = "scan"
join_abort == user.pc = "join"

-----------------------------------------------------------------------------
(* What is called with the lock held: from a value of m to its next value, *)
(* or to the set of its possible next values.                              *)

Enqueue(s, c) == [s EXCEPT !.queue = Append(@, c)]
Clear(s, b) == [s EXCEPT !.fw = @ \ b]
Set(s, b) == [s EXCEPT !.fw = @ \cup b]

rtw_set_to_roam(s, n) ==
  [s EXCEPT !.toRoam = n, !.toJoin = IF n = 0 THEN FALSE ELSE @]
rtw_dec_to_roam(s) == [s EXCEPT !.toRoam = (@ - 1) % 256]

\* a refused attempt and a lost link reach the kernel alike, unless a request
\* in progress suppresses them
rtw_cfg80211_indicate_disconnect(s) ==
  [s EXCEPT !.up = IF blk THEN @ ELSE "idle", !.req = FALSE]

\* the kernel ignores cfg80211_roamed unless it knows a connection
rtw_cfg80211_indicate_connect(s) ==
  [s EXCEPT !.up = IF s.toRoam > 0 THEN @ ELSE "connected", !.req = FALSE]

rtw_indicate_connect(s) ==
  rtw_set_to_roam(IF "linked" \in s.fw THEN s
                  ELSE rtw_cfg80211_indicate_connect(Set(s, {"linked"})), 0)

\* While roaming the link goes silently, else the kernel is told.
rtw_indicate_disconnect_KeepLinked(s) ==  \* mutant: WIFI_ASOC_STATE is not cleared
  IF s.toRoam > 0 THEN Clear(s, {"linking", "linked"})
  ELSE Clear(rtw_cfg80211_indicate_disconnect(s), {"linking"})

rtw_indicate_disconnect(s) ==
  IF s.toRoam > 0 THEN Clear(s, {"linking", "linked"})
  ELSE Clear(rtw_cfg80211_indicate_disconnect(s), {"linking", "linked"})

\* no candidate, or one: an existing link is given up first
rtw_select_and_join_from_scanned_queue(s) ==
  LET b == IF "linked" \in s.fw
           THEN rtw_indicate_disconnect(Enqueue(s, "disc")) ELSE s
  IN  {<<FALSE, s>>, <<TRUE, Enqueue(Set(b, {"linking"}), "join")>>}

rtw_sitesurvey_cmd(s) ==
  [Enqueue(Set(s, {"survey"}), "survey") EXCEPT !.scanT = TRUE]

\* Without a candidate the attempt waits for a survey, which may be refused
\* (busy traffic, scan deny) and is refused while one is under way.

rtw_do_join_KeepFlag(s) ==  \* mutant: to_join stays after a refused survey
  LET t == Set([s EXCEPT !.toJoin = TRUE], {"linking"})
      none == Clear(t, {"linking"})
  IN  {<<TRUE, [r[2] EXCEPT !.toJoin = FALSE, !.assocT = TRUE]>> :
         r \in {x \in rtw_select_and_join_from_scanned_queue(t) : x[1]}}
      \cup {<<FALSE, none>>}
      \cup (IF "survey" \in s.fw THEN {} ELSE {<<TRUE, rtw_sitesurvey_cmd(none)>>})

rtw_do_join(s) ==
  LET t == Set([s EXCEPT !.toJoin = TRUE], {"linking"})
      none == Clear(t, {"linking"})
  IN  {<<TRUE, [r[2] EXCEPT !.toJoin = FALSE, !.assocT = TRUE]>> :
         r \in {x \in rtw_select_and_join_from_scanned_queue(t) : x[1]}}
      \cup {<<FALSE, [none EXCEPT !.toJoin = FALSE]>>}
      \cup (IF "survey" \in s.fw THEN {} ELSE {<<TRUE, rtw_sitesurvey_cmd(none)>>})

\* the loops of rtw_join_timeout_handler and _rtw_roaming: joins with n, n - 1, ... roaming
\* attempts left, each after the one before failed (and cleared to_join), then none left
TryRoam(s, n) ==
  LET Joins(k) == {r[2] : r \in {x \in rtw_do_join([s EXCEPT !.toRoam = k]) : x[1]}}
  IN  (UNION {Joins(k) : k \in 1..n})
      \cup {rtw_indicate_disconnect([s EXCEPT !.toRoam = 0, !.toJoin = @ /\ n = 0])}

\* _rtw_roaming: the first attempt is not counted
_rtw_roaming(s) == IF s.toRoam = 0 THEN {s} ELSE TryRoam(s, s.toRoam)

\* rtw_joinbss_event_prehandle of a failed attempt (join_res < 0)
JoinFailed(s) == [Clear(s, {"linking"}) EXCEPT !.assocT = TRUE]

\* ... and of a successful one.  The network may be gone from the scanned
\* queue, and the station may not be allocated: then the timer decides.
\* rtw_joinbss_update_network starts fw_state afresh.
JoinTakes(s) == rtw_indicate_connect([s EXCEPT !.fw = {}])

Locked(s) == ~stuck /\ m' = s

-----------------------------------------------------------------------------
(* The command thread                                                      *)

Head1(c) == cmd = "idle" /\ m.queue # <<>> /\ Head(m.queue) = c
Pop == [m EXCEPT !.queue = Tail(@)]

\* join_cmd_hdl and start_clnt_join; link_timer is cancelled, which waits for
\* its handler
CmdJoin ==
  /\ Head1("join") /\ lt = "idle"
  /\ \/ /\ info' = {"sta", "authnull"} /\ linkT' = TRUE
        /\ Locked([Pop EXCEPT !.assocT = TRUE])
     \/ /\ info' = IF "success" \in info THEN {} ELSE info
        /\ linkT' = IF "success" \in info THEN FALSE ELSE linkT
        /\ Locked(JoinFailed(Pop))
  /\ UNCHANGED <<tries, jt, lt, scanVars, cmd, rx, user, blk, spent, stuck, race>>

\* disconnect_hdl with rtw_mlmeext_disconnect: assoc_timer stays as it is
CmdDisc ==
  /\ Head1("disc") /\ lt = "idle"
  /\ info' = {} /\ linkT' = FALSE
  /\ m' = Pop
  /\ UNCHANGED <<tries, jt, lt, scanVars, cmd, rx, user, blk, spent, stuck, race>>

\* sitesurvey_cmd_hdl: starts a survey, goes to the next channel, or ends
CmdSurvey ==
  /\ Head1("survey")
  /\ LET next == scan + 1 IN
     IF next > NumChan \/ (scan > 0 /\ scan_abort)
     THEN /\ scan' = 0 /\ m' = Enqueue(Pop, "surveydone") /\ UNCHANGED surveyT
     ELSE /\ scan' = next /\ m' = Pop /\ surveyT' = TRUE
  /\ UNCHANGED <<infoVars, jt, lt, scanRun, scanReq, cmd, rx, user, blk, spent, stuck, race>>

\* rtw_surveydone_event_callback: the flag is cleared ...
SurveyDone ==
  /\ Head1("surveydone")
  /\ Locked(Clear(Pop, {"survey"}))
  /\ cmd' = "cancel"
  /\ UNCHANGED <<infoVars, jt, lt, scanVars, rx, user, blk, spent, stuck, race>>

\* ... the timer is cancelled without the lock ...
SurveyCancel ==
  /\ cmd = "cancel" /\ ~scanRun
  /\ m' = [m EXCEPT !.scanT = FALSE]
  /\ cmd' = "tojoin"
  /\ UNCHANGED <<infoVars, jt, lt, scanVars, rx, user, blk, spent, stuck, race>>

\* ... a postponed attempt goes on ...
AfterSurvey_Silent(s) ==  \* mutant: giving up is not indicated
  LET t == [Set(s, {"linking"}) EXCEPT !.toJoin = FALSE]
      give == Clear(rtw_set_to_roam(t, 0), {"linking"})
  IN  {[r[2] EXCEPT !.assocT = TRUE] :
         r \in {x \in rtw_select_and_join_from_scanned_queue(t) : x[1]}}
      \cup {give}

AfterSurvey(s) ==
  LET t == [Set(s, {"linking"}) EXCEPT !.toJoin = FALSE]
      again == rtw_dec_to_roam(t)
      give == Clear(rtw_indicate_disconnect(rtw_set_to_roam(t, 0)), {"linking"})
  IN  {[r[2] EXCEPT !.assocT = TRUE] :
         r \in {x \in rtw_select_and_join_from_scanned_queue(t) : x[1]}}
      \cup {give}
      \cup (IF t.toRoam > 1 /\ "survey" \notin t.fw
            THEN {[Clear(rtw_sitesurvey_cmd(again), {"linking"}) EXCEPT !.toJoin = TRUE]}
            ELSE {})

SurveyToJoin ==
  /\ cmd = "tojoin"
  /\ \E s \in (IF m.toJoin THEN AfterSurvey(m) ELSE {m}) : Locked(s)
  /\ cmd' = "report"
  /\ UNCHANGED <<infoVars, jt, lt, scanVars, rx, user, blk, spent, stuck, race>>

\* ... and rtw_indicate_scan_done answers whatever request there is now
SurveyReport_Joining ==  \* mutant: not answered when an attempt follows
  /\ cmd = "report"
  /\ scanReq' = ("linking" \in m.fw /\ scanReq)
  /\ cmd' = "idle"
  /\ UNCHANGED <<m, infoVars, jt, lt, scanRun, surveyT, scan, rx, user, blk, spent, stuck, race>>

SurveyReport ==
  /\ cmd = "report"
  /\ scanReq' = FALSE
  /\ cmd' = "idle"
  /\ UNCHANGED <<m, infoVars, jt, lt, scanRun, surveyT, scan, rx, user, blk, spent, stuck, race>>

\* rtw_stadel_event_callback; a link that expired is followed by roaming
CmdStaDel(c) ==
  /\ c \in {"stadel", "expired"} /\ Head1(c)
  /\ LET assoc == {"success", "sta"} \subseteq info IN
     /\ assoc => lt = "idle"
     /\ info' = IF assoc THEN {} ELSE info
     /\ linkT' = IF assoc THEN FALSE ELSE linkT
  /\ LET t == IF c = "stadel" THEN rtw_set_to_roam(Pop, 0)
              ELSE IF m.toRoam > 0 THEN rtw_dec_to_roam(Pop)
              ELSE rtw_set_to_roam(Pop, MaxRoam)
     IN  \E s \in _rtw_roaming(rtw_indicate_disconnect(t)) : Locked(s)
  /\ race' = IF c = "expired" /\ (user.op = "disconnect" \/ m.up # "connected")
             THEN race \cup {"revived"} ELSE race
  /\ UNCHANGED <<tries, jt, lt, scanVars, cmd, rx, user, blk, spent, stuck>>

\* linked_status_chk: nothing heard for seconds, so no frame is being handled
\* and a pending association timer has fired
LinkLoss ==
  /\ cmd = "idle" /\ rx = "idle" /\ user.pc # "rec" /\ ~m.assocT /\ ~jt
  /\ {"success", "sta"} \subseteq info
  /\ Spend(1)
  /\ m' = Enqueue(m, "expired") /\ info' = {}
  /\ UNCHANGED <<tries, linkT, jt, lt, scanVars, cmd, rx, user, blk, stuck, race>>

-----------------------------------------------------------------------------
(* The receive tasklet                                                     *)

\* the checks of OnBeacon, OnAuthClient and OnAssocRsp
RxCheck(frame) ==
  /\ rx = "idle" /\ ~join_abort
  /\ \/ frame = "beacon" /\ "authnull" \in info
     \/ frame = "auth" /\ "auth" \in info
     \/ frame = "rsp" /\ {"authed", "assoc"} \cap info # {} /\ "success" \notin info
  /\ rx' = frame
  /\ UNCHANGED <<m, infoVars, jt, lt, scanVars, cmd, user, blk, spent, stuck, race>>

\* start_clnt_auth

RxBeacon ==
  /\ rx = "beacon" /\ lt = "idle"
  /\ info' = (info \ {"authnull"}) \cup {"auth"}
  /\ tries' = 0 /\ linkT' = TRUE
  /\ rx' = "idle"
  /\ UNCHANGED <<m, jt, lt, scanVars, cmd, user, blk, spent, stuck, race>>

\* start_clnt_assoc, or the next message of a shared key exchange, a refusal that
\* brings the link timer forward, or a frame that is dropped
RxAuth ==
  /\ rx = "auth"
  /\ \/ /\ lt = "idle"
        /\ info' = (info \ {"authnull", "auth"}) \cup {"authed", "assoc"}
        /\ tries' = 0 /\ linkT' = TRUE
     \/ /\ linkT' \in {linkT, TRUE}
        /\ UNCHANGED <<info, tries>>
  /\ rx' = "idle"
  /\ UNCHANGED <<m, jt, lt, scanVars, cmd, user, blk, spent, stuck, race>>

\* OnAssocRsp: pmlmeinfo->state is set ...
RxAssocRsp ==
  /\ rx = "rsp" /\ lt = "idle"
  /\ linkT' = FALSE
  /\ \/ info' = (info \ {"assoc"}) \cup {"success"} /\ rx' = "joined"
     \/ info' = {} /\ rx' = "refused"
  /\ UNCHANGED <<m, tries, jt, lt, scanVars, cmd, user, blk, spent, stuck, race>>

RxRefused ==
  /\ rx = "refused"
  /\ Locked(JoinFailed(m))
  /\ rx' = "idle"
  /\ UNCHANGED <<infoVars, jt, lt, scanVars, cmd, user, blk, spent, stuck, race>>

\* ... and reported: rtw_joinbss_event_prehandle ignores it unless an attempt
\* is in progress, and cancels assoc_timer while it holds the lock that the
\* timer's handler takes
RxJoined ==
  /\ rx = "joined"
  /\ \/ /\ \/ Locked(m)
           \/ "linking" \in m.fw /\ Locked([m EXCEPT !.fw = {}])
        /\ race' = race \cup {"ignored"}
        /\ UNCHANGED stuck
     \/ /\ "linking" \in m.fw
        /\ Locked([JoinTakes(m) EXCEPT !.assocT = FALSE])
        /\ stuck' = jt
        /\ UNCHANGED race
  /\ rx' = "idle"
  /\ UNCHANGED <<infoVars, jt, lt, scanVars, cmd, user, blk, spent>>

\* receive_disconnect
RxDeauth ==
  /\ rx = "idle" /\ "sta" \in info
  /\ Spend(1)
  /\ \/ "success" \in info /\ m' = Enqueue(m, "stadel")
     \/ /\ "success" \notin info /\ info \cap Linking # {}
        /\ Locked(JoinFailed(m))
  /\ info' = {}
  /\ UNCHANGED <<tries, linkT, jt, lt, scanVars, cmd, rx, user, blk, stuck, race>>

-----------------------------------------------------------------------------
(* Timers                                                                  *)

AssocFires ==
  /\ m.assocT /\ ~jt
  /\ m' = [m EXCEPT !.assocT = FALSE] /\ jt' = TRUE
  /\ UNCHANGED <<infoVars, lt, scanVars, cmd, rx, user, blk, spent, stuck, race>>

\* rtw_join_timeout_handler
JoinTimeout ==
  /\ jt
  /\ \E s \in (IF m.toRoam > 0 THEN TryRoam(m, m.toRoam - 1)
               ELSE {rtw_cfg80211_indicate_disconnect(rtw_indicate_disconnect(m))}) :
       Locked(s)
  /\ jt' = FALSE
  /\ UNCHANGED <<infoVars, lt, scanVars, cmd, rx, user, blk, spent, stuck, race>>

\* link_timer_hdl: what to do is read from pmlmeinfo->state ...
LinkFires ==
  /\ linkT /\ lt = "idle"
  /\ linkT' = FALSE
  /\ lt' = IF join_abort /\ info # {} THEN "fail"
           ELSE IF "authnull" \in info THEN "fail"
           ELSE IF {"auth", "assoc"} \cap info # {} THEN "retry"
           ELSE "idle"
  /\ UNCHANGED <<m, info, tries, jt, scanVars, cmd, rx, user, blk, spent, stuck, race>>

\* ... and done: once more, or the state is dropped and the failure reported
LinkRetry_OneMore ==  \* mutant: one attempt more than the limit
  /\ lt = "retry"
  /\ IF tries <= RetryLimit
     THEN tries' = tries + 1 /\ linkT' = TRUE /\ lt' = "idle"
     ELSE lt' = "fail" /\ UNCHANGED <<tries, linkT>>
  /\ UNCHANGED <<m, info, jt, scanVars, cmd, rx, user, blk, spent, stuck, race>>

LinkRetry ==
  /\ lt = "retry"
  /\ IF tries < RetryLimit
     THEN tries' = tries + 1 /\ linkT' = TRUE /\ lt' = "idle"
     ELSE lt' = "fail" /\ UNCHANGED <<tries, linkT>>
  /\ UNCHANGED <<m, info, jt, scanVars, cmd, rx, user, blk, spent, stuck, race>>

LinkDrop ==
  /\ lt = "fail"
  /\ info' = {} /\ lt' = "report"
  /\ UNCHANGED <<m, tries, linkT, jt, scanVars, cmd, rx, user, blk, spent, stuck, race>>

LinkFail ==
  /\ lt = "report"
  /\ Locked(JoinFailed(m)) /\ lt' = "idle"
  /\ UNCHANGED <<infoVars, jt, scanVars, cmd, rx, user, blk, spent, stuck, race>>

\* survey_timer_hdl
SurveyTimer ==
  /\ surveyT
  /\ surveyT' = FALSE
  /\ m' = IF scan > 0 THEN Enqueue(m, "survey") ELSE m
  /\ UNCHANGED <<infoVars, jt, lt, scanRun, scan, scanReq, cmd, rx, user, blk, spent, stuck, race>>

\* rtw_scan_timeout_handler
ScanTimeout ==
  /\ m.scanT /\ ~scanRun
  /\ Locked([Clear(m, {"survey"}) EXCEPT !.scanT = FALSE])
  /\ scanRun' = TRUE
  /\ UNCHANGED <<infoVars, jt, lt, surveyT, scan, scanReq, cmd, rx, user, blk, spent, stuck, race>>

ScanTimeoutReport ==
  /\ scanRun
  /\ scanReq' = FALSE /\ scanRun' = FALSE
  /\ UNCHANGED <<m, infoVars, jt, lt, surveyT, scan, cmd, rx, user, blk, spent, stuck, race>>

-----------------------------------------------------------------------------
(* Requests of the kernel, one at a time                                   *)

At(pc) == user.pc = pc
Goto(pc) == user' = [user EXCEPT !.pc = pc]
NoRequest == UNCHANGED <<jt, lt, cmd, rx, stuck>>

\* cfg80211_rtw_scan: refused while linking, done at once during a survey
Scan ==
  /\ At("idle") /\ Spend(2) /\ ~scanReq
  /\ IF m.fw \cap {"survey", "linking"} = {}
     THEN Locked(rtw_sitesurvey_cmd(m)) /\ scanReq' = TRUE
     ELSE UNCHANGED <<m, scanReq>>
  /\ UNCHANGED <<infoVars, scanRun, surveyT, scan, user, blk, race>> /\ NoRequest

\* cfg80211_rtw_connect: an existing link or attempt is ended first.  The
\* kernel lets a connected station ask for a re-association.
Connect ==
  /\ At("idle") /\ Spend(2)
  /\ blk' = TRUE
  /\ m' = [m EXCEPT !.up = IF @ = "idle" THEN "connecting" ELSE @]
  /\ user' = [NoUser EXCEPT !.pc = "scan",
                !.op = IF m.fw \cap {"linked", "linking"} # {} THEN "reconnect" ELSE "connect"]
  /\ UNCHANGED <<infoVars, scanVars, race>> /\ NoRequest

\* cfg80211_rtw_disconnect: to_roam is reset without the lock
Disconnect ==
  /\ At("idle") /\ Spend(2)
  /\ m' = rtw_set_to_roam(m, 0)
  /\ user' = [NoUser EXCEPT !.pc = "scan", !.op = "disconnect"]
  /\ UNCHANGED <<infoVars, scanVars, blk, race>> /\ NoRequest

\* rtw_scan_abort waits for the end of the survey, at most 200 ms
ScanAborted ==
  /\ At("scan")
  /\ scanReq' = IF "survey" \in m.fw THEN FALSE ELSE scanReq
  /\ linkT' = TRUE
  /\ Goto("join")
  /\ UNCHANGED <<m, info, tries, scanRun, surveyT, scan, blk, spent, race>> /\ NoRequest

\* rtw_join_abort_timeout waits for the end of the attempt, at most 300 ms
JoinAborted ==
  /\ At("join")
  /\ Goto(IF user.op = "connect" THEN "set" ELSE "disc")
  /\ UNCHANGED <<m, infoVars, scanVars, blk, spent, race>> /\ NoRequest

\* _rtw_disconnect: rtw_disassoc_cmd, waited for with a timeout
DiscCmd ==
  /\ At("disc")
  /\ m' = Enqueue(m, "disc")
  /\ Goto("ind")
  /\ UNCHANGED <<infoVars, scanVars, blk, spent, race>> /\ NoRequest

\* rtw_indicate_disconnect, here without the lock: fw_state is loaded ...
IndLoad ==
  /\ At("ind")
  /\ user' = [user EXCEPT !.pc = "ind2", !.ld = m.fw]
  /\ UNCHANGED <<m, infoVars, scanVars, blk, spent, race>> /\ NoRequest

\* ... and what the function made of it is stored.  After a disconnect the
\* kernel no longer waits for an attempt.
IndStore ==
  /\ At("ind2")
  /\ LET s == rtw_indicate_disconnect([m EXCEPT !.fw = user.ld]) IN
     m' = IF user.op = "disconnect" /\ s.up = "connecting"
          THEN [s EXCEPT !.up = "idle"] ELSE s
  /\ race' = IF m.fw # user.ld THEN race \cup {"lost"} ELSE race
  /\ user' = IF user.op = "disconnect" THEN NoUser
             ELSE [NoUser EXCEPT !.pc = "scan", !.op = "connect"]
  /\ UNCHANGED <<infoVars, scanVars, blk, spent>> /\ NoRequest

\* rtw_set_802_11_connect: during a survey the attempt waits for its end; an
\* attempt that is still going on counts as this one
SetConnect ==
  /\ At("set")
  /\ \E r \in (IF "survey" \in m.fw THEN {<<TRUE, [m EXCEPT !.toJoin = TRUE]>>}
               ELSE IF "linking" \in m.fw THEN {<<TRUE, m>>}
               ELSE rtw_do_join(m)) :
       IF r[1] THEN Locked(r[2]) /\ Goto("rec") /\ UNCHANGED blk
       ELSE /\ Locked([r[2] EXCEPT !.up = IF @ = "connecting" THEN "idle" ELSE @])
            /\ user' = NoUser /\ blk' = FALSE
  /\ UNCHANGED <<infoVars, scanVars, spent, race>> /\ NoRequest

\* an attempt whose answer is still to come
Pending == "linking" \in m.fw \/ m.toJoin \/ m.assocT \/ jt

\* the request is recorded, after the attempt was started
Record ==
  /\ At("rec")
  /\ m' = [m EXCEPT !.req = TRUE]
  /\ race' = IF Pending THEN race ELSE race \cup {"early"}
  /\ user' = NoUser /\ blk' = FALSE
  /\ UNCHANGED <<infoVars, scanVars, spent>> /\ NoRequest

-----------------------------------------------------------------------------
Command == CmdJoin \/ CmdDisc \/ CmdSurvey \/ SurveyDone \/ SurveyCancel \/ SurveyToJoin
           \/ SurveyReport \/ CmdStaDel("stadel") \/ CmdStaDel("expired")
RxRest == RxBeacon \/ RxAuth \/ RxAssocRsp \/ RxRefused \/ RxJoined
LinkTimer == LinkFires \/ LinkRetry \/ LinkDrop \/ LinkFail
Request == ScanAborted \/ JoinAborted \/ DiscCmd \/ IndLoad \/ IndStore
           \/ SetConnect \/ Record

Next ==
  \/ Command \/ LinkLoss
  \/ \E f \in {"beacon", "auth", "rsp"} : RxCheck(f)
  \/ RxRest \/ RxDeauth
  \/ AssocFires \/ JoinTimeout \/ LinkTimer \/ SurveyTimer
  \/ ScanTimeout \/ ScanTimeoutReport
  \/ Scan \/ Connect \/ Disconnect \/ Request

Spec == Init /\ [][Next]_vars

\* Timers that are armed fire, handlers that have started, the command thread
\* and a request in progress go on.  Frames may never come, links may never be
\* lost and the kernel may never ask.
Fairness ==
  /\ WF_vars(Command) /\ WF_vars(RxRest) /\ WF_vars(AssocFires) /\ WF_vars(JoinTimeout)
  /\ WF_vars(LinkTimer) /\ WF_vars(SurveyTimer) /\ WF_vars(ScanTimeoutReport)
  /\ WF_vars(Request)

FairSpec == Spec /\ Fairness

-----------------------------------------------------------------------------
(* Properties                                                              *)

\* Every variable keeps its type; in particular to_roam, a u8 that is counted down, never
\* wraps to 255, and an answer is asked for no more often than its limit.
TypeOK ==
  /\ m \in MlmeType /\ info \subseteq Bits /\ tries \in 0..RetryLimit
  /\ lt \in {"idle", "retry", "fail", "report"} /\ scan \in 0..NumChan
  /\ rx \in {"idle", "beacon", "auth", "rsp", "joined", "refused"}
  /\ cmd \in {"idle", "cancel", "tojoin", "report"}
  /\ user.pc \in {"idle", "scan", "join", "disc", "ind", "ind2", "set", "rec"}

\* The run stops where the lock is lost for good, and where
\* "lost": a store without the lock overwrote a change of fw_state;
\* "early": an attempt was over before its request was recorded;
\* "ignored": an association came too late, or found no network or station entry;
\* "revived": a link that expired is given up after, or while, the kernel asked
\* for a disconnect, and the driver roams.
Orderly == ~stuck /\ race = {}

\* An attempt to join never depends on nobody, at any of its three stages.
\* WIFI_UNDER_LINKING refuses scans and further joins, and only a join result
\* or the association timeout ends it: while it is set the timer is pending or
\* its handler waits for the lock (rtw_do_join, rtw_surveydone_event_callback).
\* to_join is only looked at when a survey completes: while it is set a survey
\* is queued, under way or about to look at it.  An authentication or
\* association has its link timer pending or in its handler, which asks again
\* or ends the attempt (start_clnt_auth, start_clnt_assoc, link_timer_hdl).
AttemptIsDriven ==
  /\ "linking" \in m.fw => m.assocT \/ jt
  /\ Orderly /\ m.toJoin =>
       \/ scan > 0 \/ cmd \in {"cancel", "tojoin"}
       \/ \E i \in DOMAIN m.queue : m.queue[i] \in {"survey", "surveydone"}
  /\ info \cap Linking # {} /\ "success" \notin info => linkT \/ lt # "idle"

\* A station that is linked is connected in the kernel's eyes too, whatever
\* requests, join results, timeouts and lost links came in between: a
\* result that comes after its attempt was given up is not accepted
\* (rtw_joinbss_event_prehandle, rtw_indicate_connect).
LinkedIsKnown == Orderly /\ "linked" \in m.fw => m.up = "connected"

\* The kernel, told to connect, learns the outcome: connected, or not, whatever
\* the access point answers and wherever the attempt gets lost
\* (cfg80211_rtw_connect, rtw_join_timeout_handler, rtw_surveydone_event_callback).
KernelAnswered == m.up = "connecting" ~> m.up # "connecting"

\* A scan request is answered, by the completion of the survey or by an abort
\* (rtw_surveydone_event_callback, rtw_scan_abort), the scan timeout not being
\* needed for it.
ScanAnswered == scanReq ~> ~scanReq

=============================================================================
