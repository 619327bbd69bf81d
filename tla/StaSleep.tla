------------------------------ MODULE StaSleep ------------------------------
(***************************************************************************)
(* The access point side of 802.11 power save: frames for dozing stations  *)
(* wait in sleep queues and are announced in the TIM element of the        *)
(* beacon.  Code: the sleep-queue functions of core/rtw_xmit.c, the power  *)
(* bit, trigger and PS-Poll handlers of core/rtw_recv.c, expiry and        *)
(* departure of stations in core/rtw_ap.c and core/rtw_sta_mgt.c, the      *)
(* group-frame flush of core/rtw_mlme_ext.c and the beacon tasklet of      *)
(* hal/rtl8821c/pci/rtl8821ce_recv.c.                                      *)
(*                                                                         *)
(* pxmitpriv->lock guards the queues, so what happens under it is one      *)
(* step.  Four contexts run in parallel: senders, the receive tasklet      *)
(* (rx), the command thread (cmd) and the beacon tasklet.  What a context  *)
(* does after it gave the lock back, and the unlocked read-modify-writes   *)
(* of the bitmaps and of psta->state, are steps of their own: the second   *)
(* step stores what the first one computed from the old value.             *)
(***************************************************************************)
EXTENDS Integers, Sequences, FiniteSets

CONSTANTS
  Sta,          \* the stations that may be in the table
  BMC,          \* the broadcast station; also association id 0 of the maps
  NumAC,        \* access categories, in the order stop_sta_xmit empties them
  Uapsd,        \* the sets of delivery-enabled categories stations ask for
  PollAC,       \* the category the priority of a PS-Poll selects
  NR_XMITFRAME, \* frames of the pool
  U32,          \* 2^32, the width of sleepq_len and sleepq_ac_len
  None          \* no frame, no category

ASSUME SleepAssumption ==
  /\ IsFiniteSet(Sta) /\ BMC \notin Sta
  /\ NumAC \in Nat /\ Uapsd \subseteq SUBSET (1..NumAC)
  /\ PollAC \in 1..NumAC /\ None \notin 1..NumAC
  /\ NR_XMITFRAME \in Nat \ {0} /\ U32 \in Nat /\ U32 > NR_XMITFRAME

Dest == Sta \cup {BMC}
AC == 1..NumAC

VARIABLES
  st,        \* psta->state: "in" (hashed), "linked", "sleep", "alive" (check)
  aid,       \* the map bit of a station: its own, or BMC while aid is 0
  uapsd,     \* delivery-enabled categories: uapsd_vo ... uapsd_bk
  tim, dz,   \* tim_bitmap and sta_dz_bitmap
  sleepq,    \* sleep_q of a destination: the categories of its frames
  len, acLen,\* sleepq_len and sleepq_ac_len
  pend,      \* frames in the transmit queues of a destination, by category
  fly,       \* a frame between the sleep check and its transmit queue
  ie,        \* the TIM element of the beacon under construction
  updateBcn, \* update_bcn
  chkCmd,    \* a _ChkBMCSleepq command is queued
  bcn,       \* beacon tasklet: "idle" or "flush"
  rx, cmd,   \* what the receive tasklet and the command thread are doing
  \* history
  disturbed, \* destinations whose bit, state or count was overwritten by a step
             \* outside the lock, or means something else since: a store over
             \* a concurrent change, bit 0 used for a station without an id, a
             \* re-association that redefines the delivery-enabled categories
  drift      \* stations a PS-Poll took a delivery-enabled frame from

mapVars == <<tim, dz, ie, updateBcn>>
qVars   == <<sleepq, len, acLen, pend>>
staVars == <<st, aid, uapsd>>
vars == <<staVars, mapVars, qVars, fly, bcn, chkCmd, rx, cmd, disturbed, drift>>

Idle == [pc |-> "idle", s |-> BMC, ac |-> None, ld |-> {}]

has_legacy_ac(s) == uapsd[s] # AC
Wmm(s, ac) == ac \in uapsd[s]

\* the frames whose arrival sets the station's TIM bit
Announced(s, ac) == has_legacy_ac(s) # Wmm(s, ac)

MustAnnounce(s) == \E i \in DOMAIN sleepq[s] : Announced(s, sleepq[s][i])

\* the frames a destination holds: <<0, i>> in its sleep queue and <<c, i>> in
\* its transmit queue of category c
Frames(x) ==
  UNION {{c} \X (1..(IF c = 0 THEN Len(sleepq[x]) ELSE pend[x][c])) : c \in 0..NumAC}

\* the frames taken from the pool: NR_XMITFRAME less free_xmitframe_cnt
Used == Cardinality(UNION {{x} \X Frames(x) : x \in Dest})
          + (IF fly = None THEN 0 ELSE 1)

Minus(n, k) == (n - k) % U32
Plus(n, k) == (n + k) % U32

\* the frames of a queue whose category is in A, in order
Only(q, A) ==
  LET F[i \in 0..Len(q)] ==
        IF i = 0 THEN <<>>
        ELSE IF q[i] \in A THEN Append(F[i - 1], q[i]) ELSE F[i - 1]
  IN  F[Len(q)]

CountWmm(s, q) == Cardinality({i \in DOMAIN q : Wmm(s, q[i])})

\* pend as one sequence, category by category
Pending(x) ==
  LET F[i \in 0..NumAC] ==
        IF i = 0 THEN <<>> ELSE F[i - 1] \o [j \in 1..pend[x][i] |-> i]
  IN  F[NumAC]

Adding(p, q) == [c \in AC |-> p[c] + Cardinality({i \in DOMAIN q : q[i] = c})]

NoPend == [c \in AC |-> 0]

Init ==
  /\ st = [s \in Sta |-> {}]
  /\ aid = [s \in Sta |-> BMC]
  /\ uapsd = [s \in Sta |-> {}]
  /\ tim = {} /\ dz = {} /\ ie = {}
  /\ updateBcn = FALSE /\ chkCmd = FALSE
  /\ sleepq = [x \in Dest |-> <<>>]
  /\ len = [x \in Dest |-> 0]
  /\ acLen = [x \in Dest |-> 0]
  /\ pend = [x \in Dest |-> NoPend]
  /\ fly = None /\ bcn = "idle"
  /\ rx = Idle /\ cmd = Idle
  /\ disturbed = {} /\ drift = {}

-----------------------------------------------------------------------------
(* Maps and beacon                                                         *)

\* update_beacon(_TIM_IE_): the element is rebuilt from the map
_update_beacon(map) == ie' = map /\ updateBcn' = TRUE
NoBeaconUpdate == UNCHANGED <<ie, updateBcn>>

\* the TIM map becomes map; the beacon follows if cond holds
SetTim(map, cond) ==
  /\ tim' = map
  /\ IF cond THEN _update_beacon(map) ELSE NoBeaconUpdate

\* A map m was loaded as old and is now overwritten by new: bits that another
\* context changed in between are lost.
Lost(m, old) == (m \ old) \cup (old \ m)

-----------------------------------------------------------------------------
(* Sending                                                                 *)

TxGroupBuffered_NoCommand ==  \* mutant: relies on the beacon alone
  /\ sleepq' = [sleepq EXCEPT ![BMC] = Append(@, PollAC)]
  /\ len' = [len EXCEPT ![BMC] = Plus(@, 1)]
  /\ SetTim(tim \cup {BMC}, BMC \notin tim)
  /\ dz' = dz \cup {BMC}
  /\ UNCHANGED <<acLen, pend, fly, chkCmd>>

\* xmitframe_enqueue_for_sleeping_sta, group frame
TxGroupBuffered ==
  /\ sleepq' = [sleepq EXCEPT ![BMC] = Append(@, PollAC)]
  /\ len' = [len EXCEPT ![BMC] = Plus(@, 1)]
  /\ SetTim(tim \cup {BMC}, BMC \notin tim)
  /\ dz' = dz \cup {BMC}
  /\ chkCmd' = (chkCmd \/ BMC \in tim)
  /\ UNCHANGED <<acLen, pend, fly>>

\* xmitframe_enqueue_for_sleeping_sta, frame for one station
TxUnicastBuffered(s, ac) ==
  /\ sleepq' = [sleepq EXCEPT ![s] = Append(@, ac)]
  /\ len' = [len EXCEPT ![s] = Plus(@, 1)]
  /\ acLen' = [acLen EXCEPT ![s] = IF Wmm(s, ac) THEN Plus(@, 1) ELSE @]
  /\ IF Announced(s, ac)
     THEN SetTim(tim \cup {aid[s]}, aid[s] \notin tim)
     ELSE UNCHANGED tim /\ NoBeaconUpdate
  /\ UNCHANGED <<dz, chkCmd, pend, fly>>

Buffers(x) ==
  IF x = BMC THEN dz # {}
             ELSE {"linked", "sleep"} \subseteq st[x] /\ aid[x] \in dz

\* rtw_xmit_posthandle: the check, and what it buffers, under the lock
TxCheck(x, ac) ==
  /\ fly = None /\ Used < NR_XMITFRAME
  /\ x \in Sta => "in" \in st[x]
  /\ x = BMC => ac = PollAC
  /\ IF ~Buffers(x)
     THEN /\ fly' = <<x, ac>>
          /\ UNCHANGED <<mapVars, qVars, chkCmd>>
     ELSE IF x = BMC THEN TxGroupBuffered ELSE TxUnicastBuffered(x, ac)
  /\ UNCHANGED <<staVars, bcn, rx, cmd, disturbed, drift>>

TxHal_Kept ==  \* mutant: the caller keeps the frame it queued
  /\ fly # None
  /\ pend' = [pend EXCEPT ![fly[1]][fly[2]] = @ + 1]
  /\ UNCHANGED <<staVars, mapVars, sleepq, len, acLen, fly, bcn, chkCmd, rx, cmd,
                 disturbed, drift>>

\* rtw_hal_xmit after the lock was given back; a frame whose station has gone
\* is dropped by rtw_xmit_classifier
TxHal ==
  /\ fly # None
  /\ LET x == fly[1] IN
     pend' = IF x = BMC \/ "in" \in st[x]
             THEN [pend EXCEPT ![x][fly[2]] = @ + 1] ELSE pend
  /\ fly' = None
  /\ UNCHANGED <<staVars, mapVars, sleepq, len, acLen, bcn, chkCmd, rx, cmd,
                 disturbed, drift>>

\* the device takes a frame from a transmit queue (external)
HalTake(x, ac) ==
  /\ pend[x][ac] > 0
  /\ pend' = [pend EXCEPT ![x][ac] = @ - 1]
  /\ UNCHANGED <<staVars, mapVars, sleepq, len, acLen, fly, bcn, chkCmd, rx, cmd,
                 disturbed, drift>>

-----------------------------------------------------------------------------
(* Falling asleep and waking                                               *)

\* stop_sta_xmit with dequeue_xmitframes_to_sleeping_queue: what waits in the
\* transmit queues of the station, and of the broadcast station, moves to the
\* sleep queues.  The sleep check refuses a station that is no longer linked.
stop_sta_xmit(s) ==
  LET q == IF "linked" \in st[s] THEN Pending(s) ELSE <<>>
      g == Pending(BMC)
      said == \E i \in DOMAIN q : Announced(s, q[i])
      map == tim \cup (IF said THEN {aid[s]} ELSE {})
                 \cup (IF g # <<>> THEN {BMC} ELSE {})
  IN  /\ st' = [st EXCEPT ![s] = @ \cup {"sleep"}]
      /\ dz' = dz \cup {aid[s]} \cup (IF g # <<>> THEN {BMC} ELSE {})
      /\ sleepq' = [sleepq EXCEPT ![s] = @ \o q, ![BMC] = @ \o g]
      /\ len' = [len EXCEPT ![s] = Plus(@, Len(q)), ![BMC] = Plus(@, Len(g))]
      /\ acLen' = [acLen EXCEPT ![s] = Plus(@, CountWmm(s, q))]
      /\ pend' = [pend EXCEPT ![s] = IF q = <<>> THEN @ ELSE NoPend, ![BMC] = NoPend]
      /\ SetTim(map, map # tim)
      /\ chkCmd' = (chkCmd \/ (g # <<>> /\ (BMC \in tim \/ Len(g) > 1)))
      /\ UNCHANGED <<aid, uapsd>>

\* wakeup_sta_to_xmit up to the end of the critical section.  All frames move
\* to the transmit queues; only if the count says the queue is empty does the
\* station count as awake.  With nobody dozing the group frames follow.
\* Leaves in `changed' whether the beacon has to be updated.
Woken(s) == Minus(len[s], Len(sleepq[s])) = 0
DzAfter(s) == IF Woken(s) THEN dz \ {aid[s]} ELSE dz
FlushGroup(s) == DzAfter(s) \subseteq {BMC}
TimAfter(s) == tim \ ((IF Woken(s) THEN {aid[s]} ELSE {})
                       \cup (IF FlushGroup(s) THEN {BMC} ELSE {}))
TimMasked(s) == TimAfter(s) # tim

wakeup_sta_to_xmit_AcKept(s) ==  \* mutant: sleepq_ac_len not counted down
  LET g == IF FlushGroup(s) THEN sleepq[BMC] ELSE <<>>
  IN  /\ len' = [len EXCEPT ![s] = Minus(@, Len(sleepq[s])),
                            ![BMC] = Minus(@, Len(g))]
      /\ sleepq' = [sleepq EXCEPT ![s] = <<>>, ![BMC] = IF g = <<>> THEN @ ELSE <<>>]
      /\ pend' = [pend EXCEPT ![s] = Adding(@, sleepq[s]), ![BMC] = Adding(@, g)]
      /\ st' = [st EXCEPT ![s] = IF Woken(s) THEN @ \ {"sleep", "alive"} ELSE @]
      /\ dz' = IF FlushGroup(s) THEN {} ELSE DzAfter(s)
      /\ tim' = TimAfter(s)
      /\ UNCHANGED <<aid, uapsd, acLen>>

wakeup_sta_to_xmit(s) ==
  LET g == IF FlushGroup(s) THEN sleepq[BMC] ELSE <<>>
  IN  /\ len' = [len EXCEPT ![s] = Minus(@, Len(sleepq[s])),
                            ![BMC] = Minus(@, Len(g))]
      /\ acLen' = [acLen EXCEPT ![s] = Minus(@, CountWmm(s, sleepq[s]))]
      /\ sleepq' = [sleepq EXCEPT ![s] = <<>>, ![BMC] = IF g = <<>> THEN @ ELSE <<>>]
      /\ pend' = [pend EXCEPT ![s] = Adding(@, sleepq[s]), ![BMC] = Adding(@, g)]
      /\ st' = [st EXCEPT ![s] = IF Woken(s) THEN @ \ {"sleep", "alive"} ELSE @]
      /\ dz' = IF FlushGroup(s) THEN {} ELSE DzAfter(s)
      /\ tim' = TimAfter(s)
      /\ UNCHANGED <<aid, uapsd>>

\* process_pwrbit_data, and where sta2ap_data_frame goes on: the beacon update
\* of wakeup_sta_to_xmit, then process_wmmps_data for a QoS frame
RxData(s, pm, ac) ==
  LET after == IF ac = None THEN Idle ELSE [Idle EXCEPT !.pc = "wmm", !.s = s, !.ac = ac]
      sleeps == pm /\ "sleep" \notin st[s]
      wakes == ~pm /\ "sleep" \in st[s]
  IN  /\ rx = Idle /\ "in" \in st[s]
      /\ \/ /\ sleeps
            /\ stop_sta_xmit(s)
            /\ rx' = after
            /\ disturbed' = IF aid[s] = BMC THEN disturbed \cup {s, BMC} ELSE disturbed
         \/ /\ wakes
            /\ wakeup_sta_to_xmit(s)
            /\ rx' = IF TimMasked(s)
                     THEN [Idle EXCEPT !.pc = "bcn", !.s = s, !.ac = ac] ELSE after
            /\ UNCHANGED <<ie, updateBcn, chkCmd, disturbed>>
         \/ /\ ~sleeps /\ ~wakes /\ ac # None
            /\ rx' = after
            /\ UNCHANGED <<staVars, mapVars, qVars, chkCmd, disturbed>>
      /\ UNCHANGED <<fly, bcn, cmd, drift>>

\* the beacon update after wakeup_sta_to_xmit gave the lock back
RxBeacon ==
  /\ rx.pc = "bcn"
  /\ _update_beacon(tim)
  /\ rx' = IF rx.ac = None THEN Idle ELSE [rx EXCEPT !.pc = "wmm"]
  /\ UNCHANGED <<staVars, tim, dz, qVars, fly, bcn, chkCmd, cmd, disturbed, drift>>

xmit_delivery_enabled_frames_Legacy(s) ==  \* mutant: has_legacy_ac not asked
  LET q == Only(sleepq[s], uapsd[s])
      empties == \E k \in 1..Len(q) : Minus(acLen[s], k) = 0
  IN  /\ sleepq' = [sleepq EXCEPT ![s] = Only(@, AC \ uapsd[s])]
      /\ len' = [len EXCEPT ![s] = Minus(@, Len(q))]
      /\ acLen' = [acLen EXCEPT ![s] = Minus(@, Len(q))]
      /\ pend' = [pend EXCEPT ![s] = Adding(@, q)]
      /\ SetTim(IF empties THEN tim \ {aid[s]} ELSE tim, empties)

\* xmit_delivery_enabled_frames: the delivery-enabled frames leave
xmit_delivery_enabled_frames(s) ==
  LET q == Only(sleepq[s], uapsd[s])
      empties == ~has_legacy_ac(s) /\ \E k \in 1..Len(q) : Minus(acLen[s], k) = 0
  IN  /\ sleepq' = [sleepq EXCEPT ![s] = Only(@, AC \ uapsd[s])]
      /\ len' = [len EXCEPT ![s] = Minus(@, Len(q))]
      /\ acLen' = [acLen EXCEPT ![s] = Minus(@, Len(q))]
      /\ pend' = [pend EXCEPT ![s] = Adding(@, q)]
      /\ SetTim(IF empties THEN tim \ {aid[s]} ELSE tim, empties)

\* process_wmmps_data: a trigger is answered with the frames, or with a QoS
\* null that ends the service period
RxWmm ==
  /\ rx.pc = "wmm"
  /\ LET s == rx.s IN
     IF "sleep" \in st[s] /\ Wmm(s, rx.ac) /\ acLen[s] > 0
     THEN xmit_delivery_enabled_frames(s)
     ELSE UNCHANGED <<tim, ie, updateBcn, qVars>>
  /\ rx' = Idle
  /\ UNCHANGED <<staVars, dz, fly, bcn, chkCmd, cmd, disturbed, drift>>

-----------------------------------------------------------------------------
(* PS-Poll                                                                 *)

\* validate_recv_ctrl_frame: refused for a delivery-enabled category; hands
\* out the oldest frame, whatever its category, and does not count it in
\* sleepq_ac_len.  With an empty queue the lock is given back first.
RxPsPoll(s) ==
  /\ rx = Idle /\ "in" \in st[s] /\ aid[s] # BMC
  /\ ~Wmm(s, PollAC)
  /\ st' = [st EXCEPT ![s] = @ \ {"alive"}]
  /\ IF "sleep" \in st[s] /\ aid[s] \in dz
     THEN IF sleepq[s] # <<>>
          THEN /\ sleepq' = [sleepq EXCEPT ![s] = Tail(@)]
               /\ len' = [len EXCEPT ![s] = Minus(@, 1)]
               /\ pend' = [pend EXCEPT ![s][Head(sleepq[s])] = @ + 1]
               /\ SetTim(IF len'[s] = 0 THEN tim \ {aid[s]} ELSE tim, len'[s] = 0)
               /\ drift' = IF Wmm(s, Head(sleepq[s])) THEN drift \cup {s} ELSE drift
               /\ UNCHANGED <<acLen, rx>>
          ELSE /\ rx' = [Idle EXCEPT !.pc = "polled", !.s = s]
               /\ UNCHANGED <<qVars, tim, ie, updateBcn, drift>>
     ELSE UNCHANGED <<qVars, tim, ie, updateBcn, rx, drift>>
  /\ UNCHANGED <<aid, uapsd, dz, fly, bcn, chkCmd, cmd, disturbed>>

\* the empty branch, outside the lock: a null frame says nothing is buffered
\* (or the "error!" message and sleepq_len = 0), then the bit is cleared
RxPolled ==
  /\ rx.pc = "polled"
  /\ LET s == rx.s IN
     IF aid[s] \in tim
     THEN /\ len' = [len EXCEPT ![s] = 0]
          /\ disturbed' = IF len[s] # 0 THEN disturbed \cup {s} ELSE disturbed
          /\ rx' = [rx EXCEPT !.pc = "pollclr", !.ld = tim]
     ELSE rx' = Idle /\ UNCHANGED <<len, disturbed>>
  /\ UNCHANGED <<staVars, mapVars, sleepq, acLen, pend, fly, bcn, chkCmd, cmd, drift>>

\* rtw_tim_map_clear and update_beacon of that branch
RxPollClear ==
  /\ rx.pc = "pollclr"
  /\ SetTim(rx.ld \ {aid[rx.s]}, TRUE)
  /\ disturbed' = disturbed \cup Lost(tim, rx.ld)
                     \cup {s \in {rx.s} : MustAnnounce(s)} \cup ({aid[rx.s]} \cap {BMC})
  /\ rx' = Idle
  /\ UNCHANGED <<staVars, dz, qVars, fly, bcn, chkCmd, cmd, drift>>

-----------------------------------------------------------------------------
(* Association, expiry and departure                                       *)

\* OnAuth: a station enters the table, without an association id
OnAuth(s) ==
  /\ rx = Idle /\ st[s] = {}
  /\ st' = [st EXCEPT ![s] = {"in"}]
  /\ UNCHANGED <<aid, uapsd, mapVars, qVars, fly, bcn, chkCmd, rx, cmd,
                 disturbed, drift>>

\* OnAssocReq with rtw_ap_parse_sta_wmm_ie: also for a station that already is
\* associated, whose sleep state and counters stay as they are
OnAssocReq(s, u) ==
  /\ rx = Idle /\ "in" \in st[s] /\ cmd.s # s
  /\ st' = [st EXCEPT ![s] = @ \cup {"linked"}]
  /\ aid' = [aid EXCEPT ![s] = s]
  /\ uapsd' = [uapsd EXCEPT ![s] = u]
  /\ disturbed' = IF uapsd[s] # u /\ (sleepq[s] # <<>> \/ acLen[s] # 0)
                  THEN disturbed \cup {s} ELSE disturbed
  /\ UNCHANGED <<mapVars, qVars, fly, bcn, chkCmd, rx, cmd, drift>>

\* expire_timeout_chk, associated station whose countdown has run out and that
\* sleeps: psta->state is loaded ...
ExpireMark(s) ==
  /\ cmd = Idle /\ "linked" \in st[s]
  /\ "sleep" \in st[s] /\ "alive" \notin st[s]
  /\ cmd' = [Idle EXCEPT !.pc = "mark", !.s = s, !.ld = st[s]]
  /\ UNCHANGED <<staVars, mapVars, qVars, fly, bcn, chkCmd, rx, disturbed, drift>>

\* ... and stored with WIFI_STA_ALIVE_CHK_STATE; the TIM map is loaded ...
ExpireMarkStore ==
  /\ cmd.pc = "mark"
  /\ st' = [st EXCEPT ![cmd.s] = cmd.ld \cup {"alive"}]
  /\ disturbed' = IF st[cmd.s] # cmd.ld THEN disturbed \cup {cmd.s} ELSE disturbed
  /\ cmd' = [cmd EXCEPT !.pc = "tim", !.ld = tim]
  /\ UNCHANGED <<aid, uapsd, mapVars, qVars, fly, bcn, chkCmd, rx, drift>>

\* ... and stored with the station's bit, to make it answer; then the null
\* frame of the active keep-alive check goes out
ExpireTim ==
  /\ cmd.pc = "tim"
  /\ SetTim(cmd.ld \cup {aid[cmd.s]}, TRUE)
  /\ disturbed' = disturbed \cup Lost(tim, cmd.ld)
  /\ cmd' = [cmd EXCEPT !.pc = "aka", !.ld = {}]
  /\ UNCHANGED <<staVars, dz, qVars, fly, bcn, chkCmd, rx, drift>>

\* a station that is awake, or was marked before, goes straight to that check
ExpireCheck(s) ==
  /\ cmd = Idle /\ "linked" \in st[s]
  /\ "sleep" \in st[s] => "alive" \in st[s]
  /\ cmd' = [Idle EXCEPT !.pc = "aka", !.s = s]
  /\ UNCHANGED <<staVars, mapVars, qVars, fly, bcn, chkCmd, rx, disturbed, drift>>

\* issue_aka_chk_frame answered: the station stays
AkaAlive ==
  /\ cmd.pc = "aka"
  /\ cmd' = Idle
  /\ UNCHANGED <<staVars, mapVars, qVars, fly, bcn, chkCmd, rx, disturbed, drift>>

\* not answered: ap_free_sta with bss_cap_update_on_sta_leave
AkaDead ==
  /\ cmd.pc = "aka" /\ "linked" \in st[cmd.s]
  /\ st' = [st EXCEPT ![cmd.s] = @ \ {"linked"}]
  /\ cmd' = IF aid[cmd.s] \in tim THEN [cmd EXCEPT !.pc = "left", !.ld = tim]
                                  ELSE [cmd EXCEPT !.pc = "free"]
  /\ UNCHANGED <<aid, uapsd, mapVars, qVars, fly, bcn, chkCmd, rx, disturbed, drift>>

StaLeft ==
  /\ cmd.pc = "left"
  /\ SetTim(cmd.ld \ {aid[cmd.s]}, TRUE)
  /\ disturbed' = disturbed \cup Lost(tim, cmd.ld)
  /\ cmd' = [cmd EXCEPT !.pc = "free", !.ld = {}]
  /\ UNCHANGED <<staVars, dz, qVars, fly, bcn, chkCmd, rx, drift>>

\* an authenticated station that never associated expires
AuthExpire(s) ==
  /\ cmd = Idle /\ "in" \in st[s] /\ aid[s] = BMC
  /\ cmd' = [Idle EXCEPT !.pc = "free", !.s = s]
  /\ UNCHANGED <<staVars, mapVars, qVars, fly, bcn, chkCmd, rx, disturbed, drift>>

rtw_free_stainfo_KeepDoze ==  \* mutant: sta_dz_bitmap is not cleared
  /\ cmd.pc = "free"
  /\ LET s == cmd.s IN
     /\ st' = [st EXCEPT ![s] = {}]
     /\ aid' = [aid EXCEPT ![s] = BMC]
     /\ uapsd' = [uapsd EXCEPT ![s] = {}]
     /\ sleepq' = [sleepq EXCEPT ![s] = <<>>]
     /\ len' = [len EXCEPT ![s] = 0]
     /\ acLen' = [acLen EXCEPT ![s] = 0]
     /\ pend' = [pend EXCEPT ![s] = NoPend]
     /\ tim' = tim \ {aid[s]}
     /\ disturbed' = (disturbed \ {s})
                       \cup (IF aid[s] = BMC /\ BMC \in tim THEN {BMC} ELSE {})
     /\ drift' = drift \ {s}
  /\ cmd' = Idle
  /\ UNCHANGED <<dz, ie, updateBcn, fly, bcn, chkCmd, rx>>

\* rtw_free_stainfo: the queues are emptied under the lock, then the bits of
\* psta->cmn.aid are cleared, which is bit 0 for a station without an id.  It
\* does not wait for a receive tasklet that is still working for the station.
rtw_free_stainfo ==
  /\ cmd.pc = "free"
  /\ LET s == cmd.s IN
     /\ st' = [st EXCEPT ![s] = {}]
     /\ aid' = [aid EXCEPT ![s] = BMC]
     /\ uapsd' = [uapsd EXCEPT ![s] = {}]
     /\ sleepq' = [sleepq EXCEPT ![s] = <<>>]
     /\ len' = [len EXCEPT ![s] = 0]
     /\ acLen' = [acLen EXCEPT ![s] = 0]
     /\ pend' = [pend EXCEPT ![s] = NoPend]
     /\ dz' = dz \ {aid[s]}
     /\ tim' = tim \ {aid[s]}
     /\ disturbed' = (disturbed \ {s})
                       \cup (IF aid[s] = BMC /\ BMC \in tim THEN {BMC} ELSE {})
     /\ drift' = drift \ {s}
  /\ cmd' = Idle
  /\ UNCHANGED <<ie, updateBcn, fly, bcn, chkCmd, rx>>

\* expire_timeout_chk, aging: the queue of a station that hoards the pool
ExpireAging(s) ==
  LET n == Cardinality({x \in Sta : "linked" \in st[x]}) IN
  /\ cmd = Idle /\ "linked" \in st[s]
  /\ len[s] > NR_XMITFRAME \div n
  /\ 2 * (NR_XMITFRAME - Used) < NR_XMITFRAME \div n
  /\ wakeup_sta_to_xmit(s)
  /\ cmd' = IF TimMasked(s) THEN [Idle EXCEPT !.pc = "bcn", !.s = s] ELSE Idle
  /\ UNCHANGED <<ie, updateBcn, chkCmd, fly, bcn, rx, disturbed, drift>>

AgingBeacon ==
  /\ cmd.pc = "bcn"
  /\ _update_beacon(tim)
  /\ cmd' = Idle
  /\ UNCHANGED <<staVars, tim, dz, qVars, fly, bcn, chkCmd, rx, disturbed, drift>>

-----------------------------------------------------------------------------
(* Group frames and the beacon                                             *)

\* chk_bmc_sleepq_hdl
chk_bmc_sleepq_hdl ==
  IF BMC \in tim /\ len[BMC] > 0
  THEN /\ sleepq' = [sleepq EXCEPT ![BMC] = <<>>]
       /\ len' = [len EXCEPT ![BMC] = Minus(@, Len(sleepq[BMC]))]
       /\ pend' = [pend EXCEPT ![BMC] = Adding(@, sleepq[BMC])]
       /\ UNCHANGED acLen
  ELSE UNCHANGED qVars

\* the command of chk_bmc_sleepq_cmd
CmdChkBmc ==
  /\ chkCmd /\ cmd = Idle
  /\ chk_bmc_sleepq_hdl
  /\ chkCmd' = FALSE
  /\ UNCHANGED <<staVars, mapVars, fly, bcn, rx, cmd, disturbed, drift>>

\* rtl8821ce_prepare_bcn_tasklet: tx_beacon_hdl sends the beacon (issue_beacon
\* clears update_bcn under bcn_update_lock) and then the group frames
BcnSend ==
  /\ bcn = "idle" /\ updateBcn
  /\ updateBcn' = FALSE
  /\ bcn' = "flush"
  /\ UNCHANGED <<staVars, tim, dz, ie, qVars, fly, chkCmd, rx, cmd, disturbed, drift>>

BcnFlush ==
  /\ bcn = "flush"
  /\ chk_bmc_sleepq_hdl
  /\ bcn' = "idle"
  /\ UNCHANGED <<staVars, mapVars, fly, chkCmd, rx, cmd, disturbed, drift>>

-----------------------------------------------------------------------------
Next ==
  \/ \E x \in Dest, ac \in AC : TxCheck(x, ac)
  \/ TxHal
  \/ \E x \in Dest, ac \in AC : HalTake(x, ac)
  \/ \E s \in Sta, pm \in BOOLEAN, ac \in AC \cup {None} : RxData(s, pm, ac)
  \/ RxBeacon \/ RxWmm
  \/ \E s \in Sta : RxPsPoll(s)
  \/ RxPolled \/ RxPollClear
  \/ \E s \in Sta : OnAuth(s)
  \/ \E s \in Sta, u \in Uapsd : OnAssocReq(s, u)
  \/ \E s \in Sta : ExpireMark(s) \/ ExpireCheck(s) \/ AuthExpire(s) \/ ExpireAging(s)
  \/ ExpireMarkStore \/ ExpireTim \/ AkaAlive \/ AkaDead \/ StaLeft
  \/ rtw_free_stainfo \/ AgingBeacon
  \/ CmdChkBmc \/ BcnSend \/ BcnFlush

Spec == Init /\ [][Next]_vars

\* What the receive tasklet and the command thread go on to do once they have
\* begun.
RxStep == RxBeacon \/ RxWmm \/ RxPolled \/ RxPollClear
CmdStep ==
  \/ ExpireMarkStore \/ ExpireTim \/ AkaAlive \/ AkaDead
  \/ StaLeft \/ rtw_free_stainfo \/ AgingBeacon

\* Tasklets that are scheduled and the command thread run.
Fairness ==
  /\ WF_vars(RxStep) /\ WF_vars(CmdStep)
  /\ SF_vars(CmdChkBmc) /\ WF_vars(BcnSend) /\ WF_vars(BcnFlush)

FairSpec == Spec /\ Fairness

-----------------------------------------------------------------------------
(* Properties                                                              *)

\* Every variable keeps its type, and frames are never duplicated: all queues
\* together hold no more than the pool of xmit_frames.
TypeOK ==
  /\ st \in [Sta -> SUBSET {"in", "linked", "sleep", "alive"}]
  /\ aid \in [Sta -> Dest] /\ uapsd \in [Sta -> SUBSET AC]
  /\ tim \subseteq Dest /\ dz \subseteq Dest /\ ie \subseteq Dest
  /\ sleepq \in [Dest -> Seq(AC)]
  /\ len \in [Dest -> 0..U32 - 1] /\ acLen \in [Dest -> 0..U32 - 1]
  /\ pend \in [Dest -> [AC -> Nat]]
  /\ Used <= NR_XMITFRAME

\* No further than the first step that disturbs a station: the invariants
\* say nothing about it from there on.
Undisturbed == disturbed = {}

\* sleepq_len is the number of frames in the queue, for every destination and
\* through every path that moves frames (sending, falling asleep, waking,
\* PS-Poll, trigger, group flush, departure): wakeup_sta_to_xmit takes the
\* station for awake only if the count comes out as 0.  sleepq_ac_len is the
\* number of delivery-enabled frames in it, unless a PS-Poll took one: it
\* decides between delivery and a QoS null.
CountersExact ==
  /\ \A x \in Dest \ disturbed : len[x] = Len(sleepq[x])
  /\ \A s \in Sta \ (disturbed \cup drift) : acLen[s] = CountWmm(s, sleepq[s])

\* A frame that needs the TIM bit of its station keeps it until it has left
\* the sleep queue, whoever else polls, wakes, expires or sends meanwhile; and
\* group frames wait only under bit 0 of both maps, without which
\* chk_bmc_sleepq_hdl would never send them.
BufferedIsAnnounced ==
  /\ \A s \in Sta \ disturbed :
       "linked" \in st[s] /\ MustAnnounce(s) => aid[s] \in tim
  /\ sleepq[BMC] # <<>> /\ BMC \notin disturbed => BMC \in tim /\ BMC \in dz

\* What process_pwrbit_data and wakeup_sta_to_xmit change together agrees: the
\* sleep bit of psta->state and the bit of sta_dz_bitmap of an associated
\* station, and an awake station has nothing buffered.
DozeAgrees ==
  \A s \in Sta \ disturbed :
    "linked" \in st[s] =>
      /\ ("sleep" \in st[s]) = (aid[s] \in dz)
      /\ "sleep" \notin st[s] => sleepq[s] = <<>>

\* Whenever no context is between changing a bit of tim_bitmap and its beacon
\* update, the TIM element of the beacon and the map agree.
BeaconAgrees ==
  rx.pc # "bcn" /\ cmd.pc # "bcn" =>
    \A s \in Sta \ disturbed : (s \in ie) = (s \in tim)

\* The copies of a station's state that are changed together and read
\* separately agree: the sleep bit with the doze map and the queue, and the
\* beacon with the TIM map.
MapsAgree == DozeAgrees /\ BeaconAgrees

\* A buffered group frame is sent: the first one by the beacon tasklet after
\* the beacon that announces it, a later one by the command, all when the last
\* dozing station wakes.
GroupFrameLeaves == sleepq[BMC] # <<>> ~> sleepq[BMC] = <<>>
=============================================================================
