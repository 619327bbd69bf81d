------------------------------ MODULE RxReorder ------------------------------
(***************************************************************************)
(* Receive reordering of one (station, TID) pair: struct recv_reorder_ctrl *)
(* of include/rtw_recv.h and the code of core/rtw_recv.c that works on it. *)
(*                                                                         *)
(* Four contexts share the structure:                                      *)
(*   - the receive tasklet (data frames, BlockAckReq, DELBA, ADDBA req),   *)
(*   - the reordering timer,                                               *)
(*   - the command thread (ADDBA response, station removal),               *)
(*   - the owner of the driver, who stops it.                              *)
(* The pending queue is guarded by a spin lock, indicate_seq and enable    *)
(* are not: the command thread and the tasklet's BlockAckReq path write    *)
(* them without it.  The indication loop is therefore one step per frame.  *)
(*                                                                         *)
(* A frame is its absolute number n, which no code reads: the code sees    *)
(* SeqNum(n) only.  The originator keeps a block-ack window and may send   *)
(* any frame of it any number of times.                                    *)
(***************************************************************************)
EXTENDS Integers, Sequences

CONSTANTS
  SnSize,     \* size of the sequence number space (4096)
  WSize,      \* wsize_b, the reordering window (64)
  MaxGap,     \* how far the originator runs ahead of the last frame we got
  First,      \* number of the first frame of the association
  LastFrame,  \* bound: number of the last frame the originator has
  MaxRx,      \* bound: receptions, retransmissions included
  BadMpdus,   \* frames that fail conversion in recv_process_mpdu
  Events      \* which of "bar", "delba", "addba", "free", "stop" happen

ASSUME SizeAssumption ==
  /\ SnSize \in Nat /\ WSize \in Nat \ {0} /\ MaxGap \in Nat
  /\ SnSize % 2 = 0
  /\ 2 * (MaxGap + 2 * WSize) <= SnSize

ASSUME BoundAssumption ==
  /\ First \in Nat /\ LastFrame \in Nat /\ MaxRx \in Nat
  /\ First >= WSize
  /\ Events \subseteq {"bar", "delba", "addba", "free", "stop"}

VARIABLES
  enable,           \* reorder_ctrl->enable
  indicate_seq,     \* reorder_ctrl->indicate_seq, Unset or a sequence number
  pending,          \* pending_recvframe_queue: frames, in list order
  bReorderWaiting,  \* reorder_ctrl->bReorderWaiting
  timer,            \* reordering_ctrl_timer is pending
  tm,               \* timer handler: "idle", "fired", "indicate"
  rx,               \* receive tasklet: its place in recv_func_posthandle
  cur,              \* the frame in the tasklet's hands
  tid_rxseq,        \* rxcache.tid_rxseq[tid]: last sequence number seen
  addba,            \* command thread in add_ba_rsp_hdl: "none", "reset", "enable"
  sta,              \* "linked", "unhashed", "cancelled", "freed"
  stopped,          \* RTW_CANNOT_RUN
  rx_drop,          \* recv_priv.rx_drop (a u64: negative here is a wrap)
  \* the originator
  win,              \* first frame of the originator's window
  hi,               \* highest frame past recv_decache
  budget,           \* receptions left
  \* history
  wstart,           \* absolute number behind indicate_seq
  up                \* frames indicated to the network stack, in order

ctrl   == <<enable, indicate_seq, pending, bReorderWaiting>>
peer   == <<win, hi, budget>>
vars   == <<enable, indicate_seq, pending, bReorderWaiting, timer, tm, rx, cur,
            tid_rxseq, addba, sta, stopped, rx_drop, win, hi, budget, wstart, up>>

-----------------------------------------------------------------------------
(* Sequence number arithmetic.                                             *)

SeqNum(n) == n % SnSize

\* indicate_seq == 0xFFFF; 16 bits hold 16 times the 12-bit space.
Unset == 16 * SnSize - 1

\* SN_LESS(a, b): the top bit of the difference in SnSize arithmetic.
SnLess(a, b) == (a - b) % SnSize >= SnSize \div 2

LockFree == rx \notin {"enqueue", "indicate"} /\ tm # "indicate"

\* recv_process_mpdu: hand a frame to the stack, or free it when the driver
\* is stopped or the conversion to Ethernet fails.
Process(n) == up' = IF stopped \/ n \in BadMpdus THEN up ELSE Append(up, n)

-----------------------------------------------------------------------------
(* rtw_alloc_stainfo, then the first accepted block-ack agreement.         *)

Init ==
  /\ enable = TRUE
  /\ indicate_seq = Unset
  /\ pending = <<>>
  /\ bReorderWaiting = FALSE
  /\ timer = FALSE
  /\ tm = "idle"
  /\ rx = "idle"
  /\ cur = First
  /\ tid_rxseq = Unset
  /\ addba = "none"
  /\ sta = "linked"
  /\ stopped = FALSE
  /\ rx_drop = 0
  /\ win = First
  /\ hi = First - 1
  /\ budget = MaxRx
  /\ wstart = First
  /\ up = <<>>

-----------------------------------------------------------------------------
(* The originator (IEEE 802.11 block ack): its window moves when a frame   *)
(* is acknowledged or given up.                                            *)

Advance ==
  /\ win < hi + MaxGap
  /\ win < LastFrame
  /\ win' = win + 1
  /\ UNCHANGED <<ctrl, timer, tm, rx, cur, tid_rxseq, addba, sta, stopped,
                 rx_drop, hi, budget, wstart, up>>

-----------------------------------------------------------------------------
(* The receive tasklet.                                                    *)

\* validate_recv_data_frame: find the station, drop an immediate repeat.
RxValidate(n) ==
  /\ rx = "idle" /\ sta = "linked" /\ budget > 0
  /\ n \in win .. win + WSize - 1
  /\ n <= LastFrame
  /\ budget' = budget - 1
  /\ tid_rxseq' = SeqNum(n)
  /\ IF tid_rxseq = SeqNum(n)
       THEN UNCHANGED <<rx, cur, hi>>
       ELSE rx' = "posthandle" /\ cur' = n /\ hi' = IF n > hi THEN n ELSE hi
  /\ UNCHANGED <<ctrl, timer, tm, addba, sta, stopped, rx_drop, win, wstart, up>>

\* No agreement: recv_set_iseq_before_mpdu_process and the indication.
RxDirect ==
  /\ rx = "posthandle" /\ ~enable
  /\ indicate_seq' = SeqNum(cur)
  /\ wstart' = cur
  /\ Process(cur)
  /\ rx' = "after"
  /\ UNCHANGED <<enable, pending, bReorderWaiting, timer, tm, cur, tid_rxseq,
                 addba, sta, stopped, rx_drop, peer>>

\* recv_set_iseq_after_mpdu_process
RxDirectAfter ==
  /\ rx = "after"
  /\ indicate_seq' = (indicate_seq + 1) % SnSize
  /\ wstart' = wstart + 1
  /\ rx' = "idle"
  /\ UNCHANGED <<enable, pending, bReorderWaiting, timer, tm, cur, tid_rxseq,
                 addba, sta, stopped, rx_drop, peer, up>>

\* check_indicate_seq: where the window starts before and after frame n.
WinStart(n) == IF indicate_seq = Unset THEN SeqNum(n) ELSE indicate_seq

Stale(n) == SnLess(SeqNum(n), WinStart(n))

BeyondWindow(n) == SnLess((WinStart(n) + WSize - 1) % SnSize, SeqNum(n))

\* The two branches of the code at the wrap of the sequence number space.
ShiftedStart(s) ==
  IF s >= WSize - 1 THEN s + 1 - WSize ELSE (SnSize - 1) - (WSize - (s + 1)) + 1

RxCheck ==
  /\ rx = "posthandle" /\ enable /\ LockFree
  /\ LET s == SeqNum(cur)
         base == IF indicate_seq = Unset THEN cur ELSE wstart
     IN \/ /\ Stale(cur)
           /\ rx' = "idle"
           /\ indicate_seq' = WinStart(cur) /\ wstart' = base
        \/ /\ ~Stale(cur) /\ s = WinStart(cur)
           /\ rx' = "enqueue"
           /\ indicate_seq' = (s + 1) % SnSize /\ wstart' = base + 1
        \/ /\ ~Stale(cur) /\ s # WinStart(cur) /\ BeyondWindow(cur)
           /\ rx' = "enqueue"
           /\ indicate_seq' = ShiftedStart(s) /\ wstart' = cur + 1 - WSize
        \/ /\ ~Stale(cur) /\ s # WinStart(cur) /\ ~BeyondWindow(cur)
           /\ rx' = "enqueue"
           /\ UNCHANGED <<indicate_seq, wstart>>
  /\ UNCHANGED <<enable, pending, bReorderWaiting, timer, tm, cur, tid_rxseq,
                 addba, sta, stopped, rx_drop, peer, up>>

\* mutant: append, never look for the place
InsertAt_Tail(q, n, i) == i = Len(q) + 1

\* mutant: an entry that is equal is passed over
InsertAt_PastEqual(q, n, i) ==
  /\ \A j \in 1 .. i - 1 : ~SnLess(SeqNum(n), SeqNum(q[j]))
  /\ i <= Len(q) => SnLess(SeqNum(n), SeqNum(q[i]))

\* enqueue_reorder_recvframe: place i of queue q is in front of the first
\* entry that is not SN_LESS than frame n.
InsertAt(q, n, i) ==
  /\ \A j \in 1 .. i - 1 : SnLess(SeqNum(q[j]), SeqNum(n))
  /\ i <= Len(q) => ~SnLess(SeqNum(q[i]), SeqNum(n))

Inserted(q, i, n) == [j \in 1 .. Len(q) + 1 |->
                        IF j < i THEN q[j] ELSE IF j = i THEN n ELSE q[j - 1]]

\* An equal entry at that place makes the frame a duplicate.
RxEnqueue ==
  /\ rx = "enqueue"
  /\ \E i \in 1 .. Len(pending) + 1 :
       /\ InsertAt(pending, cur, i)
       /\ IF i <= Len(pending) /\ SeqNum(pending[i]) = SeqNum(cur)
            THEN rx' = "idle" /\ UNCHANGED pending
            ELSE rx' = "indicate" /\ pending' = Inserted(pending, i, cur)
  /\ UNCHANGED <<enable, indicate_seq, bReorderWaiting, timer, tm, cur, tid_rxseq,
                 addba, sta, stopped, rx_drop, peer, wstart, up>>

\* One turn of the loop of recv_indicatepkts_in_order.
Releasable == pending # <<>> /\ ~SnLess(indicate_seq, SeqNum(Head(pending)))

Release ==
  /\ Releasable
  /\ pending' = Tail(pending)
  /\ IF indicate_seq = SeqNum(Head(pending))
       THEN indicate_seq' = (indicate_seq + 1) % SnSize /\ wstart' = wstart + 1
       ELSE UNCHANGED <<indicate_seq, wstart>>
  /\ Process(Head(pending))

RxRelease ==
  /\ rx = "indicate"
  /\ Release
  /\ UNCHANGED <<enable, bReorderWaiting, timer, tm, rx, cur, tid_rxseq, addba,
                 sta, stopped, rx_drop, peer>>

\* The end of recv_indicatepkt_reorder: arm the timer under the lock, or
\* release the lock and go on to cancel it.
RxIndicated ==
  /\ rx = "indicate" /\ ~Releasable
  /\ IF pending # <<>>
       THEN /\ bReorderWaiting' = TRUE
            /\ timer' = (timer \/ ~bReorderWaiting)
            /\ rx' = "idle"
       ELSE /\ bReorderWaiting' = FALSE
            /\ rx' = "cancel"
            /\ UNCHANGED timer
  /\ UNCHANGED <<enable, indicate_seq, pending, tm, cur, tid_rxseq, addba, sta,
                 stopped, rx_drop, peer, wstart, up>>

\* _cancel_timer_ex is del_timer_sync: it waits for a running handler.
RxCancel ==
  /\ rx = "cancel" /\ tm = "idle"
  /\ timer' = FALSE
  /\ rx' = "idle"
  /\ UNCHANGED <<ctrl, tm, cur, tid_rxseq, addba, sta, stopped, rx_drop, peer,
                 wstart, up>>

\* rtw_process_bar_frame: the window start is overwritten, whatever it was.
RxBar ==
  /\ "bar" \in Events
  /\ rx = "idle" /\ sta = "linked" /\ budget > 0
  /\ budget' = budget - 1
  /\ indicate_seq' = SeqNum(win)
  /\ wstart' = win
  /\ UNCHANGED <<enable, pending, bReorderWaiting, timer, tm, rx, cur, tid_rxseq,
                 addba, sta, stopped, rx_drop, win, hi, up>>

\* DELBA from the originator (OnAction_back), or ours (_send_delba_sta_tid).
Delba ==
  /\ "delba" \in Events
  /\ enable /\ sta = "linked"
  /\ enable' = FALSE
  /\ UNCHANGED <<indicate_seq, pending, bReorderWaiting, timer, tm, rx, cur,
                 tid_rxseq, addba, sta, stopped, rx_drop, peer, wstart, up>>

-----------------------------------------------------------------------------
(* The command thread: add_ba_rsp_hdl, after the response is on the air.   *)

AddbaReq ==
  /\ "addba" \in Events
  /\ addba = "none" /\ sta = "linked" /\ budget > 0
  /\ budget' = budget - 1
  /\ addba' = "reset"
  /\ UNCHANGED <<ctrl, timer, tm, rx, cur, tid_rxseq, sta, stopped, rx_drop,
                 win, hi, wstart, up>>

AddbaReset ==
  /\ addba = "reset"
  /\ indicate_seq' = Unset
  /\ addba' = "enable"
  /\ UNCHANGED <<enable, pending, bReorderWaiting, timer, tm, rx, cur, tid_rxseq,
                 sta, stopped, rx_drop, peer, wstart, up>>

\* status 0 accepts the agreement, status 37 rejects it.
AddbaEnable(accept) ==
  /\ addba = "enable"
  /\ enable' = accept
  /\ addba' = "none"
  /\ UNCHANGED <<indicate_seq, pending, bReorderWaiting, timer, tm, rx, cur,
                 tid_rxseq, sta, stopped, rx_drop, peer, wstart, up>>

-----------------------------------------------------------------------------
(* The timer.                                                              *)

TimerFire ==
  /\ timer /\ tm = "idle"
  /\ timer' = FALSE
  /\ tm' = IF stopped THEN "idle" ELSE "fired"
  /\ UNCHANGED <<ctrl, rx, cur, tid_rxseq, addba, sta, stopped, rx_drop, peer,
                 wstart, up>>

\* mutant: the wrap branch is missing
LossCnt_NoWrap(prev, now) == now - prev

\* recv_indicatepkts_pkt_loss_cnt
LossCnt(prev, now) == IF now < prev THEN SnSize + now - prev ELSE now - prev

\* mutant: the handler leaves bReorderWaiting set
TimerEnter_StillWaiting ==
  /\ tm = "fired" /\ LockFree
  /\ IF pending = <<>>
       THEN timer' = TRUE /\ tm' = "idle" /\ UNCHANGED <<indicate_seq, wstart, rx_drop>>
       ELSE /\ rx_drop' = rx_drop + LossCnt(indicate_seq, SeqNum(Head(pending)))
            /\ indicate_seq' = SeqNum(Head(pending))
            /\ wstart' = Head(pending)
            /\ tm' = "indicate"
            /\ UNCHANGED timer
  /\ UNCHANGED <<enable, pending, bReorderWaiting, rx, cur, tid_rxseq, addba, sta,
                 stopped, peer, up>>

\* rtw_reordering_ctrl_timeout_handler up to the loop.  An empty queue
\* counts as "packets in buffer": the handler arms the timer again.
TimerEnter ==
  /\ tm = "fired" /\ LockFree
  /\ bReorderWaiting' = FALSE
  /\ IF pending = <<>>
       THEN /\ timer' = TRUE
            /\ tm' = "idle"
            /\ UNCHANGED <<indicate_seq, wstart, rx_drop>>
       ELSE /\ rx_drop' = rx_drop + LossCnt(indicate_seq, SeqNum(Head(pending)))
            /\ indicate_seq' = SeqNum(Head(pending))
            /\ wstart' = Head(pending)
            /\ tm' = "indicate"
            /\ UNCHANGED timer
  /\ UNCHANGED <<enable, pending, rx, cur, tid_rxseq, addba, sta, stopped, peer, up>>

TimerRelease ==
  /\ tm = "indicate"
  /\ Release
  /\ UNCHANGED <<enable, bReorderWaiting, timer, tm, rx, cur, tid_rxseq, addba,
                 sta, stopped, rx_drop, peer>>

\* mutant: the handler does not arm the timer again
TimerIndicated_OneShot ==
  /\ tm = "indicate" /\ ~Releasable
  /\ tm' = "idle"
  /\ UNCHANGED <<ctrl, timer, rx, cur, tid_rxseq, addba, sta, stopped, rx_drop,
                 peer, wstart, up>>

TimerIndicated ==
  /\ tm = "indicate" /\ ~Releasable
  /\ timer' = (timer \/ pending # <<>>)
  /\ tm' = "idle"
  /\ UNCHANGED <<ctrl, rx, cur, tid_rxseq, addba, sta, stopped, rx_drop, peer,
                 wstart, up>>

-----------------------------------------------------------------------------
(* rtw_free_stainfo, and the driver being stopped.                         *)

StaUnhash ==
  /\ "free" \in Events
  /\ sta = "linked" /\ addba = "none"
  /\ sta' = "unhashed"
  /\ UNCHANGED <<ctrl, timer, tm, rx, cur, tid_rxseq, addba, stopped, rx_drop,
                 peer, wstart, up>>

StaCancel ==
  /\ sta = "unhashed" /\ tm = "idle"
  /\ timer' = FALSE
  /\ sta' = "cancelled"
  /\ UNCHANGED <<ctrl, tm, rx, cur, tid_rxseq, addba, stopped, rx_drop, peer,
                 wstart, up>>

StaFlush ==
  /\ sta = "cancelled" /\ LockFree
  /\ pending' = <<>>
  /\ sta' = "freed"
  /\ UNCHANGED <<enable, indicate_seq, bReorderWaiting, timer, tm, rx, cur,
                 tid_rxseq, addba, stopped, rx_drop, peer, wstart, up>>

DriverStop ==
  /\ "stop" \in Events
  /\ ~stopped
  /\ stopped' = TRUE
  /\ UNCHANGED <<ctrl, timer, tm, rx, cur, tid_rxseq, addba, sta, rx_drop, peer,
                 wstart, up>>

-----------------------------------------------------------------------------
RxTasklet == \/ RxDirect \/ RxDirectAfter \/ RxCheck \/ RxEnqueue
             \/ RxRelease \/ RxIndicated \/ RxCancel

Timer == TimerEnter \/ TimerRelease \/ TimerIndicated

CmdThread == AddbaReset \/ (\E accept \in BOOLEAN : AddbaEnable(accept))

Next ==
  \/ Advance
  \/ \E n \in win .. win + WSize - 1 : RxValidate(n)
  \/ RxTasklet
  \/ RxBar
  \/ Delba
  \/ AddbaReq
  \/ CmdThread
  \/ TimerFire
  \/ Timer
  \/ StaUnhash
  \/ StaCancel
  \/ StaFlush
  \/ DriverStop

Spec == Init /\ [][Next]_vars

\* The kernel runs a scheduled tasklet, an expired timer and a woken thread;
\* nothing forces a frame to arrive or a station to leave.
Fairness ==
  /\ WF_vars(RxTasklet)
  /\ WF_vars(TimerFire)
  /\ WF_vars(Timer)
  /\ WF_vars(CmdThread)
  /\ WF_vars(StaCancel)
  /\ WF_vars(StaFlush)

FairSpec == Spec /\ Fairness

-----------------------------------------------------------------------------
(* Properties.                                                             *)

\* Types of the fields of recv_reorder_ctrl and of the contexts.
TypeOK ==
  /\ enable \in BOOLEAN
  /\ indicate_seq \in 0 .. SnSize - 1 \cup {Unset}
  /\ pending \in Seq(Nat)
  /\ bReorderWaiting \in BOOLEAN
  /\ timer \in BOOLEAN
  /\ tm \in {"idle", "fired", "indicate"}
  /\ rx \in {"idle", "posthandle", "after", "enqueue", "indicate", "cancel"}
  /\ cur \in Nat
  /\ tid_rxseq \in 0 .. SnSize - 1 \cup {Unset}
  /\ addba \in {"none", "reset", "enable"}
  /\ sta \in {"linked", "unhashed", "cancelled", "freed"}
  /\ stopped \in BOOLEAN
  /\ rx_drop \in Int
  /\ win \in Nat /\ hi \in Nat /\ budget \in Nat
  /\ wstart \in Nat
  /\ up \in Seq(Nat)

\* Within one block-ack agreement the stack sees every frame at most once and
\* in the order the originator numbered them, although the code compares
\* 12-bit numbers that wrap, the timer skips holes and frames are repeated
\* (check_indicate_seq, enqueue_reorder_recvframe, recv_indicatepkts_in_order).
InOrder == \A i, j \in 1 .. Len(up) : i < j => up[i] < up[j]

\* While nobody holds the queue lock, the queue is sorted and holds only
\* frames the window start has not passed and that lie within wsize_b of it:
\* a bounded queue, whatever the originator sends.
WindowHolds ==
  LockFree =>
    /\ \A i \in 1 .. Len(pending) : pending[i] \in wstart + 1 .. wstart + WSize - 1
    /\ \A i, j \in 1 .. Len(pending) : i < j => pending[i] < pending[j]

\* No entry of the queue has the sequence number of another one, whatever
\* BlockAckReq, DELBA and ADDBA did to the window in between.  (Nothing in the
\* code flushes the queue when the agreement changes: only the timer keeps the
\* originator from getting half the number space ahead of a queued frame.)
NoTwins ==
  \A i, j \in 1 .. Len(pending) :
    SeqNum(pending[i]) = SeqNum(pending[j]) => i = j

\* A frame that waits has a timer that will release it: between the unlock
\* and _cancel_timer_ex in recv_indicatepkt_reorder, and after the handler's
\* own re-arming, no interleaving leaves frames in the queue without one.
NothingStuck ==
  (LockFree /\ pending # <<>> /\ sta = "linked" /\ ~stopped)
    => timer \/ tm = "fired"

\* The queue and the frames indicated implement the in-order buffer of
\* InOrderDelivery: every release takes the oldest frame of the queue, and no
\* frame is accepted that a later one has overtaken.
Abs == INSTANCE InOrderDelivery WITH
         Frame <- First .. LastFrame,
         buf <- {pending[i] : i \in 1 .. Len(pending)},
         out <- up

DeliversInOrder == Abs!Spec

\* rx_drop grows by exactly the frames a forced release gives up, wrap or not
\* (recv_indicatepkts_pkt_loss_cnt).
LossExact == [][rx_drop' # rx_drop => rx_drop' - rx_drop = wstart' - wstart]_vars

\* Every frame put into the queue leaves it: the reordering timer bounds the
\* wait for a hole (rtw_reordering_ctrl_timeout_handler).
PendingDrains ==
  \A n \in First .. LastFrame :
    (\E i \in 1 .. Len(pending) : pending[i] = n)
      ~> (stopped \/ \A i \in 1 .. Len(pending) : pending[i] # n)

=============================================================================
