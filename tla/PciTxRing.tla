----------------------------- MODULE PciTxRing -----------------------------
(***************************************************************************)
(* The transmit rings of the PCI bus: hal/rtl8821c/pci/rtl8821ce_xmit.c    *)
(* with the interrupt and reset code of rtl8821ce_ops.c.                   *)
(*                                                                         *)
(* A ring is an array of buffer descriptors shared with the device.  The   *)
(* driver fills the slot behind the newest descriptor and moves the        *)
(* device's write pointer; the device fetches a frame by DMA, moves its    *)
(* read pointer and raises an interrupt; the handler compares the read     *)
(* pointer (through a cached copy) with the oldest descriptor and gives    *)
(* the buffers back.  A frame that finds no room waits in a software queue *)
(* that a tasklet empties once the handler has drained a ring.             *)
(*                                                                         *)
(* Contexts that send, the tasklet, the interrupt handler and the device   *)
(* run in parallel.  pxmitpriv->lock guards the software queues,           *)
(* irq_th_lock the rings; the tests for a free descriptor take neither the *)
(* second lock nor keep the first one.                                     *)
(***************************************************************************)
EXTENDS Integers, Sequences, FiniteSets

CONSTANTS
  Ring,         \* the rings, numbered in the order the handler serves them
  Entries,      \* ring->entries
  Flow,         \* (station, access category) pairs with a software queue
  RingOf,       \* rtw_get_ff_hwaddr of a flow's frames
  CheckedRing,  \* the ring check_nic_enough_desc looks at for that flow
  Mgnt,         \* the frames of rtl8821ce_mgnt_xmit
  MgntRing,     \* MGT_QUEUE_INX
  DataBuf,      \* buffers of free_xmitbuf_queue
  MgntBuf,      \* buffers of free_xmit_extbuf_queue
  Sender,       \* kernel contexts that send
  Tasklet,      \* xmit_tasklet
  NoBuf,        \* no buffer: a null pxmitbuf, a descriptor never filled
  MaxFrags,     \* bound: fragments of a frame (1 unless frag_len is lowered)
  MaxFrames,    \* bound: frames offered
  MaxBlocks,    \* bound: scans and joins
  MaxStops      \* bound: stops of the interface

Nobody == "nobody"  \* the holder of a lock that is free

ASSUME RingAssumption ==
  /\ Ring \subseteq Nat /\ IsFiniteSet(Ring)
  /\ Entries \in Nat /\ Entries >= 2
  /\ RingOf \in [Flow -> Ring] /\ CheckedRing \in [Flow -> Ring]
  /\ MgntRing \in Ring /\ \A f \in Flow : RingOf[f] # MgntRing
  /\ Mgnt \notin Flow /\ Tasklet \notin Sender /\ Nobody \notin Sender
  /\ DataBuf \cap MgntBuf = {} /\ NoBuf \notin DataBuf \cup MgntBuf
  /\ MaxFrags \in Nat \ {0} /\ MaxFrames \in Nat
  /\ MaxBlocks \in Nat /\ MaxStops \in Nat

Buf == DataBuf \cup MgntBuf
Context == Sender \cup {Tasklet}

VARIABLES
  \* struct rtw_tx_ring
  idx,        \* oldest descriptor not reclaimed
  qlen,       \* descriptors in use, as counted
  list,       \* ring->queue: the buffers in use, oldest first
  cache,      \* hw_rp_cache
  desc,       \* buf_desc[]: the buffer each descriptor points to
  \* the device
  hwRp, hwWp, \* read and write pointer of the ring's register
  dok,        \* rings whose "DMA ok" interrupt is raised
  \* the driver
  free,       \* free_xmitbuf_queue and free_xmit_extbuf_queue
  pend,       \* frames waiting in a flow's software queue
  xlock,      \* holder of pxmitpriv->lock
  isr,        \* rings the running interrupt handler has yet to serve
  sched,      \* xmit_tasklet is scheduled
  pc,         \* where a context is
  flow,       \* the flow of the frame a context works on
  buf,        \* pxmitframe->pxmitbuf
  frags,      \* fragments still to be put on the ring
  block,      \* "scan": rtw_xmit_ac_blocked, "link": a station is linking
  resume,     \* a block ended, rtw_os_xmit_schedule is still to be called
  dev,        \* "up", "stopping" (bDriverStopped), "down"
  \* history and bounds
  dropped,    \* flows that lost a frame for want of a descriptor
  frames, blocks, stops

ringVars == <<idx, qlen, list, cache, desc>>
hwVars   == <<hwRp, hwWp, dok>>
ctxVars  == <<pc, flow, buf, frags>>
envVars  == <<block, resume, dev, blocks, stops>>
vars == <<ringVars, hwVars, free, pend, xlock, isr, sched, ctxVars, envVars,
          dropped, frames>>

Init ==
  /\ idx = [q \in Ring |-> 0] /\ qlen = [q \in Ring |-> 0]
  /\ list = [q \in Ring |-> <<>>] /\ cache = [q \in Ring |-> 0]
  /\ desc = [q \in Ring |-> [i \in 0 .. Entries - 1 |-> NoBuf]]
  /\ hwRp = [q \in Ring |-> 0] /\ hwWp = [q \in Ring |-> 0] /\ dok = {}
  /\ free = Buf /\ pend = [f \in Flow |-> 0]
  /\ xlock = Nobody /\ isr = {} /\ sched = FALSE
  /\ pc = [c \in Context |-> "idle"] /\ flow = [c \in Context |-> Mgnt]
  /\ buf = [c \in Context |-> NoBuf] /\ frags = [c \in Context |-> 0]
  /\ block = "none" /\ resume = FALSE /\ dev = "up"
  /\ dropped = {} /\ frames = 0 /\ blocks = 0 /\ stops = 0

-----------------------------------------------------------------------------
(* Helpers *)

RingFor(f) == IF f = Mgnt THEN MgntRing ELSE RingOf[f]

Pending == \E f \in Flow : pend[f] > 0

\* check_tx_desc_resource and the end of check_nic_enough_desc.
EnoughDesc(q) == Entries - qlen[q] >= 2

\* check_nic_enough_desc_all.
EnoughDescAll == \A q \in Ring : EnoughDesc(q)

\* rtw_list_delete on a ring's list: the buffer leaves the list it is on.
Unlink(s, b) ==
  IF \E i \in DOMAIN s : s[i] = b
  THEN SelectSeq(s, LAMBDA x : x # b)
  ELSE s

\* get_txbd: the slot behind the newest descriptor, unless only the last one
\* is left.
MutTxbdLastEntryUsed(q) == qlen[q] # Entries
MutTxbdTwoEntriesLost(q) == qlen[q] # Entries - 2
TxbdAvailable(q) == qlen[q] # Entries - 1
TxbdIndex(q) == (idx[q] + qlen[q]) % Entries

\* Where a context goes on when it is done with a frame.
NextPc(c) == IF c = Tasklet THEN "check" ELSE "idle"

-----------------------------------------------------------------------------
(* Sending: pre_xmitframe, rtl8821ce_hal_xmitframe_enqueue,                *)
(* rtl8821ce_mgnt_xmit                                                     *)

SendDirectly(f) ==
  /\ pend[f] = 0
  /\ EnoughDesc(CheckedRing[f])
  /\ block = "none"

MutPreXmitframeUnlocked(c, f) ==
  /\ pc[c] = "idle" /\ dev = "up" /\ frames < MaxFrames
  /\ xlock = Nobody
  /\ flow' = [flow EXCEPT ![c] = f]
  /\ pc' = [pc EXCEPT ![c] = IF SendDirectly(f) THEN "alloc" ELSE "enqueue"]
  /\ frames' = frames + 1
  /\ UNCHANGED <<ringVars, hwVars, free, pend, xlock, isr, sched, buf, frags,
                 envVars, dropped>>

\* pre_xmitframe up to its last test, with pxmitpriv->lock taken.
PreXmitframe(c, f) ==
  /\ pc[c] = "idle" /\ dev = "up" /\ frames < MaxFrames
  /\ xlock = Nobody
  /\ xlock' = c
  /\ flow' = [flow EXCEPT ![c] = f]
  /\ pc' = [pc EXCEPT ![c] = IF SendDirectly(f) THEN "alloc" ELSE "enqueue"]
  /\ frames' = frames + 1
  /\ UNCHANGED <<ringVars, hwVars, free, pend, isr, sched, buf, frags,
                 envVars, dropped>>

\* pre_xmitframe takes a buffer and leaves the lock, or finds none.
PreAlloc(c) ==
  /\ c \in Sender /\ pc[c] = "alloc"
  /\ \/ \E b \in free \cap DataBuf :
          /\ free' = free \ {b}
          /\ buf' = [buf EXCEPT ![c] = b]
          /\ pc' = [pc EXCEPT ![c] = "coalesce"]
          /\ xlock' = Nobody
     \/ /\ free \cap DataBuf = {}
        /\ pc' = [pc EXCEPT ![c] = "enqueue"]
        /\ UNCHANGED <<free, buf, xlock>>
  /\ UNCHANGED <<ringVars, hwVars, pend, isr, sched, flow, frags, envVars,
                 dropped, frames>>

\* pre_xmitframe's enqueue: the frame waits, or the classifier has no station
\* for it and it is freed.
PreEnqueue(c) ==
  /\ pc[c] = "enqueue"
  /\ \/ pend' = [pend EXCEPT ![flow[c]] = @ + 1]
     \/ UNCHANGED pend
  /\ xlock' = Nobody
  /\ pc' = [pc EXCEPT ![c] = "idle"]
  /\ UNCHANGED <<ringVars, hwVars, free, isr, sched, flow, buf, frags,
                 envVars, dropped, frames>>

\* rtl8821ce_hal_xmitframe_enqueue: a frame of a station that woke up, put in
\* the software queue by a caller that holds pxmitpriv->lock (or freed, when
\* the classifier has no station for it) ...
HalXmitframeEnqueue(c, f) ==
  /\ pc[c] = "idle" /\ dev = "up" /\ frames < MaxFrames
  /\ xlock = Nobody
  /\ \/ /\ xlock' = c
        /\ pend' = [pend EXCEPT ![f] = @ + 1]
        /\ flow' = [flow EXCEPT ![c] = f]
        /\ pc' = [pc EXCEPT ![c] = "wake"]
     \/ UNCHANGED <<xlock, pend, flow, pc>>
  /\ frames' = frames + 1
  /\ UNCHANGED <<ringVars, hwVars, free, isr, sched, buf, frags, envVars,
                 dropped>>

\* ... and the tasklet told of it if the ring has room.
HalXmitframeWake(c) ==
  /\ pc[c] = "wake"
  /\ sched' = (sched \/ EnoughDesc(CheckedRing[flow[c]]))
  /\ xlock' = Nobody
  /\ pc' = [pc EXCEPT ![c] = "idle"]
  /\ UNCHANGED <<ringVars, hwVars, free, pend, isr, flow, buf, frags, envVars,
                 dropped, frames>>

\* rtl8821ce_mgnt_xmit with a buffer of the pool for management frames: no
\* test, no software queue.
MgntXmit(c) ==
  /\ pc[c] = "idle" /\ dev = "up" /\ frames < MaxFrames
  /\ \E b \in free \cap MgntBuf :
       /\ free' = free \ {b}
       /\ buf' = [buf EXCEPT ![c] = b]
  /\ flow' = [flow EXCEPT ![c] = Mgnt]
  /\ frags' = [frags EXCEPT ![c] = 1]
  /\ pc' = [pc EXCEPT ![c] = "dump"]
  /\ frames' = frames + 1
  /\ UNCHANGED <<ringVars, hwVars, pend, xlock, isr, sched, envVars, dropped>>

-----------------------------------------------------------------------------
(* From a frame to descriptors: rtw_xmitframe_coalesce and                 *)
(* rtl8821ce_dump_xframe                                                   *)

\* rtw_xmitframe_coalesce copies the frame into the buffer and counts its
\* fragments; when it fails, the buffer and the frame are freed.
Coalesce(c) ==
  /\ pc[c] = "coalesce"
  /\ \/ /\ \E n \in 1 .. MaxFrags : frags' = [frags EXCEPT ![c] = n]
        /\ pc' = [pc EXCEPT ![c] = "dump"]
        /\ UNCHANGED <<free, buf>>
     \/ /\ free' = free \cup {buf[c]}
        /\ buf' = [buf EXCEPT ![c] = NoBuf]
        /\ pc' = [pc EXCEPT ![c] = NextPc(c)]
        /\ UNCHANGED frags
  /\ UNCHANGED <<ringVars, hwVars, pend, xlock, isr, sched, flow, envVars,
                 dropped, frames>>

\* rtl8821ce_dump_xframe leaves its loop: rtw_free_xmitframe.
FrameDone(c) ==
  /\ buf' = [buf EXCEPT ![c] = NoBuf]
  /\ frags' = [frags EXCEPT ![c] = 0]
  /\ pc' = [pc EXCEPT ![c] = NextPc(c)]

\* One round of the loop, under irq_th_lock: rtl8821ce_update_txbd,
\* rtl8821ce_enqueue_xmitbuf and fill_txbd_own.
DumpXframe(c) ==
  /\ pc[c] = "dump" /\ isr = {}
  /\ LET q == RingFor(flow[c])
         b == buf[c]
     IN /\ TxbdAvailable(q)
        /\ desc' = [desc EXCEPT ![q][TxbdIndex(q)] = b]
        /\ list' = [r \in Ring |-> IF r = q THEN Append(Unlink(list[r], b), b)
                                            ELSE Unlink(list[r], b)]
        /\ qlen' = [qlen EXCEPT ![q] = @ + 1]
        /\ hwWp' = [hwWp EXCEPT ![q] = (idx[q] + qlen'[q]) % Entries]
        /\ free' = free \ {b}
  /\ IF frags[c] = 1
     THEN FrameDone(c)
     ELSE frags' = [frags EXCEPT ![c] = @ - 1] /\ UNCHANGED <<pc, buf>>
  /\ UNCHANGED <<idx, cache, hwRp, dok, pend, xlock, isr, sched, flow,
                 envVars, dropped, frames>>

\* The round that gets no descriptor: the buffer and the frame are freed
\* (rtw_free_xmitbuf takes the buffer off the list it is on).
DumpNoTxbd(c) ==
  /\ pc[c] = "dump" /\ isr = {}
  /\ ~ TxbdAvailable(RingFor(flow[c]))
  /\ list' = [r \in Ring |-> Unlink(list[r], buf[c])]
  /\ free' = free \cup {buf[c]}
  /\ dropped' = dropped \cup {flow[c]}
  /\ FrameDone(c)
  /\ UNCHANGED <<idx, qlen, cache, desc, hwVars, pend, xlock, isr, sched, flow,
                 envVars, frames>>

-----------------------------------------------------------------------------
(* The tasklet: rtl8821ce_xmitframe_resume                                 *)

TaskletStart ==
  /\ sched /\ pc[Tasklet] = "idle"
  /\ sched' = FALSE
  /\ pc' = [pc EXCEPT ![Tasklet] = "check"]
  /\ UNCHANGED <<ringVars, hwVars, free, pend, xlock, isr, flow, buf, frags,
                 envVars, dropped, frames>>

\* RTW_CANNOT_RUN and check_nic_enough_desc_all.
ResumeCheck ==
  /\ pc[Tasklet] = "check"
  /\ pc' = [pc EXCEPT ![Tasklet] =
              IF dev = "up" /\ EnoughDescAll THEN "alloc" ELSE "idle"]
  /\ UNCHANGED <<ringVars, hwVars, free, pend, xlock, isr, sched, flow, buf,
                 frags, envVars, dropped, frames>>

\* rtw_alloc_xmitbuf.
ResumeAlloc ==
  /\ pc[Tasklet] = "alloc"
  /\ \/ \E b \in free \cap DataBuf :
          /\ free' = free \ {b}
          /\ buf' = [buf EXCEPT ![Tasklet] = b]
          /\ pc' = [pc EXCEPT ![Tasklet] = "dequeue"]
     \/ /\ free \cap DataBuf = {}
        /\ pc' = [pc EXCEPT ![Tasklet] = "idle"]
        /\ UNCHANGED <<free, buf>>
  /\ UNCHANGED <<ringVars, hwVars, pend, xlock, isr, sched, flow, frags,
                 envVars, dropped, frames>>

\* rtw_dequeue_xframe, under pxmitpriv->lock.  The order in which it serves
\* the flows is left open.
ResumeDequeue ==
  /\ pc[Tasklet] = "dequeue" /\ xlock = Nobody
  /\ \/ \E f \in Flow :
          /\ pend[f] > 0
          /\ pend' = [pend EXCEPT ![f] = @ - 1]
          /\ flow' = [flow EXCEPT ![Tasklet] = f]
          /\ pc' = [pc EXCEPT ![Tasklet] = "coalesce"]
          /\ UNCHANGED <<free, buf>>
     \/ /\ ~ Pending
        /\ free' = free \cup {buf[Tasklet]}
        /\ buf' = [buf EXCEPT ![Tasklet] = NoBuf]
        /\ pc' = [pc EXCEPT ![Tasklet] = "idle"]
        /\ UNCHANGED <<pend, flow>>
  /\ UNCHANGED <<ringVars, hwVars, xlock, isr, sched, frags, envVars, dropped,
                 frames>>

-----------------------------------------------------------------------------
(* The device *)

\* It fetches the frame behind the read pointer and raises the ring's
\* interrupt.
HwFetch(q) ==
  /\ dev # "down" /\ hwRp[q] # hwWp[q]
  /\ hwRp' = [hwRp EXCEPT ![q] = (@ + 1) % Entries]
  /\ dok' = dok \cup {q}
  /\ UNCHANGED <<ringVars, hwWp, free, pend, xlock, isr, sched, ctxVars,
                 envVars, dropped, frames>>

-----------------------------------------------------------------------------
(* The interrupt handler: rtl8821ce_interrupt and rtl8821ce_tx_isr,        *)
(* under irq_th_lock from the first step to the last                       *)

IsrEnter ==
  /\ dev # "down" /\ isr = {} /\ dok # {}
  /\ isr' = dok
  /\ dok' = {}
  /\ UNCHANGED <<ringVars, hwRp, hwWp, free, pend, xlock, sched, ctxVars,
                 envVars, dropped, frames>>

Served == CHOOSE q \in isr : \A r \in isr : q <= r

\* rtl8821ce_check_txdesc_closed: the register is read only when the cached
\* read pointer shows nothing to do.
MutSyncedCacheWritePointer(q) == IF idx[q] = cache[q] THEN hwWp[q] ELSE cache[q]
MutSyncedCacheNeverRead(q) == cache[q]
SyncedCache(q) == IF idx[q] = cache[q] THEN hwRp[q] ELSE cache[q]
TxdescClosed(q) == idx[q] # SyncedCache(q)

\* rtl8821ce_dequeue_xmitbuf with what its callers do to the buffer:
\* the counter follows the list only while the list is not empty.
ReclaimHead(q) ==
  /\ idx' = [idx EXCEPT ![q] = (@ + 1) % Entries]
  /\ IF list[q] = <<>>
     THEN UNCHANGED <<list, qlen, free>>
     ELSE /\ list' = [list EXCEPT ![q] = Tail(@)]
          /\ qlen' = [qlen EXCEPT ![q] = @ - 1]
          /\ free' = free \cup {Head(list[q])}

\* A round of rtl8821ce_tx_isr's loop that finds the descriptor fetched.
IsrReclaim(q) ==
  /\ isr # {} /\ q = Served /\ qlen[q] # 0
  /\ TxdescClosed(q)
  /\ cache' = [cache EXCEPT ![q] = SyncedCache(q)]
  /\ ReclaimHead(q)
  /\ UNCHANGED <<desc, hwVars, pend, xlock, isr, sched, ctxVars, envVars,
                 dropped, frames>>

\* A round that finds it not fetched: return.
IsrNotClosed(q) ==
  /\ isr # {} /\ q = Served /\ qlen[q] # 0
  /\ ~ TxdescClosed(q)
  /\ cache' = [cache EXCEPT ![q] = SyncedCache(q)]
  /\ isr' = isr \ {q}
  /\ UNCHANGED <<idx, qlen, list, desc, hwVars, free, pend, xlock, sched,
                 ctxVars, envVars, dropped, frames>>

MutIsrDrainedSilent(q) ==
  /\ isr # {} /\ q = Served /\ qlen[q] = 0
  /\ isr' = isr \ {q}
  /\ UNCHANGED <<ringVars, hwVars, free, pend, xlock, sched, ctxVars, envVars,
                 dropped, frames>>

\* The ring is drained: rtw_mi_xmit_tasklet_schedule, unless a scan is on.
IsrDrained(q) ==
  /\ isr # {} /\ q = Served /\ qlen[q] = 0
  /\ isr' = isr \ {q}
  /\ sched' = (sched \/ (EnoughDesc(q) /\ block # "scan"))
  /\ UNCHANGED <<ringVars, hwVars, free, pend, xlock, ctxVars, envVars,
                 dropped, frames>>

-----------------------------------------------------------------------------
(* Scans and joins, stop and start of the interface *)

\* A survey starts (rtw_xmit_ac_blocked) or a station starts to link.
BlockStart ==
  /\ block = "none" /\ ~resume /\ blocks < MaxBlocks
  /\ block' \in {"scan", "link"}
  /\ blocks' = blocks + 1
  /\ UNCHANGED <<ringVars, hwVars, free, pend, xlock, isr, sched, ctxVars,
                 resume, dev, stops, dropped, frames>>

BlockEnd ==
  /\ block # "none"
  /\ block' = "none" /\ resume' = TRUE
  /\ UNCHANGED <<ringVars, hwVars, free, pend, xlock, isr, sched, ctxVars,
                 dev, blocks, stops, dropped, frames>>

\* rtw_os_xmit_schedule, under pxmitpriv->lock.
OsXmitSchedule ==
  /\ resume /\ xlock = Nobody
  /\ resume' = FALSE
  /\ sched' = (sched \/ Pending)
  /\ UNCHANGED <<ringVars, hwVars, free, pend, xlock, isr, ctxVars, block,
                 dev, blocks, stops, dropped, frames>>

MutResetBdNoFree ==
  /\ qlen' = [q \in Ring |-> qlen[q] - Len(list[q])]
  /\ list' = [q \in Ring |-> <<>>]
  /\ idx' = [q \in Ring |-> 0]
  /\ UNCHANGED <<free, cache>>

\* rtl8821ce_reset_bd: every buffer back to its pool, every ring at slot 0.
ResetBd ==
  /\ free' = free \cup UNION {{list[q][i] : i \in DOMAIN list[q]} : q \in Ring}
  /\ qlen' = [q \in Ring |-> qlen[q] - Len(list[q])]
  /\ list' = [q \in Ring |-> <<>>]
  /\ idx' = [q \in Ring |-> 0]
  /\ UNCHANGED cache

\* bDriverStopped: nobody starts to send, who has started goes on.
DriverStop ==
  /\ dev = "up" /\ stops < MaxStops
  /\ dev' = "stopping" /\ stops' = stops + 1
  /\ UNCHANGED <<ringVars, hwVars, free, pend, xlock, isr, sched, ctxVars,
                 block, resume, blocks, dropped, frames>>

\* pci_intf_stop: interrupts off, tasklets killed, DMA off, rings reset.
PciIntfStop ==
  /\ dev = "stopping" /\ isr = {} /\ ~sched
  /\ \A c \in Context : pc[c] = "idle"
  /\ dev' = "down" /\ dok' = {}
  /\ ResetBd
  /\ UNCHANGED <<desc, hwRp, hwWp, pend, xlock, isr, sched, ctxVars, block,
                 resume, blocks, stops, dropped, frames>>

\* rtl8821ce_hal_init: InitMAC_TRXBD_8821CE sets the device's pointers to 0,
\* _init_trx_cfg_drv resets the rings, the interrupts come on.
HalInit ==
  /\ dev = "down"
  /\ dev' = "up"
  /\ hwRp' = [q \in Ring |-> 0] /\ hwWp' = [q \in Ring |-> 0]
  /\ ResetBd
  /\ UNCHANGED <<desc, dok, pend, xlock, isr, sched, ctxVars, block, resume,
                 blocks, stops, dropped, frames>>

-----------------------------------------------------------------------------
Send ==
  \E c \in Sender :
    \/ \E f \in Flow : PreXmitframe(c, f) \/ HalXmitframeEnqueue(c, f)
    \/ MgntXmit(c)

\* What a context goes on to do once it has begun.
Continue(c) ==
  PreAlloc(c) \/ PreEnqueue(c) \/ HalXmitframeWake(c)
    \/ Coalesce(c) \/ DumpXframe(c) \/ DumpNoTxbd(c)

TaskletStep == TaskletStart \/ ResumeCheck \/ ResumeAlloc \/ ResumeDequeue

IsrStep ==
  IsrEnter \/ \E q \in Ring : IsrReclaim(q) \/ IsrNotClosed(q) \/ IsrDrained(q)

Next ==
  \/ Send
  \/ \E c \in Context : Continue(c)
  \/ TaskletStep
  \/ \E q \in Ring : HwFetch(q)
  \/ IsrStep
  \/ BlockStart \/ BlockEnd \/ OsXmitSchedule
  \/ DriverStop \/ PciIntfStop \/ HalInit

Spec == Init /\ [][Next]_vars

\* Code that has begun runs on, a scheduled tasklet runs, a raised interrupt
\* is taken, the device works off its ring, a scan or a join ends.
FairSpec ==
  /\ Spec
  /\ \A c \in Context : WF_vars(Continue(c))
  /\ WF_vars(TaskletStep)
  /\ \A q \in Ring : WF_vars(HwFetch(q))
  /\ WF_vars(IsrStep)
  /\ WF_vars(BlockEnd) /\ WF_vars(OsXmitSchedule)

-----------------------------------------------------------------------------
(* Properties *)

RingTypeOK ==
  /\ idx \in [Ring -> 0 .. Entries - 1] /\ qlen \in [Ring -> Nat]
  /\ list \in [Ring -> Seq(Buf)] /\ cache \in [Ring -> 0 .. Entries - 1]
  /\ desc \in [Ring -> [0 .. Entries - 1 -> Buf \cup {NoBuf}]]
  /\ hwRp \in [Ring -> 0 .. Entries - 1] /\ hwWp \in [Ring -> 0 .. Entries - 1]
  /\ dok \subseteq Ring /\ isr \subseteq Ring /\ free \subseteq Buf

ContextTypeOK ==
  /\ pc \in [Context -> {"idle", "alloc", "enqueue", "wake", "check",
                         "dequeue", "coalesce", "dump"}]
  /\ flow \in [Context -> Flow \cup {Mgnt}]
  /\ buf \in [Context -> Buf \cup {NoBuf}]
  /\ frags \in [Context -> Nat]

DriverTypeOK ==
  /\ pend \in [Flow -> Nat]
  /\ xlock \in Sender \cup {Nobody} /\ sched \in BOOLEAN
  /\ block \in {"none", "scan", "link"} /\ resume \in BOOLEAN
  /\ dev \in {"up", "stopping", "down"}
  /\ dropped \subseteq Flow \cup {Mgnt}
  /\ frames \in Nat /\ blocks \in Nat /\ stops \in Nat

\* Every variable has its type: ring indices stay inside the ring
\* (ReclaimHead, fill_txbd_own), lists hold buffers.
TypeOK == RingTypeOK /\ ContextTypeOK /\ DriverTypeOK

\* Descriptors from one pointer to another, around the ring.
Distance(from, to) == IF from <= to THEN to - from ELSE to - from + Entries

\* DMA safety: the descriptors the device has yet to fetch point, in order, to
\* the newest buffers on ring->queue; rtl8821ce_tx_isr gives back none of
\* them, and fill_txbd_own shows the device none that was not filled.
DmaSafe ==
  dev # "down" =>
    \A q \in Ring :
      LET n == Distance(hwRp[q], hwWp[q])
      IN /\ n <= Len(list[q])
         /\ \A k \in 1 .. n :
              desc[q][(hwRp[q] + k - 1) % Entries] = list[q][Len(list[q]) - n + k]

\* The same until the interface is stopped: rtl8821ce_reset_bd leaves
\* hw_rp_cache behind, and the next start begins with a stale pointer.
DmaSafeBeforeStop == stops = 0 => DmaSafe

\* ring->qlen counts the buffers on ring->queue, and one slot stays unused:
\* what "qlen != 0, but have xmitbuf in pendingQ" in rtl8821ce_tx_isr reports
\* never happens.
QlenExact ==
  \A q \in Ring : qlen[q] = Len(list[q]) /\ qlen[q] < Entries

\* A buffer is in one place: in its pool, on one ring, or with one context
\* (rtw_alloc_xmitbuf, rtw_free_xmitbuf, rtl8821ce_enqueue_xmitbuf), across
\* failures, drops and resets.
OnRing(b, q) == \E i \in DOMAIN list[q] : list[q][i] = b
OneOwner ==
  \A b \in Buf :
    /\ b \in free => \A q \in Ring : ~OnRing(b, q)
    /\ b \in free => \A c \in Context : buf[c] # b
    /\ \A q \in Ring : OnRing(b, q) =>
         /\ \A c \in Context : buf[c] # b
         /\ \A r \in Ring \ {q} : ~OnRing(b, r)
         /\ \A i, j \in DOMAIN list[q] : list[q][i] = b /\ list[q][j] = b => i = j
    /\ \A c, d \in Context : buf[c] = b /\ buf[d] = b => c = d
    /\ b \in free \/ (\E q \in Ring : OnRing(b, q)) \/ \E c \in Context : buf[c] = b

\* A management frame always finds a descriptor: rtl8821ce_mgnt_xmit tests for
\* none and relies on its pool being smaller than its ring.
MgntNotDropped == Mgnt \notin dropped

\* Frames never wait in a software queue with nobody to take them out: the
\* tasklet is due or busy, a ring is still in use (so an interrupt comes), or
\* a scan or join has yet to end (pre_xmitframe decides under pxmitpriv->lock,
\* rtl8821ce_tx_isr schedules without it).
NoStrandedFrame ==
  dev = "up" /\ Pending =>
    \/ sched \/ pc[Tasklet] # "idle"
    \/ \E q \in Ring : qlen[q] # 0 \/ q \in isr
    \/ \E c \in Sender : pc[c] # "idle"
    \/ block # "none" \/ resume

\* A waiting frame leaves its software queue (rtl8821ce_tx_isr and
\* rtl8821ce_xmitframe_resume), for a finite number of frames offered.
PendingTaken == \A f \in Flow : (pend[f] > 0) ~> (pend[f] = 0)

\* A buffer comes back to its pool (rtl8821ce_tx_isr).
BufferReturns == \A b \in Buf : (b \notin free) ~> (b \in free)

=============================================================================
