---- MODULE PciRxRing ----
(***************************************************************************)
(* The PCI receive ring: the hardware fills buffer descriptors and raises  *)
(* RXOK (or RDU when the ring is full); the interrupt handler masks the    *)
(* receive interrupts and schedules the receive tasklet; the tasklet reads *)
(* both indices, takes the descriptors between them, hands the frames up   *)
(* and unmasks; stopping and starting the interface disables interrupts,   *)
(* kills the tasklet, powers the device off and initialises it again.      *)
(*                                                                         *)
(* The hardware advances its index before the descriptor and its data have *)
(* reached memory: that is what the receive tag defends against.  The      *)
(* interrupt is a message (MSI), sent when HISR /\ HIMR becomes nonzero.   *)
(* Frames are numbered by arrival; `race' collects the orders the code     *)
(* does not defend against (README.md describes each).                     *)
(***************************************************************************)
EXTENDS Naturals, Sequences

CONSTANTS N,           \* RX_BD_NUM_8821CE: descriptors of the ring
          TagMod,      \* the receive tag has 13 bits: 2^13
          NumFrames,   \* NR_RECVFRAME: recv_frames of the pool
          Encrypted,   \* the numbers of the unicast frames that need the key
          MaxFrames,   \* bound: frames received
          MaxRestart   \* bound: stops of the interface

ASSUME RingAssumption == N \in Nat /\ N > 1 /\ TagMod \in Nat /\ TagMod > N
ASSUME PoolAssumption == NumFrames \in Nat /\ NumFrames > 0
ASSUME BoundsAssumption == MaxFrames \in Nat /\ MaxRestart \in Nat /\ Encrypted \subseteq 0 .. MaxFrames

\* RX: RXOK, RDU and FOVW, which every line of the code masks, clears and handles together.
\* OTH: transmit, beacon and the other interrupts.
IntrMaskDefault == {"RX", "OTH"}

VARIABLES power,            \* the device is initialised and receives
          hwIdx, hostIdx,   \* the halves of REG_RXQ_RXBD_IDX
          bd,               \* per descriptor: the tag and the frame number in memory
          lag,              \* frames whose index has advanced and whose data has not landed
          tag,              \* the tag of the next descriptor written
          hisr, himr,       \* interrupt status and mask registers
          msi,              \* an interrupt message is on its way
          IntrMask, IntArray, irq_enabled,
          isr,              \* where the interrupt handler is
          sched,            \* recv_tasklet is scheduled
          tk,               \* where the tasklet is
          idx, rem,         \* rx_ring.idx, remaing_rxdesc
          RxTag, start_wait, start_rx,   \* the tag last seen and the two static flags
          free, held, pend, \* free recv_frames, those kept above, uc_swdec_pending_queue
          key,              \* busetkipkey
          intf,             \* where the thread that stops and starts the interface is
          cnt, next,        \* ghost: frames received; the number of the next one to take
          last,             \* ghost: the encrypted frame handed to posthandle last
          gen,              \* ghost: frames received before the device was last initialised
          race, stops

dev  == <<power, hwIdx, lag, tag, cnt>>
ints == <<hisr, himr, msi>>
soft == <<IntrMask, IntArray, isr>>
rtag == <<RxTag, start_wait, gen>>
pool == <<free, held, pend, key, last>>
vars == <<dev, hostIdx, bd, ints, soft, irq_enabled, sched, tk, idx, rem, rtag, start_rx,
          pool, intf, next, race, stops>>

Slots == 0 .. N - 1

Init ==
  /\ power = FALSE /\ hwIdx = 0 /\ hostIdx = 0 /\ lag = 0 /\ tag = 1
  /\ bd = [s \in Slots |-> [tag |-> 0, num |-> 0]]
  /\ hisr = {} /\ himr = {} /\ msi = FALSE
  /\ IntrMask = IntrMaskDefault /\ IntArray = {} /\ irq_enabled = FALSE /\ isr = "idle"
  /\ sched = FALSE /\ tk = "idle" /\ idx = 0 /\ rem = 0
  /\ RxTag = 0 /\ start_wait = FALSE /\ start_rx = FALSE /\ gen = 0
  /\ free = NumFrames /\ held = 0 /\ pend = <<>> /\ key = FALSE /\ last = 0
  /\ intf = "down" /\ cnt = 0 /\ next = 1 /\ race = {} /\ stops = 0

\* New values of the two registers; a message is sent when the interrupt line rises.
Registers(status, mask) ==
  /\ hisr' = status /\ himr' = mask
  /\ msi' = (msi \/ (hisr \cap himr = {} /\ status \cap mask # {}))

-----------------------------------------------------------------------------
(* The hardware. *)

Full == (hwIdx + 1) % N = hostIdx

HwReceive ==
  /\ power /\ cnt < MaxFrames /\ ~Full /\ lag < N - 1
  /\ hwIdx' = (hwIdx + 1) % N /\ lag' = lag + 1 /\ cnt' = cnt + 1
  /\ UNCHANGED <<power, tag, hostIdx, bd, ints, soft, irq_enabled, sched, tk, idx, rem, rtag,
                 start_rx, pool, intf, next, race, stops>>

\* The oldest descriptor on its way lands in memory, and RXOK is raised after it.
HwWrite ==
  /\ power /\ lag > 0
  /\ bd' = [bd EXCEPT ![(hwIdx + N - lag) % N] = [tag |-> tag, num |-> cnt - lag + 1]]
  /\ tag' = (tag + 1) % TagMod /\ lag' = lag - 1
  /\ Registers(hisr \cup {"RX"}, himr)
  /\ UNCHANGED <<power, hwIdx, cnt, hostIdx, soft, irq_enabled, sched, tk, idx, rem, rtag,
                 start_rx, pool, intf, next, race, stops>>

\* A frame that finds the ring full is lost and raises RDU; other interrupts are raised too.
HwRaise(bit) ==
  /\ power /\ bit \notin hisr
  /\ bit = "RX" => Full
  /\ Registers(hisr \cup {bit}, himr)
  /\ UNCHANGED <<dev, hostIdx, bd, soft, irq_enabled, sched, tk, idx, rem, rtag, start_rx,
                 pool, intf, next, race, stops>>

-----------------------------------------------------------------------------
(* The interrupt handler.  From reading HISR to the end it holds irq_th_lock. *)

IsrLocks == isr \in {"clear", "restore", "rx"}

rtw_pci_interrupt ==
  /\ isr = "idle" /\ msi
  /\ msi' = FALSE
  /\ isr' = IF irq_enabled THEN "read" ELSE "idle"
  /\ UNCHANGED <<dev, hostIdx, bd, hisr, himr, IntrMask, IntArray, irq_enabled, sched, tk, idx,
                 rem, rtag, start_rx, pool, intf, next, race, stops>>

IsrRest == UNCHANGED <<dev, hostIdx, bd, irq_enabled, tk, idx, rem, rtag, start_rx, pool, intf,
                       next, race, stops>>

Recognize_Unmasked ==      \* mutant: HIMR is left on while HISR is read and cleared
  /\ isr = "read" /\ isr' = "clear"
  /\ IntArray' = hisr \cap IntrMask
  /\ Registers(hisr, himr)
  /\ UNCHANGED <<IntrMask, sched>> /\ IsrRest

Recognize ==
  /\ isr = "read" /\ isr' = "clear"
  /\ IntArray' = hisr \cap IntrMask
  /\ Registers(hisr, {})
  /\ UNCHANGED <<IntrMask, sched>> /\ IsrRest

RecognizeClear ==
  /\ isr = "clear" /\ isr' = "restore"
  /\ Registers(hisr \ IntArray, himr)
  /\ UNCHANGED <<IntrMask, IntArray, sched>> /\ IsrRest

RecognizeRestore ==
  /\ isr = "restore" /\ isr' = IF IntArray = {} THEN "idle" ELSE "rx"
  /\ Registers(hisr, IntrMask)
  /\ UNCHANGED <<IntrMask, IntArray, sched>> /\ IsrRest

rx_handler ==
  /\ isr = "rx" /\ isr' = "idle"
  /\ IF "RX" \in IntArray
     THEN /\ IntrMask' = IntrMask \ {"RX"}
          /\ Registers(hisr, IntrMask \ {"RX"})
          /\ sched' = TRUE
     ELSE UNCHANGED <<ints, IntrMask, sched>>
  /\ UNCHANGED IntArray /\ IsrRest

-----------------------------------------------------------------------------
(* The receive tasklet. *)

check_rxdesc_remain_OffByOne(hw, host) ==      \* mutant: the ring thought one descriptor longer
  IF hw < host THEN N + 1 - host + hw ELSE hw - host

check_rxdesc_remain(hw, host) ==
  IF hw < host THEN N - host + hw ELSE hw - host

TaskletRun ==
  /\ sched /\ tk = "idle"
  /\ sched' = FALSE
  /\ start_rx' = (start_rx \/ hwIdx > 0)
  /\ LET n == IF start_rx' THEN check_rxdesc_remain(hwIdx, hostIdx) ELSE 0
     IN IF n = 0 THEN tk' = "unmask" /\ UNCHANGED <<idx, rem>>
        ELSE tk' = "wait" /\ idx' = hostIdx /\ rem' = n
  /\ UNCHANGED <<dev, hostIdx, bd, ints, soft, irq_enabled, rtag, pool, intf, next, race, stops>>

Landed == bd[idx].num = next

ReadyTag_Any(t) ==      \* mutant: any tag but the last one seen counts as ready
  t # RxTag

ReadyTag(t) ==
  \/ t = RxTag + 1
  \/ t = 0 /\ RxTag = TagMod - 1

\* The first descriptor ever is taken without waiting; later ones when their tag is the next
\* one, or whatever it is after 10000 reads.  The static flag and RxTag survive a restart.
wait_rxrdy ==
  /\ tk = "wait"
  /\ \/ ~start_wait /\ start_wait' = TRUE /\ RxTag' = 1 /\ tk' = "first" /\ race' = race
     \/ /\ start_wait
        /\ start_wait' = TRUE /\ RxTag' = bd[idx].tag /\ tk' = "take"
        /\ \/ /\ ReadyTag(bd[idx].tag)
              /\ race' = race \cup (IF bd[idx].num \in 1 .. gen THEN {"leftover"} ELSE {})
           \/ /\ ~ReadyTag(bd[idx].tag)
              /\ race' = race \cup (IF ~Landed THEN {"late"} ELSE {})
  /\ gen' = gen
  /\ UNCHANGED <<dev, hostIdx, bd, ints, soft, irq_enabled, sched, idx, rem, start_rx, pool,
                 intf, next, stops>>

FromQueue_One(waits) ==      \* mutant: one pending frame goes up per frame received
  IF waits THEN IF free - 1 < NumFrames \div 4 THEN 1 ELSE 0
  ELSE IF key /\ pend # <<>> THEN 1 ELSE 0

\* How many frames leave uc_swdec_pending_queue before the one just received goes up (or,
\* when it has to wait itself, after it was queued: one, if few recv_frames are free).
FromQueue(waits) ==
  IF waits THEN IF free - 1 < NumFrames \div 4 THEN 1 ELSE 0
  ELSE IF key THEN Len(pend) ELSE 0

\* recv_func of a frame that holds one recv_frame of the pool; kept of the frames that go up
\* stay there (reordering, defragmentation), the others are freed.
recv_func(num, enc, valid) ==
  LET waits == valid /\ enc /\ ~key
      q     == IF waits THEN Append(pend, num) ELSE pend
      n     == FromQueue(waits)
      own   == IF valid /\ ~waits THEN 1 ELSE 0
  IN \E kept \in 0 .. n + own :
       /\ pend' = SubSeq(q, n + 1, Len(q))
       /\ held' = held + kept
       /\ free' = free + n + own - kept - (IF valid THEN 1 ELSE 0)
       /\ last' = IF own = 1 /\ enc THEN num ELSE IF n > 0 THEN q[n] ELSE last

CopyFails_Kept ==      \* mutant: the recv_frame is not freed when its data cannot be copied
  free' = free - 1 /\ UNCHANGED <<held, pend, last>>

CopyFails == UNCHANGED <<free, held, pend, last>>

\* What becomes of the frame in the descriptor: no recv_frame or no memory, and it is lost; a
\* report of the firmware is handled and freed; a frame goes through recv_func.
rx_mpdu ==
  /\ tk \in {"first", "take"} /\ tk' = "back"
  /\ \/ free = 0 /\ UNCHANGED <<free, held, pend, last>>
     \/ free > 0 /\ CopyFails
     \/ free > 0 /\ \E valid \in BOOLEAN : recv_func(bd[idx].num, bd[idx].num \in Encrypted, valid)
  /\ UNCHANGED <<dev, hostIdx, bd, ints, soft, irq_enabled, sched, idx, rem, rtag, start_rx,
                 key, intf, next, race, stops>>

\* The descriptor goes back to the hardware.
rx_mpdu_done ==
  /\ tk = "back"
  /\ idx' = (idx + 1) % N /\ hostIdx' = idx' /\ rem' = rem - 1 /\ next' = next + 1
  /\ tk' = IF rem = 1 THEN "unmask" ELSE "wait"
  /\ UNCHANGED <<dev, bd, ints, soft, irq_enabled, sched, rtag, start_rx, pool, intf, race, stops>>

\* The end of the tasklet, under irq_th_lock.
recv_tasklet ==
  /\ tk = "unmask" /\ ~IsrLocks /\ tk' = "idle"
  /\ IntrMask' = IntrMask \cup {"RX"}
  /\ Registers(hisr, IntrMask \cup {"RX"})
  /\ UNCHANGED <<dev, hostIdx, bd, IntArray, isr, irq_enabled, sched, idx, rem, rtag, start_rx,
                 pool, intf, next, race, stops>>

-----------------------------------------------------------------------------
(* The layers above: frames they kept are freed, the key is installed, a disconnect drops   *)
(* the frames that wait for it.                                                              *)

AboveRest == UNCHANGED <<dev, hostIdx, bd, ints, soft, irq_enabled, sched, tk, idx, rem, rtag,
                         start_rx, intf, next, race, stops>>

rtw_free_recvframe ==
  /\ held > 0
  /\ held' = held - 1 /\ free' = free + 1
  /\ UNCHANGED <<pend, key, last>> /\ AboveRest

SetKey ==
  /\ ~key /\ key' = TRUE
  /\ UNCHANGED <<free, held, pend, last>> /\ AboveRest

Disconnect ==
  /\ key \/ pend # <<>>
  /\ key' = FALSE /\ pend' = <<>> /\ free' = free + Len(pend)
  /\ UNCHANGED <<held, last>> /\ AboveRest

-----------------------------------------------------------------------------
(* pci_intf_stop with the power off that follows, and the way up again. *)

IntfRest == UNCHANGED <<bd, soft, sched, tk, rem, RxTag, start_wait, start_rx, pool>>

StopMask ==
  /\ intf = "run" /\ stops < MaxRestart
  /\ intf' = "masked" /\ stops' = stops + 1
  /\ Registers(hisr, {})
  /\ UNCHANGED <<dev, hostIdx, irq_enabled, idx, gen, next, race>> /\ IntfRest

StopIrq_Missing ==      \* mutant: only the registers are masked
  /\ intf = "masked" /\ intf' = "kill"
  /\ UNCHANGED <<dev, hostIdx, ints, irq_enabled, idx, gen, next, race, stops>> /\ IntfRest

StopIrq ==
  /\ intf = "masked" /\ intf' = "kill"
  /\ irq_enabled' = FALSE
  /\ UNCHANGED <<dev, hostIdx, ints, idx, gen, next, race, stops>> /\ IntfRest

\* tasklet_kill waits for a scheduled and a running tasklet, and nothing waits for the
\* interrupt handler.
StopKill ==
  /\ intf = "kill" /\ ~sched /\ tk = "idle"
  /\ intf' = "killed"
  /\ race' = race \cup (IF isr # "idle" THEN {"straggler"} ELSE {})
  /\ UNCHANGED <<dev, hostIdx, ints, irq_enabled, idx, gen, next, stops>> /\ IntfRest

\* reset_bd touches the index only: the descriptors keep their tags.  The device is off.
StopReset ==
  /\ intf = "killed" /\ intf' = "down"
  /\ idx' = 0
  /\ power' = FALSE /\ lag' = 0 /\ hisr' = {} /\ himr' = {}
  /\ next' = cnt + 1
  /\ UNCHANGED <<hwIdx, tag, cnt, hostIdx, msi, irq_enabled, gen, race, stops>> /\ IntfRest

\* InitMAC_TRXBD resets both indices; the tags start over.
hal_init ==
  /\ intf = "down" /\ intf' = "init"
  /\ power' = TRUE /\ hwIdx' = 0 /\ hostIdx' = 0 /\ tag' = 1
  /\ gen' = cnt
  /\ UNCHANGED <<lag, cnt, ints, irq_enabled, idx, next, race, stops>> /\ IntfRest

StartIrq ==
  /\ intf = "init" /\ intf' = "enable"
  /\ irq_enabled' = TRUE
  /\ UNCHANGED <<dev, hostIdx, ints, idx, gen, next, race, stops>> /\ IntfRest

StartMask ==
  /\ intf = "enable" /\ intf' = "run"
  /\ Registers(hisr, IntrMask)
  /\ UNCHANGED <<dev, hostIdx, irq_enabled, idx, gen, next, race, stops>> /\ IntfRest

-----------------------------------------------------------------------------
Next ==
  \/ HwReceive \/ HwWrite \/ \E bit \in IntrMaskDefault : HwRaise(bit)
  \/ rtw_pci_interrupt \/ Recognize \/ RecognizeClear \/ RecognizeRestore \/ rx_handler
  \/ TaskletRun \/ wait_rxrdy \/ rx_mpdu \/ rx_mpdu_done \/ recv_tasklet
  \/ rtw_free_recvframe \/ SetKey \/ Disconnect
  \/ StopMask \/ StopIrq \/ StopKill \/ StopReset \/ hal_init \/ StartIrq \/ StartMask

Spec == Init /\ [][Next]_vars

Orderly == race = {}

-----------------------------------------------------------------------------
\* Every variable keeps its type; in particular the remaining count never wraps below zero and
\* the interrupt mask stays within the default one.
TypeOK ==
  /\ power \in BOOLEAN /\ hwIdx \in Slots /\ hostIdx \in Slots /\ lag \in 0 .. N - 1
  /\ bd \in [Slots -> [tag : 0 .. TagMod - 1, num : 0 .. MaxFrames]] /\ tag \in 0 .. TagMod - 1
  /\ hisr \subseteq IntrMaskDefault /\ himr \subseteq IntrMaskDefault /\ msi \in BOOLEAN
  /\ IntrMask \subseteq IntrMaskDefault /\ IntArray \subseteq IntrMaskDefault
  /\ irq_enabled \in BOOLEAN /\ isr \in {"idle", "read", "clear", "restore", "rx"}
  /\ sched \in BOOLEAN /\ tk \in {"idle", "wait", "first", "take", "back", "unmask"}
  /\ idx \in Slots /\ rem \in 0 .. N - 1
  /\ RxTag \in 0 .. TagMod - 1 /\ start_wait \in BOOLEAN /\ start_rx \in BOOLEAN
  /\ free \in 0 .. NumFrames /\ held \in 0 .. NumFrames /\ key \in BOOLEAN
  /\ pend \in Seq(0 .. MaxFrames) /\ Len(pend) <= NumFrames
  /\ intf \in {"run", "masked", "kill", "killed", "down", "init", "enable"}
  /\ cnt \in 0 .. MaxFrames /\ next \in 1 .. MaxFrames + 1 /\ last \in 0 .. MaxFrames
  /\ gen \in 0 .. MaxFrames /\ stops \in 0 .. MaxRestart

\* The tasklet takes descriptors the hardware has filled, each once, also across the end of
\* the ring and across restarts: what it still means to take is never more than what lies
\* between the two indices.  And it takes one after its data has reached memory, so that the
\* frame in it is the next one and not the one the ring held before; the very first is not
\* waited for (rtl8821ce_check_rxdesc_remain, rtl8821ce_wait_rxrdy, rtl8821ce_rx_mpdu).
RightFrame ==
  Orderly =>
    /\ tk \in {"wait", "first", "take", "back"} => idx = hostIdx /\ rem <= cnt + 1 - next /\ power
    /\ tk = "take" => Landed

\* Every recv_frame is free, waits for the key, or is kept by a layer above: none is lost on
\* an error path of rtl8821ce_rx_mpdu or recv_func.  Those that wait for a key cannot starve
\* reception: a quarter of the pool stays out of uc_swdec_pending_queue.
PoolConserved ==
  /\ free + held + Len(pend) = NumFrames
  /\ Len(pend) <= NumFrames - NumFrames \div 4

\* Encrypted frames go up in the order of arrival, whichever of them had to wait for the key.
EncryptedInOrder ==
  [][last' # last => last' > last]_vars

\* Once tasklet_kill has returned, the tasklet is not scheduled and does not touch the ring
\* until the interface is started again.
QuietWhenStopped ==
  Orderly /\ intf \in {"killed", "down", "init"} => ~sched /\ tk = "idle"

\* No interrupt is lost between masking, clearing and unmasking, or by stopping and starting
\* the interface.  While the receive interrupts are masked in IntrMask the tasklet that unmasks
\* them is scheduled or running; and as long as a received frame is in the ring and the
\* interface runs, something is under way that ends in the tasklet taking it (an interrupt
\* message that will not be ignored, the handler, the tasklet, or a descriptor write that
\* raises RXOK).
NoLostInterrupt ==
  /\ "RX" \in IntrMask \/ sched \/ tk # "idle"
  /\ Orderly /\ intf = "run" /\ cnt >= next =>
       (msi /\ irq_enabled) \/ isr # "idle" \/ sched \/ tk # "idle" \/ lag > 0
====
