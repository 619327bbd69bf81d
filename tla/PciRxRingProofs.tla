-------------------------- MODULE PciRxRingProofs --------------------------
(***************************************************************************)
(* Proofs about PciRxRing, for any ring, tag and pool size and any number  *)
(* of frames and restarts: no recv_frame is lost, a stopped interface is   *)
(* quiet, no receive interrupt is lost, the tasklet takes the right frame, *)
(* encrypted frames go up in order, and every variable keeps its type.     *)
(* The orders named by `race' do not touch the pool; the other results     *)
(* exclude them as their properties do.                                    *)
(***************************************************************************)
EXTENDS PciRxRing, ModularArithmetic, SequenceTheorems, TLAPS

-----------------------------------------------------------------------------
(* The pool of recv_frames.                                                *)

\* What the pool needs to know of the ring: indices stay on it, and every
\* descriptor in memory carries a number (the device never lets more
\* descriptors land than it has announced).
SlotInv ==
  /\ hwIdx \in Slots /\ hostIdx \in Slots /\ idx \in Slots
  /\ bd \in [Slots -> [tag : Int, num : Nat]] /\ tag \in Int
  /\ cnt \in Nat /\ lag \in Nat /\ lag <= cnt

PoolTypes == free \in Nat /\ held \in Nat /\ pend \in Seq(Nat)

PoolInv == SlotInv /\ PoolTypes /\ PoolConserved

\* An index of the ring stays on it.
LEMMA SlotMod ==
  ASSUME NEW n \in Nat
  PROVE  n % N \in Slots
  BY RingAssumption, SMT DEF Slots

\* The quarter of the pool that recv_func keeps free is less than the pool.
LEMMA Quarter ==
  /\ NumFrames \div 4 \in Nat
  /\ NumFrames \div 4 <= NumFrames
  BY PoolAssumption, SMT

LEMMA SlotInit == Init => SlotInv
  BY RingAssumption, SMT DEF Init, SlotInv, Slots

\* Only the device, the tasklet and the interface thread touch the ring.
LEMMA SlotStep ==
  ASSUME SlotInv, [Next]_vars
  PROVE  SlotInv'
  <1> USE DEF SlotInv
  <1>1. ASSUME HwReceive PROVE SlotInv'
    <2>1. hwIdx + 1 \in Nat
      BY RingAssumption, SMT DEF Slots
    <2>2. hwIdx' \in Slots
      BY <1>1, <2>1, SlotMod DEF HwReceive
    <2>3. cnt' \in Nat /\ lag' \in Nat /\ lag' <= cnt'
      BY <1>1, SMT DEF HwReceive
    <2> QED BY <1>1, <2>2, <2>3 DEF HwReceive
  <1>2. ASSUME HwWrite PROVE SlotInv'
    <2>1. cnt - lag + 1 \in Nat /\ lag' \in Nat /\ lag' <= cnt
      BY <1>2, SMT DEF HwWrite
    <2>2. tag' \in Int
      BY <1>2, RingAssumption, SMT DEF HwWrite
    <2>3. [tag |-> tag, num |-> cnt - lag + 1] \in [tag : Int, num : Nat]
      BY <2>1, SMT
    <2>4. bd' \in [Slots -> [tag : Int, num : Nat]]
      BY <1>2, <2>3, Zenon DEF HwWrite
    <2> QED BY <1>2, <2>1, <2>2, <2>4 DEF HwWrite
  <1>3. ASSUME NEW bit \in IntrMaskDefault, HwRaise(bit) PROVE SlotInv'
    BY <1>3, Zenon DEF HwRaise, dev
  <1>4. ASSUME rtw_pci_interrupt \/ Recognize \/ RecognizeClear \/ RecognizeRestore \/ rx_handler
        PROVE SlotInv'
    BY <1>4, Zenon DEF rtw_pci_interrupt, Recognize, RecognizeClear, RecognizeRestore, rx_handler,
       IsrRest, dev
  <1>5. ASSUME TaskletRun PROVE SlotInv'
    BY <1>5, Zenon DEF TaskletRun, dev
  <1>6. ASSUME wait_rxrdy \/ rx_mpdu \/ recv_tasklet PROVE SlotInv'
    BY <1>6, Zenon DEF wait_rxrdy, rx_mpdu, recv_tasklet, dev
  <1>7. ASSUME rx_mpdu_done PROVE SlotInv'
    <2>1. idx + 1 \in Nat
      BY RingAssumption, SMT DEF Slots
    <2>2. idx' \in Slots
      BY <1>7, <2>1, SlotMod DEF rx_mpdu_done
    <2> QED BY <1>7, <2>2, Zenon DEF rx_mpdu_done, dev
  <1>8. ASSUME rtw_free_recvframe \/ SetKey \/ Disconnect PROVE SlotInv'
    BY <1>8, Zenon DEF rtw_free_recvframe, SetKey, Disconnect, AboveRest, dev
  <1>9. ASSUME StopMask \/ StopIrq \/ StopKill \/ StartIrq \/ StartMask PROVE SlotInv'
    BY <1>9, Zenon DEF StopMask, StopIrq, StopKill, StartIrq, StartMask, IntfRest, dev
  <1>10. ASSUME StopReset \/ hal_init PROVE SlotInv'
    <2>1. 0 \in Slots
      BY RingAssumption, SMT DEF Slots
    <2> QED BY <1>10, <2>1, SMT DEF StopReset, hal_init, IntfRest
  <1>11. ASSUME UNCHANGED vars PROVE SlotInv'
    BY <1>11, Zenon DEF vars, dev
  <1> QED
    BY <1>1, <1>2, <1>3, <1>4, <1>5, <1>6, <1>7, <1>8, <1>9, <1>10, <1>11 DEF Next

\* The arithmetic of recv_func: of the recv_frames f that are free, the frame
\* received takes u; k of the m + o that go up stay there, and m leave the queue.
LEMMA Books ==
  ASSUME NEW P \in Nat, NEW Q \in Nat, NEW f \in Nat, NEW h \in Nat, NEW l \in Nat,
         NEW w \in {0, 1}, NEW o \in {0, 1}, NEW m \in Nat, NEW k \in 0 .. m + o,
         f > 0, f + h + l = P, l <= P - Q, w + o <= 1, m <= l + w,
         w = 1 => m = IF f - 1 < Q THEN 1 ELSE 0
  PROVE  /\ h + k \in Nat /\ f + m + o - k - (w + o) \in Nat
         /\ (f + m + o - k - (w + o)) + (h + k) + (l + w - m) = P
         /\ l + w - m <= P - Q
  BY SMT

\* recv_func keeps the books of the pool, whether the frame is invalid, waits
\* for the key or goes up with those that waited, and leaves a quarter free.
LEMMA RecvFunc ==
  ASSUME PoolTypes, PoolConserved, free > 0,
         NEW num \in Nat, NEW enc \in BOOLEAN, NEW valid \in BOOLEAN, key \in BOOLEAN,
         recv_func(num, enc, valid)
  PROVE  PoolTypes' /\ PoolConserved'
  <1> DEFINE waits == valid /\ enc /\ ~key
             q     == IF waits THEN Append(pend, num) ELSE pend
             n     == FromQueue(waits)
             own   == IF valid /\ ~waits THEN 1 ELSE 0
             used  == IF valid THEN 1 ELSE 0
  <1>1. PICK kept \in 0 .. n + own :
          /\ pend' = SubSeq(q, n + 1, Len(q))
          /\ held' = held + kept
          /\ free' = free + n + own - kept - used
    BY DEF recv_func
  <1>2. Len(pend) \in Nat /\ NumFrames \div 4 \in Nat /\ NumFrames \div 4 <= NumFrames
    BY Quarter, LenProperties DEF PoolTypes
  <1>3. q \in Seq(Nat) /\ Len(q) = Len(pend) + (IF waits THEN 1 ELSE 0)
    BY AppendProperties DEF PoolTypes
  <1>4. n \in 0 .. Len(q)
    BY <1>2, <1>3, SMT DEF FromQueue, PoolTypes
  <1>5. pend' \in Seq(Nat) /\ Len(pend') = Len(q) - n
    <2>1. n + 1 \in 1 .. Len(q) + 1 /\ Len(q) \in Nat
      BY <1>2, <1>3, <1>4, SMT
    <2>2. SubSeq(q, n + 1, Len(q)) \in Seq(Nat)
          /\ Len(SubSeq(q, n + 1, Len(q))) = IF n + 1 <= Len(q) THEN Len(q) - (n + 1) + 1 ELSE 0
      <3> HIDE DEF q, n
      <3> QED BY <1>3, <2>1, <1>4, SMT
    <2> QED BY <1>1, <1>4, <2>1, <2>2, SMT
  <1> DEFINE w == IF waits THEN 1 ELSE 0
  <1>6. /\ w \in {0, 1} /\ own \in {0, 1} /\ used = w + own /\ w + own <= 1
        /\ w = 1 => n = IF free - 1 < NumFrames \div 4 THEN 1 ELSE 0
    <2>1. CASE waits
      <3>1. w = 1 /\ own = 0 /\ used = 1 /\ n = IF free - 1 < NumFrames \div 4 THEN 1 ELSE 0
        BY <2>1, Zenon DEF FromQueue
      <3> HIDE DEF waits, n, own, used, w
      <3> QED BY <3>1, SMT
    <2>2. CASE ~waits
      <3>1. w = 0 /\ used = own /\ own \in {0, 1}
        BY <2>2, Zenon
      <3> HIDE DEF waits, n, own, used, w
      <3> QED BY <3>1, SMT
    <2> QED BY <2>1, <2>2
  <1>7. n \in Nat /\ n <= Len(pend) + w
    BY <1>2, <1>3, <1>4, SMT
  <1>8. Len(pend') = Len(pend) + w - n
    BY <1>2, <1>3, <1>4, <1>5, SMT
  <1> HIDE DEF waits, q, n, own, used, w
  <1>9. /\ held + kept \in Nat /\ free + n + own - kept - (w + own) \in Nat
        /\ (free + n + own - kept - (w + own)) + (held + kept) + (Len(pend) + w - n) = NumFrames
        /\ Len(pend) + w - n <= NumFrames - NumFrames \div 4
    <2>1. free \in Nat /\ held \in Nat /\ free + held + Len(pend) = NumFrames
          /\ Len(pend) <= NumFrames - NumFrames \div 4 /\ NumFrames \in Nat
      BY PoolAssumption DEF PoolTypes, PoolConserved
    <2> QED BY <1>1, <1>2, <1>6, <1>7, <2>1, Books
  <1> QED BY <1>1, <1>5, <1>6, <1>8, <1>9 DEF PoolTypes, PoolConserved

\* The tasklet, the layers above and a disconnect move recv_frames; nobody
\* else touches the pool.
LEMMA PoolStep ==
  ASSUME PoolInv, [Next]_vars, key \in BOOLEAN
  PROVE  PoolTypes' /\ PoolConserved'
  <1> USE DEF PoolInv
  <1>1. ASSUME rx_mpdu PROVE PoolTypes' /\ PoolConserved'
    <2>1. CASE UNCHANGED <<free, held, pend>>
      BY <2>1 DEF PoolTypes, PoolConserved
    <2>2. CASE free > 0 /\ \E valid \in BOOLEAN :
                 recv_func(bd[idx].num, bd[idx].num \in Encrypted, valid)
      <3>1. PICK valid \in BOOLEAN : recv_func(bd[idx].num, bd[idx].num \in Encrypted, valid)
        BY <2>2
      <3>2. bd[idx].num \in Nat
        BY DEF SlotInv
      <3>3. (bd[idx].num \in Encrypted) \in BOOLEAN
        OBVIOUS
      <3> QED BY <2>2, <3>1, <3>2, <3>3, RecvFunc
    <2> QED BY <1>1, <2>1, <2>2 DEF rx_mpdu, CopyFails
  <1>2. ASSUME rtw_free_recvframe PROVE PoolTypes' /\ PoolConserved'
    <2>1. Len(pend) \in Nat /\ pend' = pend
      BY <1>2, LenProperties DEF PoolTypes, rtw_free_recvframe
    <2>2. held' \in Nat /\ free' \in Nat /\ free' + held' + Len(pend) = free + held + Len(pend)
      BY <1>2, <2>1, SMT DEF PoolTypes, rtw_free_recvframe
    <2> QED BY <2>1, <2>2 DEF PoolTypes, PoolConserved
  <1>3. ASSUME Disconnect PROVE PoolTypes' /\ PoolConserved'
    <2>1. Len(pend) \in Nat /\ pend' = <<>> /\ free' = free + Len(pend) /\ held' = held
      BY <1>3, LenProperties DEF PoolTypes, Disconnect
    <2>2. pend' \in Seq(Nat) /\ Len(pend') = 0
      BY <2>1, EmptySeq
    <2> HIDE DEF PoolInv
    <2>3. free \in Nat /\ held \in Nat /\ free + held + Len(pend) = NumFrames
      BY DEF PoolInv, PoolTypes, PoolConserved
    <2> QED BY <2>1, <2>2, <2>3, Quarter, PoolAssumption, SMT DEF PoolTypes, PoolConserved
  <1>4. ASSUME UNCHANGED <<free, held, pend>> PROVE PoolTypes' /\ PoolConserved'
    BY <1>4 DEF PoolTypes, PoolConserved
  <1>5. CASE \/ HwReceive \/ HwWrite \/ (\E bit \in IntrMaskDefault : HwRaise(bit))
             \/ rtw_pci_interrupt \/ Recognize \/ RecognizeClear \/ RecognizeRestore \/ rx_handler
             \/ TaskletRun \/ wait_rxrdy \/ rx_mpdu_done \/ recv_tasklet \/ SetKey
             \/ StopMask \/ StopIrq \/ StopKill \/ StopReset \/ hal_init \/ StartIrq \/ StartMask
             \/ UNCHANGED vars
    <2>1. UNCHANGED <<free, held, pend>>
      BY <1>5, Zenon DEF HwReceive, HwWrite, HwRaise, rtw_pci_interrupt, Recognize, RecognizeClear,
         RecognizeRestore, rx_handler, TaskletRun, wait_rxrdy, rx_mpdu_done, recv_tasklet, SetKey,
         StopMask, StopIrq, StopKill, StopReset, hal_init, StartIrq, StartMask, IsrRest, IntfRest,
         pool, vars
    <2> QED BY <1>4, <2>1
  <1> QED BY <1>1, <1>2, <1>3, <1>5, Zenon DEF Next

LEMMA PoolInit == Init => PoolTypes /\ PoolConserved /\ key \in BOOLEAN
  <1> SUFFICES ASSUME Init PROVE PoolTypes /\ PoolConserved /\ key \in BOOLEAN
    OBVIOUS
  <1>1. pend \in Seq(Nat) /\ Len(pend) = 0
    BY EmptySeq DEF Init
  <1>2. free = NumFrames /\ held = 0 /\ key = FALSE
    BY DEF Init
  <1>3. free + held + Len(pend) = NumFrames /\ Len(pend) <= NumFrames - NumFrames \div 4
    BY <1>1, <1>2, Quarter, PoolAssumption, SMT
  <1>4. PoolTypes
    BY <1>1, <1>2, PoolAssumption, SMT DEF PoolTypes
  <1> QED BY <1>2, <1>3, <1>4 DEF PoolConserved

LEMMA KeyStep == key \in BOOLEAN /\ [Next]_vars => key' \in BOOLEAN
  BY Zenon DEF Next, HwReceive, HwWrite, HwRaise, rtw_pci_interrupt, Recognize, RecognizeClear,
     RecognizeRestore, rx_handler, TaskletRun, wait_rxrdy, rx_mpdu, rx_mpdu_done, recv_tasklet,
     rtw_free_recvframe, SetKey, Disconnect, StopMask, StopIrq, StopKill, StopReset, hal_init,
     StartIrq, StartMask, IsrRest, AboveRest, IntfRest, pool, vars

\* No recv_frame is ever lost or counted twice, and the frames that wait for a
\* key leave a quarter of the pool to reception, for a pool and a ring of any
\* size: rtl8821ce_rx_mpdu and recv_func with all their error paths, against
\* the layers above, disconnects and restarts.
THEOREM PoolKept == Spec => []PoolConserved
  <1>1. Init => PoolInv /\ key \in BOOLEAN
    BY SlotInit, PoolInit DEF PoolInv
  <1>2. PoolInv /\ key \in BOOLEAN /\ [Next]_vars => (PoolInv /\ key \in BOOLEAN)'
    BY SlotStep, PoolStep, KeyStep DEF PoolInv
  <1>3. PoolInv => PoolConserved
    BY DEF PoolInv
  <1> QED BY <1>1, <1>2, <1>3, PTL DEF Spec

-----------------------------------------------------------------------------
(* Stopping the interface.                                                 *)

\* From the moment irq_enabled falls no new interrupt is served, and unless a
\* handler was already past that test when the tasklet was killed, there is
\* nobody left who could schedule the tasklet.
QuietInv ==
  /\ intf = "kill" => ~irq_enabled
  /\ Orderly /\ intf \in {"killed", "down", "init"} =>
       ~sched /\ tk = "idle" /\ isr = "idle" /\ ~irq_enabled

LEMMA QuietStep ==
  ASSUME QuietInv, [Next]_vars
  PROVE  QuietInv'
  <1> USE DEF QuietInv, Orderly
  <1>1. ASSUME HwReceive \/ HwWrite \/ (\E bit \in IntrMaskDefault : HwRaise(bit)) PROVE QuietInv'
    <2>1. UNCHANGED <<soft, irq_enabled, sched, tk, intf, race>>
      BY <1>1, Zenon DEF HwReceive, HwWrite, HwRaise
    <2> QED BY <2>1, SMT DEF soft
  <1>2. ASSUME rtw_pci_interrupt PROVE QuietInv'
    BY <1>2, SMT DEF rtw_pci_interrupt
  <1>3. ASSUME Recognize \/ RecognizeClear \/ RecognizeRestore \/ rx_handler PROVE QuietInv'
    BY <1>3, SMT DEF Recognize, RecognizeClear, RecognizeRestore, rx_handler, IsrRest
  <1>4. ASSUME TaskletRun PROVE QuietInv'
    BY <1>4, SMT DEF TaskletRun, soft
  <1>5. ASSUME wait_rxrdy PROVE QuietInv'
    BY <1>5, SMT DEF wait_rxrdy, soft
  <1>6. ASSUME rx_mpdu \/ rx_mpdu_done \/ recv_tasklet PROVE QuietInv'
    BY <1>6, SMT DEF rx_mpdu, rx_mpdu_done, recv_tasklet, soft
  <1>7. ASSUME rtw_free_recvframe \/ SetKey \/ Disconnect PROVE QuietInv'
    BY <1>7, SMT DEF rtw_free_recvframe, SetKey, Disconnect, AboveRest, soft
  <1>8. ASSUME StopMask \/ StopIrq \/ StopReset \/ hal_init \/ StartIrq \/ StartMask PROVE QuietInv'
    BY <1>8, SMT DEF StopMask, StopIrq, StopReset, hal_init, StartIrq, StartMask, IntfRest, soft
  <1>9. ASSUME StopKill PROVE QuietInv'
    BY <1>9, SMT DEF StopKill, IntfRest, soft
  <1>10. ASSUME UNCHANGED vars PROVE QuietInv'
    BY <1>10, Zenon DEF vars, soft
  <1> QED
    BY <1>1, <1>2, <1>3, <1>4, <1>5, <1>6, <1>7, <1>8, <1>9, <1>10, Zenon DEF Next

\* Once tasklet_kill has returned nothing touches the receive ring until the
\* interface is started again, unless a handler was past its irq_enabled test
\* (the order the code does not wait for): pci_intf_stop, rtw_pci_interrupt.
THEOREM StoppedIsQuiet == Spec => []QuietWhenStopped
  <1>1. Init => QuietInv
    BY DEF Init, QuietInv
  <1>2. QuietInv /\ [Next]_vars => QuietInv'
    BY QuietStep
  <1>3. QuietInv => QuietWhenStopped
    BY DEF QuietInv, QuietWhenStopped
  <1> QED BY <1>1, <1>2, <1>3, PTL DEF Spec
-----------------------------------------------------------------------------
(* Interrupts.                                                             *)

\* Frames received and not yet given back.
Waiting == cnt + 1 - next

Taking == {"wait", "first", "take", "back"}

\* Index h lies n places behind index w.
Ahead(h, n, w) == n \in 0 .. N - 1 /\ w = IF h + n < N THEN h + n ELSE h + n - N

\* The indices lie as far apart as frames wait, and before the tasklet has
\* ever taken a descriptor the host's index is where it started.
RingInv ==
  /\ next \in Nat /\ rem \in Nat /\ start_rx \in BOOLEAN /\ power \in BOOLEAN
  /\ power => Ahead(hostIdx, Waiting, hwIdx) /\ (~start_rx => hostIdx = 0)
  /\ ~power => Waiting = 0
  /\ power = (intf # "down")

\* What the tasklet means to take is there.
TakeInv ==
  /\ tk \in Taking \cup {"idle", "unmask"}
  /\ tk \in Taking => /\ idx = hostIdx /\ rem > 0 /\ rem <= Waiting
                      /\ power /\ start_rx

\* A stopped device has no interrupt enabled, a running one those of IntrMask
\* unless the handler is between masking and restoring them; and an enabled
\* interrupt that is raised has a message on its way, or the handler has yet
\* to look.
IrqInv ==
  /\ intf \in {"run", "masked", "kill", "killed", "down", "init", "enable"}
  /\ intf \in {"down", "init"} => himr = {}
  /\ intf \in {"run", "masked", "enable"} => irq_enabled
  /\ intf = "run" /\ isr \notin {"clear", "restore"} => himr = IntrMask
  /\ irq_enabled /\ hisr \cap himr # {} => msi \/ isr = "read"

MaskInv == "RX" \in IntrMask \/ sched \/ tk # "idle"

\* A frame whose descriptor has landed has its interrupt raised, seen by the
\* handler, or handed to the tasklet, which will take it.
SeenInv ==
  power /\ lag = 0 /\ Waiting > 0 =>
    \/ "RX" \in hisr
    \/ isr \in {"clear", "restore", "rx"} /\ "RX" \in IntArray
    \/ sched
    \/ tk \in Taking /\ rem = Waiting

IntInv == SlotInv /\ QuietInv /\ MaskInv /\ (Orderly => RingInv /\ TakeInv /\ IrqInv /\ SeenInv)

\* The places of the ring are numbered from 0 to N - 1.
LEMMA NextSlot ==
  ASSUME NEW i \in Slots
  PROVE  (i + 1) % N = IF i + 1 = N THEN 0 ELSE i + 1
  <1>1. N \in Nat \ {0} /\ i + 1 \in 1 .. N
    BY RingAssumption, SMT DEF Slots
  <1>2. CASE i + 1 = N
    <2>1. N * 1 + 0 = N /\ 0 \in 0 .. N - 1 /\ 1 \in Int
      BY <1>1, SMT
    <2>2. (N * 1 + 0) % N = 0
      BY <1>1, <2>1, ModUnique
    <2> QED BY <1>2, <2>1, <2>2
  <1>3. CASE i + 1 # N
    <2>1. i + 1 \in 0 .. N - 1
      BY <1>1, <1>3, SMT
    <2> QED BY <1>1, <1>3, <2>1, ModSmall
  <1> QED BY <1>2, <1>3

\* One more frame arrives in a ring that is not full; one is given back.
LEMMA AheadMoves ==
  ASSUME NEW h \in Slots, NEW n \in Int, NEW w \in Slots, Ahead(h, n, w)
  PROVE  /\ (w + 1) % N # h => Ahead(h, n + 1, (w + 1) % N)
         /\ n > 0 => Ahead((h + 1) % N, n - 1, w)
  <1>1. /\ (w + 1) % N = IF w + 1 = N THEN 0 ELSE w + 1
        /\ (h + 1) % N = IF h + 1 = N THEN 0 ELSE h + 1
    BY NextSlot
  <1> DEFINE w1 == (w + 1) % N
             h1 == (h + 1) % N
  <1> HIDE DEF w1, h1
  <1>2. w1 # h => Ahead(h, n + 1, w1)
    BY <1>1, RingAssumption, SMT DEF Ahead, Slots, w1
  <1>3. n > 0 => Ahead(h1, n - 1, w)
    BY <1>1, RingAssumption, SMT DEF Ahead, Slots, h1
  <1> QED BY <1>2, <1>3 DEF w1, h1

\* A message is sent when the interrupt line rises and is never taken back.
LEMMA Rise ==
  ASSUME NEW status, NEW mask, Registers(status, mask)
  PROVE  /\ hisr' = status /\ himr' = mask
         /\ msi => msi'
         /\ status \cap mask # {} => msi' \/ hisr \cap himr # {}
  BY Zenon DEF Registers

\* The orders named by race are only ever added.
LEMMA OrderlyBefore ==
  ASSUME [Next]_vars, Orderly'
  PROVE  Orderly
  <1>1. race' = race \/ \E x : race' = race \cup x
    BY Zenon DEF Next, HwReceive, HwWrite, HwRaise, rtw_pci_interrupt, Recognize, RecognizeClear,
       RecognizeRestore, rx_handler, TaskletRun, wait_rxrdy, rx_mpdu, rx_mpdu_done, recv_tasklet,
       rtw_free_recvframe, SetKey, Disconnect, StopMask, StopIrq, StopKill, StopReset, hal_init,
       StartIrq, StartMask, IsrRest, AboveRest, vars
  <1> QED BY <1>1, SMT DEF Orderly

LEMMA MaskStep ==
  ASSUME MaskInv, [Next]_vars
  PROVE  MaskInv'
  <1> USE DEF MaskInv
  <1>1. ASSUME \/ HwReceive \/ HwWrite \/ (\E bit \in IntrMaskDefault : HwRaise(bit))
               \/ rtw_pci_interrupt \/ Recognize \/ RecognizeClear \/ RecognizeRestore
               \/ rtw_free_recvframe \/ SetKey \/ Disconnect
               \/ StopMask \/ StopIrq \/ StopKill \/ StopReset \/ hal_init \/ StartIrq \/ StartMask
               \/ UNCHANGED vars
        PROVE  MaskInv'
    <2>1. UNCHANGED <<IntrMask, sched, tk>>
      BY <1>1, Zenon DEF HwReceive, HwWrite, HwRaise, rtw_pci_interrupt, Recognize, RecognizeClear,
         RecognizeRestore, rtw_free_recvframe, SetKey, Disconnect, StopMask, StopIrq, StopKill,
         StopReset, hal_init, StartIrq, StartMask, IsrRest, AboveRest, IntfRest, soft, vars
    <2> QED BY <2>1
  <1>2. ASSUME rx_handler PROVE MaskInv'
    BY <1>2 DEF rx_handler, IsrRest
  <1>3. ASSUME TaskletRun PROVE MaskInv'
    BY <1>3 DEF TaskletRun
  <1>4. ASSUME wait_rxrdy \/ rx_mpdu \/ rx_mpdu_done PROVE MaskInv'
    <2>1. tk' # "idle"
      BY <1>4 DEF wait_rxrdy, rx_mpdu, rx_mpdu_done
    <2> QED BY <2>1
  <1>5. ASSUME recv_tasklet PROVE MaskInv'
    BY <1>5 DEF recv_tasklet
  <1> QED BY <1>1, <1>2, <1>3, <1>4, <1>5, Zenon DEF Next

\* Only reception, the tasklet and the power of the device move the indices.
LEMMA RingStep ==
  ASSUME SlotInv, QuietInv, Orderly, RingInv, TakeInv, [Next]_vars
  PROVE  RingInv'
  <1> USE RingAssumption DEF RingInv, Waiting
  <1>1. ASSUME \/ HwWrite \/ (\E bit \in IntrMaskDefault : HwRaise(bit))
               \/ rtw_pci_interrupt \/ Recognize \/ RecognizeClear \/ RecognizeRestore \/ rx_handler
               \/ wait_rxrdy \/ rx_mpdu \/ recv_tasklet
               \/ rtw_free_recvframe \/ SetKey \/ Disconnect \/ UNCHANGED vars
        PROVE  RingInv'
    <2>1. UNCHANGED <<next, rem, start_rx, power, hwIdx, hostIdx, cnt, intf>>
      BY <1>1, Zenon DEF HwWrite, HwRaise, rtw_pci_interrupt, Recognize, RecognizeClear,
         RecognizeRestore, rx_handler, wait_rxrdy, rx_mpdu, recv_tasklet, rtw_free_recvframe, SetKey,
         Disconnect, IsrRest, AboveRest, dev, vars
    <2> QED BY <2>1
  <1>2. ASSUME HwReceive PROVE RingInv'
    <2>1. /\ power /\ hwIdx' = (hwIdx + 1) % N /\ cnt' = cnt + 1 /\ (hwIdx + 1) % N # hostIdx
          /\ UNCHANGED <<next, rem, start_rx, power, hostIdx, intf>>
      BY <1>2 DEF HwReceive, Full
    <2>2. Waiting \in Int /\ Waiting' = Waiting + 1
      BY <2>1, SMT DEF SlotInv
    <2> HIDE DEF Waiting
    <2>3. Ahead(hostIdx, Waiting + 1, (hwIdx + 1) % N)
      BY <2>1, <2>2, AheadMoves DEF SlotInv
    <2>4. Ahead(hostIdx, Waiting, hwIdx)'
      BY <2>1, <2>2, <2>3, Zenon DEF Ahead
    <2> QED BY <2>1, <2>4, Zenon
  <1>3. ASSUME TaskletRun PROVE RingInv'
    <2>1. /\ UNCHANGED <<next, power, hwIdx, hostIdx, cnt, intf>>
          /\ start_rx' \in BOOLEAN /\ (~start_rx' => ~start_rx)
      BY <1>3, Zenon DEF TaskletRun, dev
    <2>2. rem' \in Nat
      <3>1. check_rxdesc_remain(hwIdx, hostIdx) \in Nat
        BY SMT DEF SlotInv, check_rxdesc_remain, Slots
      <3>2. rem' = rem \/ rem' = 0 \/ rem' = check_rxdesc_remain(hwIdx, hostIdx)
        BY <1>3 DEF TaskletRun
      <3> QED BY <3>1, <3>2
    <2> QED BY <2>1, <2>2
  <1>4. ASSUME rx_mpdu_done PROVE RingInv'
    <2>1. /\ tk = "back" /\ hostIdx' = (idx + 1) % N /\ rem' = rem - 1 /\ next' = next + 1
          /\ UNCHANGED <<start_rx, power, hwIdx, cnt, intf>>
      BY <1>4 DEF rx_mpdu_done, dev
    <2>2. idx = hostIdx /\ rem > 0 /\ rem <= cnt + 1 - next /\ power /\ start_rx
      BY <2>1 DEF TakeInv, Taking
    <2>3. Waiting \in Int /\ Waiting > 0 /\ Waiting' = Waiting - 1 /\ rem' \in Nat /\ next' \in Nat
      BY <2>1, <2>2, SMT DEF SlotInv
    <2> HIDE DEF Waiting
    <2>4. Ahead((hostIdx + 1) % N, Waiting - 1, hwIdx)
      BY <2>2, <2>3, AheadMoves DEF SlotInv
    <2>5. Ahead(hostIdx, Waiting, hwIdx)'
      BY <2>1, <2>2, <2>3, <2>4, Zenon DEF Ahead
    <2> QED BY <2>1, <2>2, <2>3, <2>5, Zenon
  <1>5. ASSUME StopMask \/ StopIrq \/ StopKill \/ StartIrq \/ StartMask PROVE RingInv'
    <2>1. UNCHANGED <<next, rem, start_rx, power, hwIdx, hostIdx, cnt>>
          /\ intf # "down" /\ intf' # "down"
      BY <1>5 DEF StopMask, StopIrq, StopKill, StartIrq, StartMask, IntfRest, dev
    <2> QED BY <2>1
  <1>6. ASSUME StopReset PROVE RingInv'
    <2>1. power' = FALSE /\ next' = cnt' + 1 /\ cnt' = cnt /\ intf' = "down"
          /\ UNCHANGED <<rem, start_rx>>
      BY <1>6 DEF StopReset, IntfRest
    <2>2. Waiting' = 0 /\ next' \in Nat
      BY <2>1, SMT DEF SlotInv
    <2> HIDE DEF Waiting
    <2> QED BY <2>1, <2>2, Zenon
  <1>7. ASSUME hal_init PROVE RingInv'
    <2>1. /\ power' = TRUE /\ hwIdx' = 0 /\ hostIdx' = 0 /\ intf = "down" /\ intf' = "init"
          /\ UNCHANGED <<next, rem, start_rx, cnt>>
      BY <1>7 DEF hal_init, IntfRest
    <2>2. ~power
      BY <2>1, Zenon
    <2>3. Waiting' = 0
      BY <2>1, <2>2, Zenon
    <2>4. Ahead(0, 0, 0)
      BY SMT DEF Ahead
    <2>5. Ahead(hostIdx, Waiting, hwIdx)'
      BY <2>1, <2>3, <2>4, Zenon DEF Ahead
    <2>6. "init" # "down"
      OBVIOUS
    <2> HIDE DEF Waiting
    <2> QED BY <2>1, <2>5, <2>6, Zenon
  <1> QED BY <1>1, <1>2, <1>3, <1>4, <1>5, <1>6, <1>7, Zenon DEF Next

\* The tasklet means to take what lies between the indices when it reads them,
\* and the device is not turned off before it is done.
LEMMA TakeStep ==
  ASSUME SlotInv, QuietInv, Orderly, RingInv, TakeInv, [Next]_vars
  PROVE  TakeInv'
  <1> USE RingAssumption DEF TakeInv, Taking, Waiting
  <1>1. ASSUME \/ HwWrite \/ (\E bit \in IntrMaskDefault : HwRaise(bit))
               \/ rtw_pci_interrupt \/ Recognize \/ RecognizeClear \/ RecognizeRestore \/ rx_handler
               \/ rtw_free_recvframe \/ SetKey \/ Disconnect
               \/ StopMask \/ StopIrq \/ StopKill \/ StartIrq \/ StartMask \/ UNCHANGED vars
        PROVE  TakeInv'
    <2>1. UNCHANGED <<tk, idx, hostIdx, rem, next, cnt, power, start_rx>>
      BY <1>1, Zenon DEF HwWrite, HwRaise, rtw_pci_interrupt, Recognize, RecognizeClear,
         RecognizeRestore, rx_handler, rtw_free_recvframe, SetKey, Disconnect, StopMask, StopIrq,
         StopKill, StartIrq, StartMask, IsrRest, AboveRest, IntfRest, dev, vars
    <2> QED BY <2>1
  <1>2. ASSUME HwReceive PROVE TakeInv'
    <2>1. cnt' = cnt + 1 /\ UNCHANGED <<tk, idx, hostIdx, rem, next, power, start_rx>>
      BY <1>2 DEF HwReceive
    <2> QED BY <2>1, SMT DEF SlotInv, RingInv
  <1>3. ASSUME TaskletRun PROVE TakeInv'
    <2> DEFINE n == check_rxdesc_remain(hwIdx, hostIdx)
    <2>1. /\ UNCHANGED <<next, cnt, power, hostIdx, intf>>
          /\ \/ tk' = "unmask"
             \/ tk' = "wait" /\ start_rx' /\ n # 0 /\ idx' = hostIdx /\ rem' = n
      BY <1>3, Zenon DEF TaskletRun, dev
    <2>2. power
      BY <1>3 DEF TaskletRun, QuietInv, RingInv
    <2>3. n = cnt + 1 - next /\ n \in Nat
      BY <2>2, SMT DEF check_rxdesc_remain, RingInv, SlotInv, Slots, Ahead
    <2> QED BY <2>1, <2>2, <2>3, SMT
  <1>4. ASSUME wait_rxrdy \/ rx_mpdu PROVE TakeInv'
    <2>1. tk \in Taking /\ tk' \in Taking
          /\ UNCHANGED <<idx, hostIdx, rem, next, cnt, power, start_rx>>
      BY <1>4 DEF wait_rxrdy, rx_mpdu, dev
    <2> QED BY <2>1
  <1>5. ASSUME rx_mpdu_done PROVE TakeInv'
    <2>1. /\ tk = "back" /\ hostIdx' = idx' /\ rem' = rem - 1 /\ next' = next + 1
          /\ UNCHANGED <<start_rx, power, cnt>>
          /\ tk' = IF rem = 1 THEN "unmask" ELSE "wait"
      BY <1>5 DEF rx_mpdu_done, dev
    <2> QED BY <2>1, SMT DEF SlotInv, RingInv
  <1>6. ASSUME recv_tasklet PROVE TakeInv'
    BY <1>6 DEF recv_tasklet
  <1>7. ASSUME StopReset \/ hal_init PROVE TakeInv'
    <2>1. tk = "idle" /\ tk' = "idle"
      BY <1>7 DEF StopReset, hal_init, QuietInv, IntfRest
    <2> QED BY <2>1
  <1> QED BY <1>1, <1>2, <1>3, <1>4, <1>5, <1>6, <1>7, Zenon DEF Next

\* What the registers need: a write keeps a message that is under way and sends
\* one when it enables an interrupt that waits.
LEMMA IrqStep ==
  ASSUME QuietInv, Orderly, IrqInv, [Next]_vars
  PROVE  IrqInv'
  <1> USE DEF IrqInv
  <1>1. ASSUME \/ HwReceive \/ TaskletRun \/ wait_rxrdy \/ rx_mpdu \/ rx_mpdu_done
               \/ rtw_free_recvframe \/ SetKey \/ Disconnect \/ UNCHANGED vars
        PROVE  IrqInv'
    <2>1. UNCHANGED <<intf, himr, hisr, msi, irq_enabled, isr, IntrMask>>
      BY <1>1, Zenon DEF HwReceive, TaskletRun, wait_rxrdy, rx_mpdu, rx_mpdu_done,
         rtw_free_recvframe, SetKey, Disconnect, AboveRest, ints, soft, vars
    <2> QED BY <2>1, Zenon
  <1>2. ASSUME HwWrite \/ (\E bit \in IntrMaskDefault : HwRaise(bit)) PROVE IrqInv'
    <2>1. PICK status : Registers(status, himr)
      BY <1>2, Zenon DEF HwWrite, HwRaise
    <2>2. UNCHANGED <<intf, irq_enabled, isr, IntrMask>>
      BY <1>2, Zenon DEF HwWrite, HwRaise, soft
    <2> QED BY <2>1, <2>2, Rise, Zenon
  <1>3. ASSUME rtw_pci_interrupt PROVE IrqInv'
    BY <1>3 DEF rtw_pci_interrupt
  <1>4. ASSUME Recognize PROVE IrqInv'
    <2>1. /\ himr' = {} /\ isr = "read" /\ isr' = "clear" /\ UNCHANGED <<intf, irq_enabled, IntrMask>>
      BY <1>4, Rise, Zenon DEF Recognize, IsrRest
    <2> QED BY <2>1, SMT
  <1>5. ASSUME RecognizeClear PROVE IrqInv'
    <2>1. Registers(hisr \ IntArray, himr) /\ isr = "clear" /\ isr' = "restore"
          /\ UNCHANGED <<intf, irq_enabled, IntrMask>>
      BY <1>5, Zenon DEF RecognizeClear, IsrRest
    <2>2. /\ hisr' = hisr \ IntArray /\ himr' = himr
          /\ msi => msi'
          /\ hisr' \cap himr' # {} => msi' \/ hisr \cap himr # {}
      BY <2>1, Rise, Zenon
    <2> QED BY <2>1, <2>2, SMT
  <1>6. ASSUME RecognizeRestore PROVE IrqInv'
    <2>1. Registers(hisr, IntrMask) /\ isr = "restore" /\ isr' \in {"idle", "rx"}
          /\ UNCHANGED <<intf, irq_enabled, IntrMask>>
      BY <1>6, Zenon DEF RecognizeRestore, IsrRest
    <2>2. /\ himr' = IntrMask /\ (msi => msi')
          /\ hisr' \cap himr' # {} => msi' \/ hisr \cap himr # {}
      BY <2>1, Rise, Zenon
    <2> QED BY <2>1, <2>2, SMT DEF QuietInv
  <1>7. ASSUME rx_handler PROVE IrqInv'
    <2>1. isr = "rx" /\ isr' = "idle" /\ UNCHANGED <<intf, irq_enabled>>
      BY <1>7, Zenon DEF rx_handler, IsrRest
    <2>2. CASE "RX" \in IntArray
      <3>1. Registers(hisr, IntrMask') /\ IntrMask' = IntrMask \ {"RX"}
        BY <1>7, <2>2, Zenon DEF rx_handler
      <3>2. /\ himr' = IntrMask' /\ (msi => msi')
            /\ hisr' \cap himr' # {} => msi' \/ hisr \cap himr # {}
        BY <3>1, Rise, Zenon
      <3> QED BY <2>1, <3>2, SMT DEF QuietInv
    <2>3. CASE "RX" \notin IntArray
      <3>1. UNCHANGED <<hisr, himr, msi, IntrMask>>
        BY <1>7, <2>3, Zenon DEF rx_handler, ints
      <3> QED BY <2>1, <3>1, SMT
    <2> QED BY <2>2, <2>3
  <1>8. ASSUME recv_tasklet PROVE IrqInv'
    <2>1. Registers(hisr, IntrMask') /\ tk = "unmask" /\ UNCHANGED <<intf, irq_enabled, isr>>
      BY <1>8, Zenon DEF recv_tasklet
    <2>2. /\ himr' = IntrMask' /\ (msi => msi')
          /\ hisr' \cap himr' # {} => msi' \/ hisr \cap himr # {}
      BY <2>1, Rise, Zenon
    <2> QED BY <2>1, <2>2, SMT DEF QuietInv
  <1>9. ASSUME StopMask PROVE IrqInv'
    <2>1. himr' = {} /\ intf = "run" /\ intf' = "masked" /\ irq_enabled' = irq_enabled
      BY <1>9, Rise, Zenon DEF StopMask
    <2> QED BY <2>1, SMT
  <1>10. ASSUME StopIrq PROVE IrqInv'
    BY <1>10, SMT DEF StopIrq
  <1>11. ASSUME StopKill PROVE IrqInv'
    BY <1>11, SMT DEF StopKill, QuietInv, ints
  <1>12. ASSUME StopReset PROVE IrqInv'
    BY <1>12, SMT DEF StopReset
  <1>13. ASSUME hal_init PROVE IrqInv'
    BY <1>13, SMT DEF hal_init, ints, IntfRest, soft
  <1>14. ASSUME StartIrq PROVE IrqInv'
    BY <1>14, SMT DEF StartIrq, ints
  <1>15. ASSUME StartMask PROVE IrqInv'
    <2>1. Registers(hisr, IntrMask) /\ intf' = "run" /\ intf = "enable"
          /\ UNCHANGED <<irq_enabled, isr, IntrMask>>
      BY <1>15, Zenon DEF StartMask, IntfRest, soft
    <2>2. /\ himr' = IntrMask' /\ (msi => msi')
          /\ hisr' \cap himr' # {} => msi' \/ hisr \cap himr # {}
      BY <2>1, Rise, Zenon
    <2> QED BY <2>1, <2>2, SMT
  <1> QED
    BY <1>1, <1>2, <1>3, <1>4, <1>5, <1>6, <1>7, <1>8, <1>9, <1>10, <1>11, <1>12, <1>13, <1>14,
       <1>15, Zenon DEF Next

\* Nobody forgets a frame: the handler clears RXOK only after having noted it,
\* and schedules the tasklet; the tasklet reads the indices after that.
LEMMA SeenStep ==
  ASSUME SlotInv, Orderly, RingInv, TakeInv, SeenInv, [Next]_vars
  PROVE  SeenInv'
  <1> DEFINE Landing == power /\ lag = 0 /\ Waiting > 0
             Taken   == tk \in Taking /\ rem = Waiting
  <1> USE DEF SeenInv
  <1>1. ASSUME \/ rtw_pci_interrupt \/ wait_rxrdy \/ rx_mpdu \/ recv_tasklet \/ rtw_free_recvframe
               \/ SetKey \/ Disconnect \/ StopMask \/ StopIrq \/ StopKill \/ StartIrq \/ StartMask
               \/ UNCHANGED vars
        PROVE  SeenInv'
    <2>1. UNCHANGED <<power, lag, cnt, next, hisr, IntArray, sched, rem>>
      BY <1>1, Zenon DEF rtw_pci_interrupt, wait_rxrdy, rx_mpdu, recv_tasklet, rtw_free_recvframe,
         SetKey, Disconnect, StopMask, StopIrq, StopKill, StartIrq, StartMask, Registers, AboveRest,
         IntfRest, dev, ints, soft, vars
    <2>2. Waiting' = Waiting
      BY <2>1, Zenon DEF Waiting
    <2>3. isr' = isr \/ isr = "idle"
      BY <1>1, Zenon DEF rtw_pci_interrupt, wait_rxrdy, rx_mpdu, recv_tasklet, rtw_free_recvframe,
         SetKey, Disconnect, StopMask, StopIrq, StopKill, StartIrq, StartMask, AboveRest,
         IntfRest, soft, vars
    <2>4. tk' = tk \/ tk = "unmask" \/ (tk \in Taking /\ tk' \in Taking)
      BY <1>1 DEF rtw_pci_interrupt, wait_rxrdy, rx_mpdu, recv_tasklet, rtw_free_recvframe,
         SetKey, Disconnect, StopMask, StopIrq, StopKill, StartIrq, StartMask, AboveRest,
         IntfRest, soft, vars, Taking
    <2> QED BY <2>1, <2>2, <2>3, <2>4, SMT DEF Taking
  <1>2. ASSUME HwReceive PROVE SeenInv'
    <2>1. lag' # 0
      BY <1>2, SMT DEF HwReceive, SlotInv
    <2> QED BY <2>1, Zenon
  <1>3. ASSUME HwWrite PROVE SeenInv'
    <2>1. "RX" \in hisr'
      BY <1>3, Zenon DEF HwWrite, Registers
    <2> QED BY <2>1, Zenon
  <1>4. ASSUME NEW bit \in IntrMaskDefault, HwRaise(bit) PROVE SeenInv'
    <2>1. UNCHANGED <<power, lag, cnt, next, isr, IntArray, sched, tk, rem>> /\ hisr' = hisr \cup {bit}
      BY <1>4, Zenon DEF HwRaise, Registers, dev, soft
    <2> QED BY <2>1, Zenon DEF Waiting
  <1>5. ASSUME Recognize \/ RecognizeClear \/ RecognizeRestore \/ rx_handler PROVE SeenInv'
    <2>1. UNCHANGED <<power, lag, cnt, next, tk, rem>>
      BY <1>5, Zenon DEF Recognize, RecognizeClear, RecognizeRestore, rx_handler, IsrRest, dev
    <2>2. Waiting' = Waiting
      BY <2>1, Zenon DEF Waiting
    <2>3. CASE Recognize
      <3>1. isr = "read" /\ UNCHANGED <<hisr, sched>>
        BY <2>3, Zenon DEF Recognize, Registers
      <3> QED BY <2>1, <2>2, <3>1, SMT
    <2>4. CASE RecognizeClear
      <3>1. isr = "clear" /\ isr' = "restore" /\ hisr' = hisr \ IntArray /\ UNCHANGED <<sched, IntArray>>
        BY <2>4, Zenon DEF RecognizeClear, Registers
      <3> QED BY <2>1, <2>2, <3>1, SMT
    <2>5. CASE RecognizeRestore
      <3>1. /\ isr = "restore" /\ isr' = IF IntArray = {} THEN "idle" ELSE "rx"
            /\ UNCHANGED <<hisr, sched, IntArray>>
        BY <2>5, Zenon DEF RecognizeRestore, Registers
      <3> QED BY <2>1, <2>2, <3>1, SMT
    <2>6. CASE rx_handler
      <3>1. CASE "RX" \in IntArray
        <4>1. sched' = TRUE
          BY <2>6, <3>1, Zenon DEF rx_handler
        <4> QED BY <4>1, Zenon
      <3>2. CASE "RX" \notin IntArray
        <4>1. UNCHANGED <<hisr, sched>>
          BY <2>6, <3>2, Zenon DEF rx_handler, ints
        <4> QED BY <2>1, <2>2, <3>2, <4>1, Zenon
      <3> QED BY <3>1, <3>2
    <2> QED BY <1>5, <2>3, <2>4, <2>5, <2>6
  <1>6. ASSUME TaskletRun PROVE SeenInv'
    <2> SUFFICES ASSUME Landing' PROVE Taken'
      BY Zenon
    <2>1. UNCHANGED <<power, lag, cnt, next>> /\ start_rx' = (start_rx \/ hwIdx > 0)
      BY <1>6, Zenon DEF TaskletRun, dev
    <2>2. power /\ Waiting > 0 /\ Waiting' = Waiting
      BY <2>1, Zenon DEF Waiting
    <2>3. check_rxdesc_remain(hwIdx, hostIdx) = Waiting
      BY <2>2, RingAssumption, SMT DEF check_rxdesc_remain, RingInv, SlotInv, Slots, Ahead, Waiting
    <2>4. start_rx'
      <3> SUFFICES ASSUME ~start_rx, ~(hwIdx > 0) PROVE FALSE
        BY <2>1, Zenon DEF RingInv
      <3>1. hostIdx = 0 /\ hwIdx = 0
        BY <2>2, SMT DEF RingInv, SlotInv, Slots
      <3> QED BY <2>2, <2>3, <3>1, SMT DEF check_rxdesc_remain
    <2>5. Waiting # 0
      BY <2>2, SMT DEF RingInv, SlotInv, Waiting
    <2>6. tk' = "wait" /\ rem' = Waiting
      BY <1>6, <2>3, <2>4, <2>5, Zenon DEF TaskletRun
    <2> QED BY <2>2, <2>6, SMT DEF Taking
  <1>7. ASSUME rx_mpdu_done PROVE SeenInv'
    <2>1. /\ tk = "back" /\ rem' = rem - 1 /\ next' = next + 1
          /\ tk' = IF rem = 1 THEN "unmask" ELSE "wait"
          /\ UNCHANGED <<power, lag, cnt, hisr, isr, IntArray, sched>>
      BY <1>7, Zenon DEF rx_mpdu_done, dev, ints, soft
    <2>2. Waiting' = Waiting - 1 /\ Waiting \in Int /\ rem \in Nat /\ rem <= Waiting
      BY <2>1, SMT DEF RingInv, SlotInv, TakeInv, Taking, Waiting
    <2> HIDE DEF Waiting
    <2>3. CASE Waiting = rem /\ rem # 1
      <3>1. tk' = "wait" /\ rem' = Waiting'
        BY <2>1, <2>2, <2>3
      <3> QED BY <3>1, SMT DEF Taking
    <2>4. CASE Waiting = rem /\ rem = 1
      <3>1. ~(Waiting' > 0)
        BY <2>2, <2>4, SMT
      <3> QED BY <3>1, Zenon
    <2>5. CASE Waiting # rem
      <3>1. Waiting > 0
        BY <2>1, <2>2, <2>5, SMT DEF TakeInv, Taking
      <3> QED BY <2>1, <2>5, <3>1, Zenon
    <2> QED BY <2>3, <2>4, <2>5
  <1>8. ASSUME StopReset \/ hal_init PROVE SeenInv'
    <2>1. CASE StopReset
      BY <2>1, Zenon DEF StopReset
    <2>2. CASE hal_init
      <3>1. intf = "down" /\ UNCHANGED <<cnt, next>>
        BY <2>2, Zenon DEF hal_init
      <3>2. Waiting' = 0
        BY <3>1, Zenon DEF RingInv, Waiting
      <3>3. ~(Waiting' > 0)
        BY <3>2, SMT
      <3> QED BY <3>3, Zenon
    <2> QED BY <1>8, <2>1, <2>2
  <1> QED BY <1>1, <1>2, <1>3, <1>4, <1>5, <1>6, <1>7, <1>8, Zenon DEF Next

LEMMA IntInit == Init => IntInv
  <1> SUFFICES ASSUME Init PROVE IntInv
    OBVIOUS
  <1>1. SlotInv /\ QuietInv
    BY SlotInit, Zenon DEF Init, QuietInv
  <1>2. MaskInv
    BY DEF Init, MaskInv, IntrMaskDefault
  <1>3. RingInv
    <2>1. Waiting = 0 /\ next \in Nat /\ rem \in Nat
      BY SMT DEF Init, Waiting
    <2> QED BY <2>1, Zenon DEF Init, RingInv
  <1>4. TakeInv /\ IrqInv /\ SeenInv
    BY SMT DEF Init, TakeInv, Taking, IrqInv, SeenInv
  <1> QED BY <1>1, <1>2, <1>3, <1>4 DEF IntInv

LEMMA IntStep == IntInv /\ [Next]_vars => IntInv'
  <1> SUFFICES ASSUME IntInv, [Next]_vars PROVE IntInv'
    OBVIOUS
  <1>1. SlotInv' /\ QuietInv' /\ MaskInv'
    BY SlotStep, QuietStep, MaskStep, Zenon DEF IntInv
  <1>2. ASSUME Orderly' PROVE (RingInv /\ TakeInv /\ IrqInv /\ SeenInv)'
    <2>1. Orderly /\ SlotInv /\ QuietInv /\ RingInv /\ TakeInv /\ IrqInv /\ SeenInv
      BY <1>2, OrderlyBefore, Zenon DEF IntInv
    <2> QED BY <2>1, RingStep, TakeStep, IrqStep, SeenStep, Zenon
  <1> QED BY <1>1, <1>2, Zenon DEF IntInv

\* No receive interrupt is lost between masking, clearing and unmasking, or by a
\* stop and start of the interface, for a ring of any size and any number of
\* frames and restarts: rtl8821ce_interrupt, rtl8821ce_recv_tasklet and
\* pci_intf_stop and pci_intf_start under every interleaving but those in race.
THEOREM InterruptNotLost == Spec => []NoLostInterrupt
  <1>1. IntInv => NoLostInterrupt
    <2> SUFFICES ASSUME IntInv PROVE NoLostInterrupt
      OBVIOUS
    <2>1. MaskInv
      BY DEF IntInv
    <2>2. ASSUME Orderly, intf = "run", cnt >= next, isr = "idle", ~sched, tk = "idle", ~(lag > 0)
          PROVE  msi /\ irq_enabled
      <3>1. SlotInv /\ RingInv /\ TakeInv /\ IrqInv /\ SeenInv
        BY <2>2, Zenon DEF IntInv
      <3>2. lag = 0 /\ Waiting > 0
        BY <2>2, <3>1, SMT DEF SlotInv, RingInv, Waiting
      <3>3. power
        <4>1. intf # "down"
          BY <2>2
        <4> QED BY <3>1, <4>1, Zenon DEF RingInv
      <3>4. "RX" \in hisr
        BY <2>2, <3>1, <3>2, <3>3, SMT DEF SeenInv, Taking
      <3>5. irq_enabled /\ "RX" \in himr
        BY <2>1, <2>2, <3>1, SMT DEF IrqInv, MaskInv
      <3> QED BY <2>2, <3>1, <3>4, <3>5, SMT DEF IrqInv
    <2> QED BY <2>1, <2>2, Zenon DEF NoLostInterrupt, MaskInv
  <1> QED BY <1>1, IntInit, IntStep, PTL DEF Spec

-----------------------------------------------------------------------------
(* The right frame.                                                        *)

\* Both indices and the tag are determined by the frames counted since the
\* device was last initialised, and an uninitialised device has nothing on
\* its way.
PlaceInv ==
  /\ gen \in Nat /\ gen + lag <= cnt
  /\ ~power => lag = 0
  /\ power => /\ gen < next
              /\ hwIdx = (cnt - gen) % N /\ hostIdx = (next - 1 - gen) % N
              /\ tag = (cnt - lag + 1 - gen) % TagMod

\* What slot s holds in b when the device, initialised after g frames, has
\* written those up to t: one of them at its place, with its tag, and the
\* latest of that place; or none of them came so far.
Holds(b, s, g, t) ==
  /\ b.num > g => /\ (b.num - 1 - g) % N = s
                  /\ b.tag = (b.num - g) % TagMod
                  /\ b.num + N > t
  /\ b.num <= g => t - g <= s

\* The descriptors in memory.  The ring is filled from slot 0 on, so if that
\* one is blank, all are and no tag of a frame was ever seen.
DescInv ==
  /\ \A s \in Slots :
       /\ bd[s].num = 0 => bd[s].tag = 0
       /\ bd[s].num + lag <= cnt
       /\ power => Holds(bd[s], s, gen, cnt - lag)
  /\ bd[0].num = 0 => RxTag \in {0, 1} /\ \A s \in Slots : bd[s].num = 0

\* The frames taken, the one in the tasklet's hands included.
Taken == next - 1 + (IF tk \in {"first", "take", "back"} THEN 1 ELSE 0)

\* RxTag is the tag of the frame taken last, if that was since the device was
\* initialised; and that one had landed, unless it was the very first.
TagInv ==
  /\ RxTag \in 0 .. TagMod - 1
  /\ power /\ Taken > gen => RxTag = (Taken - gen) % TagMod
  /\ power /\ Taken > gen + 1 => cnt - lag >= Taken
  /\ power /\ ~start_wait => Taken = gen
  /\ tk = "first" => next = gen + 1
  /\ tk = "take" => Landed

\* One more frame lands, elsewhere.
LEMMA HoldsNext ==
  ASSUME NEW s \in Slots, NEW b \in [tag : Int, num : Nat], NEW g \in Nat, NEW t \in Nat,
         g <= t, Holds(b, s, g, t), s # (t - g) % N
  PROVE  Holds(b, s, g, t + 1)
  <1> USE RingAssumption
  <1>1. b.num \in Nat /\ N \in Nat \ {0} /\ s \in 0 .. N - 1
    BY DEF Slots
  <1>2. ASSUME b.num > g PROVE b.num + N > t + 1
    <2>0. b.num + N > t
      BY <1>2 DEF Holds
    <2> SUFFICES ASSUME b.num + N = t + 1 PROVE FALSE
      BY <1>1, <2>0
    <2>1. t - g = (b.num - 1 - g) + N * 1 /\ b.num - 1 - g \in Int /\ 1 \in Int
      BY <1>1
    <2>2. ((b.num - 1 - g) + N * 1) % N = (b.num - 1 - g) % N
      BY <1>1, <2>1, ModShift
    <2> QED BY <1>2, <2>1, <2>2 DEF Holds
  <1>3. ASSUME b.num <= g PROVE t + 1 - g <= s
    <2> SUFFICES ASSUME t - g = s PROVE FALSE
      BY <1>1, <1>3 DEF Holds
    <2>1. s % N = s
      BY <1>1, ModSmall
    <2> QED BY <2>1
  <1> QED BY <1>2, <1>3 DEF Holds

\* The frame that lands.
LEMMA HoldsNew ==
  ASSUME NEW b, NEW g \in Nat, NEW t \in Nat, g <= t,
         b.num = t + 1, b.tag = (t + 1 - g) % TagMod
  PROVE  Holds(b, (t - g) % N, g, t + 1)
  <1>1. b.num > g /\ ~(b.num <= g) /\ b.num - 1 - g = t - g /\ b.num + N > t + 1
    BY RingAssumption
  <1>2. b.num - g = t + 1 - g
    OBVIOUS
  <1>3. (b.num - 1 - g) % N = (t - g) % N /\ b.tag = (b.num - g) % TagMod
    BY <1>1, <1>2
  <1> QED BY <1>1, <1>3 DEF Holds

\* A tag that is the next one, in a slot that holds nothing from before the
\* device was initialised, belongs to the next frame: an older frame of the
\* same slot is a whole ring away, and the ring is shorter than the tag space.
LEMMA NextTag ==
  ASSUME NEW b \in [tag : Int, num : Nat], NEW g \in Nat, NEW n \in Nat, NEW t \in Nat,
         NEW r \in 0 .. TagMod - 1,
         g < n, g <= t, t <= n + N - 2, b.num <= t, b.num = 0 => b.tag = 0,
         Holds(b, (n - 1 - g) % N, g, t),
         n - 1 > g => r = (n - 1 - g) % TagMod,
         n - 1 > g + 1 => t >= n - 1,
         n - 1 = g /\ b.num = 0 => r \in {0, 1},
         b.tag = r + 1 \/ (b.tag = 0 /\ r = TagMod - 1),
         b.num \notin 1 .. g
  PROVE  b.num = n
  <1> DEFINE s == (n - 1 - g) % N
  <1> USE RingAssumption
  <1>1. b.num \in Nat /\ b.tag \in Int /\ N \in Nat \ {0} /\ TagMod \in Nat \ {0} /\ n - 1 - g \in Int
    OBVIOUS
  <1>2. s \in 0 .. N - 1
    BY <1>1, ModSplit
  <1>3. b.num > g
    <2> SUFFICES ASSUME b.num <= g PROVE FALSE
      BY <1>1
    <2>1. b.num = 0 /\ b.tag = 0 /\ r = TagMod - 1
      BY <1>1
    <2>2. t - g <= s
      BY DEF Holds
    <2>3. n - 1 # g
      BY <1>1, <2>1
    <2>4. n - 1 - g >= TagMod - 1
      <3> SUFFICES ASSUME n - 1 - g < TagMod - 1 PROVE FALSE
        BY <1>1
      <3>1. n - 1 - g \in 0 .. TagMod - 1
        BY <1>1
      <3>2. (n - 1 - g) % TagMod = n - 1 - g
        BY <1>1, <3>1, ModSmall
      <3> QED BY <1>1, <2>1, <2>3, <3>2
    <2>5. t >= n - 1
      BY <1>1, <2>4
    <2> HIDE DEF s
    <2> QED BY <1>1, <1>2, <2>2, <2>4, <2>5
  <1>4. (b.num - 1 - g) % N = s /\ b.tag = (b.num - g) % TagMod /\ b.num + N > t
    BY <1>3 DEF Holds
  <1>5. CASE n - 1 = g \/ n - 1 = g + 1
    <2>1. b.num - 1 - g \in Int /\ (b.num - 1 - g) - (n - 1 - g) < N
          /\ (n - 1 - g) - (b.num - 1 - g) < N
      BY <1>1, <1>3, <1>5
    <2>2. b.num - 1 - g = n - 1 - g
      BY <1>1, <1>4, <2>1, ModEqual
    <2> QED BY <1>1, <2>2
  <1>6. CASE n - 1 > g + 1
    <2>1. r = (n - 1 - g) % TagMod /\ t >= n - 1
      BY <1>1, <1>6
    <2>2. b.tag = (r + 1) % TagMod
      <3>1. CASE b.tag = r + 1
        <4>1. b.num - g \in Int
          BY <1>1
        <4>2. b.tag \in 0 .. TagMod - 1
          BY <1>1, <1>4, <4>1, ModSplit
        <4> QED BY <1>1, <3>1, <4>2, ModSmall
      <3>2. CASE b.tag = 0 /\ r = TagMod - 1
        <4>1. TagMod * 1 + 0 = r + 1 /\ 0 \in 0 .. TagMod - 1
          BY <1>1, <3>2
        <4>2. (TagMod * 1 + 0) % TagMod = 0
          BY <1>1, <4>1, ModUnique
        <4> QED BY <3>2, <4>1, <4>2
      <3> QED BY <3>1, <3>2
    <2>3. (r + 1) % TagMod = (n - 1 - g + 1) % TagMod
      <3>1. 1 \in Int
        OBVIOUS
      <3>2. (((n - 1 - g) % TagMod) + 1) % TagMod = ((n - 1 - g) + 1) % TagMod
        BY <1>1, <3>1, ModAdd
      <3> QED BY <2>1, <3>2, Zenon
    <2>4. (b.num - g) % TagMod = (n - 1 - g + 1) % TagMod
      BY <1>4, <2>2, <2>3
    <2>5. /\ b.num - g \in Int /\ n - 1 - g + 1 \in Int
          /\ (b.num - g) - (n - 1 - g + 1) < TagMod /\ (n - 1 - g + 1) - (b.num - g) < TagMod
      <3> HIDE DEF s
      <3> QED BY <1>1, <1>3, <1>4, <2>1
    <2>6. b.num - g = n - 1 - g + 1
      BY <1>1, <2>4, <2>5, ModEqual
    <2> QED BY <1>1, <2>6
  <1>7. n - 1 = g \/ n - 1 = g + 1 \/ n - 1 > g + 1
    BY <1>1
  <1> QED BY <1>5, <1>6, <1>7

LEMMA PlaceInit == Init => PlaceInv
  BY SMT DEF Init, PlaceInv

\* An index and a tag move on by one.
LEMMA OneOn ==
  ASSUME NEW M \in Nat \ {0}, NEW a \in Int
  PROVE  ((a % M) + 1) % M = (a + 1) % M
  <1>1. 1 \in Int
    OBVIOUS
  <1> QED BY <1>1, ModAdd

\* Only the device, the return of a descriptor and a restart move them.
LEMMA PlaceStep ==
  ASSUME SlotInv, QuietInv, Orderly, RingInv, TakeInv, PlaceInv, [Next]_vars
  PROVE  PlaceInv'
  <1>1. ASSUME HwReceive PROVE PlaceInv'
    <2>1. /\ power /\ power' /\ hwIdx' = (hwIdx + 1) % N /\ lag' = lag + 1 /\ cnt' = cnt + 1
          /\ UNCHANGED <<tag, gen, next, hostIdx>>
      BY <1>1 DEF HwReceive, rtag
    <2>2. /\ gen \in Nat /\ cnt \in Nat /\ lag \in Nat /\ gen + lag <= cnt /\ cnt - gen \in Int
      BY SMT DEF PlaceInv, SlotInv
    <2>3. hwIdx' = (cnt - gen + 1) % N
      <3>1. hwIdx = (cnt - gen) % N /\ N \in Nat \ {0}
        BY <2>1, RingAssumption DEF PlaceInv
      <3>2. (((cnt - gen) % N) + 1) % N = ((cnt - gen) + 1) % N
        BY <2>2, <3>1, OneOn
      <3> QED BY <2>1, <3>1, <3>2, Zenon
    <2>4. /\ cnt' - gen' = cnt - gen + 1 /\ cnt' - lag' + 1 - gen' = cnt - lag + 1 - gen
          /\ gen' + lag' <= cnt'
      BY <2>1, <2>2, SMT
    <2> QED BY <2>1, <2>2, <2>3, <2>4 DEF PlaceInv
  <1>2. ASSUME HwWrite PROVE PlaceInv'
    <2>1. /\ power /\ power' /\ tag' = (tag + 1) % TagMod /\ lag' = lag - 1 /\ lag > 0
          /\ UNCHANGED <<hwIdx, cnt, gen, next, hostIdx>>
      BY <1>2 DEF HwWrite, rtag
    <2>2. /\ gen \in Nat /\ cnt \in Nat /\ lag \in Nat /\ gen + lag <= cnt
          /\ cnt - lag + 1 - gen \in Int
      BY SMT DEF PlaceInv, SlotInv
    <2>3. tag' = (cnt - lag + 1 - gen + 1) % TagMod
      BY <2>1, <2>2, OneOn, RingAssumption DEF PlaceInv
    <2>4. cnt' - lag' + 1 - gen' = cnt - lag + 1 - gen + 1 /\ gen' + lag' <= cnt'
      BY <2>1, <2>2, SMT
    <2> QED BY <2>1, <2>2, <2>3, <2>4 DEF PlaceInv
  <1>3. ASSUME rx_mpdu_done PROVE PlaceInv'
    <2>1. /\ tk = "back" /\ hostIdx' = (idx + 1) % N /\ next' = next + 1
          /\ UNCHANGED <<power, hwIdx, lag, tag, cnt, gen>>
      BY <1>3 DEF rx_mpdu_done, dev, rtag
    <2>2. idx = hostIdx /\ power
      BY <2>1 DEF TakeInv, Taking
    <2>3. gen \in Nat /\ next \in Nat /\ gen < next /\ next - 1 - gen \in Int
      BY <2>2, SMT DEF PlaceInv, RingInv
    <2>4. hostIdx' = (next - 1 - gen + 1) % N
      BY <2>1, <2>2, <2>3, OneOn, RingAssumption DEF PlaceInv
    <2>5. next' - 1 - gen' = next - 1 - gen + 1 /\ gen' < next'
      BY <2>1, <2>3, SMT
    <2> QED BY <2>1, <2>2, <2>4, <2>5 DEF PlaceInv
  <1>4. ASSUME StopReset PROVE PlaceInv'
    <2>1. power' = FALSE /\ lag' = 0 /\ UNCHANGED <<cnt, gen>>
      BY <1>4 DEF StopReset
    <2>2. gen' \in Nat /\ gen' + lag' <= cnt'
      BY <2>1, SMT DEF PlaceInv, SlotInv
    <2> QED BY <2>1, <2>2 DEF PlaceInv
  <1>5. ASSUME hal_init PROVE PlaceInv'
    <2>1. /\ intf = "down" /\ power' = TRUE /\ hwIdx' = 0 /\ hostIdx' = 0 /\ tag' = 1 /\ gen' = cnt
          /\ UNCHANGED <<lag, cnt, next>>
      BY <1>5 DEF hal_init
    <2>2. ~power
      BY <2>1 DEF RingInv
    <2>3. lag = 0 /\ next = cnt + 1
      BY <2>2, SMT DEF PlaceInv, RingInv, SlotInv, Waiting
    <2>4. /\ cnt' - gen' = 0 /\ next' - 1 - gen' = 0 /\ cnt' - lag' + 1 - gen' = 1
          /\ gen' < next' /\ gen' + lag' <= cnt' /\ gen' \in Nat
      BY <2>1, <2>3, SMT DEF SlotInv
    <2>5. 0 % N = 0 /\ 1 % TagMod = 1
      <3>1. 0 \in 0 .. N - 1 /\ 1 \in 0 .. TagMod - 1 /\ N \in Nat \ {0} /\ TagMod \in Nat \ {0}
        BY RingAssumption
      <3> QED BY <3>1, ModSmall
    <2> QED BY <2>1, <2>3, <2>4, <2>5 DEF PlaceInv
  <1>6. ASSUME \/ rtw_pci_interrupt \/ Recognize \/ RecognizeClear \/ RecognizeRestore
               \/ rx_handler \/ TaskletRun \/ wait_rxrdy \/ rx_mpdu \/ recv_tasklet
               \/ rtw_free_recvframe \/ SetKey \/ Disconnect \/ StopMask \/ StopIrq \/ StopKill
               \/ StartIrq \/ StartMask \/ UNCHANGED vars
               \/ \E bit \in IntrMaskDefault : HwRaise(bit)
        PROVE PlaceInv'
    <2>1. UNCHANGED <<cnt, gen, hostIdx, hwIdx, lag, next, power, tag>>
      BY <1>6, Zenon DEF HwRaise, rtw_pci_interrupt, Recognize, RecognizeClear, RecognizeRestore,
         rx_handler, TaskletRun, wait_rxrdy, rx_mpdu, recv_tasklet, rtw_free_recvframe, SetKey,
         Disconnect, StopMask, StopIrq, StopKill, StartIrq, StartMask, AboveRest, IntfRest,
         IsrRest, dev, rtag, vars
    <2> QED BY <2>1 DEF PlaceInv
  <1> QED BY <1>1, <1>2, <1>3, <1>4, <1>5, <1>6, Zenon DEF Next

\* The descriptor written next is the one the number of the frame selects.
LEMMA WritePlace ==
  ASSUME SlotInv, PlaceInv, power
  PROVE  (hwIdx + N - lag) % N = (cnt - lag - gen) % N
  <1>1. N \in Nat \ {0} /\ cnt - gen \in Int /\ N - lag \in Int /\ cnt - lag - gen \in Int /\ 1 \in Int
    BY RingAssumption DEF SlotInv, PlaceInv
  <1>2. (((cnt - gen) % N) + (N - lag)) % N = ((cnt - gen) + (N - lag)) % N
    BY <1>1, ModAdd
  <1>3. ((cnt - lag - gen) + N * 1) % N = (cnt - lag - gen) % N
    BY <1>1, ModShift
  <1>4. (cnt - gen) + (N - lag) = (cnt - lag - gen) + N * 1
    BY <1>1, RingAssumption DEF SlotInv, PlaceInv
  <1>5. hwIdx \in Int /\ hwIdx = (cnt - gen) % N
    BY DEF SlotInv, PlaceInv, Slots
  <1>6. hwIdx + N - lag = hwIdx + (N - lag)
    BY <1>1, <1>5 DEF SlotInv
  <1> QED BY <1>2, <1>3, <1>4, <1>5, <1>6, Zenon

\* rtl8821ce_wait_rxrdy lets the tasklet go on with the next frame in memory,
\* or with the very first one, unseen.
LEMMA RightTag ==
  ASSUME SlotInv, Orderly', RingInv, TakeInv, PlaceInv, DescInv, TagInv, wait_rxrdy
  PROVE  /\ UNCHANGED <<dev, bd, idx, next, gen, hostIdx>> /\ power
         /\ tk = "wait" /\ start_wait' = TRUE
         /\ \/ ~start_wait /\ RxTag' = 1 /\ tk' = "first"
            \/ start_wait /\ RxTag' = bd[idx].tag /\ tk' = "take" /\ Landed
  <1>1. /\ UNCHANGED <<dev, bd, idx, next, gen, hostIdx>>
        /\ tk = "wait" /\ start_wait' = TRUE
        /\ \/ ~start_wait /\ RxTag' = 1 /\ tk' = "first"
           \/ start_wait /\ RxTag' = bd[idx].tag /\ tk' = "take"
    BY Zenon DEF wait_rxrdy
  <1>2. idx = hostIdx /\ rem > 0 /\ rem <= cnt + 1 - next /\ power
    BY <1>1 DEF TakeInv, Taking, Waiting
  <1>3. ASSUME start_wait PROVE Landed
    <2>1. \/ ReadyTag(bd[idx].tag) /\ bd[idx].num \notin 1 .. gen
          \/ Landed
      BY <1>3 DEF wait_rxrdy, Orderly
    <2> SUFFICES ASSUME ReadyTag(bd[idx].tag), bd[idx].num \notin 1 .. gen PROVE Landed
      BY <2>1
    <2>2. bd[idx] \in [tag : Int, num : Nat] /\ idx \in Slots
      BY DEF SlotInv
    <2>3. /\ gen \in Nat /\ next \in Nat /\ cnt \in Nat /\ lag \in Nat /\ cnt - lag \in Nat
          /\ RxTag \in 0 .. TagMod - 1 /\ gen < next /\ gen <= cnt - lag
      BY <1>2, SMT DEF PlaceInv, SlotInv, RingInv, TagInv
    <2>4. cnt - lag <= next + N - 2
      BY <1>2, <2>3, RingAssumption DEF RingInv, Ahead, Waiting
    <2>5. /\ bd[idx].num = 0 => bd[idx].tag = 0
          /\ bd[idx].num <= cnt - lag
          /\ Holds(bd[idx], (next - 1 - gen) % N, gen, cnt - lag)
      <3>1. /\ bd[idx].num = 0 => bd[idx].tag = 0
            /\ bd[idx].num + lag <= cnt
            /\ Holds(bd[idx], idx, gen, cnt - lag)
        BY <1>2, <2>2, Zenon DEF DescInv
      <3>2. idx = (next - 1 - gen) % N
        BY <1>2 DEF PlaceInv
      <3>3. bd[idx].num \in Nat
        BY <2>2
      <3>4. bd[idx].num <= cnt - lag
        BY <2>3, <3>1, <3>3
      <3> QED BY <3>1, <3>2, <3>4, Zenon
    <2>6. Taken = next - 1
      BY <1>1, <2>3 DEF Taken
    <2>7. /\ next - 1 > gen => RxTag = (next - 1 - gen) % TagMod
          /\ next - 1 > gen + 1 => cnt - lag >= next - 1
      BY <1>2, <2>6, Zenon DEF TagInv
    <2>8. next - 1 = gen /\ bd[idx].num = 0 => RxTag \in {0, 1}
      <3> SUFFICES ASSUME next - 1 = gen, bd[idx].num = 0 PROVE RxTag \in {0, 1}
        OBVIOUS
      <3>1. next - 1 - gen = 0 /\ 0 \in 0 .. N - 1 /\ N \in Nat \ {0}
        BY <2>3, RingAssumption
      <3>2. 0 % N = 0
        BY <3>1, ModSmall
      <3>3. idx = 0
        BY <1>2, <3>1, <3>2 DEF PlaceInv
      <3> QED BY <3>3 DEF DescInv
    <2>9. bd[idx].tag = RxTag + 1 \/ (bd[idx].tag = 0 /\ RxTag = TagMod - 1)
      BY Zenon DEF ReadyTag
    <2>10. bd[idx].num = next
      BY <2>2, <2>3, <2>4, <2>5, <2>7, <2>8, <2>9, NextTag
    <2> QED BY <2>10 DEF Landed
  <1> QED BY <1>1, <1>2, <1>3

\* A descriptor is overwritten by the next frame of its place only, and that
\* waits until the tasklet has given it back.
LEMMA DescStep ==
  ASSUME SlotInv, QuietInv, Orderly', RingInv, TakeInv, PlaceInv, DescInv, TagInv, [Next]_vars
  PROVE  DescInv'
  <1>1. ASSUME HwReceive PROVE DescInv'
    <2>1. /\ lag' = lag + 1 /\ cnt' = cnt + 1 /\ UNCHANGED <<bd, power, gen, RxTag>>
      BY <1>1 DEF HwReceive, rtag
    <2>2. cnt' - lag' = cnt - lag
      BY <2>1, SMT DEF SlotInv
    <2>3. ASSUME NEW s \in Slots PROVE bd'[s].num + lag' <= cnt'
      <3>1. bd[s].num + lag <= cnt /\ bd[s].num \in Nat
        BY DEF DescInv, SlotInv
      <3> QED BY <2>1, <3>1, SMT DEF SlotInv
    <2> QED BY <2>1, <2>2, <2>3, Zenon DEF DescInv
  <1>2. ASSUME HwWrite PROVE DescInv'
    <2> DEFINE w == (cnt - lag - gen) % N
               t == cnt - lag
               b == [tag |-> tag, num |-> cnt - lag + 1]
    <2>1. /\ power /\ power' /\ lag' = lag - 1 /\ lag > 0 /\ UNCHANGED <<cnt, gen, RxTag>>
          /\ bd' = [bd EXCEPT ![w] = b]
      BY <1>2, WritePlace DEF HwWrite, rtag
    <2>2. /\ gen \in Nat /\ cnt \in Nat /\ lag \in Nat /\ t \in Nat /\ gen <= t
          /\ cnt' - lag' = t + 1 /\ t + 1 + lag' = cnt
      BY <2>1, SMT DEF PlaceInv, SlotInv
    <2>3. w \in Slots /\ w \in 0 .. N - 1 /\ N \in Nat \ {0}
      <3>1. cnt - lag - gen \in Int /\ N \in Nat \ {0}
        BY <2>2, RingAssumption
      <3> QED BY <3>1, ModSplit DEF Slots
    <2>4. b.num = t + 1 /\ b.tag = tag /\ tag = (t + 1 - gen) % TagMod
      BY <2>1 DEF PlaceInv
    <2>5. \A s \in Slots : bd'[s] = IF s = w THEN b ELSE bd[s]
      BY <2>1, <2>3 DEF SlotInv
    <2> HIDE DEF b
    <2>6. ASSUME NEW s \in Slots
          PROVE  /\ bd'[s].num = 0 => bd'[s].tag = 0
                 /\ bd'[s].num + lag' <= cnt'
                 /\ Holds(bd'[s], s, gen, t + 1)
      <3>1. CASE s = w
        <4>1. bd'[s] = b
          BY <2>5, <3>1
        <4>2. Holds(b, w, gen, t + 1)
          BY <2>2, <2>4, HoldsNew
        <4>3. t + 1 # 0 /\ t + 1 + lag' <= cnt
          BY <2>2
        <4> HIDE DEF w, t
        <4> QED BY <2>1, <2>4, <3>1, <4>1, <4>2, <4>3, Zenon
      <3>2. CASE s # w
        <4>1. bd'[s] = bd[s] /\ bd[s] \in [tag : Int, num : Nat]
          BY <2>5, <3>2 DEF SlotInv
        <4>2. bd[s].num + lag <= cnt /\ (bd[s].num = 0 => bd[s].tag = 0) /\ Holds(bd[s], s, gen, t)
          BY <2>1 DEF DescInv
        <4>3. Holds(bd[s], s, gen, t + 1)
          BY <2>2, <3>2, <4>1, <4>2, HoldsNext
        <4>4. bd[s].num + lag' <= cnt
          <5>1. bd[s].num \in Nat
            BY <4>1
          <5> QED BY <2>1, <2>2, <4>2, <5>1
        <4> QED BY <2>1, <4>1, <4>2, <4>3, <4>4
      <3> QED BY <3>1, <3>2
    <2>7. bd'[0].num # 0
      <3>1. 0 \in Slots
        BY RingAssumption DEF Slots
      <3>2. CASE w = 0
        <4>1. bd'[0] = b /\ t + 1 # 0
          BY <2>2, <2>5, <3>1, <3>2
        <4> QED BY <2>4, <4>1
      <3>3. CASE w # 0
        <4>1. bd'[0] = bd[0] /\ bd[0].num \in Nat
          BY <2>5, <3>1, <3>3 DEF SlotInv
        <4>2. Holds(bd[0], 0, gen, t)
          BY <2>1, <3>1 DEF DescInv
        <4>3. t - gen # 0
          <5> SUFFICES ASSUME t - gen = 0 PROVE FALSE
            OBVIOUS
          <5>1. 0 \in 0 .. N - 1
            BY <2>3
          <5>2. 0 % N = 0
            BY <2>3, <5>1, ModSmall
          <5> QED BY <3>3, <5>2
        <4>4. ~(t - gen <= 0)
          BY <2>2, <4>3
        <4>5. ~(bd[0].num <= gen)
          BY <4>2, <4>4 DEF Holds
        <4> QED BY <2>2, <4>1, <4>5
      <3> QED BY <3>2, <3>3
    <2>8. Holds(bd'[w], w, gen, t + 1) /\ gen' = gen /\ cnt' - lag' = t + 1
      BY <2>1, <2>2, <2>3, <2>6
    <2> HIDE DEF w, t
    <2> QED BY <2>1, <2>6, <2>7, <2>8, Zenon DEF DescInv
  <1>3. ASSUME wait_rxrdy PROVE DescInv'
    <2>1. UNCHANGED <<bd, lag, cnt, power, gen>> /\ (RxTag' = 1 \/ (RxTag' = bd[idx].tag /\ Landed))
      <3>1. UNCHANGED <<dev, bd, gen>> /\ (RxTag' = 1 \/ (RxTag' = bd[idx].tag /\ Landed))
        BY <1>3, RightTag, Zenon
      <3> QED BY <3>1, Zenon DEF dev
    <2>2. ASSUME bd[0].num = 0 PROVE RxTag' \in {0, 1}
      <3>1. bd[idx].num = 0 /\ (bd[idx].num = 0 => bd[idx].tag = 0)
        BY <2>2 DEF DescInv, SlotInv
      <3> QED BY <2>1, <3>1
    <2> QED BY <2>1, <2>2, Zenon DEF DescInv
  <1>4. ASSUME StopReset PROVE DescInv'
    <2>1. /\ power' = FALSE /\ lag' = 0 /\ UNCHANGED <<cnt, gen, bd, RxTag>>
      BY <1>4 DEF StopReset, IntfRest
    <2>2. ASSUME NEW s \in Slots PROVE bd'[s].num + lag' <= cnt'
      <3>1. bd[s].num + lag <= cnt /\ bd[s].num \in Nat
        BY DEF DescInv, SlotInv
      <3> QED BY <2>1, <3>1, SMT DEF SlotInv
    <2> QED BY <2>1, <2>2, Zenon DEF DescInv
  <1>5. ASSUME hal_init PROVE DescInv'
    <2>1. /\ intf = "down" /\ power' = TRUE /\ gen' = cnt /\ UNCHANGED <<lag, cnt, bd, RxTag>>
      BY <1>5 DEF hal_init, IntfRest
    <2>2. ~power
      BY <2>1 DEF RingInv
    <2>3. lag = 0
      BY <2>2 DEF PlaceInv
    <2>4. ASSUME NEW s \in Slots PROVE Holds(bd'[s], s, gen', cnt' - lag')
      <3>1. bd[s].num + lag <= cnt /\ bd[s].num \in Nat /\ s \in Nat /\ cnt \in Nat
        BY DEF DescInv, SlotInv, Slots
      <3>2. bd[s].num <= cnt /\ ~(bd[s].num > cnt) /\ cnt - lag - cnt <= s
        BY <2>3, <3>1
      <3> QED BY <2>1, <3>2 DEF Holds
    <2> QED BY <2>1, <2>4, Zenon DEF DescInv
  <1>6. ASSUME \/ rtw_pci_interrupt \/ Recognize \/ RecognizeClear \/ RecognizeRestore
               \/ rx_handler \/ TaskletRun \/ rx_mpdu \/ rx_mpdu_done \/ recv_tasklet
               \/ rtw_free_recvframe \/ SetKey \/ Disconnect \/ StopMask \/ StopIrq \/ StopKill
               \/ StartIrq \/ StartMask \/ UNCHANGED vars
               \/ \E bit \in IntrMaskDefault : HwRaise(bit)
        PROVE DescInv'
    <2>1. UNCHANGED <<RxTag, bd, cnt, gen, lag, power>>
      BY <1>6, Zenon DEF HwRaise, rtw_pci_interrupt, Recognize, RecognizeClear, RecognizeRestore,
         rx_handler, TaskletRun, rx_mpdu, rx_mpdu_done, recv_tasklet, rtw_free_recvframe, SetKey,
         Disconnect, StopMask, StopIrq, StopKill, StartIrq, StartMask, AboveRest, IntfRest,
         IsrRest, dev, rtag, vars
    <2> QED BY <2>1, Zenon DEF DescInv
  <1> QED BY <1>1, <1>2, <1>3, <1>4, <1>5, <1>6, Zenon DEF Next

\* The tasklet follows the tags.
LEMMA TagStep ==
  ASSUME SlotInv, QuietInv, Orderly', Orderly, RingInv, TakeInv, PlaceInv, DescInv, TagInv, [Next]_vars
  PROVE  TagInv'
  <1>1. ASSUME HwReceive PROVE TagInv'
    <2>1. /\ lag' = lag + 1 /\ cnt' = cnt + 1
          /\ UNCHANGED <<bd, power, gen, RxTag, next, tk, start_wait, idx>>
      BY <1>1 DEF HwReceive, rtag
    <2>2. cnt' - lag' = cnt - lag /\ Taken' = Taken
      BY <2>1, SMT DEF SlotInv, Taken
    <2> QED BY <2>1, <2>2, Zenon DEF TagInv, Landed
  <1>2. ASSUME HwWrite PROVE TagInv'
    <2> DEFINE w == (cnt - lag - gen) % N
               b == [tag |-> tag, num |-> cnt - lag + 1]
    <2>1. /\ power /\ lag' = lag - 1 /\ lag > 0 /\ bd' = [bd EXCEPT ![w] = b]
          /\ UNCHANGED <<power, gen, RxTag, next, tk, start_wait, idx, cnt>>
      BY <1>2, WritePlace DEF HwWrite, rtag
    <2>2. /\ gen \in Nat /\ cnt \in Nat /\ lag \in Nat /\ next \in Nat
          /\ cnt' - lag' = cnt - lag + 1 /\ Taken' = Taken /\ Taken \in Int
      BY <2>1, SMT DEF SlotInv, Taken, RingInv, PlaceInv
    <2>3. cnt - lag >= Taken => cnt' - lag' >= Taken'
      BY <2>2
    <2>4. ASSUME tk = "take" PROVE Landed'
      <3>1. /\ bd[idx].num = next /\ idx \in Slots /\ idx = (next - 1 - gen) % N
            /\ bd[idx].num + lag <= cnt
        BY <2>1, <2>4 DEF TagInv, Landed, TakeInv, Taking, PlaceInv, SlotInv, DescInv
      <3>2. cnt + 1 - next <= N - 1
        BY <2>1 DEF RingInv, Ahead, Waiting
      <3>3. idx # w
        <4> SUFFICES ASSUME idx = w PROVE FALSE
          OBVIOUS
        <4> DEFINE x == next - 1 - gen
                   y == cnt - lag - gen
        <4>1. x \in Int /\ y \in Int /\ x - y < N /\ y - x < N /\ N \in Nat \ {0} /\ x # y
          <5>1. next + lag <= cnt
            BY <3>1
          <5> QED BY <2>1, <2>2, <3>2, <5>1, RingAssumption
        <4>2. x % N = y % N
          BY <3>1
        <4> HIDE DEF x, y
        <4> QED BY <4>1, <4>2, ModEqual
      <3>4. bd'[idx] = bd[idx]
        BY <2>1, <3>1, <3>3 DEF SlotInv
      <3> QED BY <2>1, <3>1, <3>4, Zenon DEF Landed
    <2> HIDE DEF w, b
    <2> QED BY <2>1, <2>2, <2>3, <2>4, Zenon DEF TagInv
  <1>3. ASSUME TaskletRun PROVE TagInv'
    <2>1. /\ tk = "idle" /\ tk' \in {"unmask", "wait"}
          /\ UNCHANGED <<power, gen, RxTag, next, start_wait, cnt, lag>>
      BY <1>3 DEF TaskletRun, dev, rtag
    <2>2. Taken' = Taken
      BY <2>1 DEF Taken
    <2>3. tk' # "first" /\ tk' # "take"
      BY <2>1
    <2> QED BY <2>1, <2>2, <2>3, Zenon DEF TagInv
  <1>4. ASSUME wait_rxrdy PROVE TagInv'
    <2>1. /\ UNCHANGED <<dev, bd, idx, next, gen, hostIdx>> /\ power
          /\ tk = "wait" /\ start_wait' = TRUE
          /\ \/ ~start_wait /\ RxTag' = 1 /\ tk' = "first"
             \/ start_wait /\ RxTag' = bd[idx].tag /\ tk' = "take" /\ Landed
      BY <1>4, RightTag, Zenon
    <2>2. UNCHANGED <<power, cnt, lag>>
      BY <2>1, Zenon DEF dev
    <2>3. /\ gen \in Nat /\ next \in Nat /\ cnt \in Nat /\ lag \in Nat /\ gen < next
          /\ TagMod \in Nat \ {0} /\ 1 \in 0 .. TagMod - 1
      BY <2>1, RingAssumption, SMT DEF PlaceInv, RingInv, SlotInv
    <2>4. Taken' = next
      BY <2>1, <2>3 DEF Taken
    <2>5. CASE ~start_wait
      <3>1. RxTag' = 1 /\ tk' = "first"
        BY <2>1, <2>5, Zenon
      <3>2. next - 1 = gen
        <4>1. Taken = gen
          BY <2>1, <2>5, Zenon DEF TagInv
        <4> QED BY <2>1, <2>3, <4>1 DEF Taken
      <3>3. next - gen = 1 /\ next = gen + 1 /\ ~(next > gen + 1)
        BY <2>3, <3>2
      <3>4. 1 % TagMod = 1
        BY <2>3, ModSmall
      <3>5. tk' # "take"
        BY <3>1
      <3> QED BY <2>1, <2>2, <2>3, <2>4, <3>1, <3>3, <3>4, <3>5, Zenon DEF TagInv
    <2>6. CASE start_wait
      <3>1. RxTag' = bd[idx].tag /\ tk' = "take" /\ bd[idx].num = next
        BY <2>1, <2>6, Zenon DEF Landed
      <3>2. Holds(bd[idx], idx, gen, cnt - lag) /\ bd[idx].num + lag <= cnt
        BY <2>1, Zenon DEF DescInv, SlotInv
      <3>3. next > gen /\ next - gen \in Int /\ cnt - lag >= next
        BY <2>3, <3>1, <3>2
      <3>4. RxTag' = (next - gen) % TagMod
        BY <3>1, <3>2, <3>3 DEF Holds
      <3>5. RxTag' \in 0 .. TagMod - 1
        BY <2>3, <3>3, <3>4, ModSplit
      <3>6. tk' # "first" /\ Landed'
        BY <2>1, <3>1 DEF Landed
      <3> QED BY <2>1, <2>2, <2>4, <3>3, <3>4, <3>5, <3>6, Zenon DEF TagInv
    <2> QED BY <2>5, <2>6
  <1>5. ASSUME rx_mpdu PROVE TagInv'
    <2>1. /\ tk \in {"first", "take"} /\ tk' = "back"
          /\ UNCHANGED <<power, gen, RxTag, next, start_wait, cnt, lag>>
      BY <1>5, Zenon DEF rx_mpdu, dev, rtag
    <2>2. Taken' = Taken /\ tk' # "first" /\ tk' # "take"
      BY <2>1 DEF Taken
    <2> QED BY <2>1, <2>2, Zenon DEF TagInv
  <1>6. ASSUME rx_mpdu_done PROVE TagInv'
    <2>1. /\ tk = "back" /\ tk' \in {"unmask", "wait"} /\ next' = next + 1
          /\ UNCHANGED <<power, gen, RxTag, start_wait, cnt, lag>>
      BY <1>6, Zenon DEF rx_mpdu_done, dev, rtag
    <2>2. Taken' = Taken /\ tk' # "first" /\ tk' # "take"
      BY <2>1 DEF Taken, RingInv
    <2> QED BY <2>1, <2>2, Zenon DEF TagInv
  <1>7. ASSUME recv_tasklet PROVE TagInv'
    <2>1. /\ tk = "unmask" /\ tk' = "idle"
          /\ UNCHANGED <<power, gen, RxTag, next, start_wait, cnt, lag>>
      BY <1>7, Zenon DEF recv_tasklet, dev, rtag
    <2>2. Taken' = Taken /\ tk' # "first" /\ tk' # "take"
      BY <2>1 DEF Taken
    <2> QED BY <2>1, <2>2, Zenon DEF TagInv
  <1>8. ASSUME StopReset PROVE TagInv'
    <2>1. power' = FALSE /\ tk = "idle" /\ UNCHANGED <<RxTag, tk>>
      BY <1>8 DEF StopReset, IntfRest, QuietInv
    <2>2. tk' # "first" /\ tk' # "take"
      BY <2>1
    <2> QED BY <2>1, <2>2, Zenon DEF TagInv
  <1>9. ASSUME hal_init PROVE TagInv'
    <2>1. intf = "down" /\ gen' = cnt /\ UNCHANGED <<RxTag, tk, next>> /\ tk = "idle"
      BY <1>9 DEF hal_init, IntfRest, QuietInv
    <2>2. ~power
      BY <2>1 DEF RingInv
    <2>3. next = cnt + 1
      BY <2>2, SMT DEF RingInv, SlotInv, Waiting
    <2>4. Taken' = gen' /\ ~(Taken' > gen') /\ ~(Taken' > gen' + 1)
      BY <2>1, <2>3 DEF Taken, SlotInv
    <2>5. tk' # "first" /\ tk' # "take"
      BY <2>1
    <2> QED BY <2>1, <2>4, <2>5, Zenon DEF TagInv
  <1>10. ASSUME \/ rtw_pci_interrupt \/ Recognize \/ RecognizeClear \/ RecognizeRestore
               \/ rx_handler \/ rtw_free_recvframe \/ SetKey \/ Disconnect \/ StopMask
               \/ StopIrq \/ StopKill \/ StartIrq \/ StartMask \/ UNCHANGED vars
               \/ \E bit \in IntrMaskDefault : HwRaise(bit)
        PROVE TagInv'
    <2>1. UNCHANGED <<RxTag, bd, cnt, gen, idx, lag, next, power, start_wait, tk>>
      BY <1>10, Zenon DEF HwRaise, rtw_pci_interrupt, Recognize, RecognizeClear,
         RecognizeRestore, rx_handler, rtw_free_recvframe, SetKey, Disconnect, StopMask, StopIrq,
         StopKill, StartIrq, StartMask, AboveRest, IntfRest, IsrRest, dev, rtag, vars
    <2> QED BY <2>1, Zenon DEF TagInv, Taken, Landed
  <1> QED BY <1>1, <1>2, <1>3, <1>4, <1>5, <1>6, <1>7, <1>8, <1>9, <1>10, Zenon DEF Next

RightInv == Orderly => PlaceInv /\ DescInv /\ TagInv

LEMMA RightInit == Init => RightInv
  <1> SUFFICES ASSUME Init PROVE PlaceInv /\ DescInv /\ TagInv
    BY DEF RightInv
  <1>1. /\ cnt = 0 /\ lag = 0 /\ gen = 0 /\ next = 1 /\ tk = "idle" /\ RxTag = 0 /\ power = FALSE
        /\ bd = [s \in Slots |-> [tag |-> 0, num |-> 0]]
    BY DEF Init
  <1>2. \A s \in Slots : bd[s].num = 0 /\ bd[s].tag = 0 /\ bd[s].num + lag <= cnt
    BY <1>1
  <1>3. DescInv
    BY <1>1, <1>2 DEF DescInv
  <1>4. RxTag \in 0 .. TagMod - 1
    BY <1>1, RingAssumption
  <1>5. TagInv
    BY <1>1, <1>4 DEF TagInv
  <1> QED BY <1>3, <1>5, PlaceInit

LEMMA RightStep == IntInv /\ RightInv /\ [Next]_vars => RightInv'
  <1> SUFFICES ASSUME IntInv, RightInv, [Next]_vars, Orderly' PROVE (PlaceInv /\ DescInv /\ TagInv)'
    BY Zenon DEF RightInv
  <1>1. Orderly /\ SlotInv /\ QuietInv /\ RingInv /\ TakeInv /\ PlaceInv /\ DescInv /\ TagInv
    BY OrderlyBefore, Zenon DEF IntInv, RightInv
  <1> QED BY <1>1, PlaceStep, DescStep, TagStep, Zenon

\* The tasklet takes each descriptor the hardware has filled once, across the
\* end of the ring and across restarts, and takes it after its frame has
\* reached memory, for any ring shorter than the tag space and any number of
\* frames: rtl8821ce_check_rxdesc_remain, rtl8821ce_wait_rxrdy and
\* rtl8821ce_rx_mpdu in every order but those in race.
THEOREM FrameIsRight == Spec => []RightFrame
  <1>1. IntInv /\ RightInv => RightFrame
    <2> SUFFICES ASSUME IntInv, RightInv, Orderly
                 PROVE  /\ tk \in Taking => idx = hostIdx /\ rem <= cnt + 1 - next /\ power
                        /\ tk = "take" => Landed
      BY DEF RightFrame, Taking
    <2> QED BY DEF IntInv, RightInv, TakeInv, TagInv, Waiting
  <1> QED BY <1>1, IntInit, IntStep, RightInit, RightStep, PTL DEF Spec

-----------------------------------------------------------------------------
(* The order of encrypted frames.                                          *)

\* The number the frame the tasklet hands up next will have, or more.
Limit == next + (IF tk = "back" THEN 1 ELSE 0)

\* What waits for the key lies in the order of arrival, behind the encrypted
\* frame x that went up last and before frame m.
Behind(x, q, m) ==
  /\ x < m
  /\ \A i \in 1 .. Len(q) : x <= q[i] /\ q[i] < m
  /\ \A i, j \in 1 .. Len(q) : i < j => q[i] <= q[j]

OrderInv ==
  /\ last \in Nat
  /\ Behind(last, pend, Limit)
  /\ ~start_wait \/ tk = "first" => last = 0 /\ pend = <<>>

\* What the ring guarantees the tasklet.
Tasklet == SlotInv /\ QuietInv /\ Orderly /\ RingInv /\ TakeInv /\ PlaceInv /\ DescInv /\ TagInv

LEMMA EmptyBehind ==
  ASSUME NEW x, NEW m, x < m
  PROVE  Behind(x, <<>>, m)
  BY EmptySeq DEF Behind

LEMMA BehindMore ==
  ASSUME NEW x \in Nat, NEW q \in Seq(Nat), NEW m \in Nat, NEW n \in Nat, Behind(x, q, m), m <= n
  PROVE  Behind(x, q, n)
  <1>1. \A i \in 1 .. Len(q) : q[i] \in Nat
    BY ElementOfSeq
  <1> QED BY <1>1 DEF Behind

\* A frame joins the queue at its end.
LEMMA BehindAppend ==
  ASSUME NEW x \in Nat, NEW q \in Seq(Nat), NEW m \in Nat, Behind(x, q, m)
  PROVE  Behind(x, Append(q, m), m + 1)
  <1>1. /\ Append(q, m) \in Seq(Nat) /\ Len(Append(q, m)) = Len(q) + 1 /\ Len(q) \in Nat
        /\ \A i \in 1 .. Len(q) : Append(q, m)[i] = q[i] /\ q[i] \in Nat
        /\ Append(q, m)[Len(q) + 1] = m
    BY AppendProperties, ElementOfSeq, LenProperties
  <1> DEFINE a == Append(q, m)
             l == Len(q)
  <1> HIDE DEF a
  <1>2. ASSUME NEW i \in 1 .. l + 1 PROVE x <= a[i] /\ a[i] < m + 1
    <2>1. CASE i = l + 1
      BY <1>1, <2>1 DEF Behind, a
    <2>2. CASE i # l + 1
      <3>1. i \in 1 .. l
        BY <1>1, <2>2
      <3> QED BY <1>1, <3>1 DEF Behind, a
    <2> QED BY <2>1, <2>2
  <1>3. ASSUME NEW i \in 1 .. l + 1, NEW j \in 1 .. l + 1, i < j PROVE a[i] <= a[j]
    <2>1. i \in 1 .. l
      BY <1>1, <1>3
    <2>2. CASE j = l + 1
      BY <1>1, <2>1, <2>2 DEF Behind, a
    <2>3. CASE j # l + 1
      <3>1. j \in 1 .. l
        BY <1>1, <2>3
      <3> QED BY <1>1, <1>3, <2>1, <3>1 DEF Behind, a
    <2> QED BY <2>2, <2>3
  <1>4. x < m + 1
    BY DEF Behind
  <1> QED BY <1>1, <1>2, <1>3, <1>4, Zenon DEF Behind, a

\* The first n frames of the queue leave: the others are behind the last of them.
LEMMA BehindRest ==
  ASSUME NEW x \in Nat, NEW q \in Seq(Nat), NEW m \in Nat, Behind(x, q, m), NEW n \in 0 .. Len(q)
  PROVE  LET y == IF n > 0 THEN q[n] ELSE x
         IN  y \in Nat /\ x <= y /\ Behind(y, SubSeq(q, n + 1, Len(q)), m)
  <1> DEFINE y == IF n > 0 THEN q[n] ELSE x
             r == SubSeq(q, n + 1, Len(q))
             l == Len(q)
  <1>1. l \in Nat /\ \A i \in 1 .. l : q[i] \in Nat
    BY ElementOfSeq, LenProperties
  <1>2. Len(r) = l - n /\ \A i \in 1 .. l - n : r[i] = q[n + i]
    BY <1>1
  <1>3. y \in Nat /\ x <= y /\ y < m
    BY <1>1 DEF Behind
  <1>4. \A i \in 1 .. l - n : n + i \in 1 .. l
    BY <1>1
  <1>5. ASSUME NEW i \in 1 .. l - n PROVE y <= r[i] /\ r[i] < m
    BY <1>1, <1>2, <1>4 DEF Behind
  <1>6. ASSUME NEW i \in 1 .. l - n, NEW j \in 1 .. l - n, i < j PROVE r[i] <= r[j]
    <2>1. n + i < n + j
      BY <1>1, <1>6
    <2> QED BY <1>2, <1>4, <2>1 DEF Behind
  <1> HIDE DEF y, r, l
  <1>7. Behind(y, r, m)
    BY <1>2, <1>3, <1>5, <1>6, Zenon DEF Behind
  <1> QED BY <1>3, <1>7 DEF y, r, l

\* recv_func hands encrypted frames up in order, whether this one waits, lets
\* the ones that waited go first, or is not encrypted.
LEMMA RecvOrder ==
  ASSUME pend \in Seq(Nat), last \in Nat, key \in BOOLEAN,
         NEW num \in Nat, NEW enc \in BOOLEAN, NEW valid \in BOOLEAN,
         Behind(last, pend, num) \/ (last = 0 /\ pend = <<>>),
         recv_func(num, enc, valid)
  PROVE  last' \in Nat /\ pend' \in Seq(Nat) /\ last <= last' /\ Behind(last', pend', num + 1)
  <1> DEFINE waits == valid /\ enc /\ ~key
             q     == IF waits THEN Append(pend, num) ELSE pend
             n     == FromQueue(waits)
             own   == IF valid /\ ~waits THEN 1 ELSE 0
             y     == IF n > 0 THEN q[n] ELSE last
  <1>1. /\ pend' = SubSeq(q, n + 1, Len(q))
        /\ last' = IF own = 1 /\ enc THEN num ELSE IF n > 0 THEN q[n] ELSE last
    BY Zenon DEF recv_func
  <1>2. last <= num /\ Behind(last, pend, num + 1)
    <2>1. CASE Behind(last, pend, num)
      <3>1. num <= num + 1 /\ num + 1 \in Nat
        OBVIOUS
      <3> QED BY <2>1, <3>1, BehindMore DEF Behind
    <2>2. CASE last = 0 /\ pend = <<>>
      <3>1. last < num + 1 /\ last <= num
        BY <2>2
      <3> QED BY <2>2, <3>1, EmptyBehind
    <2> QED BY <2>1, <2>2
  <1>3. q \in Seq(Nat) /\ Behind(last, q, num + 1)
    <2>1. CASE waits /\ Behind(last, pend, num)
      BY <2>1, BehindAppend, AppendProperties
    <2>2. CASE waits /\ last = 0 /\ pend = <<>>
      <3>1. q = <<num>>
        BY <2>2
      <3>2. last <= num /\ num < num + 1 /\ last < num + 1
        BY <2>2
      <3>3. /\ <<num>> \in Seq(Nat) /\ Len(<<num>>) = 1 /\ <<num>>[1] = num
            /\ \A i \in 1 .. 1 : i = 1 /\ ~(i < i)
        OBVIOUS
      <3>4. Behind(last, <<num>>, num + 1)
        BY <3>2, <3>3 DEF Behind
      <3> QED BY <3>1, <3>3, <3>4
    <2>3. CASE ~waits
      BY <1>2, <2>3
    <2> QED BY <2>1, <2>2, <2>3
  <1>4. n \in 0 .. Len(q) /\ (own = 1 /\ enc => n = Len(pend) /\ q = pend)
    <2>1. Len(pend) \in Nat
      BY LenProperties
    <2>2. CASE waits
      <3>1. own = 0 /\ Len(q) = Len(pend) + 1
        BY <2>2, AppendProperties
      <3>2. n = 0 \/ n = 1
        BY <2>2 DEF FromQueue
      <3> QED BY <2>1, <3>1, <3>2
    <2>3. CASE ~waits
      <3>1. q = pend /\ n = IF key THEN Len(pend) ELSE 0
        BY <2>3 DEF FromQueue
      <3>2. ASSUME own = 1, enc PROVE key
        <4>1. own = 0 \/ valid
          BY Zenon
        <4>2. valid
          <5> HIDE DEF own
          <5> QED BY <3>2, <4>1
        <4> QED BY <2>3, <3>2, <4>2, Zenon
      <3> QED BY <2>1, <3>1, <3>2
    <2> QED BY <2>2, <2>3
  <1> HIDE DEF waits, q, n, own, y
  <1>5. y \in Nat /\ last <= y /\ Behind(y, SubSeq(q, n + 1, Len(q)), num + 1)
    BY <1>3, <1>4, BehindRest DEF y
  <1>8. pend' \in Seq(Nat)
    <2>1. Len(q) \in Nat
      BY <1>3, LenProperties
    <2>2. n + 1 \in 1 .. Len(q) + 1
      BY <1>4, <2>1
    <2>3. SubSeq(q, n + 1, Len(q)) \in Seq(Nat)
      BY <1>3, <2>1, <2>2, SMT
    <2> QED BY <1>1, <2>3
  <1>6. CASE own = 1 /\ enc
    <2>1. last' = num /\ Len(q) \in Nat
      BY <1>1, <1>3, <1>6, LenProperties
    <2>2. pend' = <<>>
      BY <1>1, <1>3, <1>4, <1>6, <2>1
    <2>3. num < num + 1
      OBVIOUS
    <2> QED BY <1>2, <1>8, <2>1, <2>2, <2>3, EmptyBehind
  <1>7. CASE ~(own = 1 /\ enc)
    <2>1. last' = y
      BY <1>1, <1>7, Zenon DEF y
    <2> QED BY <1>1, <1>5, <1>8, <2>1, Zenon
  <1> QED BY <1>6, <1>7, <1>8

\* A frame in the tasklet's hands has been waited for, or is the first.
LEMMA TakenWaits ==
  ASSUME Tasklet, tk \in {"first", "take"}
  PROVE  start_wait /\ next \in Nat /\ gen \in Nat /\ gen < next
  <1>1. power /\ next \in Nat /\ gen \in Nat /\ gen < next
    BY DEF Tasklet, TakeInv, Taking, PlaceInv, RingInv
  <1>2. Taken = next
    BY <1>1 DEF Taken
  <1>3. Taken # gen
    BY <1>1, <1>2
  <1> QED BY <1>1, <1>3, Zenon DEF Tasklet, TagInv

\* The number in the descriptor of the first frame is no later one.
LEMMA FirstNumber ==
  ASSUME Tasklet, tk = "first"
  PROVE  bd[idx].num <= next
  <1>1. /\ power /\ next \in Nat /\ gen \in Nat /\ next = gen + 1 /\ idx = (next - 1 - gen) % N
        /\ idx \in Slots /\ lag \in Nat /\ cnt \in Nat
    BY DEF Tasklet, TakeInv, Taking, PlaceInv, RingInv, TagInv, SlotInv
  <1>2. /\ Holds(bd[idx], idx, gen, cnt - lag) /\ bd[idx].num + lag <= cnt /\ bd[idx].num \in Nat
    BY <1>1 DEF Tasklet, DescInv, SlotInv
  <1>3. cnt + 1 - next <= N - 1
    BY <1>1 DEF Tasklet, RingInv, Ahead, Waiting
  <1> SUFFICES ASSUME bd[idx].num > gen PROVE bd[idx].num <= next
    BY <1>1, <1>2
  <1> DEFINE x == bd[idx].num - 1 - gen
             y == next - 1 - gen
  <1>4. x % N = y % N
    BY <1>1, <1>2 DEF Holds
  <1>5. x \in Int /\ y \in Int /\ x - y < N /\ y - x < N /\ N \in Nat \ {0}
    BY <1>1, <1>2, <1>3, RingAssumption
  <1> HIDE DEF x, y
  <1>6. x = y
    BY <1>4, <1>5, ModEqual
  <1> QED BY <1>1, <1>2, <1>6 DEF x, y

\* rtl8821ce_rx_mpdu: the frame it hands up is later than all that went before.
LEMMA TakeOrder ==
  ASSUME Tasklet, PoolTypes, key \in BOOLEAN, OrderInv, rx_mpdu
  PROVE  last' \in Nat /\ last <= last' /\ Behind(last', pend', next + 1)
  <1>1. tk \in {"first", "take"}
    BY DEF rx_mpdu
  <1>2. next \in Nat /\ next + 1 \in Nat /\ next <= next + 1 /\ pend \in Seq(Nat) /\ last \in Nat
    BY <1>1, TakenWaits DEF PoolTypes, OrderInv
  <1>3. Behind(last, pend, next)
    <2>1. Limit = next
      BY <1>1, <1>2 DEF Limit
    <2> QED BY <2>1 DEF OrderInv
  <1>4. CASE UNCHANGED <<last, pend>>
    <2>1. Behind(last, pend, next + 1)
      BY <1>2, <1>3, BehindMore
    <2> QED BY <1>2, <1>4, <2>1
  <1>5. CASE \E valid \in BOOLEAN : recv_func(bd[idx].num, bd[idx].num \in Encrypted, valid)
    <2> DEFINE num == bd[idx].num
    <2>1. PICK valid \in BOOLEAN : recv_func(num, num \in Encrypted, valid)
      BY <1>5
    <2>2. num \in Nat /\ (num \in Encrypted) \in BOOLEAN
      BY DEF Tasklet, SlotInv
    <2>3. num <= next /\ (Behind(last, pend, num) \/ (last = 0 /\ pend = <<>>))
      <3>1. CASE tk = "take"
        BY <1>2, <1>3, <3>1 DEF Tasklet, TagInv, Landed
      <3>2. CASE tk = "first"
        BY <3>2, FirstNumber DEF OrderInv
      <3> QED BY <1>1, <3>1, <3>2
    <2> HIDE DEF num
    <2>4. last' \in Nat /\ pend' \in Seq(Nat) /\ last <= last' /\ Behind(last', pend', num + 1)
      BY <1>2, <2>1, <2>2, <2>3, RecvOrder
    <2>5. num + 1 \in Nat /\ num + 1 <= next + 1
      BY <1>2, <2>2, <2>3
    <2>6. pend' \in Seq(Nat)
      BY <2>4
    <2> QED BY <1>2, <2>4, <2>5, <2>6, BehindMore
  <1> QED BY <1>4, <1>5, Zenon DEF rx_mpdu, CopyFails

\* The queue of waiting frames is touched by the tasklet and a disconnect only.
LEMMA OrderStep ==
  ASSUME Tasklet, PoolTypes, key \in BOOLEAN, OrderInv, [Next]_vars
  PROVE  OrderInv'
  <1>1. ASSUME TaskletRun PROVE OrderInv'
    <2>1. tk = "idle" /\ tk' \in {"unmask", "wait"} /\ UNCHANGED <<last, pend, next, start_wait>>
      BY <1>1 DEF TaskletRun, pool, rtag
    <2> QED BY <2>1, SMT DEF OrderInv, Behind, Limit
  <1>2. ASSUME wait_rxrdy PROVE OrderInv'
    <2>1. /\ tk = "wait" /\ tk' \in {"first", "take"} /\ start_wait' = TRUE /\ UNCHANGED <<last, pend, next>>
          /\ tk' = "first" => ~start_wait
      BY <1>2 DEF wait_rxrdy, pool
    <2>2. Limit' = Limit
      BY <2>1 DEF Limit
    <2> QED BY <2>1, <2>2, Zenon DEF OrderInv, Behind
  <1>3. ASSUME rx_mpdu PROVE OrderInv'
    <2>1. /\ tk \in {"first", "take"} /\ tk' = "back" /\ UNCHANGED <<next, start_wait>>
      BY <1>3, Zenon DEF rx_mpdu, rtag
    <2>2. start_wait /\ next \in Nat
      BY <2>1, TakenWaits
    <2>3. Limit' = next + 1 /\ Limit = next
      BY <2>1, <2>2 DEF Limit
    <2>4. last' \in Nat /\ Behind(last', pend', next + 1)
      BY <1>3, TakeOrder
    <2>5. tk' # "first"
      BY <2>1
    <2> QED BY <2>1, <2>2, <2>3, <2>4, <2>5, Zenon DEF OrderInv
  <1>4. ASSUME rx_mpdu_done PROVE OrderInv'
    <2>1. /\ tk = "back" /\ tk' \in {"unmask", "wait"} /\ next' = next + 1
          /\ UNCHANGED <<last, pend, start_wait>>
      BY <1>4, Zenon DEF rx_mpdu_done, pool, rtag
    <2>2. Limit' = Limit /\ tk' # "first"
      BY <2>1 DEF Limit, Tasklet, RingInv
    <2> QED BY <2>1, <2>2, Zenon DEF OrderInv
  <1>5. ASSUME recv_tasklet PROVE OrderInv'
    <2>1. tk = "unmask" /\ tk' = "idle" /\ UNCHANGED <<last, pend, next, start_wait>>
      BY <1>5 DEF recv_tasklet, pool, rtag
    <2> QED BY <2>1, SMT DEF OrderInv, Behind, Limit
  <1>6. ASSUME Disconnect PROVE OrderInv'
    <2>1. pend' = <<>> /\ UNCHANGED <<last, next, tk, start_wait>>
      BY <1>6, Zenon DEF Disconnect, AboveRest, rtag
    <2>2. Limit' = Limit
      BY <2>1, Zenon DEF Limit
    <2>3. last < Limit
      BY Zenon DEF OrderInv, Behind
    <2>4. Behind(last, <<>>, Limit)
      BY <2>3, EmptyBehind
    <2> QED BY <2>1, <2>2, <2>4, Zenon DEF OrderInv
  <1>7. ASSUME StopReset PROVE OrderInv'
    <2>1. next' = cnt + 1 /\ tk = "idle" /\ UNCHANGED <<last, pend, tk, start_wait>>
      BY <1>7, Zenon DEF StopReset, IntfRest, pool, Tasklet, QuietInv
    <2>2. next <= cnt + 1 /\ next \in Nat /\ cnt \in Nat
      BY SMT DEF Tasklet, RingInv, Waiting, Ahead, SlotInv
    <2>3. Limit = next /\ Limit' = cnt + 1
      BY <2>1, <2>2 DEF Limit
    <2>4. Behind(last, pend, cnt + 1)
      BY <2>2, <2>3, BehindMore DEF OrderInv, PoolTypes
    <2> QED BY <2>1, <2>3, <2>4, Zenon DEF OrderInv
  <1>8. ASSUME \/ HwReceive \/ HwWrite \/ rtw_pci_interrupt \/ Recognize \/ RecognizeClear
               \/ RecognizeRestore \/ rx_handler \/ rtw_free_recvframe \/ SetKey \/ StopMask
               \/ StopIrq \/ StopKill \/ hal_init \/ StartIrq \/ StartMask \/ UNCHANGED vars
               \/ \E bit \in IntrMaskDefault : HwRaise(bit)
        PROVE OrderInv'
    <2>1. UNCHANGED <<last, next, pend, start_wait, tk>>
      BY <1>8, Zenon DEF HwReceive, HwWrite, HwRaise, rtw_pci_interrupt, Recognize,
         RecognizeClear, RecognizeRestore, rx_handler, rtw_free_recvframe, SetKey, StopMask,
         StopIrq, StopKill, hal_init, StartIrq, StartMask, AboveRest, IntfRest, IsrRest, pool,
         rtag, vars
    <2> QED BY <2>1, Zenon DEF OrderInv, Behind, Limit
  <1> QED BY <1>1, <1>2, <1>3, <1>4, <1>5, <1>6, <1>7, <1>8, Zenon DEF Next

\* What RightFrame's invariant and the pool's give together.
AllInv == IntInv /\ RightInv /\ PoolInv /\ key \in BOOLEAN /\ (Orderly => OrderInv)

LEMMA AllInit == Init => AllInv
  <1> SUFFICES ASSUME Init PROVE AllInv
    OBVIOUS
  <1>1. IntInv /\ RightInv /\ PoolInv /\ key \in BOOLEAN
    BY IntInit, RightInit, SlotInit, PoolInit DEF PoolInv
  <1>2. last = 0 /\ pend = <<>> /\ next = 1 /\ tk = "idle"
    BY DEF Init
  <1>3. last < Limit /\ last \in Nat
    BY <1>2 DEF Limit
  <1>4. OrderInv
    BY <1>2, <1>3, EmptyBehind DEF OrderInv
  <1> QED BY <1>1, <1>4 DEF AllInv

LEMMA AllStep == AllInv /\ [Next]_vars => AllInv'
  <1> SUFFICES ASSUME AllInv, [Next]_vars PROVE AllInv'
    OBVIOUS
  <1>1. (IntInv /\ RightInv /\ PoolInv /\ key \in BOOLEAN)'
    BY IntStep, RightStep, SlotStep, PoolStep, KeyStep, Zenon DEF AllInv, PoolInv
  <1>2. ASSUME Orderly' PROVE OrderInv'
    <2>1. Tasklet /\ PoolTypes /\ key \in BOOLEAN /\ OrderInv
      BY <1>2, OrderlyBefore, Zenon DEF AllInv, IntInv, RightInv, PoolInv, Tasklet
    <2> QED BY <2>1, OrderStep
  <1> QED BY <1>1, <1>2, Zenon DEF AllInv

\* Encrypted frames go up in the order of arrival, whichever had to wait for
\* the key, whenever the key comes or goes, in every order but those in race:
\* recv_func and rtl8821ce_rx_mpdu, for any ring, pool and number of frames.
THEOREM EncryptedOrder == Spec /\ []Orderly => EncryptedInOrder
  <1>1. AllInv /\ Orderly /\ [Next]_vars => [last' # last => last' > last]_vars
    <2> SUFFICES ASSUME AllInv, Orderly, Next, last' # last PROVE last' > last
      OBVIOUS
    <2>1. rx_mpdu
      <3> SUFFICES ASSUME ~rx_mpdu PROVE last' = last
        OBVIOUS
      <3> QED
        BY Zenon DEF Next, HwReceive, HwWrite, HwRaise, rtw_pci_interrupt, Recognize,
           RecognizeClear,
           RecognizeRestore, rx_handler, TaskletRun, wait_rxrdy, rx_mpdu_done, recv_tasklet,
           rtw_free_recvframe, SetKey, Disconnect, StopMask, StopIrq, StopKill, StopReset, hal_init,
           StartIrq, StartMask, IsrRest, AboveRest, IntfRest, pool
    <2>2. Tasklet /\ PoolTypes /\ key \in BOOLEAN /\ OrderInv
      BY Zenon DEF AllInv, IntInv, RightInv, PoolInv, Tasklet
    <2>3. last \in Nat /\ last' \in Nat /\ last <= last'
      BY <2>1, <2>2, TakeOrder DEF OrderInv
    <2> QED BY <2>3
  <1> QED BY <1>1, AllInit, AllStep, PTL DEF Spec, EncryptedInOrder

-----------------------------------------------------------------------------
(* Types.                                                                  *)

\* Flags, registers and places of the threads.
FlagInv ==
  /\ hisr \subseteq IntrMaskDefault /\ himr \subseteq IntrMaskDefault /\ msi \in BOOLEAN
  /\ IntrMask \subseteq IntrMaskDefault /\ IntArray \subseteq IntrMaskDefault
  /\ irq_enabled \in BOOLEAN /\ isr \in {"idle", "read", "clear", "restore", "rx"}
  /\ sched \in BOOLEAN /\ start_wait \in BOOLEAN

\* Sizes and counts.
SizeInv ==
  /\ lag \in 0 .. N - 1 /\ cnt <= MaxFrames /\ gen <= cnt
  /\ rem \in 0 .. N - 1 /\ tag \in 0 .. TagMod - 1
  /\ bd \in [Slots -> [tag : 0 .. TagMod - 1, num : 0 .. MaxFrames]]
  /\ stops \in 0 .. MaxRestart

\* Registers stay within the default mask: what is written comes from them.
LEMMA FlagStep ==
  ASSUME FlagInv, [Next]_vars
  PROVE  FlagInv'
  <1> USE DEF FlagInv, IntrMaskDefault, rtag, soft, ints
  <1>1. ASSUME HwWrite PROVE FlagInv'
    BY <1>1, Zenon DEF HwWrite, Registers, soft, rtag
  <1>2. ASSUME NEW bit \in IntrMaskDefault, HwRaise(bit) PROVE FlagInv'
    BY <1>2, Zenon DEF HwRaise, Registers, soft, rtag
  <1>3. ASSUME rtw_pci_interrupt PROVE FlagInv'
    BY <1>3, Zenon DEF rtw_pci_interrupt, rtag
  <1>4. ASSUME Recognize PROVE FlagInv'
    BY <1>4, Zenon DEF Recognize, Registers, IsrRest
  <1>5. ASSUME RecognizeClear PROVE FlagInv'
    BY <1>5, Zenon DEF RecognizeClear, Registers, IsrRest
  <1>6. ASSUME RecognizeRestore PROVE FlagInv'
    BY <1>6, Zenon DEF RecognizeRestore, Registers, IsrRest
  <1>7. ASSUME rx_handler PROVE FlagInv'
    BY <1>7, Zenon DEF rx_handler, Registers, IsrRest
  <1>8. ASSUME TaskletRun PROVE FlagInv'
    BY <1>8, Zenon DEF TaskletRun, ints, soft, rtag
  <1>9. ASSUME wait_rxrdy PROVE FlagInv'
    BY <1>9, Zenon DEF wait_rxrdy, ints, soft
  <1>10. ASSUME recv_tasklet PROVE FlagInv'
    BY <1>10, Zenon DEF recv_tasklet, Registers, rtag
  <1>11. ASSUME StopMask PROVE FlagInv'
    BY <1>11, Zenon DEF StopMask, Registers, IntfRest
  <1>12. ASSUME StopIrq PROVE FlagInv'
    BY <1>12, Zenon DEF StopIrq, ints, IntfRest
  <1>13. ASSUME StopReset PROVE FlagInv'
    BY <1>13, Zenon DEF StopReset, IntfRest
  <1>14. ASSUME StartIrq PROVE FlagInv'
    BY <1>14, Zenon DEF StartIrq, ints, IntfRest
  <1>15. ASSUME StartMask PROVE FlagInv'
    BY <1>15, Zenon DEF StartMask, Registers, IntfRest
  <1>16. ASSUME \/ HwReceive \/ rx_mpdu \/ rx_mpdu_done \/ rtw_free_recvframe \/ SetKey
               \/ Disconnect \/ StopKill \/ hal_init \/ UNCHANGED vars
        PROVE FlagInv'
    <2>1. UNCHANGED <<IntArray, IntrMask, himr, hisr, irq_enabled, isr, msi, sched, start_wait>>
      BY <1>16, Zenon DEF HwReceive, rx_mpdu, rx_mpdu_done, rtw_free_recvframe, SetKey,
         Disconnect, StopKill, hal_init, AboveRest, IntfRest, ints, rtag, soft, vars
    <2> QED BY <2>1, Zenon
  <1> QED BY <1>1, <1>2, <1>3, <1>4, <1>5, <1>6, <1>7, <1>8, <1>9, <1>10, <1>11, <1>12, <1>13,
         <1>14, <1>15, <1>16, Zenon DEF Next

LEMMA SizeStep ==
  ASSUME Tasklet, SizeInv, [Next]_vars
  PROVE  SizeInv'
  <1>1. ASSUME HwReceive PROVE SizeInv'
    <2>1. /\ lag' = lag + 1 /\ lag < N - 1 /\ cnt' = cnt + 1 /\ cnt < MaxFrames
          /\ UNCHANGED <<rem, tag, bd, stops, gen>>
      BY <1>1, Zenon DEF HwReceive, rtag
    <2>2. lag' \in 0 .. N - 1 /\ cnt' <= MaxFrames /\ gen <= cnt'
      BY <2>1, RingAssumption, BoundsAssumption DEF SizeInv, Tasklet, SlotInv, PlaceInv
    <2> QED BY <2>1, <2>2, Zenon DEF SizeInv
  <1>2. ASSUME HwWrite PROVE SizeInv'
    <2>1. /\ lag' = lag - 1 /\ lag > 0 /\ tag' = (tag + 1) % TagMod /\ UNCHANGED <<rem, cnt, stops, gen>>
          /\ bd' = [bd EXCEPT ![(hwIdx + N - lag) % N] = [tag |-> tag, num |-> cnt - lag + 1]]
      BY <1>2, Zenon DEF HwWrite, rtag
    <2>2. lag' \in 0 .. N - 1 /\ cnt - lag + 1 \in 0 .. MaxFrames
      BY <2>1, RingAssumption, BoundsAssumption DEF SizeInv, Tasklet, SlotInv
    <2>3. tag' \in 0 .. TagMod - 1
      <3>1. tag + 1 \in Int /\ TagMod \in Nat \ {0}
        BY RingAssumption DEF SizeInv
      <3> QED BY <2>1, <3>1, ModSplit
    <2>4. [tag |-> tag, num |-> cnt - lag + 1] \in [tag : 0 .. TagMod - 1, num : 0 .. MaxFrames]
      BY <2>2 DEF SizeInv
    <2>5. bd' \in [Slots -> [tag : 0 .. TagMod - 1, num : 0 .. MaxFrames]]
      BY <2>1, <2>4, Zenon DEF SizeInv
    <2> QED BY <2>1, <2>2, <2>3, <2>5, Zenon DEF SizeInv
  <1>3. ASSUME TaskletRun PROVE SizeInv'
    <2>1. /\ UNCHANGED <<lag, cnt, tag, bd, stops, gen>>
          /\ rem' = rem \/ rem' = check_rxdesc_remain(hwIdx, hostIdx)
      BY <1>3, Zenon DEF TaskletRun, dev, rtag
    <2>2. check_rxdesc_remain(hwIdx, hostIdx) \in 0 .. N - 1
      BY RingAssumption DEF check_rxdesc_remain, Tasklet, SlotInv, Slots
    <2>3. rem' \in 0 .. N - 1
      BY <2>1, <2>2, Zenon DEF SizeInv
    <2> QED BY <2>1, <2>3, Zenon DEF SizeInv
  <1>4. ASSUME rx_mpdu_done PROVE SizeInv'
    <2>1. tk = "back" /\ rem' = rem - 1 /\ UNCHANGED <<lag, cnt, tag, bd, stops, gen>>
      BY <1>4, Zenon DEF rx_mpdu_done, dev, rtag
    <2>2. rem > 0
      BY <2>1 DEF Tasklet, TakeInv, Taking
    <2>3. rem' \in 0 .. N - 1
      BY <2>1, <2>2, RingAssumption DEF SizeInv
    <2> QED BY <2>1, <2>3, Zenon DEF SizeInv
  <1>5. ASSUME StopMask PROVE SizeInv'
    <2>1. stops' = stops + 1 /\ stops < MaxRestart /\ UNCHANGED <<lag, cnt, tag, bd, rem, gen>>
      BY <1>5, Zenon DEF StopMask, IntfRest, dev
    <2>2. stops' \in 0 .. MaxRestart
      BY <2>1, BoundsAssumption DEF SizeInv
    <2> QED BY <2>1, <2>2, Zenon DEF SizeInv
  <1>6. ASSUME StopReset PROVE SizeInv'
    <2>1. lag' = 0 /\ UNCHANGED <<cnt, tag, bd, rem, gen, stops>>
      BY <1>6, Zenon DEF StopReset, IntfRest
    <2>2. lag' \in 0 .. N - 1
      BY <2>1, RingAssumption
    <2> QED BY <2>1, <2>2, Zenon DEF SizeInv
  <1>7. ASSUME hal_init PROVE SizeInv'
    <2>1. tag' = 1 /\ gen' = cnt /\ UNCHANGED <<lag, cnt, bd, rem, stops>>
      BY <1>7, Zenon DEF hal_init, IntfRest
    <2>2. tag' \in 0 .. TagMod - 1 /\ gen' <= cnt'
      BY <2>1, RingAssumption DEF Tasklet, SlotInv
    <2> QED BY <2>1, <2>2, Zenon DEF SizeInv
  <1>8. ASSUME \/ rtw_pci_interrupt \/ Recognize \/ RecognizeClear \/ RecognizeRestore
               \/ rx_handler \/ wait_rxrdy \/ rx_mpdu \/ recv_tasklet \/ rtw_free_recvframe
               \/ SetKey \/ Disconnect \/ StopIrq \/ StopKill \/ StartIrq \/ StartMask
               \/ UNCHANGED vars
               \/ \E bit \in IntrMaskDefault : HwRaise(bit)
        PROVE SizeInv'
    <2>1. UNCHANGED <<bd, cnt, gen, lag, rem, stops, tag>>
      BY <1>8, Zenon DEF HwRaise, rtw_pci_interrupt, Recognize, RecognizeClear, RecognizeRestore,
         rx_handler, wait_rxrdy, rx_mpdu, recv_tasklet, rtw_free_recvframe, SetKey, Disconnect,
         StopIrq, StopKill, StartIrq, StartMask, AboveRest, IntfRest, IsrRest, dev, rtag, vars
    <2> QED BY <2>1, Zenon DEF SizeInv
  <1> QED BY <1>1, <1>2, <1>3, <1>4, <1>5, <1>6, <1>7, <1>8, Zenon DEF Next

TypeInv == AllInv /\ FlagInv /\ (Orderly => SizeInv)

LEMMA TypeInit == Init => TypeInv
  <1> SUFFICES ASSUME Init PROVE FlagInv /\ SizeInv
    BY AllInit DEF TypeInv
  <1>1. FlagInv
    BY DEF Init, FlagInv, IntrMaskDefault
  <1>2. /\ 0 \in 0 .. N - 1 /\ 0 \in 0 .. TagMod - 1 /\ 1 \in 0 .. TagMod - 1 /\ 0 \in 0 .. MaxFrames
        /\ 0 <= MaxFrames /\ 0 \in 0 .. MaxRestart /\ 0 <= 0
    BY RingAssumption, BoundsAssumption
  <1>3. bd \in [Slots -> [tag : 0 .. TagMod - 1, num : 0 .. MaxFrames]]
    <2>1. bd = [s \in Slots |-> [tag |-> 0, num |-> 0]]
      BY DEF Init
    <2> QED BY <1>2, <2>1
  <1>4. lag = 0 /\ cnt = 0 /\ gen = 0 /\ rem = 0 /\ tag = 1 /\ stops = 0
    BY DEF Init
  <1> QED BY <1>1, <1>2, <1>3, <1>4, Zenon DEF SizeInv

LEMMA TypeStep == TypeInv /\ [Next]_vars => TypeInv'
  <1> SUFFICES ASSUME TypeInv, [Next]_vars PROVE TypeInv'
    OBVIOUS
  <1>1. AllInv' /\ FlagInv'
    BY AllStep, FlagStep, Zenon DEF TypeInv
  <1>2. ASSUME Orderly' PROVE SizeInv'
    <2>1. Tasklet /\ SizeInv
      BY <1>2, OrderlyBefore, Zenon DEF TypeInv, AllInv, IntInv, RightInv, Tasklet
    <2> QED BY <2>1, SizeStep
  <1> QED BY <1>1, <1>2, Zenon DEF TypeInv

\* The type invariant, in every order but those in race; among them that the
\* remaining count of the tasklet stays on the ring and that no counter
\* passes its bound.
THEOREM TypeCorrect == Spec => [](Orderly => TypeOK)
  <1>1. TypeInv => (Orderly => TypeOK)
    <2> SUFFICES ASSUME TypeInv, Orderly PROVE TypeOK
      OBVIOUS
    <2>1. Tasklet /\ IrqInv /\ PoolTypes /\ PoolConserved /\ key \in BOOLEAN /\ OrderInv /\ FlagInv /\ SizeInv
      BY Zenon DEF TypeInv, AllInv, IntInv, RightInv, PoolInv, Tasklet
    <2>2. cnt \in 0 .. MaxFrames /\ gen \in 0 .. MaxFrames /\ next \in 1 .. MaxFrames + 1
      <3>1. cnt \in Nat /\ gen \in Nat /\ next \in Nat /\ cnt <= MaxFrames /\ gen <= cnt
        BY <2>1 DEF Tasklet, SlotInv, PlaceInv, RingInv, SizeInv
      <3>2. cnt + 1 - next \in Nat
        BY <2>1, RingAssumption DEF Tasklet, RingInv, Ahead, Waiting
      <3>3. next >= 1
        <4>1. CASE power
          <5>1. gen < next
            BY <2>1, <4>1 DEF Tasklet, PlaceInv
          <5> QED BY <3>1, <5>1
        <4>2. CASE ~power
          <5>1. cnt + 1 - next = 0
            BY <2>1, <4>2 DEF Tasklet, RingInv, Waiting
          <5> QED BY <3>1, <5>1
        <4> QED BY <4>1, <4>2
      <3> QED BY <3>1, <3>2, <3>3, BoundsAssumption
    <2>3. Limit \in Nat /\ Limit <= MaxFrames + 1
      <3>1. tk = "back" => next <= cnt
        BY <2>1, <2>2 DEF Tasklet, TakeInv, Taking, Waiting, RingInv
      <3> QED BY <2>2, <3>1, BoundsAssumption DEF Limit
    <2>4. last \in 0 .. MaxFrames /\ pend \in Seq(0 .. MaxFrames)
      <3>1. last \in Nat /\ last < Limit /\ pend \in Seq(Nat)
            /\ \A i \in 1 .. Len(pend) : pend[i] < Limit
        BY <2>1 DEF OrderInv, Behind, PoolTypes
      <3>2. \A i \in 1 .. Len(pend) : pend[i] \in 0 .. MaxFrames
        <4>1. \A i \in 1 .. Len(pend) : pend[i] \in Nat
          BY <3>1, ElementOfSeq
        <4> QED BY <2>3, <3>1, <4>1, BoundsAssumption
      <3>3. pend \in Seq(0 .. MaxFrames)
        <4>1. pend \in [1 .. Len(pend) -> Nat] /\ Len(pend) \in Nat
          BY <3>1, LenProperties
        <4>2. pend \in [1 .. Len(pend) -> 0 .. MaxFrames]
          BY <3>2, <4>1
        <4>3. Seq(0 .. MaxFrames) = UNION {[1 .. n -> 0 .. MaxFrames] : n \in Nat}
          BY SeqDef
        <4> QED BY <4>1, <4>2, <4>3, Zenon
      <3> QED BY <2>3, <3>1, <3>3, BoundsAssumption
    <2>5. /\ free \in 0 .. NumFrames /\ held \in 0 .. NumFrames /\ Len(pend) <= NumFrames
      <3>1. Len(pend) \in Nat /\ free \in Nat /\ held \in Nat /\ free + held + Len(pend) = NumFrames
        BY <2>1, LenProperties DEF PoolTypes, PoolConserved
      <3> QED BY <3>1, PoolAssumption
    <2>6. /\ power \in BOOLEAN /\ hwIdx \in Slots /\ hostIdx \in Slots /\ idx \in Slots
          /\ start_rx \in BOOLEAN /\ RxTag \in 0 .. TagMod - 1
          /\ intf \in {"run", "masked", "kill", "killed", "down", "init", "enable"}
          /\ tk \in {"idle", "wait", "first", "take", "back", "unmask"}
      <3>1. tk \in Taking \cup {"idle", "unmask"}
        BY <2>1, Zenon DEF Tasklet, TakeInv
      <3>2. tk \in {"idle", "wait", "first", "take", "back", "unmask"}
        BY <3>1 DEF Taking
      <3> QED BY <2>1, <3>2, Zenon DEF Tasklet, RingInv, SlotInv, TagInv, IrqInv
    <2> QED BY <2>1, <2>2, <2>4, <2>5, <2>6, Zenon DEF TypeOK, FlagInv, SizeInv
  <1> QED BY <1>1, TypeInit, TypeStep, PTL DEF Spec
=============================================================================
