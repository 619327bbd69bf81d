--------------------------- MODULE RxReorderProofs ---------------------------
(***************************************************************************)
(* Proofs about RxReorder, for every size of the sequence number space and *)
(* of the window that SizeAssumption allows, any number of frames and any  *)
(* number of receptions.  First what holds under every event: types, and   *)
(* that what waits has a timer.  Then, within one block-ack agreement,     *)
(* that frames are delivered in order: the inductive invariant behind      *)
(* InOrder and WindowHolds, and the proof that RxReorder implements        *)
(* InOrderDelivery.  Last, when two queued frames cannot have the same     *)
(* sequence number although the window start is rewritten.                 *)
(*                                                                         *)
(* The argument of the second part: originator, window start and highest   *)
(* frame stay within MaxGap + 2 * WSize of each other, which is at most    *)
(* half the sequence number space, so that each comparison the code makes  *)
(* of 12-bit numbers decides the comparison of the frames behind them.     *)
(***************************************************************************)
EXTENDS RxReorder, ModularArithmetic, SequenceTheorems, TLAPS

-----------------------------------------------------------------------------
(* The inductive invariants.                                               *)

\* TypeOK is inductive once the originator's numbers are known not to fall
\* below First: ShiftedStart subtracts the window size from one.
TypeInv == TypeOK /\ win >= First /\ cur >= First

\* Where the timer comes from: whenever the waiting flag is set, or frames are
\* queued that no indication loop is working on, a timer is armed or its
\* handler is on its way to the lock; a tasklet that is about to cancel the
\* timer saw the queue empty and cleared the flag.
TimerInv ==
  /\ ~(rx \in {"enqueue", "indicate"} /\ tm = "indicate")
  /\ sta = "linked" /\ ~stopped =>
       /\ bReorderWaiting => timer \/ tm = "fired"
       /\ pending # <<>> /\ rx # "indicate" /\ tm # "indicate" => timer \/ tm = "fired"
  /\ rx = "cancel" => pending = <<>> /\ ~bReorderWaiting
  /\ tm = "indicate" => ~bReorderWaiting

-----------------------------------------------------------------------------
(* Sequences.                                                              *)

\* Sequence r is q with n put in at place i.
IsInsertion(r, q, i, n) ==
  /\ r \in Seq(Nat)
  /\ Len(r) = Len(q) + 1
  /\ \A j \in 1 .. Len(q) + 1 :
       r[j] = IF j < i THEN q[j] ELSE IF j = i THEN n ELSE q[j - 1]

\* Inserted yields a sequence one longer (enqueue_reorder_recvframe).
LEMMA InsertedSeq ==
  ASSUME NEW q \in Seq(Nat), NEW i \in 1 .. Len(q) + 1, NEW n \in Nat
  PROVE  IsInsertion(Inserted(q, i, n), q, i, n)
  <1> DEFINE r == Inserted(q, i, n)
  <1>1. Len(q) \in Nat /\ \A j \in 1 .. Len(q) : q[j] \in Nat
    BY LenProperties, ElementOfSeq
  <1>2. \A j \in 1 .. Len(q) + 1 :
           (IF j < i THEN q[j] ELSE IF j = i THEN n ELSE q[j - 1]) \in Nat
    BY <1>1
  <1>3. r \in [1 .. Len(q) + 1 -> Nat]
    BY <1>2 DEF Inserted
  <1>4. r \in Seq(Nat)
    BY <1>1, <1>3, SeqDef
  <1>5. Len(r) = Len(q) + 1
    BY <1>1, <1>3, <1>4, LenProperties
  <1> QED BY <1>4, <1>5 DEF Inserted, IsInsertion

\* A sorted queue stays sorted when a frame is put in at its place.
LEMMA InsertedSorted ==
  ASSUME NEW q \in Seq(Nat), NEW n \in Nat, NEW i \in 1 .. Len(q) + 1, NEW r,
         IsInsertion(r, q, i, n),
         \A j, k \in 1 .. Len(q) : j < k => q[j] < q[k],
         \A j \in 1 .. i - 1 : q[j] < n,
         i <= Len(q) => n < q[i]
  PROVE  /\ \A j, k \in 1 .. Len(r) : j < k => r[j] < r[k]
         /\ \A j \in 1 .. Len(r) : r[j] = n \/ \E k \in 1 .. Len(q) : r[j] = q[k]
  <1>1. Len(q) \in Nat /\ \A j \in 1 .. Len(q) : q[j] \in Nat
    BY LenProperties, ElementOfSeq
  <1>2. /\ Len(r) = Len(q) + 1
        /\ \A j \in 1 .. Len(q) + 1 :
             r[j] = IF j < i THEN q[j] ELSE IF j = i THEN n ELSE q[j - 1]
    BY DEF IsInsertion
  <1>3. ASSUME NEW j \in 1 .. Len(q), i <= j PROVE n < q[j]
    <2>1. i \in 1 .. Len(q) /\ n < q[i]
      BY <1>1, <1>3
    <2>2. i < j => q[i] < q[j]
      BY <1>3, <2>1
    <2> QED BY <1>1, <1>3, <2>1, <2>2
  <1>4. ASSUME NEW j \in 1 .. Len(q) + 1, NEW k \in 1 .. Len(q) + 1, j < k
        PROVE  r[j] < r[k]
    <2>1. CASE k < i
      <3>1. /\ j \in 1 .. Len(q) /\ k \in 1 .. Len(q)
            /\ r[j] = q[j] /\ r[k] = q[k]
        BY <1>1, <1>2, <1>4, <2>1
      <3> QED BY <1>4, <3>1
    <2>2. CASE k = i
      BY <1>1, <1>2, <1>4, <2>2
    <2>3. CASE k > i /\ j = i
      <3>1. k - 1 \in 1 .. Len(q) /\ i <= k - 1 /\ r[j] = n /\ r[k] = q[k - 1]
        BY <1>1, <1>2, <1>4, <2>3
      <3> QED BY <1>3, <3>1
    <2>4. CASE k > i /\ j > i
      <3>1. /\ j - 1 \in 1 .. Len(q) /\ k - 1 \in 1 .. Len(q) /\ j - 1 < k - 1
            /\ r[j] = q[j - 1] /\ r[k] = q[k - 1]
        BY <1>1, <1>2, <1>4, <2>4
      <3> QED BY <3>1
    <2>5. CASE k > i /\ j < i
      <3>1. j \in 1 .. i - 1 /\ k - 1 \in 1 .. Len(q) /\ i <= k - 1
        BY <1>1, <1>4, <2>5
      <3>2. r[j] = q[j] /\ r[k] = q[k - 1] /\ q[j] \in Nat
        BY <1>1, <1>2, <1>4, <2>5
      <3>3. q[j] < n /\ n < q[k - 1]
        BY <1>3, <3>1
      <3> QED BY <1>1, <3>1, <3>2, <3>3
    <2> QED BY <2>1, <2>2, <2>3, <2>4, <2>5
  <1>5. ASSUME NEW j \in 1 .. Len(q) + 1
        PROVE  r[j] = n \/ \E k \in 1 .. Len(q) : r[j] = q[k]
    <2>1. CASE j < i
      BY <1>1, <1>2, <2>1
    <2>2. CASE j = i
      BY <1>2, <2>2
    <2>3. CASE j > i
      <3>1. j - 1 \in 1 .. Len(q) /\ r[j] = q[j - 1]
        BY <1>1, <1>2, <2>3
      <3> QED BY <3>1
    <2> QED BY <2>1, <2>2, <2>3
  <1> QED BY <1>2, <1>4, <1>5

\* A queue without its head.
LEMMA TailEntries ==
  ASSUME NEW q \in Seq(Nat), q # <<>>
  PROVE  /\ Head(q) = q[1] /\ 1 \in 1 .. Len(q)
         /\ Tail(q) \in Seq(Nat) /\ Len(Tail(q)) = Len(q) - 1
         /\ \A j \in 1 .. Len(Tail(q)) : j + 1 \in 1 .. Len(q) /\ Tail(q)[j] = q[j + 1]
  <1>1. Len(q) \in Nat /\ Len(q) # 0
    BY LenProperties, EmptySeq
  <1> QED BY <1>1, HeadTailProperties

-----------------------------------------------------------------------------
(* Type correctness.                                                       *)

LEMMA SeqNumType ==
  ASSUME NEW n \in Int
  PROVE  SeqNum(n) \in 0 .. SnSize - 1
  BY SizeAssumption, Z3 DEF SeqNum

LEMMA ShiftedType ==
  ASSUME NEW s \in 0 .. SnSize - 1
  PROVE  ShiftedStart(s) \in 0 .. SnSize - 1
  BY SizeAssumption DEF ShiftedStart

\* One turn of the indication loop keeps the types (recv_indicatepkts_in_order).
LEMMA ReleaseType ==
  ASSUME TypeInv, Release
  PROVE  /\ pending' \in Seq(Nat) /\ up' \in Seq(Nat) /\ wstart' \in Nat
         /\ indicate_seq' \in 0 .. SnSize - 1 \cup {Unset}
  <1>1. pending # <<>> /\ pending \in Seq(Nat) /\ up \in Seq(Nat)
    BY DEF Release, Releasable, TypeInv, TypeOK
  <1>2. Head(pending) \in Nat /\ Tail(pending) \in Seq(Nat)
    BY <1>1, HeadTailProperties
  <1>3. Append(up, Head(pending)) \in Seq(Nat)
    BY <1>1, <1>2, AppendProperties
  <1>4. pending' \in Seq(Nat) /\ up' \in Seq(Nat)
    BY <1>1, <1>2, <1>3 DEF Release, Process
  <1>5. wstart \in Nat /\ indicate_seq \in 0 .. SnSize - 1 \cup {Unset} /\ Unset \in Int
    BY SizeAssumption DEF TypeInv, TypeOK, Unset
  <1>6. SeqNum(indicate_seq + 1) \in 0 .. SnSize - 1
    BY <1>5, SeqNumType, SizeAssumption
  <1> QED BY <1>4, <1>5, <1>6 DEF Release, SeqNum

\* The sequence numbers that check_indicate_seq computes from the frame.
LEMMA CheckTypes ==
  ASSUME TypeInv
  PROVE  /\ SeqNum(cur) \in 0 .. SnSize - 1
         /\ WinStart(cur) \in 0 .. SnSize - 1
         /\ (SeqNum(cur) + 1) % SnSize \in 0 .. SnSize - 1
         /\ ShiftedStart(SeqNum(cur)) \in 0 .. SnSize - 1
         /\ cur + 1 - WSize \in Nat
  <1>1. cur \in Int /\ indicate_seq \in 0 .. SnSize - 1 \cup {Unset}
    BY DEF TypeInv, TypeOK
  <1>2. SeqNum(cur) \in 0 .. SnSize - 1
    BY <1>1, SeqNumType
  <1>3. SeqNum(cur) + 1 \in Int
    BY <1>2, SizeAssumption
  <1>4. SeqNum(SeqNum(cur) + 1) \in 0 .. SnSize - 1
    BY <1>3, SeqNumType
  <1>5. WinStart(cur) \in 0 .. SnSize - 1
    BY <1>1, <1>2 DEF WinStart
  <1>6. cur + 1 - WSize \in Nat
    BY SizeAssumption, BoundAssumption DEF TypeInv, TypeOK
  <1> QED BY <1>2, <1>4, <1>5, <1>6, ShiftedType DEF SeqNum

\* The loss count of a forced release.
LEMMA LossType ==
  ASSUME TypeInv, pending # <<>>
  PROVE  /\ Head(pending) \in Nat
         /\ SeqNum(Head(pending)) \in 0 .. SnSize - 1
         /\ rx_drop + LossCnt(indicate_seq, SeqNum(Head(pending))) \in Int
  <1>1. /\ pending \in Seq(Nat) /\ rx_drop \in Int
        /\ indicate_seq \in 0 .. SnSize - 1 \cup {Unset}
    BY DEF TypeInv, TypeOK
  <1>2. Head(pending) \in Nat
    BY <1>1, HeadTailProperties
  <1>3. SeqNum(Head(pending)) \in 0 .. SnSize - 1
    BY <1>2, SeqNumType
  <1>4. SeqNum(Head(pending)) \in Int /\ indicate_seq \in Int /\ SnSize \in Int
    BY <1>1, <1>3, SizeAssumption DEF Unset
  <1>5. LossCnt(indicate_seq, SeqNum(Head(pending))) \in Int
    BY <1>4 DEF LossCnt
  <1> QED BY <1>1, <1>2, <1>3, <1>5

LEMMA TypeInit == Init => TypeInv
  <1> SUFFICES ASSUME Init PROVE TypeInv
    OBVIOUS
  <1>1. <<>> \in Seq(Nat)
    BY EmptySeq
  <1>2. First \in Nat /\ First - 1 \in Nat /\ MaxRx \in Nat /\ First >= First
    BY SizeAssumption, BoundAssumption
  <1>3. pending \in Seq(Nat) /\ up \in Seq(Nat)
    BY <1>1 DEF Init
  <1>4. cur \in Nat /\ win \in Nat /\ hi \in Nat /\ budget \in Nat /\ wstart \in Nat
        /\ win >= First /\ cur >= First /\ rx_drop \in Int
    BY <1>2 DEF Init
  <1> QED BY <1>3, <1>4, Zenon DEF Init, TypeInv, TypeOK

LEMMA TypeStep == TypeInv /\ [Next]_vars => TypeInv'
  <1> SUFFICES ASSUME TypeInv, [Next]_vars PROVE TypeInv'
    OBVIOUS
  <1>0. /\ SnSize \in Nat \ {0} /\ WSize \in Nat \ {0} /\ First \in Nat /\ WSize <= First
    BY SizeAssumption, BoundAssumption
  <1> USE DEF TypeInv, TypeOK, ctrl, peer
  <1>1. CASE Advance
    BY <1>0, <1>1 DEF Advance
  <1>2. ASSUME NEW n \in win .. win + WSize - 1, RxValidate(n) PROVE TypeInv'
    <2>1. n \in Nat /\ n >= First
      BY <1>0, <1>2
    <2>2. SeqNum(n) \in 0 .. SnSize - 1
      BY <2>1, SeqNumType
    <2> QED BY <1>0, <1>2, <2>1, <2>2 DEF RxValidate
  <1>3. CASE RxDirect
    <2>1. SeqNum(cur) \in 0 .. SnSize - 1 /\ Append(up, cur) \in Seq(Nat)
      BY SeqNumType, AppendProperties
    <2> QED BY <1>3, <2>1 DEF RxDirect, Process
  <1>4. CASE RxDirectAfter
    <2>1. SeqNum(indicate_seq + 1) \in 0 .. SnSize - 1
      <3>1. indicate_seq + 1 \in Int
        BY <1>0 DEF Unset
      <3> QED BY <1>0, <3>1, SeqNumType
    <2> QED BY <1>4, <2>1 DEF RxDirectAfter, SeqNum
  <1>5. CASE RxCheck
    <2>1. indicate_seq' \in 0 .. SnSize - 1 \cup {Unset}
      BY <1>5, CheckTypes DEF RxCheck
    <2>2. wstart' \in Nat
      BY <1>5, CheckTypes DEF RxCheck
    <2>3. rx' \in {"idle", "enqueue"}
      BY <1>5 DEF RxCheck
    <2> QED BY <1>5, <2>1, <2>2, <2>3 DEF RxCheck
  <1>6. CASE RxEnqueue
    <2>1. pending' \in Seq(Nat) /\ rx' \in {"idle", "indicate"}
      <3>1. PICK i \in 1 .. Len(pending) + 1 :
              IF i <= Len(pending) /\ SeqNum(pending[i]) = SeqNum(cur)
                THEN rx' = "idle" /\ UNCHANGED pending
                ELSE rx' = "indicate" /\ pending' = Inserted(pending, i, cur)
        BY <1>6 DEF RxEnqueue
      <3>2. Inserted(pending, i, cur) \in Seq(Nat)
        BY InsertedSeq DEF IsInsertion
      <3> QED BY <3>1, <3>2
    <2> QED BY <1>6, <2>1 DEF RxEnqueue
  <1>7. CASE RxRelease
    BY <1>7, ReleaseType DEF RxRelease
  <1>8. CASE RxIndicated
    BY <1>8 DEF RxIndicated
  <1>9. CASE RxCancel
    BY <1>9 DEF RxCancel
  <1>10. CASE RxBar
    <2>1. SeqNum(win) \in 0 .. SnSize - 1
      BY SeqNumType
    <2> QED BY <1>10, <2>1 DEF RxBar
  <1>11. CASE Delba
    BY <1>11 DEF Delba
  <1>12. CASE AddbaReq
    BY <1>12 DEF AddbaReq
  <1>13. CASE AddbaReset
    BY <1>13 DEF AddbaReset
  <1>14. ASSUME NEW accept \in BOOLEAN, AddbaEnable(accept) PROVE TypeInv'
    BY <1>14 DEF AddbaEnable
  <1>15. CASE TimerFire
    BY <1>15 DEF TimerFire
  <1>16. CASE TimerEnter
    <2>1. CASE pending = <<>>
      BY <1>16, <2>1 DEF TimerEnter
    <2>2. CASE pending # <<>>
      <3>1. /\ indicate_seq' = SeqNum(Head(pending)) /\ wstart' = Head(pending)
            /\ rx_drop' = rx_drop + LossCnt(indicate_seq, SeqNum(Head(pending)))
            /\ timer' = timer /\ tm' = "indicate" /\ bReorderWaiting' = FALSE
        BY <1>16, <2>2 DEF TimerEnter
      <3>2. UNCHANGED <<enable, pending, rx, cur, tid_rxseq, addba, sta, stopped, win,
                        hi, budget, up>>
        BY <1>16 DEF TimerEnter
      <3>3. /\ Head(pending) \in Nat /\ SeqNum(Head(pending)) \in 0 .. SnSize - 1
            /\ rx_drop + LossCnt(indicate_seq, SeqNum(Head(pending))) \in Int
        BY <2>2, LossType
      <3>4. wstart' \in Nat /\ indicate_seq' \in 0 .. SnSize - 1 /\ rx_drop' \in Int
        BY <3>1, <3>3
      <3> QED BY <3>1, <3>2, <3>4
    <2> QED BY <2>1, <2>2
  <1>17. CASE TimerRelease
    BY <1>17, ReleaseType DEF TimerRelease
  <1>18. CASE TimerIndicated
    BY <1>18 DEF TimerIndicated
  <1>19. CASE StaUnhash
    BY <1>19 DEF StaUnhash
  <1>20. CASE StaCancel
    BY <1>20 DEF StaCancel
  <1>21. CASE StaFlush
    <2>1. <<>> \in Seq(Nat)
      BY EmptySeq
    <2> QED BY <1>21, <2>1 DEF StaFlush
  <1>22. CASE DriverStop
    BY <1>22 DEF DriverStop
  <1>23. CASE UNCHANGED vars
    BY <1>23 DEF vars
  <1> QED BY <1>1, <1>2, <1>3, <1>4, <1>5, <1>6, <1>7, <1>8, <1>9, <1>10, <1>11,
             <1>12, <1>13, <1>14, <1>15, <1>16, <1>17, <1>18, <1>19, <1>20, <1>21,
             <1>22, <1>23 DEF Next, RxTasklet, Timer, CmdThread

\* Every field keeps its type, whatever events interleave: in particular
\* ShiftedStart never leaves the sequence number space and the window start
\* never falls below zero.
THEOREM TypeCorrect == Spec => []TypeOK
  <1>1. TypeInv => TypeOK
    BY DEF TypeInv
  <1> QED BY <1>1, TypeInit, TypeStep, PTL DEF Spec

-----------------------------------------------------------------------------
(* Nothing is left in the queue without a timer.                           *)

LEMMA TimerInit == Init => TimerInv
  BY DEF Init, TimerInv

LEMMA TimerStep == TypeInv /\ TimerInv /\ [Next]_vars => TimerInv'
  <1> SUFFICES ASSUME TypeInv, TimerInv, [Next]_vars PROVE TimerInv'
    OBVIOUS
  <1>0. timer \in BOOLEAN /\ bReorderWaiting \in BOOLEAN /\ stopped \in BOOLEAN
    BY DEF TypeInv, TypeOK
  <1> USE DEF TimerInv, ctrl, peer
  <1>1. CASE Advance
    BY <1>1 DEF Advance
  <1>2. ASSUME NEW n \in win .. win + WSize - 1, RxValidate(n) PROVE TimerInv'
    BY <1>2 DEF RxValidate
  <1>3. CASE RxDirect
    BY <1>3 DEF RxDirect
  <1>4. CASE RxDirectAfter
    BY <1>4 DEF RxDirectAfter
  <1>5. CASE RxCheck
    <2>1. rx' \in {"idle", "enqueue"} /\ rx = "posthandle" /\ LockFree
      BY <1>5 DEF RxCheck
    <2> QED BY <1>5, <2>1 DEF RxCheck, LockFree
  <1>6. CASE RxEnqueue
    <2>1. rx' \in {"idle", "indicate"} /\ (rx' = "idle" => pending' = pending)
      BY <1>6 DEF RxEnqueue
    <2> QED BY <1>6, <2>1 DEF RxEnqueue
  <1>7. CASE RxRelease
    BY <1>7 DEF RxRelease
  <1>8. CASE RxIndicated
    BY <1>0, <1>8 DEF RxIndicated
  <1>9. CASE RxCancel
    BY <1>9 DEF RxCancel
  <1>10. CASE RxBar
    BY <1>10 DEF RxBar
  <1>11. CASE Delba
    BY <1>11 DEF Delba
  <1>12. CASE AddbaReq
    BY <1>12 DEF AddbaReq
  <1>13. CASE AddbaReset
    BY <1>13 DEF AddbaReset
  <1>14. ASSUME NEW accept \in BOOLEAN, AddbaEnable(accept) PROVE TimerInv'
    BY <1>14 DEF AddbaEnable
  <1>15. CASE TimerFire
    BY <1>15 DEF TimerFire
  <1>16. CASE TimerEnter
    BY <1>16 DEF TimerEnter, LockFree
  <1>17. CASE TimerRelease
    <2>1. rx = "cancel" => FALSE
      BY <1>17 DEF TimerRelease, Release, Releasable
    <2> QED BY <1>17, <2>1 DEF TimerRelease
  <1>18. CASE TimerIndicated
    BY <1>18 DEF TimerIndicated
  <1>19. CASE StaUnhash
    BY <1>19 DEF StaUnhash
  <1>20. CASE StaCancel
    BY <1>20 DEF StaCancel
  <1>21. CASE StaFlush
    BY <1>21 DEF StaFlush, LockFree
  <1>22. CASE DriverStop
    BY <1>22 DEF DriverStop
  <1>23. CASE UNCHANGED vars
    BY <1>23 DEF vars
  <1> QED BY <1>1, <1>2, <1>3, <1>4, <1>5, <1>6, <1>7, <1>8, <1>9, <1>10, <1>11,
             <1>12, <1>13, <1>14, <1>15, <1>16, <1>17, <1>18, <1>19, <1>20, <1>21,
             <1>22, <1>23 DEF Next, RxTasklet, Timer, CmdThread

\* Frames in the queue of a linked station always have a timer, for every
\* interleaving of tasklet, timer, command thread and removal, and whatever
\* BlockAckReq, DELBA and ADDBA do to the window
\* (recv_indicatepkt_reorder, rtw_reordering_ctrl_timeout_handler).
THEOREM QueueHasTimer == Spec => []NothingStuck
  <1>1. TimerInv => NothingStuck
    BY DEF TimerInv, NothingStuck, LockFree
  <1>2. TypeInv /\ TimerInv /\ [Next]_vars => (TypeInv /\ TimerInv)'
    BY TypeStep, TimerStep
  <1>3. Init => TypeInv /\ TimerInv
    BY TypeInit, TimerInit
  <1> QED BY <1>1, <1>2, <1>3, PTL DEF Spec

-----------------------------------------------------------------------------
(* One agreement: the inductive invariant.                                 *)

\* No event of Events touches the window from outside.
OneAgreement == Events \cap {"bar", "delba", "addba"} = {}

Started == indicate_seq # Unset

Holding == rx \in {"enqueue", "indicate"}

\* The window start, the highest frame and the originator's window stay close.
WindowInv ==
  /\ enable /\ addba = "none" /\ rx # "after"
  /\ ~(Holding /\ tm = "indicate")
  /\ Started => indicate_seq = SeqNum(wstart)
  /\ ~Started => /\ pending = <<>> /\ up = <<>> /\ tm # "indicate"
                 /\ rx \in {"idle", "posthandle"}
                 /\ rx = "posthandle" => hi = cur
                 /\ rx = "idle" => hi = First - 1
  /\ hi - WSize + 1 <= win /\ win <= hi + MaxGap + 1
  /\ Started => wstart <= hi + 1
  /\ Started /\ rx # "posthandle" => hi <= wstart + WSize - 1
  /\ rx = "posthandle" =>
       /\ cur <= hi /\ hi - WSize + 1 <= cur
       /\ Started => /\ cur <= wstart + MaxGap + 2 * WSize - 1
                     /\ hi <= wstart + WSize - 1 \/ hi = cur

\* What is queued, in terms of the window start.
QueueInv ==
  /\ \A i, j \in 1 .. Len(pending) : i < j => pending[i] < pending[j]
  /\ \A i \in 1 .. Len(pending) :
       /\ pending[i] <= hi
       /\ pending[i] <= wstart + WSize - 1
       /\ LockFree => wstart < pending[i]
       /\ tm = "indicate" => wstart <= pending[i]
       /\ Holding => wstart <= pending[i] + MaxGap + WSize
  /\ rx = "enqueue" =>
       /\ cur <= hi /\ wstart <= cur + 1 /\ cur <= wstart + WSize - 1
       /\ \/ \A i \in 1 .. Len(pending) : wstart < pending[i]
          \/ \A i \in 1 .. Len(pending) : pending[i] # cur

\* What was indicated is older than all that is queued or will be.
OutInv ==
  /\ \A i, j \in 1 .. Len(up) : i < j => up[i] < up[j]
  /\ \A i \in 1 .. Len(up) :
       /\ up[i] < wstart
       /\ \A j \in 1 .. Len(pending) : up[i] < pending[j]
       /\ rx = "enqueue" => up[i] < cur

SessionInv == WindowInv /\ QueueInv /\ OutInv

-----------------------------------------------------------------------------
(* Sequence numbers and the frames behind them.                            *)

Reach == MaxGap + 2 * WSize

LEMMA Sizes ==
  /\ SnSize \in Nat \ {0} /\ WSize \in Nat \ {0} /\ MaxGap \in Nat /\ First \in Nat
  /\ WSize <= First /\ 2 * Reach <= SnSize /\ Reach \in Nat /\ SnSize % 2 = 0
  /\ Reach >= MaxGap + WSize + 1 /\ Reach >= 2 * WSize
  BY SizeAssumption, BoundAssumption DEF Reach

\* SN_LESS decides the order of frames that are in reach of each other.
LEMMA SnLessExact ==
  ASSUME NEW a \in Int, NEW b \in Int, -Reach <= a - b, a - b < Reach
  PROVE  SnLess(SeqNum(a), SeqNum(b)) <=> a < b
  <1>1. -SnSize <= 2 * (a - b) /\ 2 * (a - b) < SnSize
    BY Sizes
  <1> QED BY <1>1, Sizes, ModLess DEF SnLess, SeqNum

LEMMA SnEqualExact ==
  ASSUME NEW a \in Int, NEW b \in Int, -Reach <= a - b, a - b <= Reach
  PROVE  SeqNum(a) = SeqNum(b) <=> a = b
  <1>1. a - b < SnSize /\ b - a < SnSize
    BY Sizes
  <1> QED BY <1>1, Sizes, ModEqual DEF SeqNum

LEMMA SeqNumAdd ==
  ASSUME NEW n \in Int, NEW k \in Int
  PROVE  (SeqNum(n) + k) % SnSize = SeqNum(n + k)
  BY Sizes, ModAdd DEF SeqNum

\* Both branches of the window shift compute the number of the frame that is
\* WSize - 1 below the received one (check_indicate_seq).
LEMMA ShiftedExact ==
  ASSUME NEW n \in Int
  PROVE  ShiftedStart(SeqNum(n)) = SeqNum(n + 1 - WSize)
  <1> DEFINE s == SeqNum(n)
  <1>1. s \in 0 .. SnSize - 1
    BY SeqNumType
  <1>2. (s + (1 - WSize)) % SnSize = SeqNum(n + (1 - WSize))
    BY Sizes, SeqNumAdd
  <1>3. n + (1 - WSize) = n + 1 - WSize /\ s + (1 - WSize) = s + 1 - WSize
    BY <1>1, Sizes
  <1>4. CASE s >= WSize - 1
    <2>1. s + 1 - WSize \in 0 .. SnSize - 1
      BY <1>1, <1>4, Sizes
    <2>2. (s + 1 - WSize) % SnSize = s + 1 - WSize
      BY <2>1, Sizes, ModSmall
    <2> QED BY <1>2, <1>3, <1>4, <2>2 DEF ShiftedStart
  <1>5. CASE ~(s >= WSize - 1)
    <2>1. s + 1 - WSize \in Int /\ -SnSize <= s + 1 - WSize /\ s + 1 - WSize < 0
      BY <1>1, <1>5, Sizes
    <2>2. (s + 1 - WSize) % SnSize = (s + 1 - WSize) + SnSize
      BY <2>1, Sizes, ModNegative
    <2>3. (SnSize - 1) - (WSize - (s + 1)) + 1 = (s + 1 - WSize) + SnSize
      BY <1>1, Sizes
    <2> QED BY <1>2, <1>3, <1>5, <2>2, <2>3 DEF ShiftedStart
  <1> QED BY <1>4, <1>5

-----------------------------------------------------------------------------
(* The steps.                                                              *)

LEMMA SessionInit == Init => SessionInv
  <1> SUFFICES ASSUME Init PROVE SessionInv
    OBVIOUS
  <1>1. Len(pending) = 0 /\ Len(up) = 0
    BY EmptySeq DEF Init
  <1>2. WindowInv
    BY Sizes DEF Init, WindowInv, Started, Holding
  <1>3. QueueInv
    BY <1>1 DEF Init, QueueInv
  <1>4. OutInv
    BY <1>1 DEF Init, OutInv
  <1> QED BY <1>2, <1>3, <1>4 DEF SessionInv

\* The numbers of the model, and of the entries of its sequences.
LEMMA Numbers ==
  ASSUME TypeInv
  PROVE  /\ cur \in Nat /\ win \in Nat /\ hi \in Nat /\ wstart \in Nat
         /\ Len(pending) \in Nat /\ Len(up) \in Nat
         /\ \A i \in 1 .. Len(pending) : pending[i] \in Nat
         /\ \A i \in 1 .. Len(up) : up[i] \in Nat
         /\ win >= First /\ cur >= First
  BY LenProperties, ElementOfSeq DEF TypeInv, TypeOK

\* validate_recv_data_frame lets in a frame within reach of the window.
LEMMA ValidateStep ==
  ASSUME TypeInv, SessionInv, NEW n \in win .. win + WSize - 1, RxValidate(n)
  PROVE  SessionInv'
  <1>1. n \in Nat /\ win <= n /\ n <= win + WSize - 1 /\ n >= First
    BY Numbers, Sizes
  <1>2. WindowInv /\ QueueInv /\ OutInv
    BY DEF SessionInv
  <1>3. hi <= hi' /\ hi' \in Nat
    BY <1>1, Numbers DEF RxValidate
  <1>4. WindowInv'
    <2>1. CASE tid_rxseq = SeqNum(n)
      BY <1>2, <2>1 DEF RxValidate, WindowInv, Started, Holding, ctrl
    <2>2. CASE tid_rxseq # SeqNum(n)
      <3>1. /\ rx = "idle" /\ rx' = "posthandle" /\ cur' = n
            /\ hi' = (IF n > hi THEN n ELSE hi)
            /\ UNCHANGED <<enable, addba, tm, pending, up, indicate_seq, wstart, win>>
        BY <2>2 DEF RxValidate, ctrl
      <3>2. /\ hi - WSize + 1 <= win /\ win <= hi + MaxGap + 1
            /\ Started => wstart <= hi + 1 /\ hi <= wstart + WSize - 1
            /\ ~Started => hi = First - 1
        BY <1>2, <3>1 DEF WindowInv
      <3>3. /\ n <= hi' /\ hi' - WSize + 1 <= n
            /\ hi' - WSize + 1 <= win /\ win <= hi' + MaxGap + 1
            /\ Started => /\ wstart <= hi' + 1 /\ n <= wstart + MaxGap + 2 * WSize - 1
                          /\ hi' <= wstart + WSize - 1 \/ hi' = n
            /\ ~Started => hi' = n
        <4>1. hi \in Nat /\ win \in Nat /\ wstart \in Nat
          BY Numbers
        <4>2. CASE n > hi
          <5>1. hi' = n
            BY <3>1, <4>2
          <5> QED BY <1>1, <3>2, <4>1, <4>2, <5>1, Sizes
        <4>3. CASE ~(n > hi)
          <5>1. hi' = hi
            BY <3>1, <4>3
          <5> QED BY <1>1, <3>2, <4>1, <4>3, <5>1, Sizes
        <4> QED BY <4>2, <4>3
      <3> QED BY <1>2, <3>1, <3>3 DEF WindowInv, Started, Holding
    <2> QED BY <2>1, <2>2
  <1>5. QueueInv'
    BY <1>2, <1>3, Numbers DEF RxValidate, QueueInv, LockFree, Holding, ctrl
  <1>6. OutInv'
    BY <1>2 DEF RxValidate, OutInv, ctrl
  <1> QED BY <1>4, <1>5, <1>6 DEF SessionInv

\* The comparisons of check_indicate_seq decide where the frame in hand lies.
CheckDecides ==
  /\ Started => /\ Stale(cur) <=> (cur < wstart)
                /\ (SeqNum(cur) = WinStart(cur)) <=> (cur = wstart)
                /\ BeyondWindow(cur) <=> (wstart + WSize - 1 < cur)
  /\ ~Started => ~Stale(cur) /\ SeqNum(cur) = WinStart(cur)

\* What the tests of check_indicate_seq say about a frame that is
\* in reach of the window start.
LEMMA CheckNumbers ==
  ASSUME TypeInv,
         Started => /\ indicate_seq = SeqNum(wstart)
                    /\ wstart <= cur + WSize /\ cur <= wstart + MaxGap + 2 * WSize - 1
  PROVE  CheckDecides
  <1> USE DEF CheckDecides
  <1>0. cur \in Nat /\ wstart \in Nat /\ WSize \in Nat /\ WSize >= 1 /\ MaxGap \in Nat
    BY Numbers, Sizes
  <1>1. CASE Started
    <2>1. /\ WinStart(cur) = SeqNum(wstart)
          /\ wstart <= cur + WSize /\ cur <= wstart + MaxGap + 2 * WSize - 1
      BY <1>1 DEF Started, WinStart
    <2>2. /\ -Reach <= cur - wstart /\ cur - wstart < Reach
          /\ -Reach <= (wstart + WSize - 1) - cur /\ (wstart + WSize - 1) - cur < Reach
          /\ wstart + WSize - 1 \in Int /\ cur \in Int /\ wstart \in Int
      BY <1>0, <2>1 DEF Reach
    <2>3. Stale(cur) <=> cur < wstart
      BY <2>1, <2>2, SnLessExact DEF Stale
    <2>4. SeqNum(cur) = WinStart(cur) <=> cur = wstart
      <3>1. cur - wstart <= Reach
        BY <2>2, Sizes
      <3> QED BY <2>1, <2>2, <3>1, SnEqualExact
    <2>5. (SeqNum(wstart) + WSize - 1) % SnSize = SeqNum(wstart + WSize - 1)
      <3>1. /\ SeqNum(wstart) + WSize - 1 = SeqNum(wstart) + (WSize - 1)
            /\ wstart + WSize - 1 = wstart + (WSize - 1)
            /\ WSize - 1 \in Int /\ wstart \in Int
        BY <1>0, Sizes, SeqNumType
      <3> QED BY <3>1, SeqNumAdd
    <2>6. BeyondWindow(cur) <=> wstart + WSize - 1 < cur
      BY <2>1, <2>2, <2>5, SnLessExact DEF BeyondWindow
    <2> QED BY <1>1, <2>3, <2>4, <2>6
  <1>2. CASE ~Started
    <2>1. WinStart(cur) = SeqNum(cur)
      BY <1>2 DEF Started, WinStart
    <2>2. SnLess(SeqNum(cur), SeqNum(cur)) <=> cur < cur
      <3>1. -Reach <= cur - cur /\ cur - cur < Reach /\ cur \in Int
        BY <1>0, Sizes
      <3> QED BY <3>1, SnLessExact
    <2> QED BY <1>0, <1>2, <2>1, <2>2 DEF Stale
  <1> QED BY <1>1, <1>2

LEMMA CheckExact ==
  ASSUME TypeInv, WindowInv, rx = "posthandle"
  PROVE  CheckDecides
  <1>1. ASSUME Started
        PROVE  /\ indicate_seq = SeqNum(wstart)
               /\ wstart <= cur + WSize /\ cur <= wstart + MaxGap + 2 * WSize - 1
    <2>1. /\ wstart <= hi + 1 /\ hi - WSize + 1 <= cur
          /\ cur <= wstart + MaxGap + 2 * WSize - 1 /\ indicate_seq = SeqNum(wstart)
      BY <1>1 DEF WindowInv
    <2> QED BY <2>1, Numbers, Sizes
  <1> QED BY <1>1, CheckNumbers

LEMMA SeqNumSet ==
  ASSUME NEW n \in Int
  PROVE  SeqNum(n) # Unset
  <1>1. SeqNum(n) \in 0 .. SnSize - 1
    BY SeqNumType
  <1> QED BY <1>1, Sizes DEF Unset

\* check_indicate_seq moves the window start forward, by one or so that the
\* frame becomes the last of the window, or leaves it.
LEMMA CheckStep ==
  ASSUME TypeInv, SessionInv, RxCheck
  PROVE  SessionInv'
  <1>1. /\ WindowInv /\ QueueInv /\ OutInv
        /\ rx = "posthandle" /\ LockFree /\ tm # "indicate"
        /\ UNCHANGED <<enable, pending, tm, cur, addba, hi, win, up>>
    BY DEF SessionInv, RxCheck, LockFree, peer
  <1>2. /\ enable /\ addba = "none" /\ cur <= hi
        /\ hi - WSize + 1 <= win /\ win <= hi + MaxGap + 1
    BY <1>1 DEF WindowInv
  <1>3. /\ cur \in Nat /\ win \in Nat /\ hi \in Nat /\ wstart \in Nat
        /\ \A i \in 1 .. Len(pending) : pending[i] \in Nat
        /\ \A i \in 1 .. Len(up) : up[i] \in Nat
    BY Numbers
  <1>4. (SeqNum(cur) + 1) % SnSize = SeqNum(cur + 1)
    BY <1>3, SeqNumAdd
  <1>5. CASE Started /\ cur < wstart
    <2>1. rx' = "idle" /\ indicate_seq' = indicate_seq /\ wstart' = wstart
      BY <1>1, <1>5, CheckExact DEF RxCheck, Started, WinStart, CheckDecides
    <2>2. hi <= wstart + WSize - 1
      BY <1>1, <1>2, <1>3, <1>5, Sizes DEF WindowInv
    <2>3. WindowInv'
      BY <1>1, <1>2, <1>5, <2>1, <2>2 DEF WindowInv, Started, Holding
    <2>4. QueueInv'
      BY <1>1, <2>1 DEF QueueInv, LockFree, Holding
    <2>5. OutInv'
      BY <1>1, <2>1 DEF OutInv
    <2> QED BY <2>3, <2>4, <2>5 DEF SessionInv
  <1>6. CASE ~Started \/ cur = wstart
    <2>1. rx' = "enqueue" /\ indicate_seq' = SeqNum(cur + 1) /\ wstart' = cur + 1
      <3>1. CASE ~Started
        <4>1. ~Stale(cur) /\ SeqNum(cur) = WinStart(cur)
          BY <1>1, <3>1, CheckExact DEF CheckDecides
        <4> QED BY <1>4, <3>1, <4>1 DEF RxCheck, Started
      <3>2. CASE Started
        <4>1. ~Stale(cur) /\ SeqNum(cur) = WinStart(cur) /\ cur = wstart
          BY <1>1, <1>3, <1>6, <3>2, CheckExact DEF CheckDecides
        <4> QED BY <1>4, <3>2, <4>1 DEF RxCheck, Started
      <3> QED BY <3>1, <3>2
    <2>2. hi <= cur + WSize
      <3>1. CASE ~Started
        BY <1>1, <1>3, <3>1, Sizes DEF WindowInv
      <3>2. CASE Started
        BY <1>1, <1>3, <1>6, <3>2, Sizes DEF WindowInv
      <3> QED BY <3>1, <3>2
    <2>3. SeqNum(cur + 1) # Unset
      BY <1>3, SeqNumSet
    <2>4. WindowInv'
      BY <1>1, <1>2, <1>3, <2>1, <2>2, <2>3, Sizes DEF WindowInv, Started, Holding
    <2>5. ASSUME NEW i \in 1 .. Len(pending)
          PROVE  wstart = cur /\ cur < pending[i]
      <3>1. pending # <<>>
        BY <2>5, EmptySeq, Numbers
      <3>2. Started
        BY <1>1, <3>1 DEF WindowInv
      <3> QED BY <1>1, <1>6, <2>5, <3>2 DEF QueueInv
    <2>6. QueueInv'
      <3>1. ASSUME NEW i \in 1 .. Len(pending)
            PROVE  /\ pending[i] <= cur + 1 + WSize - 1
                   /\ cur + 1 <= pending[i] + MaxGap + WSize
                   /\ pending[i] # cur
        <4>1. pending[i] <= wstart + WSize - 1
          BY <1>1, <3>1 DEF QueueInv
        <4> QED BY <1>3, <2>5, <3>1, <4>1, Sizes
      <3>2. cur <= cur + 1 + WSize - 1
        BY <1>3, Sizes
      <3> QED BY <1>1, <1>2, <1>3, <2>1, <3>1, <3>2 DEF QueueInv, LockFree, Holding
    <2>7. OutInv'
      <3>1. ASSUME NEW i \in 1 .. Len(up)
            PROVE  up[i] < cur
        <4>1. up # <<>>
          BY <3>1, EmptySeq, Numbers
        <4>2. Started
          BY <1>1, <4>1 DEF WindowInv
        <4> QED BY <1>1, <1>6, <3>1, <4>2 DEF OutInv
      <3>2. \A i \in 1 .. Len(up) : up[i] < cur + 1
        BY <1>3, <3>1
      <3> QED BY <1>1, <2>1, <3>1, <3>2 DEF OutInv
    <2> QED BY <2>4, <2>6, <2>7 DEF SessionInv
  <1>7. CASE Started /\ wstart + WSize - 1 < cur
    <2>1. /\ rx' = "enqueue" /\ indicate_seq' = SeqNum(cur + 1 - WSize)
          /\ wstart' = cur + 1 - WSize
      <3>1. ~Stale(cur) /\ SeqNum(cur) # WinStart(cur) /\ BeyondWindow(cur)
        BY <1>1, <1>3, <1>7, Sizes, CheckExact DEF CheckDecides
      <3>2. ShiftedStart(SeqNum(cur)) = SeqNum(cur + 1 - WSize)
        BY <1>3, ShiftedExact
      <3> QED BY <3>1, <3>2 DEF RxCheck
    <2>2. hi = cur /\ cur <= wstart + MaxGap + 2 * WSize - 1
      BY <1>1, <1>2, <1>3, <1>7, Sizes DEF WindowInv
    <2>3. SeqNum(cur + 1 - WSize) # Unset
      BY <1>3, Sizes, SeqNumSet
    <2>4. WindowInv'
      <3>1. cur + 1 - WSize <= hi + 1 /\ hi <= (cur + 1 - WSize) + WSize - 1
        BY <1>3, <2>2, Sizes
      <3> QED BY <1>1, <1>2, <2>1, <2>3, <3>1 DEF WindowInv, Started, Holding
    <2>5. QueueInv'
      <3>1. ASSUME NEW i \in 1 .. Len(pending)
            PROVE  /\ pending[i] <= (cur + 1 - WSize) + WSize - 1
                   /\ cur + 1 - WSize <= pending[i] + MaxGap + WSize
                   /\ pending[i] # cur
        <4>1. pending[i] <= wstart + WSize - 1 /\ wstart < pending[i]
          BY <1>1, <3>1 DEF QueueInv
        <4>2. pending[i] \in Nat
          BY <1>3
        <4> QED BY <1>3, <1>7, <2>2, <4>1, <4>2, Sizes
      <3>2. cur + 1 - WSize <= cur + 1 /\ cur <= (cur + 1 - WSize) + WSize - 1
        BY <1>3, Sizes
      <3> QED BY <1>1, <1>2, <1>3, <2>1, <3>1, <3>2 DEF QueueInv, LockFree, Holding
    <2>6. OutInv'
      <3>1. ASSUME NEW i \in 1 .. Len(up)
            PROVE  up[i] < cur /\ up[i] < cur + 1 - WSize
        <4>1. up[i] < wstart /\ up[i] \in Nat
          BY <1>1, <1>3, <3>1 DEF OutInv
        <4> QED BY <1>3, <1>7, <4>1, Sizes
      <3> QED BY <1>1, <2>1, <3>1 DEF OutInv
    <2> QED BY <2>4, <2>5, <2>6 DEF SessionInv
  <1>8. CASE Started /\ wstart < cur /\ cur <= wstart + WSize - 1
    <2>1. rx' = "enqueue" /\ indicate_seq' = indicate_seq /\ wstart' = wstart
      <3>1. ~Stale(cur) /\ SeqNum(cur) # WinStart(cur) /\ ~BeyondWindow(cur)
        BY <1>1, <1>3, <1>8, Sizes, CheckExact DEF CheckDecides
      <3> QED BY <3>1 DEF RxCheck
    <2>2. hi <= wstart + WSize - 1
      BY <1>1, <1>3, <1>8, Sizes DEF WindowInv
    <2>3. WindowInv'
      BY <1>1, <1>2, <1>8, <2>1, <2>2 DEF WindowInv, Started, Holding
    <2>4. QueueInv'
      <3>1. \A i \in 1 .. Len(pending) : wstart < pending[i]
                                         /\ wstart <= pending[i] + MaxGap + WSize
        BY <1>1, <1>3, Sizes DEF QueueInv
      <3>2. wstart <= cur + 1
        BY <1>3, <1>8
      <3> QED BY <1>1, <1>2, <1>8, <2>1, <3>1, <3>2 DEF QueueInv, LockFree, Holding
    <2>5. OutInv'
      <3>1. \A i \in 1 .. Len(up) : up[i] < cur
        BY <1>1, <1>3, <1>8 DEF OutInv
      <3> QED BY <1>1, <2>1, <3>1 DEF OutInv
    <2> QED BY <2>3, <2>4, <2>5 DEF SessionInv
  <1> QED BY <1>3, <1>5, <1>6, <1>7, <1>8, Sizes

\* enqueue_reorder_recvframe keeps the queue sorted and drops a frame that is
\* already in it.
LEMMA EnqueueStep ==
  ASSUME TypeInv, SessionInv, RxEnqueue
  PROVE  SessionInv'
  <1>1. /\ WindowInv /\ QueueInv /\ OutInv
        /\ rx = "enqueue" /\ tm # "indicate" /\ Started
        /\ UNCHANGED <<enable, indicate_seq, tm, cur, addba, hi, win, up, wstart>>
    BY DEF SessionInv, RxEnqueue, WindowInv, Holding, peer
  <1>2. /\ cur \in Nat /\ win \in Nat /\ hi \in Nat /\ wstart \in Nat /\ Len(pending) \in Nat
        /\ \A j \in 1 .. Len(pending) : pending[j] \in Nat
        /\ \A j \in 1 .. Len(up) : up[j] \in Nat
    BY Numbers
  <1>3. cur <= hi /\ wstart <= cur + 1 /\ cur <= wstart + WSize - 1
    BY <1>1 DEF QueueInv
  <1>4. ASSUME NEW j \in 1 .. Len(pending)
        PROVE  /\ SnLess(SeqNum(pending[j]), SeqNum(cur)) <=> (pending[j] < cur)
               /\ (SeqNum(pending[j]) = SeqNum(cur)) <=> (pending[j] = cur)
    <2>1. pending[j] <= wstart + WSize - 1 /\ wstart <= pending[j] + MaxGap + WSize
      BY <1>1 DEF QueueInv, Holding
    <2>2. /\ pending[j] \in Int /\ cur \in Int
          /\ -Reach <= pending[j] - cur /\ pending[j] - cur < Reach
      BY <1>2, <1>3, <2>1, Sizes DEF Reach
    <2> QED BY <2>2, Sizes, SnLessExact, SnEqualExact
  <1>5. PICK i \in 1 .. Len(pending) + 1 :
          /\ InsertAt(pending, cur, i)
          /\ IF i <= Len(pending) /\ SeqNum(pending[i]) = SeqNum(cur)
               THEN rx' = "idle" /\ UNCHANGED pending
               ELSE rx' = "indicate" /\ pending' = Inserted(pending, i, cur)
    BY DEF RxEnqueue
  <1>6. /\ \A j \in 1 .. i - 1 : pending[j] < cur
        /\ i <= Len(pending) => ~(pending[i] < cur)
    BY <1>2, <1>4, <1>5 DEF InsertAt
  <1>7. CASE i <= Len(pending) /\ SeqNum(pending[i]) = SeqNum(cur)
    <2>1. rx' = "idle" /\ pending' = pending /\ pending[i] = cur /\ i \in 1 .. Len(pending)
      BY <1>2, <1>4, <1>5, <1>7
    <2>2. \A j \in 1 .. Len(pending) : wstart < pending[j]
      BY <1>1, <2>1 DEF QueueInv
    <2>3. WindowInv'
      BY <1>1, <2>1 DEF WindowInv, Started, Holding
    <2>4. QueueInv'
      BY <1>1, <2>1, <2>2 DEF QueueInv, LockFree, Holding
    <2>5. OutInv'
      BY <1>1, <2>1 DEF OutInv
    <2> QED BY <2>3, <2>4, <2>5 DEF SessionInv
  <1>8. CASE ~(i <= Len(pending) /\ SeqNum(pending[i]) = SeqNum(cur))
    <2>1. rx' = "indicate" /\ pending' = Inserted(pending, i, cur)
      BY <1>5, <1>8
    <2> DEFINE q == Inserted(pending, i, cur)
    <2>2. pending \in Seq(Nat) /\ IsInsertion(q, pending, i, cur)
      <3>1. pending \in Seq(Nat)
        BY DEF TypeInv, TypeOK
      <3> QED BY <1>2, <3>1, InsertedSeq
    <2>3. i <= Len(pending) => cur < pending[i]
      BY <1>2, <1>4, <1>6, <1>8
    <2>4. \A j, k \in 1 .. Len(pending) : j < k => pending[j] < pending[k]
      BY <1>1 DEF QueueInv
    <2> HIDE DEF q
    <2>5. cur \in Nat /\ \A j \in 1 .. i - 1 : pending[j] < cur
      BY <1>2, <1>6
    <2>6. /\ \A j, k \in 1 .. Len(q) : j < k => q[j] < q[k]
          /\ \A j \in 1 .. Len(q) : \/ q[j] = cur
                                  \/ \E k \in 1 .. Len(pending) : q[j] = pending[k]
      BY <2>2, <2>3, <2>4, <2>5, InsertedSorted
    <2>7. \A j \in 1 .. Len(q) : /\ q[j] <= hi /\ q[j] <= wstart + WSize - 1
                                 /\ wstart <= q[j] + MaxGap + WSize
      <3>1. ASSUME NEW j \in 1 .. Len(q)
            PROVE  /\ q[j] <= hi /\ q[j] <= wstart + WSize - 1
                   /\ wstart <= q[j] + MaxGap + WSize
        <4>1. CASE q[j] = cur
          BY <1>2, <1>3, <4>1, Sizes
        <4>2. CASE \E k \in 1 .. Len(pending) : q[j] = pending[k]
          BY <1>1, <4>2 DEF QueueInv, Holding
        <4> QED BY <2>6, <3>1, <4>1, <4>2
      <3> QED BY <3>1
    <2>8. \A x \in 1 .. Len(up) : \A j \in 1 .. Len(q) : up[x] < q[j]
      <3>1. ASSUME NEW x \in 1 .. Len(up), NEW j \in 1 .. Len(q)
            PROVE  up[x] < q[j]
        <4>1. CASE q[j] = cur
          BY <1>1, <4>1 DEF OutInv
        <4>2. CASE \E k \in 1 .. Len(pending) : q[j] = pending[k]
          BY <1>1, <4>2 DEF OutInv
        <4> QED BY <2>6, <3>1, <4>1, <4>2
      <3> QED BY <3>1
    <2>9. rx' = "indicate" /\ pending' = q
      BY <2>1 DEF q
    <2>10. WindowInv'
      BY <1>1, <2>9 DEF WindowInv, Started, Holding
    <2>11. QueueInv'
      BY <1>1, <2>6, <2>7, <2>9 DEF QueueInv, LockFree, Holding
    <2>12. OutInv'
      BY <1>1, <2>8, <2>9 DEF OutInv
    <2> QED BY <2>10, <2>11, <2>12 DEF SessionInv
  <1> QED BY <1>7, <1>8

\* The head of the queue, compared with the window start.
LEMMA HeadExact ==
  ASSUME TypeInv, SessionInv, Holding \/ tm = "indicate", pending # <<>>
  PROVE  /\ Started /\ Head(pending) = pending[1] /\ 1 \in 1 .. Len(pending)
         /\ Releasable <=> (Head(pending) <= wstart)
         /\ (indicate_seq = SeqNum(Head(pending))) <=> (wstart = Head(pending))
  <1>1. WindowInv /\ QueueInv
    BY DEF SessionInv
  <1>2. Started /\ indicate_seq = SeqNum(wstart)
    BY <1>1 DEF WindowInv
  <1>3. Head(pending) = pending[1] /\ 1 \in 1 .. Len(pending)
    BY HeadTailProperties, EmptySeq, Numbers DEF TypeInv, TypeOK
  <1>4. /\ pending[1] <= wstart + WSize - 1
        /\ wstart <= pending[1] \/ wstart <= pending[1] + MaxGap + WSize
    BY <1>1, <1>3 DEF QueueInv
  <1>5. pending[1] \in Nat /\ wstart \in Nat
    BY <1>3, Numbers
  <1>6. -Reach <= wstart - pending[1] /\ wstart - pending[1] < Reach
    BY <1>4, <1>5, Sizes DEF Reach
  <1>7. /\ SnLess(indicate_seq, SeqNum(pending[1])) <=> (wstart < pending[1])
        /\ (indicate_seq = SeqNum(pending[1])) <=> (wstart = pending[1])
    BY <1>2, <1>5, <1>6, Sizes, SnLessExact, SnEqualExact
  <1>8. Releasable <=> ~(wstart < pending[1])
    BY <1>3, <1>7 DEF Releasable
  <1> QED BY <1>2, <1>3, <1>5, <1>7, <1>8

\* One turn of the loop hands up the oldest frame of the queue
\* (recv_indicatepkts_in_order).
LEMMA ReleaseStep ==
  ASSUME TypeInv, SessionInv, Holding \/ tm = "indicate", rx # "enqueue", Release,
         UNCHANGED <<enable, addba, tm, rx, cur, hi, win>>
  PROVE  SessionInv'
  <1> DEFINE h == Head(pending)
  <1>2. /\ WindowInv /\ QueueInv /\ OutInv /\ pending # <<>>
    BY DEF SessionInv, Release, Releasable
  <1>3. Started /\ h = pending[1] /\ 1 \in 1 .. Len(pending) /\ h <= wstart
        /\ indicate_seq = SeqNum(wstart)
    <2>1. Releasable
      BY DEF Release
    <2> QED BY <1>2, <2>1, HeadExact DEF WindowInv
  <1>4. /\ cur \in Nat /\ win \in Nat /\ hi \in Nat /\ wstart \in Nat
        /\ Len(pending) \in Nat /\ Len(up) \in Nat
        /\ \A j \in 1 .. Len(pending) : pending[j] \in Nat
        /\ \A j \in 1 .. Len(up) : up[j] \in Nat
        /\ h \in Nat
    BY <1>3, Numbers
  <1>5. /\ pending' = Tail(pending) /\ Len(Tail(pending)) = Len(pending) - 1
        /\ \A j \in 1 .. Len(pending) - 1 : Tail(pending)[j] = pending[j + 1]
    BY <1>2, HeadTailProperties DEF Release, TypeInv, TypeOK
  <1>6. \A j \in 1 .. Len(pending) - 1 : j + 1 \in 1 .. Len(pending) /\ h < pending[j + 1]
    <2>1. ASSUME NEW j \in 1 .. Len(pending) - 1
          PROVE  j + 1 \in 1 .. Len(pending) /\ pending[1] < pending[j + 1]
      <3>1. j + 1 \in 1 .. Len(pending) /\ 1 < j + 1
        BY <1>4
      <3> QED BY <1>2, <1>3, <3>1 DEF QueueInv
    <2> QED BY <1>3, <2>1
  <1>7. /\ wstart' \in Nat /\ indicate_seq' = SeqNum(wstart') /\ wstart <= wstart' /\ h < wstart'
        /\ wstart' <= hi + 1
        /\ \A j \in 1 .. Len(pending) - 1 : wstart <= pending[j + 1] => wstart' <= pending[j + 1]
        /\ \A j \in 1 .. Len(pending) - 1 :
             wstart' <= pending[j + 1] \/ wstart' = wstart
    <2>1. h <= hi
      BY <1>2, <1>3 DEF QueueInv
    <2>2. wstart <= hi + 1
      BY <1>2, <1>3 DEF WindowInv
    <2>3. CASE wstart = h
      <3>1. wstart' = wstart + 1 /\ indicate_seq' = (indicate_seq + 1) % SnSize
        BY <1>3, <2>3 DEF Release
      <3>2. (SeqNum(wstart) + 1) % SnSize = SeqNum(wstart + 1)
        BY <1>4, SeqNumAdd
      <3> QED BY <1>3, <1>4, <1>6, <2>1, <2>3, <3>1, <3>2
    <2>4. CASE wstart # h
      <3>1. wstart' = wstart /\ indicate_seq' = indicate_seq
        BY <1>2, <2>4, HeadExact DEF Release
      <3> QED BY <1>3, <1>4, <2>2, <2>4, <3>1
    <2> QED BY <2>3, <2>4
  <1>8. WindowInv'
    <2>1. Started'
      BY <1>4, <1>7, SeqNumSet DEF Started
    <2>2. ASSUME rx # "posthandle" PROVE hi <= wstart' + WSize - 1
      <3>1. hi <= wstart + WSize - 1
        BY <1>2, <1>3, <2>2 DEF WindowInv
      <3>2. wstart' \in Nat /\ wstart <= wstart'
        BY <1>7
      <3>3. \A w \in Nat : wstart <= w => hi <= w + WSize - 1
        BY <1>4, <3>1, Sizes
      <3> QED BY <3>2, <3>3
    <2>3. ASSUME rx = "posthandle"
          PROVE  /\ cur <= wstart' + MaxGap + 2 * WSize - 1
                 /\ hi <= wstart' + WSize - 1 \/ hi = cur
      <3>1. /\ cur <= wstart + MaxGap + 2 * WSize - 1
            /\ hi <= wstart + WSize - 1 \/ hi = cur
        BY <1>2, <1>3, <2>3 DEF WindowInv
      <3>2. wstart' \in Nat /\ wstart <= wstart'
        BY <1>7
      <3>3. \A w \in Nat : wstart <= w =>
              /\ cur <= w + MaxGap + 2 * WSize - 1
              /\ hi <= w + WSize - 1 \/ hi = cur
        BY <1>4, <3>1, Sizes
      <3> QED BY <3>2, <3>3
    <2> QED BY <1>2, <1>7, <2>1, <2>2, <2>3 DEF WindowInv, Holding
  <1>9. QueueInv'
    <2>1. \A i, j \in 1 .. Len(pending) - 1 : i < j => pending[i + 1] < pending[j + 1]
      <3>1. ASSUME NEW i \in 1 .. Len(pending) - 1, NEW j \in 1 .. Len(pending) - 1, i < j
            PROVE  pending[i + 1] < pending[j + 1]
        <4>1. i + 1 \in 1 .. Len(pending) /\ j + 1 \in 1 .. Len(pending) /\ i + 1 < j + 1
          BY <1>4, <3>1
        <4> QED BY <1>2, <4>1 DEF QueueInv
      <3> QED BY <3>1
    <2>2. ASSUME NEW j \in 1 .. Len(pending) - 1
          PROVE  /\ pending[j + 1] <= hi /\ pending[j + 1] <= wstart' + WSize - 1
                 /\ tm = "indicate" => wstart' <= pending[j + 1]
                 /\ Holding => wstart' <= pending[j + 1] + MaxGap + WSize
      <3>1. j + 1 \in 1 .. Len(pending) /\ pending[j + 1] \in Nat
        BY <1>4, <1>6
      <3>2. /\ pending[j + 1] <= hi /\ pending[j + 1] <= wstart + WSize - 1
            /\ tm = "indicate" => wstart <= pending[j + 1]
            /\ Holding => wstart <= pending[j + 1] + MaxGap + WSize
        BY <1>2, <3>1 DEF QueueInv
      <3>3. pending[j + 1] <= wstart' + WSize - 1
        BY <1>4, <1>7, <3>1, <3>2, Sizes
      <3>4. Holding => wstart' <= pending[j + 1] + MaxGap + WSize
        <4>1. CASE wstart' <= pending[j + 1]
          BY <1>7, <3>1, <4>1, Sizes
        <4>2. CASE wstart' = wstart
          BY <3>2, <4>2
        <4> QED BY <1>7, <4>1, <4>2
      <3> QED BY <1>7, <3>2, <3>3, <3>4
    <2> QED BY <1>4, <1>5, <2>1, <2>2 DEF QueueInv, LockFree, Holding
  <1>10. OutInv'
    <2>1. \A i \in 1 .. Len(up) : up[i] < h /\ up[i] < wstart'
      BY <1>2, <1>3, <1>4, <1>7 DEF OutInv
    <2>2. CASE up' = up
      BY <1>2, <1>4, <1>5, <1>6, <2>1, <2>2 DEF OutInv
    <2>3. CASE up' = Append(up, h)
      <3>1. /\ Len(up') = Len(up) + 1
            /\ \A i \in 1 .. Len(up) : up'[i] = up[i]
            /\ up'[Len(up) + 1] = h
        BY <1>4, <2>3, AppendProperties DEF TypeInv, TypeOK
      <3>2. \A i \in 1 .. Len(up') : up'[i] <= h /\ up'[i] < wstart'
        BY <1>4, <1>7, <2>1, <3>1
      <3>3. \A i, j \in 1 .. Len(up') : i < j => up'[i] < up'[j]
        <4>1. ASSUME NEW i \in 1 .. Len(up'), NEW j \in 1 .. Len(up'), i < j
              PROVE  up'[i] < up'[j]
          <5>1. i \in 1 .. Len(up) /\ up'[i] = up[i]
            BY <1>4, <3>1, <4>1
          <5>2. CASE j = Len(up) + 1
            BY <2>1, <3>1, <5>1, <5>2
          <5>3. CASE j \in 1 .. Len(up)
            BY <1>2, <3>1, <4>1, <5>1, <5>3 DEF OutInv
          <5> QED BY <1>4, <3>1, <4>1, <5>2, <5>3
        <4> QED BY <4>1
      <3>4. \A i \in 1 .. Len(up') : \A j \in 1 .. Len(pending') : up'[i] < pending'[j]
        <4>1. ASSUME NEW i \in 1 .. Len(up'), NEW j \in 1 .. Len(pending) - 1
              PROVE  up'[i] < pending[j + 1]
          <5>1. up'[i] <= h /\ h < pending[j + 1] /\ up'[i] \in Nat /\ pending[j + 1] \in Nat
            BY <1>4, <1>6, <3>1, <3>2
          <5> QED BY <1>4, <5>1
        <4> QED BY <1>4, <1>5, <4>1
      <3> QED BY <3>2, <3>3, <3>4 DEF OutInv
    <2>4. up' = up \/ up' = Append(up, h)
      BY DEF Release, Process
    <2> QED BY <2>2, <2>3, <2>4
  <1> QED BY <1>8, <1>9, <1>10 DEF SessionInv

\* Where the loop stops, every frame left is beyond the window start
\* (recv_indicatepkt_reorder, rtw_reordering_ctrl_timeout_handler).
LEMMA LoopEndStep ==
  ASSUME TypeInv, SessionInv, ~Releasable,
         \/ rx = "indicate" /\ rx' \in {"idle", "cancel"} /\ UNCHANGED tm
         \/ tm = "indicate" /\ tm' = "idle" /\ UNCHANGED rx,
         UNCHANGED <<enable, indicate_seq, pending, addba, cur, hi, win, wstart, up>>
  PROVE  SessionInv'
  <1>1. WindowInv /\ QueueInv /\ OutInv /\ (Holding \/ tm = "indicate")
    BY DEF SessionInv, Holding
  <1>2. ASSUME NEW i \in 1 .. Len(pending) PROVE wstart < pending[i]
    <2>1. pending # <<>>
      BY <1>2, EmptySeq, Numbers
    <2>2. wstart < pending[1] /\ 1 \in 1 .. Len(pending)
      BY <1>1, <2>1, HeadExact, Numbers
    <2>3. 1 < i => pending[1] < pending[i]
      BY <1>1, <2>2 DEF QueueInv
    <2>4. pending[1] \in Nat /\ pending[i] \in Nat /\ wstart \in Nat
      BY <2>2, Numbers
    <2> QED BY <2>2, <2>3, <2>4
  <1>3. rx # "enqueue" /\ rx' # "enqueue" /\ rx' # "after"
    BY <1>1 DEF WindowInv, Holding
  <1>4. WindowInv'
    BY <1>1, <1>3 DEF WindowInv, Started, Holding
  <1>5. QueueInv'
    <2>1. ~Holding' /\ tm' # "indicate"
      BY <1>1, <1>3 DEF WindowInv, Holding
    <2> QED BY <1>1, <1>2, <1>3, <2>1 DEF QueueInv, LockFree, Holding
  <1>6. OutInv'
    BY <1>1, <1>3 DEF OutInv
  <1> QED BY <1>4, <1>5, <1>6 DEF SessionInv

\* A forced release moves the window start to the oldest frame
\* (rtw_reordering_ctrl_timeout_handler).
LEMMA TimerEnterStep ==
  ASSUME TypeInv, SessionInv, TimerEnter
  PROVE  SessionInv'
  <1>1. /\ WindowInv /\ QueueInv /\ OutInv /\ LockFree /\ ~Holding
        /\ UNCHANGED <<enable, pending, rx, cur, addba, hi, win, up>>
        /\ tm = "fired" /\ tm' \in {"idle", "indicate"}
    BY DEF SessionInv, TimerEnter, LockFree, Holding, peer
  <1>2. CASE pending = <<>>
    <2>1. tm' = "idle" /\ UNCHANGED <<indicate_seq, wstart>>
      BY <1>2 DEF TimerEnter
    <2>2. WindowInv'
      BY <1>1, <2>1 DEF WindowInv, Started, Holding
    <2>3. QueueInv'
      BY <1>1, <2>1 DEF QueueInv, LockFree, Holding
    <2>4. OutInv'
      BY <1>1, <2>1 DEF OutInv
    <2> QED BY <2>2, <2>3, <2>4 DEF SessionInv
  <1>3. CASE pending # <<>>
    <2> DEFINE h == pending[1]
    <2>1. /\ 1 \in 1 .. Len(pending) /\ tm' = "indicate"
          /\ indicate_seq' = SeqNum(h) /\ wstart' = h
      BY <1>3, HeadTailProperties, EmptySeq, Numbers DEF TimerEnter, TypeInv, TypeOK
    <2>2. wstart < h /\ h <= hi /\ h \in Nat
      BY <1>1, <2>1, Numbers DEF QueueInv
    <2>3. /\ cur \in Nat /\ win \in Nat /\ hi \in Nat /\ wstart \in Nat
          /\ \A j \in 1 .. Len(pending) : pending[j] \in Nat
          /\ \A j \in 1 .. Len(up) : up[j] \in Nat
      BY Numbers
    <2>4. Started /\ SeqNum(h) # Unset
      BY <1>1, <1>3, <2>2, SeqNumSet DEF WindowInv
    <2>5. \A j \in 1 .. Len(pending) : h <= pending[j]
      BY <1>1, <2>1, <2>3 DEF QueueInv
    <2>6. WindowInv'
      <3>1. h <= hi + 1
        BY <2>2, <2>3
      <3>2. ASSUME rx # "posthandle" PROVE hi <= h + WSize - 1
        <4>1. hi <= wstart + WSize - 1
          BY <1>1, <2>4, <3>2 DEF WindowInv
        <4> QED BY <2>2, <2>3, <4>1, Sizes
      <3>3. ASSUME rx = "posthandle"
            PROVE  /\ cur <= h + MaxGap + 2 * WSize - 1
                   /\ hi <= h + WSize - 1 \/ hi = cur
        <4>1. /\ cur <= wstart + MaxGap + 2 * WSize - 1
              /\ hi <= wstart + WSize - 1 \/ hi = cur
          BY <1>1, <2>4, <3>3 DEF WindowInv
        <4> QED BY <2>2, <2>3, <4>1, Sizes
      <3> HIDE DEF h
      <3> QED BY <1>1, <2>1, <2>4, <3>1, <3>2, <3>3 DEF WindowInv, Started, Holding
    <2>7. QueueInv'
      <3>1. ASSUME NEW j \in 1 .. Len(pending) PROVE pending[j] <= h + WSize - 1
        <4>1. pending[j] <= wstart + WSize - 1
          BY <1>1, <3>1 DEF QueueInv
        <4> QED BY <2>2, <2>3, <3>1, <4>1, Sizes
      <3> HIDE DEF h
      <3> QED BY <1>1, <2>1, <2>5, <3>1 DEF QueueInv, LockFree, Holding
    <2>8. OutInv'
      <3>1. \A i \in 1 .. Len(up) : up[i] < h
        BY <1>1, <2>1 DEF OutInv
      <3> HIDE DEF h
      <3> QED BY <1>1, <2>1, <3>1 DEF OutInv, Holding
    <2> QED BY <2>6, <2>7, <2>8 DEF SessionInv
  <1> QED BY <1>2, <1>3

\* A step that leaves the window, the queue and the two lock holders alone.
LEMMA FrameStep ==
  ASSUME SessionInv, tm' = tm \/ (tm # "indicate" /\ tm' # "indicate"),
         rx' = rx \/ (rx = "cancel" /\ rx' = "idle"),
         UNCHANGED <<enable, indicate_seq, pending, addba, cur, hi, win, wstart, up>>
  PROVE  SessionInv'
  <1>1. WindowInv /\ QueueInv /\ OutInv /\ (~Started => rx' = rx)
    BY DEF SessionInv, WindowInv
  <1>2. (rx' = "enqueue" <=> rx = "enqueue") /\ (Holding' <=> Holding) /\ (LockFree' <=> LockFree)
        /\ (tm' = "indicate" <=> tm = "indicate") /\ (rx' = "posthandle" <=> rx = "posthandle")
        /\ (rx' = "after" <=> rx = "after")
    BY DEF Holding, LockFree
  <1>3. WindowInv'
    BY <1>1, <1>2 DEF WindowInv, Started
  <1>4. QueueInv'
    BY <1>1, <1>2 DEF QueueInv
  <1>5. OutInv'
    BY <1>1, <1>2 DEF OutInv
  <1> QED BY <1>3, <1>4, <1>5 DEF SessionInv

LEMMA AdvanceStep ==
  ASSUME TypeInv, SessionInv, Advance
  PROVE  SessionInv'
  <1>1. /\ WindowInv /\ QueueInv /\ OutInv /\ win' = win + 1 /\ win < hi + MaxGap
        /\ UNCHANGED <<enable, indicate_seq, pending, tm, rx, addba, cur, hi, wstart, up>>
    BY DEF SessionInv, Advance, ctrl
  <1>2. hi - WSize + 1 <= win + 1 /\ win + 1 <= hi + MaxGap + 1
    <2>1. hi - WSize + 1 <= win
      BY <1>1 DEF WindowInv
    <2>2. hi \in Nat /\ win \in Nat
      BY Numbers
    <2> QED BY <1>1, <2>1, <2>2, Sizes
  <1>3. WindowInv'
    BY <1>1, <1>2 DEF WindowInv, Started, Holding
  <1>4. QueueInv'
    BY <1>1 DEF QueueInv, LockFree, Holding
  <1>5. OutInv'
    BY <1>1 DEF OutInv
  <1> QED BY <1>3, <1>4, <1>5 DEF SessionInv

\* rtw_free_stainfo empties the queue under its lock.
LEMMA FlushStep ==
  ASSUME TypeInv, SessionInv, StaFlush
  PROVE  SessionInv'
  <1>1. /\ WindowInv /\ QueueInv /\ OutInv /\ pending' = <<>> /\ Len(pending') = 0
        /\ UNCHANGED <<enable, indicate_seq, tm, rx, addba, cur, hi, win, wstart, up>>
    BY EmptySeq DEF SessionInv, StaFlush, peer
  <1>2. WindowInv'
    BY <1>1 DEF WindowInv, Started, Holding
  <1>3. rx # "enqueue"
    BY DEF StaFlush, LockFree
  <1>4. QueueInv'
    BY <1>1, <1>3 DEF QueueInv, LockFree, Holding
  <1>5. OutInv'
    BY <1>1 DEF OutInv
  <1> QED BY <1>2, <1>4, <1>5 DEF SessionInv

LEMMA SessionStep ==
  ASSUME OneAgreement, TypeInv, SessionInv, [Next]_vars
  PROVE  SessionInv'
  <1>0. enable /\ addba = "none" /\ rx # "after"
    BY DEF SessionInv, WindowInv
  <1> USE DEF ctrl, peer
  <1>1. CASE Advance
    BY <1>1, AdvanceStep
  <1>2. ASSUME NEW n \in win .. win + WSize - 1, RxValidate(n) PROVE SessionInv'
    BY <1>2, ValidateStep
  <1>3. CASE RxDirect \/ RxDirectAfter
    BY <1>0, <1>3 DEF RxDirect, RxDirectAfter
  <1>4. CASE RxCheck
    BY <1>4, CheckStep
  <1>5. CASE RxEnqueue
    BY <1>5, EnqueueStep
  <1>6. CASE RxRelease
    BY <1>6, ReleaseStep DEF RxRelease, Holding
  <1>7. CASE RxIndicated
    <2>1. rx' \in {"idle", "cancel"}
      BY <1>7 DEF RxIndicated
    <2> QED BY <1>7, <2>1, LoopEndStep DEF RxIndicated
  <1>8. CASE RxCancel
    BY <1>8, FrameStep DEF RxCancel
  <1>9. CASE RxBar \/ Delba \/ AddbaReq
    BY <1>9 DEF RxBar, Delba, AddbaReq, OneAgreement
  <1>10. CASE AddbaReset \/ \E accept \in BOOLEAN : AddbaEnable(accept)
    BY <1>0, <1>10 DEF AddbaReset, AddbaEnable
  <1>11. CASE TimerFire
    <2>1. tm # "indicate" /\ tm' # "indicate"
      BY <1>11 DEF TimerFire
    <2> QED BY <1>11, <2>1, FrameStep DEF TimerFire
  <1>12. CASE TimerEnter
    BY <1>12, TimerEnterStep
  <1>13. CASE TimerRelease
    <2>1. rx # "enqueue"
      BY <1>13 DEF TimerRelease, SessionInv, WindowInv, Holding
    <2> QED BY <1>13, <2>1, ReleaseStep DEF TimerRelease
  <1>14. CASE TimerIndicated
    BY <1>14, LoopEndStep DEF TimerIndicated
  <1>15. CASE StaUnhash
    BY <1>15, FrameStep DEF StaUnhash
  <1>16. CASE StaCancel
    BY <1>16, FrameStep DEF StaCancel
  <1>17. CASE StaFlush
    BY <1>17, FlushStep
  <1>18. CASE DriverStop
    BY <1>18, FrameStep DEF DriverStop
  <1>19. CASE UNCHANGED vars
    BY <1>19, FrameStep DEF vars
  <1> QED BY <1>1, <1>2, <1>3, <1>4, <1>5, <1>6, <1>7, <1>8, <1>9, <1>10, <1>11,
             <1>12, <1>13, <1>14, <1>15, <1>16, <1>17, <1>18, <1>19
          DEF Next, RxTasklet, Timer, CmdThread

-----------------------------------------------------------------------------
(* The theorems.                                                           *)

LEMMA SessionInvariant ==
  ASSUME OneAgreement
  PROVE  Spec => [](TypeInv /\ SessionInv)
  <1>1. Init => TypeInv /\ SessionInv
    BY TypeInit, SessionInit
  <1>2. TypeInv /\ SessionInv /\ [Next]_vars => (TypeInv /\ SessionInv)'
    BY TypeStep, SessionStep
  <1> QED BY <1>1, <1>2, PTL DEF Spec

\* While no BlockAckReq, DELBA or new ADDBA rewrites the window, the stack
\* sees the originator's frames in increasing order and each at most once,
\* for every window and sequence space with 2 * (MaxGap + 2 * WSize) <= SnSize.
THEOREM DeliveryInOrder ==
  ASSUME OneAgreement
  PROVE  Spec => []InOrder
  <1>1. TypeInv /\ SessionInv => InOrder
    BY DEF SessionInv, OutInv, InOrder
  <1> QED BY <1>1, SessionInvariant, PTL

\* Under the same assumption the unlocked queue is sorted and lies within
\* WSize of the window start.
THEOREM QueueInWindow ==
  ASSUME OneAgreement
  PROVE  Spec => []WindowHolds
  <1>1. ASSUME TypeInv, SessionInv PROVE WindowHolds
    <2>1. QueueInv
      BY <1>1 DEF SessionInv
    <2>2. /\ wstart \in Nat
          /\ \A i \in 1 .. Len(pending) : pending[i] \in Nat
      BY <1>1, Numbers
    <2> QED BY <2>1, <2>2, Sizes DEF QueueInv, WindowHolds
  <1>2. TypeInv /\ SessionInv => WindowHolds
    BY <1>1
  <1> QED BY <1>2, SessionInvariant, PTL

-----------------------------------------------------------------------------
(* RxReorder implements InOrderDelivery.                                   *)

\* The frame in the tasklet's hands is one of the originator's.
CurInv == rx \in {"posthandle", "enqueue"} => cur <= LastFrame

LEMMA CurStep ==
  ASSUME CurInv, [Next]_vars
  PROVE  CurInv'
  <1> USE DEF CurInv, ctrl, peer
  <1>1. ASSUME NEW n \in win .. win + WSize - 1, RxValidate(n) PROVE CurInv'
    BY <1>1 DEF RxValidate
  <1>2. CASE RxCheck
    BY <1>2 DEF RxCheck
  <1>3. CASE RxEnqueue
    <2>1. rx' \in {"idle", "indicate"}
      BY <1>3 DEF RxEnqueue
    <2> QED BY <2>1
  <1>4. CASE RxIndicated
    <2>1. rx' \in {"idle", "cancel"}
      BY <1>4 DEF RxIndicated
    <2> QED BY <2>1
  <1>5. CASE RxDirect \/ RxDirectAfter \/ RxCancel
    BY <1>5 DEF RxDirect, RxDirectAfter, RxCancel
  <1>6. CASE \/ Advance \/ RxRelease \/ RxBar \/ Delba \/ AddbaReq \/ AddbaReset
             \/ (\E accept \in BOOLEAN : AddbaEnable(accept))
             \/ TimerFire \/ TimerEnter \/ TimerRelease \/ TimerIndicated
             \/ StaUnhash \/ StaCancel \/ StaFlush \/ DriverStop \/ UNCHANGED vars
    <2>1. rx' = rx /\ cur' = cur
      BY <1>6 DEF Advance, RxRelease, RxBar, Delba, AddbaReq, AddbaReset, AddbaEnable,
                  TimerFire, TimerEnter, TimerRelease, TimerIndicated, StaUnhash,
                  StaCancel, StaFlush, DriverStop, vars
    <2> QED BY <2>1
  <1> QED BY <1>1, <1>2, <1>3, <1>4, <1>5, <1>6 DEF Next, RxTasklet, Timer, CmdThread

\* The set of frames in the queue.
Elems(q) == {q[i] : i \in 1 .. Len(q)}

\* Releasing the head takes the smallest frame out of the set.
LEMMA AbsRelease ==
  ASSUME TypeInv, SessionInv, Holding \/ tm = "indicate", Release
  PROVE  Abs!Next
  <1> DEFINE h == pending[1]
             buf == Elems(pending)
  <1>1. /\ pending # <<>> /\ pending \in Seq(Nat) /\ pending' = Tail(pending)
        /\ QueueInv
        /\ up' = up \/ up' = Append(up, Head(pending))
    BY DEF Release, Releasable, Process, TypeInv, TypeOK, SessionInv
  <1>2. Head(pending) = h /\ 1 \in 1 .. Len(pending) /\ Len(pending) \in Nat
    BY <1>1, HeadTailProperties, EmptySeq, LenProperties
  <1>3. /\ Len(pending') = Len(pending) - 1
        /\ \A j \in 1 .. Len(pending) - 1 : pending'[j] = pending[j + 1]
    BY <1>1, HeadTailProperties
  <1>4. \A j \in 1 .. Len(pending) : pending[j] \in Nat
    BY Numbers
  <1>5. \A j \in 2 .. Len(pending) : h < pending[j]
    BY <1>1, <1>2 DEF QueueInv
  <1>6. h \in buf /\ \A m \in buf : h <= m
    <2>1. \A j \in 1 .. Len(pending) : h <= pending[j]
      BY <1>2, <1>4, <1>5
    <2> QED BY <1>2, <2>1 DEF Elems
  <1>7. Elems(pending') = buf \ {h}
    <2>1. ASSUME NEW m \in Elems(pending') PROVE m \in buf \ {h}
      <3>1. PICK j \in 1 .. Len(pending) - 1 : m = pending[j + 1]
        BY <1>3, <2>1 DEF Elems
      <3>2. j + 1 \in 2 .. Len(pending) /\ j + 1 \in 1 .. Len(pending)
        BY <1>2
      <3>3. h < pending[j + 1] /\ h \in Nat /\ pending[j + 1] \in Nat
        BY <1>2, <1>4, <1>5, <3>2
      <3>4. m # h
        BY <3>1, <3>3
      <3> QED BY <3>1, <3>2, <3>4 DEF Elems
    <2>2. ASSUME NEW m \in buf \ {h} PROVE m \in Elems(pending')
      <3>1. PICK j \in 1 .. Len(pending) : m = pending[j]
        BY <2>2 DEF Elems
      <3>2. j # 1
        BY <2>2, <3>1
      <3>3. j - 1 \in 1 .. Len(pending) - 1 /\ (j - 1) + 1 = j
        BY <1>2, <3>2
      <3>4. pending'[j - 1] = m /\ j - 1 \in 1 .. Len(pending')
        BY <1>3, <3>1, <3>3
      <3> QED BY <3>4 DEF Elems
    <2> QED BY <2>1, <2>2
  <1>8. Abs!Smallest(h)
    BY <1>6 DEF Abs!Smallest, Elems
  <1>11. h \in {pending[i] : i \in 1 .. Len(pending)}
    BY <1>6 DEF Elems
  <1>9. CASE up' = up
    <2>1. Abs!Drop(h)
      BY <1>7, <1>8, <1>9 DEF Abs!Drop, Elems
    <2> HIDE DEF h
    <2> QED BY <1>11, <2>1 DEF Abs!Next, Abs!Drop
  <1>10. CASE up' = Append(up, Head(pending))
    <2>1. Abs!Deliver(h)
      BY <1>2, <1>7, <1>8, <1>10 DEF Abs!Deliver, Elems
    <2> HIDE DEF h
    <2> QED BY <1>11, <2>1 DEF Abs!Next, Abs!Deliver
  <1> QED BY <1>1, <1>9, <1>10

\* Queueing a frame accepts it, unless it was there.
LEMMA AbsEnqueue ==
  ASSUME TypeInv, SessionInv, CurInv, RxEnqueue
  PROVE  Abs!Next \/ (Elems(pending') = Elems(pending) /\ up' = up)
  <1>1. OutInv /\ rx = "enqueue" /\ up' = up
    BY DEF SessionInv, RxEnqueue
  <1>2. cur \in First .. LastFrame /\ Len(pending) \in Nat
    BY <1>1, Numbers, BoundAssumption DEF CurInv
  <1>3. PICK i \in 1 .. Len(pending) + 1 :
          IF i <= Len(pending) /\ SeqNum(pending[i]) = SeqNum(cur)
            THEN rx' = "idle" /\ UNCHANGED pending
            ELSE rx' = "indicate" /\ pending' = Inserted(pending, i, cur)
    BY DEF RxEnqueue
  <1>4. CASE pending' = pending
    BY <1>1, <1>4
  <1>5. CASE pending' = Inserted(pending, i, cur)
    <2> DEFINE q == Inserted(pending, i, cur)
    <2>1. /\ Len(q) = Len(pending) + 1
          /\ \A j \in 1 .. Len(pending) + 1 :
               q[j] = IF j < i THEN pending[j] ELSE IF j = i THEN cur ELSE pending[j - 1]
      <3>1. pending \in Seq(Nat) /\ cur \in Nat
        BY DEF TypeInv, TypeOK
      <3>2. IsInsertion(q, pending, i, cur)
        BY <3>1, InsertedSeq
      <3> HIDE DEF q
      <3> QED BY <3>2 DEF IsInsertion
    <2>5. pending' = q
      BY <1>5
    <2> HIDE DEF q
    <2>6. Elems(q) = Elems(pending) \cup {cur}
      <3>1. ASSUME NEW m \in Elems(q) PROVE m \in Elems(pending) \cup {cur}
        <4>1. PICK j \in 1 .. Len(pending) + 1 : m = q[j]
          BY <2>1, <3>1 DEF Elems
        <4>2. CASE j < i
          BY <1>2, <2>1, <4>1, <4>2 DEF Elems
        <4>3. CASE j = i
          BY <2>1, <4>1, <4>3
        <4>4. CASE j > i
          <5>1. j - 1 \in 1 .. Len(pending) /\ m = pending[j - 1]
            BY <1>2, <2>1, <4>1, <4>4
          <5> QED BY <5>1 DEF Elems
        <4> QED BY <4>2, <4>3, <4>4
      <3>2. cur \in Elems(q)
        <4>1. q[i] = cur /\ i \in 1 .. Len(q)
          BY <1>2, <2>1
        <4> QED BY <4>1 DEF Elems
      <3>3. ASSUME NEW m \in Elems(pending) PROVE m \in Elems(q)
        <4>1. PICK j \in 1 .. Len(pending) : m = pending[j]
          BY <3>3 DEF Elems
        <4>2. CASE j < i
          <5>1. q[j] = m /\ j \in 1 .. Len(q)
            BY <1>2, <2>1, <4>1, <4>2
          <5> QED BY <5>1 DEF Elems
        <4>3. CASE ~(j < i)
          <5>1. q[j + 1] = pending[(j + 1) - 1] /\ j + 1 \in 1 .. Len(q)
            BY <1>2, <2>1, <4>3
          <5>2. q[j + 1] = m
            BY <4>1, <5>1
          <5> QED BY <5>1, <5>2 DEF Elems
        <4> QED BY <4>2, <4>3
      <3> QED BY <3>1, <3>2, <3>3
    <2>2. Elems(pending') = Elems(pending) \cup {cur}
      BY <2>5, <2>6
    <2>3. CASE cur \in Elems(pending)
      BY <1>1, <2>2, <2>3
    <2>4. CASE cur \notin Elems(pending)
      <3>1. Abs!Newer(cur)
        BY <1>1 DEF OutInv, Abs!Newer
      <3>2. Abs!Accept(cur)
        BY <1>1, <2>2, <2>4, <3>1 DEF Abs!Accept, Elems
      <3> QED BY <1>2, <3>2 DEF Abs!Next, Abs!Accept
    <2> QED BY <2>3, <2>4
  <1> QED BY <1>3, <1>4, <1>5

LEMMA AbsStep ==
  ASSUME OneAgreement, TypeInv, SessionInv, CurInv, [Next]_vars
  PROVE  Abs!Next \/ (Elems(pending') = Elems(pending) /\ up' = up)
  <1>0. enable /\ addba = "none" /\ rx # "after"
    BY DEF SessionInv, WindowInv
  <1>1. CASE RxEnqueue
    BY <1>1, AbsEnqueue
  <1>2. CASE RxRelease \/ TimerRelease
    <2>1. Release /\ (Holding \/ tm = "indicate")
      BY <1>2 DEF RxRelease, TimerRelease, Holding
    <2> QED BY <2>1, AbsRelease
  <1>3. CASE StaFlush
    <2>1. Elems(pending') = {} /\ up' = up
      BY <1>3, EmptySeq DEF StaFlush, Elems
    <2>2. Abs!Flush
      BY <2>1 DEF Abs!Flush, Elems
    <2> QED BY <2>2 DEF Abs!Next
  <1>4. CASE RxDirect \/ RxDirectAfter \/ AddbaReset
    BY <1>0, <1>4 DEF RxDirect, RxDirectAfter, AddbaReset
  <1>5. CASE \/ Advance \/ (\E n \in win .. win + WSize - 1 : RxValidate(n))
             \/ RxCheck \/ RxIndicated \/ RxCancel \/ RxBar \/ Delba \/ AddbaReq
             \/ (\E accept \in BOOLEAN : AddbaEnable(accept))
             \/ TimerFire \/ TimerEnter \/ TimerIndicated \/ StaUnhash \/ StaCancel
             \/ DriverStop \/ UNCHANGED vars
    <2>1. pending' = pending /\ up' = up
      BY <1>5 DEF Advance, RxValidate, RxCheck, RxIndicated, RxCancel, RxBar, Delba,
                  AddbaReq, AddbaEnable, TimerFire, TimerEnter, TimerIndicated,
                  StaUnhash, StaCancel, DriverStop, vars, ctrl
    <2> QED BY <2>1
  <1> QED BY <1>1, <1>2, <1>3, <1>4, <1>5 DEF Next, RxTasklet, Timer, CmdThread

\* Within one agreement the reordering code implements the in-order buffer:
\* every step either leaves buffer and output alone or accepts a frame no
\* later one has overtaken, or hands up or drops the oldest, or flushes.
THEOREM ImplementsInOrderDelivery ==
  ASSUME OneAgreement
  PROVE  Spec => DeliversInOrder
  <1>1. Init => Abs!Init
    <2>1. Init => Len(pending) = 0 /\ up = <<>>
      BY EmptySeq DEF Init
    <2> QED BY <2>1 DEF Abs!Init
  <1>2. Init => CurInv
    BY DEF Init, CurInv
  <1>3. TypeInv /\ SessionInv /\ CurInv /\ [Next]_vars
          => [Abs!Next]_<<{pending[i] : i \in 1 .. Len(pending)}, up>>
    BY AbsStep DEF Elems
  <1>4. CurInv /\ [Next]_vars => CurInv'
    BY CurStep
  <1> QED BY <1>1, <1>2, <1>3, <1>4, SessionInvariant, PTL
          DEF Spec, DeliversInOrder, Abs!Spec

-----------------------------------------------------------------------------
(* The loss counter.                                                       *)

\* recv_indicatepkts_pkt_loss_cnt returns the number of frames between two
\* numbers of the sequence space, across its wrap or not.
LEMMA LossIsGap ==
  ASSUME NEW w \in Nat, NEW h \in Nat, w <= h, h - w < SnSize
  PROVE  LossCnt(SeqNum(w), SeqNum(h)) = h - w
  <1>1. /\ SeqNum(w) \in 0 .. SnSize - 1 /\ SeqNum(h) \in 0 .. SnSize - 1
        /\ SnSize \in Nat \ {0}
    BY SeqNumType, Sizes
  <1>2. (SeqNum(h) - SeqNum(w)) % SnSize = h - w
    <2>1. (SeqNum(h) - SeqNum(w)) % SnSize = (h - w) % SnSize
      <3>1. SnSize \in Nat \ {0} /\ h \in Int /\ w \in Int
        BY <1>1
      <3> QED BY <3>1, ModDiff DEF SeqNum
    <2>2. h - w \in 0 .. SnSize - 1
      <3>1. h - w \in Int /\ 0 <= h - w /\ SnSize \in Int
        BY SizeAssumption
      <3>2. \A d, s \in Int : 0 <= d /\ d < s => d \in 0 .. s - 1
        OBVIOUS
      <3> QED BY <3>1, <3>2
    <2> QED BY <1>1, <2>1, <2>2, ModSmall
  <1>3. CASE SeqNum(h) < SeqNum(w)
    <2>1. /\ SeqNum(h) - SeqNum(w) \in Int /\ -SnSize <= SeqNum(h) - SeqNum(w)
          /\ SeqNum(h) - SeqNum(w) < 0
      BY <1>1, <1>3
    <2>2. (SeqNum(h) - SeqNum(w)) % SnSize = (SeqNum(h) - SeqNum(w)) + SnSize
      BY <1>1, <2>1, ModNegative
    <2> QED BY <1>1, <1>2, <1>3, <2>2 DEF LossCnt
  <1>4. CASE ~(SeqNum(h) < SeqNum(w))
    <2>1. SeqNum(h) - SeqNum(w) \in 0 .. SnSize - 1
      BY <1>1, <1>4
    <2>2. (SeqNum(h) - SeqNum(w)) % SnSize = SeqNum(h) - SeqNum(w)
      BY <1>1, <2>1, ModSmall
    <2> QED BY <1>1, <1>2, <1>4, <2>2 DEF LossCnt
  <1> QED BY <1>3, <1>4

\* One step of the timer's handler.
LEMMA LossStep ==
  ASSUME TypeInv, SessionInv, [Next]_vars, rx_drop' # rx_drop
  PROVE  rx_drop' - rx_drop = wstart' - wstart
  <1>1. TimerEnter /\ pending # <<>>
    BY DEF Next, vars, ctrl, peer, RxTasklet, Timer, CmdThread, Advance, RxValidate,
           RxDirect, RxDirectAfter, RxCheck, RxEnqueue, RxRelease, RxIndicated,
           RxCancel, RxBar, Delba, AddbaReq, AddbaReset, AddbaEnable, TimerFire,
           TimerEnter, TimerRelease, TimerIndicated, StaUnhash, StaCancel, StaFlush,
           DriverStop
  <1> DEFINE h == pending[1]
  <1>2. /\ h = Head(pending) /\ 1 \in 1 .. Len(pending)
        /\ wstart' = h /\ rx_drop' = rx_drop + LossCnt(indicate_seq, SeqNum(h))
        /\ LockFree
    BY <1>1, TailEntries DEF TimerEnter, TypeInv, TypeOK
  <1>3. Started /\ indicate_seq = SeqNum(wstart)
    BY <1>1 DEF SessionInv, WindowInv
  <1>4. /\ wstart < h /\ h <= wstart + WSize - 1
        /\ h \in Nat /\ wstart \in Nat /\ rx_drop \in Int
    BY <1>2, Numbers DEF SessionInv, QueueInv, TypeInv, TypeOK
  <1>5. wstart <= h /\ h - wstart < SnSize
    BY <1>4, Sizes
  <1>6. LossCnt(indicate_seq, SeqNum(h)) = h - wstart
    BY <1>3, <1>4, <1>5, LossIsGap
  <1>7. rx_drop' = rx_drop + (h - wstart) /\ wstart' = h
    BY <1>2, <1>6
  <1> HIDE DEF h
  <1> QED BY <1>4, <1>7

\* Within one agreement a forced release adds to rx_drop exactly the frames
\* that the window start jumps over, across the wrap of the sequence number
\* space too (recv_indicatepkts_pkt_loss_cnt).
THEOREM LossCountExact ==
  ASSUME OneAgreement
  PROVE  Spec => LossExact
  <1>1. TypeInv /\ SessionInv /\ [Next]_vars
          => [rx_drop' # rx_drop => rx_drop' - rx_drop = wstart' - wstart]_vars
    BY LossStep
  <1> QED BY <1>1, SessionInvariant, PTL DEF Spec, LossExact

-----------------------------------------------------------------------------
(* No twins, as long as the queue lies within half the number space.       *)

\* The originator is less than half the sequence number space ahead of every
\* queued frame.
Near == \A i \in 1 .. Len(pending) : 2 * (hi - pending[i]) < SnSize

\* The queue is sorted by the frames behind the numbers, and nothing in it or
\* on its way to it is beyond the highest frame.
SortedInv ==
  /\ hi <= win + WSize - 1
  /\ rx \in {"posthandle", "enqueue"} => cur <= hi /\ hi <= cur + WSize - 1
  /\ \A i \in 1 .. Len(pending) : pending[i] <= hi
  /\ \A i, j \in 1 .. Len(pending) : i < j => pending[i] < pending[j]

\* Within half the number space SN_LESS and the comparison of the numbers
\* decide the order of the frames.
LEMMA HalfSpace ==
  ASSUME NEW a \in Nat, NEW b \in Nat, 2 * (a - b) < SnSize, 2 * (b - a) < SnSize
  PROVE  /\ SnLess(SeqNum(a), SeqNum(b)) <=> a < b
         /\ SeqNum(a) = SeqNum(b) <=> a = b
  <1>1. /\ -SnSize <= 2 * (a - b) /\ a - b < SnSize /\ b - a < SnSize
        /\ a \in Int /\ b \in Int
    BY Sizes
  <1>2. SnLess(SeqNum(a), SeqNum(b)) <=> a < b
    BY <1>1, Sizes, ModLess DEF SnLess, SeqNum
  <1>3. SeqNum(a) = SeqNum(b) => a = b
    BY <1>1, Sizes, ModEqual DEF SeqNum
  <1> QED BY <1>2, <1>3

\* Two frames that a third is close ahead of are close to each other.
LEMMA CloseTogether ==
  ASSUME NEW a \in Nat, NEW b \in Nat, NEW h \in Nat, NEW s \in Nat,
         a <= h, b <= h, 2 * (h - a) < s, 2 * (h - b) < s
  PROVE  2 * (a - b) < s /\ 2 * (b - a) < s
  OBVIOUS

\* enqueue_reorder_recvframe finds the place of the frame among the frames, or
\* the frame itself.
LEMMA EnqueueSorted ==
  ASSUME TypeInv, SortedInv, Near, RxEnqueue
  PROVE  SortedInv'
  <1>1. /\ rx = "enqueue" /\ UNCHANGED <<cur, hi, win>> /\ rx' \in {"idle", "indicate"}
        /\ cur <= hi /\ hi <= cur + WSize - 1
    BY DEF RxEnqueue, SortedInv, peer
  <1>2. /\ cur \in Nat /\ hi \in Nat /\ Len(pending) \in Nat /\ pending \in Seq(Nat)
        /\ \A j \in 1 .. Len(pending) : pending[j] \in Nat
    BY Numbers DEF TypeInv, TypeOK
  <1>3. ASSUME NEW j \in 1 .. Len(pending)
        PROVE  /\ SnLess(SeqNum(pending[j]), SeqNum(cur)) <=> pending[j] < cur
               /\ SeqNum(pending[j]) = SeqNum(cur) <=> pending[j] = cur
    <2>1. /\ pending[j] \in Nat /\ pending[j] <= hi /\ 2 * (hi - pending[j]) < SnSize
          /\ 2 * WSize <= SnSize /\ WSize \in Nat
      BY <1>2, Sizes DEF SortedInv, Near, Reach
    <2>2. 2 * (hi - cur) < SnSize /\ SnSize \in Nat
      <3>1. 2 * (hi - cur) <= 2 * (WSize - 1)
        BY <1>1, <1>2, <2>1
      <3> QED BY <1>2, <2>1, <3>1, SizeAssumption
    <2>3. 2 * (pending[j] - cur) < SnSize /\ 2 * (cur - pending[j]) < SnSize
      BY <1>1, <1>2, <2>1, <2>2, CloseTogether
    <2> QED BY <1>2, <2>1, <2>3, HalfSpace
  <1>4. PICK i \in 1 .. Len(pending) + 1 :
          /\ InsertAt(pending, cur, i)
          /\ IF i <= Len(pending) /\ SeqNum(pending[i]) = SeqNum(cur)
               THEN UNCHANGED pending
               ELSE pending' = Inserted(pending, i, cur)
    BY DEF RxEnqueue
  <1>5. CASE i <= Len(pending) /\ SeqNum(pending[i]) = SeqNum(cur)
    BY <1>1, <1>4, <1>5 DEF SortedInv
  <1>6. CASE ~(i <= Len(pending) /\ SeqNum(pending[i]) = SeqNum(cur))
    <2>1. /\ \A j \in 1 .. i - 1 : pending[j] < cur
          /\ i <= Len(pending) => cur < pending[i]
      BY <1>2, <1>3, <1>4, <1>6 DEF InsertAt
    <2>2. IsInsertion(pending', pending, i, cur)
      BY <1>2, <1>4, <1>6, InsertedSeq
    <2>3. \A j, k \in 1 .. Len(pending) : j < k => pending[j] < pending[k]
      BY DEF SortedInv
    <2>4. /\ \A j, k \in 1 .. Len(pending') : j < k => pending'[j] < pending'[k]
          /\ \A j \in 1 .. Len(pending') :
               pending'[j] = cur \/ \E k \in 1 .. Len(pending) : pending'[j] = pending[k]
      BY <1>2, <2>1, <2>2, <2>3, InsertedSorted
    <2>5. \A j \in 1 .. Len(pending') : pending'[j] <= hi
      BY <1>1, <2>4 DEF SortedInv
    <2> QED BY <1>1, <2>4, <2>5 DEF SortedInv
  <1> QED BY <1>5, <1>6

\* A step that leaves the queue and the originator alone, and puts no frame on
\* its way into the queue.
LEMMA SortedFrame ==
  ASSUME SortedInv, UNCHANGED <<pending, cur, hi, win>>,
         \/ rx' = rx
         \/ rx' \notin {"posthandle", "enqueue"}
         \/ rx = "posthandle" /\ rx' = "enqueue"
  PROVE  SortedInv'
  BY DEF SortedInv

LEMMA SortedStep ==
  ASSUME TypeInv, SortedInv, Near, [Next]_vars
  PROVE  SortedInv'
  <1>0. /\ cur \in Nat /\ win \in Nat /\ hi \in Nat /\ pending \in Seq(Nat)
        /\ \A j \in 1 .. Len(pending) : pending[j] \in Nat
    BY Numbers DEF TypeInv, TypeOK
  <1> USE DEF ctrl, peer
  <1>1. CASE Advance
    BY <1>0, <1>1, Sizes DEF Advance, SortedInv
  <1>2. ASSUME NEW n \in win .. win + WSize - 1, RxValidate(n) PROVE SortedInv'
    <2>1. /\ UNCHANGED <<pending, win>> /\ rx = "idle"
          /\ \/ UNCHANGED <<rx, hi>>
             \/ rx' = "posthandle" /\ cur' = n /\ hi' = IF n > hi THEN n ELSE hi
      BY <1>2 DEF RxValidate
    <2>2. hi <= win + WSize - 1 /\ \A i \in 1 .. Len(pending) : pending[i] <= hi
      BY DEF SortedInv
    <2>3. CASE UNCHANGED <<rx, hi>>
      BY <2>1, <2>3 DEF SortedInv
    <2>4. CASE rx' = "posthandle" /\ cur' = n /\ hi' = IF n > hi THEN n ELSE hi
      <3>1. /\ hi' <= win + WSize - 1 /\ n <= hi' /\ hi' <= n + WSize - 1 /\ hi <= hi'
        BY <1>0, <1>2, <2>2, <2>4, Sizes
      <3>2. \A i \in 1 .. Len(pending) : pending[i] <= hi'
        BY <1>0, <2>2, <2>4, <3>1
      <3> QED BY <2>1, <2>4, <3>1, <3>2 DEF SortedInv
    <2> QED BY <2>1, <2>3, <2>4
  <1>3. CASE RxEnqueue
    BY <1>3, EnqueueSorted
  <1>4. ASSUME Release, UNCHANGED <<rx, cur, hi, win>> PROVE SortedInv'
    <2>1. /\ pending' = Tail(pending)
          /\ \A j \in 1 .. Len(pending') : /\ j + 1 \in 1 .. Len(pending)
                                           /\ pending'[j] = pending[j + 1]
      BY <1>0, <1>4, TailEntries DEF Release, Releasable
    <2>2. \A j, k \in 1 .. Len(pending') : j < k => pending'[j] < pending'[k]
      <3>1. ASSUME NEW j \in 1 .. Len(pending'), NEW k \in 1 .. Len(pending'), j < k
            PROVE  pending'[j] < pending'[k]
        <4>1. j + 1 < k + 1
          BY <3>1
        <4> QED BY <2>1, <4>1 DEF SortedInv
      <3> QED BY <3>1
    <2>3. \A j \in 1 .. Len(pending') : pending'[j] <= hi
      BY <2>1 DEF SortedInv
    <2> QED BY <1>4, <2>2, <2>3 DEF SortedInv
  <1>6. CASE StaFlush
    <2>1. pending' = <<>> /\ Len(pending') = 0 /\ UNCHANGED <<rx, cur, hi, win>>
      BY <1>6, EmptySeq DEF StaFlush
    <2> QED BY <2>1 DEF SortedInv
  <1>7. CASE RxDirect
    BY <1>7, SortedFrame DEF RxDirect
  <1>8. CASE RxDirectAfter
    BY <1>8, SortedFrame DEF RxDirectAfter
  <1>9. CASE RxIndicated
    <2>1. rx' \in {"idle", "cancel"}
      BY <1>9 DEF RxIndicated
    <2> QED BY <1>9, <2>1, SortedFrame DEF RxIndicated
  <1>10. CASE RxCancel
    BY <1>10, SortedFrame DEF RxCancel
  <1>11. CASE RxBar
    BY <1>11, SortedFrame DEF RxBar
  <1>12. CASE RxCheck
    <2>1. rx = "posthandle" /\ rx' \in {"idle", "enqueue"}
      BY <1>12 DEF RxCheck
    <2> QED BY <1>12, <2>1, SortedFrame DEF RxCheck
  <1>13. CASE RxRelease
    BY <1>4, <1>13 DEF RxRelease
  <1>14. CASE TimerRelease
    BY <1>4, <1>14 DEF TimerRelease
  <1>15. CASE Delba
    BY <1>15, SortedFrame DEF Delba
  <1>16. CASE AddbaReq
    BY <1>16, SortedFrame DEF AddbaReq
  <1>17. CASE AddbaReset
    BY <1>17, SortedFrame DEF AddbaReset
  <1>18. ASSUME NEW accept \in BOOLEAN, AddbaEnable(accept) PROVE SortedInv'
    BY <1>18, SortedFrame DEF AddbaEnable
  <1>19. CASE TimerFire
    BY <1>19, SortedFrame DEF TimerFire
  <1>20. CASE TimerEnter
    BY <1>20, SortedFrame DEF TimerEnter
  <1>21. CASE TimerIndicated
    BY <1>21, SortedFrame DEF TimerIndicated
  <1>22. CASE StaUnhash
    BY <1>22, SortedFrame DEF StaUnhash
  <1>23. CASE StaCancel
    BY <1>23, SortedFrame DEF StaCancel
  <1>24. CASE DriverStop
    BY <1>24, SortedFrame DEF DriverStop
  <1>25. CASE UNCHANGED vars
    BY <1>25, SortedFrame DEF vars
  <1> QED BY <1>1, <1>2, <1>3, <1>6, <1>7, <1>8, <1>9, <1>10, <1>11, <1>12, <1>13,
             <1>14, <1>15, <1>16, <1>17, <1>18, <1>19, <1>20, <1>21, <1>22,
             <1>23, <1>24, <1>25
          DEF Next, RxTasklet, Timer, CmdThread

LEMMA SortedInit == Init => SortedInv
  <1> SUFFICES ASSUME Init PROVE SortedInv
    OBVIOUS
  <1>1. Len(pending) = 0 /\ rx = "idle"
    BY EmptySeq DEF Init
  <1>2. First - 1 <= First + WSize - 1
    BY Sizes
  <1>3. hi <= win + WSize - 1
    BY <1>2 DEF Init
  <1> QED BY <1>1, <1>3 DEF SortedInv

\* A sorted queue that lies within half the number space has no twins.
LEMMA SortedNoTwins ==
  ASSUME TypeInv, SortedInv, Near
  PROVE  NoTwins
  <1> SUFFICES ASSUME NEW i \in 1 .. Len(pending), NEW j \in 1 .. Len(pending),
                      SeqNum(pending[i]) = SeqNum(pending[j])
               PROVE  i = j
    BY DEF NoTwins
  <1>1. /\ pending[i] \in Nat /\ pending[j] \in Nat /\ hi \in Nat /\ Len(pending) \in Nat
        /\ pending[i] <= hi /\ pending[j] <= hi
        /\ 2 * (hi - pending[i]) < SnSize /\ 2 * (hi - pending[j]) < SnSize
    BY Numbers DEF SortedInv, Near
  <1>2. 2 * (pending[i] - pending[j]) < SnSize /\ 2 * (pending[j] - pending[i]) < SnSize
    BY <1>1, Sizes, CloseTogether
  <1>3. pending[i] = pending[j]
    BY <1>1, <1>2, HalfSpace
  <1>4. (i < j => pending[i] < pending[j]) /\ (j < i => pending[j] < pending[i])
    BY DEF SortedInv
  <1> QED BY <1>1, <1>3, <1>4

\* Whatever BlockAckReq, DELBA and ADDBA do to the window, and in whatever
\* order with the timer and the tasklet, no two queued frames have the same
\* sequence number, provided the originator never gets half the sequence
\* number space ahead of a frame that is still queued.
THEOREM NoTwinsWhileNear == Spec /\ []Near => []NoTwins
  <1>1. Init => TypeInv /\ SortedInv
    BY TypeInit, SortedInit
  <1>2. TypeInv /\ SortedInv /\ Near /\ [Next]_vars => (TypeInv /\ SortedInv)'
    BY TypeStep, SortedStep
  <1>3. TypeInv /\ SortedInv /\ Near => NoTwins
    BY SortedNoTwins
  <1> QED BY <1>1, <1>2, <1>3, PTL DEF Spec

-----------------------------------------------------------------------------
(* BlockAckReq within one agreement: the queue stays near.                 *)

\* No DELBA and no new ADDBA; BlockAckReq may overwrite the window start.
NoNewAgreement == Events \cap {"delba", "addba"} = {}

\* The window start, the highest frame and the originator's window, when
\* BlockAckReq may put the window start ahead of the queue.
BarWindow ==
  /\ enable /\ addba = "none" /\ rx # "after"
  /\ ~(Holding /\ tm = "indicate")
  /\ Started => indicate_seq = SeqNum(wstart)
  /\ ~Started => pending = <<>> /\ tm # "indicate" /\ rx \in {"idle", "posthandle"}
  /\ win <= hi + MaxGap + 1
  /\ Started => wstart <= hi + 1 \/ wstart <= win
  /\ Started /\ rx # "posthandle" => hi <= wstart + WSize - 1
  /\ rx = "posthandle" /\ Started =>
       /\ wstart <= cur + WSize
       /\ cur <= wstart + MaxGap + 2 * WSize - 1
       /\ hi <= wstart + WSize - 1 \/ hi = cur
  /\ rx = "enqueue" => wstart <= cur + 1 /\ cur <= wstart + WSize - 1

\* The frame in hand is not queued.
Absent == \A i \in 1 .. Len(pending) : pending[i] # cur

\* The queue lies within the window below the highest frame.
Narrow == \A i \in 1 .. Len(pending) : hi <= pending[i] + WSize - 2

\* The window start is not far ahead of the queue.
Caught == \A i \in 1 .. Len(pending) : wstart < pending[i] + MaxGap + WSize

\* The frame in hand is new, and the highest.
Fresh == rx = "posthandle" /\ Absent /\ hi = cur /\ wstart <= cur

\* Where the queue is.  Each indication loop run by the tasklet leaves it
\* narrow; a new frame widens it until the next loop.
BarQueue ==
  /\ \A i \in 1 .. Len(pending) :
       /\ hi < pending[i] + MaxGap + 2 * WSize
       /\ pending[i] <= wstart + WSize - 1
       /\ wstart <= pending[i] + MaxGap + WSize
  /\ ~Holding => \A i, j \in 1 .. Len(pending) : pending[i] <= pending[j] + WSize - 2
  /\ LockFree => Caught
  /\ ~Holding => Narrow \/ Fresh
  /\ rx = "enqueue" => Absent \/ (Narrow /\ Caught)

BarInv == TypeInv /\ SortedInv /\ BarWindow /\ BarQueue

\* A narrow queue is near.
LEMMA BarNear == BarInv => Near
  <1> SUFFICES ASSUME BarInv, NEW i \in 1 .. Len(pending)
               PROVE  2 * (hi - pending[i]) < SnSize
    BY DEF Near
  <1>1. hi < pending[i] + MaxGap + 2 * WSize /\ pending[i] \in Nat /\ hi \in Nat
    BY Numbers DEF BarInv, BarQueue
  <1>2. hi - pending[i] < Reach /\ hi - pending[i] \in Int
    BY <1>1, Sizes DEF Reach
  <1>3. \A d, r, s \in Int : d < r /\ 2 * r <= s => 2 * d < s
    OBVIOUS
  <1> QED BY <1>2, <1>3, Sizes

LEMMA BarInit == Init => BarWindow /\ BarQueue
  <1> SUFFICES ASSUME Init PROVE BarWindow /\ BarQueue
    OBVIOUS
  <1>1. Len(pending) = 0 /\ pending = <<>> /\ ~Started /\ rx = "idle" /\ tm = "idle"
    BY EmptySeq DEF Init, Started
  <1>2. First <= (First - 1) + MaxGap + 1
    BY Sizes
  <1>3. win <= hi + MaxGap + 1
    BY <1>2 DEF Init
  <1>4. BarWindow
    BY <1>1, <1>3 DEF BarWindow, Init, Holding
  <1> QED BY <1>1, <1>4 DEF BarQueue, Holding, Caught, Narrow

\* The numbers behind the variables, without their definitions.
LEMMA BarNumbers ==
  ASSUME BarInv
  PROVE  /\ BarWindow /\ BarQueue /\ SortedInv
         /\ cur \in Nat /\ win \in Nat /\ hi \in Nat /\ wstart \in Nat
         /\ Len(pending) \in Nat /\ pending \in Seq(Nat)
         /\ \A i \in 1 .. Len(pending) : pending[i] \in Nat /\ pending[i] <= hi
         /\ hi <= win + WSize - 1
         /\ WSize \in Nat /\ WSize >= 1 /\ MaxGap \in Nat
  BY Numbers, Sizes DEF BarInv, SortedInv, TypeInv, TypeOK

\* A step that leaves the window, the queue and the two lock holders alone.
LEMMA BarFrame ==
  ASSUME BarInv, tm' = tm \/ (tm # "indicate" /\ tm' # "indicate"),
         rx' = rx \/ (rx = "cancel" /\ rx' = "idle"),
         UNCHANGED <<enable, indicate_seq, pending, addba, cur, hi, win, wstart>>
  PROVE  (BarWindow /\ BarQueue)'
  <1>1. BarWindow /\ BarQueue /\ (~Started => rx' = rx)
    BY DEF BarInv, BarWindow
  <1>2. /\ (Holding' <=> Holding) /\ (LockFree' <=> LockFree)
        /\ (tm' = "indicate" <=> tm = "indicate") /\ (rx' = "posthandle" <=> rx = "posthandle")
        /\ (rx' = "enqueue" <=> rx = "enqueue") /\ (rx' = "after" <=> rx = "after")
    BY DEF Holding, LockFree
  <1>3. BarWindow'
    BY <1>1, <1>2 DEF BarWindow, Started
  <1>4. (Narrow' <=> Narrow) /\ (Absent' <=> Absent) /\ (Caught' <=> Caught) /\ (Fresh' <=> Fresh)
    BY <1>2 DEF Narrow, Absent, Caught, Fresh
  <1>5. BarQueue'
    BY <1>1, <1>2, <1>4 DEF BarQueue
  <1> QED BY <1>3, <1>5

\* The originator moves on.
LEMMA BarAdvance ==
  ASSUME BarInv, Advance
  PROVE  (BarWindow /\ BarQueue)'
  <1>1. /\ BarWindow /\ BarQueue /\ win' = win + 1 /\ win < hi + MaxGap
        /\ UNCHANGED <<enable, indicate_seq, pending, tm, rx, addba, cur, hi, wstart>>
    BY DEF BarInv, Advance, ctrl
  <1>2. win + 1 <= hi + MaxGap + 1 /\ (wstart <= win => wstart <= win + 1)
    BY <1>1, BarNumbers
  <1>3. BarWindow'
    BY <1>1, <1>2 DEF BarWindow, Started, Holding
  <1>4. BarQueue'
    BY <1>1 DEF BarQueue, LockFree, Holding, Narrow, Absent, Caught, Fresh
  <1> QED BY <1>3, <1>4

\* A frame of the originator's window arrives (validate_recv_data_frame).
LEMMA BarValidate ==
  ASSUME BarInv, NEW n \in win .. win + WSize - 1, RxValidate(n)
  PROVE  (BarWindow /\ BarQueue)'
  <1>1. /\ BarWindow /\ BarQueue /\ SortedInv /\ rx = "idle" /\ n \in Nat
        /\ UNCHANGED <<enable, indicate_seq, pending, tm, addba, win, wstart>>
        /\ \/ UNCHANGED <<rx, cur, hi>>
           \/ rx' = "posthandle" /\ cur' = n /\ hi' = IF n > hi THEN n ELSE hi
    BY BarNumbers DEF RxValidate, ctrl
  <1>2. CASE UNCHANGED <<rx, cur, hi>>
    BY <1>1, <1>2, BarFrame
  <1>3. CASE rx' = "posthandle" /\ cur' = n /\ hi' = IF n > hi THEN n ELSE hi
    <2>1. /\ hi' \in Nat /\ hi <= hi' /\ n <= hi' /\ (hi' = hi \/ (hi' = n /\ hi < n))
          /\ n <= hi + MaxGap + WSize /\ hi' <= hi + MaxGap + WSize
      <3>1. hi \in Nat /\ win \in Nat /\ WSize \in Nat /\ MaxGap \in Nat /\ win <= hi + MaxGap + 1
        BY <1>1, BarNumbers DEF BarWindow
      <3> QED BY <1>1, <1>3, <3>1
    <2>2. ASSUME Started
          PROVE  /\ wstart <= hi' + 1 \/ wstart <= win
                 /\ wstart <= n + WSize
                 /\ n <= wstart + MaxGap + 2 * WSize - 1
                 /\ hi' <= wstart + WSize - 1 \/ hi' = n
                 /\ hi < n => wstart <= n
      <3>1. (wstart <= hi + 1 \/ wstart <= win) /\ hi <= wstart + WSize - 1
        BY <1>1, <2>2 DEF BarWindow
      <3>2. /\ hi \in Nat /\ win \in Nat /\ wstart \in Nat /\ WSize \in Nat /\ MaxGap \in Nat
            /\ hi <= win + WSize - 1
        BY BarNumbers
      <3>3. win <= n /\ n \in Nat /\ hi' \in Nat
        BY <1>1, <2>1, <3>2
      <3>4. wstart <= hi' + 1 \/ wstart <= win
        <4>1. \A h \in Nat : hi <= h /\ wstart <= hi + 1 => wstart <= h + 1
          BY <3>2
        <4>2. hi' \in Nat /\ hi <= hi'
          BY <2>1
        <4> QED BY <3>1, <4>1, <4>2
      <3>5. wstart <= n + WSize /\ (hi < n => wstart <= n)
        BY <3>1, <3>2, <3>3
      <3>6. n <= wstart + MaxGap + 2 * WSize - 1
        BY <2>1, <3>1, <3>2, <3>3
      <3>7. hi' <= wstart + WSize - 1 \/ hi' = n
        BY <2>1, <3>1, <3>2, <3>3
      <3> QED BY <3>4, <3>5, <3>6, <3>7
    <2>3. win <= hi' + MaxGap + 1
      <3>1. /\ win <= hi + MaxGap + 1 /\ hi \in Nat /\ win \in Nat /\ MaxGap \in Nat
        BY <1>1, BarNumbers DEF BarWindow
      <3>2. \A h \in Nat : hi <= h => win <= h + MaxGap + 1
        BY <3>1
      <3> QED BY <2>1, <3>2
    <2>4. BarWindow'
      BY <1>1, <1>3, <2>2, <2>3 DEF BarWindow, Started, Holding
    <2>5. ~Holding /\ Narrow
      BY <1>1 DEF Holding, BarQueue, Fresh
    <2>6. \A i \in 1 .. Len(pending) : hi' < pending[i] + MaxGap + 2 * WSize
      <3>1. /\ hi \in Nat /\ WSize \in Nat /\ MaxGap \in Nat
            /\ \A i \in 1 .. Len(pending) : pending[i] \in Nat
        BY BarNumbers
      <3> QED BY <2>1, <2>5, <3>1 DEF Narrow
    <2>7. Narrow' \/ Fresh'
      <3>1. CASE hi' = hi
        BY <1>1, <2>5, <3>1 DEF Narrow
      <3>2. CASE hi' = n /\ hi < n
        <4>1. \A i \in 1 .. Len(pending) : pending[i] # n
          BY <1>1, <3>2, BarNumbers
        <4>2. CASE pending = <<>>
          BY <1>1, <4>2, EmptySeq DEF Narrow
        <4>3. CASE pending # <<>>
          <5>1. wstart <= n
            BY <1>1, <2>2, <3>2, <4>3 DEF BarWindow
          <5> QED BY <1>1, <1>3, <3>2, <4>1, <5>1 DEF Fresh, Absent
        <4> QED BY <4>2, <4>3
      <3> QED BY <2>1, <3>1, <3>2
    <2>8. BarQueue'
      BY <1>1, <1>3, <2>5, <2>6, <2>7 DEF BarQueue, LockFree, Holding, Caught
    <2> QED BY <2>4, <2>8
  <1> QED BY <1>1, <1>2, <1>3

\* rtw_process_bar_frame puts the window start where the originator is.
LEMMA BarOverwrite ==
  ASSUME BarInv, RxBar
  PROVE  (BarWindow /\ BarQueue)'
  <1>1. /\ BarWindow /\ BarQueue /\ rx = "idle"
        /\ indicate_seq' = SeqNum(win) /\ wstart' = win
        /\ UNCHANGED <<enable, pending, tm, rx, addba, cur, hi, win>>
    BY DEF BarInv, RxBar
  <1>2. SeqNum(win) # Unset /\ win <= win
    BY BarNumbers, SeqNumSet
  <1>3. win <= hi + MaxGap + 1 /\ hi <= win + WSize - 1
    BY <1>1, BarNumbers DEF BarWindow
  <1>4. BarWindow'
    BY <1>1, <1>2, <1>3 DEF BarWindow, Started, Holding
  <1>5. Narrow /\ ~Holding
    BY <1>1 DEF BarQueue, Holding, Fresh
  <1>6. ASSUME NEW i \in 1 .. Len(pending)
        PROVE  pending[i] <= win + WSize - 1 /\ win < pending[i] + MaxGap + WSize
    <2>1. hi <= pending[i] + WSize - 2 /\ pending[i] \in Nat /\ pending[i] <= hi
      BY <1>5, BarNumbers DEF Narrow
    <2>2. hi \in Nat /\ win \in Nat /\ WSize \in Nat /\ WSize >= 1 /\ MaxGap \in Nat
      BY BarNumbers
    <2> QED BY <1>3, <2>1, <2>2
  <1>7. \A i \in 1 .. Len(pending) : win <= pending[i] + MaxGap + WSize
    BY <1>6, BarNumbers
  <1>8. BarQueue'
    BY <1>1, <1>5, <1>6, <1>7 DEF BarQueue, LockFree, Holding, Caught, Narrow
  <1> QED BY <1>4, <1>8

LEMMA BarCheckExact ==
  ASSUME BarInv, rx = "posthandle"
  PROVE  CheckDecides
  <1>1. Started => /\ indicate_seq = SeqNum(wstart)
                   /\ wstart <= cur + WSize /\ cur <= wstart + MaxGap + 2 * WSize - 1
    BY BarNumbers DEF BarWindow
  <1> QED BY <1>1, CheckNumbers DEF BarInv

\* The queue, for the frame on its way into it.
LEMMA BarCheckQueue ==
  ASSUME BarInv, rx = "posthandle", LockFree, rx' = "enqueue",
         UNCHANGED <<pending, tm, cur, hi>>, wstart' \in Nat,
         wstart <= wstart' \/ pending = <<>>,
         wstart' <= hi + 1,
         wstart' <= wstart + 1 \/ wstart' <= cur + 1 - WSize
  PROVE  BarQueue'
  <1>1. /\ \A i \in 1 .. Len(pending) :
             /\ pending[i] \in Nat
             /\ hi < pending[i] + MaxGap + 2 * WSize
             /\ pending[i] <= wstart + WSize - 1
             /\ wstart < pending[i] + MaxGap + WSize
        /\ Narrow \/ Fresh
        /\ hi \in Nat /\ wstart \in Nat /\ cur \in Nat /\ cur <= hi
        /\ WSize \in Nat /\ WSize >= 1 /\ MaxGap \in Nat
    BY BarNumbers DEF BarQueue, Caught, Holding, SortedInv
  <1>2. ASSUME NEW i \in 1 .. Len(pending)
        PROVE  /\ pending[i] <= wstart' + WSize - 1
               /\ wstart' <= pending[i] + MaxGap + WSize
    <2>1. wstart <= wstart'
      BY <1>2, EmptySeq
    <2> QED BY <1>1, <2>1
  <1>3. Absent \/ (Narrow /\ \A i \in 1 .. Len(pending) : wstart' < pending[i] + MaxGap + WSize)
    <2>1. CASE Fresh
      BY <2>1 DEF Fresh
    <2>2. CASE Narrow
      BY <1>1, <2>2 DEF Narrow
    <2> QED BY <1>1, <2>1, <2>2
  <1> QED BY <1>1, <1>2, <1>3 DEF BarQueue, Holding, LockFree, Absent, Narrow, Caught

\* check_indicate_seq.
LEMMA BarCheck ==
  ASSUME BarInv, RxCheck
  PROVE  (BarWindow /\ BarQueue)'
  <1>1. /\ BarWindow /\ BarQueue /\ SortedInv
        /\ rx = "posthandle" /\ LockFree /\ tm # "indicate"
        /\ UNCHANGED <<enable, pending, tm, cur, addba, hi, win>>
    BY BarNumbers DEF RxCheck, LockFree, peer
  <1>2. /\ cur \in Nat /\ win \in Nat /\ hi \in Nat /\ wstart \in Nat
        /\ WSize \in Nat /\ WSize >= 1 /\ MaxGap \in Nat
        /\ cur <= hi /\ hi <= cur + WSize - 1 /\ hi <= win + WSize - 1
    BY <1>1, BarNumbers DEF SortedInv
  <1>3. (SeqNum(cur) + 1) % SnSize = SeqNum(cur + 1)
    BY <1>2, SeqNumAdd
  <1>4. CASE Started /\ cur < wstart
    <2>1. rx' = "idle" /\ indicate_seq' = indicate_seq /\ wstart' = wstart
      BY <1>1, <1>4, BarCheckExact DEF RxCheck, Started, WinStart, CheckDecides
    <2>2. hi <= wstart + WSize - 1
      <3>1. hi <= wstart + WSize - 1 \/ hi = cur
        BY <1>1, <1>4 DEF BarWindow
      <3> QED BY <1>2, <1>4, <3>1
    <2>3. BarWindow'
      BY <1>1, <1>4, <2>1, <2>2 DEF BarWindow, Started, Holding
    <2>4. Narrow
      <3>1. ~Fresh
        BY <1>2, <1>4 DEF Fresh
      <3> QED BY <1>1, <3>1 DEF BarQueue, Holding
    <2>5. BarQueue'
      BY <1>1, <2>1, <2>4 DEF BarQueue, LockFree, Holding, Narrow, Caught
    <2> QED BY <2>3, <2>5
  <1>5. CASE ~Started \/ cur = wstart
    <2>1. rx' = "enqueue" /\ indicate_seq' = SeqNum(cur + 1) /\ wstart' = cur + 1
      <3>1. CASE ~Started
        <4>1. ~Stale(cur) /\ SeqNum(cur) = WinStart(cur)
          BY <1>1, <3>1, BarCheckExact DEF CheckDecides
        <4> QED BY <1>3, <3>1, <4>1 DEF RxCheck, Started
      <3>2. CASE Started
        <4>1. ~Stale(cur) /\ SeqNum(cur) = WinStart(cur) /\ cur = wstart
          BY <1>1, <1>2, <1>5, <3>2, BarCheckExact DEF CheckDecides
        <4> QED BY <1>3, <3>2, <4>1 DEF RxCheck, Started
      <3> QED BY <3>1, <3>2
    <2>2. SeqNum(cur + 1) # Unset
      BY <1>2, SeqNumSet
    <2>3. /\ cur + 1 <= hi + 1 /\ hi <= (cur + 1) + WSize - 1
          /\ cur + 1 <= cur + 1 /\ cur <= (cur + 1) + WSize - 1 /\ cur + 1 \in Nat
      BY <1>2
    <2>4. BarWindow'
      BY <1>1, <2>1, <2>2, <2>3 DEF BarWindow, Started, Holding
    <2>5. /\ wstart <= cur + 1 \/ pending = <<>>
          /\ cur + 1 <= wstart + 1 \/ cur + 1 <= cur + 1 - WSize \/ pending = <<>>
      BY <1>1, <1>2, <1>5 DEF BarWindow
    <2>6. BarQueue'
      <3>1. CASE pending = <<>>
        BY <1>1, <2>1, <3>1, EmptySeq
           DEF BarQueue, LockFree, Holding, Absent, Narrow, Caught
      <3>2. CASE pending # <<>>
        BY <1>1, <2>1, <2>3, <2>5, <3>2, BarCheckQueue
      <3> QED BY <3>1, <3>2
    <2> QED BY <2>4, <2>6
  <1>6. CASE Started /\ wstart + WSize - 1 < cur
    <2>1. /\ rx' = "enqueue" /\ indicate_seq' = SeqNum(cur + 1 - WSize)
          /\ wstart' = cur + 1 - WSize
      <3>1. ~Stale(cur) /\ SeqNum(cur) # WinStart(cur) /\ BeyondWindow(cur)
        <4>1. ~(cur < wstart) /\ cur # wstart
          BY <1>2, <1>6
        <4> QED BY <1>1, <1>6, <4>1, BarCheckExact DEF CheckDecides
      <3>2. ShiftedStart(SeqNum(cur)) = SeqNum(cur + 1 - WSize)
        BY <1>2, ShiftedExact
      <3> QED BY <3>1, <3>2 DEF RxCheck
    <2>2. hi = cur
      <3>1. hi <= wstart + WSize - 1 \/ hi = cur
        BY <1>1, <1>6 DEF BarWindow
      <3> QED BY <1>2, <1>6, <3>1
    <2>3. SeqNum(cur + 1 - WSize) # Unset
      BY <1>2, SeqNumSet
    <2>4. /\ cur + 1 - WSize <= hi + 1 /\ hi <= (cur + 1 - WSize) + WSize - 1
          /\ cur + 1 - WSize <= cur + 1 /\ cur <= (cur + 1 - WSize) + WSize - 1
          /\ wstart <= cur + 1 - WSize /\ cur + 1 - WSize \in Nat
      BY <1>2, <1>6, <2>2
    <2>5. BarWindow'
      BY <1>1, <2>1, <2>3, <2>4 DEF BarWindow, Started, Holding
    <2>6. BarQueue'
      <3>1. cur + 1 - WSize <= cur + 1 - WSize
        BY <2>4
      <3> QED BY <1>1, <2>1, <2>4, <3>1, BarCheckQueue
    <2> QED BY <2>5, <2>6
  <1>7. CASE Started /\ wstart < cur /\ cur <= wstart + WSize - 1
    <2>1. rx' = "enqueue" /\ indicate_seq' = indicate_seq /\ wstart' = wstart
      <3>1. ~Stale(cur) /\ SeqNum(cur) # WinStart(cur) /\ ~BeyondWindow(cur)
        <4>1. ~(cur < wstart) /\ cur # wstart /\ ~(wstart + WSize - 1 < cur)
          BY <1>2, <1>7
        <4> QED BY <1>1, <1>7, <4>1, BarCheckExact DEF CheckDecides
      <3> QED BY <3>1 DEF RxCheck
    <2>2. /\ hi <= wstart + WSize - 1 /\ wstart <= cur + 1 /\ wstart <= hi + 1
          /\ wstart <= wstart + 1 /\ wstart <= wstart
      <3>1. hi <= wstart + WSize - 1 \/ hi = cur
        BY <1>1, <1>7 DEF BarWindow
      <3> QED BY <1>2, <1>7, <3>1
    <2>3. BarWindow'
      BY <1>1, <1>7, <2>1, <2>2 DEF BarWindow, Started, Holding
    <2>4. BarQueue'
      BY <1>1, <1>2, <2>1, <2>2, BarCheckQueue
    <2> QED BY <2>3, <2>4
  <1> QED BY <1>2, <1>4, <1>5, <1>6, <1>7

\* enqueue_reorder_recvframe: a repeated frame changes nothing, and then the
\* queue was narrow already.
LEMMA BarEnqueue ==
  ASSUME BarInv, RxEnqueue
  PROVE  (BarWindow /\ BarQueue)'
  <1>1. /\ BarWindow /\ BarQueue /\ SortedInv
        /\ rx = "enqueue" /\ tm # "indicate" /\ Started
        /\ UNCHANGED <<enable, indicate_seq, tm, cur, addba, hi, win, wstart>>
    BY BarNumbers DEF RxEnqueue, BarWindow, Holding, peer
  <1>2. /\ cur \in Nat /\ hi \in Nat /\ wstart \in Nat
        /\ WSize \in Nat /\ WSize >= 1 /\ MaxGap \in Nat
        /\ cur <= hi /\ hi <= cur + WSize - 1
        /\ wstart <= cur + 1 /\ cur <= wstart + WSize - 1
        /\ pending \in Seq(Nat) /\ Len(pending) \in Nat
        /\ \A i \in 1 .. Len(pending) : pending[i] \in Nat /\ pending[i] <= hi
    BY <1>1, BarNumbers DEF SortedInv, BarWindow
  <1>3. PICK i \in 1 .. Len(pending) + 1 :
          IF i <= Len(pending) /\ SeqNum(pending[i]) = SeqNum(cur)
            THEN rx' = "idle" /\ UNCHANGED pending
            ELSE rx' = "indicate" /\ pending' = Inserted(pending, i, cur)
    BY DEF RxEnqueue
  <1>4. CASE i <= Len(pending) /\ SeqNum(pending[i]) = SeqNum(cur)
    <2>1. rx' = "idle" /\ UNCHANGED pending /\ i \in 1 .. Len(pending)
      BY <1>2, <1>3, <1>4
    <2>2. pending[i] = cur
      <3>1. /\ hi < pending[i] + MaxGap + 2 * WSize /\ pending[i] <= hi /\ pending[i] \in Nat
        BY <1>1, <1>2, <2>1 DEF BarQueue
      <3>2. -Reach <= pending[i] - cur /\ pending[i] - cur <= Reach
        <4>1. Reach = MaxGap + 2 * WSize /\ 2 * WSize \in Nat
          BY <1>2 DEF Reach
        <4>2. /\ cur \in Nat /\ hi \in Nat /\ WSize \in Nat /\ WSize >= 1 /\ MaxGap \in Nat
              /\ cur <= hi /\ hi <= cur + WSize - 1
          BY <1>2
        <4>3. \A p \in Nat : hi < p + MaxGap + 2 * WSize /\ p <= hi =>
                -(MaxGap + 2 * WSize) <= p - cur /\ p - cur <= MaxGap + 2 * WSize
          BY <4>2
        <4> QED BY <3>1, <4>1, <4>3
      <3>3. pending[i] \in Int /\ cur \in Int
        BY <1>2, <3>1
      <3> QED BY <1>4, <3>2, <3>3, SnEqualExact
    <2>3. Narrow /\ Caught
      BY <1>1, <2>1, <2>2 DEF BarQueue, Absent
    <2>4. \A j, k \in 1 .. Len(pending) : pending[j] <= pending[k] + WSize - 2
      BY <1>2, <2>3 DEF Narrow
    <2>5. BarWindow'
      BY <1>1, <2>1 DEF BarWindow, Started, Holding
    <2>6. BarQueue'
      BY <1>1, <2>1, <2>3, <2>4 DEF BarQueue, LockFree, Holding, Narrow, Caught
    <2> QED BY <2>5, <2>6
  <1>5. CASE ~(i <= Len(pending) /\ SeqNum(pending[i]) = SeqNum(cur))
    <2>1. rx' = "indicate" /\ IsInsertion(pending', pending, i, cur)
      BY <1>2, <1>3, <1>5, InsertedSeq
    <2>2. \A j \in 1 .. Len(pending') :
            pending'[j] = cur \/ \E k \in 1 .. Len(pending) : pending'[j] = pending[k]
      <3>1. ASSUME NEW j \in 1 .. Len(pending) + 1
            PROVE  pending'[j] = cur \/ \E k \in 1 .. Len(pending) : pending'[j] = pending[k]
        <4>1. pending'[j] = IF j < i THEN pending[j]
                            ELSE IF j = i THEN cur ELSE pending[j - 1]
          BY <2>1 DEF IsInsertion
        <4>2. CASE j < i
          BY <1>2, <4>1, <4>2
        <4>3. CASE j > i
          <5>1. j - 1 \in 1 .. Len(pending) /\ pending'[j] = pending[j - 1]
            BY <1>2, <4>1, <4>3
          <5> QED BY <5>1
        <4> QED BY <4>1, <4>2, <4>3
      <3> QED BY <2>1, <3>1 DEF IsInsertion
    <2>3. \A j \in 1 .. Len(pending') :
            /\ hi < pending'[j] + MaxGap + 2 * WSize
            /\ pending'[j] <= wstart + WSize - 1
            /\ wstart <= pending'[j] + MaxGap + WSize
      <3>1. /\ hi < cur + MaxGap + 2 * WSize /\ cur <= wstart + WSize - 1
            /\ wstart <= cur + MaxGap + WSize
        BY <1>2
      <3> QED BY <1>1, <2>2, <3>1 DEF BarQueue
    <2>4. BarWindow'
      BY <1>1, <2>1 DEF BarWindow, Started, Holding
    <2>5. BarQueue'
      BY <1>1, <2>1, <2>3 DEF BarQueue, LockFree, Holding
    <2> QED BY <2>4, <2>5
  <1> QED BY <1>4, <1>5

\* The head of the queue, compared with the window start.
LEMMA BarHead ==
  ASSUME BarInv, Started, pending # <<>>
  PROVE  /\ Head(pending) = pending[1] /\ 1 \in 1 .. Len(pending)
         /\ Releasable <=> (pending[1] <= wstart)
         /\ (indicate_seq = SeqNum(pending[1])) <=> (wstart = pending[1])
  <1>1. /\ Head(pending) = pending[1] /\ 1 \in 1 .. Len(pending)
        /\ indicate_seq = SeqNum(wstart)
    BY BarNumbers, TailEntries DEF BarWindow
  <1>2. /\ pending[1] <= wstart + WSize - 1 /\ wstart <= pending[1] + MaxGap + WSize
        /\ pending[1] \in Nat /\ wstart \in Nat
        /\ WSize \in Nat /\ WSize >= 1 /\ MaxGap \in Nat
    BY <1>1, BarNumbers DEF BarQueue
  <1>3. -Reach <= wstart - pending[1] /\ wstart - pending[1] <= Reach
    BY <1>2 DEF Reach
  <1>4. indicate_seq = SeqNum(pending[1]) <=> wstart = pending[1]
    BY <1>1, <1>2, <1>3, SnEqualExact
  <1>5. SnLess(indicate_seq, SeqNum(pending[1])) <=> wstart < pending[1]
    <2>1. wstart - pending[1] < Reach
      BY <1>2 DEF Reach
    <2> QED BY <1>1, <1>2, <1>3, <2>1, SnLessExact
  <1> QED BY <1>1, <1>2, <1>4, <1>5 DEF Releasable

\* One turn of the loop (recv_indicatepkts_in_order).
LEMMA BarRelease ==
  ASSUME BarInv, rx = "indicate" \/ tm = "indicate", rx # "enqueue", Release,
         UNCHANGED <<enable, addba, tm, rx, cur, hi, win>>
  PROVE  (BarWindow /\ BarQueue)'
  <1> DEFINE h == pending[1]
  <1>1. BarWindow /\ BarQueue /\ SortedInv /\ pending # <<>> /\ Started
    BY BarNumbers DEF Release, Releasable, BarWindow
  <1>2. /\ h = Head(pending) /\ 1 \in 1 .. Len(pending) /\ h <= wstart
        /\ (indicate_seq = SeqNum(h)) <=> (wstart = h)
        /\ indicate_seq = SeqNum(wstart)
    BY <1>1, BarHead DEF Release, BarWindow
  <1>3. /\ cur \in Nat /\ win \in Nat /\ hi \in Nat /\ wstart \in Nat /\ h \in Nat /\ h <= hi
        /\ WSize \in Nat /\ WSize >= 1 /\ MaxGap \in Nat
        /\ \A j \in 1 .. Len(pending) : pending[j] \in Nat /\ pending[j] <= hi
    BY <1>2, BarNumbers
  <1>4. /\ \A j \in 1 .. Len(pending') : \E k \in 1 .. Len(pending) :
             pending'[j] = pending[k] /\ h < pending[k]
    <2>1. ASSUME NEW j \in 1 .. Len(pending')
          PROVE  \E k \in 1 .. Len(pending) : pending'[j] = pending[k] /\ h < pending[k]
      <3>1. /\ j + 1 \in 1 .. Len(pending) /\ 1 < j + 1
            /\ pending'[j] = pending[j + 1]
        BY <1>1, <2>1, BarNumbers, TailEntries DEF Release
      <3> QED BY <1>1, <1>2, <3>1 DEF SortedInv
    <2> QED BY <2>1
  <1>5. /\ wstart' \in Nat /\ indicate_seq' = SeqNum(wstart')
        /\ \/ wstart' = wstart
           \/ wstart' = wstart + 1 /\ wstart = h
    <2>1. (SeqNum(wstart) + 1) % SnSize = SeqNum(wstart + 1)
      BY <1>3, SeqNumAdd
    <2> QED BY <1>2, <1>3, <2>1 DEF Release
  <1>6. BarWindow'
    <2>1. Started'
      BY <1>5, SeqNumSet DEF Started
    <2>2. /\ wstart <= hi + 1 \/ wstart <= win
          /\ rx # "posthandle" => hi <= wstart + WSize - 1
          /\ rx = "posthandle" => /\ wstart <= cur + WSize
                                  /\ cur <= wstart + MaxGap + 2 * WSize - 1
                                  /\ hi <= wstart + WSize - 1 \/ hi = cur
          /\ rx = "posthandle" => hi <= cur + WSize - 1
      BY <1>1 DEF BarWindow, SortedInv
    <2>3. CASE wstart' = wstart
      BY <1>1, <1>5, <2>1, <2>3 DEF BarWindow, Holding
    <2>4. CASE wstart' = wstart + 1 /\ wstart = h
      <3>1. /\ wstart + 1 <= hi + 1
            /\ rx # "posthandle" => hi <= (wstart + 1) + WSize - 1
            /\ rx = "posthandle" => /\ wstart + 1 <= cur + WSize
                                    /\ cur <= (wstart + 1) + MaxGap + 2 * WSize - 1
                                    /\ hi <= (wstart + 1) + WSize - 1 \/ hi = cur
        <4>1. /\ wstart \in Nat /\ hi \in Nat /\ cur \in Nat /\ WSize \in Nat /\ MaxGap \in Nat
              /\ wstart <= hi
          BY <1>3, <2>4
        <4>2. ASSUME rx = "posthandle"
              PROVE  /\ wstart + 1 <= cur + WSize
                     /\ cur <= (wstart + 1) + MaxGap + 2 * WSize - 1
                     /\ hi <= (wstart + 1) + WSize - 1 \/ hi = cur
          <5>1. /\ hi <= cur + WSize - 1
                /\ cur <= wstart + MaxGap + 2 * WSize - 1
                /\ hi <= wstart + WSize - 1 \/ hi = cur
            BY <2>2, <4>2
          <5> QED BY <4>1, <5>1
        <4>3. ASSUME rx # "posthandle" PROVE hi <= (wstart + 1) + WSize - 1
          <5>1. hi <= wstart + WSize - 1
            BY <2>2, <4>3
          <5> QED BY <4>1, <5>1
        <4>4. wstart + 1 <= hi + 1
          BY <4>1
        <4> QED BY <4>2, <4>3, <4>4
      <3> HIDE DEF h
      <3> QED BY <1>1, <1>5, <2>1, <2>4, <3>1 DEF BarWindow, Holding
    <2> QED BY <1>5, <2>3, <2>4
  <1>7. ASSUME NEW j \in 1 .. Len(pending')
        PROVE  /\ hi < pending'[j] + MaxGap + 2 * WSize
               /\ pending'[j] <= wstart' + WSize - 1
               /\ wstart' <= pending'[j] + MaxGap + WSize
    <2>1. PICK k \in 1 .. Len(pending) : pending'[j] = pending[k] /\ h < pending[k]
      BY <1>4, <1>7
    <2>2. /\ hi < pending[k] + MaxGap + 2 * WSize
          /\ pending[k] <= wstart + WSize - 1
          /\ wstart <= pending[k] + MaxGap + WSize
          /\ pending[k] \in Nat
      BY <1>1, <1>3 DEF BarQueue
    <2>3. \A w \in Nat : w = wstart \/ (w = wstart + 1 /\ wstart = h) =>
            pending[k] <= w + WSize - 1 /\ w <= pending[k] + MaxGap + WSize
      BY <1>3, <2>1, <2>2
    <2> HIDE DEF h
    <2> QED BY <1>5, <2>1, <2>2, <2>3
  <1>8. ~Holding => \A i, j \in 1 .. Len(pending') : pending'[i] <= pending'[j] + WSize - 2
    <2> HIDE DEF h
    <2> QED BY <1>1, <1>4 DEF BarQueue
  <1>9. Narrow => Narrow'
    <2> HIDE DEF h
    <2> QED BY <1>4 DEF Narrow
  <1>10. Fresh => Fresh'
    <2>1. SUFFICES ASSUME Fresh PROVE Fresh'
      OBVIOUS
    <2>2. h # cur /\ hi = cur /\ wstart <= cur /\ rx = "posthandle"
      BY <1>2, <2>1 DEF Fresh, Absent
    <2>3. \A w \in Nat : w = wstart \/ (w = wstart + 1 /\ wstart = h) => w <= cur
      BY <1>3, <2>2
    <2>4. wstart' <= cur
      BY <1>5, <2>3
    <2>5. \A j \in 1 .. Len(pending') : pending'[j] # cur
      <3> HIDE DEF h
      <3> QED BY <1>4, <2>1 DEF Fresh, Absent
    <2> QED BY <2>2, <2>4, <2>5 DEF Fresh, Absent
  <1> HIDE DEF h
  <1>11. BarQueue'
    <2>1. ~LockFree' /\ (Holding' <=> Holding) /\ rx' # "enqueue"
      BY DEF LockFree, Holding
    <2>2. ~Holding => Narrow' \/ Fresh'
      BY <1>1, <1>9, <1>10 DEF BarQueue
    <2> QED BY <1>7, <1>8, <2>1, <2>2 DEF BarQueue
  <1> QED BY <1>6, <1>11

\* Where the loop stops, every frame left is beyond the window start.
LEMMA BarLoopEnd ==
  ASSUME BarInv, ~Releasable,
         \/ rx = "indicate" /\ rx' \in {"idle", "cancel"} /\ UNCHANGED tm
         \/ tm = "indicate" /\ tm' = "idle" /\ UNCHANGED rx,
         UNCHANGED <<enable, indicate_seq, pending, addba, cur, hi, win, wstart>>
  PROVE  (BarWindow /\ BarQueue)'
  <1>1. /\ BarWindow /\ BarQueue /\ SortedInv /\ Started
        /\ rx # "enqueue" /\ rx' # "enqueue" /\ rx' # "after" /\ tm' # "indicate"
    BY BarNumbers DEF BarWindow, Holding
  <1>2. /\ hi \in Nat /\ wstart \in Nat /\ WSize \in Nat /\ WSize >= 1 /\ MaxGap \in Nat
        /\ Len(pending) \in Nat
        /\ \A j \in 1 .. Len(pending) : pending[j] \in Nat /\ pending[j] <= hi
    BY BarNumbers
  <1>3. ASSUME NEW i \in 1 .. Len(pending) PROVE wstart < pending[i]
    <2>1. pending # <<>>
      BY <1>3, EmptySeq
    <2>2. 1 \in 1 .. Len(pending) /\ ~(pending[1] <= wstart)
      BY <1>1, <2>1, BarHead
    <2>3. 1 < i => pending[1] < pending[i]
      BY <1>1, <2>2 DEF SortedInv
    <2> QED BY <1>2, <1>3, <2>2, <2>3
  <1>4. \A i \in 1 .. Len(pending) : wstart < pending[i] + MaxGap + WSize
    BY <1>2, <1>3
  <1>5. BarWindow'
    BY <1>1 DEF BarWindow, Started, Holding
  <1>6. CASE rx = "indicate" /\ rx' \in {"idle", "cancel"} /\ UNCHANGED tm
    <2>1. hi <= wstart + WSize - 1
      BY <1>1, <1>6 DEF BarWindow
    <2>2. \A i \in 1 .. Len(pending) : hi <= pending[i] + WSize - 2
      BY <1>2, <1>3, <2>1
    <2>3. \A i, j \in 1 .. Len(pending) : pending[i] <= pending[j] + WSize - 2
      BY <1>2, <2>2
    <2>4. Narrow' /\ Caught'
      BY <1>4, <2>2 DEF Narrow, Caught
    <2>5. BarQueue'
      BY <1>1, <2>3, <2>4 DEF BarQueue
    <2> QED BY <1>5, <2>5
  <1>7. CASE tm = "indicate" /\ tm' = "idle" /\ UNCHANGED rx
    <2>1. ~Holding /\ ~Holding' /\ Caught'
      BY <1>1, <1>4, <1>7 DEF BarWindow, Holding, Caught
    <2>2. (Narrow' <=> Narrow) /\ (Fresh' <=> Fresh)
      BY <1>7 DEF Narrow, Fresh, Absent
    <2>3. BarQueue'
      BY <1>1, <2>1, <2>2 DEF BarQueue
    <2> QED BY <1>5, <2>3
  <1> QED BY <1>6, <1>7

\* A forced release moves the window start to the oldest frame, forward or
\* back (rtw_reordering_ctrl_timeout_handler).
LEMMA BarTimerEnter ==
  ASSUME BarInv, TimerEnter
  PROVE  (BarWindow /\ BarQueue)'
  <1>1. /\ BarWindow /\ BarQueue /\ SortedInv /\ LockFree /\ ~Holding
        /\ UNCHANGED <<enable, pending, rx, cur, addba, hi, win>>
        /\ tm = "fired" /\ tm' \in {"idle", "indicate"}
    BY BarNumbers DEF TimerEnter, LockFree, Holding, peer
  <1>2. CASE pending = <<>>
    <2>1. tm' = "idle" /\ UNCHANGED <<indicate_seq, wstart>>
      BY <1>2 DEF TimerEnter
    <2> QED BY <1>1, <2>1, BarFrame
  <1>3. CASE pending # <<>>
    <2> DEFINE h == pending[1]
    <2>1. /\ 1 \in 1 .. Len(pending) /\ tm' = "indicate"
          /\ indicate_seq' = SeqNum(h) /\ wstart' = h
      BY <1>3, BarNumbers, TailEntries DEF TimerEnter
    <2>2. /\ cur \in Nat /\ hi \in Nat /\ h \in Nat /\ h <= hi
          /\ WSize \in Nat /\ WSize >= 1 /\ MaxGap \in Nat
          /\ \A j \in 1 .. Len(pending) : pending[j] \in Nat
      BY <2>1, BarNumbers
    <2>3. \A j \in 1 .. Len(pending) : h <= pending[j] /\ pending[j] <= h + WSize - 2
      <3>1. \A j \in 1 .. Len(pending) : 1 < j => h < pending[j]
        BY <1>1, <2>1 DEF SortedInv
      <3>2. \A j \in 1 .. Len(pending) : pending[j] <= h + WSize - 2
        BY <1>1, <2>1 DEF BarQueue
      <3> HIDE DEF h
      <3>3. ASSUME NEW j \in 1 .. Len(pending) PROVE h <= pending[j]
        <4>1. CASE j = 1
          BY <2>2, <4>1 DEF h
        <4>2. CASE 1 < j
          BY <2>2, <3>1, <4>2
        <4> QED BY <4>1, <4>2
      <3> QED BY <3>2, <3>3
    <2>4. hi < h + MaxGap + 2 * WSize /\ (hi <= h + WSize - 2 \/ Fresh)
      BY <1>1, <2>1 DEF BarQueue, Narrow
    <2>5. Started /\ SeqNum(h) # Unset
      BY <1>1, <1>3, <2>2, SeqNumSet DEF BarWindow
    <2>6. Fresh => rx = "posthandle" /\ hi = cur /\ h <= cur
      BY <2>2 DEF Fresh
    <2>7. BarWindow'
      <3>1. ASSUME rx # "posthandle" PROVE hi <= h + WSize - 1
        BY <2>2, <2>4, <2>6, <3>1
      <3>2. ASSUME rx = "posthandle"
            PROVE  /\ h <= cur + WSize
                   /\ cur <= h + MaxGap + 2 * WSize - 1
                   /\ hi <= h + WSize - 1 \/ hi = cur
        <4>1. cur <= hi /\ hi <= cur + WSize - 1
          BY <1>1, <3>2 DEF SortedInv
        <4> QED BY <2>2, <2>4, <2>6, <4>1
      <3>3. h <= hi + 1
        BY <2>2
      <3> HIDE DEF h
      <3> QED BY <1>1, <2>1, <2>5, <3>1, <3>2, <3>3 DEF BarWindow, Started, Holding
    <2>8. BarQueue'
      <3>1. \A j \in 1 .. Len(pending) : /\ pending[j] <= h + WSize - 1
                                         /\ h <= pending[j] + MaxGap + WSize
        BY <2>2, <2>3
      <3>2. Narrow' <=> Narrow
        BY <1>1 DEF Narrow
      <3>3. Fresh => Fresh'
        BY <1>1, <2>1, <2>6 DEF Fresh, Absent
      <3>4. ~LockFree' /\ ~Holding' /\ rx' # "enqueue"
        BY <1>1, <2>1 DEF LockFree, Holding
      <3> HIDE DEF h
      <3> QED BY <1>1, <2>1, <3>1, <3>2, <3>3, <3>4 DEF BarQueue
    <2> QED BY <2>7, <2>8
  <1> QED BY <1>2, <1>3

\* rtw_free_stainfo empties the queue under its lock.
LEMMA BarFlush ==
  ASSUME BarInv, StaFlush
  PROVE  (BarWindow /\ BarQueue)'
  <1>1. /\ BarWindow /\ BarQueue /\ pending' = <<>> /\ Len(pending') = 0
        /\ UNCHANGED <<enable, indicate_seq, tm, rx, addba, cur, hi, win, wstart>>
    BY EmptySeq DEF BarInv, StaFlush, peer
  <1>2. BarWindow'
    BY <1>1 DEF BarWindow, Started, Holding
  <1>3. BarQueue'
    BY <1>1 DEF BarQueue, Absent, Narrow, Caught
  <1> QED BY <1>2, <1>3

LEMMA BarStep ==
  ASSUME NoNewAgreement, BarInv, [Next]_vars
  PROVE  BarInv'
  <1>0. /\ enable /\ addba = "none" /\ rx # "after"
        /\ ~(Holding /\ tm = "indicate")
    BY DEF BarInv, BarWindow
  <1>00. (TypeInv /\ SortedInv)'
    BY BarNear, TypeStep, SortedStep DEF BarInv
  <1> SUFFICES (BarWindow /\ BarQueue)'
    BY <1>00 DEF BarInv
  <1> USE DEF ctrl, peer
  <1>1. CASE Advance
    BY <1>1, BarAdvance
  <1>2. ASSUME NEW n \in win .. win + WSize - 1, RxValidate(n)
        PROVE  (BarWindow /\ BarQueue)'
    BY <1>2, BarValidate
  <1>3. CASE RxDirect \/ RxDirectAfter
    BY <1>0, <1>3 DEF RxDirect, RxDirectAfter
  <1>4. CASE RxCheck
    BY <1>4, BarCheck
  <1>5. CASE RxEnqueue
    BY <1>5, BarEnqueue
  <1>6. CASE RxRelease
    BY <1>6, BarRelease DEF RxRelease
  <1>7. CASE RxIndicated
    <2>1. rx' \in {"idle", "cancel"}
      BY <1>7 DEF RxIndicated
    <2> QED BY <1>7, <2>1, BarLoopEnd DEF RxIndicated
  <1>8. CASE RxCancel
    BY <1>8, BarFrame DEF RxCancel
  <1>9. CASE RxBar
    BY <1>9, BarOverwrite
  <1>10. CASE Delba \/ AddbaReq
    BY <1>10 DEF Delba, AddbaReq, NoNewAgreement
  <1>11. CASE CmdThread
    BY <1>0, <1>11 DEF CmdThread, AddbaReset, AddbaEnable
  <1>12. CASE TimerFire
    <2>1. tm # "indicate" /\ tm' # "indicate"
      BY <1>12 DEF TimerFire
    <2> QED BY <1>12, <2>1, BarFrame DEF TimerFire
  <1>13. CASE TimerEnter
    BY <1>13, BarTimerEnter
  <1>14. CASE TimerRelease
    <2>1. rx # "enqueue"
      BY <1>0, <1>14 DEF TimerRelease, Holding
    <2> QED BY <1>14, <2>1, BarRelease DEF TimerRelease
  <1>15. CASE TimerIndicated
    BY <1>15, BarLoopEnd DEF TimerIndicated
  <1>16. CASE StaUnhash
    BY <1>16, BarFrame DEF StaUnhash
  <1>17. CASE StaCancel
    BY <1>17, BarFrame DEF StaCancel
  <1>18. CASE StaFlush
    BY <1>18, BarFlush
  <1>19. CASE DriverStop
    BY <1>19, BarFrame DEF DriverStop
  <1>20. CASE UNCHANGED vars
    BY <1>20, BarFrame DEF vars
  <1> QED BY <1>1, <1>2, <1>3, <1>4, <1>5, <1>6, <1>7, <1>8, <1>9, <1>10, <1>11,
             <1>12, <1>13, <1>14, <1>15, <1>16, <1>17, <1>18, <1>19, <1>20
          DEF Next, RxTasklet, Timer

\* BlockAckReq alone, which overwrites the window start at any moment the
\* tasklet is free, cannot make twins: until the agreement is changed the
\* queue stays within reach of the originator (rtw_process_bar_frame).
THEOREM NoTwinsUnderBar ==
  ASSUME NoNewAgreement
  PROVE  Spec => []NoTwins
  <1>1. Init => BarInv
    BY TypeInit, SortedInit, BarInit DEF BarInv
  <1>2. BarInv /\ [Next]_vars => BarInv'
    BY BarStep
  <1>3. BarInv => NoTwins
    BY BarNear, SortedNoTwins DEF BarInv
  <1> QED BY <1>1, <1>2, <1>3, PTL DEF Spec

=============================================================================
