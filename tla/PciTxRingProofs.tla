-------------------------- MODULE PciTxRingProofs --------------------------
(***************************************************************************)
(* Proofs about PciTxRing, for any number of rings, flows, buffers and     *)
(* contexts and any ring size, for frames that are not fragmented.         *)
(***************************************************************************)
EXTENDS PciTxRing, ModularArithmetic, SequenceTheorems, FiniteSetTheorems, FunctionTheorems,
        TLAPS

-----------------------------------------------------------------------------
(* The inductive invariant, in parts.                                      *)

\* Where a context has a buffer in its hands.
Holding == {"dequeue", "coalesce", "dump"}

Slot(q) == 1 .. Len(list[q])

\* A context has a buffer exactly where the code holds one, nobody else has
\* it, and a frame goes to the ring in one piece.
HandInv ==
  /\ \A c \in Context : pc[c] \in Holding <=> buf[c] # NoBuf
  /\ \A c \in Context : pc[c] = "dump" => frags[c] = 1

OwnInv ==
  /\ \A c \in Context : buf[c] \notin free
  /\ \A c, d \in Context : buf[c] = buf[d] /\ buf[c] # NoBuf => c = d

HoldInv == HandInv /\ OwnInv

\* A buffer on a ring is there once, and neither free nor with a context.
QueueInv ==
  /\ \A q \in Ring : \A i \in Slot(q) : list[q][i] \notin free
  /\ \A q \in Ring : \A i \in Slot(q) : \A c \in Context : list[q][i] # buf[c]
  /\ \A q, r \in Ring : \A i \in Slot(q) : \A j \in Slot(r) :
       list[q][i] = list[r][j] => q = r /\ i = j

\* No buffer is lost.
KeptInv ==
  \A b \in Buf : \/ b \in free
                 \/ \E q \in Ring : \E i \in Slot(q) : list[q][i] = b
                 \/ \E c \in Context : buf[c] = b

-----------------------------------------------------------------------------
(* Ring indices and lists.                                                 *)

LEMMA IndexInRange ==
  ASSUME NEW a \in Nat
  PROVE  a % Entries \in 0 .. Entries - 1
  BY RingAssumption, ModSplit

\* What rtl8821ce_enqueue_xmitbuf does to the lists of a frame in one piece ...
IsQueued(q, b) ==
  /\ list' \in [Ring -> Seq(Buf)]
  /\ \A r \in Ring : r # q => list'[r] = list[r]
  /\ Len(list[q]) \in Nat /\ Len(list'[q]) = Len(list[q]) + 1
  /\ \A i \in 1 .. Len(list[q]) : list'[q][i] = list[q][i]
  /\ list'[q][Len(list[q]) + 1] = b

\* ... and rtl8821ce_dequeue_xmitbuf to a list that is not empty.
IsDequeued(q) ==
  /\ list' \in [Ring -> Seq(Buf)]
  /\ \A r \in Ring : r # q => list'[r] = list[r]
  /\ Len(list[q]) \in Nat \ {0} /\ Len(list'[q]) = Len(list[q]) - 1
  /\ \A i \in 1 .. Len(list[q]) - 1 : list'[q][i] = list[q][i + 1]
  /\ free' = free \cup {list[q][1]} /\ list[q][1] \in Buf

\* A context's buffer is on no ring: taking it off changes nothing.
LEMMA NothingToUnlink ==
  ASSUME TypeOK, QueueInv, NEW c \in Context
  PROVE  \A r \in Ring : Unlink(list[r], buf[c]) = list[r]
  <1> TAKE r \in Ring
  <1>1. list[r] \in Seq(Buf) /\ DOMAIN list[r] = 1 .. Len(list[r])
    BY DEF TypeOK, RingTypeOK
  <1>2. ~ \E i \in DOMAIN list[r] : list[r][i] = buf[c]
    BY <1>1 DEF QueueInv, Slot
  <1> QED BY <1>2 DEF Unlink

LEMMA DropKeepsLists ==
  ASSUME TypeOK, QueueInv, NEW c \in Context, DumpNoTxbd(c)
  PROVE  list' = list
  <1>1. list' = [r \in Ring |-> list[r]]
    BY NothingToUnlink DEF DumpNoTxbd
  <1>2. list \in [Ring -> Seq(Buf)]
    BY DEF TypeOK, RingTypeOK
  <1> QED BY <1>1, <1>2

LEMMA DumpQueues ==
  ASSUME TypeOK, HoldInv, QueueInv, NEW c \in Context, DumpXframe(c)
  PROVE  /\ RingFor(flow[c]) \in Ring /\ buf[c] \in Buf
         /\ IsQueued(RingFor(flow[c]), buf[c])
         /\ free' = free /\ FrameDone(c)
  <1> DEFINE q == RingFor(flow[c])
             b == buf[c]
  <1>1. q \in Ring
    BY RingAssumption DEF TypeOK, RingTypeOK, ContextTypeOK, RingFor
  <1>2. b \in Buf /\ b \notin free /\ frags[c] = 1
    BY DEF TypeOK, RingTypeOK, ContextTypeOK, HoldInv, HandInv, OwnInv, Holding, DumpXframe
  <1>3. \A r \in Ring : Unlink(list[r], b) = list[r]
    BY NothingToUnlink
  <1>4. list' = [r \in Ring |-> IF r = q THEN Append(list[r], b) ELSE list[r]]
    BY <1>3 DEF DumpXframe
  <1>5. list[q] \in Seq(Buf) /\ list \in [Ring -> Seq(Buf)]
    BY <1>1 DEF TypeOK, RingTypeOK, ContextTypeOK
  <1>6. /\ Append(list[q], b) \in Seq(Buf) /\ Len(list[q]) \in Nat
        /\ Len(Append(list[q], b)) = Len(list[q]) + 1
        /\ \A i \in 1 .. Len(list[q]) : Append(list[q], b)[i] = list[q][i]
        /\ Append(list[q], b)[Len(list[q]) + 1] = b
    BY <1>2, <1>5, AppendProperties, LenProperties
  <1>7. list'[q] = Append(list[q], b) /\ \A r \in Ring : r # q => list'[r] = list[r]
    BY <1>1, <1>4
  <1>8. list' \in [Ring -> Seq(Buf)]
    BY <1>4, <1>5, <1>6
  <1>9. IsQueued(q, b)
    BY <1>6, <1>7, <1>8 DEF IsQueued
  <1>10. free' = free
    BY <1>2 DEF DumpXframe
  <1>11. FrameDone(c)
    BY <1>2 DEF DumpXframe
  <1> QED BY <1>1, <1>2, <1>9, <1>10, <1>11

LEMMA ReclaimDequeues ==
  ASSUME TypeOK, NEW q \in Ring, QlenExact, IsrReclaim(q)
  PROVE  IsDequeued(q) /\ qlen' = [qlen EXCEPT ![q] = @ - 1] /\ qlen[q] \in Nat \ {0}
  <1>1. list[q] \in Seq(Buf) /\ Len(list[q]) \in Nat /\ list \in [Ring -> Seq(Buf)]
    BY DEF TypeOK, RingTypeOK, ContextTypeOK
  <1>2. Len(list[q]) # 0 /\ qlen[q] \in Nat \ {0}
    BY <1>1 DEF TypeOK, RingTypeOK, ContextTypeOK, IsrReclaim, QlenExact
  <1>3. list[q] # <<>>
    BY <1>2
  <1>4. /\ Tail(list[q]) \in Seq(Buf) /\ Len(Tail(list[q])) = Len(list[q]) - 1
        /\ Head(list[q]) = list[q][1] /\ list[q][1] \in Buf
        /\ \A i \in 1 .. Len(list[q]) - 1 : Tail(list[q])[i] = list[q][i + 1]
    BY <1>1, <1>2, <1>3, HeadTailProperties
  <1>5. /\ list' = [list EXCEPT ![q] = Tail(list[q])]
        /\ qlen' = [qlen EXCEPT ![q] = @ - 1]
        /\ free' = free \cup {Head(list[q])}
    BY <1>3 DEF IsrReclaim, ReclaimHead
  <1>6. /\ list'[q] = Tail(list[q]) /\ list' \in [Ring -> Seq(Buf)]
        /\ \A r \in Ring : r # q => list'[r] = list[r]
    BY <1>1, <1>4, <1>5
  <1> QED BY <1>1, <1>2, <1>4, <1>5, <1>6 DEF IsDequeued


\* The parts of the state that rtl8821ce_reset_bd sets.
TypeOKReset ==
  /\ idx' \in [Ring -> 0 .. Entries - 1] /\ qlen' \in [Ring -> Nat]
  /\ list' \in [Ring -> Seq(Buf)] /\ cache' = cache
  /\ free' \subseteq Buf

LEMMA ResetTypes ==
  ASSUME TypeOK, QlenExact, ResetBd
  PROVE  TypeOKReset
  <1>1. idx' \in [Ring -> 0 .. Entries - 1] /\ cache' = cache
    BY RingAssumption DEF ResetBd
  <1>2. qlen' \in [Ring -> Nat]
    BY DEF TypeOK, RingTypeOK, ContextTypeOK, QlenExact, ResetBd
  <1>3. list' \in [Ring -> Seq(Buf)]
    BY EmptySeq DEF ResetBd
  <1>4. free' \subseteq Buf
    <2>1. \A q \in Ring : \A i \in DOMAIN list[q] : list[q][i] \in Buf
      BY ElementOfSeq DEF TypeOK, RingTypeOK, ContextTypeOK
    <2> QED BY <2>1 DEF TypeOK, RingTypeOK, ContextTypeOK, ResetBd
  <1> QED BY <1>1, <1>2, <1>3, <1>4 DEF TypeOKReset

\* A context's buffer stays out of the pools when the rings are reset.
LEMMA ResetHolds ==
  ASSUME TypeOK, HoldInv, QueueInv, ResetBd
  PROVE  \A c \in Context : buf[c] \notin free'
  <1>1. \A q \in Ring : DOMAIN list[q] = Slot(q)
    BY DEF TypeOK, RingTypeOK, Slot
  <1> QED BY <1>1 DEF HoldInv, OwnInv, QueueInv, ResetBd

-----------------------------------------------------------------------------
(* Types.                                                                  *)

\* The rings, the device's pointers and the pools keep their types.
LEMMA RingTypeStep ==
  ASSUME TypeOK, HoldInv, QueueInv, QlenExact, [Next]_vars
  PROVE  RingTypeOK'
  <1> USE RingAssumption DEF RingTypeOK, Buf, ringVars, hwVars, ctxVars,
       envVars
  <1>1. ASSUME NEW c \in Sender, NEW f \in Flow, PreXmitframe(c, f) PROVE RingTypeOK'
    BY <1>1 DEF PreXmitframe, TypeOK
  <1>2. ASSUME NEW c \in Sender, NEW f \in Flow, HalXmitframeEnqueue(c, f) PROVE RingTypeOK'
    BY <1>2 DEF HalXmitframeEnqueue, TypeOK
  <1>3. ASSUME NEW c \in Sender, MgntXmit(c) PROVE RingTypeOK'
    BY <1>3 DEF MgntXmit, TypeOK
  <1>4. ASSUME NEW c \in Context, PreAlloc(c) PROVE RingTypeOK'
    BY <1>4 DEF PreAlloc, TypeOK
  <1>5. ASSUME NEW c \in Context, PreEnqueue(c) PROVE RingTypeOK'
    BY <1>5 DEF PreEnqueue, TypeOK
  <1>6. ASSUME NEW c \in Context, HalXmitframeWake(c) PROVE RingTypeOK'
    BY <1>6 DEF HalXmitframeWake, TypeOK
  <1>7. ASSUME NEW c \in Context, Coalesce(c) PROVE RingTypeOK'
    BY <1>7 DEF Coalesce, TypeOK, HoldInv, HandInv, OwnInv, Holding, ContextTypeOK
  <1>8. ASSUME NEW c \in Context, DumpXframe(c) PROVE RingTypeOK'
    <2>1. /\ RingFor(flow[c]) \in Ring /\ buf[c] \in Buf
          /\ IsQueued(RingFor(flow[c]), buf[c]) /\ free' = free
      BY <1>8, DumpQueues
    <2>2. PICK q \in Ring : q = RingFor(flow[c])
      BY <2>1
    <2>3. list' \in [Ring -> Seq(Buf)]
      BY <2>1 DEF IsQueued
    <2>4. idx[q] \in 0 .. Entries - 1 /\ qlen[q] \in Nat
      BY DEF TypeOK
    <2>5. TxbdIndex(q) \in 0 .. Entries - 1
      <3>1. idx[q] + qlen[q] \in Nat
        BY <2>4
      <3> QED BY <3>1, IndexInRange DEF TxbdIndex
    <2>6. qlen' = [qlen EXCEPT ![q] = qlen[q] + 1]
      BY <1>8, <2>2 DEF DumpXframe
    <2>7. qlen' \in [Ring -> Nat] /\ qlen'[q] \in Nat
      BY <2>6, <2>4 DEF TypeOK
    <2>8. (idx[q] + qlen'[q]) % Entries \in 0 .. Entries - 1
      <3>1. idx[q] + qlen'[q] \in Nat
        BY <2>4, <2>7
      <3> QED BY <3>1, IndexInRange
    <2>9. hwWp' \in [Ring -> 0 .. Entries - 1]
      BY <1>8, <2>2, <2>8 DEF DumpXframe, TypeOK
    <2>10. desc' = [desc EXCEPT ![q] = [desc[q] EXCEPT ![TxbdIndex(q)] = buf[c]]]
      BY <1>8, <2>2 DEF DumpXframe
    <2>11. desc' \in [Ring -> [0 .. Entries - 1 -> Buf \cup {NoBuf}]]
      BY <2>1, <2>5, <2>10 DEF TypeOK
    <2> QED BY <1>8, <2>1, <2>3, <2>7, <2>9, <2>11 DEF DumpXframe, TypeOK
  <1>9. ASSUME NEW c \in Context, DumpNoTxbd(c) PROVE RingTypeOK'
    <2>1. list' = list
      BY <1>9, DropKeepsLists
    <2>2. free' \subseteq Buf
      BY <1>9 DEF DumpNoTxbd, TypeOK, HoldInv, HandInv, OwnInv, Holding, ContextTypeOK
    <2> QED BY <1>9, <2>1, <2>2 DEF DumpNoTxbd, TypeOK
  <1>10. ASSUME NEW q \in Ring, HwFetch(q) PROVE RingTypeOK'
    <2>1. (hwRp[q] + 1) % Entries \in 0 .. Entries - 1
      <3>1. hwRp[q] + 1 \in Nat
        BY DEF TypeOK
      <3> QED BY <3>1, IndexInRange
    <2>2. hwRp' \in [Ring -> 0 .. Entries - 1]
      BY <1>10, <2>1 DEF HwFetch, TypeOK
    <2> QED BY <1>10, <2>2 DEF HwFetch, TypeOK
  <1>11. ASSUME NEW q \in Ring, IsrReclaim(q) PROVE RingTypeOK'
    <2>1. IsDequeued(q) /\ qlen' = [qlen EXCEPT ![q] = @ - 1] /\ qlen[q] \in Nat \ {0}
      BY <1>11, ReclaimDequeues
    <2>2. list' \in [Ring -> Seq(Buf)] /\ free' \subseteq Buf
      BY <2>1 DEF IsDequeued, TypeOK
    <2>3. qlen' \in [Ring -> Nat]
      <3>1. qlen[q] - 1 \in Nat
        BY <2>1
      <3> QED BY <2>1, <3>1 DEF TypeOK
    <2>4. (idx[q] + 1) % Entries \in 0 .. Entries - 1
      <3>1. idx[q] + 1 \in Nat
        BY DEF TypeOK
      <3> QED BY <3>1, IndexInRange
    <2>5. idx' \in [Ring -> 0 .. Entries - 1]
      BY <1>11, <2>4 DEF IsrReclaim, ReclaimHead, TypeOK
    <2>6. cache' \in [Ring -> 0 .. Entries - 1]
      BY <1>11 DEF IsrReclaim, SyncedCache, TypeOK
    <2> QED BY <1>11, <2>2, <2>3, <2>5, <2>6 DEF IsrReclaim, TypeOK
  <1>12. ASSUME NEW q \in Ring, IsrNotClosed(q) PROVE RingTypeOK'
    BY <1>12 DEF IsrNotClosed, SyncedCache, TypeOK
  <1>13. ASSUME NEW q \in Ring, IsrDrained(q) PROVE RingTypeOK'
    BY <1>13 DEF IsrDrained, TypeOK
  <1>14. CASE TaskletStart
    BY <1>14 DEF TaskletStart, TypeOK
  <1>15. CASE ResumeCheck
    BY <1>15 DEF ResumeCheck, TypeOK
  <1>16. CASE ResumeAlloc
    BY <1>16 DEF ResumeAlloc, TypeOK
  <1>17. CASE ResumeDequeue
    BY <1>17 DEF ResumeDequeue, TypeOK, HoldInv, HandInv, OwnInv, Holding, ContextTypeOK, Context
  <1>18. CASE IsrEnter
    BY <1>18 DEF IsrEnter, TypeOK
  <1>19. CASE BlockStart
    BY <1>19 DEF BlockStart, TypeOK
  <1>20. CASE BlockEnd
    BY <1>20 DEF BlockEnd, TypeOK
  <1>21. CASE OsXmitSchedule
    BY <1>21 DEF OsXmitSchedule, TypeOK
  <1>22. CASE DriverStop
    BY <1>22 DEF DriverStop, TypeOK
  <1>23. CASE PciIntfStop
    <2>1. TypeOKReset
      BY <1>23, ResetTypes DEF PciIntfStop
    <2> QED BY <1>23, <2>1 DEF PciIntfStop, TypeOKReset, TypeOK
  <1>24. CASE HalInit
    <2>1. TypeOKReset
      BY <1>24, ResetTypes DEF HalInit
    <2>2. hwRp' \in [Ring -> 0 .. Entries - 1] /\ hwWp' \in [Ring -> 0 .. Entries - 1]
      <3>1. 0 \in 0 .. Entries - 1
        OBVIOUS
      <3> QED BY <1>24, <3>1 DEF HalInit
    <2> QED BY <1>24, <2>1, <2>2 DEF HalInit, TypeOKReset, TypeOK
  <1>25. CASE UNCHANGED vars
    BY <1>25 DEF vars, TypeOK
  <1> QED
    BY <1>1, <1>2, <1>3, <1>4, <1>5, <1>6, <1>7, <1>8, <1>9, <1>10, <1>11,
       <1>12, <1>13, <1>14, <1>15, <1>16, <1>17, <1>18, <1>19, <1>20,
       <1>21, <1>22, <1>23, <1>24, <1>25 DEF Next, Send, Continue,
       TaskletStep, IsrStep

\* The contexts keep their types.
LEMMA ContextTypeStep ==
  ASSUME TypeOK, HoldInv, QueueInv, [Next]_vars
  PROVE  ContextTypeOK'
  <1> USE RingAssumption DEF ContextTypeOK, Context, NextPc, Buf, ringVars,
       hwVars, ctxVars, envVars
  <1>1. ASSUME NEW c \in Sender, NEW f \in Flow, PreXmitframe(c, f) PROVE ContextTypeOK'
    BY <1>1 DEF PreXmitframe, TypeOK
  <1>2. ASSUME NEW c \in Sender, NEW f \in Flow, HalXmitframeEnqueue(c, f) PROVE ContextTypeOK'
    BY <1>2 DEF HalXmitframeEnqueue, TypeOK
  <1>3. ASSUME NEW c \in Sender, MgntXmit(c) PROVE ContextTypeOK'
    BY <1>3 DEF MgntXmit, TypeOK, RingTypeOK
  <1>4. ASSUME NEW c \in Context, PreAlloc(c) PROVE ContextTypeOK'
    BY <1>4 DEF PreAlloc, TypeOK, RingTypeOK
  <1>5. ASSUME NEW c \in Context, PreEnqueue(c) PROVE ContextTypeOK'
    BY <1>5 DEF PreEnqueue, TypeOK
  <1>6. ASSUME NEW c \in Context, HalXmitframeWake(c) PROVE ContextTypeOK'
    BY <1>6 DEF HalXmitframeWake, TypeOK
  <1>7. ASSUME NEW c \in Context, Coalesce(c) PROVE ContextTypeOK'
    BY <1>7 DEF Coalesce, TypeOK
  <1>8. ASSUME NEW c \in Context, DumpXframe(c) PROVE ContextTypeOK'
    <2>1. FrameDone(c)
      BY <1>8, DumpQueues
    <2> QED BY <1>8, <2>1 DEF DumpXframe, FrameDone, TypeOK
  <1>9. ASSUME NEW c \in Context, DumpNoTxbd(c) PROVE ContextTypeOK'
    BY <1>9 DEF DumpNoTxbd, FrameDone, TypeOK
  <1>10. ASSUME NEW q \in Ring, HwFetch(q) PROVE ContextTypeOK'
    BY <1>10 DEF HwFetch, TypeOK
  <1>11. ASSUME NEW q \in Ring, IsrReclaim(q) PROVE ContextTypeOK'
    BY <1>11 DEF IsrReclaim, TypeOK
  <1>12. ASSUME NEW q \in Ring, IsrNotClosed(q) PROVE ContextTypeOK'
    BY <1>12 DEF IsrNotClosed, TypeOK
  <1>13. ASSUME NEW q \in Ring, IsrDrained(q) PROVE ContextTypeOK'
    BY <1>13 DEF IsrDrained, TypeOK
  <1>14. CASE TaskletStart
    BY <1>14 DEF TaskletStart, TypeOK
  <1>15. CASE ResumeCheck
    BY <1>15 DEF ResumeCheck, TypeOK
  <1>16. CASE ResumeAlloc
    BY <1>16 DEF ResumeAlloc, TypeOK, RingTypeOK
  <1>17. CASE ResumeDequeue
    BY <1>17 DEF ResumeDequeue, TypeOK
  <1>18. CASE IsrEnter
    BY <1>18 DEF IsrEnter, TypeOK
  <1>19. CASE BlockStart
    BY <1>19 DEF BlockStart, TypeOK
  <1>20. CASE BlockEnd
    BY <1>20 DEF BlockEnd, TypeOK
  <1>21. CASE OsXmitSchedule
    BY <1>21 DEF OsXmitSchedule, TypeOK
  <1>22. CASE DriverStop
    BY <1>22 DEF DriverStop, TypeOK
  <1>23. CASE PciIntfStop
    BY <1>23 DEF PciIntfStop, TypeOK
  <1>24. CASE HalInit
    BY <1>24 DEF HalInit, TypeOK
  <1>25. CASE UNCHANGED vars
    BY <1>25 DEF vars, TypeOK
  <1> QED
    BY <1>1, <1>2, <1>3, <1>4, <1>5, <1>6, <1>7, <1>8, <1>9, <1>10, <1>11,
       <1>12, <1>13, <1>14, <1>15, <1>16, <1>17, <1>18, <1>19, <1>20,
       <1>21, <1>22, <1>23, <1>24, <1>25 DEF Next, Send, Continue,
       TaskletStep, IsrStep

\* The rest of the driver's state keeps its types.
LEMMA DriverTypeStep ==
  ASSUME TypeOK, [Next]_vars
  PROVE  DriverTypeOK'
  <1> USE RingAssumption DEF DriverTypeOK, ringVars, hwVars, ctxVars,
       envVars
  <1>1. ASSUME NEW c \in Sender, NEW f \in Flow, PreXmitframe(c, f) PROVE DriverTypeOK'
    BY <1>1 DEF PreXmitframe, TypeOK
  <1>2. ASSUME NEW c \in Sender, NEW f \in Flow, HalXmitframeEnqueue(c, f) PROVE DriverTypeOK'
    BY <1>2 DEF HalXmitframeEnqueue, TypeOK
  <1>3. ASSUME NEW c \in Sender, MgntXmit(c) PROVE DriverTypeOK'
    BY <1>3 DEF MgntXmit, TypeOK
  <1>4. ASSUME NEW c \in Context, PreAlloc(c) PROVE DriverTypeOK'
    BY <1>4 DEF PreAlloc, TypeOK
  <1>5. ASSUME NEW c \in Context, PreEnqueue(c) PROVE DriverTypeOK'
    <2>1. pend \in [Flow -> Nat]
      BY DEF TypeOK
    <2>2. [pend EXCEPT ![flow[c]] = @ + 1] \in [Flow -> Nat]
      <3>1. CASE flow[c] \in Flow
        BY <2>1, <3>1
      <3>2. CASE flow[c] \notin Flow
        BY <2>1, <3>2
      <3> QED BY <3>1, <3>2
    <2>3. pend' \in [Flow -> Nat]
      BY <1>5, <2>1, <2>2 DEF PreEnqueue
    <2> QED BY <1>5, <2>3 DEF PreEnqueue, TypeOK
  <1>6. ASSUME NEW c \in Context, HalXmitframeWake(c) PROVE DriverTypeOK'
    BY <1>6 DEF HalXmitframeWake, TypeOK
  <1>7. ASSUME NEW c \in Context, Coalesce(c) PROVE DriverTypeOK'
    BY <1>7 DEF Coalesce, TypeOK
  <1>8. ASSUME NEW c \in Context, DumpXframe(c) PROVE DriverTypeOK'
    BY <1>8 DEF DumpXframe, TypeOK
  <1>9. ASSUME NEW c \in Context, DumpNoTxbd(c) PROVE DriverTypeOK'
    BY <1>9 DEF DumpNoTxbd, TypeOK, ContextTypeOK
  <1>10. ASSUME NEW q \in Ring, HwFetch(q) PROVE DriverTypeOK'
    BY <1>10 DEF HwFetch, TypeOK
  <1>11. ASSUME NEW q \in Ring, IsrReclaim(q) PROVE DriverTypeOK'
    BY <1>11 DEF IsrReclaim, TypeOK
  <1>12. ASSUME NEW q \in Ring, IsrNotClosed(q) PROVE DriverTypeOK'
    BY <1>12 DEF IsrNotClosed, TypeOK
  <1>13. ASSUME NEW q \in Ring, IsrDrained(q) PROVE DriverTypeOK'
    BY <1>13 DEF IsrDrained, TypeOK
  <1>14. CASE TaskletStart
    BY <1>14 DEF TaskletStart, TypeOK
  <1>15. CASE ResumeCheck
    BY <1>15 DEF ResumeCheck, TypeOK
  <1>16. CASE ResumeAlloc
    BY <1>16 DEF ResumeAlloc, TypeOK
  <1>17. CASE ResumeDequeue
    BY <1>17 DEF ResumeDequeue, TypeOK
  <1>18. CASE IsrEnter
    BY <1>18 DEF IsrEnter, TypeOK
  <1>19. CASE BlockStart
    BY <1>19 DEF BlockStart, TypeOK
  <1>20. CASE BlockEnd
    BY <1>20 DEF BlockEnd, TypeOK
  <1>21. CASE OsXmitSchedule
    BY <1>21 DEF OsXmitSchedule, TypeOK
  <1>22. CASE DriverStop
    BY <1>22 DEF DriverStop, TypeOK
  <1>23. CASE PciIntfStop
    BY <1>23 DEF PciIntfStop, TypeOK
  <1>24. CASE HalInit
    BY <1>24 DEF HalInit, TypeOK
  <1>25. CASE UNCHANGED vars
    BY <1>25 DEF vars, TypeOK
  <1> QED
    BY <1>1, <1>2, <1>3, <1>4, <1>5, <1>6, <1>7, <1>8, <1>9, <1>10, <1>11,
       <1>12, <1>13, <1>14, <1>15, <1>16, <1>17, <1>18, <1>19, <1>20,
       <1>21, <1>22, <1>23, <1>24, <1>25 DEF Next, Send, Continue,
       TaskletStep, IsrStep

-----------------------------------------------------------------------------
(* Ownership.                                                              *)

\* A context has a buffer where the code holds one.
LEMMA HandStep ==
  ASSUME MaxFrags = 1, TypeOK, HoldInv, QueueInv, [Next]_vars
  PROVE  HandInv'
  <1> USE RingAssumption DEF HoldInv, HandInv, OwnInv, Holding, Context,
       NextPc, Buf, TypeOK, RingTypeOK, ContextTypeOK, ringVars, hwVars,
       ctxVars, envVars
  <1>1. ASSUME NEW c \in Sender, NEW f \in Flow, PreXmitframe(c, f) PROVE HandInv'
    BY <1>1 DEF PreXmitframe
  <1>2. ASSUME NEW c \in Sender, NEW f \in Flow, HalXmitframeEnqueue(c, f) PROVE HandInv'
    BY <1>2 DEF HalXmitframeEnqueue
  <1>3. ASSUME NEW c \in Sender, MgntXmit(c) PROVE HandInv'
    BY <1>3 DEF MgntXmit
  <1>4. ASSUME NEW c \in Context, PreAlloc(c) PROVE HandInv'
    BY <1>4 DEF PreAlloc
  <1>5. ASSUME NEW c \in Context, PreEnqueue(c) PROVE HandInv'
    BY <1>5 DEF PreEnqueue
  <1>6. ASSUME NEW c \in Context, HalXmitframeWake(c) PROVE HandInv'
    BY <1>6 DEF HalXmitframeWake
  <1>7. ASSUME NEW c \in Context, Coalesce(c) PROVE HandInv'
    <2>1. CASE /\ frags' = [frags EXCEPT ![c] = 1]
               /\ pc' = [pc EXCEPT ![c] = "dump"]
               /\ UNCHANGED <<free, buf>>
      BY <1>7, <2>1 DEF Coalesce
    <2>2. CASE /\ buf' = [buf EXCEPT ![c] = NoBuf]
               /\ pc' = [pc EXCEPT ![c] = NextPc(c)]
               /\ UNCHANGED frags
      BY <1>7, <2>2 DEF Coalesce
    <2> QED BY <1>7, <2>1, <2>2 DEF Coalesce
  <1>8. ASSUME NEW c \in Context, DumpXframe(c) PROVE HandInv'
    <2>1. FrameDone(c)
      BY <1>8, DumpQueues
    <2> QED BY <2>1 DEF FrameDone
  <1>9. ASSUME NEW c \in Context, DumpNoTxbd(c) PROVE HandInv'
    BY <1>9 DEF DumpNoTxbd, FrameDone
  <1>10. ASSUME NEW q \in Ring, HwFetch(q) PROVE HandInv'
    BY <1>10 DEF HwFetch
  <1>11. ASSUME NEW q \in Ring, IsrReclaim(q) PROVE HandInv'
    BY <1>11 DEF IsrReclaim
  <1>12. ASSUME NEW q \in Ring, IsrNotClosed(q) PROVE HandInv'
    BY <1>12 DEF IsrNotClosed
  <1>13. ASSUME NEW q \in Ring, IsrDrained(q) PROVE HandInv'
    BY <1>13 DEF IsrDrained
  <1>14. CASE TaskletStart
    BY <1>14 DEF TaskletStart
  <1>15. CASE ResumeCheck
    BY <1>15 DEF ResumeCheck
  <1>16. CASE ResumeAlloc
    BY <1>16 DEF ResumeAlloc
  <1>17. CASE ResumeDequeue
    BY <1>17 DEF ResumeDequeue
  <1>18. CASE IsrEnter
    BY <1>18 DEF IsrEnter
  <1>19. CASE BlockStart
    BY <1>19 DEF BlockStart
  <1>20. CASE BlockEnd
    BY <1>20 DEF BlockEnd
  <1>21. CASE OsXmitSchedule
    BY <1>21 DEF OsXmitSchedule
  <1>22. CASE DriverStop
    BY <1>22 DEF DriverStop
  <1>23. CASE PciIntfStop
    BY <1>23 DEF PciIntfStop, ResetBd
  <1>24. CASE HalInit
    BY <1>24 DEF HalInit, ResetBd
  <1>25. CASE UNCHANGED vars
    BY <1>25 DEF vars
  <1> QED
    BY <1>1, <1>2, <1>3, <1>4, <1>5, <1>6, <1>7, <1>8, <1>9, <1>10, <1>11,
       <1>12, <1>13, <1>14, <1>15, <1>16, <1>17, <1>18, <1>19, <1>20,
       <1>21, <1>22, <1>23, <1>24, <1>25 DEF Next, Send, Continue,
       TaskletStep, IsrStep

-----------------------------------------------------------------------------
(* How buffers move, whatever the action.                                  *)

Take(c, b) ==
  /\ b \in free /\ buf[c] = NoBuf
  /\ free' = free \ {b} /\ buf' = [buf EXCEPT ![c] = b]
  /\ UNCHANGED <<list, qlen>>

Give(c) ==
  /\ buf[c] \in Buf
  /\ free' = free \cup {buf[c]} /\ buf' = [buf EXCEPT ![c] = NoBuf]
  /\ UNCHANGED <<list, qlen>>

Queue(c, q) ==
  /\ buf[c] \in Buf
  /\ IsQueued(q, buf[c]) /\ free' = free
  /\ buf' = [buf EXCEPT ![c] = NoBuf]
  /\ qlen' = [qlen EXCEPT ![q] = @ + 1] /\ qlen[q] # Entries - 1

Dequeue(q) ==
  /\ IsDequeued(q) /\ buf' = buf
  /\ qlen' = [qlen EXCEPT ![q] = @ - 1] /\ qlen[q] \in Nat \ {0}

Reset == ResetBd /\ buf' = buf

NoMove == UNCHANGED <<free, list, buf, qlen>>

Move ==
  \/ \E c \in Context : (\E b \in Buf : Take(c, b)) \/ Give(c)
  \/ \E c \in Context : \E q \in Ring : Queue(c, q)
  \/ \E q \in Ring : Dequeue(q)
  \/ Reset
  \/ NoMove

\* Every step of the model is one of these moves.
LEMMA EveryStepMoves ==
  ASSUME TypeOK, HoldInv, QueueInv, QlenExact, [Next]_vars
  PROVE  Move
  <1>1. ASSUME NEW c \in Sender, NEW f \in Flow, PreXmitframe(c, f) PROVE Move
    <2>1. NoMove
      BY <1>1 DEF PreXmitframe, NoMove, ringVars, hwVars, ctxVars, envVars
    <2> QED BY <2>1 DEF Move
  <1>2. ASSUME NEW c \in Sender, NEW f \in Flow, HalXmitframeEnqueue(c, f) PROVE Move
    <2>1. NoMove
      BY <1>2 DEF HalXmitframeEnqueue, NoMove, ringVars, hwVars, ctxVars, envVars
    <2> QED BY <2>1 DEF Move
  <1>3. ASSUME NEW c \in Sender, MgntXmit(c) PROVE Move
    <2>1. \E b \in Buf : Take(c, b)
      BY <1>3 DEF MgntXmit, Take, TypeOK, ContextTypeOK, HoldInv, HandInv, OwnInv,
         Holding, Buf, Context, ringVars
    <2> QED BY <2>1 DEF Move, Context
  <1>4. ASSUME NEW c \in Context, PreAlloc(c) PROVE Move
    <2>1. (\E b \in Buf : Take(c, b)) \/ NoMove
      BY <1>4 DEF PreAlloc, Take, NoMove, TypeOK, ContextTypeOK, HoldInv, HandInv,
         OwnInv, Holding, Buf, ringVars
    <2> QED BY <2>1 DEF Move
  <1>5. ASSUME NEW c \in Context, PreEnqueue(c) PROVE Move
    <2>1. NoMove
      BY <1>5 DEF PreEnqueue, NoMove, ringVars, hwVars, ctxVars, envVars
    <2> QED BY <2>1 DEF Move
  <1>6. ASSUME NEW c \in Context, HalXmitframeWake(c) PROVE Move
    <2>1. NoMove
      BY <1>6 DEF HalXmitframeWake, NoMove, ringVars, hwVars, ctxVars, envVars
    <2> QED BY <2>1 DEF Move
  <1>7. ASSUME NEW c \in Context, Coalesce(c) PROVE Move
    <2>1. Give(c) \/ NoMove
      BY <1>7 DEF Coalesce, Give, NoMove, TypeOK, ContextTypeOK, HoldInv, HandInv,
         OwnInv, Holding, ringVars
    <2> QED BY <2>1 DEF Move
  <1>8. ASSUME NEW c \in Context, DumpXframe(c) PROVE Move
    <2>1. /\ RingFor(flow[c]) \in Ring /\ buf[c] \in Buf
          /\ IsQueued(RingFor(flow[c]), buf[c]) /\ free' = free /\ FrameDone(c)
      BY <1>8, DumpQueues
    <2>2. Queue(c, RingFor(flow[c]))
      BY <1>8, <2>1 DEF DumpXframe, FrameDone, Queue, TxbdAvailable
    <2> QED BY <2>1, <2>2 DEF Move
  <1>9. ASSUME NEW c \in Context, DumpNoTxbd(c) PROVE Move
    <2>1. Give(c)
      BY <1>9, DropKeepsLists DEF DumpNoTxbd, FrameDone, Give, TypeOK, ContextTypeOK,
         HoldInv, HandInv, OwnInv, Holding
    <2> QED BY <2>1 DEF Move
  <1>10. ASSUME NEW q \in Ring, HwFetch(q) PROVE Move
    <2>1. NoMove
      BY <1>10 DEF HwFetch, NoMove, ringVars, hwVars, ctxVars, envVars
    <2> QED BY <2>1 DEF Move
  <1>11. ASSUME NEW q \in Ring, IsrReclaim(q) PROVE Move
    <2>1. Dequeue(q)
      BY <1>11, ReclaimDequeues DEF IsrReclaim, Dequeue, ctxVars
    <2> QED BY <2>1 DEF Move
  <1>12. ASSUME NEW q \in Ring, IsrNotClosed(q) PROVE Move
    <2>1. NoMove
      BY <1>12 DEF IsrNotClosed, NoMove, ringVars, hwVars, ctxVars, envVars
    <2> QED BY <2>1 DEF Move
  <1>13. ASSUME NEW q \in Ring, IsrDrained(q) PROVE Move
    <2>1. NoMove
      BY <1>13 DEF IsrDrained, NoMove, ringVars, hwVars, ctxVars, envVars
    <2> QED BY <2>1 DEF Move
  <1>14. CASE TaskletStart
    <2>1. NoMove
      BY <1>14 DEF TaskletStart, NoMove, ringVars, hwVars, ctxVars, envVars
    <2> QED BY <2>1 DEF Move
  <1>15. CASE ResumeCheck
    <2>1. NoMove
      BY <1>15 DEF ResumeCheck, NoMove, ringVars, hwVars, ctxVars, envVars
    <2> QED BY <2>1 DEF Move
  <1>16. CASE ResumeAlloc
    <2>1. (\E b \in Buf : Take(Tasklet, b)) \/ NoMove
      BY <1>16 DEF ResumeAlloc, Take, NoMove, TypeOK, ContextTypeOK, HoldInv, HandInv,
         OwnInv, Holding, Buf, Context, ringVars
    <2> QED BY <2>1 DEF Move, Context
  <1>17. CASE ResumeDequeue
    <2>1. Give(Tasklet) \/ NoMove
      BY <1>17 DEF ResumeDequeue, Give, NoMove, TypeOK, ContextTypeOK, HoldInv,
         HandInv, OwnInv, Holding, Context, ringVars
    <2> QED BY <2>1 DEF Move, Context
  <1>18. CASE IsrEnter
    <2>1. NoMove
      BY <1>18 DEF IsrEnter, NoMove, ringVars, hwVars, ctxVars, envVars
    <2> QED BY <2>1 DEF Move
  <1>19. CASE BlockStart
    <2>1. NoMove
      BY <1>19 DEF BlockStart, NoMove, ringVars, hwVars, ctxVars, envVars
    <2> QED BY <2>1 DEF Move
  <1>20. CASE BlockEnd
    <2>1. NoMove
      BY <1>20 DEF BlockEnd, NoMove, ringVars, hwVars, ctxVars, envVars
    <2> QED BY <2>1 DEF Move
  <1>21. CASE OsXmitSchedule
    <2>1. NoMove
      BY <1>21 DEF OsXmitSchedule, NoMove, ringVars, hwVars, ctxVars, envVars
    <2> QED BY <2>1 DEF Move
  <1>22. CASE DriverStop
    <2>1. NoMove
      BY <1>22 DEF DriverStop, NoMove, ringVars, hwVars, ctxVars, envVars
    <2> QED BY <2>1 DEF Move
  <1>23. CASE PciIntfStop
    <2>1. Reset
      BY <1>23 DEF PciIntfStop, Reset, ctxVars
    <2> QED BY <2>1 DEF Move
  <1>24. CASE HalInit
    <2>1. Reset
      BY <1>24 DEF HalInit, Reset, ctxVars
    <2> QED BY <2>1 DEF Move
  <1>25. CASE UNCHANGED vars
    BY <1>25 DEF vars, Move, NoMove, ringVars, ctxVars
  <1> QED
    BY <1>1, <1>2, <1>3, <1>4, <1>5, <1>6, <1>7, <1>8, <1>9, <1>10, <1>11,
       <1>12, <1>13, <1>14, <1>15, <1>16, <1>17, <1>18, <1>19, <1>20,
       <1>21, <1>22, <1>23, <1>24, <1>25 DEF Next, Send, Continue,
       TaskletStep, IsrStep

\* The types the moves need.
MoveTypes ==
  /\ list \in [Ring -> Seq(Buf)] /\ free \subseteq Buf
  /\ buf \in [Context -> Buf \cup {NoBuf}] /\ NoBuf \notin Buf
  /\ qlen \in [Ring -> Nat] /\ Entries \in Nat
  /\ \A q \in Ring : Len(list[q]) \in Nat /\ DOMAIN list[q] = Slot(q)
  /\ \A q \in Ring : \A i \in Slot(q) : list[q][i] \in Buf

LEMMA TypesOfMoves ==
  ASSUME TypeOK
  PROVE  MoveTypes
  <1>1. list \in [Ring -> Seq(Buf)] /\ free \subseteq Buf /\ qlen \in [Ring -> Nat]
    BY DEF TypeOK, RingTypeOK
  <1>2. buf \in [Context -> Buf \cup {NoBuf}]
    BY DEF TypeOK, ContextTypeOK
  <1>3. NoBuf \notin Buf /\ Entries \in Nat
    BY RingAssumption DEF Buf
  <1>4. \A q \in Ring : Len(list[q]) \in Nat /\ DOMAIN list[q] = Slot(q)
    BY <1>1 DEF Slot
  <1>5. \A q \in Ring : \A i \in Slot(q) : list[q][i] \in Buf
    BY <1>1, <1>4, ElementOfSeq
  <1> QED BY <1>1, <1>2, <1>3, <1>4, <1>5 DEF MoveTypes

\* What a context has nobody else has.
LEMMA OwnStep ==
  ASSUME MoveTypes, HoldInv, QueueInv, Move
  PROVE  OwnInv'
  <1> USE DEF MoveTypes, HoldInv, OwnInv
  <1>1. ASSUME NEW c \in Context, NEW b \in Buf, Take(c, b) PROVE OwnInv'
    BY <1>1 DEF Take
  <1>2. ASSUME NEW c \in Context, Give(c) PROVE OwnInv'
    BY <1>2 DEF Give
  <1>3. ASSUME NEW c \in Context, NEW q \in Ring, Queue(c, q) PROVE OwnInv'
    BY <1>3 DEF Queue
  <1>4. ASSUME NEW q \in Ring, Dequeue(q) PROVE OwnInv'
    <2>1. 1 \in Slot(q) /\ free' = free \cup {list[q][1]} /\ buf' = buf
      BY <1>4 DEF Dequeue, IsDequeued, Slot
    <2> QED BY <2>1 DEF QueueInv
  <1>5. CASE Reset
    <2>1. \A c \in Context : buf[c] \notin free'
      BY <1>5 DEF Reset, ResetBd, QueueInv
    <2> QED BY <1>5, <2>1 DEF Reset
  <1>6. CASE NoMove
    BY <1>6 DEF NoMove
  <1> QED BY <1>1, <1>2, <1>3, <1>4, <1>5, <1>6 DEF Move

\* What is on a ring is there once and nowhere else.
LEMMA QueueStep ==
  ASSUME MoveTypes, HoldInv, QueueInv, Move
  PROVE  QueueInv'
  <1> USE DEF QueueInv, Slot
  <1>1. ASSUME NEW c \in Context, NEW b \in Buf, Take(c, b) PROVE QueueInv'
    BY <1>1 DEF Take, MoveTypes
  <1>2. ASSUME NEW c \in Context, Give(c) PROVE QueueInv'
    BY <1>2 DEF Give, MoveTypes
  <1>3. ASSUME NEW c \in Context, NEW q \in Ring, Queue(c, q) PROVE QueueInv'
    <2>1. \A r \in Ring : \A i \in 1 .. Len(list'[r]) :
             \/ i \in 1 .. Len(list[r]) /\ list'[r][i] = list[r][i]
             \/ r = q /\ i = Len(list[q]) + 1 /\ list'[r][i] = buf[c]
      BY <1>3 DEF Queue, IsQueued, MoveTypes
    <2>2. buf[c] \notin free /\ free' = free
      BY <1>3 DEF Queue, HoldInv, OwnInv, MoveTypes
    <2>3. \A d \in Context : buf'[d] # buf[c] /\ (buf'[d] = buf[d] \/ buf'[d] = NoBuf)
      BY <1>3 DEF Queue, HoldInv, OwnInv, MoveTypes
    <2>4. \A r \in Ring : \A i \in 1 .. Len(list'[r]) : list'[r][i] \notin free'
      BY <2>1, <2>2
    <2>5. \A r \in Ring : \A i \in 1 .. Len(list'[r]) : \A d \in Context : list'[r][i] # buf'[d]
      <3> TAKE r \in Ring
      <3> TAKE i \in 1 .. Len(list'[r])
      <3> TAKE d \in Context
      <3>1. CASE i \in 1 .. Len(list[r]) /\ list'[r][i] = list[r][i]
        <4>1. list[r][i] # buf[d] /\ list[r][i] # NoBuf
          BY <3>1 DEF MoveTypes
        <4> QED BY <2>3, <3>1, <4>1
      <3>2. CASE list'[r][i] = buf[c]
        BY <2>3, <3>2
      <3> QED BY <2>1, <3>1, <3>2
    <2>6. \A r, s \in Ring : \A i \in 1 .. Len(list'[r]) : \A j \in 1 .. Len(list'[s]) :
             list'[r][i] = list'[s][j] => r = s /\ i = j
      <3> TAKE r, s \in Ring
      <3> TAKE i \in 1 .. Len(list'[r])
      <3> TAKE j \in 1 .. Len(list'[s])
      <3> HAVE list'[r][i] = list'[s][j]
      <3> DEFINE OldAt(t, k) == k \in 1 .. Len(list[t]) /\ list'[t][k] = list[t][k]
                 NewAt(t, k) == t = q /\ k = Len(list[q]) + 1 /\ list'[t][k] = buf[c]
      <3>1. (OldAt(r, i) \/ NewAt(r, i)) /\ (OldAt(s, j) \/ NewAt(s, j))
        BY <2>1
      <3>2. CASE OldAt(r, i) /\ OldAt(s, j)
        <4>1. list[r][i] = list[s][j]
          BY <3>2
        <4> QED BY <3>2, <4>1
      <3>3. CASE NewAt(r, i) /\ NewAt(s, j)
        BY <3>3
      <3>4. CASE OldAt(r, i) /\ NewAt(s, j)
        <4>1. list[r][i] = buf[c]
          BY <3>4
        <4> QED BY <3>4, <4>1
      <3>5. CASE NewAt(r, i) /\ OldAt(s, j)
        <4>1. list[s][j] = buf[c]
          BY <3>5
        <4> QED BY <3>5, <4>1
      <3> QED BY <3>1, <3>2, <3>3, <3>4, <3>5
    <2> QED BY <2>4, <2>5, <2>6
  <1>4. ASSUME NEW q \in Ring, Dequeue(q) PROVE QueueInv'
    <2>1. buf' = buf /\ 1 \in 1 .. Len(list[q]) /\ free' = free \cup {list[q][1]}
      BY <1>4 DEF Dequeue, IsDequeued, MoveTypes
    <2>2. \A r \in Ring : r # q => list'[r] = list[r]
      BY <1>4 DEF Dequeue, IsDequeued, MoveTypes
    <2>3. \A i \in 1 .. Len(list'[q]) :
             i + 1 \in 1 .. Len(list[q]) /\ i + 1 # 1 /\ list'[q][i] = list[q][i + 1]
      BY <1>4 DEF Dequeue, IsDequeued, MoveTypes
    <2>4. \A r \in Ring : \A i \in 1 .. Len(list'[r]) :
             \E k \in 1 .. Len(list[r]) : list'[r][i] = list[r][k] /\ (r = q => k # 1)
      <3> TAKE r \in Ring
      <3> TAKE i \in 1 .. Len(list'[r])
      <3>1. CASE r = q
        <4>1. i + 1 \in 1 .. Len(list[r]) /\ i + 1 # 1 /\ list'[r][i] = list[r][i + 1]
          BY <2>3, <3>1
        <4> QED BY <4>1
      <3>2. CASE r # q
        <4>1. i \in 1 .. Len(list[r]) /\ list'[r][i] = list[r][i]
          BY <2>2, <3>2
        <4> QED BY <3>2, <4>1
      <3> QED BY <3>1, <3>2
    <2>5. \A r \in Ring : \A i \in 1 .. Len(list'[r]) : list'[r][i] \notin free'
      <3> TAKE r \in Ring
      <3> TAKE i \in 1 .. Len(list'[r])
      <3>1. PICK k \in 1 .. Len(list[r]) : list'[r][i] = list[r][k] /\ (r = q => k # 1)
        BY <2>4
      <3>2. list[r][k] \notin free
        OBVIOUS
      <3>3. list[r][k] # list[q][1]
        BY <2>1, <3>1
      <3> QED BY <2>1, <3>1, <3>2, <3>3
    <2>6. \A r \in Ring : \A i \in 1 .. Len(list'[r]) : \A d \in Context : list'[r][i] # buf'[d]
      <3> TAKE r \in Ring
      <3> TAKE i \in 1 .. Len(list'[r])
      <3>1. PICK k \in 1 .. Len(list[r]) : list'[r][i] = list[r][k]
        BY <2>4
      <3> QED BY <2>1, <3>1
    <2>7. \A r, s \in Ring : \A i \in 1 .. Len(list'[r]) : \A j \in 1 .. Len(list'[s]) :
             list'[r][i] = list'[s][j] => r = s /\ i = j
      <3> TAKE r, s \in Ring
      <3> TAKE i \in 1 .. Len(list'[r])
      <3> TAKE j \in 1 .. Len(list'[s])
      <3> HAVE list'[r][i] = list'[s][j]
      <3>1. r = s
        BY <2>4
      <3>2. CASE r = q
        BY <2>3, <3>1, <3>2
      <3>3. CASE r # q
        BY <2>2, <3>1, <3>3
      <3> QED BY <3>1, <3>2, <3>3
    <2> QED BY <2>5, <2>6, <2>7
  <1>5. CASE Reset
    <2>1. \A q \in Ring : Len(list'[q]) = 0
      BY <1>5 DEF Reset, ResetBd
    <2> QED BY <2>1
  <1>6. CASE NoMove
    BY <1>6 DEF NoMove
  <1> QED BY <1>1, <1>2, <1>3, <1>4, <1>5, <1>6 DEF Move

\* No step loses a buffer.
LEMMA KeptStep ==
  ASSUME MoveTypes, KeptInv, Move
  PROVE  KeptInv'
  <1> USE DEF MoveTypes, KeptInv, Slot
  <1>1. ASSUME NEW c \in Context, NEW b \in Buf, Take(c, b) PROVE KeptInv'
    BY <1>1 DEF Take
  <1>2. ASSUME NEW c \in Context, Give(c) PROVE KeptInv'
    BY <1>2 DEF Give
  <1>3. ASSUME NEW c \in Context, NEW q \in Ring, Queue(c, q) PROVE KeptInv'
    <2>1. \A r \in Ring : \A i \in 1 .. Len(list[r]) :
             i \in 1 .. Len(list'[r]) /\ list'[r][i] = list[r][i]
      <3> TAKE r \in Ring
      <3> TAKE i \in 1 .. Len(list[r])
      <3>1. CASE r = q
        BY <1>3, <3>1 DEF Queue, IsQueued
      <3>2. CASE r # q
        BY <1>3, <3>2 DEF Queue, IsQueued
      <3> QED BY <3>1, <3>2
    <2>2. \E i \in 1 .. Len(list'[q]) : list'[q][i] = buf[c]
      <3>1. /\ Len(list[q]) \in Nat /\ Len(list'[q]) = Len(list[q]) + 1
            /\ list'[q][Len(list[q]) + 1] = buf[c]
        BY <1>3 DEF Queue, IsQueued
      <3>2. Len(list[q]) + 1 \in 1 .. Len(list'[q])
        BY <3>1
      <3> QED BY <3>1, <3>2
    <2>3. free' = free /\ \A d \in Context : d # c => buf'[d] = buf[d]
      BY <1>3 DEF Queue
    <2> SUFFICES ASSUME NEW b \in Buf, b \notin free',
                        ~ \E d \in Context : buf'[d] = b
                 PROVE  \E r \in Ring : \E i \in 1 .. Len(list'[r]) : list'[r][i] = b
      OBVIOUS
    <2>4. CASE b = buf[c]
      BY <2>2, <2>4
    <2>5. CASE b # buf[c]
      <3>1. \E r \in Ring : \E i \in 1 .. Len(list[r]) : list[r][i] = b
        BY <2>3, <2>5
      <3> QED BY <2>1, <3>1
    <2> QED BY <2>4, <2>5
  <1>4. ASSUME NEW q \in Ring, Dequeue(q) PROVE KeptInv'
    <2>1. buf' = buf /\ free' = free \cup {list[q][1]}
      BY <1>4 DEF Dequeue, IsDequeued
    <2>2. \A r \in Ring : r # q => list'[r] = list[r]
      BY <1>4 DEF Dequeue, IsDequeued
    <2>3. \A i \in 1 .. Len(list[q]) : i # 1 =>
             i - 1 \in 1 .. Len(list'[q]) /\ list'[q][i - 1] = list[q][i]
      BY <1>4 DEF Dequeue, IsDequeued
    <2>4. \A r \in Ring : \A i \in 1 .. Len(list[r]) :
             \/ list[r][i] \in free'
             \/ \E j \in 1 .. Len(list'[r]) : list'[r][j] = list[r][i]
      <3> TAKE r \in Ring
      <3> TAKE i \in 1 .. Len(list[r])
      <3>1. CASE r # q
        BY <2>2, <3>1
      <3>2. CASE r = q /\ i = 1
        BY <2>1, <3>2
      <3>3. CASE r = q /\ i # 1
        BY <2>3, <3>3
      <3> QED BY <3>1, <3>2, <3>3
    <2> SUFFICES ASSUME NEW b \in Buf, b \notin free', \A d \in Context : buf'[d] # b
                 PROVE  \E r \in Ring : \E i \in 1 .. Len(list'[r]) : list'[r][i] = b
      OBVIOUS
    <2>5. PICK r \in Ring : \E i \in 1 .. Len(list[r]) : list[r][i] = b
      BY <2>1
    <2>6. PICK i \in 1 .. Len(list[r]) : list[r][i] = b
      BY <2>5
    <2>7. \E j \in 1 .. Len(list'[r]) : list'[r][j] = list[r][i]
      BY <2>4, <2>6
    <2> QED BY <2>6, <2>7
  <1>5. CASE Reset
    <2>1. \A r \in Ring : \A i \in DOMAIN list[r] : list[r][i] \in free'
      BY <1>5 DEF Reset, ResetBd
    <2>2. free \subseteq free' /\ buf' = buf
      BY <1>5 DEF Reset, ResetBd
    <2> QED BY <2>1, <2>2
  <1>6. CASE NoMove
    BY <1>6 DEF NoMove
  <1> QED BY <1>1, <1>2, <1>3, <1>4, <1>5, <1>6 DEF Move

\* The counter follows the list and leaves one slot free.
LEMMA QlenStep ==
  ASSUME MoveTypes, QlenExact, Move
  PROVE  QlenExact'
  <1> USE DEF MoveTypes, QlenExact
  <1>1. ASSUME NEW c \in Context, NEW b \in Buf, Take(c, b) PROVE QlenExact'
    BY <1>1 DEF Take
  <1>2. ASSUME NEW c \in Context, Give(c) PROVE QlenExact'
    BY <1>2 DEF Give
  <1>3. ASSUME NEW c \in Context, NEW q \in Ring, Queue(c, q) PROVE QlenExact'
    <2>1. /\ \A r \in Ring : r # q => qlen'[r] = qlen[r] /\ Len(list'[r]) = Len(list[r])
          /\ qlen'[q] = qlen[q] + 1 /\ Len(list'[q]) = Len(list[q]) + 1
          /\ qlen[q] \in Nat /\ qlen[q] # Entries - 1
      BY <1>3 DEF Queue, IsQueued
    <2>2. qlen'[q] = Len(list'[q]) /\ qlen'[q] < Entries
      BY <2>1
    <2> QED BY <2>1, <2>2
  <1>4. ASSUME NEW q \in Ring, Dequeue(q) PROVE QlenExact'
    <2>1. /\ \A r \in Ring : r # q => qlen'[r] = qlen[r] /\ Len(list'[r]) = Len(list[r])
          /\ qlen'[q] = qlen[q] - 1 /\ Len(list'[q]) = Len(list[q]) - 1
          /\ qlen[q] \in Nat
      BY <1>4 DEF Dequeue, IsDequeued
    <2>2. qlen'[q] = Len(list'[q]) /\ qlen'[q] < Entries
      BY <2>1
    <2> QED BY <2>1, <2>2
  <1>5. CASE Reset
    <2>1. \A q \in Ring : Len(list'[q]) = 0
      BY <1>5 DEF Reset, ResetBd
    <2>2. \A q \in Ring : qlen'[q] = 0
      <3> TAKE q \in Ring
      <3>1. qlen'[q] = qlen[q] - Len(list[q]) /\ qlen[q] = Len(list[q]) /\ qlen[q] \in Nat
        BY <1>5 DEF Reset, ResetBd
      <3> QED BY <3>1
    <2> QED BY <2>1, <2>2, RingAssumption
  <1>6. CASE NoMove
    BY <1>6 DEF NoMove
  <1> QED BY <1>1, <1>2, <1>3, <1>4, <1>5, <1>6 DEF Move

-----------------------------------------------------------------------------
(* The theorems.                                                           *)

\* None of the parts is inductive alone: types need the counter to follow the
\* list, the counter needs buffers to be enqueued once, and that needs a
\* context's buffer to be neither free nor on a ring.
IInv == TypeOK /\ HoldInv /\ QueueInv /\ KeptInv /\ QlenExact

LEMMA InitIInv ==
  ASSUME Init
  PROVE  IInv
  <1>1. TypeOK
    <2>1. 0 \in 0 .. Entries - 1
      BY RingAssumption
    <2>2. RingTypeOK
      BY <2>1, EmptySeq, RingAssumption DEF Init, RingTypeOK
    <2>3. ContextTypeOK /\ DriverTypeOK
      BY DEF Init, ContextTypeOK, DriverTypeOK
    <2> QED BY <2>2, <2>3 DEF TypeOK
  <1>2. HoldInv
    BY RingAssumption DEF Init, HoldInv, HandInv, OwnInv, Holding, Buf
  <1>3. \A q \in Ring : Len(list[q]) = 0 /\ qlen[q] = 0
    BY DEF Init
  <1>4. QueueInv /\ QlenExact
    BY <1>3, RingAssumption DEF QueueInv, QlenExact, Slot
  <1>5. KeptInv
    BY DEF Init, KeptInv
  <1> QED BY <1>1, <1>2, <1>4, <1>5 DEF IInv

LEMMA NextIInv ==
  ASSUME MaxFrags = 1, IInv, [Next]_vars
  PROVE  IInv'
  <1> USE DEF IInv
  <1>1. Move /\ MoveTypes
    BY EveryStepMoves, TypesOfMoves
  <1>2. TypeOK'
    BY RingTypeStep, ContextTypeStep, DriverTypeStep DEF TypeOK
  <1>3. HoldInv'
    BY <1>1, HandStep, OwnStep DEF HoldInv
  <1>4. QueueInv' /\ KeptInv' /\ QlenExact'
    BY <1>1, QueueStep, KeptStep, QlenStep
  <1> QED BY <1>2, <1>3, <1>4

\* The invariant holds of every behaviour.
LEMMA Inductive ==
  ASSUME MaxFrags = 1
  PROVE  Spec => []IInv
  <1>1. Init => IInv
    BY InitIInv
  <1>2. IInv /\ [Next]_vars => IInv'
    BY NextIInv
  <1> QED BY <1>1, <1>2, PTL DEF Spec

\* Every variable keeps its type: the index ReclaimHead and fill_txbd_own
\* compute stays inside the ring, for every ring size.
THEOREM TypeCorrect ==
  ASSUME MaxFrags = 1
  PROVE  Spec => []TypeOK
  <1>1. IInv => TypeOK
    BY DEF IInv
  <1> QED BY <1>1, Inductive, PTL

\* ring->qlen counts the buffers on ring->queue, and one slot stays unused:
\* the message of rtl8821ce_tx_isr about a buffer left behind is never logged.
THEOREM QlenCounts ==
  ASSUME MaxFrags = 1
  PROVE  Spec => []QlenExact
  <1>1. IInv => QlenExact
    BY DEF IInv
  <1> QED BY <1>1, Inductive, PTL

\* A transmit buffer is in exactly one place, whatever fails and however often
\* rtl8821ce_reset_bd runs.
THEOREM OwnedOnce ==
  ASSUME MaxFrags = 1
  PROVE  Spec => []OneOwner
  <1>1. IInv => OneOwner
    <2> SUFFICES ASSUME IInv PROVE OneOwner
      OBVIOUS
    <2>1. MoveTypes
      BY TypesOfMoves DEF IInv
    <2>2. \A q \in Ring : DOMAIN list[q] = Slot(q)
      BY <2>1 DEF MoveTypes
    <2>3. \A b \in Buf : b # NoBuf
      BY <2>1 DEF MoveTypes
    <2> QED BY <2>2, <2>3 DEF IInv, OneOwner, OnRing, HoldInv, OwnInv, QueueInv, KeptInv
  <1> QED BY <1>1, Inductive, PTL

-----------------------------------------------------------------------------
(* The ring and the device's pointers.                                     *)

\* A ring with oldest slot i, cached read pointer c, read pointer rp, write
\* pointer wp, list l and descriptors d: seen from i, the cached pointer comes
\* first, the read pointer next and the write pointer last, and the
\* descriptors from i on point to the buffers of the list.
Shape(i, c, rp, wp, l, d) ==
  /\ wp = (i + Len(l)) % Entries
  /\ \E r \in 0 .. Len(l) :
       rp = (i + r) % Entries /\ \E s \in 0 .. r : c = (i + s) % Entries
  /\ \A k \in 1 .. Len(l) : d[(i + k - 1) % Entries] = l[k]

RingShape(q) == Shape(idx[q], cache[q], hwRp[q], hwWp[q], list[q], desc[q])

LEMMA EntriesPositive == Entries \in Nat \ {0}
  BY RingAssumption

\* One slot further, counted from the next slot or from this one.
LEMMA SlotShift ==
  ASSUME NEW i \in Nat, NEW k \in Int
  PROVE  (((i + 1) % Entries) + k) % Entries = (i + 1 + k) % Entries
  <1>1. i + 1 \in Int
    OBVIOUS
  <1> QED BY <1>1, EntriesPositive, ModAdd

\* rtl8821ce_dump_xframe fills the slot behind the newest one.
LEMMA ShapeQueue ==
  ASSUME NEW i \in 0 .. Entries - 1, NEW c, NEW rp, NEW wp, NEW l, NEW d, NEW S,
         NEW m, NEW b \in S,
         d \in [0 .. Entries - 1 -> S], Len(l) \in Nat, Len(l) < Entries,
         Len(m) = Len(l) + 1, \A k \in 1 .. Len(l) : m[k] = l[k], m[Len(l) + 1] = b,
         Shape(i, c, rp, wp, l, d)
  PROVE  Shape(i, c, rp, (i + Len(l) + 1) % Entries, m,
               [d EXCEPT ![(i + Len(l)) % Entries] = b])
  <1> DEFINE n == Len(l)
             e == [d EXCEPT ![(i + n) % Entries] = b]
  <1>0. n \in Nat /\ Entries \in Nat \ {0} /\ i \in Int
    BY EntriesPositive
  <1>1. (i + n + 1) % Entries = (i + Len(m)) % Entries
    <2>1. i + n + 1 = i + (n + 1)
      BY <1>0
    <2> QED BY <2>1
  <1>2. \E r \in 0 .. Len(m) :
          rp = (i + r) % Entries /\ \E s \in 0 .. r : c = (i + s) % Entries
    <2>1. PICK r \in 0 .. n : rp = (i + r) % Entries /\ \E s \in 0 .. r : c = (i + s) % Entries
      BY DEF Shape
    <2>2. r \in 0 .. Len(m)
      BY <1>0, <2>1
    <2> QED BY <2>1, <2>2
  <1>3. \A k \in 1 .. Len(m) : e[(i + k - 1) % Entries] = m[k]
    <2> TAKE k \in 1 .. Len(m)
    <2>1. k \in Int /\ i + k - 1 \in Nat /\ i + n \in Nat
      BY <1>0
    <2>2. (i + k - 1) % Entries \in 0 .. Entries - 1 /\ (i + n) % Entries \in 0 .. Entries - 1
      BY <2>1, IndexInRange
    <2>3. CASE k = n + 1
      <3>1. i + k - 1 = i + n
        BY <1>0, <2>3
      <3> QED BY <2>2, <2>3, <3>1
    <2>4. CASE k # n + 1
      <3>1. k \in 1 .. n
        BY <1>0, <2>4
      <3>2. (i + k - 1) - (i + n) < Entries /\ (i + n) - (i + k - 1) < Entries
        BY <1>0, <3>1
      <3>3. i + k - 1 # i + n
        BY <1>0, <3>1
      <3>4. (i + k - 1) % Entries # (i + n) % Entries
        <4> DEFINE x == i + k - 1
                   y == i + n
        <4>1. x \in Int /\ y \in Int /\ x - y < Entries /\ y - x < Entries /\ x # y
          BY <2>1, <3>2, <3>3
        <4> HIDE DEF x, y
        <4>2. x % Entries # y % Entries
          BY <1>0, <4>1, ModEqual
        <4> QED BY <4>2 DEF x, y
      <3>5. e[(i + k - 1) % Entries] = d[(i + k - 1) % Entries]
        BY <2>2, <3>4
      <3>6. d[(i + k - 1) % Entries] = l[k] /\ m[k] = l[k]
        BY <3>1 DEF Shape
      <3> QED BY <3>5, <3>6
    <2> QED BY <2>3, <2>4
  <1> QED BY <1>1, <1>2, <1>3 DEF Shape

\* The device fetches a frame.
LEMMA ShapeFetch ==
  ASSUME NEW i \in 0 .. Entries - 1, NEW c, NEW rp, NEW wp, NEW l, NEW d,
         Len(l) \in Nat, rp # wp, Shape(i, c, rp, wp, l, d)
  PROVE  Shape(i, c, (rp + 1) % Entries, wp, l, d)
  <1>0. Entries \in Nat \ {0} /\ i \in Int
    BY EntriesPositive
  <1>1. PICK r \in 0 .. Len(l) :
          rp = (i + r) % Entries /\ \E s \in 0 .. r : c = (i + s) % Entries
    BY DEF Shape
  <1>2. PICK s \in 0 .. r : c = (i + s) % Entries
    BY <1>1
  <1>3. r # Len(l)
    BY <1>1 DEF Shape
  <1>4. r + 1 \in 0 .. Len(l) /\ s \in 0 .. r + 1
    BY <1>3
  <1>5. (rp + 1) % Entries = (i + (r + 1)) % Entries
    <2>1. i + r \in Int /\ (i + r) + 1 = i + (r + 1)
      BY <1>0
    <2>2. (((i + r) % Entries) + 1) % Entries = ((i + r) + 1) % Entries
      <3> DEFINE x == i + r
      <3>1. x \in Int /\ 1 \in Int
        BY <2>1
      <3> HIDE DEF x
      <3>2. ((x % Entries) + 1) % Entries = (x + 1) % Entries
        BY <1>0, <3>1, ModAdd
      <3> QED BY <3>2 DEF x
    <2> QED BY <1>1, <2>1, <2>2
  <1>6. \E t \in 0 .. Len(l) :
          (rp + 1) % Entries = (i + t) % Entries /\ \E u \in 0 .. t : c = (i + u) % Entries
    BY <1>2, <1>4, <1>5
  <1> QED BY <1>6 DEF Shape

\* The handler reads the read pointer, or trusts the cached one.
LEMMA ShapeSync ==
  ASSUME NEW i \in 0 .. Entries - 1, NEW c, NEW rp, NEW wp, NEW l, NEW d,
         Len(l) \in Nat, Shape(i, c, rp, wp, l, d), NEW z, z = rp \/ z = c
  PROVE  Shape(i, z, rp, wp, l, d)
  <1>1. PICK r \in 0 .. Len(l) :
          rp = (i + r) % Entries /\ \E s \in 0 .. r : c = (i + s) % Entries
    BY DEF Shape
  <1>2. \E s \in 0 .. r : z = (i + s) % Entries
    <2>1. CASE z = rp
      <3>1. r \in 0 .. r
        OBVIOUS
      <3> QED BY <1>1, <2>1, <3>1
    <2>2. CASE z = c
      BY <1>1, <2>2
    <2> QED BY <2>1, <2>2
  <1> QED BY <1>1, <1>2 DEF Shape

\* The handler gives the oldest buffer back.
LEMMA ShapeReclaim ==
  ASSUME NEW i \in 0 .. Entries - 1, NEW c, NEW rp, NEW wp, NEW l, NEW d, NEW m,
         Len(l) \in Nat \ {0}, Len(m) = Len(l) - 1,
         \A k \in 1 .. Len(l) - 1 : m[k] = l[k + 1],
         i # c, Shape(i, c, rp, wp, l, d)
  PROVE  Shape((i + 1) % Entries, c, rp, wp, m, d)
  <1> DEFINE j == (i + 1) % Entries
  <1>0. Entries \in Nat \ {0} /\ i \in Nat
    BY EntriesPositive
  <1>1. ASSUME NEW k \in Nat \ {0} PROVE (j + (k - 1)) % Entries = (i + k) % Entries
    <2>1. k - 1 \in Int /\ i + 1 + (k - 1) = i + k
      BY <1>0
    <2>2. (j + (k - 1)) % Entries = (i + 1 + (k - 1)) % Entries
      BY <1>0, <2>1, SlotShift
    <2> QED BY <2>1, <2>2
  <1>2. wp = (j + Len(m)) % Entries
    BY <1>1 DEF Shape
  <1>3. PICK r \in 0 .. Len(l) :
          rp = (i + r) % Entries /\ \E s \in 0 .. r : c = (i + s) % Entries
    BY DEF Shape
  <1>4. PICK s \in 0 .. r : c = (i + s) % Entries
    BY <1>3
  <1>5. s # 0
    <2>1. i % Entries = i
      BY <1>0, ModSmall
    <2>2. i + 0 = i
      BY <1>0
    <2> QED BY <1>4, <2>1, <2>2
  <1>6. /\ r - 1 \in 0 .. Len(m) /\ s - 1 \in 0 .. r - 1
        /\ r \in Nat \ {0} /\ s \in Nat \ {0}
    BY <1>5
  <1>7. rp = (j + (r - 1)) % Entries /\ c = (j + (s - 1)) % Entries
    BY <1>1, <1>3, <1>4, <1>6
  <1>8. \E t \in 0 .. Len(m) :
          rp = (j + t) % Entries /\ \E u \in 0 .. t : c = (j + u) % Entries
    BY <1>6, <1>7
  <1>9. \A k \in 1 .. Len(m) : d[(j + k - 1) % Entries] = m[k]
    <2> TAKE k \in 1 .. Len(m)
    <2>1. k \in 1 .. Len(l) - 1 /\ k + 1 \in 1 .. Len(l) /\ k \in Nat \ {0}
      OBVIOUS
    <2>2. d[(i + (k + 1) - 1) % Entries] = l[k + 1]
      BY <2>1 DEF Shape
    <2>3. i + (k + 1) - 1 = i + k
      BY <1>0, <2>1
    <2>4. (j + (k - 1)) % Entries = (i + k) % Entries
      BY <1>1, <2>1
    <2>5. j \in 0 .. Entries - 1
      <3>1. i + 1 \in Nat
        BY <1>0
      <3> QED BY <3>1, IndexInRange
    <2>6. j + (k - 1) = j + k - 1
      <3> HIDE DEF j
      <3> QED BY <1>0, <2>1, <2>5
    <2>7. m[k] = l[k + 1]
      BY <2>1
    <2> HIDE DEF j
    <2> QED BY <2>2, <2>3, <2>4, <2>6, <2>7
  <1> QED BY <1>2, <1>8, <1>9 DEF Shape

\* DmaSafe of one ring.
SafeAt(rp, wp, l, d) ==
  /\ Distance(rp, wp) <= Len(l)
  /\ \A k \in 1 .. Distance(rp, wp) :
       d[(rp + k - 1) % Entries] = l[Len(l) - Distance(rp, wp) + k]

\* What the device has yet to fetch is the end of the list.
LEMMA ShapeSafe ==
  ASSUME NEW i \in 0 .. Entries - 1, NEW c, NEW rp \in 0 .. Entries - 1,
         NEW wp \in 0 .. Entries - 1, NEW l, NEW d,
         Len(l) \in Nat, Len(l) < Entries, Shape(i, c, rp, wp, l, d)
  PROVE  SafeAt(rp, wp, l, d)
  <1>0. Entries \in Nat \ {0} /\ i \in Int
    BY EntriesPositive
  <1>1. PICK r \in 0 .. Len(l) : rp = (i + r) % Entries
    BY DEF Shape
  <1>2. Distance(rp, wp) = (wp - rp) % Entries
    <2>1. CASE rp <= wp
      <3>1. wp - rp \in 0 .. Entries - 1
        BY <1>0, <2>1
      <3>2. (wp - rp) % Entries = wp - rp
        BY <1>0, <3>1, ModSmall
      <3> QED BY <2>1, <3>2 DEF Distance
    <2>2. CASE ~(rp <= wp)
      <3>1. wp - rp \in Int /\ -Entries <= wp - rp /\ wp - rp < 0
        BY <1>0, <2>2
      <3>2. (wp - rp) % Entries = wp - rp + Entries
        BY <1>0, <3>1, ModNegative
      <3> QED BY <2>2, <3>2 DEF Distance
    <2> QED BY <2>1, <2>2
  <1>3. (wp - rp) % Entries = Len(l) - r
    <2>1. wp = (i + Len(l)) % Entries
      BY DEF Shape
    <2>2. i + Len(l) \in Int /\ i + r \in Int /\ (i + Len(l)) - (i + r) = Len(l) - r
      BY <1>0
    <2>3. (((i + Len(l)) % Entries) - ((i + r) % Entries)) % Entries
          = ((i + Len(l)) - (i + r)) % Entries
      <3> DEFINE x == i + Len(l)
                 y == i + r
      <3>1. x \in Int /\ y \in Int
        BY <2>2
      <3> HIDE DEF x, y
      <3>2. ((x % Entries) - (y % Entries)) % Entries = (x - y) % Entries
        BY <1>0, <3>1, ModDiff
      <3> QED BY <3>2 DEF x, y
    <2>4. Len(l) - r \in 0 .. Entries - 1
      BY <1>0
    <2>5. (Len(l) - r) % Entries = Len(l) - r
      BY <1>0, <2>4, ModSmall
    <2>6. (wp - rp) % Entries = ((i + Len(l)) - (i + r)) % Entries
      BY <1>1, <2>1, <2>3
    <2>7. ((i + Len(l)) - (i + r)) % Entries = (Len(l) - r) % Entries
      BY <2>2
    <2> QED BY <2>5, <2>6, <2>7
  <1>4. Distance(rp, wp) = Len(l) - r
    BY <1>2, <1>3
  <1>5. ASSUME NEW k \in 1 .. Len(l) - r
        PROVE  d[(rp + k - 1) % Entries] = l[Len(l) - (Len(l) - r) + k]
    <2>1. r + k \in 1 .. Len(l) /\ Len(l) - (Len(l) - r) + k = r + k
      OBVIOUS
    <2>2. k - 1 \in Int /\ i + r \in Int
      BY <1>0
    <2>3. (((i + r) % Entries) + (k - 1)) % Entries = (i + r + (k - 1)) % Entries
      BY <1>0, <2>2, ModAdd
    <2>4. rp + k - 1 = rp + (k - 1) /\ i + r + (k - 1) = i + (r + k) - 1
      BY <1>0
    <2>5. (rp + k - 1) % Entries = (i + (r + k) - 1) % Entries
      BY <1>1, <2>3, <2>4
    <2>6. d[(i + (r + k) - 1) % Entries] = l[r + k]
      BY <2>1 DEF Shape
    <2> QED BY <2>1, <2>5, <2>6
  <1>6. Len(l) - r <= Len(l)
    OBVIOUS
  <1> QED BY <1>4, <1>5, <1>6 DEF SafeAt

-----------------------------------------------------------------------------
(* How a ring moves, whatever the action.                                  *)

QueueAt(q, b) ==
  /\ b \in Buf /\ IsQueued(q, b)
  /\ desc' = [desc EXCEPT ![q] = [desc[q] EXCEPT ![(idx[q] + Len(list[q])) % Entries] = b]]
  /\ hwWp' = [hwWp EXCEPT ![q] = (idx[q] + Len(list[q]) + 1) % Entries]
  /\ UNCHANGED <<idx, cache, hwRp>>

FetchAt(q) ==
  /\ hwRp[q] # hwWp[q]
  /\ hwRp' = [hwRp EXCEPT ![q] = (hwRp[q] + 1) % Entries]
  /\ UNCHANGED <<idx, cache, hwWp, list, desc>>

SyncAt(q) ==
  /\ cache' = [cache EXCEPT ![q] = SyncedCache(q)]
  /\ UNCHANGED <<idx, hwRp, hwWp, list, desc>>

ReclaimAt(q) ==
  /\ idx[q] # SyncedCache(q)
  /\ cache' = [cache EXCEPT ![q] = SyncedCache(q)]
  /\ idx' = [idx EXCEPT ![q] = (idx[q] + 1) % Entries]
  /\ IsDequeued(q)
  /\ UNCHANGED <<hwRp, hwWp, desc>>

RingMove ==
  \/ \E q \in Ring : \/ \E c \in Context : QueueAt(q, buf[c])
                     \/ FetchAt(q) \/ SyncAt(q) \/ ReclaimAt(q)
  \/ UNCHANGED <<idx, cache, hwRp, hwWp, list, desc>>

\* Every step of a driver that is up is one of these moves.
LEMMA EveryStepMovesRings ==
  ASSUME IInv, dev = "up", [Next]_vars
  PROVE  RingMove
  <1> USE DEF IInv
  <1>1. ASSUME NEW c \in Sender, NEW f \in Flow, PreXmitframe(c, f) PROVE RingMove
    BY <1>1 DEF PreXmitframe, RingMove, ringVars, hwVars
  <1>2. ASSUME NEW c \in Sender, NEW f \in Flow, HalXmitframeEnqueue(c, f) PROVE RingMove
    BY <1>2 DEF HalXmitframeEnqueue, RingMove, ringVars, hwVars
  <1>3. ASSUME NEW c \in Sender, MgntXmit(c) PROVE RingMove
    BY <1>3 DEF MgntXmit, RingMove, ringVars, hwVars
  <1>4. ASSUME NEW c \in Context, PreAlloc(c) PROVE RingMove
    BY <1>4 DEF PreAlloc, RingMove, ringVars, hwVars
  <1>5. ASSUME NEW c \in Context, PreEnqueue(c) PROVE RingMove
    BY <1>5 DEF PreEnqueue, RingMove, ringVars, hwVars
  <1>6. ASSUME NEW c \in Context, HalXmitframeWake(c) PROVE RingMove
    BY <1>6 DEF HalXmitframeWake, RingMove, ringVars, hwVars
  <1>7. ASSUME NEW c \in Context, Coalesce(c) PROVE RingMove
    BY <1>7 DEF Coalesce, RingMove, ringVars, hwVars
  <1>8. ASSUME NEW c \in Context, DumpXframe(c) PROVE RingMove
    <2>1. PICK q \in Ring : q = RingFor(flow[c])
      BY <1>8, DumpQueues
    <2>2. IsQueued(q, buf[c]) /\ buf[c] \in Buf
      BY <1>8, <2>1, DumpQueues
    <2>3. qlen[q] = Len(list[q]) /\ qlen[q] \in Nat /\ idx[q] \in 0 .. Entries - 1
      BY DEF TypeOK, RingTypeOK, QlenExact
    <2>4. desc' = [desc EXCEPT ![q] =
            [desc[q] EXCEPT ![(idx[q] + Len(list[q])) % Entries] = buf[c]]]
      BY <1>8, <2>1, <2>3 DEF DumpXframe, TxbdIndex
    <2>5. qlen'[q] = Len(list[q]) + 1
      BY <1>8, <2>1, <2>3 DEF DumpXframe, TypeOK, RingTypeOK
    <2>6. idx[q] + qlen'[q] = idx[q] + Len(list[q]) + 1
      BY <2>3, <2>5
    <2>7. hwWp' = [hwWp EXCEPT ![q] = (idx[q] + Len(list[q]) + 1) % Entries]
      BY <1>8, <2>1, <2>6 DEF DumpXframe
    <2>8. QueueAt(q, buf[c])
      BY <1>8, <2>2, <2>4, <2>7 DEF DumpXframe, QueueAt
    <2> QED BY <2>8 DEF RingMove
  <1>9. ASSUME NEW c \in Context, DumpNoTxbd(c) PROVE RingMove
    <2>1. list' = list
      BY <1>9, DropKeepsLists
    <2> QED BY <1>9, <2>1 DEF DumpNoTxbd, RingMove, hwVars
  <1>10. ASSUME NEW q \in Ring, HwFetch(q) PROVE RingMove
    <2>1. FetchAt(q)
      BY <1>10 DEF HwFetch, FetchAt, ringVars
    <2> QED BY <2>1 DEF RingMove
  <1>11. ASSUME NEW q \in Ring, IsrReclaim(q) PROVE RingMove
    <2>1. ReclaimAt(q)
      BY <1>11, ReclaimDequeues DEF IsrReclaim, ReclaimAt, ReclaimHead, TxdescClosed, hwVars
    <2> QED BY <2>1 DEF RingMove
  <1>12. ASSUME NEW q \in Ring, IsrNotClosed(q) PROVE RingMove
    <2>1. SyncAt(q)
      BY <1>12 DEF IsrNotClosed, SyncAt, hwVars
    <2> QED BY <2>1 DEF RingMove
  <1>13. ASSUME NEW q \in Ring, IsrDrained(q) PROVE RingMove
    BY <1>13 DEF IsrDrained, RingMove, ringVars, hwVars
  <1>14. CASE TaskletStart
    BY <1>14 DEF TaskletStart, RingMove, ringVars, hwVars
  <1>15. CASE ResumeCheck
    BY <1>15 DEF ResumeCheck, RingMove, ringVars, hwVars
  <1>16. CASE ResumeAlloc
    BY <1>16 DEF ResumeAlloc, RingMove, ringVars, hwVars
  <1>17. CASE ResumeDequeue
    BY <1>17 DEF ResumeDequeue, RingMove, ringVars, hwVars
  <1>18. CASE IsrEnter
    BY <1>18 DEF IsrEnter, RingMove, ringVars, hwVars
  <1>19. CASE BlockStart
    BY <1>19 DEF BlockStart, RingMove, ringVars, hwVars
  <1>20. CASE BlockEnd
    BY <1>20 DEF BlockEnd, RingMove, ringVars, hwVars
  <1>21. CASE OsXmitSchedule
    BY <1>21 DEF OsXmitSchedule, RingMove, ringVars, hwVars
  <1>22. CASE DriverStop
    BY <1>22 DEF DriverStop, RingMove, ringVars, hwVars
  <1>23. CASE PciIntfStop
    BY <1>23 DEF PciIntfStop
  <1>24. CASE HalInit
    BY <1>24 DEF HalInit
  <1>25. CASE UNCHANGED vars
    BY <1>25 DEF vars, RingMove, ringVars, hwVars
  <1> QED
    BY <1>1, <1>2, <1>3, <1>4, <1>5, <1>6, <1>7, <1>8, <1>9, <1>10, <1>11,
       <1>12, <1>13, <1>14, <1>15, <1>16, <1>17, <1>18, <1>19, <1>20,
       <1>21, <1>22, <1>23, <1>24, <1>25 DEF Next, Send, Continue,
       TaskletStep, IsrStep

\* A move keeps the shape of every ring.
LEMMA ShapeStep ==
  ASSUME IInv, \A q \in Ring : RingShape(q), RingMove
  PROVE  \A q \in Ring : RingShape(q)'
  <1>1. RingTypeOK /\ \A q \in Ring : Len(list[q]) \in Nat /\ Len(list[q]) < Entries
    BY DEF IInv, TypeOK, RingTypeOK, QlenExact
  <1>2. ASSUME NEW q \in Ring, idx'[q] = idx[q], cache'[q] = cache[q], hwRp'[q] = hwRp[q],
               hwWp'[q] = hwWp[q], list'[q] = list[q], desc'[q] = desc[q]
        PROVE  RingShape(q)'
    BY <1>2 DEF RingShape, Shape
  <1>3. ASSUME NEW q \in Ring, NEW c \in Context, QueueAt(q, buf[c]), NEW r \in Ring
        PROVE  RingShape(r)'
    <2>1. CASE r # q
      <3>1. /\ idx'[r] = idx[r] /\ cache'[r] = cache[r] /\ hwRp'[r] = hwRp[r]
            /\ hwWp'[r] = hwWp[r] /\ list'[r] = list[r] /\ desc'[r] = desc[r]
        BY <1>1, <1>3, <2>1 DEF QueueAt, IsQueued, RingTypeOK
      <3> QED BY <1>2, <3>1
    <2>2. CASE r = q
      <3>1. /\ idx'[q] = idx[q] /\ cache'[q] = cache[q] /\ hwRp'[q] = hwRp[q]
            /\ hwWp'[q] = (idx[q] + Len(list[q]) + 1) % Entries
            /\ desc'[q] = [desc[q] EXCEPT ![(idx[q] + Len(list[q])) % Entries] = buf[c]]
        BY <1>1, <1>3 DEF QueueAt, RingTypeOK
      <3>2. /\ idx[q] \in 0 .. Entries - 1 /\ desc[q] \in [0 .. Entries - 1 -> Buf \cup {NoBuf}]
            /\ buf[c] \in Buf \cup {NoBuf}
        BY <1>1, <1>3 DEF QueueAt, RingTypeOK
      <3>3. /\ Len(list'[q]) = Len(list[q]) + 1 /\ list'[q][Len(list[q]) + 1] = buf[c]
            /\ \A k \in 1 .. Len(list[q]) : list'[q][k] = list[q][k]
        BY <1>3 DEF QueueAt, IsQueued
      <3>4. Shape(idx[q], cache[q], hwRp[q], hwWp[q], list[q], desc[q])
        BY DEF RingShape
      <3>5. Shape(idx[q], cache[q], hwRp[q], (idx[q] + Len(list[q]) + 1) % Entries, list'[q],
                  [desc[q] EXCEPT ![(idx[q] + Len(list[q])) % Entries] = buf[c]])
        BY <1>1, <3>2, <3>3, <3>4, ShapeQueue
      <3>6. RingShape(q)'
        BY <3>1, <3>5 DEF RingShape, Shape
      <3> QED BY <2>2, <3>6
    <2> QED BY <2>1, <2>2
  <1>4. ASSUME NEW q \in Ring, FetchAt(q), NEW r \in Ring PROVE RingShape(r)'
    <2>1. CASE r # q
      BY <1>1, <1>2, <1>4, <2>1 DEF FetchAt, RingTypeOK
    <2>2. CASE r = q
      <3>1. /\ idx'[q] = idx[q] /\ cache'[q] = cache[q] /\ hwRp'[q] = (hwRp[q] + 1) % Entries
            /\ hwWp'[q] = hwWp[q] /\ list'[q] = list[q] /\ desc'[q] = desc[q]
            /\ hwRp[q] # hwWp[q] /\ idx[q] \in 0 .. Entries - 1
        BY <1>1, <1>4 DEF FetchAt, RingTypeOK
      <3>2. Shape(idx[q], cache[q], (hwRp[q] + 1) % Entries, hwWp[q], list[q], desc[q])
        BY <1>1, <3>1, ShapeFetch DEF RingShape
      <3>3. RingShape(q)'
        BY <3>1, <3>2 DEF RingShape, Shape
      <3> QED BY <2>2, <3>3
    <2> QED BY <2>1, <2>2
  <1>5. ASSUME NEW q \in Ring
        PROVE  Shape(idx[q], SyncedCache(q), hwRp[q], hwWp[q], list[q], desc[q])
    <2>1. SyncedCache(q) = hwRp[q] \/ SyncedCache(q) = cache[q]
      BY DEF SyncedCache
    <2>2. idx[q] \in 0 .. Entries - 1
      BY <1>1 DEF RingTypeOK
    <2> QED BY <1>1, <2>1, <2>2, ShapeSync DEF RingShape
  <1>6. ASSUME NEW q \in Ring, SyncAt(q), NEW r \in Ring PROVE RingShape(r)'
    <2>1. CASE r # q
      BY <1>1, <1>2, <1>6, <2>1 DEF SyncAt, RingTypeOK
    <2>2. CASE r = q
      <3>1. /\ idx'[q] = idx[q] /\ cache'[q] = SyncedCache(q) /\ hwRp'[q] = hwRp[q]
            /\ hwWp'[q] = hwWp[q] /\ list'[q] = list[q] /\ desc'[q] = desc[q]
        BY <1>1, <1>6 DEF SyncAt, RingTypeOK
      <3>2. RingShape(q)'
        BY <1>5, <3>1 DEF RingShape, Shape
      <3> QED BY <2>2, <3>2
    <2> QED BY <2>1, <2>2
  <1>7. ASSUME NEW q \in Ring, ReclaimAt(q), NEW r \in Ring PROVE RingShape(r)'
    <2>1. CASE r # q
      <3>1. /\ idx'[r] = idx[r] /\ cache'[r] = cache[r] /\ hwRp'[r] = hwRp[r]
            /\ hwWp'[r] = hwWp[r] /\ list'[r] = list[r] /\ desc'[r] = desc[r]
        BY <1>1, <1>7, <2>1 DEF ReclaimAt, IsDequeued, RingTypeOK
      <3> QED BY <1>2, <3>1
    <2>2. CASE r = q
      <3>1. /\ idx'[q] = (idx[q] + 1) % Entries /\ cache'[q] = SyncedCache(q)
            /\ hwRp'[q] = hwRp[q] /\ hwWp'[q] = hwWp[q] /\ desc'[q] = desc[q]
            /\ idx[q] # SyncedCache(q) /\ idx[q] \in 0 .. Entries - 1
        BY <1>1, <1>7 DEF ReclaimAt, RingTypeOK
      <3>2. /\ Len(list[q]) \in Nat \ {0} /\ Len(list'[q]) = Len(list[q]) - 1
            /\ \A k \in 1 .. Len(list[q]) - 1 : list'[q][k] = list[q][k + 1]
        BY <1>7 DEF ReclaimAt, IsDequeued
      <3>3. Shape((idx[q] + 1) % Entries, SyncedCache(q), hwRp[q], hwWp[q], list'[q], desc[q])
        BY <1>5, <3>1, <3>2, ShapeReclaim
      <3>4. RingShape(q)'
        BY <3>1, <3>3 DEF RingShape, Shape
      <3> QED BY <2>2, <3>4
    <2> QED BY <2>1, <2>2
  <1>8. CASE UNCHANGED <<idx, cache, hwRp, hwWp, list, desc>>
    BY <1>2, <1>8
  <1> QED BY <1>3, <1>4, <1>6, <1>7, <1>8 DEF RingMove

\* While the interface has not been stopped.
FirstRun == stops = 0 => dev = "up" /\ \A q \in Ring : RingShape(q)

\* A driver that has not been stopped was not stopped before.
LEMMA FirstStop ==
  ASSUME IInv, [Next]_vars, stops' = 0
  PROVE  stops = 0
  <1>1. stops \in Nat
    BY DEF IInv, TypeOK, DriverTypeOK
  <1>2. CASE DriverStop
    BY <1>1, <1>2 DEF DriverStop
  <1>3. CASE ~DriverStop
    BY <1>3 DEF vars, envVars, Next, Send, Continue, TaskletStep, IsrStep, PreXmitframe,
       HalXmitframeEnqueue, MgntXmit, PreAlloc, PreEnqueue, HalXmitframeWake, Coalesce,
       DumpXframe, DumpNoTxbd, TaskletStart, ResumeCheck, ResumeAlloc, ResumeDequeue,
       HwFetch, IsrEnter, IsrReclaim, IsrNotClosed, IsrDrained, BlockStart, BlockEnd,
       OsXmitSchedule, PciIntfStop, HalInit
  <1> QED BY <1>2, <1>3

LEMMA FirstRunStep ==
  ASSUME IInv, FirstRun, [Next]_vars
  PROVE  FirstRun'
  <1> SUFFICES ASSUME stops' = 0
               PROVE  dev' = "up" /\ \A q \in Ring : RingShape(q)'
    BY DEF FirstRun
  <1>1. stops \in Nat
    BY DEF IInv, TypeOK, DriverTypeOK
  <1>2. stops = 0
    BY FirstStop
  <1>3. dev = "up" /\ \A q \in Ring : RingShape(q)
    BY <1>2 DEF FirstRun
  <1>4. dev' = "up"
    <2>1. CASE DriverStop
      BY <1>1, <1>2, <2>1 DEF DriverStop
    <2>2. CASE ~DriverStop
      BY <1>3, <2>2 DEF vars, envVars, Next, Send, Continue, TaskletStep, IsrStep, PreXmitframe,
         HalXmitframeEnqueue, MgntXmit, PreAlloc, PreEnqueue, HalXmitframeWake, Coalesce,
         DumpXframe, DumpNoTxbd, TaskletStart, ResumeCheck, ResumeAlloc, ResumeDequeue,
         HwFetch, IsrEnter, IsrReclaim, IsrNotClosed, IsrDrained, BlockStart, BlockEnd,
         OsXmitSchedule, PciIntfStop, HalInit
    <2> QED BY <2>1, <2>2
  <1>5. \A q \in Ring : RingShape(q)'
    BY <1>3, EveryStepMovesRings, ShapeStep
  <1> QED BY <1>4, <1>5

LEMMA FirstRunInit ==
  ASSUME Init
  PROVE  FirstRun
  <1> SUFFICES ASSUME NEW q \in Ring PROVE RingShape(q)
    BY DEF Init, FirstRun
  <1>1. idx[q] = 0 /\ cache[q] = 0 /\ hwRp[q] = 0 /\ hwWp[q] = 0 /\ Len(list[q]) = 0
    BY DEF Init
  <1>2. 0 % Entries = 0
    <2>1. 0 \in 0 .. Entries - 1
      BY RingAssumption
    <2> QED BY <2>1, EntriesPositive, ModSmall
  <1>3. 0 \in 0 .. 0 /\ 0 + 0 = 0
    OBVIOUS
  <1> QED BY <1>1, <1>2, <1>3 DEF RingShape, Shape

\* DMA safety for every ring size and any number of frames, until the interface
\* is stopped for the first time: rtl8821ce_tx_isr never gives back a buffer
\* the device has yet to fetch, and the descriptors it has yet to fetch are
\* those fill_txbd_own published, in their order.  (rtl8821ce_reset_bd breaks
\* it afterwards: it does not reset hw_rp_cache.)
THEOREM DmaSafeUntilStop ==
  ASSUME MaxFrags = 1
  PROVE  Spec => []DmaSafeBeforeStop
  <1>1. Init => FirstRun
    BY FirstRunInit
  <1>2. IInv /\ FirstRun /\ [Next]_vars => FirstRun'
    BY FirstRunStep
  <1>3. IInv /\ FirstRun => DmaSafeBeforeStop
    <2> SUFFICES ASSUME IInv, FirstRun, stops = 0, NEW q \in Ring
                 PROVE  SafeAt(hwRp[q], hwWp[q], list[q], desc[q])
      BY DEF DmaSafeBeforeStop, DmaSafe, SafeAt
    <2>1. Shape(idx[q], cache[q], hwRp[q], hwWp[q], list[q], desc[q])
      BY DEF FirstRun, RingShape
    <2>2. /\ idx[q] \in 0 .. Entries - 1 /\ hwRp[q] \in 0 .. Entries - 1
          /\ hwWp[q] \in 0 .. Entries - 1 /\ Len(list[q]) \in Nat /\ Len(list[q]) < Entries
      BY DEF IInv, TypeOK, RingTypeOK, QlenExact
    <2> QED BY <2>1, <2>2, ShapeSafe
  <1> QED BY <1>1, <1>2, <1>3, Inductive, PTL DEF Spec

-----------------------------------------------------------------------------
(* Management frames.                                                      *)

\* A frame that rtl8821ce_mgnt_xmit brings to the ring is in a buffer of the
\* management pool; every other frame on its way belongs to a flow.
MgntFrames ==
  /\ \A c \in Context : pc[c] = "dump" /\ flow[c] = Mgnt => buf[c] \in MgntBuf
  /\ \A c \in Context : pc[c] = "coalesce" => flow[c] # Mgnt
  /\ \A c \in Sender : pc[c] = "alloc" => flow[c] # Mgnt

\* The management ring holds nothing else.
MgntRingInv == \A i \in Slot(MgntRing) : list[MgntRing][i] \in MgntBuf

\* A buffer in the hands of rtl8821ce_dump_xframe and those on the management
\* ring are different buffers of the pool, so there is room for one more.
LEMMA MgntRoom ==
  ASSUME IInv, MgntFrames, MgntRingInv, IsFiniteSet(MgntBuf), Cardinality(MgntBuf) < Entries,
         NEW c \in Context, pc[c] = "dump", flow[c] = Mgnt
  PROVE  TxbdAvailable(MgntRing)
  <1> DEFINE l == list[MgntRing]
             n == Len(l)
             f == [i \in 1 .. n + 1 |-> IF i = n + 1 THEN buf[c] ELSE l[i]]
  <1>1. MgntRing \in Ring /\ n \in Nat /\ Slot(MgntRing) = 1 .. n
    BY RingAssumption, TypesOfMoves DEF IInv, MoveTypes, Slot
  <1>2. /\ buf[c] \in MgntBuf /\ \A i \in 1 .. n : l[i] \in MgntBuf
        /\ \A i \in 1 .. n : l[i] # buf[c]
        /\ \A i, j \in 1 .. n : l[i] = l[j] => i = j
    BY <1>1 DEF IInv, QueueInv, MgntFrames, MgntRingInv
  <1> HIDE DEF n, l
  <1>3. f \in [1 .. n + 1 -> MgntBuf] /\ \A i, j \in 1 .. n + 1 : f[i] = f[j] => i = j
    BY <1>1, <1>2
  <1> HIDE DEF f
  <1>4. f \in Injection(1 .. n + 1, MgntBuf)
    BY <1>3, Fun_IsInj, Zenon
  <1>5. Cardinality(1 .. n + 1) <= Cardinality(MgntBuf) /\ Cardinality(MgntBuf) \in Nat
    BY <1>4, FS_Injection, FS_CardinalityType, Zenon
  <1>6. Cardinality(1 .. n + 1) = n + 1
    BY <1>1, FS_Interval
  <1>7. n + 1 < Entries /\ Entries \in Nat
    BY <1>1, <1>5, <1>6, RingAssumption
  <1>8. qlen[MgntRing] = n
    BY <1>1 DEF IInv, QlenExact, l, n
  <1> QED BY <1>1, <1>7, <1>8 DEF TxbdAvailable

\* Every step keeps frames and pools apart: only MgntXmit uses the flow Mgnt,
\* and it takes its buffer from the management pool.
LEMMA MgntFramesStep ==
  ASSUME MaxFrags = 1, IInv, MgntFrames, [Next]_vars
  PROVE  MgntFrames'
  <1> USE RingAssumption DEF MgntFrames, IInv, Context, NextPc, TypeOK, ContextTypeOK, ringVars,
       hwVars, ctxVars, envVars
  <1>1. ASSUME NEW c \in Sender, NEW f \in Flow, PreXmitframe(c, f) PROVE MgntFrames'
    BY <1>1 DEF PreXmitframe
  <1>2. ASSUME NEW c \in Sender, NEW f \in Flow, HalXmitframeEnqueue(c, f) PROVE MgntFrames'
    BY <1>2 DEF HalXmitframeEnqueue
  <1>3. ASSUME NEW c \in Sender, MgntXmit(c) PROVE MgntFrames'
    BY <1>3 DEF MgntXmit
  <1>4. ASSUME NEW c \in Context, PreAlloc(c) PROVE MgntFrames'
    BY <1>4 DEF PreAlloc
  <1>5. ASSUME NEW c \in Context, PreEnqueue(c) PROVE MgntFrames'
    BY <1>5 DEF PreEnqueue
  <1>6. ASSUME NEW c \in Context, HalXmitframeWake(c) PROVE MgntFrames'
    BY <1>6 DEF HalXmitframeWake
  <1>7. ASSUME NEW c \in Context, Coalesce(c) PROVE MgntFrames'
    BY <1>7 DEF Coalesce
  <1>8. ASSUME NEW c \in Context, DumpXframe(c) PROVE MgntFrames'
    <2>1. FrameDone(c) /\ flow' = flow
      BY <1>8, DumpQueues DEF DumpXframe
    <2> QED BY <2>1 DEF FrameDone
  <1>9. ASSUME NEW c \in Context, DumpNoTxbd(c) PROVE MgntFrames'
    BY <1>9 DEF DumpNoTxbd, FrameDone
  <1>10. ASSUME NEW q \in Ring, HwFetch(q) PROVE MgntFrames'
    BY <1>10 DEF HwFetch
  <1>11. ASSUME NEW q \in Ring, IsrReclaim(q) PROVE MgntFrames'
    BY <1>11 DEF IsrReclaim
  <1>12. ASSUME NEW q \in Ring, IsrNotClosed(q) PROVE MgntFrames'
    BY <1>12 DEF IsrNotClosed
  <1>13. ASSUME NEW q \in Ring, IsrDrained(q) PROVE MgntFrames'
    BY <1>13 DEF IsrDrained
  <1>14. CASE TaskletStart
    BY <1>14 DEF TaskletStart
  <1>15. CASE ResumeCheck
    BY <1>15 DEF ResumeCheck
  <1>16. CASE ResumeAlloc
    BY <1>16 DEF ResumeAlloc
  <1>17. CASE ResumeDequeue
    BY <1>17 DEF ResumeDequeue
  <1>18. CASE IsrEnter
    BY <1>18 DEF IsrEnter
  <1>19. CASE BlockStart
    BY <1>19 DEF BlockStart
  <1>20. CASE BlockEnd
    BY <1>20 DEF BlockEnd
  <1>21. CASE OsXmitSchedule
    BY <1>21 DEF OsXmitSchedule
  <1>22. CASE DriverStop
    BY <1>22 DEF DriverStop
  <1>23. CASE PciIntfStop
    BY <1>23 DEF PciIntfStop, ResetBd
  <1>24. CASE HalInit
    BY <1>24 DEF HalInit, ResetBd
  <1>25. CASE UNCHANGED vars
    BY <1>25 DEF vars
  <1> QED
    BY <1>1, <1>2, <1>3, <1>4, <1>5, <1>6, <1>7, <1>8, <1>9, <1>10, <1>11,
       <1>12, <1>13, <1>14, <1>15, <1>16, <1>17, <1>18, <1>19, <1>20,
       <1>21, <1>22, <1>23, <1>24, <1>25 DEF Next, Send, Continue,
       TaskletStep, IsrStep

\* What goes onto the management ring is a management frame.
LEMMA MgntRingStep ==
  ASSUME IInv, MgntFrames, MgntRingInv, [Next]_vars
  PROVE  MgntRingInv'
  <1>1. MgntRing \in Ring /\ MoveTypes
    BY RingAssumption, TypesOfMoves DEF IInv
  <1>2. ASSUME list' = list PROVE MgntRingInv'
    BY <1>2 DEF MgntRingInv, Slot
  <1>3. ASSUME NEW c \in Context, DumpXframe(c) PROVE MgntRingInv'
    <2>1. PICK q \in Ring : q = RingFor(flow[c]) /\ IsQueued(q, buf[c])
      BY <1>3, DumpQueues DEF IInv
    <2>2. CASE q # MgntRing
      BY <1>1, <2>1, <2>2 DEF IsQueued, MgntRingInv, Slot
    <2>3. CASE q = MgntRing
      <3>1. flow[c] \in Flow \cup {Mgnt} /\ pc[c] = "dump"
        BY <1>3 DEF IInv, TypeOK, ContextTypeOK, DumpXframe
      <3>2. flow[c] = Mgnt
        BY <2>1, <2>3, <3>1, RingAssumption DEF RingFor
      <3>3. buf[c] \in MgntBuf
        BY <3>1, <3>2 DEF MgntFrames
      <3> QED BY <2>1, <2>3, <3>3 DEF IsQueued, MgntRingInv, Slot
    <2> QED BY <2>2, <2>3
  <1>4. ASSUME NEW q \in Ring, IsrReclaim(q) PROVE MgntRingInv'
    <2>1. IsDequeued(q)
      BY <1>4, ReclaimDequeues DEF IInv
    <2>2. CASE q # MgntRing
      BY <1>1, <2>1, <2>2 DEF IsDequeued, MgntRingInv, Slot
    <2>3. CASE q = MgntRing
      BY <2>1, <2>3 DEF IsDequeued, MgntRingInv, Slot
    <2> QED BY <2>2, <2>3
  <1>5. ASSUME ResetBd PROVE MgntRingInv'
    <2>1. list'[MgntRing] = <<>>
      BY <1>1, <1>5 DEF ResetBd
    <2>2. Len(list'[MgntRing]) = 0
      BY <2>1
    <2> QED BY <2>2 DEF MgntRingInv, Slot
  <1>6. ASSUME NEW c \in Context, DumpNoTxbd(c) PROVE MgntRingInv'
    BY <1>2, <1>6, DropKeepsLists DEF IInv
  <1> USE <1>2 DEF ringVars
  <1>7. CASE \E c \in Context : DumpXframe(c) \/ DumpNoTxbd(c)
    BY <1>3, <1>6, <1>7
  <1>8. CASE (\E q \in Ring : IsrReclaim(q)) \/ PciIntfStop \/ HalInit
    BY <1>4, <1>5, <1>8 DEF PciIntfStop, HalInit
  <1>9. CASE UNCHANGED vars
    BY <1>9 DEF vars
  <1>10. CASE Send
    BY <1>10 DEF Send, PreXmitframe, HalXmitframeEnqueue, MgntXmit
  <1>11. CASE \E c \in Context : PreAlloc(c) \/ PreEnqueue(c) \/ HalXmitframeWake(c) \/ Coalesce(c)
    BY <1>11 DEF PreAlloc, PreEnqueue, HalXmitframeWake, Coalesce
  <1>12. CASE TaskletStep
    BY <1>12 DEF TaskletStep, TaskletStart, ResumeCheck, ResumeAlloc, ResumeDequeue
  <1>13. CASE IsrEnter \/ \E q \in Ring : HwFetch(q) \/ IsrNotClosed(q) \/ IsrDrained(q)
    BY <1>13 DEF IsrEnter, HwFetch, IsrNotClosed, IsrDrained
  <1>14. CASE BlockStart \/ BlockEnd \/ OsXmitSchedule \/ DriverStop
    BY <1>14 DEF BlockStart, BlockEnd, OsXmitSchedule, DriverStop
  <1> QED BY <1>7, <1>8, <1>9, <1>10, <1>11, <1>12, <1>13, <1>14 DEF Next, Continue, IsrStep

\* rtl8821ce_mgnt_xmit tests for no descriptor and needs none: as long as its
\* pool is smaller than a ring (NR_XMIT_EXTBUFF is 32, TX_BD_NUM_8821CE 128),
\* none of its frames is lost in rtl8821ce_dump_xframe, whatever else is sent.
THEOREM MgntKept ==
  ASSUME MaxFrags = 1, IsFiniteSet(MgntBuf), Cardinality(MgntBuf) < Entries
  PROVE  Spec => []MgntNotDropped
  <1>1. Init => MgntFrames /\ MgntRingInv /\ MgntNotDropped
    <2> SUFFICES ASSUME Init PROVE MgntFrames /\ MgntRingInv /\ MgntNotDropped
      OBVIOUS
    <2>1. MgntFrames
      BY DEF Init, MgntFrames, Context
    <2>2. Len(list[MgntRing]) = 0
      BY RingAssumption DEF Init
    <2> QED BY <2>1, <2>2 DEF Init, MgntRingInv, MgntNotDropped, Slot
  <1>2. IInv /\ MgntFrames /\ MgntRingInv /\ MgntNotDropped /\ [Next]_vars => MgntNotDropped'
    <2> SUFFICES ASSUME IInv, MgntFrames, MgntRingInv, MgntNotDropped, [Next]_vars
                 PROVE  MgntNotDropped'
      OBVIOUS
    <2>1. ASSUME NEW c \in Context, DumpNoTxbd(c) PROVE MgntNotDropped'
      <3>1. flow[c] # Mgnt
        BY <2>1, MgntRoom DEF DumpNoTxbd, RingFor
      <3> QED BY <2>1, <3>1 DEF DumpNoTxbd, MgntNotDropped
    <2>2. ASSUME \A c \in Context : ~DumpNoTxbd(c) PROVE dropped' = dropped
      BY <2>2 DEF vars, Next, Send, Continue, TaskletStep, IsrStep, PreXmitframe,
         HalXmitframeEnqueue, MgntXmit, PreAlloc, PreEnqueue, HalXmitframeWake, Coalesce,
         DumpXframe, TaskletStart, ResumeCheck, ResumeAlloc, ResumeDequeue,
         HwFetch, IsrEnter, IsrReclaim, IsrNotClosed, IsrDrained, BlockStart, BlockEnd,
         OsXmitSchedule, DriverStop, PciIntfStop, HalInit
    <2> QED BY <2>1, <2>2 DEF MgntNotDropped
  <1>3. IInv /\ MgntFrames /\ MgntRingInv /\ [Next]_vars => MgntFrames' /\ MgntRingInv'
    BY MgntFramesStep, MgntRingStep
  <1> QED BY <1>1, <1>2, <1>3, Inductive, PTL DEF Spec

-----------------------------------------------------------------------------
(* Waiting frames.                                                         *)

\* Why a waiting frame will be taken out: the tasklet is due or busy, a ring is
\* in use or about to be served, or a scan or join has yet to end.
Reason ==
  \/ sched \/ pc[Tasklet] # "idle"
  \/ \E q \in Ring : qlen[q] # 0 \/ q \in isr
  \/ block # "none" \/ resume

\* pxmitpriv->lock is held from the test to the end of the enqueue, and across
\* the whole of rtl8821ce_hal_xmitframe_enqueue.
LockInv ==
  /\ \A c \in Sender : pc[c] \in {"alloc", "enqueue", "wake"} => xlock = c
  /\ pc[Tasklet] \notin {"enqueue", "wake"}
  /\ \A c \in Sender : pc[c] = "wake" => flow[c] \in Flow

\* There is a reason from the moment a sender decides to enqueue its frame, and
\* one for every frame that waits; a frame rtl8821ce_hal_xmitframe_enqueue has
\* just put in the queue gets its reason before the lock is given back.
WaitInv ==
  /\ (\E c \in Sender : pc[c] = "enqueue") => Reason
  /\ Pending /\ (\A c \in Sender : pc[c] # "wake") => Reason

\* When the pool is empty and fewer contexts than it has buffers hold one, a
\* ring is in use.
LEMMA PoolOnRing ==
  ASSUME IInv, IsFiniteSet(DataBuf), free \cap DataBuf = {},
         NEW S \in SUBSET Context, IsFiniteSet(S), Cardinality(S) < Cardinality(DataBuf),
         \A c \in Context \ S : buf[c] = NoBuf
  PROVE  \E q \in Ring : qlen[q] # 0
  <1> SUFFICES ASSUME \A q \in Ring : qlen[q] = 0 PROVE FALSE
    OBVIOUS
  <1> DEFINE h == [b \in DataBuf |-> CHOOSE c \in S : buf[c] = b]
  <1>1. \A q \in Ring : Slot(q) = {}
    BY DEF IInv, QlenExact, Slot
  <1>2. \A b \in DataBuf : \E c \in S : buf[c] = b
    BY <1>1, RingAssumption DEF IInv, KeptInv, Buf
  <1>3. h \in [DataBuf -> S] /\ \A b \in DataBuf : buf[h[b]] = b
    BY <1>2
  <1>4. \A a, b \in DataBuf : h[a] = h[b] => a = b
    BY <1>3
  <1> HIDE DEF h
  <1>5. h \in Injection(DataBuf, S)
    BY <1>3, <1>4, Fun_IsInj, Zenon
  <1>6. Cardinality(DataBuf) <= Cardinality(S)
    BY <1>5, FS_Injection, Zenon
  <1>7. Cardinality(DataBuf) \in Nat /\ Cardinality(S) \in Nat
    BY FS_CardinalityType
  <1> QED BY <1>6, <1>7

\* The same for a sender that finds no buffer, and for the tasklet.
LEMMA NoBufferLeft ==
  ASSUME IInv, IsFiniteSet(DataBuf), IsFiniteSet(Sender),
         Cardinality(Sender) < Cardinality(DataBuf), free \cap DataBuf = {},
         NEW c \in Context, pc[c] = "alloc"
  PROVE  \E q \in Ring : qlen[q] # 0
  <1>1. buf[c] = NoBuf
    BY DEF IInv, HoldInv, HandInv, Holding
  <1>2. CASE c = Tasklet
    <2>1. \A d \in Context \ Sender : buf[d] = NoBuf
      BY <1>1, <1>2 DEF Context
    <2> QED BY <2>1, PoolOnRing DEF Context
  <1>3. CASE c \in Sender
    <2> DEFINE S == (Sender \ {c}) \cup {Tasklet}
    <2>1. IsFiniteSet(Sender \ {c}) /\ Cardinality(Sender \ {c}) = Cardinality(Sender) - 1
      BY <1>3, FS_RemoveElement
    <2>2. IsFiniteSet(S) /\ Cardinality(S) = Cardinality(Sender \ {c}) + 1
      BY <2>1, FS_AddElement, RingAssumption
    <2>3. Cardinality(Sender) \in Nat
      BY FS_CardinalityType
    <2>4. Cardinality(S) < Cardinality(DataBuf)
      BY <2>1, <2>2, <2>3
    <2>5. \A d \in Context \ S : buf[d] = NoBuf
      BY <1>1 DEF Context
    <2> QED BY <2>2, <2>4, <2>5, PoolOnRing DEF Context
  <1> QED BY <1>2, <1>3 DEF Context

\* The lock is held where the code holds it.
LEMMA LockStep ==
  ASSUME MaxFrags = 1, IInv, LockInv, [Next]_vars
  PROVE  LockInv'
  <1> USE RingAssumption DEF LockInv, IInv, Context, NextPc, TypeOK, ContextTypeOK, ringVars,
       hwVars, ctxVars, envVars
  <1>1. ASSUME NEW c \in Sender, NEW f \in Flow, PreXmitframe(c, f) PROVE LockInv'
    BY <1>1 DEF PreXmitframe
  <1>2. ASSUME NEW c \in Sender, NEW f \in Flow, HalXmitframeEnqueue(c, f) PROVE LockInv'
    BY <1>2 DEF HalXmitframeEnqueue
  <1>3. ASSUME NEW c \in Sender, MgntXmit(c) PROVE LockInv'
    BY <1>3 DEF MgntXmit
  <1>4. ASSUME NEW c \in Context, PreAlloc(c) PROVE LockInv'
    BY <1>4 DEF PreAlloc
  <1>5. ASSUME NEW c \in Context, PreEnqueue(c) PROVE LockInv'
    BY <1>5 DEF PreEnqueue
  <1>6. ASSUME NEW c \in Context, HalXmitframeWake(c) PROVE LockInv'
    BY <1>6 DEF HalXmitframeWake
  <1>7. ASSUME NEW c \in Context, Coalesce(c) PROVE LockInv'
    BY <1>7 DEF Coalesce
  <1>8. ASSUME NEW c \in Context, DumpXframe(c) PROVE LockInv'
    <2>1. FrameDone(c) /\ xlock' = xlock
      BY <1>8, DumpQueues DEF DumpXframe
    <2> QED BY <1>8, <2>1 DEF DumpXframe, FrameDone
  <1>9. ASSUME NEW c \in Context, DumpNoTxbd(c) PROVE LockInv'
    BY <1>9 DEF DumpNoTxbd, FrameDone
  <1>10. ASSUME NEW q \in Ring, HwFetch(q) PROVE LockInv'
    BY <1>10 DEF HwFetch
  <1>11. ASSUME NEW q \in Ring, IsrReclaim(q) PROVE LockInv'
    BY <1>11 DEF IsrReclaim
  <1>12. ASSUME NEW q \in Ring, IsrNotClosed(q) PROVE LockInv'
    BY <1>12 DEF IsrNotClosed
  <1>13. ASSUME NEW q \in Ring, IsrDrained(q) PROVE LockInv'
    BY <1>13 DEF IsrDrained
  <1>14. CASE TaskletStart
    BY <1>14 DEF TaskletStart
  <1>15. CASE ResumeCheck
    BY <1>15 DEF ResumeCheck
  <1>16. CASE ResumeAlloc
    BY <1>16 DEF ResumeAlloc
  <1>17. CASE ResumeDequeue
    BY <1>17 DEF ResumeDequeue
  <1>18. CASE IsrEnter
    BY <1>18 DEF IsrEnter
  <1>19. CASE BlockStart
    BY <1>19 DEF BlockStart
  <1>20. CASE BlockEnd
    BY <1>20 DEF BlockEnd
  <1>21. CASE OsXmitSchedule
    BY <1>21 DEF OsXmitSchedule
  <1>22. CASE DriverStop
    BY <1>22 DEF DriverStop
  <1>23. CASE PciIntfStop
    BY <1>23 DEF PciIntfStop, ResetBd
  <1>24. CASE HalInit
    BY <1>24 DEF HalInit, ResetBd
  <1>25. CASE UNCHANGED vars
    BY <1>25 DEF vars
  <1> QED
    BY <1>1, <1>2, <1>3, <1>4, <1>5, <1>6, <1>7, <1>8, <1>9, <1>10, <1>11,
       <1>12, <1>13, <1>14, <1>15, <1>16, <1>17, <1>18, <1>19, <1>20,
       <1>21, <1>22, <1>23, <1>24, <1>25 DEF Next, Send, Continue,
       TaskletStep, IsrStep

\* A reason ends only when another begins or nothing waits.
LEMMA WaitStep ==
  ASSUME MaxFrags = 1, IsFiniteSet(DataBuf), IsFiniteSet(Sender),
         Cardinality(Sender) < Cardinality(DataBuf),
         IInv, LockInv, WaitInv, dev = "up", [Next]_vars
  PROVE  WaitInv'
  <1> USE RingAssumption DEF LockInv, WaitInv, Reason, Pending, IInv, Context, NextPc, TypeOK,
       RingTypeOK, ContextTypeOK, DriverTypeOK, ringVars, hwVars, ctxVars, envVars
  <1>1. ASSUME NEW c \in Sender, NEW f \in Flow, PreXmitframe(c, f) PROVE WaitInv'
    <2>1. /\ \A d \in Sender : pc[d] # "enqueue" /\ pc[d] # "wake"
          /\ pc' = [pc EXCEPT ![c] = IF SendDirectly(f) THEN "alloc" ELSE "enqueue"]
          /\ pend' = pend /\ (Reason' <=> Reason)
      <3>1. /\ \A d \in Sender : pc[d] # "enqueue" /\ pc[d] # "wake"
            /\ pc' = [pc EXCEPT ![c] = IF SendDirectly(f) THEN "alloc" ELSE "enqueue"]
            /\ UNCHANGED <<pend, sched, qlen, isr, block, resume>>
        BY <1>1 DEF PreXmitframe
      <3>2. pc'[Tasklet] = pc[Tasklet]
        BY <3>1
      <3> QED BY <3>1, <3>2
    <2>2. ASSUME ~SendDirectly(f) PROVE Reason
      <3>1. CASE pend[f] # 0
        <4>1. pend[f] \in Nat
          OBVIOUS
        <4>2. Pending
          BY <3>1, <4>1
        <4> QED BY <2>1, <4>2
      <3>2. CASE ~EnoughDesc(CheckedRing[f])
        <4>1. CheckedRing[f] \in Ring /\ qlen[CheckedRing[f]] \in Nat
          OBVIOUS
        <4>2. qlen[CheckedRing[f]] # 0
          BY <3>2, <4>1 DEF EnoughDesc
        <4> QED BY <4>1, <4>2
      <3>3. CASE block # "none"
        BY <3>3
      <3> QED BY <2>2, <3>1, <3>2, <3>3 DEF SendDirectly
    <2>3. CASE SendDirectly(f)
      BY <2>1, <2>3
    <2>4. CASE ~SendDirectly(f)
      BY <2>1, <2>2, <2>4
    <2> QED BY <2>3, <2>4
  <1>2. ASSUME NEW c \in Sender, NEW f \in Flow, HalXmitframeEnqueue(c, f) PROVE WaitInv'
    BY <1>2 DEF HalXmitframeEnqueue
  <1>3. ASSUME NEW c \in Sender, MgntXmit(c) PROVE WaitInv'
    BY <1>3 DEF MgntXmit
  <1>4. ASSUME NEW c \in Context, PreAlloc(c) PROVE WaitInv'
    <2>1. pc'[c] = "enqueue" => \E q \in Ring : qlen[q] # 0
      BY <1>4, NoBufferLeft DEF PreAlloc
    <2> QED BY <1>4, <2>1 DEF PreAlloc
  <1>5. ASSUME NEW c \in Context, PreEnqueue(c) PROVE WaitInv'
    BY <1>5 DEF PreEnqueue
  <1>6. ASSUME NEW c \in Context, HalXmitframeWake(c) PROVE WaitInv'
    <2>1. CASE EnoughDesc(CheckedRing[flow[c]])
      BY <1>6, <2>1 DEF HalXmitframeWake
    <2>2. CASE ~EnoughDesc(CheckedRing[flow[c]])
      <3>1. c \in Sender /\ flow[c] \in Flow /\ qlen' = qlen
        BY <1>6 DEF HalXmitframeWake
      <3>2. CheckedRing[flow[c]] \in Ring /\ qlen[CheckedRing[flow[c]]] # 0
        BY <2>2, <3>1 DEF EnoughDesc
      <3> QED BY <3>1, <3>2
    <2> QED BY <2>1, <2>2
  <1>7. ASSUME NEW c \in Context, Coalesce(c) PROVE WaitInv'
    BY <1>7 DEF Coalesce
  <1>8. ASSUME NEW c \in Context, DumpXframe(c) PROVE WaitInv'
    <2>1. PICK q \in Ring : q = RingFor(flow[c]) /\ qlen[q] \in Nat
      BY <1>8, DumpQueues
    <2>2. qlen'[q] # 0
      BY <1>8, <2>1 DEF DumpXframe
    <2> QED BY <2>2
  <1>9. ASSUME NEW c \in Context, DumpNoTxbd(c) PROVE WaitInv'
    <2>1. RingFor(flow[c]) \in Ring
      BY DEF RingFor
    <2>2. qlen' = qlen /\ qlen[RingFor(flow[c])] # 0
      BY <1>9, <2>1 DEF DumpNoTxbd, TxbdAvailable
    <2> QED BY <2>1, <2>2
  <1>10. ASSUME NEW q \in Ring, HwFetch(q) PROVE WaitInv'
    BY <1>10 DEF HwFetch
  <1>11. ASSUME NEW q \in Ring, IsrReclaim(q) PROVE WaitInv'
    BY <1>11 DEF IsrReclaim
  <1>12. ASSUME NEW q \in Ring, IsrNotClosed(q) PROVE WaitInv'
    BY <1>12 DEF IsrNotClosed
  <1>13. ASSUME NEW q \in Ring, IsrDrained(q) PROVE WaitInv'
    <2>1. EnoughDesc(q)
      BY <1>13 DEF IsrDrained, EnoughDesc
    <2>2. block # "scan" => sched'
      BY <1>13, <2>1 DEF IsrDrained
    <2>3. block' = block
      BY <1>13 DEF IsrDrained
    <2> QED BY <2>2, <2>3
  <1>14. CASE TaskletStart
    BY <1>14 DEF TaskletStart
  <1>15. CASE ResumeCheck
    BY <1>15 DEF ResumeCheck, EnoughDescAll, EnoughDesc
  <1>16. CASE ResumeAlloc
    <2>1. pc'[Tasklet] = "idle" => \E q \in Ring : qlen[q] # 0
      BY <1>16, NoBufferLeft DEF ResumeAlloc
    <2> QED BY <1>16, <2>1 DEF ResumeAlloc
  <1>17. CASE ResumeDequeue
    <2>1. CASE pc'[Tasklet] = "coalesce"
      BY <2>1
    <2>2. CASE pc'[Tasklet] # "coalesce"
      <3>1. ~Pending /\ pend' = pend /\ xlock = Nobody
        BY <1>17, <2>2 DEF ResumeDequeue
      <3>2. \A c \in Sender : pc'[c] = pc[c] /\ pc[c] # "enqueue"
        BY <1>17, <3>1 DEF ResumeDequeue
      <3> QED BY <3>1, <3>2
    <2> QED BY <2>1, <2>2
  <1>18. CASE IsrEnter
    BY <1>18 DEF IsrEnter
  <1>19. CASE BlockStart
    BY <1>19 DEF BlockStart
  <1>20. CASE BlockEnd
    BY <1>20 DEF BlockEnd
  <1>21. CASE OsXmitSchedule
    BY <1>21 DEF OsXmitSchedule
  <1>22. CASE DriverStop
    BY <1>22 DEF DriverStop
  <1>23. CASE PciIntfStop
    BY <1>23 DEF PciIntfStop
  <1>24. CASE HalInit
    BY <1>24 DEF HalInit
  <1>25. CASE UNCHANGED vars
    BY <1>25 DEF vars
  <1> QED
    BY <1>1, <1>2, <1>3, <1>4, <1>5, <1>6, <1>7, <1>8, <1>9, <1>10, <1>11,
       <1>12, <1>13, <1>14, <1>15, <1>16, <1>17, <1>18, <1>19, <1>20,
       <1>21, <1>22, <1>23, <1>24, <1>25 DEF Next, Send, Continue,
       TaskletStep, IsrStep

\* Until the interface is stopped for the first time, no frame waits in a
\* software queue with nobody to take it out, provided there are more buffers
\* than senders (128 of them): pre_xmitframe and the tasklet find the pool empty
\* only while a ring is in use.  (Frames in software queues survive a stop and
\* wait for the next transmission.)
THEOREM NothingStranded ==
  ASSUME MaxFrags = 1, IsFiniteSet(DataBuf), IsFiniteSet(Sender),
         Cardinality(Sender) < Cardinality(DataBuf)
  PROVE  Spec => [](stops = 0 => NoStrandedFrame)
  <1> DEFINE Inv == LockInv /\ (stops = 0 => WaitInv)
  <1>1. Init => Inv
    BY RingAssumption DEF Init, LockInv, WaitInv, Pending, Context
  <1>2. IInv /\ FirstRun /\ Inv /\ [Next]_vars => Inv'
    <2> SUFFICES ASSUME IInv, FirstRun, Inv, [Next]_vars PROVE Inv'
      OBVIOUS
    <2>1. LockInv'
      BY LockStep
    <2>2. ASSUME stops' = 0 PROVE WaitInv'
      <3>1. stops = 0
        BY <2>2, FirstStop
      <3>2. dev = "up" /\ WaitInv
        BY <3>1 DEF FirstRun
      <3> QED BY <3>2, WaitStep
    <2> QED BY <2>1, <2>2
  <1>3. IInv /\ Inv => (stops = 0 => NoStrandedFrame)
    <2> SUFFICES ASSUME IInv, LockInv, WaitInv, Pending
                 PROVE  Reason \/ \E c \in Sender : pc[c] # "idle"
      BY DEF NoStrandedFrame, Reason
    <2> QED BY DEF WaitInv
  <1>4. Init => FirstRun
    BY FirstRunInit
  <1>5. IInv /\ FirstRun /\ [Next]_vars => FirstRun'
    BY FirstRunStep
  <1> QED BY <1>1, <1>2, <1>3, <1>4, <1>5, Inductive, PTL DEF Spec

=============================================================================
