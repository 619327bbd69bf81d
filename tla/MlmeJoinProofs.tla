---------------------------- MODULE MlmeJoinProofs ----------------------------
(***************************************************************************)
(* Proofs about MlmeJoin: its type invariant and the two safety invariants *)
(* of the run join, for every MaxRoam, RetryLimit, NumChan and Budget.     *)
(*                                                                         *)
(* What runs under pmlmepriv->lock is an operator from a value of m to the *)
(* next; each has a lemma that says what it keeps (Follows, Known), and a  *)
(* step of the system is then the composition of a few of them.  The state *)
(* without a lock, pmlmeinfo->state with its timer, has an invariant of    *)
(* its own.                                                                *)
(***************************************************************************)
EXTENDS MlmeJoin, SequenceTheorems, TLAPS

\* a request of the kernel: where it is, which one, and the fw_state it has loaded
UserType ==
  [pc : {"idle", "scan", "join", "disc", "ind", "ind2", "set", "rec"},
   op : {"none", "connect", "reconnect", "disconnect"},
   ld : SUBSET {"survey", "linking", "linked"}]

\* the queue holds a command that leads to a completed survey
Searching(q) == \E i \in 1..Len(q) : q[i] \in {"survey", "surveydone"}

\* the kernel knows of a station that roams or is linked
Known(s) == (s.toRoam > 0 => s.up = "connected") /\ ("linked" \in s.fw => s.up = "connected")

\* What every function that runs under the lock respects, from s to its result t: an attempt it
\* starts gets its timer, a survey is announced in fw_state or waited for in to_join only with a
\* command in the queue, and no such command is lost.
Follows(s, t) ==
  /\ t \in MlmeType
  /\ "linking" \in t.fw => t.assocT \/ ("linking" \in s.fw /\ (s.assocT => t.assocT))
  /\ Searching(s.queue) => Searching(t.queue)
  /\ "survey" \in t.fw => "survey" \in s.fw \/ Searching(t.queue)
  /\ t.toJoin => s.toJoin \/ Searching(t.queue)

\* Functions called one after the other.
LEMMA FollowsTrans ==
  ASSUME NEW s, NEW t, NEW u, Follows(s, t), Follows(t, u)
  PROVE  Follows(s, u)
  BY DEF Follows

\* rtw_enqueue_cmd keeps what is queued.
LEMMA SearchingAppend ==
  ASSUME NEW q \in Seq(Cmds), NEW c \in Cmds
  PROVE  /\ Append(q, c) \in Seq(Cmds)
         /\ Searching(q) => Searching(Append(q, c))
         /\ c \in {"survey", "surveydone"} => Searching(Append(q, c))
  <1>1. /\ Append(q, c) \in Seq(Cmds) /\ Len(Append(q, c)) = Len(q) + 1
        /\ \A i \in 1..Len(q) : Append(q, c)[i] = q[i]
        /\ Append(q, c)[Len(q) + 1] = c
    BY AppendProperties
  <1>2. Len(q) \in Nat
    BY LenProperties
  <1>3. ASSUME Searching(q) PROVE Searching(Append(q, c))
    <2>1. PICK i \in 1..Len(q) : q[i] \in {"survey", "surveydone"}
      BY <1>3 DEF Searching
    <2>2. i \in 1..Len(Append(q, c)) /\ Append(q, c)[i] = q[i]
      BY <1>1, <1>2, <2>1
    <2> QED BY <2>1, <2>2 DEF Searching
  <1>4. ASSUME c \in {"survey", "surveydone"} PROVE Searching(Append(q, c))
    <2>1. Len(q) + 1 \in 1..Len(Append(q, c))
      BY <1>1, <1>2
    <2> QED BY <1>1, <1>4, <2>1 DEF Searching
  <1> QED BY <1>1, <1>3, <1>4

\* Taking another command from the queue keeps a queued survey.
LEMMA SearchingTail ==
  ASSUME NEW q \in Seq(Cmds), q # <<>>
  PROVE  /\ Tail(q) \in Seq(Cmds)
         /\ Searching(q) /\ Head(q) \notin {"survey", "surveydone"} => Searching(Tail(q))
  <1>1. /\ Tail(q) \in Seq(Cmds) /\ Len(Tail(q)) = Len(q) - 1 /\ Head(q) = q[1]
        /\ \A i \in 1..Len(Tail(q)) : Tail(q)[i] = q[i + 1]
    BY HeadTailProperties
  <1>2. Len(q) \in Nat
    BY LenProperties
  <1>3. ASSUME Searching(q), Head(q) \notin {"survey", "surveydone"} PROVE Searching(Tail(q))
    <2>1. PICK i \in 1..Len(q) : q[i] \in {"survey", "surveydone"}
      BY <1>3 DEF Searching
    <2>2. i # 1
      BY <1>1, <1>3, <2>1
    <2>3. i - 1 \in 1..Len(Tail(q))
      BY <1>1, <1>2, <2>1, <2>2
    <2>4. Tail(q)[i - 1] = q[i]
      BY <1>1, <2>1, <2>3
    <2> QED BY <2>1, <2>3, <2>4 DEF Searching
  <1> QED BY <1>1, <1>3

\* A command more in the queue.
LEMMA EnqueueFollows ==
  ASSUME NEW s \in MlmeType, NEW c \in Cmds
  PROVE  /\ Follows(s, Enqueue(s, c)) /\ (Known(s) => Known(Enqueue(s, c)))
         /\ Enqueue(s, c) \in MlmeType
         /\ Enqueue(s, c).fw = s.fw /\ Enqueue(s, c).toRoam = s.toRoam
         /\ Enqueue(s, c).toJoin = s.toJoin /\ Enqueue(s, c).up = s.up
         /\ Enqueue(s, c).assocT = s.assocT
         /\ c \in {"survey", "surveydone"} => Searching(Enqueue(s, c).queue)
  <1>1. Enqueue(s, c) = [s EXCEPT !.queue = Append(s.queue, c)] /\ s.queue \in Seq(Cmds)
    BY DEF Enqueue, MlmeType
  <1>2. Enqueue(s, c).queue = Append(s.queue, c)
    BY <1>1 DEF MlmeType
  <1>3. Append(s.queue, c) \in Seq(Cmds)
    BY <1>1, SearchingAppend
  <1>4. Enqueue(s, c) \in MlmeType
        /\ Enqueue(s, c).fw = s.fw /\ Enqueue(s, c).toRoam = s.toRoam
        /\ Enqueue(s, c).toJoin = s.toJoin /\ Enqueue(s, c).up = s.up
        /\ Enqueue(s, c).assocT = s.assocT
    BY <1>1, <1>3 DEF MlmeType
  <1> QED BY <1>1, <1>2, <1>4, SearchingAppend DEF Follows, Known

\* rtw_indicate_disconnect ends link and attempt, and tells the kernel unless it roams.
LEMMA IndicateDisconnect ==
  ASSUME NEW s \in MlmeType
  PROVE  LET t == rtw_indicate_disconnect(s) IN
         /\ Follows(s, t) /\ (Known(s) => Known(t)) /\ t.toRoam = s.toRoam
         /\ "linking" \notin t.fw /\ "linked" \notin t.fw
         /\ "survey" \in t.fw => "survey" \in s.fw
         /\ t.queue = s.queue /\ t.toJoin = s.toJoin /\ t.assocT = s.assocT
         /\ s.toRoam > 0 => t.up = s.up
  BY DEF rtw_indicate_disconnect, rtw_cfg80211_indicate_disconnect, Clear, MlmeType, Follows, Known

\* rtw_select_and_join_from_scanned_queue with a candidate.
LEMMA SelectAndJoin ==
  ASSUME NEW s \in MlmeType,
         NEW r \in rtw_select_and_join_from_scanned_queue(s), r[1]
  PROVE  /\ r[2] \in MlmeType /\ (Searching(s.queue) => Searching(r[2].queue))
         /\ "survey" \in r[2].fw => "survey" \in s.fw
         /\ r[2].toJoin = s.toJoin /\ r[2].toRoam = s.toRoam
         /\ Known(s) => Known(r[2])
  <1> DEFINE e == Enqueue(s, "disc")
             b == IF "linked" \in s.fw THEN rtw_indicate_disconnect(e) ELSE s
             u == Set(b, {"linking"})
  <1>1. r = <<TRUE, Enqueue(u, "join")>>
    <2>1. r \in {<<FALSE, s>>, <<TRUE, Enqueue(u, "join")>>}
      BY Zenon DEF rtw_select_and_join_from_scanned_queue
    <2>2. <<FALSE, s>>[1] = FALSE
      OBVIOUS
    <2> QED BY <2>1, <2>2, Zenon
  <1>2. /\ b \in MlmeType /\ (Searching(s.queue) => Searching(b.queue))
        /\ "survey" \in b.fw => "survey" \in s.fw
        /\ b.toJoin = s.toJoin /\ b.toRoam = s.toRoam
        /\ Known(s) => Known(b)
    <2>1. CASE "linked" \notin s.fw
      BY <2>1
    <2>2. CASE "linked" \in s.fw
      <3>1. e \in MlmeType /\ (Searching(s.queue) => Searching(e.queue)) /\ e.fw = s.fw
            /\ e.toJoin = s.toJoin /\ e.toRoam = s.toRoam /\ (Known(s) => Known(e))
        BY EnqueueFollows DEF Follows, Cmds
      <3>2. b = rtw_indicate_disconnect(e)
        BY <2>2
      <3> HIDE DEF b, e
      <3> QED BY <3>1, <3>2, IndicateDisconnect DEF Follows
    <2> QED BY <2>1, <2>2
  <1> HIDE DEF b
  <1>3. /\ u \in MlmeType /\ u.queue = b.queue /\ ("survey" \in u.fw => "survey" \in b.fw)
        /\ u.toJoin = b.toJoin /\ u.toRoam = b.toRoam /\ (Known(b) => Known(u))
    BY <1>2 DEF Set, MlmeType, Known
  <1> HIDE DEF u
  <1>4. /\ Enqueue(u, "join") \in MlmeType /\ Enqueue(u, "join").fw = u.fw
        /\ (Searching(u.queue) => Searching(Enqueue(u, "join").queue))
        /\ Enqueue(u, "join").toJoin = u.toJoin /\ Enqueue(u, "join").toRoam = u.toRoam
        /\ (Known(u) => Known(Enqueue(u, "join")))
    BY <1>3, EnqueueFollows DEF Follows, Cmds
  <1>5. r[2] = Enqueue(u, "join")
    BY <1>1
  <1> QED BY <1>2, <1>3, <1>4, <1>5

\* rtw_sitesurvey_cmd raises the flag together with its command.
LEMMA Sitesurvey ==
  ASSUME NEW s \in MlmeType
  PROVE  LET t == rtw_sitesurvey_cmd(s) IN
         /\ Follows(s, t) /\ (Known(s) => Known(t)) /\ Searching(t.queue)
         /\ t.fw = s.fw \cup {"survey"} /\ t.toJoin = s.toJoin /\ t.toRoam = s.toRoam
  <1> DEFINE u == Set(s, {"survey"})
             e == Enqueue(u, "survey")
             t == rtw_sitesurvey_cmd(s)
  <1>1. /\ u \in MlmeType /\ u.fw = s.fw \cup {"survey"} /\ u.queue = s.queue /\ u.assocT = s.assocT
        /\ u.toJoin = s.toJoin /\ u.toRoam = s.toRoam /\ (Known(s) => Known(u))
    BY DEF Set, MlmeType, Known
  <1>2. t = [e EXCEPT !.scanT = TRUE]
    BY DEF rtw_sitesurvey_cmd
  <1> HIDE DEF u
  <1>3. /\ e \in MlmeType /\ e.fw = u.fw /\ Searching(e.queue) /\ e.assocT = u.assocT
        /\ e.toJoin = u.toJoin /\ e.toRoam = u.toRoam /\ e.up = u.up /\ (Known(u) => Known(e))
    BY <1>1, EnqueueFollows DEF Cmds
  <1> HIDE DEF e
  <1>4. /\ t \in MlmeType /\ t.fw = e.fw /\ t.queue = e.queue /\ t.assocT = e.assocT
        /\ t.toJoin = e.toJoin /\ t.toRoam = e.toRoam /\ (Known(e) => Known(t))
    BY <1>2, <1>3 DEF MlmeType, Known
  <1> HIDE DEF t
  <1>5. Follows(s, t) /\ (Known(s) => Known(t)) /\ Searching(t.queue)
        /\ t.fw = s.fw \cup {"survey"} /\ t.toJoin = s.toJoin /\ t.toRoam = s.toRoam
    BY <1>1, <1>3, <1>4 DEF Follows
  <1> QED BY <1>5 DEF t

\* rtw_do_join, whatever it finds: an attempt with its timer, a postponed one with its survey, or
\* neither flag.
LEMMA DoJoin ==
  ASSUME NEW s \in MlmeType, NEW r \in rtw_do_join(s)
  PROVE  /\ r[2] \in MlmeType /\ (Searching(s.queue) => Searching(r[2].queue))
         /\ "linking" \in r[2].fw => r[2].assocT
         /\ "survey" \in r[2].fw => "survey" \in s.fw \/ Searching(r[2].queue)
         /\ r[2].toJoin => Searching(r[2].queue)
         /\ Known(s) => Known(r[2])
  <1> DEFINE t == Set([s EXCEPT !.toJoin = TRUE], {"linking"})
             none == Clear(t, {"linking"})
             Goal == /\ r[2] \in MlmeType /\ (Searching(s.queue) => Searching(r[2].queue))
                     /\ "linking" \in r[2].fw => r[2].assocT
                     /\ "survey" \in r[2].fw => "survey" \in s.fw \/ Searching(r[2].queue)
                     /\ r[2].toJoin => Searching(r[2].queue)
                     /\ Known(s) => Known(r[2])
  <1>1. /\ t \in MlmeType /\ t.queue = s.queue /\ ("survey" \in t.fw => "survey" \in s.fw)
        /\ (Known(s) => Known(t))
    BY DEF Set, MlmeType, Known
  <1>2. \/ \E x \in rtw_select_and_join_from_scanned_queue(t) :
             x[1] /\ r = <<TRUE, [x[2] EXCEPT !.toJoin = FALSE, !.assocT = TRUE]>>
        \/ r = <<FALSE, [none EXCEPT !.toJoin = FALSE]>>
        \/ r = <<TRUE, rtw_sitesurvey_cmd(none)>>
    BY DEF rtw_do_join
  <1>3. /\ none \in MlmeType /\ none.queue = s.queue /\ "linking" \notin none.fw
        /\ ("survey" \in none.fw => "survey" \in s.fw) /\ (Known(s) => Known(none))
    BY DEF Set, Clear, MlmeType, Known
  <1> HIDE DEF t, none
  <1>4. CASE \E x \in rtw_select_and_join_from_scanned_queue(t) :
               x[1] /\ r = <<TRUE, [x[2] EXCEPT !.toJoin = FALSE, !.assocT = TRUE]>>
    <2>1. PICK x \in rtw_select_and_join_from_scanned_queue(t) :
                x[1] /\ r = <<TRUE, [x[2] EXCEPT !.toJoin = FALSE, !.assocT = TRUE]>>
      BY <1>4
    <2> DEFINE y == x[2]
    <2>2. /\ y \in MlmeType /\ (Searching(t.queue) => Searching(y.queue))
          /\ "survey" \in y.fw => "survey" \in t.fw
          /\ Known(t) => Known(y)
      BY <1>1, <2>1, SelectAndJoin
    <2>3. r[2] = [y EXCEPT !.toJoin = FALSE, !.assocT = TRUE]
      BY <2>1
    <2> HIDE DEF y
    <2> QED BY <1>1, <2>2, <2>3 DEF MlmeType, Known
  <1>5. CASE r = <<FALSE, [none EXCEPT !.toJoin = FALSE]>>
    <2>1. r[2] = [none EXCEPT !.toJoin = FALSE]
      BY <1>5
    <2> QED BY <1>3, <2>1 DEF MlmeType, Known
  <1>6. CASE r = <<TRUE, rtw_sitesurvey_cmd(none)>>
    <2>1. r[2] = rtw_sitesurvey_cmd(none)
      BY <1>6
    <2> QED BY <1>3, <2>1, Sitesurvey DEF Follows
  <1> QED BY <1>2, <1>4, <1>5, <1>6

\* The loops over roaming attempts, for any number of them: the same, and when the last one fails
\* the kernel is told, so that a station that is not roaming is not thought connected.
LEMMA Roam ==
  ASSUME NEW s \in MlmeType, NEW n \in 0..s.toRoam, s.toRoam > 0, NEW u \in TryRoam(s, n)
  PROVE  /\ u \in MlmeType /\ (Searching(s.queue) => Searching(u.queue))
         /\ "linking" \in u.fw => u.assocT
         /\ "survey" \in u.fw => "survey" \in s.fw \/ Searching(u.queue)
         /\ u.toJoin => s.toJoin \/ Searching(u.queue)
         /\ Known(s) => Known(u)
  <1>0. s.toRoam \in 0..MaxRoam /\ MaxRoam \in Nat
    BY JoinAssumption DEF MlmeType
  <1> DEFINE t == [s EXCEPT !.toRoam = 0, !.toJoin = @ /\ n = 0]
  <1>1. \/ \E k \in 1..n : \E r \in rtw_do_join([s EXCEPT !.toRoam = k]) : r[1] /\ u = r[2]
        \/ u = rtw_indicate_disconnect(t)
    <2> DEFINE Joins(k) == {r[2] : r \in {x \in rtw_do_join([s EXCEPT !.toRoam = k]) : x[1]}}
    <2>1. u \in (UNION {Joins(k) : k \in 1..n}) \cup {rtw_indicate_disconnect(t)}
      BY Zenon DEF TryRoam
    <2>2. ASSUME NEW k \in 1..n, u \in Joins(k)
          PROVE  \E r \in rtw_do_join([s EXCEPT !.toRoam = k]) : r[1] /\ u = r[2]
      BY <2>2, Zenon
    <2>3. ASSUME u \in UNION {Joins(k) : k \in 1..n} PROVE \E k \in 1..n : u \in Joins(k)
      BY <2>3, Zenon
    <2>4. u \in (UNION {Joins(k) : k \in 1..n}) \/ u = rtw_indicate_disconnect(t)
      BY <2>1, Zenon
    <2> HIDE DEF Joins, t
    <2> QED BY <2>2, <2>3, <2>4
  <1>2. ASSUME NEW k \in 1..n, NEW r \in rtw_do_join([s EXCEPT !.toRoam = k]), u = r[2]
        PROVE  /\ u \in MlmeType /\ (Searching(s.queue) => Searching(u.queue))
               /\ "linking" \in u.fw => u.assocT
               /\ "survey" \in u.fw => "survey" \in s.fw \/ Searching(u.queue)
               /\ u.toJoin => Searching(u.queue)
               /\ Known(s) => Known(u)
    <2> DEFINE v == [s EXCEPT !.toRoam = k]
    <2>1. k \in 0..MaxRoam
      BY <1>0, <1>2
    <2>2. v \in MlmeType /\ v.queue = s.queue /\ v.fw = s.fw /\ (Known(s) => Known(v))
      BY <1>0, <2>1 DEF MlmeType, Known
    <2> HIDE DEF v
    <2> QED BY <1>2, <2>2, DoJoin DEF v
  <1>3. /\ t \in MlmeType /\ t.queue = s.queue /\ t.fw = s.fw /\ (t.toJoin => s.toJoin)
        /\ (Known(s) => Known(t))
    <2>1. (s.toJoin /\ n = 0) \in BOOLEAN /\ 0 \in 0..MaxRoam
      BY <1>0
    <2> QED BY <2>1 DEF MlmeType, Known
  <1> HIDE DEF t
  <1>4. CASE u = rtw_indicate_disconnect(t)
    BY <1>3, <1>4, IndicateDisconnect DEF Follows
  <1> QED BY <1>1, <1>2, <1>4

\* rtw_surveydone_event_callback of a postponed attempt.
LEMMA After ==
  ASSUME NEW s \in MlmeType, NEW u \in AfterSurvey(s)
  PROVE  /\ u \in MlmeType /\ (Searching(s.queue) => Searching(u.queue))
         /\ "linking" \in u.fw => u.assocT
         /\ "survey" \in u.fw => "survey" \in s.fw \/ Searching(u.queue)
         /\ u.toJoin => Searching(u.queue)
         /\ Known(s) => Known(u)
  <1>0. s.toRoam \in 0..MaxRoam /\ MaxRoam \in 1..255
    BY JoinAssumption DEF MlmeType
  <1> DEFINE t == [Set(s, {"linking"}) EXCEPT !.toJoin = FALSE]
             again == rtw_dec_to_roam(t)
             stop == rtw_set_to_roam(t, 0)
             sv == rtw_sitesurvey_cmd(again)
  <1>1. \/ \E x \in rtw_select_and_join_from_scanned_queue(t) :
             x[1] /\ u = [x[2] EXCEPT !.assocT = TRUE]
        \/ u = Clear(rtw_indicate_disconnect(stop), {"linking"})
        \/ t.toRoam > 1 /\ u = [Clear(sv, {"linking"}) EXCEPT !.toJoin = TRUE]
    <2>1. \/ u \in {[x[2] EXCEPT !.assocT = TRUE] :
                     x \in {y \in rtw_select_and_join_from_scanned_queue(t) : y[1]}}
          \/ u = Clear(rtw_indicate_disconnect(stop), {"linking"})
          \/ u \in (IF t.toRoam > 1 /\ "survey" \notin t.fw
                    THEN {[Clear(sv, {"linking"}) EXCEPT !.toJoin = TRUE]} ELSE {})
      BY Zenon DEF AfterSurvey
    <2> HIDE DEF t, stop, sv
    <2> QED BY <2>1, Zenon
  <1>2. /\ t \in MlmeType /\ t.queue = s.queue /\ ("survey" \in t.fw => "survey" \in s.fw)
        /\ ~t.toJoin /\ t.toRoam = s.toRoam /\ (Known(s) => Known(t))
    BY DEF Set, MlmeType, Known
  <1> HIDE DEF t
  <1>3. CASE \E x \in rtw_select_and_join_from_scanned_queue(t) :
               x[1] /\ u = [x[2] EXCEPT !.assocT = TRUE]
    <2>1. PICK x \in rtw_select_and_join_from_scanned_queue(t) :
                 x[1] /\ u = [x[2] EXCEPT !.assocT = TRUE]
      BY <1>3
    <2> DEFINE y == x[2]
    <2>2. /\ y \in MlmeType /\ (Searching(t.queue) => Searching(y.queue))
          /\ "survey" \in y.fw => "survey" \in t.fw
          /\ y.toJoin = t.toJoin /\ (Known(t) => Known(y))
      BY <1>2, <2>1, SelectAndJoin
    <2>3. u = [y EXCEPT !.assocT = TRUE]
      BY <2>1
    <2> HIDE DEF y
    <2> QED BY <1>2, <2>2, <2>3 DEF MlmeType, Known
  <1>4. CASE u = Clear(rtw_indicate_disconnect(stop), {"linking"})
    <2>1. /\ stop \in MlmeType /\ stop.queue = t.queue /\ stop.fw = t.fw /\ ~stop.toJoin
          /\ (Known(t) => Known(stop))
      <3>1. stop = [t EXCEPT !.toRoam = 0, !.toJoin = FALSE] /\ 0 \in 0..MaxRoam
        BY <1>0 DEF rtw_set_to_roam
      <3> HIDE DEF stop
      <3>2. /\ stop \in MlmeType /\ stop.queue = t.queue /\ stop.fw = t.fw
            /\ stop.toRoam = 0 /\ stop.up = t.up
        BY <1>2, <3>1 DEF MlmeType
      <3>3. stop.toJoin = FALSE
        BY <1>2, <3>1 DEF MlmeType
      <3> QED BY <3>2, <3>3 DEF Known
    <2> HIDE DEF stop
    <2> DEFINE d == rtw_indicate_disconnect(stop)
    <2>2. /\ d \in MlmeType /\ d.queue = stop.queue /\ ("survey" \in d.fw => "survey" \in stop.fw)
          /\ d.toJoin = stop.toJoin /\ (Known(stop) => Known(d))
      BY <2>1, IndicateDisconnect DEF Follows
    <2>3. u = Clear(d, {"linking"})
      BY <1>4
    <2> HIDE DEF d
    <2> QED BY <1>2, <2>1, <2>2, <2>3 DEF Clear, MlmeType, Known
  <1>5. CASE t.toRoam > 1 /\ u = [Clear(sv, {"linking"}) EXCEPT !.toJoin = TRUE]
    <2>1. t.toRoam \in 2..MaxRoam
      BY <1>0, <1>2, <1>5
    <2>2. (t.toRoam - 1) % 256 = t.toRoam - 1
      BY <1>0, <2>1
    <2>3. again = [t EXCEPT !.toRoam = t.toRoam - 1]
      BY <2>2 DEF rtw_dec_to_roam
    <2>4. /\ again \in MlmeType /\ again.queue = t.queue /\ again.fw = t.fw
          /\ (Known(t) => Known(again))
      <3>1. t.toRoam - 1 \in 0..MaxRoam
        BY <1>0, <2>1
      <3> HIDE DEF again
      <3>2. again \in MlmeType /\ again.queue = t.queue /\ again.fw = t.fw /\ again.up = t.up
        BY <1>2, <2>3, <3>1 DEF MlmeType
      <3>3. t.toRoam > 0
        BY <1>0, <2>1
      <3> QED BY <3>2, <3>3 DEF Known
    <2> HIDE DEF again
    <2>5. /\ sv \in MlmeType /\ Searching(sv.queue) /\ (Known(again) => Known(sv))
      BY <2>4, Sitesurvey DEF Follows
    <2>6. u = [Clear(sv, {"linking"}) EXCEPT !.toJoin = TRUE]
      BY <1>5
    <2> HIDE DEF sv
    <2> QED BY <1>2, <2>4, <2>5, <2>6 DEF Clear, MlmeType, Known
  <1> QED BY <1>1, <1>3, <1>4, <1>5

(* The inductive invariant. *)

\* the three ways an attempt is driven, and what a survey in fw_state rests on
LinkDriven == "linking" \in m.fw => m.assocT \/ jt
Surveyed == "survey" \in m.fw => scan > 0 \/ Searching(m.queue)
Postponed == m.toJoin => scan > 0 \/ cmd \in {"cancel", "tojoin"} \/ Searching(m.queue)

\* What relates mlme_priv to its timers and to the queue.  An unlocked store can bring back the
\* flag of a finished survey, hence the condition on the second part; Known is lost only when an
\* expired link is handled after the kernel was told that it is gone.
JoinInv ==
  /\ m \in MlmeType /\ user \in UserType /\ LinkDriven
  /\ Orderly => Surveyed /\ Postponed /\ Known(m)

\* What went out of order stays on record, and a lost lock stays lost.
LEMMA OrderlyBefore ==
  ASSUME [Next]_vars, Orderly'
  PROVE  Orderly
  <1>1. ASSUME NEW c \in {"stadel", "expired"}, CmdStaDel(c)
        PROVE race \subseteq race' /\ (stuck => stuck')
    BY <1>1, Zenon DEF CmdStaDel
  <1>2. ASSUME RxJoined PROVE race \subseteq race' /\ (stuck => stuck')
    BY <1>2, Zenon DEF RxJoined, Locked
  <1>3. ASSUME IndStore PROVE race \subseteq race' /\ (stuck => stuck')
    BY <1>3, Zenon DEF IndStore, NoRequest
  <1>4. ASSUME Record PROVE race \subseteq race' /\ (stuck => stuck')
    BY <1>4, Zenon DEF Record, NoRequest
  <1>5. ASSUME \/ CmdJoin \/ CmdDisc \/ CmdSurvey \/ SurveyDone \/ SurveyCancel \/ SurveyToJoin
               \/ SurveyReport \/ LinkLoss \/ RxBeacon \/ RxAuth \/ RxAssocRsp \/ RxRefused
               \/ RxDeauth \/ AssocFires \/ JoinTimeout \/ LinkFires \/ LinkRetry \/ LinkDrop
               \/ LinkFail \/ SurveyTimer \/ ScanTimeout \/ ScanTimeoutReport \/ Scan \/ Connect
               \/ Disconnect \/ ScanAborted \/ JoinAborted \/ DiscCmd \/ IndLoad \/ SetConnect
               \/ \E f \in {"beacon", "auth", "rsp"} : RxCheck(f)
               \/ UNCHANGED vars
        PROVE race \subseteq race' /\ (stuck => stuck')
    <2>1. race' = race /\ stuck' = stuck
      BY <1>5, Zenon DEF CmdJoin, CmdDisc, CmdSurvey, SurveyDone, SurveyCancel, SurveyToJoin,
         SurveyReport, LinkLoss, RxCheck, RxBeacon, RxAuth, RxAssocRsp, RxRefused, RxDeauth,
         AssocFires, JoinTimeout, LinkFires, LinkRetry, LinkDrop, LinkFail, SurveyTimer,
         ScanTimeout, ScanTimeoutReport, Scan, Connect, Disconnect, ScanAborted, JoinAborted,
         DiscCmd, IndLoad, SetConnect, NoRequest, vars
    <2> QED BY <2>1
  <1>6. race \subseteq race' /\ (stuck => stuck')
    <2>1. "stadel" \in {"stadel", "expired"} /\ "expired" \in {"stadel", "expired"}
      OBVIOUS
    <2> QED
        BY <1>1, <1>2, <1>3, <1>4, <1>5, <2>1, Zenon DEF Next, Command, RxRest, LinkTimer, Request
  <1> QED BY <1>6, Zenon DEF Orderly

\* A step that follows keeps JoinInv, as long as the other threads stay where they are.
LEMMA Kept ==
  ASSUME JoinInv, Follows(m, m'), jt' = jt, scan' = scan, cmd' = cmd, user' \in UserType,
         Orderly' => Orderly /\ (Known(m) => Known(m'))
  PROVE  JoinInv'
  BY DEF JoinInv, Follows, LinkDriven, Surveyed, Postponed, Known

\* The command thread takes the head of its queue.
LEMMA PopFollows ==
  ASSUME m \in MlmeType, NEW c \in Cmds, Head1(c)
  PROVE  /\ Pop \in MlmeType /\ Pop.fw = m.fw /\ Pop.toRoam = m.toRoam /\ Pop.toJoin = m.toJoin
         /\ Pop.up = m.up /\ Pop.assocT = m.assocT /\ (Known(m) => Known(Pop))
         /\ c \notin {"survey", "surveydone"} => Follows(m, Pop)
  <1>1. m.queue \in Seq(Cmds) /\ m.queue # <<>> /\ Head(m.queue) = c
    BY DEF Head1, MlmeType
  <1>2. Tail(m.queue) \in Seq(Cmds)
    BY <1>1, SearchingTail
  <1>3. Pop = [m EXCEPT !.queue = Tail(m.queue)]
    BY DEF Pop
  <1>4. /\ Pop \in MlmeType /\ Pop.fw = m.fw /\ Pop.toRoam = m.toRoam /\ Pop.toJoin = m.toJoin
        /\ Pop.up = m.up /\ Pop.assocT = m.assocT /\ Pop.queue = Tail(m.queue)
    BY <1>2, <1>3 DEF MlmeType
  <1>5. c \notin {"survey", "surveydone"} /\ Searching(m.queue) => Searching(Pop.queue)
    BY <1>1, <1>4, SearchingTail
  <1> QED BY <1>4, <1>5 DEF Follows, Known

\* Nothing done.
LEMMA SameFollows ==
  ASSUME NEW s \in MlmeType
  PROVE  Follows(s, s)
  BY DEF Follows

\* rtw_joinbss_event_prehandle of a failed attempt.
LEMMA FailedFollows ==
  ASSUME NEW s \in MlmeType
  PROVE  Follows(s, JoinFailed(s)) /\ (Known(s) => Known(JoinFailed(s)))
  BY DEF JoinFailed, Clear, Follows, Known, MlmeType

\* ... and of a successful one: by Known, a roaming station is already connected in the kernel's
\* eyes, any other one is announced.
LEMMA TakesFollows ==
  ASSUME NEW s \in MlmeType
  PROVE  LET t == [JoinTakes(s) EXCEPT !.assocT = FALSE] IN
         Follows(s, t) /\ (Known(s) => Known(t))
  <1> DEFINE a == [s EXCEPT !.fw = {}]
             b == Set(a, {"linked"})
             c == rtw_cfg80211_indicate_connect(b)
             d == rtw_set_to_roam(c, 0)
             t == [d EXCEPT !.assocT = FALSE]
  <1>1. a \in MlmeType /\ a.fw = {} /\ a.queue = s.queue /\ a.toRoam = s.toRoam /\ a.up = s.up
        /\ a.toJoin = s.toJoin
    BY DEF MlmeType
  <1>2. JoinTakes(s) = d
    BY <1>1 DEF JoinTakes, rtw_indicate_connect
  <1>3. b \in MlmeType /\ b.fw = {"linked"} /\ b.queue = s.queue /\ b.toRoam = s.toRoam
        /\ b.up = s.up /\ b.toJoin = s.toJoin
    BY <1>1 DEF MlmeType, Set
  <1> HIDE DEF b
  <1>4. c \in MlmeType /\ c.fw = b.fw /\ c.queue = b.queue /\ c.toJoin = b.toJoin
        /\ c.up = IF b.toRoam > 0 THEN b.up ELSE "connected"
    BY <1>3 DEF MlmeType, rtw_cfg80211_indicate_connect
  <1> HIDE DEF c
  <1>5. d = [c EXCEPT !.toRoam = 0, !.toJoin = FALSE] /\ 0 \in 0..MaxRoam
    BY JoinAssumption DEF rtw_set_to_roam
  <1>6. d \in MlmeType /\ d.fw = c.fw /\ d.queue = c.queue /\ d.up = c.up
    BY <1>4, <1>5 DEF MlmeType
  <1>7. d.toJoin = FALSE
    BY <1>4, <1>5 DEF MlmeType
  <1> HIDE DEF d
  <1>8. t \in MlmeType /\ t.fw = d.fw /\ t.queue = d.queue /\ t.up = d.up /\ t.toJoin = d.toJoin
    BY <1>6 DEF MlmeType
  <1> HIDE DEF t
  <1>9. Follows(s, t) /\ (Known(s) => Known(t))
    <2>1. "linking" \notin t.fw /\ "survey" \notin t.fw
      BY <1>3, <1>4, <1>6, <1>8
    <2>2. Known(s) => t.up = "connected"
      BY <1>3, <1>4, <1>6, <1>8 DEF Known
    <2> QED BY <1>3, <1>4, <1>6, <1>7, <1>8, <2>1, <2>2 DEF Follows, Known
  <1> QED BY <1>2, <1>9 DEF t

\* JoinInv is kept by every step.
LEMMA JoinInvStep ==
  ASSUME JoinInv, scan \in Nat, [Next]_vars
  PROVE  JoinInv'
  <1>0. Orderly' => Orderly
    BY OrderlyBefore, Zenon
  <1>1. ASSUME CmdJoin PROVE JoinInv'
    <2>1. Pop \in MlmeType /\ Follows(m, Pop) /\ (Known(m) => Known(Pop)) /\ "join" \in Cmds
      BY <1>1, PopFollows DEF JoinInv, CmdJoin, Cmds
    <2> DEFINE p == Pop
    <2>2. m' = [p EXCEPT !.assocT = TRUE] \/ m' = JoinFailed(p)
      BY <1>1, Zenon DEF CmdJoin, Locked
    <2>3. p \in MlmeType /\ Follows(m, p) /\ (Known(m) => Known(p))
      BY <2>1
    <2> HIDE DEF p
    <2>4. Follows(p, m') /\ (Known(p) => Known(m'))
      <3>1. CASE m' = JoinFailed(p)
        BY <2>3, <3>1, FailedFollows
      <3>2. CASE m' = [p EXCEPT !.assocT = TRUE]
        BY <2>3, <3>2 DEF Follows, Known, MlmeType
      <3> QED BY <2>2, <3>1, <3>2
    <2>5. jt' = jt /\ scan' = scan /\ cmd' = cmd /\ user' = user
      BY <1>1 DEF CmdJoin, scanVars
    <2> QED BY <1>0, <2>3, <2>4, <2>5, FollowsTrans, Kept DEF JoinInv
  <1>2. ASSUME CmdDisc PROVE JoinInv'
    <2>1. Follows(m, Pop) /\ (Known(m) => Known(Pop))
      BY <1>2, PopFollows DEF JoinInv, CmdDisc, Cmds
    <2>2. m' = Pop /\ jt' = jt /\ scan' = scan /\ cmd' = cmd /\ user' = user
      BY <1>2 DEF CmdDisc, scanVars
    <2> QED BY <1>0, <2>1, <2>2, Kept DEF JoinInv
  <1>3. ASSUME CmdSurvey PROVE JoinInv'
    <2>1. /\ Pop \in MlmeType /\ Pop.fw = m.fw /\ Pop.toJoin = m.toJoin /\ Pop.assocT = m.assocT
          /\ (Known(m) => Known(Pop))
      BY <1>3, PopFollows DEF JoinInv, CmdSurvey, Cmds
    <2> DEFINE p == Pop
    <2>2. p \in MlmeType /\ p.fw = m.fw /\ p.toJoin = m.toJoin /\ p.assocT = m.assocT
          /\ (Known(m) => Known(p))
      BY <2>1
    <2>3. \/ scan' = 0 /\ m' = Enqueue(p, "surveydone")
          \/ scan' = scan + 1 /\ m' = p
      BY <1>3 DEF CmdSurvey
    <2>4. jt' = jt /\ cmd' = cmd /\ user' = user
      BY <1>3 DEF CmdSurvey
    <2> HIDE DEF p
    <2>5. /\ m' \in MlmeType /\ m'.fw = m.fw /\ m'.assocT = m.assocT
          /\ (Known(m) => Known(m')) /\ (scan' > 0 \/ Searching(m'.queue))
      <3>1. CASE m' = Enqueue(p, "surveydone")
        BY <2>2, <3>1, EnqueueFollows DEF Cmds
      <3>2. CASE scan' = scan + 1 /\ m' = p
        BY <2>2, <3>2
      <3> QED BY <2>3, <3>1, <3>2
    <2> QED BY <1>0, <2>4, <2>5 DEF JoinInv, LinkDriven, Surveyed, Postponed
  <1>4. ASSUME SurveyDone PROVE JoinInv'
    <2>1. /\ Pop \in MlmeType /\ Pop.fw = m.fw /\ Pop.assocT = m.assocT /\ (Known(m) => Known(Pop))
      BY <1>4, PopFollows DEF JoinInv, SurveyDone, Cmds
    <2> DEFINE p == Pop
    <2>2. p \in MlmeType /\ p.fw = m.fw /\ p.assocT = m.assocT /\ (Known(m) => Known(p))
      BY <2>1
    <2>3. m' = Clear(p, {"survey"}) /\ jt' = jt /\ user' = user /\ cmd' = "cancel"
      BY <1>4 DEF SurveyDone, Locked
    <2> HIDE DEF p
    <2>4. /\ m' \in MlmeType /\ m'.fw = m.fw \ {"survey"} /\ m'.assocT = m.assocT
          /\ (Known(m) => Known(m'))
      BY <2>2, <2>3 DEF Clear, MlmeType, Known
    <2> QED BY <1>0, <2>3, <2>4 DEF JoinInv, LinkDriven, Surveyed, Postponed
  <1>5. ASSUME SurveyCancel PROVE JoinInv'
    <2>1. /\ m' = [m EXCEPT !.scanT = FALSE] /\ jt' = jt /\ scan' = scan /\ user' = user
          /\ cmd' = "tojoin"
      BY <1>5 DEF SurveyCancel, scanVars
    <2>2. /\ m' \in MlmeType /\ m'.fw = m.fw /\ m'.assocT = m.assocT /\ m'.queue = m.queue
          /\ (Known(m) => Known(m'))
      BY <2>1 DEF JoinInv, MlmeType, Known
    <2> QED BY <1>0, <2>1, <2>2 DEF JoinInv, LinkDriven, Surveyed, Postponed
  <1>6. ASSUME SurveyToJoin PROVE JoinInv'
    <2>1. /\ m' \in AfterSurvey(m) \/ (~m.toJoin /\ m' = m)
          /\ jt' = jt /\ scan' = scan /\ user' = user
      BY <1>6 DEF SurveyToJoin, scanVars, Locked
    <2>2. CASE m' \in AfterSurvey(m)
      <3>1. /\ m' \in MlmeType /\ (Searching(m.queue) => Searching(m'.queue))
            /\ "linking" \in m'.fw => m'.assocT
            /\ "survey" \in m'.fw => "survey" \in m.fw \/ Searching(m'.queue)
            /\ m'.toJoin => Searching(m'.queue)
            /\ Known(m) => Known(m')
        BY <2>2, After DEF JoinInv
      <3> QED BY <1>0, <2>1, <3>1 DEF JoinInv, LinkDriven, Surveyed, Postponed
    <2>3. CASE ~m.toJoin /\ m' = m
      BY <1>0, <2>1, <2>3 DEF JoinInv, LinkDriven, Surveyed, Postponed
    <2> QED BY <2>1, <2>2, <2>3
  <1>7. ASSUME SurveyReport PROVE JoinInv'
    <2>1. m' = m /\ jt' = jt /\ scan' = scan /\ user' = user /\ cmd = "report"
      BY <1>7 DEF SurveyReport
    <2> QED BY <1>0, <2>1 DEF JoinInv, LinkDriven, Surveyed, Postponed
  <1>8. ASSUME NEW c \in {"stadel", "expired"}, CmdStaDel(c) PROVE JoinInv'
    <2> DEFINE p == Pop
               t == IF c = "stadel" THEN rtw_set_to_roam(p, 0)
                    ELSE IF m.toRoam > 0 THEN rtw_dec_to_roam(p) ELSE rtw_set_to_roam(p, MaxRoam)
               d == rtw_indicate_disconnect(t)
    <2>1. /\ p \in MlmeType /\ Follows(m, p) /\ (Known(m) => Known(p))
          /\ p.up = m.up /\ p.toRoam = m.toRoam
      BY <1>8, PopFollows DEF JoinInv, CmdStaDel, Cmds
    <2>2. jt' = jt /\ scan' = scan /\ cmd' = cmd /\ user' = user /\ m' \in _rtw_roaming(d)
      BY <1>8 DEF CmdStaDel, scanVars, Locked
    <2>3. Orderly' => c = "stadel" \/ m.up = "connected"
      BY <1>8 DEF CmdStaDel, Orderly
    <2> HIDE DEF p
    <2>4. Follows(p, t) /\ (Orderly' => (Known(p) => Known(t)))
      <3>1. /\ MaxRoam \in 1..255 /\ 0 \in 0..MaxRoam /\ MaxRoam \in 0..MaxRoam
            /\ p.toRoam \in 0..MaxRoam
        BY <2>1, JoinAssumption DEF MlmeType
      <3>2. CASE c = "stadel"
        <4>1. t = [p EXCEPT !.toRoam = 0, !.toJoin = FALSE]
          BY <3>2 DEF rtw_set_to_roam
        <4> HIDE DEF t
        <4>2. /\ t \in MlmeType /\ t.fw = p.fw /\ t.queue = p.queue /\ t.up = p.up
              /\ t.assocT = p.assocT /\ t.toRoam = 0
          BY <2>1, <3>1, <4>1 DEF MlmeType
        <4>3. t.toJoin = FALSE
          BY <2>1, <4>1 DEF MlmeType
        <4> QED BY <4>2, <4>3 DEF Follows, Known
      <3>3. CASE c # "stadel" /\ m.toRoam > 0
        <4>1. (p.toRoam - 1) % 256 = p.toRoam - 1 /\ p.toRoam - 1 \in 0..MaxRoam
          BY <2>1, <3>1, <3>3
        <4>2. t = [p EXCEPT !.toRoam = p.toRoam - 1]
          BY <3>3, <4>1 DEF rtw_dec_to_roam
        <4> HIDE DEF t
        <4>3. /\ t \in MlmeType /\ t.fw = p.fw /\ t.queue = p.queue /\ t.up = p.up
              /\ t.assocT = p.assocT /\ t.toJoin = p.toJoin
          BY <2>1, <4>1, <4>2 DEF MlmeType
        <4> QED BY <2>1, <2>3, <3>3, <4>3 DEF Follows, Known
      <3>4. CASE c # "stadel" /\ ~(m.toRoam > 0)
        <4>1. MaxRoam # 0
          BY <3>1
        <4>2. t = [p EXCEPT !.toRoam = MaxRoam, !.toJoin = p.toJoin]
          BY <3>4, <4>1 DEF rtw_set_to_roam
        <4> HIDE DEF t
        <4>3. /\ t \in MlmeType /\ t.fw = p.fw /\ t.queue = p.queue /\ t.up = p.up
              /\ t.assocT = p.assocT /\ t.toJoin = p.toJoin
          BY <2>1, <3>1, <4>2 DEF MlmeType
        <4> QED BY <2>1, <2>3, <3>4, <4>3 DEF Follows, Known
      <3> QED BY <3>2, <3>3, <3>4
    <2> HIDE DEF t
    <2>5. Follows(t, d) /\ (Known(t) => Known(d))
      BY <2>4, IndicateDisconnect DEF Follows
    <2> HIDE DEF d
    <2>6. Follows(d, m') /\ (Known(d) => Known(m'))
      <3>1. d \in MlmeType /\ d.toRoam \in 0..MaxRoam /\ MaxRoam \in Nat
        BY <2>5, JoinAssumption DEF Follows, MlmeType
      <3>2. CASE d.toRoam = 0
        BY <2>2, <3>1, <3>2 DEF _rtw_roaming, Follows
      <3>3. CASE d.toRoam # 0
        <4>1. m' \in TryRoam(d, d.toRoam) /\ d.toRoam \in 0..d.toRoam /\ d.toRoam > 0
          BY <2>2, <3>1, <3>3 DEF _rtw_roaming
        <4> QED BY <3>1, <4>1, Roam DEF Follows
      <3> QED BY <3>2, <3>3
    <2>7. Follows(m, m')
      BY <2>1, <2>4, <2>5, <2>6, FollowsTrans
    <2> QED BY <1>0, <2>1, <2>2, <2>4, <2>5, <2>6, <2>7, Kept DEF JoinInv
  <1>9. ASSUME LinkLoss PROVE JoinInv'
    <2>1. m' = Enqueue(m, "expired") /\ jt' = jt /\ scan' = scan /\ cmd' = cmd /\ user' = user
      BY <1>9 DEF LinkLoss, scanVars
    <2>2. Follows(m, m') /\ (Known(m) => Known(m'))
      BY <2>1, EnqueueFollows DEF JoinInv, Cmds
    <2> QED BY <1>0, <2>1, <2>2, Kept DEF JoinInv
  <1>10. ASSUME RxRefused PROVE JoinInv'
    <2>1. m' = JoinFailed(m) /\ jt' = jt /\ scan' = scan /\ cmd' = cmd /\ user' = user
      BY <1>10 DEF RxRefused, scanVars, Locked
    <2> QED BY <1>0, <2>1, FailedFollows, Kept DEF JoinInv
  <1>11. ASSUME RxJoined PROVE JoinInv'
    <2>1. /\ m' = m \/ m' = [m EXCEPT !.fw = {}] \/ m' = [JoinTakes(m) EXCEPT !.assocT = FALSE]
          /\ jt' = jt /\ scan' = scan /\ cmd' = cmd /\ user' = user
      BY <1>11 DEF RxJoined, scanVars, Locked
    <2>2. Follows(m, m') /\ (Known(m) => Known(m'))
      <3>1. CASE m' = m \/ m' = [m EXCEPT !.fw = {}]
        BY <3>1 DEF JoinInv, Follows, Known, MlmeType
      <3>2. CASE m' = [JoinTakes(m) EXCEPT !.assocT = FALSE]
        BY <3>2, TakesFollows DEF JoinInv
      <3> QED BY <2>1, <3>1, <3>2
    <2> QED BY <1>0, <2>1, <2>2, Kept DEF JoinInv
  <1>12. ASSUME RxDeauth PROVE JoinInv'
    <2>1. /\ m' = JoinFailed(m) \/ m' = Enqueue(m, "stadel")
          /\ jt' = jt /\ scan' = scan /\ cmd' = cmd /\ user' = user
      BY <1>12 DEF RxDeauth, scanVars, Locked
    <2>2. Follows(m, m') /\ (Known(m) => Known(m'))
      BY <2>1, FailedFollows, EnqueueFollows DEF JoinInv, Cmds
    <2> QED BY <1>0, <2>1, <2>2, Kept DEF JoinInv
  <1>13. ASSUME AssocFires PROVE JoinInv'
    <2>1. /\ m' = [m EXCEPT !.assocT = FALSE] /\ jt' = TRUE
          /\ scan' = scan /\ cmd' = cmd /\ user' = user
      BY <1>13 DEF AssocFires, scanVars
    <2>2. /\ m' \in MlmeType /\ m'.fw = m.fw /\ m'.queue = m.queue /\ m'.toJoin = m.toJoin
          /\ (Known(m) => Known(m'))
      BY <2>1 DEF JoinInv, MlmeType, Known
    <2> QED BY <1>0, <2>1, <2>2 DEF JoinInv, LinkDriven, Surveyed, Postponed
  <1>14. ASSUME JoinTimeout PROVE JoinInv'
    <2> DEFINE d == rtw_indicate_disconnect(m)
    <2>1. /\ scan' = scan /\ cmd' = cmd /\ user' = user
          /\ \/ m.toRoam > 0 /\ m' \in TryRoam(m, m.toRoam - 1)
             \/ ~(m.toRoam > 0) /\ m' = rtw_cfg80211_indicate_disconnect(d)
      BY <1>14 DEF JoinTimeout, scanVars, Locked
    <2>2. /\ m' \in MlmeType /\ (Searching(m.queue) => Searching(m'.queue))
          /\ "linking" \in m'.fw => m'.assocT
          /\ "survey" \in m'.fw => "survey" \in m.fw \/ Searching(m'.queue)
          /\ m'.toJoin => m.toJoin \/ Searching(m'.queue)
          /\ Known(m) => Known(m')
      <3>1. CASE m.toRoam > 0 /\ m' \in TryRoam(m, m.toRoam - 1)
        <4>1. m \in MlmeType /\ m.toRoam \in 0..MaxRoam /\ MaxRoam \in Nat
          BY JoinAssumption DEF JoinInv, MlmeType
        <4>2. m.toRoam - 1 \in 0..m.toRoam
          BY <3>1, <4>1
        <4> QED BY <3>1, <4>1, <4>2, Roam
      <3>2. CASE ~(m.toRoam > 0) /\ m' = rtw_cfg80211_indicate_disconnect(d)
        <4>1. /\ d \in MlmeType /\ d.toRoam = m.toRoam
              /\ "linking" \notin d.fw /\ "linked" \notin d.fw
              /\ "survey" \in d.fw => "survey" \in m.fw
              /\ d.queue = m.queue /\ d.toJoin = m.toJoin
          BY IndicateDisconnect DEF JoinInv, Follows
        <4> HIDE DEF d
        <4>2. /\ m' \in MlmeType /\ m'.fw = d.fw /\ m'.queue = d.queue /\ m'.toJoin = d.toJoin
              /\ m'.toRoam = d.toRoam
          BY <3>2, <4>1 DEF rtw_cfg80211_indicate_disconnect, MlmeType
        <4> QED BY <3>2, <4>1, <4>2 DEF Known
      <3> QED BY <2>1, <3>1, <3>2
    <2> QED BY <1>0, <2>1, <2>2 DEF JoinInv, LinkDriven, Surveyed, Postponed
  <1>15. ASSUME LinkFail PROVE JoinInv'
    <2>1. m' = JoinFailed(m) /\ jt' = jt /\ scan' = scan /\ cmd' = cmd /\ user' = user
      BY <1>15 DEF LinkFail, scanVars, Locked
    <2> QED BY <1>0, <2>1, FailedFollows, Kept DEF JoinInv
  <1>16. ASSUME SurveyTimer PROVE JoinInv'
    <2>1. /\ m' = Enqueue(m, "survey") \/ m' = m
          /\ jt' = jt /\ scan' = scan /\ cmd' = cmd /\ user' = user
      BY <1>16 DEF SurveyTimer
    <2>2. Follows(m, m') /\ (Known(m) => Known(m'))
      BY <2>1, EnqueueFollows DEF JoinInv, Cmds, Follows
    <2> QED BY <1>0, <2>1, <2>2, Kept DEF JoinInv
  <1>17. ASSUME ScanTimeout PROVE JoinInv'
    <2>1. /\ m' = [Clear(m, {"survey"}) EXCEPT !.scanT = FALSE]
          /\ jt' = jt /\ scan' = scan /\ cmd' = cmd /\ user' = user
      BY <1>17 DEF ScanTimeout, Locked
    <2>2. Follows(m, m') /\ (Known(m) => Known(m'))
      BY <2>1 DEF JoinInv, Clear, Follows, Known, MlmeType
    <2> QED BY <1>0, <2>1, <2>2, Kept DEF JoinInv
  <1>18. ASSUME Scan PROVE JoinInv'
    <2>1. /\ m' = rtw_sitesurvey_cmd(m) \/ m' = m
          /\ jt' = jt /\ scan' = scan /\ cmd' = cmd /\ user' = user
      BY <1>18 DEF Scan, Locked, NoRequest
    <2>2. Follows(m, m') /\ (Known(m) => Known(m'))
      BY <2>1, Sitesurvey DEF JoinInv, Follows
    <2> QED BY <1>0, <2>1, <2>2, Kept DEF JoinInv
  <1>19. ASSUME Connect PROVE JoinInv'
    <2>1. /\ m' = [m EXCEPT !.up = IF m.up = "idle" THEN "connecting" ELSE m.up]
          /\ jt' = jt /\ scan' = scan /\ cmd' = cmd
      BY <1>19 DEF Connect, NoRequest, scanVars
    <2>2. user' \in UserType
      BY <1>19 DEF Connect, NoUser, UserType
    <2>3. Follows(m, m') /\ (Known(m) => Known(m'))
      <3>1. /\ m' \in MlmeType /\ m'.fw = m.fw /\ m'.queue = m.queue /\ m'.assocT = m.assocT
            /\ m'.toJoin = m.toJoin /\ m'.toRoam = m.toRoam
            /\ (m.up = "connected" => m'.up = "connected")
        BY <2>1 DEF JoinInv, MlmeType
      <3> QED BY <3>1 DEF Follows, Known
    <2> QED BY <1>0, <2>1, <2>2, <2>3, Kept
  <1>20. ASSUME Disconnect PROVE JoinInv'
    <2>1. /\ m' = [m EXCEPT !.toRoam = 0, !.toJoin = FALSE]
          /\ jt' = jt /\ scan' = scan /\ cmd' = cmd
      BY <1>20 DEF Disconnect, NoRequest, scanVars, rtw_set_to_roam
    <2>2. user' \in UserType
      BY <1>20 DEF Disconnect, NoUser, UserType
    <2>3. /\ m' \in MlmeType /\ m'.fw = m.fw /\ m'.queue = m.queue /\ m'.assocT = m.assocT
          /\ m'.toRoam = 0 /\ m'.up = m.up
      <3>1. 0 \in 0..MaxRoam
        BY JoinAssumption
      <3> QED BY <2>1, <3>1 DEF JoinInv, MlmeType
    <2>4. m'.toJoin = FALSE
      BY <2>1 DEF JoinInv, MlmeType
    <2> QED BY <1>0, <2>1, <2>2, <2>3, <2>4, Kept DEF Follows, Known
  <1>21. ASSUME ScanAborted PROVE JoinInv'
    <2>1. m' = m /\ jt' = jt /\ scan' = scan /\ cmd' = cmd
      BY <1>21 DEF ScanAborted, NoRequest, scanVars
    <2>2. user' \in UserType
      BY <1>21 DEF ScanAborted, Goto, JoinInv, UserType, MlmeType
    <2> QED BY <1>0, <2>1, <2>2, SameFollows, Kept DEF JoinInv
  <1>22. ASSUME JoinAborted PROVE JoinInv'
    <2>1. m' = m /\ jt' = jt /\ scan' = scan /\ cmd' = cmd
      BY <1>22 DEF JoinAborted, NoRequest, scanVars
    <2>2. user' \in UserType
      BY <1>22 DEF JoinAborted, Goto, JoinInv, UserType, MlmeType
    <2> QED BY <1>0, <2>1, <2>2, SameFollows, Kept DEF JoinInv
  <1>23. ASSUME DiscCmd PROVE JoinInv'
    <2>1. m' = Enqueue(m, "disc") /\ jt' = jt /\ scan' = scan /\ cmd' = cmd
      BY <1>23 DEF DiscCmd, NoRequest, scanVars
    <2>2. user' \in UserType
      BY <1>23 DEF DiscCmd, Goto, JoinInv, UserType
    <2>3. Follows(m, m') /\ (Known(m) => Known(m'))
      BY <2>1, EnqueueFollows DEF JoinInv, Cmds
    <2> QED BY <1>0, <2>1, <2>2, <2>3, Kept
  <1>24. ASSUME IndLoad PROVE JoinInv'
    <2>1. m' = m /\ jt' = jt /\ scan' = scan /\ cmd' = cmd
      BY <1>24 DEF IndLoad, NoRequest, scanVars
    <2>2. user' \in UserType
      BY <1>24 DEF IndLoad, JoinInv, UserType, MlmeType
    <2> QED BY <1>0, <2>1, <2>2, SameFollows, Kept DEF JoinInv
  <1>25. ASSUME IndStore PROVE JoinInv'
    <2> DEFINE l == [m EXCEPT !.fw = user.ld]
               d == rtw_indicate_disconnect(l)
    <2>1. /\ m' = d \/ (d.up = "connecting" /\ m' = [d EXCEPT !.up = "idle"])
          /\ jt' = jt /\ scan' = scan /\ cmd' = cmd
      BY <1>25 DEF IndStore, NoRequest, scanVars
    <2>2. user' \in UserType
      BY <1>25 DEF IndStore, NoUser, JoinInv, UserType
    <2>3. l \in MlmeType /\ (Orderly' => l = m)
      <3>1. l \in MlmeType
        BY DEF JoinInv, MlmeType, UserType
      <3>2. ASSUME Orderly' PROVE m.fw = user.ld
        BY <1>25, <3>2 DEF IndStore, Orderly
      <3>3. ASSUME m.fw = user.ld PROVE l = m
        BY <3>3 DEF JoinInv, MlmeType
      <3> HIDE DEF l
      <3> QED BY <3>1, <3>2, <3>3
    <2> HIDE DEF l
    <2>4. Follows(l, d) /\ (Known(l) => Known(d)) /\ "linking" \notin d.fw /\ "linked" \notin d.fw
      BY <2>3, IndicateDisconnect
    <2> HIDE DEF d
    <2>5. /\ Follows(l, m') /\ (Known(l) => Known(m')) /\ "linking" \notin m'.fw
      <3>1. CASE m' = d
        BY <2>4, <3>1
      <3>2. CASE d.up = "connecting" /\ m' = [d EXCEPT !.up = "idle"]
        <4>1. /\ m' \in MlmeType /\ m'.fw = d.fw /\ m'.queue = d.queue /\ m'.assocT = d.assocT
              /\ m'.toJoin = d.toJoin /\ m'.toRoam = d.toRoam
          BY <2>4, <3>2 DEF Follows, MlmeType
        <4> QED BY <2>4, <3>2, <4>1 DEF Follows, Known
      <3> QED BY <2>1, <3>1, <3>2
    <2>6. CASE Orderly'
      BY <1>0, <2>1, <2>2, <2>3, <2>5, <2>6, Kept
    <2>7. CASE ~Orderly'
      BY <2>1, <2>2, <2>5, <2>7 DEF JoinInv, LinkDriven, Follows
    <2> QED BY <2>6, <2>7
  <1>26. ASSUME SetConnect PROVE JoinInv'
    <2>1. PICK r \in (IF "survey" \in m.fw THEN {<<TRUE, [m EXCEPT !.toJoin = TRUE]>>}
                      ELSE IF "linking" \in m.fw THEN {<<TRUE, m>>}
                      ELSE rtw_do_join(m)) :
                 IF r[1] THEN Locked(r[2]) /\ Goto("rec") /\ UNCHANGED blk
                 ELSE /\ Locked([r[2] EXCEPT !.up = IF @ = "connecting" THEN "idle" ELSE @])
                      /\ user' = NoUser /\ blk' = FALSE
      BY <1>26, Zenon DEF SetConnect
    <2> DEFINE y == r[2]
    <2>2. jt' = jt /\ scan' = scan /\ cmd' = cmd
      BY <1>26 DEF SetConnect, NoRequest, scanVars
    <2>3. /\ m' = y \/ m' = [y EXCEPT !.up = IF y.up = "connecting" THEN "idle" ELSE y.up]
          /\ user' \in UserType
      BY <2>1 DEF Locked, Goto, NoUser, JoinInv, UserType
    <2>4. /\ y \in MlmeType /\ (Searching(m.queue) => Searching(y.queue))
          /\ "linking" \in y.fw => y.assocT \/ ("linking" \in m.fw /\ y.assocT = m.assocT)
          /\ "survey" \in y.fw => "survey" \in m.fw \/ Searching(y.queue)
          /\ y.toJoin => m.toJoin \/ "survey" \in m.fw \/ Searching(y.queue)
          /\ Known(m) => Known(y)
      <3>1. CASE "survey" \in m.fw
        <4>1. y = [m EXCEPT !.toJoin = TRUE]
          BY <2>1, <3>1
        <4> HIDE DEF y
        <4> QED BY <3>1, <4>1 DEF JoinInv, MlmeType, Known
      <3>2. CASE "survey" \notin m.fw /\ "linking" \in m.fw
        <4>1. y = m
          BY <2>1, <3>2
        <4> HIDE DEF y
        <4> QED BY <3>2, <4>1 DEF JoinInv
      <3>3. CASE "survey" \notin m.fw /\ "linking" \notin m.fw
        BY <2>1, <3>3, DoJoin DEF JoinInv
      <3> QED BY <3>1, <3>2, <3>3
    <2> HIDE DEF y
    <2>5. /\ m' \in MlmeType /\ m'.fw = y.fw /\ m'.queue = y.queue /\ m'.assocT = y.assocT
          /\ m'.toJoin = y.toJoin /\ m'.toRoam = y.toRoam
          /\ (y.up = "connected" => m'.up = "connected")
      BY <2>3, <2>4 DEF MlmeType
    <2>6. Known(y) => Known(m')
      BY <2>5 DEF Known
    <2> QED BY <1>0, <2>2, <2>3, <2>4, <2>5, <2>6 DEF JoinInv, LinkDriven, Surveyed, Postponed
  <1>27. ASSUME Record PROVE JoinInv'
    <2>1. m' = [m EXCEPT !.req = TRUE] /\ jt' = jt /\ scan' = scan /\ cmd' = cmd
      BY <1>27 DEF Record, NoRequest, scanVars
    <2>2. user' \in UserType
      BY <1>27 DEF Record, NoUser, UserType
    <2>3. Follows(m, m') /\ (Known(m) => Known(m'))
      BY <2>1 DEF JoinInv, Follows, Known, MlmeType
    <2> QED BY <1>0, <2>1, <2>2, <2>3, Kept
  <1>28. ASSUME \/ RxBeacon \/ RxAuth \/ RxAssocRsp \/ LinkFires \/ LinkRetry \/ LinkDrop
               \/ ScanTimeoutReport \/ UNCHANGED vars
               \/ \E f \in {"beacon", "auth", "rsp"} : RxCheck(f)
        PROVE JoinInv'
    <2>1. UNCHANGED <<cmd, jt, m, race, scan, stuck, user>>
      BY <1>28, Zenon DEF RxCheck, RxBeacon, RxAuth, RxAssocRsp, LinkFires, LinkRetry, LinkDrop,
         ScanTimeoutReport, scanVars, vars
    <2> QED BY <2>1 DEF JoinInv, LinkDriven, Surveyed, Postponed, Orderly
  <1> QED
    <2>1. "stadel" \in {"stadel", "expired"} /\ "expired" \in {"stadel", "expired"}
      OBVIOUS
    <2> QED
      BY <2>1, <1>1, <1>2, <1>3, <1>4, <1>5, <1>6, <1>7, <1>8, <1>9, <1>10, <1>11, <1>12, <1>13,
         <1>14, <1>15, <1>16, <1>17, <1>18, <1>19, <1>20, <1>21, <1>22, <1>23, <1>24, <1>25,
         <1>26, <1>27, <1>28, Zenon DEF Next, Command, RxRest, LinkTimer, Request

\* pmlmeinfo->state is inside authentication or association
Deciding == info \cap Linking # {} /\ "success" \notin info
\* The link timer's side of an attempt: it is pending or being handled, and finds a bit it acts on.
\* Between dropping the state and reporting nothing else changes it.
InfoInv ==
  /\ info \subseteq Bits /\ lt \in {"idle", "retry", "fail", "report"}
  /\ Deciding => info \cap {"authnull", "auth", "assoc"} # {}
  /\ lt = "report" => info = {}
  /\ Deciding => linkT \/ lt # "idle"

\* retries, channels and places
PlaceInv ==
  /\ tries \in 0..RetryLimit /\ scan \in 0..NumChan
  /\ rx \in {"idle", "beacon", "auth", "rsp", "joined", "refused"}
  /\ cmd \in {"idle", "cancel", "tojoin", "report"}

\* InfoInv is kept: whoever moves pmlmeinfo->state on sets the timer again.
LEMMA InfoInvStep ==
  ASSUME InfoInv, [Next]_vars
  PROVE  InfoInv'
  <1> USE DEF InfoInv, Deciding, Bits, Linking
  <1>1. ASSUME CmdJoin PROVE InfoInv'
    BY <1>1 DEF CmdJoin
  <1>2. ASSUME CmdDisc PROVE InfoInv'
    BY <1>2 DEF CmdDisc
  <1>3. ASSUME NEW c \in {"stadel", "expired"}, CmdStaDel(c) PROVE InfoInv'
    BY <1>3 DEF CmdStaDel
  <1>4. ASSUME LinkLoss PROVE InfoInv'
    BY <1>4 DEF LinkLoss
  <1>5. ASSUME RxBeacon PROVE InfoInv'
    BY <1>5 DEF RxBeacon
  <1>6. ASSUME RxAuth PROVE InfoInv'
    BY <1>6 DEF RxAuth
  <1>7. ASSUME RxAssocRsp PROVE InfoInv'
    BY <1>7 DEF RxAssocRsp
  <1>8. ASSUME RxDeauth PROVE InfoInv'
    BY <1>8 DEF RxDeauth
  <1>9. ASSUME LinkFires PROVE InfoInv'
    BY <1>9 DEF LinkFires
  <1>10. ASSUME LinkRetry PROVE InfoInv'
    BY <1>10 DEF LinkRetry
  <1>11. ASSUME LinkDrop PROVE InfoInv'
    BY <1>11 DEF LinkDrop
  <1>12. ASSUME LinkFail PROVE InfoInv'
    BY <1>12 DEF LinkFail, infoVars
  <1>13. ASSUME ScanAborted PROVE InfoInv'
    BY <1>13 DEF ScanAborted, NoRequest
  <1>14. ASSUME \/ CmdSurvey \/ SurveyDone \/ SurveyCancel \/ SurveyToJoin \/ SurveyReport
               \/ RxRefused \/ RxJoined \/ AssocFires \/ JoinTimeout \/ SurveyTimer
               \/ ScanTimeout \/ ScanTimeoutReport \/ Scan \/ Connect \/ Disconnect
               \/ JoinAborted \/ DiscCmd \/ IndLoad \/ IndStore \/ SetConnect \/ Record
               \/ UNCHANGED vars
               \/ \E f \in {"beacon", "auth", "rsp"} : RxCheck(f)
        PROVE InfoInv'
    <2>1. UNCHANGED <<info, linkT, lt>>
      BY <1>14, Zenon DEF CmdSurvey, SurveyDone, SurveyCancel, SurveyToJoin, SurveyReport,
         RxCheck, RxRefused, RxJoined, AssocFires, JoinTimeout, SurveyTimer, ScanTimeout,
         ScanTimeoutReport, Scan, Connect, Disconnect, JoinAborted, DiscCmd, IndLoad, IndStore,
         SetConnect, Record, NoRequest, infoVars, vars
    <2> QED BY <2>1
  <1> QED
    <2>1. "stadel" \in {"stadel", "expired"} /\ "expired" \in {"stadel", "expired"}
      OBVIOUS
    <2> QED
      BY <2>1, <1>1, <1>2, <1>3, <1>4, <1>5, <1>6, <1>7, <1>8, <1>9, <1>10, <1>11, <1>12, <1>13,
         <1>14, Zenon DEF Next, Command, RxRest, LinkTimer, Request

\* PlaceInv is kept by every step.
LEMMA PlaceInvStep ==
  ASSUME PlaceInv, [Next]_vars
  PROVE  PlaceInv'
  <1> USE JoinAssumption DEF PlaceInv
  <1>1. ASSUME CmdSurvey PROVE PlaceInv'
    BY <1>1 DEF CmdSurvey, infoVars
  <1>2. ASSUME SurveyDone PROVE PlaceInv'
    BY <1>2 DEF SurveyDone, infoVars, scanVars
  <1>3. ASSUME SurveyCancel PROVE PlaceInv'
    BY <1>3 DEF SurveyCancel, infoVars, scanVars
  <1>4. ASSUME SurveyToJoin PROVE PlaceInv'
    BY <1>4 DEF SurveyToJoin, infoVars, scanVars
  <1>5. ASSUME SurveyReport PROVE PlaceInv'
    BY <1>5 DEF SurveyReport, infoVars
  <1>6. ASSUME NEW f \in {"beacon", "auth", "rsp"}, RxCheck(f) PROVE PlaceInv'
    BY <1>6 DEF RxCheck, infoVars, scanVars
  <1>7. ASSUME RxBeacon PROVE PlaceInv'
    BY <1>7 DEF RxBeacon, scanVars
  <1>8. ASSUME RxAuth PROVE PlaceInv'
    <2>1. (tries' = 0 \/ tries' = tries) /\ rx' = "idle" /\ UNCHANGED <<scan, cmd>>
      BY <1>8, Zenon DEF RxAuth, scanVars
    <2> QED BY <2>1
  <1>9. ASSUME RxAssocRsp PROVE PlaceInv'
    BY <1>9 DEF RxAssocRsp, scanVars
  <1>10. ASSUME RxRefused PROVE PlaceInv'
    BY <1>10 DEF RxRefused, infoVars, scanVars
  <1>11. ASSUME RxJoined PROVE PlaceInv'
    BY <1>11 DEF RxJoined, infoVars, scanVars
  <1>12. ASSUME LinkRetry PROVE PlaceInv'
    BY <1>12 DEF LinkRetry, scanVars
  <1>13. ASSUME \/ CmdJoin \/ CmdDisc \/ LinkLoss \/ RxDeauth \/ AssocFires \/ JoinTimeout
               \/ LinkFires \/ LinkDrop \/ LinkFail \/ SurveyTimer \/ ScanTimeout
               \/ ScanTimeoutReport \/ Scan \/ Connect \/ Disconnect \/ ScanAborted
               \/ JoinAborted \/ DiscCmd \/ IndLoad \/ IndStore \/ SetConnect \/ Record
               \/ UNCHANGED vars
               \/ \E c \in {"stadel", "expired"} : CmdStaDel(c)
        PROVE PlaceInv'
    <2>1. UNCHANGED <<cmd, rx, scan, tries>>
      BY <1>13, Zenon DEF CmdJoin, CmdDisc, CmdStaDel, LinkLoss, RxDeauth, AssocFires,
         JoinTimeout, LinkFires, LinkDrop, LinkFail, SurveyTimer, ScanTimeout, ScanTimeoutReport,
         Scan, Connect, Disconnect, ScanAborted, JoinAborted, DiscCmd, IndLoad, IndStore,
         SetConnect, Record, NoRequest, infoVars, scanVars, vars
    <2> QED BY <2>1
  <1> QED
    <2>1. "stadel" \in {"stadel", "expired"} /\ "expired" \in {"stadel", "expired"}
      OBVIOUS
    <2> QED
      BY <2>1, <1>1, <1>2, <1>3, <1>4, <1>5, <1>6, <1>7, <1>8, <1>9, <1>10, <1>11, <1>12, <1>13,
         Zenon DEF Next, Command, RxRest, LinkTimer, Request

\* The inductive invariant, whole.
IInv == JoinInv /\ InfoInv /\ PlaceInv

\* A driver that has just come up satisfies it.
LEMMA InitInv == Init => IInv
  <1> SUFFICES ASSUME Init PROVE IInv
    OBVIOUS
  <1>1. m \in MlmeType /\ user \in UserType
    <2>1. 0 \in 0..MaxRoam /\ <<>> \in Seq(Cmds)
      BY JoinAssumption
    <2> QED BY <2>1 DEF Init, MlmeType, UserType, NoUser
  <1>2. LinkDriven /\ Surveyed /\ Postponed /\ Known(m)
    <2>1. m.fw = {} /\ m.toRoam = 0
      BY DEF Init
    <2>2. m.toJoin = FALSE
      BY DEF Init
    <2> QED BY <2>1, <2>2 DEF LinkDriven, Surveyed, Postponed, Known
  <1>3. InfoInv
    BY DEF Init, InfoInv, Deciding
  <1>4. PlaceInv
    BY JoinAssumption DEF Init, PlaceInv
  <1> QED BY <1>1, <1>2, <1>3, <1>4 DEF IInv, JoinInv

\* Every step keeps it.
LEMMA InvStep ==
  ASSUME IInv, [Next]_vars
  PROVE  IInv'
  <1>1. scan \in Nat
    BY JoinAssumption DEF IInv, PlaceInv
  <1> QED BY <1>1, JoinInvStep, InfoInvStep, PlaceInvStep, Zenon DEF IInv

\* It holds in every reachable state.
LEMMA InvHolds == Spec => []IInv
  BY InitInv, InvStep, PTL DEF Spec

\* For every number of roaming attempts, retries, channels and requests: types are kept, to_roam, a
\* u8 that four functions count down, never wraps, and no answer is asked for more often than the
\* limit, in every interleaving.
THEOREM TypeCorrect == Spec => []TypeOK
  <1>1. IInv => TypeOK
    BY DEF IInv, JoinInv, InfoInv, PlaceInv, UserType, TypeOK
  <1> QED BY <1>1, InvHolds, PTL

\* For every number of roaming attempts, retries, channels and requests: an attempt to join always
\* has the timer, survey or link timer that ends it.
THEOREM AttemptsDriven == Spec => []AttemptIsDriven
  <1>1. IInv => AttemptIsDriven
    <2> SUFFICES ASSUME IInv PROVE AttemptIsDriven
      OBVIOUS
    <2>1. "linking" \in m.fw => m.assocT \/ jt
      BY Zenon DEF IInv, JoinInv, LinkDriven
    <2>2. Deciding => linkT \/ lt # "idle"
      BY Zenon DEF IInv, InfoInv
    <2>3. ASSUME Orderly, m.toJoin
          PROVE  \/ scan > 0 \/ cmd \in {"cancel", "tojoin"}
                 \/ \E i \in DOMAIN m.queue : m.queue[i] \in {"survey", "surveydone"}
      <3>1. m.queue \in Seq(Cmds)
        BY DEF IInv, JoinInv, MlmeType
      <3>2. DOMAIN m.queue = 1..Len(m.queue)
        BY <3>1, LenProperties
      <3> QED BY <2>3, <3>2, Zenon DEF IInv, JoinInv, Postponed, Searching
    <2> QED BY <2>1, <2>2, <2>3, Zenon DEF AttemptIsDriven, Deciding
  <1> QED BY <1>1, InvHolds, PTL

\* For every number of roaming attempts, retries, channels and requests: a linked station is
\* connected in the kernel's eyes.
THEOREM LinkKnown == Spec => []LinkedIsKnown
  <1>1. IInv => LinkedIsKnown
    BY Zenon DEF IInv, JoinInv, Known, LinkedIsKnown
  <1> QED BY <1>1, InvHolds, PTL
=============================================================================
