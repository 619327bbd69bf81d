--------------------------- MODULE StaSleepProofs ---------------------------
EXTENDS StaSleep, SequenceTheorems, FiniteSetTheorems, FunctionTheorems,
        WellFoundedInduction, TLAPS

-----------------------------------------------------------------------------
(* Induction and recursion over the natural numbers, from the              *)
(* well-foundedness of strict inclusion between finite sets                *)

\* Every non-empty set of natural numbers has a least element.
LEMMA LeastNumber ==
  ASSUME NEW T \in SUBSET Nat, T # {}
  PROVE  \E n \in T : \A m \in T : n <= m
  <1> DEFINE U == {1..n : n \in T}
  <1>1. U \subseteq FiniteSubsetsOf(Nat) /\ U # {}
    <2>1. ASSUME NEW n \in T PROVE 1..n \in FiniteSubsetsOf(Nat)
      <3>1. n \in Int /\ 1 \in Int /\ 1..n \in SUBSET Nat
        OBVIOUS
      <3>2. IsFiniteSet(1..n)
        BY <3>1, FS_Interval, Zenon
      <3> QED BY <3>1, <3>2 DEF FiniteSubsetsOf
    <2> QED BY <2>1
  <1> HIDE DEF U
  <1>2. PICK D \in U : \A E \in U : <<E, D>> \notin StrictSubsetOrdering(Nat)
    BY <1>1, FS_StrictSubsetOrderingWellFounded, WFMin, Zenon
  <1>3. PICK n \in T : D = 1..n
    BY DEF U
  <1>4. ASSUME NEW m \in T, m < n PROVE FALSE
    <2>1. 1..m \in U
      BY DEF U
    <2>2. 1..m \subseteq D /\ n \in D /\ n \notin 1..m
      BY <1>3, <1>4
    <2>3. <<1..m, D>> \in StrictSubsetOrdering(Nat)
      BY <1>1, <2>1, <2>2, <1>3 DEF StrictSubsetOrdering, FiniteSubsetsOf
    <2> QED BY <1>2, <2>1, <2>3
  <1> QED BY <1>4

\* Induction, as a fact about a set of numbers.
LEMMA CountingUp ==
  ASSUME NEW T \in SUBSET Nat, 0 \in T, \A n \in T : n + 1 \in T
  PROVE  T = Nat
  <1>1. SUFFICES ASSUME Nat \ T # {} PROVE FALSE
    OBVIOUS
  <1>2. PICK n \in Nat \ T : \A m \in Nat \ T : n <= m
    BY <1>1, LeastNumber
  <1>3. n # 0 /\ n - 1 \in Nat /\ n - 1 \in T /\ (n - 1) + 1 = n
    BY <1>2
  <1> QED BY <1>2, <1>3

\* F is the sequence of values a primitive recursion takes in S, from z, with
\* the step functions G.
StepFns(G, N, S) == G \in [1..N -> [S -> S]]
Computes(F, N, S, z, G) ==
  F \in [0..N -> S] /\ F[0] = z /\ \A i \in 1..N : F[i] = G[i][F[i - 1]]

\* A primitive recursion has values.
LEMMA Recursion ==
  ASSUME NEW N \in Nat, NEW S, NEW z \in S, NEW G, StepFns(G, N, S)
  PROVE  \E F : Computes(F, N, S, z, G)
  <1> DEFINE Upto(n, F) == F[0] = z /\ \A i \in 1..n : F[i] = G[i][F[i - 1]]
             T == {n \in Nat : n <= N => \E F \in [0..n -> S] : Upto(n, F)}
  <1>1. 0 \in T
    <2>1. Upto(0, [i \in 0..0 |-> z]) /\ [i \in 0..0 |-> z] \in [0..0 -> S]
      OBVIOUS
    <2> QED BY <2>1
  <1>2. ASSUME NEW n \in T PROVE n + 1 \in T
    <2>1. SUFFICES ASSUME n + 1 <= N
                   PROVE  \E F \in [0..n + 1 -> S] : Upto(n + 1, F)
      OBVIOUS
    <2>2. PICK F \in [0..n -> S] : Upto(n, F)
      BY <2>1
    <2>3. F[n] \in S /\ n + 1 \in 1..N
      BY <2>1
    <2> DEFINE H == [i \in 0..n + 1 |-> IF i = n + 1 THEN G[n + 1][F[n]] ELSE F[i]]
    <2>4. H \in [0..n + 1 -> S]
      BY <2>3 DEF StepFns
    <2>5. H[0] = z
      BY <2>2
    <2>6. ASSUME NEW i \in 1..n + 1 PROVE H[i] = G[i][H[i - 1]]
      <3>1. CASE i = n + 1
        BY <3>1
      <3>2. CASE i # n + 1
        BY <3>2, <2>2
      <3> QED BY <3>1, <3>2
    <2> HIDE DEF H
    <2> QED BY <2>4, <2>5, <2>6
  <1> HIDE DEF T
  <1>3. T = Nat
    <2>1. T \in SUBSET Nat
      BY DEF T
    <2> QED BY <1>1, <1>2, <2>1, CountingUp
  <1>4. N \in T /\ N <= N
    BY <1>3
  <1> QED BY <1>4 DEF T, Computes

-----------------------------------------------------------------------------
(* Queues: selections and counts                                           *)

Upto(q, A, n) == {j \in 1..n : q[j] \in A}
Places(q, A) == Upto(q, A, Len(q))
Count(q, A) == Cardinality(Places(q, A))

\* h puts the frames of r, in order of r, at the places P of q.
Picks(h, r, q, P) ==
  /\ h \in [1..Len(r) -> P]
  /\ \A a, b \in 1..Len(r) : h[a] = h[b] => a = b
  /\ \A t \in P : \E k \in 1..Len(r) : h[k] = t
  /\ \A k \in 1..Len(r) : r[k] = q[h[k]]

\* One more frame is selected.
LEMMA PicksMore ==
  ASSUME NEW q \in Seq(AC), NEW A, NEW r \in Seq(AC), NEW h, NEW n \in Nat,
         n + 1 <= Len(q), q[n + 1] \in A, Picks(h, r, q, Upto(q, A, n))
  PROVE  \E g : Picks(g, Append(r, q[n + 1]), q, Upto(q, A, n + 1))
  <1> DEFINE m == Len(r)
             s == Append(r, q[n + 1])
             g == [k \in 1..m + 1 |-> IF k = m + 1 THEN n + 1 ELSE h[k]]
  <1>1. q[n + 1] \in AC /\ m \in Nat
    OBVIOUS
  <1>2. Len(s) = m + 1 /\ s[m + 1] = q[n + 1] /\ \A k \in 1..m : s[k] = r[k]
    BY <1>1
  <1>3. Upto(q, A, n + 1) = Upto(q, A, n) \cup {n + 1} /\ n + 1 \notin Upto(q, A, n)
    BY DEF Upto
  <1>4. /\ h \in [1..m -> Upto(q, A, n)]
        /\ \A a, b \in 1..m : h[a] = h[b] => a = b
        /\ \A t \in Upto(q, A, n) : \E k \in 1..m : h[k] = t
        /\ \A k \in 1..m : r[k] = q[h[k]]
    BY DEF Picks
  <1> HIDE DEF m, s
  <1>5. g \in [1..m + 1 -> Upto(q, A, n + 1)]
    BY <1>1, <1>3, <1>4
  <1>6. \A a, b \in 1..m + 1 : g[a] = g[b] => a = b
    BY <1>1, <1>3, <1>4
  <1>7. \A t \in Upto(q, A, n + 1) : \E k \in 1..m + 1 : g[k] = t
    <2>1. ASSUME NEW t \in Upto(q, A, n) PROVE \E k \in 1..m + 1 : g[k] = t
      BY <1>1, <1>4
    <2>2. g[m + 1] = n + 1 /\ m + 1 \in 1..m + 1
      BY <1>1
    <2> HIDE DEF g
    <2> QED BY <1>3, <2>1, <2>2
  <1>8. \A k \in 1..m + 1 : s[k] = q[g[k]]
    BY <1>1, <1>2, <1>4
  <1> HIDE DEF g
  <1>9. Picks(g, s, q, Upto(q, A, n + 1))
    BY <1>2, <1>5, <1>6, <1>7, <1>8 DEF Picks
  <1> QED BY <1>9 DEF s

\* Only(q, A) is a queue that holds exactly the frames of q with a category in A.
LEMMA OnlyFacts ==
  ASSUME NEW q \in Seq(AC), NEW A
  PROVE  Only(q, A) \in Seq(AC) /\ \E h : Picks(h, Only(q, A), q, Places(q, A))
  <1> DEFINE G == [i \in 1..Len(q) |->
                     [r \in Seq(AC) |-> IF q[i] \in A THEN Append(r, q[i]) ELSE r]]
             Sel(F) == F = [i \in 0..Len(q) |->
                        IF i = 0 THEN <<>>
                        ELSE IF q[i] \in A THEN Append(F[i - 1], q[i]) ELSE F[i - 1]]
  <1>1. Len(q) \in Nat /\ <<>> \in Seq(AC) /\ \A i \in 1..Len(q) : q[i] \in AC
    OBVIOUS
  <1>2. StepFns(G, Len(q), Seq(AC))
    BY <1>1 DEF StepFns
  <1>3. PICK E : Computes(E, Len(q), Seq(AC), <<>>, G)
    <2> HIDE DEF G
    <2> QED BY <1>1, <1>2, Recursion
  <1>4. Sel(E)
    <2>1. ASSUME NEW i \in 1..Len(q)
          PROVE  E[i] = IF q[i] \in A THEN Append(E[i - 1], q[i]) ELSE E[i - 1]
      <3>1. E[i - 1] \in Seq(AC)
        BY <1>1, <1>3 DEF Computes
      <3> QED BY <1>3, <3>1 DEF Computes
    <2> HIDE DEF G
    <2>2. ASSUME NEW i \in 0..Len(q)
          PROVE  E[i] = IF i = 0 THEN <<>>
                        ELSE IF q[i] \in A THEN Append(E[i - 1], q[i]) ELSE E[i - 1]
      <3>1. CASE i = 0
        BY <3>1, <1>3 DEF Computes
      <3>2. CASE i # 0
        <4>1. i \in 1..Len(q)
          BY <1>1, <3>2
        <4> QED BY <2>1, <3>2, <4>1
      <3> QED BY <3>1, <3>2
    <2> QED BY <1>3, <2>2 DEF Computes
  <1> HIDE DEF G
  <1>5. PICK F : Sel(F) /\ Only(q, A) = F[Len(q)]
    BY <1>4 DEF Only
  <1>6. ASSUME NEW n \in 0..Len(q)
        PROVE  F[n] = IF n = 0 THEN <<>>
                      ELSE IF q[n] \in A THEN Append(F[n - 1], q[n]) ELSE F[n - 1]
    BY <1>5, Zenon
  <1> HIDE DEF Sel
  <1> DEFINE Good(n) == F[n] \in Seq(AC) /\ \E h : Picks(h, F[n], q, Upto(q, A, n))
             T == {n \in Nat : n <= Len(q) => Good(n)}
  <1>7. Good(0)
    <2> DEFINE h == [k \in 1..0 |-> 0]
    <2>1. Upto(q, A, 0) = {} /\ F[0] = <<>> /\ Len(<<>>) = 0
      BY <1>1, <1>6 DEF Upto
    <2>2. Picks(h, <<>>, q, {})
      BY <2>1 DEF Picks
    <2> HIDE DEF h
    <2> QED BY <1>1, <2>1, <2>2
  <1>8. ASSUME NEW n \in Nat, n + 1 <= Len(q), Good(n) PROVE Good(n + 1)
    <2>1. /\ n + 1 \in 0..Len(q) /\ n + 1 # 0 /\ (n + 1) - 1 = n /\ n + 1 \in 1..Len(q)
          /\ F[n] \in Seq(AC) /\ q[n + 1] \in AC
      BY <1>1, <1>8
    <2>2. PICK h : Picks(h, F[n], q, Upto(q, A, n))
      BY <1>8
    <2>3. CASE q[n + 1] \notin A
      <3>1. F[n + 1] = F[n]
        BY <1>6, <2>1, <2>3
      <3>2. Upto(q, A, n + 1) = Upto(q, A, n)
        BY <2>3 DEF Upto
      <3> QED BY <2>1, <2>2, <3>1, <3>2
    <2>4. CASE q[n + 1] \in A
      <3>1. F[n + 1] = Append(F[n], q[n + 1])
        BY <1>6, <2>1, <2>4
      <3>2. F[n + 1] \in Seq(AC)
        BY <2>1, <3>1
      <3>3. \E g : Picks(g, Append(F[n], q[n + 1]), q, Upto(q, A, n + 1))
        BY <1>8, <2>1, <2>2, <2>4, PicksMore
      <3> QED BY <3>1, <3>2, <3>3
    <2> QED BY <2>3, <2>4
  <1> HIDE DEF Good
  <1>9. T = Nat
    <2>1. T \in SUBSET Nat /\ 0 \in T
      BY <1>7
    <2>2. ASSUME NEW n \in T PROVE n + 1 \in T
      BY <1>1, <1>8
    <2> HIDE DEF T
    <2> QED BY <2>1, <2>2, CountingUp
  <1>10. Good(Len(q))
    BY <1>1, <1>9
  <1> QED BY <1>5, <1>10 DEF Good, Places

LEMMA PlacesFinite ==
  ASSUME NEW q \in Seq(AC), NEW A
  PROVE  IsFiniteSet(Places(q, A)) /\ Count(q, A) \in 0..Len(q)
  <1>1. Len(q) \in Nat /\ 1 \in Int /\ Len(q) \in Int /\ Places(q, A) \in SUBSET (1..Len(q))
    BY DEF Places, Upto
  <1>2. IsFiniteSet(1..Len(q)) /\ Cardinality(1..Len(q)) = IF 1 > Len(q) THEN 0 ELSE Len(q) - 1 + 1
    BY <1>1, FS_Interval, Zenon
  <1>3. /\ IsFiniteSet(Places(q, A))
        /\ Cardinality(Places(q, A)) <= Cardinality(1..Len(q))
        /\ Cardinality(Places(q, A)) \in Nat
    BY <1>1, <1>2, FS_Subset, FS_CardinalityType, Zenon
  <1> QED BY <1>1, <1>2, <1>3 DEF Count

LEMMA CountEmpty ==
  ASSUME NEW A
  PROVE  Count(<<>>, A) = 0
  <1>1. Places(<<>>, A) = {}
    BY DEF Places, Upto
  <1> QED BY <1>1, FS_EmptySet DEF Count

\* Counting distributes over concatenation.
LEMMA CountConcat ==
  ASSUME NEW q \in Seq(AC), NEW r \in Seq(AC), NEW A
  PROVE  Count(q \o r, A) = Count(q, A) + Count(r, A)
  <1> DEFINE n == Len(q)
             P == Places(r, A)
             Q == {j \in n + 1..n + Len(r) : (q \o r)[j] \in A}
             f == [j \in P |-> n + j]
  <1>1. n \in Nat /\ Len(r) \in Nat
    OBVIOUS
  <1>2. /\ Len(q \o r) = n + Len(r)
        /\ \A j \in 1..n : (q \o r)[j] = q[j]
        /\ \A j \in 1..Len(r) : (q \o r)[n + j] = r[j]
    OBVIOUS
  <1> HIDE DEF n
  <1>3. Places(q \o r, A) = Places(q, A) \cup Q /\ Places(q, A) \cap Q = {}
    BY <1>1, <1>2 DEF Places, Upto, n
  <1>4. ExistsBijection(P, Q)
    <2>1. P \subseteq 1..Len(r) /\ \A j \in P : n + j \in Q
      BY <1>1, <1>2 DEF Places, Upto
    <2>2. f \in [P -> Q] /\ \A a, b \in P : f[a] = f[b] => a = b
      <3> HIDE DEF P, Q
      <3> QED BY <1>1, <2>1
    <2>3. ASSUME NEW t \in Q PROVE \E j \in P : f[j] = t
      <3>1. t - n \in 1..Len(r) /\ n + (t - n) = t
        BY <1>1
      <3>2. t - n \in P
        BY <3>1, <1>2 DEF Places, Upto
      <3> QED BY <3>1, <3>2
    <2> HIDE DEF f, P, Q
    <2>4. f \in Bijection(P, Q)
      BY <2>2, <2>3, Fun_IsBij, Zenon
    <2> QED BY <2>4, Fun_ExistsBij, Zenon
  <1>5. IsFiniteSet(P) /\ IsFiniteSet(Places(q, A)) /\ Count(q, A) \in Nat /\ Count(r, A) \in Nat
    BY PlacesFinite
  <1> HIDE DEF Q
  <1>6. IsFiniteSet(Q) /\ Cardinality(Q) = Count(r, A)
    BY <1>4, <1>5, FS_Bijection DEF Count
  <1>7. Count(q \o r, A) = Count(q, A) + Count(r, A) - Cardinality({})
    BY <1>3, <1>5, <1>6, FS_Union DEF Count
  <1> QED BY <1>5, <1>7, FS_EmptySet

LEMMA CountOne ==
  ASSUME NEW c \in AC, NEW A
  PROVE  Count(<<c>>, A) = IF c \in A THEN 1 ELSE 0
  <1>1. Places(<<c>>, A) = IF c \in A THEN {1} ELSE {}
    BY DEF Places, Upto
  <1> QED BY <1>1, FS_EmptySet, FS_Singleton DEF Count

LEMMA CountAppend ==
  ASSUME NEW q \in Seq(AC), NEW c \in AC, NEW A
  PROVE  Count(Append(q, c), A) = Count(q, A) + (IF c \in A THEN 1 ELSE 0)
  <1>1. Append(q, c) = q \o <<c>> /\ <<c>> \in Seq(AC)
    OBVIOUS
  <1>2. Count(q \o <<c>>, A) = Count(q, A) + Count(<<c>>, A)
    BY <1>1, CountConcat, Zenon
  <1> QED BY <1>1, <1>2, CountOne

LEMMA CountTail ==
  ASSUME NEW q \in Seq(AC), q # <<>>, NEW A
  PROVE  Count(q, A) = (IF Head(q) \in A THEN 1 ELSE 0) + Count(Tail(q), A)
  <1>1. q = <<Head(q)>> \o Tail(q) /\ Head(q) \in AC /\ <<Head(q)>> \in Seq(AC)
        /\ Tail(q) \in Seq(AC)
    OBVIOUS
  <1>2. Count(<<Head(q)>> \o Tail(q), A) = Count(<<Head(q)>>, A) + Count(Tail(q), A)
    BY <1>1, CountConcat, Zenon
  <1> QED BY <1>1, <1>2, CountOne

\* A selection has as many frames as the queue has of its categories.
LEMMA CountOnly ==
  ASSUME NEW q \in Seq(AC), NEW A
  PROVE  Len(Only(q, A)) = Count(q, A)
  <1>1. Only(q, A) \in Seq(AC)
    BY OnlyFacts
  <1>2. ExistsBijection(1..Len(Only(q, A)), Places(q, A))
    <2>1. PICK h : Picks(h, Only(q, A), q, Places(q, A))
      BY OnlyFacts
    <2>2. h \in Bijection(1..Len(Only(q, A)), Places(q, A))
      BY <2>1, Fun_IsBij, Zenon DEF Picks
    <2> QED BY <2>2, Fun_ExistsBij, Zenon
  <1>3. Len(Only(q, A)) \in Nat
    BY <1>1
  <1> QED BY <1>2, <1>3, FS_CountingElements DEF Count

\* What a selection leaves out it does not hold.
LEMMA CountOther ==
  ASSUME NEW q \in Seq(AC), NEW A, NEW B, A \cap B = {}
  PROVE  Count(Only(q, A), B) = 0
  <1> DEFINE r == Only(q, A)
  <1>1. PICK h : Picks(h, r, q, Places(q, A))
    BY OnlyFacts
  <1>2. \A k \in 1..Len(r) : r[k] \in A
    BY <1>1 DEF Picks, Places, Upto
  <1> HIDE DEF r
  <1>3. Places(r, B) = {}
    BY <1>2 DEF Places, Upto
  <1> QED BY <1>3, FS_EmptySet DEF Count, r

\* The frames of a selection are frames of the queue.
LEMMA OnlyMembers ==
  ASSUME NEW q \in Seq(AC), NEW A, NEW k \in 1..Len(Only(q, A))
  PROVE  Only(q, A)[k] \in A /\ \E i \in 1..Len(q) : Only(q, A)[k] = q[i]
  <1>1. PICK h : Picks(h, Only(q, A), q, Places(q, A))
    BY OnlyFacts
  <1>2. h[k] \in Places(q, A)
    BY <1>1 DEF Picks
  <1> QED BY <1>1, <1>2 DEF Picks, Places, Upto

-----------------------------------------------------------------------------
(* Frames of one destination                                               *)

\* Frames(x), of a destination with l frames in its sleep queue and p[c] in
\* its transmit queue of category c.
FrameSet(l, p) == UNION {{c} \X (1..(IF c = 0 THEN l ELSE p[c])) : c \in 0..NumAC}

\* f finds each frame of S a frame of T of its own.
Traces(f, S, T) == f \in [S -> T] /\ \A a, b \in S : f[a] = f[b] => a = b

LEMMA FrameIn ==
  ASSUME NEW l \in Nat, NEW p \in [AC -> Nat], NEW f
  PROVE  f \in FrameSet(l, p) <=>
           \/ \E i \in 1..l : f = <<0, i>>
           \/ \E c \in AC : \E i \in 1..p[c] : f = <<c, i>>
  <1>1. 0..NumAC = {0} \cup AC /\ 0 \notin AC
    BY SleepAssumption DEF AC
  <1>2. ASSUME f \in FrameSet(l, p)
        PROVE  (\E i \in 1..l : f = <<0, i>>) \/ \E c \in AC : \E i \in 1..p[c] : f = <<c, i>>
    <2>1. PICK c \in 0..NumAC : f \in {c} \X (1..(IF c = 0 THEN l ELSE p[c]))
      BY <1>2 DEF FrameSet
    <2>2. CASE c = 0
      BY <2>1, <2>2
    <2>3. CASE c \in AC
      BY <2>1, <2>3, <1>1
    <2> QED BY <1>1, <2>2, <2>3
  <1>3. ASSUME NEW i \in 1..l PROVE <<0, i>> \in FrameSet(l, p)
    <2>1. 0 \in 0..NumAC /\ <<0, i>> \in {0} \X (1..(IF 0 = 0 THEN l ELSE p[0]))
      BY <1>1
    <2> QED BY <2>1 DEF FrameSet
  <1>4. ASSUME NEW c \in AC, NEW i \in 1..p[c] PROVE <<c, i>> \in FrameSet(l, p)
    <2>1. c \in 0..NumAC /\ <<c, i>> \in {c} \X (1..(IF c = 0 THEN l ELSE p[c]))
      BY <1>1
    <2> QED BY <2>1 DEF FrameSet
  <1> QED BY <1>2, <1>3, <1>4

\* The frames that fall asleep: Pending(x) has a place for no more frames than
\* the transmit queues hold.
Below(p, n) == {f \in FrameSet(0, p) : f[1] <= n}

LEMMA TracesMore ==
  ASSUME NEW p \in [AC -> Nat], NEW n \in Nat, n + 1 \in AC, NEW r \in Seq(AC), NEW h,
         Traces(h, 1..Len(r), Below(p, n))
  PROVE  LET s == r \o [j \in 1..p[n + 1] |-> n + 1]
         IN  s \in Seq(AC) /\ \E g : Traces(g, 1..Len(s), Below(p, n + 1))
  <1> DEFINE t == [j \in 1..p[n + 1] |-> n + 1]
             s == r \o t
             m == Len(r)
             k == p[n + 1]
             g == [i \in 1..m + k |-> IF i <= m THEN h[i] ELSE <<n + 1, i - m>>]
  <1>1. m \in Nat /\ k \in Nat /\ t \in Seq(AC) /\ Len(t) = k
    <2>1. m \in Nat /\ k \in Nat
      OBVIOUS
    <2>2. t \in [1..k -> AC]
      OBVIOUS
    <2> HIDE DEF t, k, m
    <2>3. t \in Seq(AC)
      BY <2>1, <2>2, SeqDef
    <2>4. DOMAIN t = 1..Len(t) /\ Len(t) \in Nat /\ DOMAIN t = 1..k
      BY <2>1, <2>2, <2>3
    <2>5. ASSUME NEW a \in Nat, NEW b \in Nat, 1..a = 1..b PROVE a = b
      <3>1. ~(a < b) /\ ~(b < a)
        <4>1. a < b => b \in 1..b /\ b \notin 1..a
          OBVIOUS
        <4>2. b < a => a \in 1..a /\ a \notin 1..b
          OBVIOUS
        <4> QED BY <4>1, <4>2, <2>5
      <3> QED BY <3>1
    <2>6. Len(t) = k
      BY <2>1, <2>4, <2>5
    <2> QED BY <2>1, <2>3, <2>6
  <1>2. s \in Seq(AC) /\ Len(s) = m + k
    <2> HIDE DEF t, k
    <2> QED BY <1>1
  <1>3. /\ h \in [1..m -> Below(p, n)]
        /\ \A a, b \in 1..m : h[a] = h[b] => a = b
    BY DEF Traces
  <1>4. \A f \in Below(p, n) : f \in Below(p, n + 1) /\ \A j : f # <<n + 1, j>>
    <2>1. ASSUME NEW f \in Below(p, n) PROVE f \in Below(p, n + 1) /\ \A j : f # <<n + 1, j>>
      <3>1. f \in FrameSet(0, p) /\ f[1] <= n
        BY DEF Below
      <3>2. PICK c \in AC : \E i \in 1..p[c] : f = <<c, i>>
        BY <3>1, FrameIn
      <3>3. f[1] = c /\ c \in Int
        BY <3>2 DEF AC
      <3>4. f[1] <= n + 1 /\ f[1] # n + 1
        BY <3>1, <3>3
      <3> QED BY <3>1, <3>4 DEF Below
    <2> QED BY <2>1
  <1>5. \A j \in 1..k : <<n + 1, j>> \in Below(p, n + 1)
    BY FrameIn DEF Below
  <1> HIDE DEF m, k, s
  <1>6. g \in [1..m + k -> Below(p, n + 1)]
    BY <1>1, <1>3, <1>4, <1>5
  <1>7. \A a, b \in 1..m + k : g[a] = g[b] => a = b
    <2>1. ASSUME NEW a \in 1..m + k, NEW b \in 1..m + k, g[a] = g[b], a <= m, b <= m
          PROVE  a = b
      BY <2>1, <1>1, <1>3
    <2>2. ASSUME NEW a \in 1..m + k, NEW b \in 1..m + k, a <= m, ~(b <= m)
          PROVE  g[a] # g[b]
      <3>1. g[a] \in Below(p, n) /\ g[b] = <<n + 1, b - m>>
        BY <2>2, <1>1, <1>3
      <3> HIDE DEF g
      <3> QED BY <3>1, <1>4
    <2>3. ASSUME NEW a \in 1..m + k, NEW b \in 1..m + k, g[a] = g[b], ~(a <= m), ~(b <= m)
          PROVE  a = b
      BY <2>3, <1>1
    <2> HIDE DEF g
    <2> QED BY <2>1, <2>2, <2>3
  <1> HIDE DEF g
  <1>8. Traces(g, 1..Len(s), Below(p, n + 1))
    BY <1>2, <1>6, <1>7 DEF Traces
  <1> QED BY <1>2, <1>8 DEF s

LEMMA PendingFacts ==
  ASSUME NEW x \in Dest, pend[x] \in [AC -> Nat]
  PROVE  /\ Pending(x) \in Seq(AC)
         /\ \E h : Traces(h, 1..Len(Pending(x)), FrameSet(0, pend[x]))
  <1> DEFINE p == pend[x]
             New(i) == [j \in 1..p[i] |-> i]
             G == [i \in 1..NumAC |-> [r \in Seq(AC) |-> r \o New(i)]]
             Sel(F) == F = [i \in 0..NumAC |-> IF i = 0 THEN <<>> ELSE F[i - 1] \o New(i)]
  <1>1. NumAC \in Nat /\ <<>> \in Seq(AC) /\ p \in [AC -> Nat]
    BY SleepAssumption
  <1> HIDE DEF p
  <1>2. \A i \in 1..NumAC : New(i) \in Seq(AC)
    BY <1>1 DEF AC
  <1>3. StepFns(G, NumAC, Seq(AC))
    <2> HIDE DEF New
    <2>1. \A i \in 1..NumAC : [r \in Seq(AC) |-> r \o New(i)] \in [Seq(AC) -> Seq(AC)]
      BY <1>2
    <2> QED BY <2>1 DEF StepFns
  <1>4. PICK E : Computes(E, NumAC, Seq(AC), <<>>, G)
    <2> HIDE DEF G
    <2> QED BY <1>1, <1>3, Recursion
  <1>5. Sel(E)
    <2> HIDE DEF New
    <2>1. ASSUME NEW i \in 1..NumAC
          PROVE  E[i] = E[i - 1] \o New(i)
      <3>1. E[i - 1] \in Seq(AC)
        BY <1>1, <1>4 DEF Computes
      <3> QED BY <1>4, <3>1 DEF Computes
    <2> HIDE DEF G
    <2>2. ASSUME NEW i \in 0..NumAC
          PROVE  E[i] = IF i = 0 THEN <<>> ELSE E[i - 1] \o New(i)
      <3>1. CASE i = 0
        BY <3>1, <1>4 DEF Computes
      <3>2. CASE i # 0
        <4>1. i \in 1..NumAC
          BY <1>1, <3>2
        <4> QED BY <2>1, <3>2, <4>1
      <3> QED BY <3>1, <3>2
    <2> QED BY <1>4, <2>2 DEF Computes
  <1> HIDE DEF G
  <1>6. PICK F : Sel(F) /\ Pending(x) = F[NumAC]
    BY <1>5 DEF Pending, p
  <1>7. ASSUME NEW n \in 0..NumAC
        PROVE  F[n] = IF n = 0 THEN <<>> ELSE F[n - 1] \o New(n)
    BY <1>6, Zenon
  <1> HIDE DEF Sel, New
  <1> DEFINE Good(n) == F[n] \in Seq(AC) /\ \E h : Traces(h, 1..Len(F[n]), Below(p, n))
             T == {n \in Nat : n <= NumAC => Good(n)}
  <1>8. Good(0)
    <2> DEFINE h == [k \in 1..0 |-> 0]
    <2>1. F[0] = <<>> /\ Len(<<>>) = 0
      BY <1>1, <1>7
    <2>2. Traces(h, 1..Len(<<>>), Below(p, 0))
      BY <2>1 DEF Traces
    <2> HIDE DEF h
    <2> QED BY <1>1, <2>1, <2>2
  <1>9. ASSUME NEW n \in Nat, n + 1 <= NumAC, Good(n) PROVE Good(n + 1)
    <2>1. /\ n + 1 \in 0..NumAC /\ n + 1 # 0 /\ (n + 1) - 1 = n /\ n + 1 \in AC
          /\ F[n] \in Seq(AC)
      BY <1>1, <1>9 DEF AC
    <2>2. PICK h : Traces(h, 1..Len(F[n]), Below(p, n))
      BY <1>9
    <2>3. F[n + 1] = F[n] \o New(n + 1)
      BY <1>7, <2>1
    <2>4. /\ F[n] \o New(n + 1) \in Seq(AC)
          /\ \E g : Traces(g, 1..Len(F[n] \o New(n + 1)), Below(p, n + 1))
      BY <1>1, <2>1, <2>2, TracesMore DEF New
    <2> QED BY <2>3, <2>4
  <1> HIDE DEF Good
  <1>10. T = Nat
    <2>1. T \in SUBSET Nat /\ 0 \in T
      BY <1>8
    <2>2. ASSUME NEW n \in T PROVE n + 1 \in T
      BY <1>1, <1>9
    <2> HIDE DEF T
    <2> QED BY <2>1, <2>2, CountingUp
  <1>11. Good(NumAC)
    BY <1>1, <1>10
  <1>12. PICK h : Traces(h, 1..Len(Pending(x)), Below(p, NumAC))
    BY <1>6, <1>11 DEF Good
  <1>13. Below(p, NumAC) \subseteq FrameSet(0, pend[x])
    BY DEF Below, p
  <1>14. Traces(h, 1..Len(Pending(x)), FrameSet(0, pend[x]))
    BY <1>12, <1>13 DEF Traces
  <1> QED BY <1>6, <1>11, <1>14 DEF Good

-----------------------------------------------------------------------------
(* Moving frames within a destination never makes them more                *)

Fits(S, T) == \E f : Traces(f, S, T)

LEMMA FitsSubset ==
  ASSUME NEW S, NEW T, S \subseteq T
  PROVE  Fits(S, T)
  <1>1. Traces([x \in S |-> x], S, T)
    BY DEF Traces
  <1> QED BY <1>1 DEF Fits

LEMMA FitsFinite ==
  ASSUME NEW S, NEW T, Fits(S, T), IsFiniteSet(T)
  PROVE  IsFiniteSet(S) /\ Cardinality(S) <= Cardinality(T)
  <1>1. PICK f : Traces(f, S, T)
    BY DEF Fits
  <1>2. f \in Injection(S, T)
    BY <1>1, Fun_IsInj, Zenon DEF Traces
  <1> QED BY <1>2, FS_Injection, Zenon

\* If the frames of every destination fit, all frames together fit.
LEMMA FitsTogether ==
  ASSUME NEW G, NEW F, \A x \in Dest : Fits(G[x], F[x])
  PROVE  Fits(UNION {{x} \X G[x] : x \in Dest}, UNION {{x} \X F[x] : x \in Dest})
  <1> DEFINE GG == UNION {{x} \X G[x] : x \in Dest}
             FF == UNION {{x} \X F[x] : x \in Dest}
             w == [x \in Dest |-> CHOOSE f : Traces(f, G[x], F[x])]
             h == [t \in GG |-> <<t[1], w[t[1]][t[2]]>>]
  <1>1. \A x \in Dest : Traces(w[x], G[x], F[x])
    BY DEF Fits
  <1>2. ASSUME NEW t \in GG
        PROVE  /\ t[1] \in Dest /\ t[2] \in G[t[1]] /\ t = <<t[1], t[2]>>
               /\ w[t[1]][t[2]] \in F[t[1]]
    <2>1. PICK x \in Dest : t \in {x} \X G[x]
      OBVIOUS
    <2>2. t[1] = x /\ t[2] \in G[x] /\ t = <<t[1], t[2]>>
      BY <2>1
    <2> HIDE DEF w
    <2> QED BY <2>2, <1>1 DEF Traces
  <1> HIDE DEF w
  <1>3. ASSUME NEW t \in GG PROVE <<t[1], w[t[1]][t[2]]>> \in FF
    <2>1. <<t[1], w[t[1]][t[2]]>> \in {t[1]} \X F[t[1]] /\ t[1] \in Dest
      BY <1>2
    <2> QED BY <2>1
  <1> HIDE DEF GG, FF
  <1>4. h \in [GG -> FF]
    BY <1>3
  <1>5. ASSUME NEW a \in GG, NEW b \in GG, h[a] = h[b] PROVE a = b
    <2>1. a[1] = b[1] /\ w[a[1]][a[2]] = w[b[1]][b[2]]
      BY <1>5
    <2>2. a[2] = b[2]
      BY <2>1, <1>1, <1>2 DEF Traces
    <2> QED BY <2>1, <2>2, <1>2
  <1> HIDE DEF h
  <1>6. Traces(h, GG, FF)
    BY <1>4, <1>5 DEF Traces
  <1> QED BY <1>6 DEF Fits, GG, FF

\* Falling asleep: the frames of the transmit queues follow those that sleep.
LEMMA SleepFits ==
  ASSUME NEW x \in Dest, pend[x] \in [AC -> Nat], NEW l \in Nat
  PROVE  Fits(FrameSet(l + Len(Pending(x)), NoPend), FrameSet(l, pend[x]))
  <1> DEFINE n == Len(Pending(x))
             p == pend[x]
             S == FrameSet(l + n, NoPend)
  <1>1. PICK h : Traces(h, 1..n, FrameSet(0, p))
    BY PendingFacts
  <1>2. n \in Nat /\ NoPend \in [AC -> Nat] /\ \A c \in AC : NoPend[c] = 0 /\ c # 0
    BY PendingFacts, SleepAssumption DEF NoPend, AC
  <1> HIDE DEF n
  <1> DEFINE g == [t \in S |-> IF t[2] <= l THEN t ELSE h[t[2] - l]]
  <1>3. ASSUME NEW t \in S
        PROVE  t = <<0, t[2]>> /\ t[2] \in 1..l + n
    BY <1>2, FrameIn
  <1>4. ASSUME NEW t \in S, t[2] <= l
        PROVE  g[t] = t /\ t \in FrameSet(l, p) /\ g[t][1] = 0
    <2>1. t[2] \in 1..l
      BY <1>2, <1>3, <1>4
    <2> QED BY <1>3, <1>4, <2>1, FrameIn
  <1>5. ASSUME NEW t \in S, ~(t[2] <= l)
        PROVE  /\ g[t] = h[t[2] - l] /\ t[2] - l \in 1..n
               /\ g[t] \in FrameSet(l, p) /\ g[t][1] # 0
    <2>1. g[t] = h[t[2] - l] /\ t[2] - l \in 1..n
      BY <1>2, <1>3, <1>5
    <2>2. g[t] \in FrameSet(0, p)
      BY <2>1, <1>1 DEF Traces
    <2> HIDE DEF g
    <2>3. PICK c \in AC : \E i \in 1..p[c] : g[t] = <<c, i>>
      BY <2>2, FrameIn
    <2>4. g[t] \in FrameSet(l, p) /\ g[t][1] = c
      BY <2>3, FrameIn
    <2> QED BY <1>2, <2>1, <2>4
  <1>6. g \in [S -> FrameSet(l, p)]
    <2>1. \A t \in S : g[t] \in FrameSet(l, p)
      BY <1>4, <1>5, Zenon
    <2> HIDE DEF S, p
    <2> QED BY <2>1
  <1> HIDE DEF g, S
  <1>7. ASSUME NEW a \in S, NEW b \in S, g[a] = g[b] PROVE a = b
    <2>1. CASE a[2] <= l /\ b[2] <= l
      BY <2>1, <1>4, <1>7
    <2>2. CASE ~(a[2] <= l) /\ ~(b[2] <= l)
      <3>1. a[2] - l = b[2] - l
        BY <2>2, <1>5, <1>7, <1>1 DEF Traces
      <3> QED BY <3>1, <1>2, <1>3
    <2>3. (a[2] <= l) = (b[2] <= l)
      BY <1>4, <1>5, <1>7
    <2> QED BY <2>1, <2>2, <2>3
  <1>8. Traces(g, S, FrameSet(l, p))
    BY <1>6, <1>7 DEF Traces
  <1> QED BY <1>8 DEF Fits, S, n

LEMMA AddingFacts ==
  ASSUME NEW p \in [AC -> Nat], NEW q \in Seq(AC)
  PROVE  /\ Adding(p, q) \in [AC -> Nat]
         /\ \A c \in AC : Adding(p, q)[c] = p[c] + Count(q, {c}) /\ Count(q, {c}) \in Nat
  <1>1. ASSUME NEW c \in AC
        PROVE  Cardinality({i \in DOMAIN q : q[i] = c}) = Count(q, {c}) /\ Count(q, {c}) \in Nat
    <2>1. {i \in DOMAIN q : q[i] = c} = Places(q, {c})
      BY DEF Places, Upto
    <2>2. Count(q, {c}) \in Nat
      BY PlacesFinite
    <2> QED BY <2>1, <2>2 DEF Count
  <1> DEFINE N(c) == Cardinality({i \in DOMAIN q : q[i] = c})
  <1>2. Adding(p, q) = [c \in AC |-> p[c] + N(c)]
    BY DEF Adding
  <1> HIDE DEF N
  <1>3. \A c \in AC : N(c) = Count(q, {c}) /\ Count(q, {c}) \in Nat
    BY <1>1 DEF N
  <1>4. \A c \in AC : N(c) \in Nat
    BY <1>3
  <1>5. \A c \in AC : Adding(p, q)[c] = p[c] + N(c)
    BY <1>2, Zenon
  <1>6. Adding(p, q) \in [AC -> Nat]
    BY <1>2, <1>4
  <1> QED BY <1>3, <1>5, <1>6, Zenon

\* The frames after the frames of q were added: k[c] new ones of category c.
Joined(l, p, k, t) ==
  \/ \E i \in 1..l : t = <<0, i>>
  \/ \E c \in AC : \E i \in 1..p[c] : t = <<c, i>>
  \/ \E c \in AC : \E i \in 1..k[c] : t = <<c, p[c] + i>>
Numbered(l, p, t) ==
  (\E i \in 1..l : t = <<0, i>>) \/ \E c \in AC : \E i \in 1..p[c] : t = <<c, i>>

LEMMA NumberedIn ==
  ASSUME NEW l \in Nat, NEW p \in [AC -> Nat], NEW t \in FrameSet(l, p)
  PROVE  Numbered(l, p, t)
  BY FrameIn DEF Numbered

LEMMA AddingCases ==
  ASSUME NEW l \in Nat, NEW p \in [AC -> Nat], NEW q \in Seq(AC),
         NEW t \in FrameSet(l, Adding(p, q))
  PROVE  Joined(l, p, [c \in AC |-> Count(q, {c})], t)
  <1>1. PICK P : P = Adding(p, q)
    OBVIOUS
  <1>2. P \in [AC -> Nat] /\ t \in FrameSet(l, P)
    BY <1>1, AddingFacts
  <1> DEFINE k == [c \in AC |-> Count(q, {c})]
  <1>3. \A c \in AC : k[c] = Count(q, {c})
    OBVIOUS
  <1> HIDE DEF k
  <1>4. ASSUME NEW c \in AC, NEW i \in 1..P[c], t = <<c, i>>
        PROVE  \/ \E j \in 1..p[c] : t = <<c, j>>
               \/ \E j \in 1..k[c] : t = <<c, p[c] + j>>
    <2>1. P[c] = p[c] + k[c] /\ k[c] \in Nat /\ p[c] \in Nat
      <3>1. P[c] = p[c] + Count(q, {c}) /\ Count(q, {c}) \in Nat
        BY <1>1, AddingFacts, Zenon
      <3>2. k[c] = Count(q, {c})
        BY <1>3
      <3> QED BY <3>1, <3>2
    <2>2. CASE i <= p[c]
      BY <1>4, <2>1, <2>2
    <2>3. CASE ~(i <= p[c])
      <3>1. i - p[c] \in 1..k[c] /\ p[c] + (i - p[c]) = i
        BY <2>1, <2>3
      <3> QED BY <1>4, <3>1
    <2> QED BY <2>2, <2>3
  <1>5. \/ \E i \in 1..l : t = <<0, i>>
        \/ \E c \in AC : \E i \in 1..P[c] : t = <<c, i>>
    BY <1>2, NumberedIn DEF Numbered
  <1>6. Joined(l, p, k, t)
    BY <1>4, <1>5, Zenon DEF Joined
  <1> QED BY <1>6 DEF k

\* Waking, polling and delivering: the frames of q leave the sleep queue, those
\* of r stay in it.
LEMMA LeaveFits ==
  ASSUME NEW l \in Nat, NEW p \in [AC -> Nat], NEW q \in Seq(AC), NEW r \in Seq(AC),
         NEW g, Traces(g, 1..Len(q), 1..l), NEW h, Traces(h, 1..Len(r), 1..l),
         \A a \in 1..Len(q) : \A b \in 1..Len(r) : g[a] # h[b]
  PROVE  Fits(FrameSet(Len(r), Adding(p, q)), FrameSet(l, p))
  <1> DEFINE S == FrameSet(Len(r), Adding(p, q))
             T == FrameSet(l, p)
             k(c) == Count(q, {c})
             B == [c \in AC |-> CHOOSE b : b \in Bijection(1..k(c), Places(q, {c}))]
             f == [t \in S |-> IF t[1] = 0 THEN <<0, h[t[2]]>>
                               ELSE IF t[2] <= p[t[1]] THEN t
                               ELSE <<0, g[B[t[1]][t[2] - p[t[1]]]]>>]
  <1>1. /\ Adding(p, q) \in [AC -> Nat] /\ Len(r) \in Nat /\ Len(q) \in Nat
        /\ \A c \in AC : Adding(p, q)[c] = p[c] + k(c) /\ k(c) \in Nat /\ c # 0
    <2>1. /\ Adding(p, q) \in [AC -> Nat]
          /\ \A c \in AC : Adding(p, q)[c] = p[c] + k(c) /\ k(c) \in Nat
      BY AddingFacts
    <2>2. \A c \in AC : c # 0
      BY SleepAssumption DEF AC
    <2> HIDE DEF k
    <2> QED BY <2>1, <2>2
  <1>2. ASSUME NEW c \in AC
        PROVE  /\ \A i \in 1..k(c) : B[c][i] \in 1..Len(q) /\ q[B[c][i]] = c
               /\ \A i, j \in 1..k(c) : B[c][i] = B[c][j] => i = j
    <2>1. ExistsBijection(1..k(c), Places(q, {c}))
      <3>1. k(c) = Cardinality(Places(q, {c}))
        BY DEF Count
      <3>2. IsFiniteSet(Places(q, {c}))
        BY PlacesFinite
      <3> QED BY <3>1, <3>2, FS_CardinalityType, Zenon
    <2>2. \E b : b \in Bijection(1..k(c), Places(q, {c}))
      BY <2>1, Fun_ExistsBij
    <2>3. B[c] \in Bijection(1..k(c), Places(q, {c}))
      BY <2>2
    <2> HIDE DEF B, k
    <2>4. B[c] \in Injection(1..k(c), Places(q, {c}))
      BY <2>3, Fun_BijectionProperties, Zenon
    <2>5. /\ B[c] \in [1..k(c) -> Places(q, {c})]
          /\ \A i, j \in 1..k(c) : B[c][i] = B[c][j] => i = j
      <3>1. B[c] \in [1..k(c) -> Places(q, {c})]
        BY <2>4, Fun_InjectionProperties, Zenon
      <3>2. \A i, j \in DOMAIN B[c] : B[c][i] = B[c][j] => i = j
        BY <2>4, Zenon DEF Injection, IsInjective
      <3> QED BY <3>1, <3>2
    <2> QED BY <2>5 DEF Places, Upto
  <1> HIDE DEF B, k
  <1> DEFINE Stays(t) == \E i \in 1..Len(r) : t = <<0, i>> /\ f[t] = <<0, h[i]>>
             Waits(t) == \E c \in AC : \E i \in 1..p[c] : t = <<c, i>> /\ f[t] = t
             Joins(t) == \E c \in AC : \E i \in 1..k(c) :
                           t = <<c, p[c] + i>> /\ f[t] = <<0, g[B[c][i]]>>
  <1>3. ASSUME NEW t \in S PROVE Stays(t) \/ Waits(t) \/ Joins(t)
    <2>1. ASSUME NEW i \in 1..Len(r), t = <<0, i>> PROVE Stays(t)
      BY <2>1
    <2>2. ASSUME NEW c \in AC, NEW i \in 1..p[c], t = <<c, i>> PROVE Waits(t)
      BY <2>2, <1>1
    <2>3. ASSUME NEW c \in AC, NEW i \in 1..k(c), t = <<c, p[c] + i>> PROVE Joins(t)
      <3>1. t[1] = c /\ t[2] = p[c] + i /\ ~(t[2] <= p[c]) /\ t[2] - p[c] = i /\ c # 0
        BY <2>3, <1>1
      <3>2. f[t] = <<0, g[B[c][i]]>>
        BY <3>1
      <3> HIDE DEF f
      <3> QED BY <2>3, <3>2
    <2>4. \/ \E i \in 1..Len(r) : t = <<0, i>>
          \/ \E c \in AC : \E i \in 1..p[c] : t = <<c, i>>
          \/ \E c \in AC : \E i \in 1..k(c) : t = <<c, p[c] + i>>
      <3>1. Joined(Len(r), p, [c \in AC |-> Count(q, {c})], t)
        BY <1>1, AddingCases
      <3>2. PICK K : K = [c \in AC |-> Count(q, {c})]
        OBVIOUS
      <3>3. \A c \in AC : K[c] = k(c)
        BY <3>2 DEF k
      <3> QED BY <3>1, <3>2, <3>3, Zenon DEF Joined
    <2> HIDE DEF Stays, Waits, Joins
    <2> QED BY <2>1, <2>2, <2>3, <2>4
  <1>4. /\ \A i \in 1..Len(r) : h[i] \in 1..l
        /\ \A i, j \in 1..Len(r) : h[i] = h[j] => i = j
        /\ \A i \in 1..Len(q) : g[i] \in 1..l
        /\ \A i, j \in 1..Len(q) : g[i] = g[j] => i = j
    BY DEF Traces
  <1>5. f \in [S -> T]
    <2>1. ASSUME NEW t \in S PROVE f[t] \in T
      <3> HIDE DEF f
      <3>1. CASE Stays(t)
        BY <3>1, <1>4, FrameIn
      <3>2. CASE Waits(t)
        BY <3>2, FrameIn
      <3>3. CASE Joins(t)
        BY <3>3, <1>2, <1>4, FrameIn
      <3> QED BY <1>3, <3>1, <3>2, <3>3
    <2> HIDE DEF T, S
    <2> QED BY <2>1
  <1> HIDE DEF f, S, T
  <1>6. ASSUME NEW a \in S, NEW b \in S, f[a] = f[b] PROVE a = b
    <2>1. CASE Stays(a) /\ Stays(b)
      <3>1. PICK i \in 1..Len(r) : a = <<0, i>> /\ f[a] = <<0, h[i]>>
        BY <2>1
      <3>2. PICK j \in 1..Len(r) : b = <<0, j>> /\ f[b] = <<0, h[j]>>
        BY <2>1
      <3>3. h[i] = h[j]
        <4>1. <<0, h[i]>> = <<0, h[j]>>
          BY <3>1, <3>2, <1>6, Zenon
        <4> QED BY <4>1
      <3> QED BY <3>1, <3>2, <3>3, <1>4
    <2>2. CASE Waits(a) /\ Waits(b)
      BY <2>2, <1>6
    <2>3. CASE Joins(a) /\ Joins(b)
      <3>1. PICK c \in AC : \E i \in 1..k(c) : a = <<c, p[c] + i>> /\ f[a] = <<0, g[B[c][i]]>>
        BY <2>3
      <3>2. PICK i \in 1..k(c) : a = <<c, p[c] + i>> /\ f[a] = <<0, g[B[c][i]]>>
        BY <3>1
      <3>3. PICK d \in AC : \E j \in 1..k(d) : b = <<d, p[d] + j>> /\ f[b] = <<0, g[B[d][j]]>>
        BY <2>3
      <3>4. PICK j \in 1..k(d) : b = <<d, p[d] + j>> /\ f[b] = <<0, g[B[d][j]]>>
        BY <3>3
      <3>5. g[B[c][i]] = g[B[d][j]] /\ B[c][i] \in 1..Len(q) /\ B[d][j] \in 1..Len(q)
        <4>1. <<0, g[B[c][i]]>> = <<0, g[B[d][j]]>>
          BY <3>2, <3>4, <1>6
        <4>2. g[B[c][i]] = g[B[d][j]]
          BY <4>1
        <4> QED BY <4>2, <1>2
      <3>6. B[c][i] = B[d][j]
        BY <3>5, <1>4
      <3>7. c = d
        <4>1. q[B[c][i]] = c /\ q[B[d][j]] = d
          BY <1>2
        <4> QED BY <4>1, <3>6
      <3> QED BY <3>2, <3>4, <3>6, <3>7, <1>2
    <2>4. ASSUME NEW t \in S, NEW u \in S, f[t] = f[u], Waits(t), Stays(u) \/ Joins(u)
          PROVE  FALSE
      BY <2>4, <1>1
    <2>5. ASSUME NEW t \in S, NEW u \in S, f[t] = f[u], Stays(t), Joins(u)
          PROVE  FALSE
      <3>1. PICK i \in 1..Len(r) : f[t] = <<0, h[i]>>
        BY <2>5
      <3>2. PICK c \in AC : \E j \in 1..k(c) : f[u] = <<0, g[B[c][j]]>>
        BY <2>5
      <3>3. PICK j \in 1..k(c) : f[u] = <<0, g[B[c][j]]>>
        BY <3>2
      <3>4. h[i] = g[B[c][j]]
        <4>1. <<0, h[i]>> = <<0, g[B[c][j]]>>
          BY <3>1, <3>3, <2>5, Zenon
        <4> QED BY <4>1
      <3>5. B[c][j] \in 1..Len(q)
        BY <1>2
      <3> QED BY <3>4, <3>5
    <2> QED BY <1>3, <1>6, <2>1, <2>2, <2>3, <2>4, <2>5
  <1>7. Traces(f, S, T)
    BY <1>5, <1>6 DEF Traces
  <1> QED BY <1>7 DEF Fits, S, T

\* wakeup_sta_to_xmit and chk_bmc_sleepq_hdl: the whole queue leaves.
LEMMA WakeFits ==
  ASSUME NEW p \in [AC -> Nat], NEW q \in Seq(AC)
  PROVE  Fits(FrameSet(0, Adding(p, q)), FrameSet(Len(q), p))
  <1>1. PICK r, l : r \in Seq(AC) /\ Len(r) = 0 /\ l = Len(q) /\ l \in Nat
    <2>1. <<>> \in Seq(AC) /\ Len(<<>>) = 0 /\ Len(q) \in Nat
      OBVIOUS
    <2> QED BY <2>1
  <1>2. PICK g : Traces(g, 1..Len(q), 1..l)
    <2>1. Traces([i \in 1..l |-> i], 1..l, 1..l)
      BY DEF Traces
    <2> QED BY <1>1, <2>1
  <1>3. PICK h : Traces(h, 1..Len(r), 1..l)
    <2>1. Traces([i \in 1..0 |-> i], 1..0, 1..l)
      BY <1>1 DEF Traces
    <2> QED BY <1>1, <2>1
  <1>4. \A a \in 1..Len(q) : \A b \in 1..Len(r) : g[a] # h[b]
    BY <1>1
  <1>5. r \in Seq(AC) /\ l \in Nat
    BY <1>1
  <1>6. Fits(FrameSet(Len(r), Adding(p, q)), FrameSet(l, p))
    BY <1>2, <1>3, <1>4, <1>5, LeaveFits
  <1> QED BY <1>1, <1>6

\* xmit_delivery_enabled_frames: the delivery-enabled frames leave.
LEMMA DeliverFits ==
  ASSUME NEW p \in [AC -> Nat], NEW q \in Seq(AC), NEW A
  PROVE  Fits(FrameSet(Len(Only(q, AC \ A)), Adding(p, Only(q, A))), FrameSet(Len(q), p))
  <1>1. PICK g : Picks(g, Only(q, A), q, Places(q, A))
    BY OnlyFacts
  <1>2. PICK h : Picks(h, Only(q, AC \ A), q, Places(q, AC \ A))
    BY OnlyFacts
  <1>3. PICK s, r : s = Only(q, A) /\ r = Only(q, AC \ A)
    OBVIOUS
  <1>4. s \in Seq(AC) /\ r \in Seq(AC) /\ Len(q) \in Nat
    BY <1>3, OnlyFacts
  <1>5. Traces(g, 1..Len(s), 1..Len(q)) /\ \A a \in 1..Len(s) : q[g[a]] \in A
    BY <1>1, <1>3 DEF Picks, Traces, Places, Upto
  <1>6. Traces(h, 1..Len(r), 1..Len(q)) /\ \A b \in 1..Len(r) : q[h[b]] \notin A
    BY <1>2, <1>3 DEF Picks, Traces, Places, Upto
  <1>7. \A a \in 1..Len(s) : \A b \in 1..Len(r) : g[a] # h[b]
    BY <1>5, <1>6
  <1>8. Fits(FrameSet(Len(r), Adding(p, s)), FrameSet(Len(q), p))
    BY <1>4, <1>5, <1>6, <1>7, LeaveFits
  <1> QED BY <1>3, <1>8

\* validate_recv_ctrl_frame: the oldest frame leaves.
LEMMA PollFits ==
  ASSUME NEW p \in [AC -> Nat], NEW q \in Seq(AC), q # <<>>
  PROVE  Fits(FrameSet(Len(Tail(q)), [p EXCEPT ![Head(q)] = @ + 1]), FrameSet(Len(q), p))
  <1> DEFINE g == [i \in 1..1 |-> 1]
             h == [i \in 1..Len(Tail(q)) |-> i + 1]
  <1>1. PICK s, r : s = <<Head(q)>> /\ r = Tail(q)
    OBVIOUS
  <1>2. /\ Head(q) \in AC /\ s \in Seq(AC) /\ Len(s) = 1 /\ r \in Seq(AC)
        /\ Len(q) \in Nat \ {0} /\ Len(r) = Len(q) - 1
    BY <1>1
  <1>3. Traces(g, 1..Len(s), 1..Len(q)) /\ Traces(h, 1..Len(r), 1..Len(q))
    BY <1>1, <1>2 DEF Traces
  <1>4. \A a \in 1..Len(s) : \A b \in 1..Len(r) : g[a] # h[b]
    BY <1>1, <1>2
  <1> HIDE DEF g, h
  <1>5. Fits(FrameSet(Len(r), Adding(p, s)), FrameSet(Len(q), p))
    BY <1>2, <1>3, <1>4, LeaveFits
  <1>6. Adding(p, s) = [p EXCEPT ![Head(q)] = @ + 1]
    <2>1. \A c \in AC : Count(s, {c}) = IF Head(q) \in {c} THEN 1 ELSE 0
      BY <1>1, <1>2, CountOne
    <2>2. PICK P : P = Adding(p, s)
      OBVIOUS
    <2>3. P \in [AC -> Nat] /\ \A c \in AC : P[c] = p[c] + Count(s, {c})
      BY <1>2, <2>2, AddingFacts
    <2>4. \A c \in AC : P[c] = IF c = Head(q) THEN p[c] + 1 ELSE p[c]
      <3>1. ASSUME NEW c \in AC PROVE P[c] = IF c = Head(q) THEN p[c] + 1 ELSE p[c]
        <4>1. Count(s, {c}) = IF c = Head(q) THEN 1 ELSE 0
          BY <2>1, Zenon
        <4>2. P[c] = p[c] + Count(s, {c}) /\ p[c] \in Nat
          BY <2>3
        <4> QED BY <4>1, <4>2
      <3> QED BY <3>1, Zenon
    <2>5. P = [p EXCEPT ![Head(q)] = @ + 1]
      BY <1>2, <2>3, <2>4
    <2> QED BY <2>2, <2>5
  <1> QED BY <1>1, <1>5, <1>6

-----------------------------------------------------------------------------
(* The pool                                                                *)

QueueTypes == sleepq \in [Dest -> Seq(AC)] /\ pend \in [Dest -> [AC -> Nat]]
All == UNION {{x} \X Frames(x) : x \in Dest}
PoolInv == IsFiniteSet(All) /\ Used <= NR_XMITFRAME

LEMMA UsedIs == Used = Cardinality(All) + (IF fly = None THEN 0 ELSE 1)
  BY DEF Used, All

LEMMA FramesAre ==
  ASSUME NEW x \in Dest
  PROVE  /\ Frames(x) = FrameSet(Len(sleepq[x]), pend[x])
         /\ Frames(x)' = FrameSet(Len(sleepq'[x]), pend'[x])
  BY DEF Frames, FrameSet

\* A step after which every destination's frames fit where they were.
LEMMA PoolKept ==
  ASSUME PoolInv, \A x \in Dest : Fits(Frames(x)', Frames(x)), fly' = fly \/ fly' = None
  PROVE  PoolInv'
  <1> DEFINE F == [x \in Dest |-> Frames(x)]
             G == [x \in Dest |-> Frames(x)']
  <1>1. \A x \in Dest : G[x] = Frames(x)' /\ F[x] = Frames(x)
    OBVIOUS
  <1> HIDE DEF F, G
  <1>2. Fits(UNION {{x} \X G[x] : x \in Dest}, UNION {{x} \X F[x] : x \in Dest})
    BY <1>1, FitsTogether
  <1>3. All' = UNION {{x} \X G[x] : x \in Dest} /\ All = UNION {{x} \X F[x] : x \in Dest}
    BY <1>1 DEF All
  <1>4. IsFiniteSet(All') /\ Cardinality(All') <= Cardinality(All)
    BY <1>2, <1>3, FitsFinite DEF PoolInv
  <1>5. Cardinality(All) \in Nat /\ Cardinality(All') \in Nat
    BY <1>4, FS_CardinalityType, Zenon DEF PoolInv
  <1>6. Used' = Cardinality(All') + (IF fly' = None THEN 0 ELSE 1)
    BY DEF Used, All
  <1> QED BY <1>4, <1>5, <1>6, UsedIs, SleepAssumption DEF PoolInv

\* A step that adds one frame, taken from the pool or from the sender.
LEMMA PoolMore ==
  ASSUME PoolInv, NEW t, All' \subseteq All \cup {t},
         \/ fly' = fly /\ Used < NR_XMITFRAME
         \/ fly # None /\ fly' = None
  PROVE  PoolInv'
  <1>1. /\ IsFiniteSet(All \cup {t}) /\ Cardinality(All) \in Nat
        /\ Cardinality(All \cup {t}) <= Cardinality(All) + 1
    <2>1. /\ IsFiniteSet(All \cup {t}) /\ Cardinality(All) \in Nat
          /\ Cardinality(All \cup {t})
               = IF t \in All THEN Cardinality(All) ELSE Cardinality(All) + 1
      BY FS_AddElement, FS_CardinalityType DEF PoolInv
    <2> QED BY <2>1
  <1>2. /\ IsFiniteSet(All') /\ Cardinality(All') <= Cardinality(All \cup {t})
        /\ Cardinality(All') \in Nat /\ Cardinality(All \cup {t}) \in Nat
    BY <1>1, FS_Subset, FS_CardinalityType
  <1>3. Used' = Cardinality(All') + (IF fly' = None THEN 0 ELSE 1)
    BY DEF Used, All
  <1> QED BY <1>1, <1>2, <1>3, UsedIs, SleepAssumption DEF PoolInv

\* No queue is longer than the pool.
LEMMA QueueBound ==
  ASSUME PoolInv, QueueTypes, NEW x \in Dest
  PROVE  Len(sleepq[x]) \in 0..U32 - 1
  <1> DEFINE n == Len(sleepq[x])
             f == [i \in 1..n |-> <<x, <<0, i>>>>]
  <1>1. n \in Nat /\ pend[x] \in [AC -> Nat]
    BY DEF QueueTypes
  <1>2. \A i \in 1..n : <<x, <<0, i>>>> \in All
    <2>1. ASSUME NEW i \in 1..n PROVE <<x, <<0, i>>>> \in All
      <3>1. <<0, i>> \in FrameSet(n, pend[x])
        BY <1>1, FrameIn
      <3>2. <<x, <<0, i>>>> \in {x} \X Frames(x)
        BY <3>1, FramesAre
      <3> QED BY <3>2 DEF All
    <2> QED BY <2>1
  <1> HIDE DEF n
  <1>3. Traces(f, 1..n, All)
    BY <1>2 DEF Traces
  <1>4. Cardinality(1..n) <= Cardinality(All) /\ Cardinality(All) \in Nat
    BY <1>3, FitsFinite, FS_CardinalityType DEF Fits, PoolInv
  <1>5. Cardinality(1..n) = n
    BY <1>1, FS_Interval
  <1> QED BY <1>1, <1>4, <1>5, UsedIs, SleepAssumption DEF PoolInv, n

-----------------------------------------------------------------------------
(* The steps of the handlers, branch by branch                             *)

TxPasses(x, ac) ==
  /\ fly = None /\ Used < NR_XMITFRAME
  /\ x \in Sta => "in" \in st[x]
  /\ fly' = <<x, ac>>
  /\ UNCHANGED <<staVars, mapVars, qVars, bcn, chkCmd, rx, cmd, disturbed, drift>>

TxGroup ==
  /\ Used < NR_XMITFRAME
  /\ dz # {}
  /\ TxGroupBuffered
  /\ UNCHANGED <<staVars, bcn, rx, cmd, disturbed, drift>>

TxUnicast(s, ac) ==
  /\ Used < NR_XMITFRAME
  /\ {"linked", "sleep"} \subseteq st[s]
  /\ TxUnicastBuffered(s, ac)
  /\ UNCHANGED <<staVars, bcn, rx, cmd, disturbed, drift>>

AfterData(s, ac) ==
  IF ac = None THEN Idle ELSE [pc |-> "wmm", s |-> s, ac |-> ac, ld |-> {}]

RxSleeps(s, ac) ==
  /\ rx = Idle /\ "in" \in st[s] /\ "sleep" \notin st[s]
  /\ stop_sta_xmit(s)
  /\ rx' = AfterData(s, ac)
  /\ disturbed' = IF aid[s] = BMC THEN disturbed \cup {s, BMC} ELSE disturbed
  /\ UNCHANGED <<fly, bcn, cmd, drift>>

RxWakes(s, ac) ==
  /\ rx = Idle /\ "in" \in st[s] /\ "sleep" \in st[s]
  /\ wakeup_sta_to_xmit(s)
  /\ rx' = IF TimMasked(s) THEN [pc |-> "bcn", s |-> s, ac |-> ac, ld |-> {}]
                           ELSE AfterData(s, ac)
  /\ UNCHANGED <<ie, updateBcn, fly, bcn, chkCmd, cmd, disturbed, drift>>

RxTrigger(s, ac) ==
  /\ rx = Idle
  /\ rx' = AfterData(s, ac)
  /\ UNCHANGED <<staVars, mapVars, qVars, fly, bcn, chkCmd, cmd, disturbed, drift>>

WmmDeliver(s) ==
  /\ rx.pc = "wmm" /\ s = rx.s /\ "sleep" \in st[s]
  /\ xmit_delivery_enabled_frames(s)
  /\ rx' = Idle
  /\ UNCHANGED <<staVars, dz, fly, bcn, chkCmd, cmd, disturbed, drift>>

WmmNull ==
  /\ rx.pc = "wmm"
  /\ rx' = Idle
  /\ UNCHANGED <<staVars, mapVars, qVars, fly, bcn, chkCmd, cmd, disturbed, drift>>

PollFrame(s) ==
  /\ aid[s] # BMC /\ sleepq[s] # <<>>
  /\ st' = [st EXCEPT ![s] = @ \ {"alive"}]
  /\ sleepq' = [sleepq EXCEPT ![s] = Tail(@)]
  /\ len' = [len EXCEPT ![s] = Minus(@, 1)]
  /\ pend' = [pend EXCEPT ![s][Head(sleepq[s])] = @ + 1]
  /\ SetTim(IF len'[s] = 0 THEN tim \ {aid[s]} ELSE tim, len'[s] = 0)
  /\ drift' = IF Wmm(s, Head(sleepq[s])) THEN drift \cup {s} ELSE drift
  /\ UNCHANGED <<aid, uapsd, acLen, dz, fly, bcn, chkCmd, rx, cmd, disturbed>>

PollEmpty(s) ==
  /\ rx = Idle /\ aid[s] # BMC
  /\ st' = [st EXCEPT ![s] = @ \ {"alive"}]
  /\ \/ rx' = rx
     \/ rx' = [pc |-> "polled", s |-> s, ac |-> None, ld |-> {}]
  /\ UNCHANGED <<aid, uapsd, mapVars, qVars, fly, bcn, chkCmd, cmd, disturbed, drift>>

FlushBmc ==
  /\ sleepq' = [sleepq EXCEPT ![BMC] = <<>>]
  /\ len' = [len EXCEPT ![BMC] = Minus(@, Len(sleepq[BMC]))]
  /\ pend' = [pend EXCEPT ![BMC] = Adding(@, sleepq[BMC])]
  /\ UNCHANGED <<staVars, acLen, mapVars, fly, rx, cmd, disturbed, drift>>

NoFlush ==
  /\ UNCHANGED <<staVars, tim, dz, ie, qVars, fly, rx, cmd, disturbed, drift>>

Steps ==
  \/ \E x \in Dest, ac \in AC : TxPasses(x, ac) \/ HalTake(x, ac)
  \/ \E s \in Sta, ac \in AC : TxUnicast(s, ac)
  \/ TxGroup \/ TxHal
  \/ \E s \in Sta, ac \in AC \cup {None} :
       RxSleeps(s, ac) \/ RxWakes(s, ac) \/ RxTrigger(s, ac)
  \/ \E s \in Sta :
       WmmDeliver(s) \/ PollFrame(s) \/ PollEmpty(s) \/ OnAuth(s) \/ ExpireMark(s)
         \/ ExpireCheck(s) \/ AuthExpire(s) \/ ExpireAging(s)
  \/ \E s \in Sta, u \in Uapsd : OnAssocReq(s, u)
  \/ RxBeacon \/ WmmNull \/ RxPolled \/ RxPollClear
  \/ ExpireMarkStore \/ ExpireTim \/ AkaAlive \/ AkaDead \/ StaLeft
  \/ rtw_free_stainfo \/ AgingBeacon \/ FlushBmc \/ NoFlush

LEMMA NextSteps ==
  ASSUME Next, rx.pc # "idle" => rx.s \in Sta
  PROVE  Steps
  <1> USE DEF staVars, mapVars, qVars
  <1>1. ASSUME NEW x \in Dest, NEW ac \in AC, TxCheck(x, ac)
        PROVE  TxPasses(x, ac) \/ TxGroup \/ (x \in Sta /\ TxUnicast(x, ac))
    <2>1. CASE ~Buffers(x)
      BY <1>1, <2>1 DEF TxCheck, TxPasses
    <2>2. CASE Buffers(x) /\ x = BMC
      BY <1>1, <2>2 DEF TxCheck, TxGroup, Buffers
    <2>3. CASE Buffers(x) /\ x # BMC
      BY <1>1, <2>3 DEF TxCheck, TxUnicast, Buffers, Dest
    <2> QED BY <2>1, <2>2, <2>3
  <1>2. ASSUME NEW s \in Sta, NEW pm \in BOOLEAN, NEW ac \in AC \cup {None}, RxData(s, pm, ac)
        PROVE  RxSleeps(s, ac) \/ RxWakes(s, ac) \/ RxTrigger(s, ac)
    BY <1>2 DEF RxData, RxSleeps, RxWakes, RxTrigger, AfterData, Idle
  <1>3. ASSUME RxWmm PROVE WmmNull \/ (rx.s \in Sta /\ WmmDeliver(rx.s))
    BY <1>3 DEF RxWmm, WmmNull, WmmDeliver
  <1>4. ASSUME NEW s \in Sta, RxPsPoll(s) PROVE PollFrame(s) \/ PollEmpty(s)
    BY <1>4 DEF RxPsPoll, PollFrame, PollEmpty, Idle
  <1>5. ASSUME CmdChkBmc \/ BcnFlush PROVE FlushBmc \/ NoFlush
    BY <1>5 DEF CmdChkBmc, BcnFlush, chk_bmc_sleepq_hdl, FlushBmc, NoFlush
  <1>6. ASSUME BcnSend PROVE NoFlush
    BY <1>6 DEF BcnSend, NoFlush
  <1> QED BY <1>1, <1>2, <1>3, <1>4, <1>5, <1>6, Zenon DEF Next, Steps

-----------------------------------------------------------------------------
(* Types                                                                   *)

Bits == {"in", "linked", "sleep", "alive"}
RxPc == {"idle", "bcn", "wmm", "polled", "pollclr"}
CmdPc == {"idle", "mark", "tim", "aka", "left", "free", "bcn"}

StaTypes ==
  /\ st \in [Sta -> SUBSET Bits] /\ uapsd \in [Sta -> SUBSET AC]
  /\ aid \in [Sta -> Dest] /\ \A s \in Sta : aid[s] \in {s, BMC}
MapTypes == tim \subseteq Dest /\ dz \subseteq Dest /\ ie \subseteq Dest
RxTypes ==
  /\ rx \in [pc : RxPc, s : Dest, ac : AC \cup {None}, ld : SUBSET Dest]
  /\ rx.pc # "idle" => rx.s \in Sta
CmdTypes ==
  /\ cmd \in [pc : CmdPc, s : Dest, ac : {None}, ld : SUBSET (Dest \cup Bits)]
  /\ cmd.pc # "idle" => cmd.s \in Sta
  /\ cmd.pc = "mark" => cmd.ld \subseteq Bits
  /\ cmd.pc # "mark" => cmd.ld \subseteq Dest
HistoryTypes ==
  /\ fly \in {None} \cup (Dest \X AC)
  /\ disturbed \subseteq Dest /\ drift \subseteq Sta
CountTypes == len \in [Dest -> 0..U32 - 1] /\ acLen \in [Dest -> 0..U32 - 1]
Types == StaTypes /\ MapTypes /\ RxTypes /\ CmdTypes /\ HistoryTypes

-----------------------------------------------------------------------------
(* What a step does to the frames and the counts of one destination        *)

LEMMA Modulo ==
  /\ \A i \in Int : i % U32 \in 0..U32 - 1
  /\ \A i \in 0..U32 - 1 : i % U32 = i
  BY SleepAssumption

Numbers(x) ==
  /\ sleepq[x] \in Seq(AC) /\ pend[x] \in [AC -> Nat]
  /\ len[x] \in 0..U32 - 1 /\ acLen[x] \in 0..U32 - 1
Cats(x) == IF x \in Sta THEN uapsd[x] ELSE {}

\* sleepq_ac_len of a station changes to n; the broadcast station has none.
AcLenIs(x, n) == acLen'[x] = IF x \in Sta THEN n ELSE acLen[x]

Same(x) ==
  /\ sleepq'[x] = sleepq[x] /\ pend'[x] = pend[x]
  /\ len'[x] = len[x] /\ acLen'[x] = acLen[x]

\* TxHal
Sent(x) ==
  /\ \E c \in AC : pend'[x] = [pend[x] EXCEPT ![c] = @ + 1]
  /\ sleepq'[x] = sleepq[x] /\ len'[x] = len[x] /\ acLen'[x] = acLen[x]

\* HalTake
Taken(x) ==
  /\ \E c \in AC : pend[x][c] > 0 /\ pend'[x] = [pend[x] EXCEPT ![c] = @ - 1]
  /\ sleepq'[x] = sleepq[x] /\ len'[x] = len[x] /\ acLen'[x] = acLen[x]

\* xmitframe_enqueue_for_sleeping_sta
Buffered(x) ==
  /\ \E c \in AC :
       /\ sleepq'[x] = Append(sleepq[x], c)
       /\ AcLenIs(x, IF c \in Cats(x) THEN Plus(acLen[x], 1) ELSE acLen[x])
  /\ len'[x] = Plus(len[x], 1)
  /\ pend'[x] = pend[x]

\* stop_sta_xmit
Slept(x) ==
  \E q \in {Pending(x), <<>>} :
    /\ sleepq'[x] = sleepq[x] \o q
    /\ len'[x] = Plus(len[x], Len(q))
    /\ AcLenIs(x, Plus(acLen[x], Count(q, Cats(x))))
    /\ pend'[x] = NoPend \/ (q = <<>> /\ pend'[x] = pend[x])

\* wakeup_sta_to_xmit and chk_bmc_sleepq_hdl
Emptied(x) ==
  /\ sleepq'[x] = <<>>
  /\ len'[x] = Minus(len[x], Len(sleepq[x]))
  /\ AcLenIs(x, Minus(acLen[x], Count(sleepq[x], Cats(x))))
  /\ pend'[x] = Adding(pend[x], sleepq[x])

\* xmit_delivery_enabled_frames
Delivered(x) ==
  LET q == Only(sleepq[x], Cats(x)) IN
  /\ sleepq'[x] = Only(sleepq[x], AC \ Cats(x))
  /\ len'[x] = Minus(len[x], Len(q))
  /\ AcLenIs(x, Minus(acLen[x], Len(q)))
  /\ pend'[x] = Adding(pend[x], q)

\* validate_recv_ctrl_frame
Polled(x) ==
  /\ sleepq[x] # <<>>
  /\ sleepq'[x] = Tail(sleepq[x])
  /\ len'[x] = Minus(len[x], 1)
  /\ acLen'[x] = acLen[x]
  /\ pend'[x] = [pend[x] EXCEPT ![Head(sleepq[x])] = @ + 1]
  /\ Head(sleepq[x]) \in Cats(x) => x \in drift'

\* the "error!" branch of validate_recv_ctrl_frame
Zeroed(x) ==
  /\ len'[x] = 0 /\ (len[x] # 0 => x \in disturbed')
  /\ sleepq'[x] = sleepq[x] /\ pend'[x] = pend[x] /\ acLen'[x] = acLen[x]

\* rtw_free_stainfo
Freed(x) == sleepq'[x] = <<>> /\ pend'[x] = NoPend /\ len'[x] = 0 /\ acLen'[x] = 0

\* The frames of x stay or leave; they become more.
Settles(x) ==
  \/ Same(x) \/ Taken(x) \/ Slept(x) \/ Emptied(x) \/ Delivered(x) \/ Polled(x)
  \/ Zeroed(x) \/ Freed(x)
Grows(x) == Buffered(x) \/ Sent(x)

\* The history of x and its categories stay, but for a departure and a
\* re-association that redefines the categories.
Tracked(x) ==
  \/ Freed(x)
  \/ /\ x \in disturbed => x \in disturbed'
     /\ x \in drift => x \in drift'
     /\ \/ Cats(x)' = Cats(x)
        \/ Same(x) /\ (x \in disturbed' \/ (sleepq[x] = <<>> /\ acLen[x] = 0))

\* What a step does to the frames, the counts and the pool.
FramesStay ==
  /\ \A x \in Dest : Settles(x)
  /\ \/ fly' = fly \/ fly' = None
     \/ fly = None /\ Used < NR_XMITFRAME /\ \A x \in Dest : Same(x)
OneMore(x) ==
  /\ \/ Buffered(x) /\ Used < NR_XMITFRAME /\ fly' = fly
     \/ Sent(x) /\ fly # None /\ fly' = None
  /\ \A z \in Dest \ {x} : Same(z)
FramesMove == FramesStay \/ \E x \in Dest : OneMore(x)

Arrays ==
  /\ sleepq = [x \in Dest |-> sleepq[x]] /\ pend = [x \in Dest |-> pend[x]]
  /\ len = [x \in Dest |-> len[x]] /\ acLen = [x \in Dest |-> acLen[x]]
Counting == \A x \in Dest : Numbers(x)

LEMMA CountIs ==
  ASSUME NEW s \in Sta, NEW q
  PROVE  CountWmm(s, q) = Count(q, Cats(s))
  <1>1. {i \in DOMAIN q : Wmm(s, q[i])} = Places(q, Cats(s))
    BY DEF Wmm, Cats, Places, Upto
  <1> QED BY <1>1 DEF CountWmm, Count

LEMMA AddingNone ==
  ASSUME NEW p \in [AC -> Nat]
  PROVE  Adding(p, <<>>) = p
  <1>1. \A c \in AC : Adding(p, <<>>)[c] = p[c]
    <2>1. ASSUME NEW c \in AC PROVE Adding(p, <<>>)[c] = p[c]
      <3>1. {i \in DOMAIN <<>> : <<>>[i] = c} = {}
        OBVIOUS
      <3>2. Cardinality({i \in DOMAIN <<>> : <<>>[i] = c}) = 0
        BY <3>1, FS_EmptySet
      <3> QED BY <3>2 DEF Adding
    <2> QED BY <2>1
  <1>2. Adding(p, <<>>) = [c \in AC |-> Adding(p, <<>>)[c]]
    BY DEF Adding
  <1>3. p = [c \in AC |-> p[c]]
    OBVIOUS
  <1> QED BY <1>1, <1>2, <1>3, Zenon

LEMMA StopMoves ==
  ASSUME NEW s \in Sta, stop_sta_xmit(s), Arrays, Counting
  PROVE  /\ Slept(s) /\ Slept(BMC) /\ \A z \in Sta \ {s} : Same(z)
         /\ "linked" \notin st[s] => sleepq'[s] = sleepq[s] \o <<>>
         /\ Arrays'
  <1> DEFINE q == IF "linked" \in st[s] THEN Pending(s) ELSE <<>>
             g == Pending(BMC)
  <1>1. /\ sleepq' = [sleepq EXCEPT ![s] = @ \o q, ![BMC] = @ \o g]
        /\ len' = [len EXCEPT ![s] = Plus(@, Len(q)), ![BMC] = Plus(@, Len(g))]
        /\ acLen' = [acLen EXCEPT ![s] = Plus(@, CountWmm(s, q))]
        /\ pend' = [pend EXCEPT ![s] = IF q = <<>> THEN @ ELSE NoPend, ![BMC] = NoPend]
    BY DEF stop_sta_xmit
  <1>2. CountWmm(s, q) = Count(q, Cats(s))
    BY CountIs
  <1>3. q \in {Pending(s), <<>>} /\ ("linked" \notin st[s] => q = <<>>)
    OBVIOUS
  <1>4. s \in Dest /\ BMC \in Dest /\ s # BMC /\ BMC \notin Sta
    BY SleepAssumption DEF Dest
  <1> HIDE DEF q, g
  <1>5. Arrays'
    BY <1>1 DEF Arrays
  <1>6. Slept(s)
    BY <1>1, <1>2, <1>3, <1>4 DEF Arrays, Slept, AcLenIs
  <1>7. Slept(BMC)
    BY <1>1, <1>4 DEF Arrays, Slept, AcLenIs, g
  <1>8. \A z \in Sta \ {s} : Same(z)
    BY <1>1, <1>4 DEF Arrays, Same, Dest
  <1> QED BY <1>1, <1>3, <1>4, <1>5, <1>6, <1>7, <1>8 DEF Arrays

LEMMA WakeMoves ==
  ASSUME NEW s \in Sta, wakeup_sta_to_xmit(s), Arrays, Counting
  PROVE  /\ Emptied(s) /\ \A z \in Sta \ {s} : Same(z)
         /\ IF FlushGroup(s) THEN Emptied(BMC) ELSE Same(BMC)
         /\ Arrays'
  <1> DEFINE g == IF FlushGroup(s) THEN sleepq[BMC] ELSE <<>>
  <1>1. /\ len' = [len EXCEPT ![s] = Minus(@, Len(sleepq[s])), ![BMC] = Minus(@, Len(g))]
        /\ acLen' = [acLen EXCEPT ![s] = Minus(@, CountWmm(s, sleepq[s]))]
        /\ sleepq' = [sleepq EXCEPT ![s] = <<>>, ![BMC] = IF g = <<>> THEN @ ELSE <<>>]
        /\ pend' = [pend EXCEPT ![s] = Adding(@, sleepq[s]), ![BMC] = Adding(@, g)]
    BY DEF wakeup_sta_to_xmit
  <1>2. CountWmm(s, sleepq[s]) = Count(sleepq[s], Cats(s))
    BY CountIs
  <1>3. s \in Dest /\ BMC \in Dest /\ s # BMC /\ BMC \notin Sta
    BY SleepAssumption DEF Dest
  <1>4. /\ FlushGroup(s) => g = sleepq[BMC]
        /\ ~FlushGroup(s) => g = <<>>
    OBVIOUS
  <1>5. g = <<>> => Adding(pend[BMC], g) = pend[BMC] /\ Minus(len[BMC], Len(g)) = len[BMC]
    <2>1. pend[BMC] \in [AC -> Nat] /\ len[BMC] \in 0..U32 - 1
      BY <1>3 DEF Counting, Numbers
    <2>2. Adding(pend[BMC], <<>>) = pend[BMC]
      BY <2>1, AddingNone
    <2>3. Minus(len[BMC], Len(<<>>)) = len[BMC]
      <3>1. Len(<<>>) = 0 /\ len[BMC] - 0 = len[BMC]
        BY <2>1
      <3> QED BY <2>1, <3>1, Modulo, Zenon DEF Minus
    <2> QED BY <2>2, <2>3
  <1> HIDE DEF g
  <1>6. Arrays'
    BY <1>1 DEF Arrays
  <1>7. Emptied(s)
    BY <1>1, <1>2, <1>3 DEF Arrays, Emptied, AcLenIs
  <1>8. CASE FlushGroup(s)
    <2>1. Emptied(BMC)
      BY <1>1, <1>3, <1>4, <1>8 DEF Arrays, Emptied, AcLenIs
    <2>2. \A z \in Sta \ {s} : Same(z)
      BY <1>1, <1>3 DEF Arrays, Same, Dest
    <2> QED BY <1>6, <1>7, <1>8, <2>1, <2>2
  <1>9. CASE ~FlushGroup(s)
    <2>1. Same(BMC)
      BY <1>1, <1>3, <1>4, <1>5, <1>9 DEF Arrays, Same
    <2>2. \A z \in Sta \ {s} : Same(z)
      BY <1>1, <1>3 DEF Arrays, Same, Dest
    <2> QED BY <1>6, <1>7, <1>9, <2>1, <2>2
  <1> QED BY <1>8, <1>9

LEMMA DeliverMoves ==
  ASSUME NEW s \in Sta, xmit_delivery_enabled_frames(s), Arrays
  PROVE  Delivered(s) /\ \A z \in Dest \ {s} : Same(z)
  <1>1. Cats(s) = uapsd[s] /\ s \in Dest
    BY DEF Cats, Dest
  <1>2. PICK q : q = Only(sleepq[s], uapsd[s])
    OBVIOUS
  <1>3. PICK r : r = Only(sleepq[s], AC \ uapsd[s])
    OBVIOUS
  <1>4. /\ sleepq' = [sleepq EXCEPT ![s] = r]
        /\ len' = [len EXCEPT ![s] = Minus(@, Len(q))]
        /\ acLen' = [acLen EXCEPT ![s] = Minus(@, Len(q))]
        /\ pend' = [pend EXCEPT ![s] = Adding(@, q)]
    BY <1>2, <1>3 DEF xmit_delivery_enabled_frames
  <1>5. \A z \in Dest \ {s} : Same(z)
    BY <1>4 DEF Arrays, Same
  <1>6. /\ sleepq'[s] = r /\ len'[s] = Minus(len[s], Len(q))
        /\ acLen'[s] = Minus(acLen[s], Len(q)) /\ pend'[s] = Adding(pend[s], q)
    BY <1>1, <1>4 DEF Arrays
  <1>7. Delivered(s)
    BY <1>1, <1>2, <1>3, <1>6 DEF Delivered, AcLenIs
  <1> QED BY <1>5, <1>7

LEMMA TxMoves ==
  ASSUME Arrays, Counting, HistoryTypes
  PROVE  /\ TxGroup => OneMore(BMC)
         /\ \A s \in Sta, ac \in AC : TxUnicast(s, ac) => OneMore(s)
         /\ TxHal => FramesMove
         /\ \A x \in Dest, ac \in AC : HalTake(x, ac) => FramesStay
  <1>1. BMC \in Dest /\ BMC \notin Sta /\ PollAC \in AC /\ \A s \in Sta : s \in Dest /\ s # BMC
    BY SleepAssumption DEF Dest, AC
  <1>2. ASSUME TxGroup PROVE OneMore(BMC)
    <2>1. Buffered(BMC)
      BY <1>1, <1>2 DEF TxGroup, TxGroupBuffered, Arrays, Buffered, AcLenIs, Cats
    <2>2. \A z \in Dest \ {BMC} : Same(z)
      BY <1>2 DEF TxGroup, TxGroupBuffered, Arrays, Same
    <2> QED BY <1>2, <2>1, <2>2 DEF OneMore, TxGroup, TxGroupBuffered
  <1>3. ASSUME NEW s \in Sta, NEW ac \in AC, TxUnicast(s, ac) PROVE OneMore(s)
    <2>1. Buffered(s)
      BY <1>1, <1>3 DEF TxUnicast, TxUnicastBuffered, Arrays, Buffered, AcLenIs, Cats, Wmm
    <2>2. \A z \in Dest \ {s} : Same(z)
      BY <1>3 DEF TxUnicast, TxUnicastBuffered, Arrays, Same
    <2> QED BY <1>3, <2>1, <2>2 DEF OneMore, TxUnicast, TxUnicastBuffered
  <1>4. ASSUME TxHal PROVE FramesMove
    <2>1. /\ fly # None /\ fly' = None
          /\ sleepq' = sleepq /\ len' = len /\ acLen' = acLen
      BY <1>4 DEF TxHal
    <2>2. PICK x \in Dest : \E c \in AC : fly = <<x, c>>
      BY <2>1 DEF HistoryTypes
    <2>3. PICK c \in AC : fly = <<x, c>>
      BY <2>2
    <2>4. fly[1] = x /\ fly[2] = c
      BY <2>3
    <2>5. CASE pend' = pend
      BY <2>1, <2>5 DEF FramesMove, FramesStay, Settles, Same
    <2>6. CASE pend' = [pend EXCEPT ![x][c] = @ + 1]
      <3>1. Sent(x)
        BY <2>1, <2>6 DEF Sent, Arrays
      <3>2. \A z \in Dest \ {x} : Same(z)
        BY <2>1, <2>6 DEF Same, Arrays
      <3> QED BY <2>1, <3>1, <3>2 DEF FramesMove, OneMore
    <2> QED BY <1>4, <2>4, <2>5, <2>6 DEF TxHal
  <1>5. ASSUME NEW x \in Dest, NEW ac \in AC, HalTake(x, ac) PROVE FramesStay
    <2>1. Taken(x)
      BY <1>5 DEF HalTake, Taken, Arrays
    <2>2. \A z \in Dest \ {x} : Same(z)
      BY <1>5 DEF HalTake, Same, Arrays
    <2> QED BY <1>5, <2>1, <2>2 DEF HalTake, FramesStay, Settles
  <1> QED BY <1>2, <1>3, <1>4, <1>5, Zenon

LEMMA RxMoves ==
  ASSUME Arrays, Counting, QueueTypes, NEW s \in Sta, NEW ac \in AC \cup {None}
  PROVE  RxSleeps(s, ac) \/ RxWakes(s, ac) \/ ExpireAging(s) \/ WmmDeliver(s) \/ PollFrame(s)
           => FramesStay
  <1>1. BMC \in Dest /\ Dest = Sta \cup {BMC} /\ s # BMC /\ s \in Dest
    BY SleepAssumption DEF Dest
  <1>2. ASSUME RxSleeps(s, ac) PROVE FramesStay
    <2>1. Slept(s) /\ Slept(BMC) /\ \A z \in Sta \ {s} : Same(z)
      BY <1>2, StopMoves DEF RxSleeps
    <2>2. fly' = fly
      BY <1>2 DEF RxSleeps
    <2> QED BY <1>1, <2>1, <2>2 DEF FramesStay, Settles
  <1>3. ASSUME RxWakes(s, ac) \/ ExpireAging(s) PROVE FramesStay
    <2>1. wakeup_sta_to_xmit(s) /\ fly' = fly
      BY <1>3 DEF RxWakes, ExpireAging
    <2>2. /\ Emptied(s) /\ \A z \in Sta \ {s} : Same(z)
          /\ Emptied(BMC) \/ Same(BMC)
      BY <2>1, WakeMoves
    <2> QED BY <1>1, <2>1, <2>2 DEF FramesStay, Settles
  <1>4. ASSUME WmmDeliver(s) PROVE FramesStay
    <2>1. Delivered(s) /\ \A z \in Dest \ {s} : Same(z)
      BY <1>4, DeliverMoves DEF WmmDeliver
    <2>2. fly' = fly
      BY <1>4 DEF WmmDeliver
    <2> QED BY <2>1, <2>2 DEF FramesStay, Settles
  <1>5. ASSUME PollFrame(s) PROVE FramesStay
    <2>1. sleepq[s] \in Seq(AC) /\ Cats(s) = uapsd[s]
      BY <1>1 DEF QueueTypes, Cats
    <2>2. Head(sleepq[s]) \in AC
      BY <2>1, <1>5 DEF PollFrame
    <2>3. PICK c \in AC : c = Head(sleepq[s])
      BY <2>2
    <2>4. PICK r : r = Tail(sleepq[s])
      OBVIOUS
    <2>5. /\ sleepq' = [sleepq EXCEPT ![s] = r]
          /\ len' = [len EXCEPT ![s] = Minus(@, 1)]
          /\ pend' = [pend EXCEPT ![s][c] = @ + 1]
          /\ acLen' = acLen /\ sleepq[s] # <<>> /\ fly' = fly
          /\ c \in uapsd[s] => s \in drift'
      BY <1>5, <2>3, <2>4 DEF PollFrame, Wmm
    <2>6. /\ sleepq'[s] = r /\ len'[s] = Minus(len[s], 1)
          /\ pend'[s] = [pend[s] EXCEPT ![c] = @ + 1]
      BY <2>5, <1>1 DEF Arrays
    <2>7. Polled(s)
      BY <2>1, <2>3, <2>4, <2>5, <2>6 DEF Polled
    <2>8. \A z \in Dest \ {s} : Same(z)
      BY <2>5 DEF Same, Arrays
    <2> QED BY <2>5, <2>7, <2>8 DEF FramesStay, Settles
  <1> QED BY <1>2, <1>3, <1>4, <1>5

LEMMA OtherMoves ==
  ASSUME Arrays, RxTypes, CmdTypes
  PROVE  /\ FlushBmc \/ RxPolled \/ rtw_free_stainfo => FramesStay
         /\ \A x \in Dest, ac \in AC : TxPasses(x, ac) => FramesStay
  <1>1. ASSUME FlushBmc PROVE FramesStay
    <2>1. BMC \in Dest /\ BMC \notin Sta
      BY SleepAssumption DEF Dest
    <2>2. Emptied(BMC)
      BY <2>1, <1>1 DEF FlushBmc, Emptied, AcLenIs, Arrays
    <2>3. \A z \in Dest \ {BMC} : Same(z)
      BY <1>1 DEF FlushBmc, Same, Arrays
    <2> QED BY <1>1, <2>2, <2>3 DEF FlushBmc, FramesStay, Settles
  <1>2. ASSUME RxPolled PROVE FramesStay
    <2>1. rx.s \in Sta /\ rx.s \in Dest
      BY <1>2 DEF RxPolled, RxTypes
    <2>2. PICK s \in Dest : s = rx.s
      BY <2>1
    <2>3. sleepq' = sleepq /\ acLen' = acLen /\ pend' = pend /\ fly' = fly
      BY <1>2 DEF RxPolled
    <2>4. CASE len' = len
      BY <2>3, <2>4 DEF FramesStay, Settles, Same
    <2>5. CASE len' = [len EXCEPT ![s] = 0] /\ (len[s] # 0 => s \in disturbed')
      <3>1. Zeroed(s)
        BY <2>3, <2>5 DEF Zeroed, Arrays
      <3>2. \A z \in Dest \ {s} : Same(z)
        BY <2>3, <2>5 DEF Same, Arrays
      <3> QED BY <2>3, <3>1, <3>2 DEF FramesStay, Settles
    <2> QED BY <1>2, <2>2, <2>4, <2>5 DEF RxPolled
  <1>3. ASSUME rtw_free_stainfo PROVE FramesStay
    <2>1. cmd.s \in Sta
      BY <1>3 DEF rtw_free_stainfo, CmdTypes
    <2>2. PICK s \in Dest : s = cmd.s
      BY <2>1 DEF Dest
    <2>3. /\ sleepq' = [sleepq EXCEPT ![s] = <<>>] /\ len' = [len EXCEPT ![s] = 0]
          /\ acLen' = [acLen EXCEPT ![s] = 0] /\ pend' = [pend EXCEPT ![s] = NoPend]
          /\ fly' = fly
      BY <1>3, <2>2 DEF rtw_free_stainfo
    <2>4. Freed(s)
      BY <2>3 DEF Freed, Arrays
    <2>5. \A z \in Dest \ {s} : Same(z)
      BY <2>3 DEF Same, Arrays
    <2> QED BY <2>3, <2>4, <2>5 DEF FramesStay, Settles
  <1>4. ASSUME NEW x \in Dest, NEW ac \in AC, TxPasses(x, ac) PROVE FramesStay
    BY <1>4 DEF TxPasses, qVars, FramesStay, Settles, Same
  <1> QED BY <1>1, <1>2, <1>3, <1>4, Zenon

LEMMA StaTypesStep ==
  ASSUME StaTypes, RxTypes, CmdTypes, [Steps]_vars
  PROVE  StaTypes'
  <1> USE SleepAssumption DEF StaTypes, RxTypes, CmdTypes, Bits, Dest, AC
  <1>1. ASSUME NEW s \in Sta, NEW ac \in AC \cup {None}, RxSleeps(s, ac) PROVE StaTypes'
    BY <1>1 DEF RxSleeps, stop_sta_xmit, AfterData, Idle, SetTim, _update_beacon, NoBeaconUpdate
  <1>2. ASSUME NEW s \in Sta, NEW ac \in AC \cup {None}, RxWakes(s, ac) PROVE StaTypes'
    BY <1>2 DEF RxWakes, wakeup_sta_to_xmit, AfterData, Idle, DzAfter, TimAfter
  <1>3. ASSUME NEW s \in Sta, PollFrame(s) PROVE StaTypes'
    BY <1>3 DEF PollFrame, SetTim, _update_beacon, NoBeaconUpdate
  <1>4. ASSUME NEW s \in Sta, PollEmpty(s) PROVE StaTypes'
    BY <1>4 DEF PollEmpty, Idle, mapVars, qVars
  <1>5. ASSUME NEW s \in Sta, OnAuth(s) PROVE StaTypes'
    BY <1>5 DEF OnAuth, Idle, mapVars, qVars
  <1>6. ASSUME NEW s \in Sta, NEW u \in Uapsd, OnAssocReq(s, u) PROVE StaTypes'
    BY <1>6 DEF OnAssocReq, Idle, mapVars, qVars
  <1>7. ASSUME ExpireMarkStore PROVE StaTypes'
    BY <1>7 DEF ExpireMarkStore, mapVars, qVars
  <1>8. ASSUME AkaDead PROVE StaTypes'
    BY <1>8 DEF AkaDead, mapVars, qVars
  <1>9. ASSUME rtw_free_stainfo PROVE StaTypes'
    BY <1>9 DEF rtw_free_stainfo, Idle
  <1>10. ASSUME NEW s \in Sta, ExpireAging(s) PROVE StaTypes'
    BY <1>10 DEF ExpireAging, wakeup_sta_to_xmit, Idle, DzAfter, TimAfter
  <1>11. ASSUME \/ TxGroup \/ TxHal \/ RxBeacon \/ WmmNull \/ RxPolled \/ RxPollClear
               \/ ExpireTim \/ AkaAlive \/ StaLeft \/ AgingBeacon \/ FlushBmc \/ NoFlush
               \/ UNCHANGED vars
               \/ (\E x \in Dest, ac \in AC : TxPasses(x, ac) \/ HalTake(x, ac))
               \/ (\E s \in Sta, ac \in AC : TxUnicast(s, ac))
               \/ (\E s \in Sta, ac \in AC \cup {None} : RxTrigger(s, ac))
               \/ (\E s \in Sta : WmmDeliver(s) \/ ExpireMark(s) \/ ExpireCheck(s)
                        \/ AuthExpire(s))
        PROVE StaTypes'
    <2> HIDE DEF StaTypes, RxTypes, CmdTypes, Bits, Dest, AC
    <2>1. UNCHANGED <<aid, st, uapsd>>
      BY <1>11, Zenon DEF TxPasses, TxGroup, TxUnicast, TxHal, HalTake, RxTrigger, RxBeacon,
         WmmDeliver, WmmNull, RxPolled, RxPollClear, ExpireMark, ExpireTim, ExpireCheck,
         AkaAlive, StaLeft, AuthExpire, AgingBeacon, FlushBmc, NoFlush, mapVars, qVars, staVars,
         vars
    <2> QED BY <2>1 DEF StaTypes, RxTypes, CmdTypes, Bits, Dest, AC
  <1> QED BY <1>1, <1>2, <1>3, <1>4, <1>5, <1>6, <1>7, <1>8, <1>9, <1>10, <1>11, Zenon DEF Steps

LEMMA MapTypesStep ==
  ASSUME StaTypes, MapTypes, RxTypes, CmdTypes, [Steps]_vars
  PROVE  MapTypes'
  <1> USE SleepAssumption DEF StaTypes, MapTypes, RxTypes, CmdTypes, Dest
  <1>1. ASSUME TxGroup PROVE MapTypes'
    BY <1>1 DEF TxGroup, TxGroupBuffered, staVars, SetTim, _update_beacon, NoBeaconUpdate
  <1>2. ASSUME NEW s \in Sta, NEW ac \in AC, TxUnicast(s, ac) PROVE MapTypes'
    BY <1>2 DEF TxUnicast, TxUnicastBuffered, staVars, SetTim, NoBeaconUpdate, _update_beacon
  <1>3. ASSUME NEW s \in Sta, NEW ac \in AC \cup {None}, RxSleeps(s, ac) PROVE MapTypes'
    BY <1>3 DEF RxSleeps, stop_sta_xmit, AfterData, Idle, SetTim, _update_beacon, NoBeaconUpdate
  <1>4. ASSUME NEW s \in Sta, NEW ac \in AC \cup {None}, RxWakes(s, ac) PROVE MapTypes'
    BY <1>4 DEF RxWakes, wakeup_sta_to_xmit, AfterData, Idle, DzAfter, TimAfter
  <1>5. ASSUME RxBeacon PROVE MapTypes'
    BY <1>5 DEF RxBeacon, _update_beacon, Idle, staVars, qVars
  <1>6. ASSUME NEW s \in Sta, WmmDeliver(s) PROVE MapTypes'
    BY <1>6 DEF WmmDeliver, xmit_delivery_enabled_frames, Idle, staVars, SetTim, _update_beacon,
         NoBeaconUpdate
  <1>7. ASSUME NEW s \in Sta, PollFrame(s) PROVE MapTypes'
    BY <1>7 DEF PollFrame, SetTim, _update_beacon, NoBeaconUpdate
  <1>8. ASSUME RxPollClear PROVE MapTypes'
    BY <1>8 DEF RxPollClear, SetTim, Idle, staVars, qVars, _update_beacon, NoBeaconUpdate
  <1>9. ASSUME ExpireTim PROVE MapTypes'
    BY <1>9 DEF ExpireTim, SetTim, staVars, qVars, _update_beacon, NoBeaconUpdate
  <1>10. ASSUME StaLeft PROVE MapTypes'
    BY <1>10 DEF StaLeft, SetTim, staVars, qVars, _update_beacon, NoBeaconUpdate
  <1>11. ASSUME rtw_free_stainfo PROVE MapTypes'
    BY <1>11 DEF rtw_free_stainfo, Idle
  <1>12. ASSUME NEW s \in Sta, ExpireAging(s) PROVE MapTypes'
    BY <1>12 DEF ExpireAging, wakeup_sta_to_xmit, Idle, DzAfter, TimAfter
  <1>13. ASSUME AgingBeacon PROVE MapTypes'
    BY <1>13 DEF AgingBeacon, _update_beacon, Idle, staVars, qVars
  <1>14. ASSUME \/ TxHal \/ WmmNull \/ RxPolled \/ ExpireMarkStore \/ AkaAlive \/ AkaDead
               \/ FlushBmc \/ NoFlush \/ UNCHANGED vars
               \/ (\E x \in Dest, ac \in AC : TxPasses(x, ac) \/ HalTake(x, ac))
               \/ (\E s \in Sta, ac \in AC \cup {None} : RxTrigger(s, ac))
               \/ (\E s \in Sta : PollEmpty(s) \/ OnAuth(s) \/ ExpireMark(s)
                        \/ ExpireCheck(s) \/ AuthExpire(s))
               \/ (\E s \in Sta, u \in Uapsd : OnAssocReq(s, u))
        PROVE MapTypes'
    <2> HIDE DEF StaTypes, MapTypes, RxTypes, CmdTypes, Dest
    <2>1. UNCHANGED <<dz, ie, tim>>
      BY <1>14, Zenon DEF TxPasses, TxHal, HalTake, RxTrigger, WmmNull, PollEmpty, RxPolled,
         OnAuth, OnAssocReq, ExpireMark, ExpireMarkStore, ExpireCheck, AkaAlive, AkaDead,
         AuthExpire, FlushBmc, NoFlush, mapVars, qVars, staVars, vars
    <2> QED BY <2>1 DEF StaTypes, MapTypes, RxTypes, CmdTypes, Dest
  <1> QED BY <1>1, <1>2, <1>3, <1>4, <1>5, <1>6, <1>7, <1>8, <1>9, <1>10, <1>11, <1>12, <1>13,
         <1>14, Zenon DEF Steps

LEMMA RxTypesStep ==
  ASSUME RxTypes, MapTypes, [Steps]_vars
  PROVE  RxTypes'
  <1> USE SleepAssumption DEF RxTypes, MapTypes, RxPc, Dest
  <1>1. ASSUME NEW s \in Sta, NEW ac \in AC \cup {None}, RxSleeps(s, ac) PROVE RxTypes'
    BY <1>1 DEF RxSleeps, stop_sta_xmit, AfterData, Idle, SetTim, _update_beacon, NoBeaconUpdate
  <1>2. ASSUME NEW s \in Sta, NEW ac \in AC \cup {None}, RxWakes(s, ac) PROVE RxTypes'
    BY <1>2 DEF RxWakes, wakeup_sta_to_xmit, AfterData, Idle, DzAfter, TimAfter
  <1>3. ASSUME NEW s \in Sta, NEW ac \in AC \cup {None}, RxTrigger(s, ac) PROVE RxTypes'
    BY <1>3 DEF RxTrigger, AfterData, Idle, staVars, mapVars, qVars
  <1>4. ASSUME RxBeacon PROVE RxTypes'
    BY <1>4 DEF RxBeacon, _update_beacon, Idle, staVars, qVars
  <1>5. ASSUME NEW s \in Sta, WmmDeliver(s) PROVE RxTypes'
    BY <1>5 DEF WmmDeliver, xmit_delivery_enabled_frames, Idle, staVars, SetTim, _update_beacon,
         NoBeaconUpdate
  <1>6. ASSUME WmmNull PROVE RxTypes'
    BY <1>6 DEF WmmNull, Idle, staVars, mapVars, qVars
  <1>7. ASSUME NEW s \in Sta, PollEmpty(s) PROVE RxTypes'
    BY <1>7 DEF PollEmpty, Idle, mapVars, qVars
  <1>8. ASSUME RxPolled PROVE RxTypes'
    <2>1. rx.s \in Sta /\ rx = [pc |-> rx.pc, s |-> rx.s, ac |-> rx.ac, ld |-> rx.ld]
      BY <1>8 DEF RxPolled
    <2>2. CASE rx' = Idle
      BY <2>2 DEF Idle
    <2>3. CASE rx' = [rx EXCEPT !.pc = "pollclr", !.ld = tim]
      BY <2>1, <2>3
    <2> QED BY <2>2, <2>3, <1>8 DEF RxPolled
  <1>9. ASSUME RxPollClear PROVE RxTypes'
    BY <1>9 DEF RxPollClear, SetTim, Idle, staVars, qVars, _update_beacon, NoBeaconUpdate
  <1>10. ASSUME \/ TxGroup \/ TxHal \/ ExpireMarkStore \/ ExpireTim \/ AkaAlive \/ AkaDead
               \/ StaLeft \/ rtw_free_stainfo \/ AgingBeacon \/ FlushBmc \/ NoFlush
               \/ UNCHANGED vars
               \/ (\E x \in Dest, ac \in AC : TxPasses(x, ac) \/ HalTake(x, ac))
               \/ (\E s \in Sta, ac \in AC : TxUnicast(s, ac))
               \/ (\E s \in Sta : PollFrame(s) \/ OnAuth(s) \/ ExpireMark(s)
                        \/ ExpireCheck(s) \/ AuthExpire(s) \/ ExpireAging(s))
               \/ (\E s \in Sta, u \in Uapsd : OnAssocReq(s, u))
        PROVE RxTypes'
    <2> HIDE DEF RxTypes, MapTypes, RxPc, Dest
    <2>1. UNCHANGED <<rx>>
      BY <1>10, Zenon DEF TxPasses, TxGroup, TxUnicast, TxHal, HalTake, PollFrame, OnAuth,
         OnAssocReq, ExpireMark, ExpireMarkStore, ExpireTim, ExpireCheck, AkaAlive, AkaDead,
         StaLeft, AuthExpire, rtw_free_stainfo, ExpireAging, AgingBeacon, FlushBmc, NoFlush,
         mapVars, qVars, staVars, vars
    <2> QED BY <2>1 DEF RxTypes, MapTypes, RxPc, Dest
  <1> QED BY <1>1, <1>2, <1>3, <1>4, <1>5, <1>6, <1>7, <1>8, <1>9, <1>10, Zenon DEF Steps

LEMMA CmdTypesStep ==
  ASSUME StaTypes, MapTypes, CmdTypes, [Steps]_vars
  PROVE  CmdTypes'
  <1> USE SleepAssumption DEF StaTypes, CmdTypes, MapTypes, CmdPc, Dest
  <1>1. ASSUME NEW s \in Sta, ExpireMark(s) PROVE CmdTypes'
    BY <1>1 DEF ExpireMark, Idle, staVars, mapVars, qVars
  <1>2. ASSUME ExpireMarkStore PROVE CmdTypes'
    BY <1>2 DEF ExpireMarkStore, mapVars, qVars
  <1>3. ASSUME ExpireTim PROVE CmdTypes'
    BY <1>3 DEF ExpireTim, SetTim, staVars, qVars, _update_beacon, NoBeaconUpdate
  <1>4. ASSUME NEW s \in Sta, ExpireCheck(s) PROVE CmdTypes'
    BY <1>4 DEF ExpireCheck, Idle, staVars, mapVars, qVars
  <1>5. ASSUME AkaAlive PROVE CmdTypes'
    BY <1>5 DEF AkaAlive, Idle, staVars, mapVars, qVars
  <1>6. ASSUME AkaDead PROVE CmdTypes'
    BY <1>6 DEF AkaDead, mapVars, qVars
  <1>7. ASSUME StaLeft PROVE CmdTypes'
    BY <1>7 DEF StaLeft, SetTim, staVars, qVars, _update_beacon, NoBeaconUpdate
  <1>8. ASSUME NEW s \in Sta, AuthExpire(s) PROVE CmdTypes'
    BY <1>8 DEF AuthExpire, Idle, staVars, mapVars, qVars
  <1>9. ASSUME rtw_free_stainfo PROVE CmdTypes'
    BY <1>9 DEF rtw_free_stainfo, Idle
  <1>10. ASSUME NEW s \in Sta, ExpireAging(s) PROVE CmdTypes'
    BY <1>10 DEF ExpireAging, wakeup_sta_to_xmit, Idle, DzAfter, TimAfter
  <1>11. ASSUME AgingBeacon PROVE CmdTypes'
    BY <1>11 DEF AgingBeacon, _update_beacon, Idle, staVars, qVars
  <1>12. ASSUME \/ TxGroup \/ TxHal \/ RxBeacon \/ WmmNull \/ RxPolled \/ RxPollClear
               \/ FlushBmc \/ NoFlush \/ UNCHANGED vars
               \/ (\E x \in Dest, ac \in AC : TxPasses(x, ac) \/ HalTake(x, ac))
               \/ (\E s \in Sta, ac \in AC : TxUnicast(s, ac))
               \/ (\E s \in Sta, ac \in AC \cup {None} : RxSleeps(s, ac) \/ RxWakes(s, ac)
                        \/ RxTrigger(s, ac))
               \/ (\E s \in Sta : WmmDeliver(s) \/ PollFrame(s) \/ PollEmpty(s) \/ OnAuth(s))
               \/ (\E s \in Sta, u \in Uapsd : OnAssocReq(s, u))
        PROVE CmdTypes'
    <2> HIDE DEF StaTypes, CmdTypes, MapTypes, CmdPc, Dest
    <2>1. UNCHANGED <<cmd>>
      BY <1>12, Zenon DEF TxPasses, TxGroup, TxUnicast, TxHal, HalTake, RxSleeps, RxWakes,
         RxTrigger, RxBeacon, WmmDeliver, WmmNull, PollFrame, PollEmpty, RxPolled, RxPollClear,
         OnAuth, OnAssocReq, FlushBmc, NoFlush, mapVars, qVars, staVars, vars
    <2> QED BY <2>1 DEF StaTypes, CmdTypes, MapTypes, CmdPc, Dest
  <1> QED BY <1>1, <1>2, <1>3, <1>4, <1>5, <1>6, <1>7, <1>8, <1>9, <1>10, <1>11, <1>12,
         Zenon DEF Steps

LEMMA HistoryTypesStep ==
  ASSUME Types, HistoryTypes, [Steps]_vars
  PROVE  HistoryTypes'
  <1> USE SleepAssumption DEF Types, StaTypes, MapTypes, RxTypes, CmdTypes, HistoryTypes, Lost,
         Dest
  <1>1. ASSUME NEW x \in Dest, NEW ac \in AC, TxPasses(x, ac) PROVE HistoryTypes'
    BY <1>1 DEF TxPasses, staVars, mapVars, qVars
  <1>2. ASSUME TxHal PROVE HistoryTypes'
    BY <1>2 DEF TxHal, staVars, mapVars
  <1>3. ASSUME NEW s \in Sta, NEW ac \in AC \cup {None}, RxSleeps(s, ac) PROVE HistoryTypes'
    BY <1>3 DEF RxSleeps, stop_sta_xmit, AfterData, Idle, SetTim, _update_beacon, NoBeaconUpdate
  <1>4. ASSUME NEW s \in Sta, PollFrame(s) PROVE HistoryTypes'
    BY <1>4 DEF PollFrame, SetTim, _update_beacon, NoBeaconUpdate
  <1>5. ASSUME RxPolled PROVE HistoryTypes'
    BY <1>5 DEF RxPolled, Idle, staVars, mapVars
  <1>6. ASSUME RxPollClear PROVE HistoryTypes'
    BY <1>6 DEF RxPollClear, SetTim, Idle, staVars, qVars, _update_beacon, NoBeaconUpdate
  <1>7. ASSUME NEW s \in Sta, NEW u \in Uapsd, OnAssocReq(s, u) PROVE HistoryTypes'
    BY <1>7 DEF OnAssocReq, Idle, mapVars, qVars
  <1>8. ASSUME ExpireMarkStore PROVE HistoryTypes'
    BY <1>8 DEF ExpireMarkStore, mapVars, qVars
  <1>9. ASSUME ExpireTim PROVE HistoryTypes'
    BY <1>9 DEF ExpireTim, SetTim, staVars, qVars, _update_beacon, NoBeaconUpdate
  <1>10. ASSUME StaLeft PROVE HistoryTypes'
    BY <1>10 DEF StaLeft, SetTim, staVars, qVars, _update_beacon, NoBeaconUpdate
  <1>11. ASSUME rtw_free_stainfo PROVE HistoryTypes'
    BY <1>11 DEF rtw_free_stainfo, Idle
  <1>12. ASSUME \/ TxGroup \/ RxBeacon \/ WmmNull \/ AkaAlive \/ AkaDead \/ AgingBeacon
               \/ FlushBmc \/ NoFlush \/ UNCHANGED vars
               \/ (\E s \in Sta, ac \in AC : TxUnicast(s, ac))
               \/ (\E x \in Dest, ac \in AC : HalTake(x, ac))
               \/ (\E s \in Sta, ac \in AC \cup {None} : RxWakes(s, ac) \/ RxTrigger(s, ac))
               \/ (\E s \in Sta : WmmDeliver(s) \/ PollEmpty(s) \/ OnAuth(s) \/ ExpireMark(s)
                        \/ ExpireCheck(s) \/ AuthExpire(s) \/ ExpireAging(s))
        PROVE HistoryTypes'
    <2> HIDE DEF Types, StaTypes, MapTypes, RxTypes, CmdTypes, HistoryTypes, Lost, Dest
    <2>1. UNCHANGED <<disturbed, drift, fly>>
      BY <1>12, Zenon DEF TxGroup, TxUnicast, HalTake, RxWakes, RxTrigger, RxBeacon, WmmDeliver,
         WmmNull, PollEmpty, OnAuth, ExpireMark, ExpireCheck, AkaAlive, AkaDead, AuthExpire,
         ExpireAging, AgingBeacon, FlushBmc, NoFlush, TxGroupBuffered, TxUnicastBuffered,
         mapVars, qVars, staVars, vars
    <2> QED BY <2>1 DEF Types, StaTypes, MapTypes, RxTypes, CmdTypes, HistoryTypes, Lost, Dest
  <1> QED BY <1>1, <1>2, <1>3, <1>4, <1>5, <1>6, <1>7, <1>8, <1>9, <1>10, <1>11, <1>12,
         Zenon DEF Steps

LEMMA ArraysStep ==
  ASSUME Arrays, Types, [Steps]_vars
  PROVE  Arrays'
  <1> USE SleepAssumption DEF Arrays
  <1>1. ASSUME TxGroup PROVE Arrays'
    BY <1>1 DEF TxGroup, TxGroupBuffered, staVars, SetTim, _update_beacon, NoBeaconUpdate
  <1>2. ASSUME NEW s \in Sta, NEW ac \in AC, TxUnicast(s, ac) PROVE Arrays'
    BY <1>2 DEF TxUnicast, TxUnicastBuffered, staVars, SetTim, NoBeaconUpdate, _update_beacon
  <1>3. ASSUME TxHal PROVE Arrays'
    BY <1>3 DEF TxHal, staVars, mapVars
  <1>4. ASSUME NEW x \in Dest, NEW ac \in AC, HalTake(x, ac) PROVE Arrays'
    BY <1>4 DEF HalTake, staVars, mapVars
  <1>5. ASSUME NEW s \in Sta, NEW ac \in AC \cup {None}, RxSleeps(s, ac) PROVE Arrays'
    BY <1>5 DEF RxSleeps, stop_sta_xmit, AfterData, Idle, SetTim, _update_beacon, NoBeaconUpdate
  <1>6. ASSUME NEW s \in Sta, NEW ac \in AC \cup {None}, RxWakes(s, ac) PROVE Arrays'
    BY <1>6 DEF RxWakes, wakeup_sta_to_xmit, AfterData, Idle, DzAfter, TimAfter
  <1>7. ASSUME NEW s \in Sta, WmmDeliver(s) PROVE Arrays'
    BY <1>7 DEF WmmDeliver, xmit_delivery_enabled_frames, Idle, staVars, SetTim, _update_beacon,
         NoBeaconUpdate
  <1>8. ASSUME NEW s \in Sta, PollFrame(s) PROVE Arrays'
    BY <1>8 DEF PollFrame, SetTim, _update_beacon, NoBeaconUpdate
  <1>9. ASSUME RxPolled PROVE Arrays'
    BY <1>9 DEF RxPolled, Idle, staVars, mapVars
  <1>10. ASSUME rtw_free_stainfo PROVE Arrays'
    BY <1>10 DEF rtw_free_stainfo, Idle
  <1>11. ASSUME NEW s \in Sta, ExpireAging(s) PROVE Arrays'
    BY <1>11 DEF ExpireAging, wakeup_sta_to_xmit, Idle, DzAfter, TimAfter
  <1>12. ASSUME FlushBmc PROVE Arrays'
    BY <1>12 DEF FlushBmc, staVars, mapVars
  <1>13. ASSUME \/ RxBeacon \/ WmmNull \/ RxPollClear \/ ExpireMarkStore \/ ExpireTim
               \/ AkaAlive \/ AkaDead \/ StaLeft \/ AgingBeacon \/ NoFlush \/ UNCHANGED vars
               \/ (\E x \in Dest, ac \in AC : TxPasses(x, ac))
               \/ (\E s \in Sta, ac \in AC \cup {None} : RxTrigger(s, ac))
               \/ (\E s \in Sta : PollEmpty(s) \/ OnAuth(s) \/ ExpireMark(s)
                        \/ ExpireCheck(s) \/ AuthExpire(s))
               \/ (\E s \in Sta, u \in Uapsd : OnAssocReq(s, u))
        PROVE Arrays'
    <2> HIDE DEF Arrays
    <2>1. UNCHANGED <<acLen, len, pend, sleepq>>
      BY <1>13, Zenon DEF TxPasses, RxTrigger, RxBeacon, WmmNull, PollEmpty, RxPollClear, OnAuth,
         OnAssocReq, ExpireMark, ExpireMarkStore, ExpireTim, ExpireCheck, AkaAlive, AkaDead,
         StaLeft, AuthExpire, AgingBeacon, NoFlush, mapVars, qVars, staVars, vars
    <2> QED BY <2>1 DEF Arrays
  <1> QED BY <1>1, <1>2, <1>3, <1>4, <1>5, <1>6, <1>7, <1>8, <1>9, <1>10, <1>11, <1>12, <1>13,
         Zenon DEF Steps

LEMMA Moves ==
  ASSUME Types, QueueTypes, Arrays, Counting, [Steps]_vars
  PROVE  FramesMove
  <1>1. ASSUME \/ TxGroup \/ TxHal
               \/ (\E s \in Sta, ac \in AC : TxUnicast(s, ac))
               \/ (\E x \in Dest, ac \in AC : HalTake(x, ac))
        PROVE  FramesMove
    <2>1. BMC \in Dest /\ Sta \subseteq Dest
      BY DEF Dest
    <2> QED BY <1>1, <2>1, TxMoves, Zenon DEF FramesMove, Types
  <1>2. ASSUME \/ (\E s \in Sta, ac \in AC \cup {None} : RxSleeps(s, ac) \/ RxWakes(s, ac))
               \/ (\E s \in Sta : ExpireAging(s) \/ WmmDeliver(s) \/ PollFrame(s))
        PROVE  FramesMove
    <2>1. None \in AC \cup {None}
      OBVIOUS
    <2> QED BY <1>2, <2>1, RxMoves, Zenon DEF FramesMove
  <1>3. ASSUME \/ FlushBmc \/ RxPolled \/ rtw_free_stainfo
               \/ (\E x \in Dest, ac \in AC : TxPasses(x, ac))
        PROVE  FramesMove
    BY <1>3, OtherMoves, Zenon DEF FramesMove, Types
  <1>4. ASSUME \/ RxBeacon \/ WmmNull \/ RxPollClear \/ ExpireMarkStore \/ ExpireTim
               \/ AkaAlive \/ AkaDead \/ StaLeft \/ AgingBeacon \/ NoFlush \/ UNCHANGED vars
               \/ (\E s \in Sta, ac \in AC \cup {None} : RxTrigger(s, ac))
               \/ (\E s \in Sta : PollEmpty(s) \/ OnAuth(s) \/ ExpireMark(s)
                        \/ ExpireCheck(s) \/ AuthExpire(s))
               \/ (\E s \in Sta, u \in Uapsd : OnAssocReq(s, u))
        PROVE  FramesMove
    <2>1. UNCHANGED <<acLen, fly, len, pend, sleepq>>
      BY <1>4, Zenon DEF RxTrigger, RxBeacon, WmmNull, PollEmpty, RxPollClear, OnAuth,
         OnAssocReq, ExpireMark, ExpireMarkStore, ExpireTim, ExpireCheck, AkaAlive, AkaDead,
         StaLeft, AuthExpire, AgingBeacon, NoFlush, mapVars, qVars, staVars, vars
    <2> QED BY <2>1 DEF FramesMove, FramesStay, Settles, Same
  <1> QED BY <1>1, <1>2, <1>3, <1>4, Zenon DEF Steps

LEMMA Tracks ==
  ASSUME Types, Arrays, Counting, [Steps]_vars
  PROVE  \A x \in Dest : Tracked(x)
  <1>1. ASSUME NEW s \in Sta, NEW ac \in AC \cup {None}, RxSleeps(s, ac)
        PROVE  \A z \in Dest : Tracked(z)
    <2>1. disturbed \subseteq disturbed' /\ drift \subseteq drift' /\ uapsd' = uapsd
      BY <1>1 DEF RxSleeps, stop_sta_xmit, AfterData, Idle, SetTim, _update_beacon, NoBeaconUpdate
    <2> QED BY <2>1 DEF Tracked, Cats
  <1>2. ASSUME NEW s \in Sta, PollFrame(s) PROVE \A z \in Dest : Tracked(z)
    <2>1. disturbed \subseteq disturbed' /\ drift \subseteq drift' /\ uapsd' = uapsd
      BY <1>2 DEF PollFrame, SetTim, _update_beacon, NoBeaconUpdate
    <2> QED BY <2>1 DEF Tracked, Cats
  <1>3. ASSUME RxPolled PROVE \A z \in Dest : Tracked(z)
    <2>1. disturbed \subseteq disturbed' /\ drift \subseteq drift' /\ uapsd' = uapsd
      BY <1>3 DEF RxPolled, Idle, staVars, mapVars
    <2> QED BY <2>1 DEF Tracked, Cats
  <1>4. ASSUME RxPollClear PROVE \A z \in Dest : Tracked(z)
    <2>1. disturbed \subseteq disturbed' /\ drift \subseteq drift' /\ uapsd' = uapsd
      BY <1>4 DEF RxPollClear, SetTim, Idle, staVars, qVars, _update_beacon, NoBeaconUpdate
    <2> QED BY <2>1 DEF Tracked, Cats
  <1>5. ASSUME NEW s \in Sta, NEW u \in Uapsd, OnAssocReq(s, u) PROVE \A z \in Dest : Tracked(z)
    <2>1. ASSUME NEW z \in Dest PROVE Tracked(z)
      <3>1. /\ disturbed \subseteq disturbed' /\ drift' = drift /\ uapsd' = [uapsd EXCEPT ![s] = u]
            /\ UNCHANGED <<sleepq, len, acLen, pend>>
            /\ uapsd[s] # u /\ (sleepq[s] # <<>> \/ acLen[s] # 0) => s \in disturbed'
        BY <1>5 DEF OnAssocReq, qVars
      <3>2. CASE z = s /\ uapsd[s] # u
        BY <3>1, <3>2 DEF Tracked, Same
      <3>3. CASE z # s \/ uapsd[s] = u
        BY <3>1, <3>3 DEF Tracked, Cats, Types, StaTypes
      <3> QED BY <3>2, <3>3
    <2> QED BY <2>1
  <1>6. ASSUME ExpireMarkStore PROVE \A z \in Dest : Tracked(z)
    <2>1. disturbed \subseteq disturbed' /\ drift \subseteq drift' /\ uapsd' = uapsd
      BY <1>6 DEF ExpireMarkStore, mapVars, qVars
    <2> QED BY <2>1 DEF Tracked, Cats
  <1>7. ASSUME ExpireTim PROVE \A z \in Dest : Tracked(z)
    <2>1. disturbed \subseteq disturbed' /\ drift \subseteq drift' /\ uapsd' = uapsd
      BY <1>7 DEF ExpireTim, SetTim, staVars, qVars, _update_beacon, NoBeaconUpdate
    <2> QED BY <2>1 DEF Tracked, Cats
  <1>8. ASSUME StaLeft PROVE \A z \in Dest : Tracked(z)
    <2>1. disturbed \subseteq disturbed' /\ drift \subseteq drift' /\ uapsd' = uapsd
      BY <1>8 DEF StaLeft, SetTim, staVars, qVars, _update_beacon, NoBeaconUpdate
    <2> QED BY <2>1 DEF Tracked, Cats
  <1>9. ASSUME rtw_free_stainfo PROVE \A z \in Dest : Tracked(z)
    <2>1. cmd.s \in Sta
      BY <1>9 DEF rtw_free_stainfo, Types, CmdTypes
    <2>2. PICK s \in Sta : s = cmd.s
      BY <2>1
    <2>3. /\ sleepq' = [sleepq EXCEPT ![s] = <<>>] /\ len' = [len EXCEPT ![s] = 0]
          /\ acLen' = [acLen EXCEPT ![s] = 0] /\ pend' = [pend EXCEPT ![s] = NoPend]
          /\ uapsd' = [uapsd EXCEPT ![s] = {}] /\ disturbed \ {s} \subseteq disturbed'
          /\ drift' = drift \ {s}
      BY <1>9, <2>2 DEF rtw_free_stainfo
    <2>4. Freed(s)
      BY <2>3 DEF Freed, Arrays, Dest
    <2>5. \A z \in Dest \ {s} : Tracked(z)
      BY <2>3 DEF Tracked, Cats, Types, StaTypes
    <2> QED BY <2>4, <2>5 DEF Tracked
  <1>10. ASSUME \/ TxGroup \/ TxHal \/ RxBeacon \/ WmmNull \/ AkaAlive \/ AkaDead \/ AgingBeacon
               \/ FlushBmc \/ NoFlush \/ UNCHANGED vars
               \/ (\E x \in Dest, ac \in AC : TxPasses(x, ac) \/ HalTake(x, ac))
               \/ (\E s \in Sta, ac \in AC : TxUnicast(s, ac))
               \/ (\E s \in Sta, ac \in AC \cup {None} : RxWakes(s, ac) \/ RxTrigger(s, ac))
               \/ (\E s \in Sta : WmmDeliver(s) \/ PollEmpty(s) \/ OnAuth(s) \/ ExpireMark(s)
                        \/ ExpireCheck(s) \/ AuthExpire(s) \/ ExpireAging(s))
        PROVE  \A z \in Dest : Tracked(z)
    <2>1. UNCHANGED <<disturbed, drift, uapsd>>
      BY <1>10, Zenon DEF TxPasses, TxGroup, TxUnicast, TxHal, HalTake, RxWakes, RxTrigger,
         RxBeacon, WmmDeliver, WmmNull, PollEmpty, OnAuth, ExpireMark, ExpireCheck, AkaAlive,
         AkaDead, AuthExpire, ExpireAging, AgingBeacon, FlushBmc, NoFlush, wakeup_sta_to_xmit,
         mapVars, qVars, staVars, vars
    <2> QED BY <2>1 DEF Tracked, Cats
  <1> QED BY <1>1, <1>2, <1>3, <1>4, <1>5, <1>6, <1>7, <1>8, <1>9, <1>10, Zenon DEF Steps

-----------------------------------------------------------------------------
(* The counts                                                              *)

LEMMA CountSplit ==
  ASSUME NEW q \in Seq(AC), NEW A
  PROVE  Count(q, A) + Count(q, AC \ A) = Len(q)
  <1>1. /\ Places(q, A) \cup Places(q, AC \ A) = 1..Len(q)
        /\ Places(q, A) \cap Places(q, AC \ A) = {}
        /\ Len(q) \in Nat
    BY DEF Places, Upto
  <1>2. IsFiniteSet(Places(q, A)) /\ IsFiniteSet(Places(q, AC \ A))
    BY PlacesFinite
  <1>3. Cardinality(Places(q, A) \cup Places(q, AC \ A))
          = Cardinality(Places(q, A)) + Cardinality(Places(q, AC \ A))
            - Cardinality(Places(q, A) \cap Places(q, AC \ A))
    BY <1>2, FS_Union, Zenon
  <1>4. Cardinality(1..Len(q)) = Len(q)
    <2>1. 1 \in Int /\ Len(q) \in Int
      BY <1>1
    <2>2. Cardinality(1..Len(q)) = IF 1 > Len(q) THEN 0 ELSE Len(q) - 1 + 1
      BY <2>1, FS_Interval, Zenon
    <2> QED BY <1>1, <2>2
  <1>5. Count(q, A) \in Nat /\ Count(q, AC \ A) \in Nat
    BY PlacesFinite
  <1>6. Cardinality(Places(q, A) \cap Places(q, AC \ A)) = 0
    BY <1>1, FS_EmptySet, Zenon
  <1>7. Count(q, A) = Cardinality(Places(q, A))
        /\ Count(q, AC \ A) = Cardinality(Places(q, AC \ A))
        /\ Cardinality(Places(q, A) \cup Places(q, AC \ A)) = Len(q)
    BY <1>1, <1>4 DEF Count
  <1> QED BY <1>1, <1>3, <1>5, <1>6, <1>7

LenExact(x) == x \notin disturbed => len[x] = Len(sleepq[x])
AcExact(x) ==
  x \in Sta /\ x \notin disturbed \cup drift => acLen[x] = Count(sleepq[x], Cats(x))

LEMMA NumbersKept ==
  ASSUME NEW x \in Dest, Numbers(x), Settles(x) \/ Grows(x)
  PROVE  Numbers(x)'
  <1>1. 0 \in 0..U32 - 1
    BY SleepAssumption
  <1>2. NoPend \in [AC -> Nat]
    BY DEF NoPend
  <1>3. \A i, j \in Nat : Plus(i, j) \in 0..U32 - 1 /\ Minus(i, j) \in 0..U32 - 1
    BY Modulo DEF Plus, Minus
  <1>4. \A q : Count(q, Cats(x)) \in Nat \/ q \notin Seq(AC)
    BY PlacesFinite
  <1>5. /\ \A q \in Seq(AC) : Adding(pend[x], q) \in [AC -> Nat]
        /\ Pending(x) \in Seq(AC) /\ <<>> \in Seq(AC)
        /\ \A A : Only(sleepq[x], A) \in Seq(AC)
    <2>1. pend[x] \in [AC -> Nat] /\ sleepq[x] \in Seq(AC) /\ <<>> \in Seq(AC)
      BY DEF Numbers
    <2>2. Pending(x) \in Seq(AC)
      BY <2>1, PendingFacts, Zenon
    <2>3. \A q \in Seq(AC) : Adding(pend[x], q) \in [AC -> Nat]
      BY <2>1, AddingFacts, Zenon
    <2>4. \A A : Only(sleepq[x], A) \in Seq(AC)
      BY <2>1, OnlyFacts, Zenon
    <2> QED BY <2>1, <2>2, <2>3, <2>4, Zenon
  <1>6. len[x] \in Nat /\ acLen[x] \in Nat /\ \A q \in Seq(AC) : Len(q) \in Nat
    BY SleepAssumption DEF Numbers
  <1>7. CASE Same(x) \/ Zeroed(x) \/ Freed(x)
    <2>1. /\ sleepq'[x] \in {sleepq[x], <<>>} /\ pend'[x] \in {pend[x], NoPend}
          /\ len'[x] \in {len[x], 0} /\ acLen'[x] \in {acLen[x], 0}
      BY <1>7 DEF Same, Zeroed, Freed
    <2>2. <<>> \in Seq(AC)
      OBVIOUS
    <2> QED BY <1>1, <1>2, <2>1, <2>2, Zenon DEF Numbers
  <1>8. CASE Taken(x) \/ Sent(x)
    <2>1. sleepq'[x] = sleepq[x] /\ len'[x] = len[x] /\ acLen'[x] = acLen[x]
      BY <1>8 DEF Taken, Sent
    <2>2. pend[x] \in [AC -> Nat]
      BY DEF Numbers
    <2>3. pend'[x] \in [AC -> Nat]
      <3>1. CASE Taken(x)
        BY <2>2, <3>1 DEF Taken
      <3>2. CASE Sent(x)
        BY <2>2, <3>2 DEF Sent
      <3> QED BY <1>8, <3>1, <3>2
    <2> QED BY <2>1, <2>3, Zenon DEF Numbers
  <1>9. CASE Slept(x)
    <2>1. PICK q \in Seq(AC) :
            /\ sleepq'[x] = sleepq[x] \o q
            /\ len'[x] = Plus(len[x], Len(q))
            /\ AcLenIs(x, Plus(acLen[x], Count(q, Cats(x))))
            /\ pend'[x] = NoPend \/ (q = <<>> /\ pend'[x] = pend[x])
      BY <1>5, <1>9 DEF Slept
    <2>2. len'[x] \in 0..U32 - 1 /\ acLen'[x] \in 0..U32 - 1
      BY <1>3, <1>4, <1>6, <2>1 DEF AcLenIs, Numbers
    <2>3. sleepq'[x] \in Seq(AC) /\ pend'[x] \in [AC -> Nat]
      BY <1>2, <2>1 DEF Numbers
    <2> QED BY <2>2, <2>3 DEF Numbers
  <1>10. CASE Emptied(x)
    BY <1>3, <1>4, <1>5, <1>6, <1>10 DEF Emptied, AcLenIs, Numbers
  <1>11. CASE Delivered(x)
    BY <1>3, <1>5, <1>6, <1>11 DEF Delivered, AcLenIs, Numbers
  <1>12. CASE Polled(x)
    <2>1. Tail(sleepq[x]) \in Seq(AC) /\ Head(sleepq[x]) \in AC
      BY <1>12 DEF Polled, Numbers
    <2>2. pend'[x] \in [AC -> Nat]
      <3>1. PICK c \in AC : c = Head(sleepq[x])
        BY <2>1
      <3>2. pend'[x] = [pend[x] EXCEPT ![c] = @ + 1] /\ pend[x] \in [AC -> Nat]
        BY <1>12, <3>1 DEF Polled, Numbers
      <3> QED BY <3>2
    <2>3. 1 \in Nat /\ sleepq'[x] \in Seq(AC) /\ acLen'[x] = acLen[x] /\ len'[x] = Minus(len[x], 1)
      BY <1>12, <2>1 DEF Polled
    <2> QED BY <1>3, <1>6, <2>2, <2>3, Zenon DEF Numbers
  <1>13. CASE Buffered(x)
    <2>1. PICK c \in AC : /\ sleepq'[x] = Append(sleepq[x], c)
                          /\ acLen'[x] \in {acLen[x], Plus(acLen[x], 1)}
      BY <1>13 DEF Buffered, AcLenIs
    <2>2. sleepq'[x] \in Seq(AC)
      BY <2>1 DEF Numbers
    <2>3. 1 \in Nat /\ pend'[x] = pend[x] /\ len'[x] = Plus(len[x], 1)
      BY <1>13 DEF Buffered
    <2> QED BY <1>3, <1>6, <2>1, <2>2, <2>3, Zenon DEF Numbers
  <1> QED BY <1>7, <1>8, <1>9, <1>10, <1>11, <1>12, <1>13, Zenon DEF Settles, Grows

-----------------------------------------------------------------------------
(* No step takes more frames than the pool has                             *)

LEMMA FrameSetMono ==
  ASSUME NEW l \in Nat, NEW m \in Nat, NEW p \in [AC -> Nat], NEW r \in [AC -> Nat],
         l <= m, \A c \in AC : p[c] <= r[c]
  PROVE  FrameSet(l, p) \subseteq FrameSet(m, r)
  <1>1. ASSUME NEW f \in FrameSet(l, p) PROVE f \in FrameSet(m, r)
    <2>1. (\E i \in 1..l : f = <<0, i>>) \/ \E c \in AC : \E i \in 1..p[c] : f = <<c, i>>
      BY FrameIn
    <2>2. CASE \E i \in 1..l : f = <<0, i>>
      <3>1. PICK i \in 1..l : f = <<0, i>>
        BY <2>2
      <3>2. i \in 1..m
        OBVIOUS
      <3> QED BY <3>1, <3>2, FrameIn, Zenon
    <2>3. CASE \E c \in AC : \E i \in 1..p[c] : f = <<c, i>>
      <3>1. PICK c \in AC : \E i \in 1..p[c] : f = <<c, i>>
        BY <2>3
      <3>2. PICK i \in 1..p[c] : f = <<c, i>>
        BY <3>1
      <3>3. i \in 1..r[c]
        <4>1. p[c] \in Nat /\ r[c] \in Nat /\ p[c] <= r[c]
          OBVIOUS
        <4> QED BY <4>1
      <3> QED BY <3>2, <3>3, FrameIn, Zenon
    <2> QED BY <2>1, <2>2, <2>3
  <1> QED BY <1>1

LEMMA FitsStay ==
  ASSUME NEW x \in Dest, Numbers(x), Settles(x)
  PROVE  Fits(Frames(x)', Frames(x))
  <1>1. PICK q \in Seq(AC), p \in [AC -> Nat] : q = sleepq[x] /\ p = pend[x]
    BY DEF Numbers
  <1>2. /\ Frames(x) = FrameSet(Len(q), p)
        /\ Frames(x)' = FrameSet(Len(sleepq'[x]), pend'[x])
    BY <1>1, FramesAre, Zenon
  <1>3. /\ Len(q) \in Nat /\ NoPend \in [AC -> Nat] /\ Len(<<>>) = 0 /\ 0 \in Nat /\ 0 <= Len(q)
        /\ \A c \in AC : NoPend[c] <= p[c]
    BY DEF NoPend
  <1>4. CASE Same(x) \/ Zeroed(x)
    <2>1. Frames(x)' \subseteq Frames(x)
      BY <1>1, <1>2, <1>4 DEF Same, Zeroed
    <2> QED BY <2>1, FitsSubset
  <1>5. CASE Taken(x)
    <2>1. PICK c \in AC : p[c] > 0 /\ pend'[x] = [p EXCEPT ![c] = @ - 1]
      BY <1>1, <1>5 DEF Taken
    <2>2. PICK r : r = pend'[x]
      OBVIOUS
    <2>3. r \in [AC -> Nat] /\ \A d \in AC : r[d] <= p[d]
      BY <2>1, <2>2
    <2>4. Len(q) <= Len(q) /\ sleepq'[x] = q
      BY <1>1, <1>3, <1>5 DEF Taken
    <2>5. FrameSet(Len(q), r) \subseteq FrameSet(Len(q), p)
      BY <1>3, <2>3, <2>4, FrameSetMono
    <2> QED BY <1>2, <2>2, <2>4, <2>5, FitsSubset
  <1>6. CASE Slept(x)
    <2>1. PICK s \in {Pending(x), <<>>} :
            /\ sleepq'[x] = q \o s
            /\ pend'[x] = NoPend \/ (s = <<>> /\ pend'[x] = p)
      BY <1>1, <1>6 DEF Slept
    <2>2. CASE s = <<>>
      <3>1. sleepq'[x] = q /\ pend'[x] \in {NoPend, p}
        BY <2>1, <2>2
      <3>2. FrameSet(Len(q), NoPend) \subseteq FrameSet(Len(q), p)
        <4>1. Len(q) <= Len(q)
          BY <1>3
        <4> QED BY <1>3, <4>1, FrameSetMono
      <3>3. Frames(x)' \subseteq Frames(x)
        BY <1>2, <3>1, <3>2
      <3> QED BY <3>3, FitsSubset
    <2>3. CASE s # <<>>
      <3>1. s = Pending(x) /\ pend'[x] = NoPend
        BY <2>1, <2>3
      <3>2. s \in Seq(AC)
        BY <1>1, <3>1, PendingFacts
      <3>3. Len(sleepq'[x]) = Len(q) + Len(s)
        BY <2>1, <3>2
      <3>4. Fits(FrameSet(Len(q) + Len(Pending(x)), NoPend), FrameSet(Len(q), pend[x]))
        BY <1>1, <1>3, SleepFits
      <3> QED BY <1>1, <1>2, <3>1, <3>3, <3>4
    <2> QED BY <2>2, <2>3
  <1>7. CASE Emptied(x)
    <2>1. sleepq'[x] = <<>> /\ pend'[x] = Adding(p, q)
      BY <1>1, <1>7 DEF Emptied
    <2>2. Fits(FrameSet(0, Adding(p, q)), FrameSet(Len(q), p))
      BY WakeFits
    <2> QED BY <1>2, <1>3, <2>1, <2>2
  <1>8. CASE Delivered(x)
    <2>1. /\ sleepq'[x] = Only(q, AC \ Cats(x))
          /\ pend'[x] = Adding(p, Only(q, Cats(x)))
      BY <1>1, <1>8 DEF Delivered
    <2>2. Fits(FrameSet(Len(Only(q, AC \ Cats(x))), Adding(p, Only(q, Cats(x)))),
               FrameSet(Len(q), p))
      BY DeliverFits
    <2> QED BY <1>2, <2>1, <2>2
  <1>9. CASE Polled(x)
    <2>1. /\ q # <<>> /\ sleepq'[x] = Tail(q)
          /\ pend'[x] = [p EXCEPT ![Head(q)] = @ + 1]
      BY <1>1, <1>9 DEF Polled
    <2>2. Fits(FrameSet(Len(Tail(q)), [p EXCEPT ![Head(q)] = @ + 1]), FrameSet(Len(q), p))
      BY <2>1, PollFits
    <2> QED BY <1>2, <2>1, <2>2
  <1>10. CASE Freed(x)
    <2>1. sleepq'[x] = <<>> /\ pend'[x] = NoPend
      BY <1>10 DEF Freed
    <2>2. FrameSet(0, NoPend) \subseteq FrameSet(Len(q), p)
      BY <1>3, FrameSetMono
    <2> QED BY <1>2, <1>3, <2>1, <2>2, FitsSubset
  <1> QED BY <1>4, <1>5, <1>6, <1>7, <1>8, <1>9, <1>10, Zenon DEF Settles

LEMMA FramesGrow ==
  ASSUME NEW x \in Dest, Counting, Grows(x), \A z \in Dest \ {x} : Same(z)
  PROVE  \E t : All' \subseteq All \cup {t}
  <1>1. PICK q \in Seq(AC), p \in [AC -> Nat] : q = sleepq[x] /\ p = pend[x]
    BY DEF Counting, Numbers
  <1>2. PICK r : r = pend'[x]
    OBVIOUS
  <1>3. PICK m : m = Len(sleepq'[x])
    OBVIOUS
  <1>4. Frames(x) = FrameSet(Len(q), p) /\ Frames(x)' = FrameSet(m, r)
    BY <1>1, <1>2, <1>3, FramesAre, Zenon
  <1>5. Len(q) \in Nat
    OBVIOUS
  <1>6. \E u : Frames(x)' \subseteq Frames(x) \cup {u}
    <2>1. CASE Buffered(x)
      <3>1. PICK c \in AC : sleepq'[x] = Append(q, c)
        BY <1>1, <2>1 DEF Buffered
      <3>2. m = Len(q) + 1 /\ r = p
        BY <1>1, <1>2, <1>3, <2>1, <3>1 DEF Buffered
      <3>3. ASSUME NEW f \in FrameSet(m, r), f # <<0, m>> PROVE f \in FrameSet(Len(q), p)
        <4>1. m \in Nat
          BY <1>5, <3>2
        <4>2. (\E i \in 1..m : f = <<0, i>>) \/ \E d \in AC : \E i \in 1..p[d] : f = <<d, i>>
          BY <3>2, <3>3, <4>1, FrameIn
        <4>3. CASE \E i \in 1..m : f = <<0, i>>
          <5>1. PICK i \in 1..m : f = <<0, i>>
            BY <4>3
          <5>2. i \in 1..Len(q)
            BY <3>2, <3>3, <5>1, <1>5
          <5> QED BY <1>5, <5>1, <5>2, FrameIn
        <4>4. CASE \E d \in AC : \E i \in 1..p[d] : f = <<d, i>>
          BY <1>5, <4>4, FrameIn
        <4> QED BY <4>2, <4>3, <4>4
      <3>4. Frames(x)' \subseteq Frames(x) \cup {<<0, m>>}
        BY <1>4, <3>3
      <3> QED BY <3>4
    <2>2. CASE Sent(x)
      <3>1. PICK c \in AC : r = [p EXCEPT ![c] = @ + 1]
        BY <1>1, <1>2, <2>2 DEF Sent
      <3>2. m = Len(q) /\ r \in [AC -> Nat] /\ r[c] = p[c] + 1 /\ p[c] \in Nat
            /\ \A d \in AC : d # c => r[d] = p[d]
        BY <1>1, <1>3, <2>2, <3>1 DEF Sent
      <3>3. ASSUME NEW f \in FrameSet(m, r), f # <<c, r[c]>> PROVE f \in FrameSet(Len(q), p)
        <4>1. (\E i \in 1..m : f = <<0, i>>) \/ \E d \in AC : \E i \in 1..r[d] : f = <<d, i>>
          BY <1>5, <3>2, <3>3, FrameIn
        <4>2. CASE \E i \in 1..m : f = <<0, i>>
          BY <1>5, <3>2, <4>2, FrameIn
        <4>3. CASE \E d \in AC : \E i \in 1..r[d] : f = <<d, i>>
          <5>1. PICK d \in AC : \E i \in 1..r[d] : f = <<d, i>>
            BY <4>3
          <5>2. PICK i \in 1..r[d] : f = <<d, i>>
            BY <5>1
          <5>3. i \in 1..p[d]
            <6>1. CASE d = c
              BY <3>2, <3>3, <5>2, <6>1
            <6>2. CASE d # c
              BY <3>2, <6>2
            <6> QED BY <6>1, <6>2
          <5> QED BY <1>5, <5>2, <5>3, FrameIn
        <4> QED BY <4>1, <4>2, <4>3
      <3>4. Frames(x)' \subseteq Frames(x) \cup {<<c, r[c]>>}
        BY <1>4, <3>3
      <3> QED BY <3>4
    <2> QED BY <2>1, <2>2 DEF Grows
  <1>7. PICK u : Frames(x)' \subseteq Frames(x) \cup {u}
    BY <1>6
  <1>8. ASSUME NEW z \in Dest \ {x} PROVE Frames(z)' = Frames(z)
    <2>1. Frames(z) = FrameSet(Len(sleepq[z]), pend[z])
          /\ Frames(z)' = FrameSet(Len(sleepq'[z]), pend'[z])
      BY FramesAre
    <2> QED BY <2>1 DEF Same
  <1>9. All' \subseteq All \cup {<<x, u>>}
    <2>1. ASSUME NEW t \in All' PROVE t \in All \cup {<<x, u>>}
      <3>1. PICK z \in Dest : t \in {z} \X Frames(z)'
        BY DEF All
      <3>2. CASE z = x
        BY <1>7, <3>1, <3>2 DEF All
      <3>3. CASE z # x
        BY <1>8, <3>1, <3>3 DEF All
      <3> QED BY <3>2, <3>3
    <2> QED BY <2>1
  <1> QED BY <1>9

LEMMA PoolStep ==
  ASSUME PoolInv, Counting, FramesMove
  PROVE  PoolInv'
  <1>1. CASE FramesStay
    <2>1. \A x \in Dest : Fits(Frames(x)', Frames(x))
      BY <1>1, FitsStay DEF FramesStay, Counting
    <2>2. CASE fly' = fly \/ fly' = None
      BY <2>1, <2>2, PoolKept
    <2>3. CASE fly = None /\ Used < NR_XMITFRAME /\ \A x \in Dest : Same(x)
      <3>1. ASSUME NEW x \in Dest PROVE Frames(x)' = Frames(x)
        <4>1. Frames(x) = FrameSet(Len(sleepq[x]), pend[x])
              /\ Frames(x)' = FrameSet(Len(sleepq'[x]), pend'[x])
          BY FramesAre
        <4> QED BY <2>3, <4>1 DEF Same
      <3>2. All' = All
        BY <3>1 DEF All
      <3>3. Cardinality(All) \in Nat /\ Used' = Cardinality(All') + (IF fly' = None THEN 0 ELSE 1)
        <4>1. Cardinality(All) \in Nat
          BY FS_CardinalityType, Zenon DEF PoolInv
        <4> QED BY <4>1 DEF Used, All
      <3> QED BY <2>3, <3>2, <3>3, UsedIs, SleepAssumption DEF PoolInv
    <2> QED BY <1>1, <2>2, <2>3 DEF FramesStay
  <1>2. CASE \E x \in Dest : OneMore(x)
    <2>1. PICK x \in Dest : OneMore(x)
      BY <1>2
    <2>2. PICK t : All' \subseteq All \cup {t}
      BY <2>1, FramesGrow DEF OneMore, Grows
    <2> QED BY <2>1, <2>2, PoolMore DEF OneMore
  <1> QED BY <1>1, <1>2 DEF FramesMove

-----------------------------------------------------------------------------
(* The counts stay exact                                                   *)

LEMMA BoundAfter ==
  ASSUME PoolInv', Counting', NEW x \in Dest
  PROVE  Len(sleepq'[x]) \in 0..U32 - 1
  <1> DEFINE n == Len(sleepq'[x])
             f == [i \in 1..n |-> <<x, <<0, i>>>>]
  <1>1. n \in Nat /\ pend'[x] \in [AC -> Nat]
    BY DEF Counting, Numbers
  <1>2. \A i \in 1..n : <<x, <<0, i>>>> \in All'
    <2>1. ASSUME NEW i \in 1..n PROVE <<x, <<0, i>>>> \in All'
      <3>1. <<0, i>> \in FrameSet(n, pend'[x])
        BY <1>1, FrameIn
      <3>2. <<x, <<0, i>>>> \in {x} \X Frames(x)'
        BY <3>1, FramesAre
      <3> QED BY <3>2 DEF All
    <2> QED BY <2>1
  <1> HIDE DEF n
  <1>3. Traces(f, 1..n, All')
    BY <1>2 DEF Traces
  <1>4. Cardinality(1..n) <= Cardinality(All') /\ Cardinality(All') \in Nat
    BY <1>3, FitsFinite, FS_CardinalityType DEF Fits, PoolInv
  <1>5. Cardinality(1..n) = n
    BY <1>1, FS_Interval
  <1>6. Used' = Cardinality(All') + (IF fly' = None THEN 0 ELSE 1)
    BY DEF Used, All
  <1> QED BY <1>1, <1>4, <1>5, <1>6, SleepAssumption DEF PoolInv, n

\* Where a count is exact, so is the number a step leaves.
LEMMA Exact ==
  ASSUME NEW n \in Nat, NEW k \in Nat
  PROVE  /\ n + k \in 0..U32 - 1 => Plus(n, k) = n + k
         /\ n - k \in 0..U32 - 1 => Minus(n, k) = n - k
  BY Modulo DEF Plus, Minus

LEMMA LenStep ==
  ASSUME NEW x \in Dest, Numbers(x), LenExact(x), Settles(x) \/ Grows(x), Tracked(x),
         Len(sleepq'[x]) \in 0..U32 - 1
  PROVE  LenExact(x)'
  <1>1. PICK q \in Seq(AC) : q = sleepq[x]
    BY DEF Numbers
  <1>2. CASE Freed(x)
    BY <1>2 DEF Freed, LenExact
  <1>3. SUFFICES ASSUME ~Freed(x), x \notin disturbed' PROVE len'[x] = Len(sleepq'[x])
    BY <1>2 DEF LenExact
  <1>4. len[x] = Len(q) /\ Len(q) \in Nat
    BY <1>1, <1>3 DEF Tracked, LenExact
  <1>5. CASE Same(x) \/ Taken(x) \/ Sent(x)
    BY <1>1, <1>4, <1>5 DEF Same, Taken, Sent
  <1>6. CASE Buffered(x)
    <2>1. Len(sleepq'[x]) = Len(q) + 1 /\ len'[x] = Plus(len[x], 1)
      BY <1>1, <1>6 DEF Buffered
    <2> QED BY <1>4, <2>1, Exact
  <1>7. CASE Slept(x)
    <2>1. PICK s \in {Pending(x), <<>>} :
            sleepq'[x] = q \o s /\ len'[x] = Plus(len[x], Len(s))
      BY <1>1, <1>7 DEF Slept
    <2>2. s \in Seq(AC)
      <3>1. Pending(x) \in Seq(AC)
        BY PendingFacts DEF Numbers
      <3>2. <<>> \in Seq(AC)
        OBVIOUS
      <3> QED BY <3>1, <3>2, Zenon
    <2>3. Len(sleepq'[x]) = Len(q) + Len(s) /\ Len(s) \in Nat
      BY <2>1, <2>2
    <2> QED BY <1>4, <2>1, <2>3, Exact
  <1>8. CASE Emptied(x)
    <2>1. sleepq'[x] = <<>> /\ len'[x] = Minus(len[x], Len(q))
      BY <1>1, <1>8 DEF Emptied
    <2>2. Len(q) - Len(q) \in 0..U32 - 1 /\ Len(q) - Len(q) = 0 /\ Len(<<>>) = 0
      BY <1>4, SleepAssumption
    <2> QED BY <1>4, <2>1, <2>2, Exact
  <1>9. CASE Delivered(x)
    <2>1. PICK s, r : s = Only(q, Cats(x)) /\ r = Only(q, AC \ Cats(x))
      OBVIOUS
    <2>2. Len(s) + Len(r) = Len(q) /\ Len(s) \in Nat /\ Len(r) \in Nat
      <3>1. Len(s) = Count(q, Cats(x)) /\ Len(r) = Count(q, AC \ Cats(x))
        BY <2>1, CountOnly
      <3>2. Count(q, Cats(x)) + Count(q, AC \ Cats(x)) = Len(q)
        BY CountSplit, Zenon
      <3>3. s \in Seq(AC) /\ r \in Seq(AC)
        BY <2>1, OnlyFacts
      <3> QED BY <3>1, <3>2, <3>3
    <2>3. sleepq'[x] = r /\ len'[x] = Minus(len[x], Len(s))
      BY <1>1, <1>9, <2>1 DEF Delivered
    <2>4. Len(q) - Len(s) = Len(r)
      BY <1>4, <2>2
    <2> QED BY <1>4, <2>2, <2>3, <2>4, Exact
  <1>10. CASE Polled(x)
    <2>1. q # <<>> /\ sleepq'[x] = Tail(q) /\ len'[x] = Minus(len[x], 1)
      BY <1>1, <1>10 DEF Polled
    <2>2. Len(Tail(q)) = Len(q) - 1
      BY <2>1
    <2> QED BY <1>4, <2>1, <2>2, Exact
  <1>11. CASE Zeroed(x)
    BY <1>1, <1>3, <1>4, <1>11 DEF Zeroed
  <1> QED BY <1>3, <1>5, <1>6, <1>7, <1>8, <1>9, <1>10, <1>11, Zenon DEF Settles, Grows

LEMMA AcStep ==
  ASSUME NEW x \in Dest, Numbers(x), AcExact(x), Settles(x) \/ Grows(x), Tracked(x),
         Len(sleepq'[x]) \in 0..U32 - 1
  PROVE  AcExact(x)'
  <1>1. PICK q \in Seq(AC) : q = sleepq[x]
    BY DEF Numbers
  <1>2. \A A : Count(<<>>, A) = 0
    BY CountEmpty
  <1>3. CASE Freed(x)
    <2>1. acLen'[x] = 0 /\ sleepq'[x] = <<>>
      BY <1>3 DEF Freed
    <2> QED BY <1>2, <2>1, Zenon DEF AcExact
  <1>4. SUFFICES ASSUME ~Freed(x), x \in Sta, x \notin disturbed', x \notin drift'
                 PROVE  acLen'[x] = Count(sleepq'[x], Cats(x)')
    BY <1>3, Zenon DEF AcExact
  <1>5. PICK A : A = Cats(x)
    OBVIOUS
  <1>6. /\ acLen[x] = Count(q, A) /\ Count(q, A) \in Nat /\ Len(q) \in Nat
        /\ Count(q, A) <= Len(q)
    <2>1. acLen[x] = Count(q, A)
      BY <1>1, <1>4, <1>5 DEF Tracked, AcExact
    <2>2. Count(q, A) \in 0..Len(q)
      BY PlacesFinite
    <2> QED BY <2>1, <2>2
  <1>7. CASE Same(x) /\ sleepq[x] = <<>> /\ acLen[x] = 0
    <2>1. acLen'[x] = 0 /\ sleepq'[x] = <<>>
      BY <1>7 DEF Same
    <2> QED BY <1>2, <2>1
  <1>8. SUFFICES ASSUME Cats(x)' = A PROVE acLen'[x] = Count(sleepq'[x], A)
    BY <1>4, <1>5, <1>7 DEF Tracked
  <1>9. CASE Same(x) \/ Taken(x) \/ Sent(x) \/ Zeroed(x)
    BY <1>1, <1>6, <1>9 DEF Same, Taken, Sent, Zeroed
  <1>10. CASE Buffered(x)
    <2>1. PICK c \in AC : /\ sleepq'[x] = Append(q, c)
                          /\ acLen'[x] = IF c \in A THEN Plus(acLen[x], 1) ELSE acLen[x]
      BY <1>1, <1>4, <1>5, <1>10 DEF Buffered, AcLenIs
    <2>2. Count(Append(q, c), A) = Count(q, A) + (IF c \in A THEN 1 ELSE 0)
      BY CountAppend
    <2>3. Len(sleepq'[x]) = Len(q) + 1
      BY <2>1
    <2>4. CASE c \in A
      <3>1. Count(q, A) + 1 \in 0..U32 - 1 /\ acLen'[x] = Plus(Count(q, A), 1)
            /\ Count(sleepq'[x], A) = Count(q, A) + 1
        BY <1>6, <2>1, <2>2, <2>3, <2>4, SleepAssumption
      <3> QED BY <1>6, <3>1, Exact
    <2>5. CASE c \notin A
      BY <1>6, <2>1, <2>2, <2>5
    <2> QED BY <2>4, <2>5
  <1>11. CASE Slept(x)
    <2>1. PICK s \in {Pending(x), <<>>} :
            sleepq'[x] = q \o s /\ acLen'[x] = Plus(acLen[x], Count(s, A))
      BY <1>1, <1>4, <1>5, <1>11 DEF Slept, AcLenIs
    <2>2. s \in Seq(AC)
      <3>1. Pending(x) \in Seq(AC)
        BY PendingFacts DEF Numbers
      <3>2. <<>> \in Seq(AC)
        OBVIOUS
      <3> QED BY <3>1, <3>2, Zenon
    <2>3. Len(sleepq'[x]) = Len(q) + Len(s) /\ Len(s) \in Nat
      BY <2>1, <2>2
    <2>4. Count(q \o s, A) = Count(q, A) + Count(s, A)
      BY <2>2, CountConcat
    <2>5. Count(s, A) \in 0..Len(s)
      BY <2>2, PlacesFinite
    <2>6. Count(s, A) \in Nat /\ Count(q, A) + Count(s, A) \in 0..U32 - 1
      BY <1>6, <2>3, <2>5, SleepAssumption
    <2> QED BY <1>6, <2>1, <2>4, <2>6, Exact
  <1>12. CASE Emptied(x)
    <2>1. sleepq'[x] = <<>> /\ acLen'[x] = Minus(acLen[x], Count(q, A))
      BY <1>1, <1>4, <1>5, <1>12 DEF Emptied, AcLenIs
    <2>2. Count(q, A) - Count(q, A) \in 0..U32 - 1 /\ Count(q, A) - Count(q, A) = 0
      BY <1>6, SleepAssumption
    <2> QED BY <1>2, <1>6, <2>1, <2>2, Exact
  <1>13. CASE Delivered(x)
    <2>1. sleepq'[x] = Only(q, AC \ A) /\ acLen'[x] = Minus(acLen[x], Len(Only(q, A)))
      BY <1>1, <1>4, <1>5, <1>13 DEF Delivered, AcLenIs
    <2>2. Len(Only(q, A)) = Count(q, A)
      BY CountOnly
    <2>3. Count(Only(q, AC \ A), A) = 0
      <3>1. (AC \ A) \cap A = {}
        OBVIOUS
      <3> QED BY <3>1, CountOther
    <2>4. Count(q, A) - Count(q, A) \in 0..U32 - 1 /\ Count(q, A) - Count(q, A) = 0
      BY <1>6, SleepAssumption
    <2> QED BY <1>6, <2>1, <2>2, <2>3, <2>4, Exact
  <1>14. CASE Polled(x)
    <2>1. q # <<>> /\ sleepq'[x] = Tail(q) /\ acLen'[x] = acLen[x] /\ Head(q) \notin A
      BY <1>1, <1>4, <1>5, <1>14 DEF Polled
    <2>2. Count(q, A) = (IF Head(q) \in A THEN 1 ELSE 0) + Count(Tail(q), A)
      BY <2>1, CountTail
    <2>3. Count(Tail(q), A) \in Nat
      <3>1. Tail(q) \in Seq(AC)
        BY <2>1
      <3>2. Count(Tail(q), A) \in 0..Len(Tail(q))
        BY <3>1, PlacesFinite, Zenon
      <3>3. Len(Tail(q)) \in Nat
        BY <3>1
      <3> QED BY <3>2, <3>3
    <2> QED BY <1>6, <2>1, <2>2, <2>3
  <1> QED BY <1>4, <1>9, <1>10, <1>11, <1>12, <1>13, <1>14, Zenon DEF Settles, Grows

-----------------------------------------------------------------------------
(* Association ids                                                         *)

\* An associated station has an id, and only the command thread, on its way to
\* rtw_free_stainfo, leaves one that is not associated with an id.
AidInv ==
  /\ \A s \in Sta : "linked" \in st[s] => aid[s] = s
  /\ \A s \in Sta : aid[s] = s => "linked" \in st[s] \/ cmd.s = s
  /\ cmd.pc = "mark" => "linked" \in cmd.ld
  /\ cmd.pc \in {"mark", "tim", "aka", "bcn"} => "linked" \in st[cmd.s]
  /\ cmd.pc \in {"left", "free"} => "linked" \notin st[cmd.s]
  /\ cmd.pc = "left" => aid[cmd.s] = cmd.s

LEMMA AidStep ==
  ASSUME StaTypes, CmdTypes, AidInv, [Steps]_vars
  PROVE  AidInv'
  <1> USE SleepAssumption DEF AidInv, StaTypes, CmdTypes, Bits, Dest
  <1>1. ASSUME NEW s \in Sta, NEW ac \in AC \cup {None}, RxSleeps(s, ac) PROVE AidInv'
    BY <1>1 DEF RxSleeps, stop_sta_xmit, AfterData, Idle, SetTim, _update_beacon, NoBeaconUpdate
  <1>2. ASSUME NEW s \in Sta, NEW ac \in AC \cup {None}, RxWakes(s, ac) PROVE AidInv'
    BY <1>2 DEF RxWakes, wakeup_sta_to_xmit, AfterData, Idle, DzAfter, TimAfter
  <1>3. ASSUME NEW s \in Sta, PollFrame(s) PROVE AidInv'
    BY <1>3 DEF PollFrame, SetTim, _update_beacon, NoBeaconUpdate
  <1>4. ASSUME NEW s \in Sta, PollEmpty(s) PROVE AidInv'
    BY <1>4 DEF PollEmpty, Idle, mapVars, qVars
  <1>5. ASSUME NEW s \in Sta, OnAuth(s) PROVE AidInv'
    BY <1>5 DEF OnAuth, Idle, mapVars, qVars
  <1>6. ASSUME NEW s \in Sta, NEW u \in Uapsd, OnAssocReq(s, u) PROVE AidInv'
    BY <1>6 DEF OnAssocReq, Idle, mapVars, qVars
  <1>7. ASSUME NEW s \in Sta, ExpireMark(s) PROVE AidInv'
    BY <1>7 DEF ExpireMark, Idle, staVars, mapVars, qVars
  <1>8. ASSUME ExpireMarkStore PROVE AidInv'
    BY <1>8 DEF ExpireMarkStore, mapVars, qVars
  <1>9. ASSUME ExpireTim PROVE AidInv'
    BY <1>9 DEF ExpireTim, SetTim, staVars, qVars, _update_beacon, NoBeaconUpdate
  <1>10. ASSUME NEW s \in Sta, ExpireCheck(s) PROVE AidInv'
    BY <1>10 DEF ExpireCheck, Idle, staVars, mapVars, qVars
  <1>11. ASSUME AkaAlive PROVE AidInv'
    BY <1>11 DEF AkaAlive, Idle, staVars, mapVars, qVars
  <1>12. ASSUME AkaDead PROVE AidInv'
    BY <1>12 DEF AkaDead, mapVars, qVars
  <1>13. ASSUME StaLeft PROVE AidInv'
    BY <1>13 DEF StaLeft, SetTim, staVars, qVars, _update_beacon, NoBeaconUpdate
  <1>14. ASSUME NEW s \in Sta, AuthExpire(s) PROVE AidInv'
    BY <1>14 DEF AuthExpire, Idle, staVars, mapVars, qVars
  <1>15. ASSUME rtw_free_stainfo PROVE AidInv'
    BY <1>15 DEF rtw_free_stainfo, Idle
  <1>16. ASSUME NEW s \in Sta, ExpireAging(s) PROVE AidInv'
    BY <1>16 DEF ExpireAging, wakeup_sta_to_xmit, Idle, DzAfter, TimAfter
  <1>17. ASSUME AgingBeacon PROVE AidInv'
    BY <1>17 DEF AgingBeacon, _update_beacon, Idle, staVars, qVars
  <1>18. ASSUME \/ TxGroup \/ TxHal \/ RxBeacon \/ WmmNull \/ RxPolled \/ RxPollClear
               \/ FlushBmc \/ NoFlush \/ UNCHANGED vars
               \/ (\E x \in Dest, ac \in AC : TxPasses(x, ac) \/ HalTake(x, ac))
               \/ (\E s \in Sta, ac \in AC : TxUnicast(s, ac))
               \/ (\E s \in Sta, ac \in AC \cup {None} : RxTrigger(s, ac))
               \/ (\E s \in Sta : WmmDeliver(s))
        PROVE AidInv'
    <2> HIDE DEF AidInv, StaTypes, CmdTypes, Bits, Dest
    <2>1. UNCHANGED <<aid, cmd, st>>
      BY <1>18, Zenon DEF TxPasses, TxGroup, TxUnicast, TxHal, HalTake, RxTrigger, RxBeacon,
         WmmDeliver, WmmNull, RxPolled, RxPollClear, FlushBmc, NoFlush, mapVars, qVars, staVars,
         vars
    <2> QED BY <2>1 DEF AidInv, StaTypes, CmdTypes, Bits, Dest
  <1> QED BY <1>1, <1>2, <1>3, <1>4, <1>5, <1>6, <1>7, <1>8, <1>9, <1>10, <1>11, <1>12, <1>13,
         <1>14, <1>15, <1>16, <1>17, <1>18, Zenon DEF Steps

\* A station without an id has no frames and no doze bit; putting it to sleep
\* uses bit 0 of the maps.
NoIdQueue == \A s \in Sta : aid[s] = BMC => sleepq[s] = <<>>
NoIdBits ==
  \A s \in Sta : aid[s] = BMC =>
    /\ s \notin dz
    /\ "sleep" \in st[s] => s \in disturbed /\ BMC \in disturbed

LEMMA NoIdBitsStep ==
  ASSUME StaTypes, CmdTypes, AidInv, NoIdBits, [Steps]_vars
  PROVE  NoIdBits'
  <1> USE SleepAssumption DEF NoIdBits, AidInv, StaTypes, CmdTypes, Bits, Dest
  <1>1. ASSUME TxGroup PROVE NoIdBits'
    BY <1>1 DEF TxGroup, TxGroupBuffered, staVars, SetTim, _update_beacon, NoBeaconUpdate
  <1>2. ASSUME NEW s \in Sta, NEW ac \in AC \cup {None}, RxSleeps(s, ac) PROVE NoIdBits'
    BY <1>2 DEF RxSleeps, stop_sta_xmit, AfterData, Idle, SetTim, _update_beacon, NoBeaconUpdate
  <1>3. ASSUME NEW s \in Sta, NEW ac \in AC \cup {None}, RxWakes(s, ac) PROVE NoIdBits'
    BY <1>3 DEF RxWakes, wakeup_sta_to_xmit, AfterData, Idle, DzAfter, TimAfter
  <1>4. ASSUME NEW s \in Sta, PollFrame(s) PROVE NoIdBits'
    BY <1>4 DEF PollFrame, SetTim, _update_beacon, NoBeaconUpdate
  <1>5. ASSUME NEW s \in Sta, PollEmpty(s) PROVE NoIdBits'
    BY <1>5 DEF PollEmpty, Idle, mapVars, qVars
  <1>6. ASSUME RxPolled PROVE NoIdBits'
    BY <1>6 DEF RxPolled, Idle, staVars, mapVars
  <1>7. ASSUME RxPollClear PROVE NoIdBits'
    BY <1>7 DEF RxPollClear, SetTim, Idle, staVars, qVars, _update_beacon, NoBeaconUpdate
  <1>8. ASSUME NEW s \in Sta, OnAuth(s) PROVE NoIdBits'
    BY <1>8 DEF OnAuth, Idle, mapVars, qVars
  <1>9. ASSUME NEW s \in Sta, NEW u \in Uapsd, OnAssocReq(s, u) PROVE NoIdBits'
    BY <1>9 DEF OnAssocReq, Idle, mapVars, qVars
  <1>10. ASSUME ExpireMarkStore PROVE NoIdBits'
    BY <1>10 DEF ExpireMarkStore, mapVars, qVars
  <1>11. ASSUME ExpireTim PROVE NoIdBits'
    BY <1>11 DEF ExpireTim, SetTim, staVars, qVars, _update_beacon, NoBeaconUpdate
  <1>12. ASSUME AkaDead PROVE NoIdBits'
    BY <1>12 DEF AkaDead, mapVars, qVars
  <1>13. ASSUME StaLeft PROVE NoIdBits'
    BY <1>13 DEF StaLeft, SetTim, staVars, qVars, _update_beacon, NoBeaconUpdate
  <1>14. ASSUME rtw_free_stainfo PROVE NoIdBits'
    BY <1>14 DEF rtw_free_stainfo, Idle
  <1>15. ASSUME NEW s \in Sta, ExpireAging(s) PROVE NoIdBits'
    BY <1>15 DEF ExpireAging, wakeup_sta_to_xmit, Idle, DzAfter, TimAfter
  <1>16. ASSUME \/ TxHal \/ RxBeacon \/ WmmNull \/ AkaAlive \/ AgingBeacon \/ FlushBmc
               \/ NoFlush \/ UNCHANGED vars
               \/ (\E x \in Dest, ac \in AC : TxPasses(x, ac) \/ HalTake(x, ac))
               \/ (\E s \in Sta, ac \in AC : TxUnicast(s, ac))
               \/ (\E s \in Sta, ac \in AC \cup {None} : RxTrigger(s, ac))
               \/ (\E s \in Sta : WmmDeliver(s) \/ ExpireMark(s) \/ ExpireCheck(s)
                        \/ AuthExpire(s))
        PROVE NoIdBits'
    <2> HIDE DEF NoIdBits, AidInv, StaTypes, CmdTypes, Bits, Dest
    <2>1. UNCHANGED <<aid, disturbed, dz, st>>
      BY <1>16, Zenon DEF TxPasses, TxUnicast, TxHal, HalTake, RxTrigger, RxBeacon, WmmDeliver,
         WmmNull, ExpireMark, ExpireCheck, AkaAlive, AuthExpire, AgingBeacon, FlushBmc, NoFlush,
         TxUnicastBuffered, mapVars, qVars, staVars, vars
    <2> QED BY <2>1 DEF NoIdBits, AidInv, StaTypes, CmdTypes, Bits, Dest
  <1> QED BY <1>1, <1>2, <1>3, <1>4, <1>5, <1>6, <1>7, <1>8, <1>9, <1>10, <1>11, <1>12, <1>13,
         <1>14, <1>15, <1>16, Zenon DEF Steps

LEMMA NoIdQueueStep ==
  ASSUME Types, QueueTypes, Arrays, Counting, AidInv, NoIdQueue, [Steps]_vars
  PROVE  NoIdQueue'
  <1> USE SleepAssumption DEF NoIdQueue, AidInv, Types, StaTypes, CmdTypes, Arrays, Dest
  <1>1. ASSUME TxGroup PROVE NoIdQueue'
    BY <1>1 DEF TxGroup, TxGroupBuffered, staVars, SetTim, _update_beacon, NoBeaconUpdate
  <1>2. ASSUME NEW s \in Sta, NEW ac \in AC, TxUnicast(s, ac) PROVE NoIdQueue'
    BY <1>2 DEF TxUnicast, TxUnicastBuffered, staVars, SetTim, NoBeaconUpdate, _update_beacon
  <1>3. ASSUME NEW s \in Sta, NEW ac \in AC \cup {None}, RxSleeps(s, ac) PROVE NoIdQueue'
    <2>1. stop_sta_xmit(s)
      BY <1>3 DEF RxSleeps
    <2>2. /\ \A z \in Sta \ {s} : Same(z)
          /\ "linked" \notin st[s] => sleepq'[s] = sleepq[s] \o <<>>
          /\ aid' = aid
      BY <2>1, StopMoves DEF stop_sta_xmit
    <2>3. <<>> \o <<>> = <<>>
      OBVIOUS
    <2> QED BY <2>2, <2>3 DEF Same
  <1>4. ASSUME NEW s \in Sta, NEW ac \in AC \cup {None}, RxWakes(s, ac) PROVE NoIdQueue'
    <2>1. wakeup_sta_to_xmit(s)
      BY <1>4 DEF RxWakes
    <2>2. Emptied(s) /\ (\A z \in Sta \ {s} : Same(z)) /\ aid' = aid
      BY <2>1, WakeMoves DEF wakeup_sta_to_xmit
    <2> QED BY <2>2 DEF Same, Emptied
  <1>5. ASSUME NEW s \in Sta, WmmDeliver(s) PROVE NoIdQueue'
    <2>1. Delivered(s) /\ (\A z \in Dest \ {s} : Same(z)) /\ aid' = aid
      BY <1>5, DeliverMoves DEF WmmDeliver, staVars
    <2>2. ASSUME sleepq[s] = <<>> PROVE sleepq'[s] = <<>>
      <3>1. PICK r : r = Only(<<>>, AC \ Cats(s))
        OBVIOUS
      <3>2. <<>> \in Seq(AC)
        OBVIOUS
      <3>3. r \in Seq(AC) /\ Len(r) = 0
        BY <3>1, <3>2, OnlyFacts, CountOnly, CountEmpty
      <3> QED BY <2>1, <2>2, <3>1, <3>3 DEF Delivered
    <2> QED BY <2>1, <2>2 DEF Same
  <1>6. ASSUME NEW s \in Sta, PollFrame(s) PROVE NoIdQueue'
    BY <1>6 DEF PollFrame, SetTim, _update_beacon, NoBeaconUpdate
  <1>7. ASSUME NEW s \in Sta, NEW u \in Uapsd, OnAssocReq(s, u) PROVE NoIdQueue'
    BY <1>7 DEF OnAssocReq, Idle, mapVars, qVars
  <1>8. ASSUME rtw_free_stainfo PROVE NoIdQueue'
    BY <1>8 DEF rtw_free_stainfo, Idle
  <1>9. ASSUME NEW s \in Sta, ExpireAging(s) PROVE NoIdQueue'
    <2>1. wakeup_sta_to_xmit(s)
      BY <1>9 DEF ExpireAging
    <2>2. Emptied(s) /\ (\A z \in Sta \ {s} : Same(z)) /\ aid' = aid
      BY <2>1, WakeMoves DEF wakeup_sta_to_xmit
    <2> QED BY <2>2 DEF Same, Emptied
  <1>10. ASSUME FlushBmc PROVE NoIdQueue'
    BY <1>10 DEF FlushBmc, staVars, mapVars
  <1>11. ASSUME \/ TxHal \/ RxBeacon \/ WmmNull \/ RxPolled \/ RxPollClear \/ ExpireMarkStore
               \/ ExpireTim \/ AkaAlive \/ AkaDead \/ StaLeft \/ AgingBeacon \/ NoFlush
               \/ UNCHANGED vars
               \/ (\E x \in Dest, ac \in AC : TxPasses(x, ac) \/ HalTake(x, ac))
               \/ (\E s \in Sta, ac \in AC \cup {None} : RxTrigger(s, ac))
               \/ (\E s \in Sta : PollEmpty(s) \/ OnAuth(s) \/ ExpireMark(s)
                        \/ ExpireCheck(s) \/ AuthExpire(s))
        PROVE NoIdQueue'
    <2> HIDE DEF NoIdQueue, AidInv, Types, StaTypes, CmdTypes, Arrays, Dest
    <2>1. UNCHANGED <<aid, sleepq>>
      BY <1>11, Zenon DEF TxPasses, TxHal, HalTake, RxTrigger, RxBeacon, WmmNull, PollEmpty,
         RxPolled, RxPollClear, OnAuth, ExpireMark, ExpireMarkStore, ExpireTim, ExpireCheck,
         AkaAlive, AkaDead, StaLeft, AuthExpire, AgingBeacon, NoFlush, mapVars, qVars, staVars,
         vars
    <2> QED BY <2>1 DEF NoIdQueue, AidInv, Types, StaTypes, CmdTypes, Arrays, Dest
  <1> QED BY <1>1, <1>2, <1>3, <1>4, <1>5, <1>6, <1>7, <1>8, <1>9, <1>10, <1>11, Zenon DEF Steps

-----------------------------------------------------------------------------
(* Announcements                                                           *)

\* A frame that needs the bit of its station and stays does not lose it.
TimHolds ==
  \A z \in Sta :
    z \notin disturbed' /\ "linked" \in st'[z] /\ MustAnnounce(z) /\ MustAnnounce(z)'
      => aid'[z] \in tim'

\* A frame that comes to need it gets it.
TimComes ==
  \A z \in Sta :
    MustAnnounce(z)' /\ z \notin disturbed' /\ "linked" \in st'[z]
      => MustAnnounce(z) \/ aid'[z] \in tim'

StaAnnounced ==
  \A s \in Sta \ disturbed : "linked" \in st[s] /\ MustAnnounce(s) => aid[s] \in tim
GroupAnnounced == sleepq[BMC] # <<>> /\ BMC \notin disturbed => BMC \in tim /\ BMC \in dz

LEMMA MustNot ==
  ASSUME NEW s \in Sta, sleepq'[s] = <<>>
  PROVE  ~MustAnnounce(s)'
  BY DEF MustAnnounce

LEMMA TimHoldsStep ==
  ASSUME Types, QueueTypes, Arrays, Counting, AidInv, 
         StaAnnounced, NoIdQueue, \A x \in Dest : LenExact(x), [Steps]_vars
  PROVE  TimHolds
  <1> USE SleepAssumption DEF TimHolds, StaAnnounced, AidInv, Types, StaTypes, RxTypes, CmdTypes,
         Dest
  <1>1. ASSUME TxGroup PROVE TimHolds
    BY <1>1 DEF TxGroup, TxGroupBuffered, staVars, SetTim, _update_beacon, NoBeaconUpdate
  <1>2. ASSUME NEW s \in Sta, NEW ac \in AC, TxUnicast(s, ac) PROVE TimHolds
    BY <1>2 DEF TxUnicast, TxUnicastBuffered, staVars, SetTim, NoBeaconUpdate, _update_beacon
  <1>3. ASSUME NEW s \in Sta, NEW ac \in AC \cup {None}, RxSleeps(s, ac) PROVE TimHolds
    BY <1>3 DEF RxSleeps, stop_sta_xmit, AfterData, Idle, SetTim, _update_beacon, NoBeaconUpdate
  <1>4. ASSUME NEW s \in Sta, NEW ac \in AC \cup {None}, RxWakes(s, ac) PROVE TimHolds
    <2>1. wakeup_sta_to_xmit(s) /\ disturbed' = disturbed
      BY <1>4 DEF RxWakes
    <2>2. Emptied(s)
      BY <2>1, WakeMoves
    <2>3. ~MustAnnounce(s)'
      BY <2>2, MustNot DEF Emptied
    <2>4. /\ aid' = aid /\ tim \ tim' \subseteq {aid[s], BMC}
          /\ \A z \in Sta : "linked" \in st'[z] => "linked" \in st[z]
      BY <2>1 DEF wakeup_sta_to_xmit, TimAfter
    <2> QED BY <2>1, <2>3, <2>4
  <1>5. ASSUME NEW s \in Sta, WmmDeliver(s) PROVE TimHolds
    <2>1. disturbed' = disturbed /\ st' = st /\ aid' = aid /\ xmit_delivery_enabled_frames(s)
      BY <1>5 DEF WmmDeliver, staVars
    <2>2. CASE tim' = tim
      BY <2>1, <2>2
    <2>3. CASE tim' # tim
      <3>1. uapsd[s] = AC /\ tim' = tim \ {aid[s]}
        BY <2>1, <2>3 DEF xmit_delivery_enabled_frames, SetTim, has_legacy_ac
      <3>2. Delivered(s) /\ Cats(s) = AC
        BY <2>1, <3>1, DeliverMoves DEF Cats
      <3>3. ASSUME sleepq'[s] # <<>> PROVE FALSE
        <4>1. PICK q \in Seq(AC) : q = sleepq[s]
          BY DEF QueueTypes
        <4>2. PICK r : r = Only(q, AC \ Cats(s)) /\ r = sleepq'[s]
          BY <3>2, <4>1 DEF Delivered
        <4>3. r \in Seq(AC) /\ Len(r) # 0 /\ Len(r) \in Nat
          BY <3>3, <4>2, OnlyFacts
        <4>4. 1 \in 1..Len(r)
          BY <4>3
        <4>5. r[1] \in AC \ Cats(s)
          BY <4>2, <4>4, OnlyMembers
        <4> QED BY <3>2, <4>5
      <3>4. ~MustAnnounce(s)'
        BY <3>3, MustNot
      <3> QED BY <2>1, <3>1, <3>4
    <2> QED BY <2>2, <2>3
  <1>6. ASSUME NEW s \in Sta, PollFrame(s) PROVE TimHolds
    <2>1. /\ disturbed' = disturbed /\ aid' = aid /\ sleepq[s] # <<>>
          /\ \A z \in Sta : "linked" \in st'[z] => "linked" \in st[z]
          /\ sleepq' = [sleepq EXCEPT ![s] = Tail(@)]
          /\ len' = [len EXCEPT ![s] = Minus(@, 1)]
          /\ tim' = IF len'[s] = 0 THEN tim \ {aid[s]} ELSE tim
      BY <1>6 DEF PollFrame, SetTim
    <2>2. CASE len'[s] # 0
      BY <2>1, <2>2
    <2>3. CASE len'[s] = 0 /\ s \in disturbed
      BY <2>1, <2>3
    <2>4. CASE len'[s] = 0 /\ s \notin disturbed
      <3>1. PICK q \in Seq(AC) : q = sleepq[s]
        BY DEF QueueTypes
      <3>2. /\ len[s] = Len(q) /\ Len(q) \in Nat \ {0} /\ Minus(len[s], 1) = 0
            /\ sleepq'[s] = Tail(q) /\ q # <<>>
        <4>1. sleepq'[s] = Tail(q) /\ len'[s] = Minus(len[s], 1)
          BY <2>1, <3>1 DEF Arrays
        <4>2. s \in Dest /\ len[s] = Len(q)
          BY <2>4, <3>1 DEF LenExact
        <4>3. q # <<>> /\ Len(q) \in Nat /\ Len(q) # 0
          BY <2>1, <3>1
        <4> QED BY <2>4, <4>1, <4>2, <4>3
      <3>3. Len(q) - 1 \in 0..U32 - 1
        <4>1. len[s] \in 0..U32 - 1
          BY DEF Counting, Numbers
        <4> QED BY <3>2, <4>1, SleepAssumption
      <3>4. Len(q) = 1
        <4>1. PICK n \in Nat : n = Len(q) /\ n = len[s]
          BY <3>2
        <4>2. n - 1 \in 0..U32 - 1 /\ 1 \in Nat
          BY <3>3, <4>1
        <4>3. Minus(n, 1) = n - 1
          BY <4>2, Exact
        <4>4. Minus(n, 1) = 0
          BY <3>2, <4>1, Zenon
        <4>5. n = 1
          BY <4>3, <4>4
        <4> QED BY <4>1, <4>5
      <3>5. sleepq'[s] = <<>>
        BY <3>2, <3>4
      <3>6. ~MustAnnounce(s)'
        BY <3>5, MustNot
      <3> QED BY <2>1, <3>6
    <2> QED BY <2>2, <2>3, <2>4
  <1>7. ASSUME NEW s \in Sta, PollEmpty(s) PROVE TimHolds
    BY <1>7 DEF PollEmpty, Idle, mapVars, qVars
  <1>8. ASSUME RxPolled PROVE TimHolds
    BY <1>8 DEF RxPolled, Idle, staVars, mapVars
  <1>9. ASSUME RxPollClear PROVE TimHolds
    <2>1. /\ disturbed' = disturbed \cup Lost(tim, rx.ld)
                          \cup {s \in {rx.s} : MustAnnounce(s)} \cup ({aid[rx.s]} \cap {BMC})
          /\ tim' = rx.ld \ {aid[rx.s]} /\ aid' = aid /\ st' = st /\ rx.s \in Sta
      BY <1>9 DEF RxPollClear, SetTim, staVars, _update_beacon
    <2>2. tim \ rx.ld \subseteq disturbed' /\ (MustAnnounce(rx.s) => rx.s \in disturbed')
      BY <2>1 DEF Lost
    <2> QED BY <2>1, <2>2
  <1>10. ASSUME NEW s \in Sta, OnAuth(s) PROVE TimHolds
    BY <1>10 DEF OnAuth, Idle, mapVars, qVars
  <1>11. ASSUME NEW s \in Sta, NEW u \in Uapsd, OnAssocReq(s, u) PROVE TimHolds
    <2>1. /\ aid' = [aid EXCEPT ![s] = s] /\ st' = [st EXCEPT ![s] = @ \cup {"linked"}]
          /\ disturbed \subseteq disturbed' /\ tim' = tim /\ cmd.s # s
      BY <1>11 DEF OnAssocReq, mapVars
    <2>2. MustAnnounce(s) => aid[s] # BMC
      BY DEF NoIdQueue, MustAnnounce
    <2>3. MustAnnounce(s) => "linked" \in st[s]
      BY <2>1, <2>2
    <2> QED BY <2>1, <2>3
  <1>12. ASSUME ExpireMarkStore PROVE TimHolds
    BY <1>12 DEF ExpireMarkStore, mapVars, qVars
  <1>13. ASSUME ExpireTim PROVE TimHolds
    <2>1. /\ disturbed' = disturbed \cup Lost(tim, cmd.ld)
          /\ tim' = cmd.ld \cup {aid[cmd.s]} /\ aid' = aid /\ st' = st
          /\ cmd.s \in Sta
      BY <1>13 DEF ExpireTim, SetTim, staVars, _update_beacon
    <2>2. tim \ cmd.ld \subseteq disturbed'
      BY <2>1 DEF Lost
    <2> QED BY <2>1, <2>2
  <1>14. ASSUME AkaDead PROVE TimHolds
    BY <1>14 DEF AkaDead, mapVars, qVars
  <1>15. ASSUME StaLeft PROVE TimHolds
    <2>1. /\ disturbed' = disturbed \cup Lost(tim, cmd.ld)
          /\ tim' = cmd.ld \ {aid[cmd.s]} /\ aid' = aid /\ st' = st
          /\ cmd.s \in Sta /\ aid[cmd.s] = cmd.s /\ "linked" \notin st[cmd.s]
      BY <1>15 DEF StaLeft, SetTim, staVars, _update_beacon
    <2>2. tim \ cmd.ld \subseteq disturbed'
      BY <2>1 DEF Lost
    <2> QED BY <2>1, <2>2
  <1>16. ASSUME rtw_free_stainfo PROVE TimHolds
    BY <1>16 DEF rtw_free_stainfo, Idle
  <1>17. ASSUME NEW s \in Sta, ExpireAging(s) PROVE TimHolds
    <2>1. wakeup_sta_to_xmit(s) /\ disturbed' = disturbed
      BY <1>17 DEF ExpireAging
    <2>2. Emptied(s)
      BY <2>1, WakeMoves
    <2>3. ~MustAnnounce(s)'
      BY <2>2, MustNot DEF Emptied
    <2>4. /\ aid' = aid /\ tim \ tim' \subseteq {aid[s], BMC}
          /\ \A z \in Sta : "linked" \in st'[z] => "linked" \in st[z]
      BY <2>1 DEF wakeup_sta_to_xmit, TimAfter
    <2> QED BY <2>1, <2>3, <2>4
  <1>18. ASSUME \/ TxHal \/ RxBeacon \/ WmmNull \/ AkaAlive \/ AgingBeacon \/ FlushBmc
               \/ NoFlush \/ UNCHANGED vars
               \/ (\E x \in Dest, ac \in AC : TxPasses(x, ac) \/ HalTake(x, ac))
               \/ (\E s \in Sta, ac \in AC \cup {None} : RxTrigger(s, ac))
               \/ (\E s \in Sta : ExpireMark(s) \/ ExpireCheck(s) \/ AuthExpire(s))
        PROVE TimHolds
    <2> HIDE DEF TimHolds, StaAnnounced, AidInv, Types, StaTypes, RxTypes, CmdTypes, Dest
    <2>1. UNCHANGED <<aid, disturbed, st, tim>>
      BY <1>18, Zenon DEF TxPasses, TxHal, HalTake, RxTrigger, RxBeacon, WmmNull, ExpireMark,
         ExpireCheck, AkaAlive, AuthExpire, AgingBeacon, FlushBmc, NoFlush, mapVars, qVars,
         staVars, vars
    <2> QED BY <2>1 DEF TimHolds, StaAnnounced, AidInv, Types, StaTypes, RxTypes, CmdTypes, Dest
  <1> QED BY <1>1, <1>2, <1>3, <1>4, <1>5, <1>6, <1>7, <1>8, <1>9, <1>10, <1>11, <1>12, <1>13,
         <1>14, <1>15, <1>16, <1>17, <1>18, Zenon DEF Steps

LEMMA MustSame ==
  ASSUME NEW z \in Sta, sleepq'[z] = sleepq[z], uapsd'[z] = uapsd[z]
  PROVE  MustAnnounce(z)' => MustAnnounce(z)
  BY DEF MustAnnounce, Announced, has_legacy_ac, Wmm

LEMMA MustPart ==
  ASSUME NEW z \in Sta, uapsd'[z] = uapsd[z],
         \A i \in DOMAIN sleepq'[z] : \E k \in DOMAIN sleepq[z] : sleepq'[z][i] = sleepq[z][k]
  PROVE  MustAnnounce(z)' => MustAnnounce(z)
  BY DEF MustAnnounce, Announced, has_legacy_ac, Wmm

LEMMA TimComesStep ==
  ASSUME Types, QueueTypes, Arrays, Counting, AidInv, NoIdQueue, [Steps]_vars
  PROVE  TimComes
  <1> USE SleepAssumption DEF TimComes
  <1>1. ASSUME TxGroup PROVE TimComes
    <2>1. \A z \in Sta : sleepq'[z] = sleepq[z] /\ uapsd'[z] = uapsd[z]
      BY <1>1 DEF TxGroup, TxGroupBuffered, Arrays, staVars, Dest
    <2> QED BY <2>1, MustSame
  <1>2. ASSUME NEW s \in Sta, NEW ac \in AC, TxUnicast(s, ac) PROVE TimComes
    <2>1. /\ sleepq' = [sleepq EXCEPT ![s] = Append(@, ac)] /\ uapsd' = uapsd /\ aid' = aid
          /\ IF Announced(s, ac) THEN tim' = tim \cup {aid[s]} ELSE tim' = tim
      BY <1>2 DEF TxUnicast, TxUnicastBuffered, SetTim, staVars
    <2>2. \A z \in Sta \ {s} : MustAnnounce(z)' => MustAnnounce(z)
      <3>1. \A z \in Sta \ {s} : sleepq'[z] = sleepq[z]
        BY <2>1 DEF Arrays, Dest
      <3> QED BY <2>1, <3>1, MustSame
    <2>3. MustAnnounce(s)' => MustAnnounce(s) \/ aid'[s] \in tim'
      <3>1. PICK q \in Seq(AC) : q = sleepq[s]
        BY DEF QueueTypes, Dest
      <3>2. sleepq'[s] = Append(q, ac)
        BY <2>1, <3>1 DEF Arrays, Dest
      <3>3. ASSUME NEW i \in DOMAIN sleepq'[s], Announced(s, sleepq'[s][i])
            PROVE  MustAnnounce(s) \/ Announced(s, ac)
        BY <3>1, <3>2, <3>3 DEF MustAnnounce
      <3>4. \A c : Announced(s, c)' <=> Announced(s, c)
        BY <2>1 DEF Announced, has_legacy_ac, Wmm
      <3> QED BY <2>1, <3>3, <3>4 DEF MustAnnounce
    <2> QED BY <2>2, <2>3
  <1>3. ASSUME NEW s \in Sta, NEW ac \in AC \cup {None}, RxSleeps(s, ac) PROVE TimComes
    <2>1. stop_sta_xmit(s) /\ uapsd' = uapsd /\ aid' = aid
      BY <1>3 DEF RxSleeps, stop_sta_xmit
    <2>2. \A z \in Sta \ {s} : MustAnnounce(z)' => MustAnnounce(z)
      BY <2>1, StopMoves, MustSame DEF Same
    <2>3. PICK q : /\ q = IF "linked" \in st[s] THEN Pending(s) ELSE <<>>
                   /\ q \in Seq(AC)
      <3>1. Pending(s) \in Seq(AC) /\ <<>> \in Seq(AC)
        BY PendingFacts DEF QueueTypes, Dest
      <3> QED BY <3>1
    <2>4. PICK r \in Seq(AC) : r = sleepq[s]
      BY DEF QueueTypes, Dest
    <2>5. sleepq'[s] = r \o q
      <3>1. PICK g : sleepq' = [sleepq EXCEPT ![s] = @ \o q, ![BMC] = @ \o g]
        BY <2>1, <2>3 DEF stop_sta_xmit
      <3> QED BY <2>4, <3>1, SleepAssumption DEF Arrays, Dest
    <2>6. (\E i \in DOMAIN q : Announced(s, q[i])) => aid[s] \in tim'
      BY <2>1, <2>3 DEF stop_sta_xmit, SetTim
    <2>7. ASSUME NEW i \in DOMAIN sleepq'[s], Announced(s, sleepq'[s][i])
          PROVE  MustAnnounce(s) \/ aid[s] \in tim'
      <3>1. CASE i \in DOMAIN r
        BY <2>4, <2>5, <2>7, <3>1 DEF MustAnnounce
      <3>2. CASE i \notin DOMAIN r
        <4>1. i - Len(r) \in DOMAIN q /\ sleepq'[s][i] = q[i - Len(r)]
          BY <2>3, <2>5, <3>2
        <4> QED BY <2>6, <2>7, <4>1
      <3> QED BY <3>1, <3>2
    <2>8. \A c : Announced(s, c)' <=> Announced(s, c)
      BY <2>1 DEF Announced, has_legacy_ac, Wmm
    <2>9. MustAnnounce(s)' => MustAnnounce(s) \/ aid'[s] \in tim'
      BY <2>1, <2>7, <2>8 DEF MustAnnounce
    <2> QED BY <2>2, <2>9
  <1>4. ASSUME NEW s \in Sta, NEW ac \in AC \cup {None}, RxWakes(s, ac) PROVE TimComes
    <2>1. wakeup_sta_to_xmit(s)
      BY <1>4 DEF RxWakes
    <2>2. Emptied(s) /\ (\A z \in Sta \ {s} : Same(z)) /\ uapsd' = uapsd
      BY <2>1, WakeMoves DEF wakeup_sta_to_xmit
    <2>3. ~MustAnnounce(s)'
      BY <2>2, MustNot DEF Emptied
    <2>4. \A z \in Sta \ {s} : MustAnnounce(z)' => MustAnnounce(z)
      BY <2>2, MustSame DEF Same
    <2> QED BY <2>3, <2>4
  <1>5. ASSUME NEW s \in Sta, WmmDeliver(s) PROVE TimComes
    <2>1. Delivered(s) /\ (\A z \in Dest \ {s} : Same(z)) /\ uapsd' = uapsd
      BY <1>5, DeliverMoves DEF WmmDeliver, staVars
    <2>2. \A z \in Sta \ {s} : MustAnnounce(z)' => MustAnnounce(z)
      BY <2>1, MustSame DEF Same, Dest
    <2>3. MustAnnounce(s)' => MustAnnounce(s)
      <3>1. PICK q \in Seq(AC) : q = sleepq[s]
        BY DEF QueueTypes, Dest
      <3>2. PICK r : r = Only(q, AC \ Cats(s)) /\ r = sleepq'[s]
        BY <2>1, <3>1 DEF Delivered
      <3>3. r \in Seq(AC)
        BY <3>2, OnlyFacts
      <3>4. ASSUME NEW i \in DOMAIN r PROVE \E k \in DOMAIN q : r[i] = q[k]
        <4>1. i \in 1..Len(r)
          BY <3>3
        <4>2. \E k \in 1..Len(q) : r[i] = q[k]
          BY <3>2, <4>1, OnlyMembers
        <4> QED BY <4>2
      <3> QED BY <2>1, <3>1, <3>2, <3>4, MustPart
    <2> QED BY <2>2, <2>3
  <1>6. ASSUME NEW s \in Sta, PollFrame(s) PROVE TimComes
    <2>1. sleepq' = [sleepq EXCEPT ![s] = Tail(@)] /\ uapsd' = uapsd /\ sleepq[s] # <<>>
      BY <1>6 DEF PollFrame
    <2>2. \A z \in Sta \ {s} : MustAnnounce(z)' => MustAnnounce(z)
      <3>1. \A z \in Sta \ {s} : sleepq'[z] = sleepq[z]
        BY <2>1 DEF Arrays, Dest
      <3> QED BY <2>1, <3>1, MustSame
    <2>3. MustAnnounce(s)' => MustAnnounce(s)
      <3>1. PICK q \in Seq(AC) : q = sleepq[s] /\ q # <<>>
        BY <2>1 DEF QueueTypes, Dest
      <3>2. sleepq'[s] = Tail(q)
        BY <2>1, <3>1 DEF Arrays, Dest
      <3>3. ASSUME NEW i \in DOMAIN Tail(q) PROVE i + 1 \in DOMAIN q /\ Tail(q)[i] = q[i + 1]
        BY <3>1
      <3> QED BY <2>1, <3>1, <3>2, <3>3, MustPart
    <2> QED BY <2>2, <2>3
  <1>7. ASSUME NEW s \in Sta, NEW u \in Uapsd, OnAssocReq(s, u) PROVE TimComes
    <2>1. /\ uapsd' = [uapsd EXCEPT ![s] = u] /\ sleepq' = sleepq
          /\ uapsd[s] # u /\ sleepq[s] # <<>> => s \in disturbed'
      BY <1>7 DEF OnAssocReq, qVars
    <2>2. \A z \in Sta : uapsd'[z] = uapsd[z] \/ (z = s /\ u # uapsd[s])
      BY <2>1 DEF Types, StaTypes
    <2>3. CASE sleepq[s] = <<>>
      BY <2>1, <2>2, <2>3, MustNot, MustSame
    <2>4. CASE sleepq[s] # <<>>
      BY <2>1, <2>2, <2>4, MustSame
    <2> QED BY <2>3, <2>4
  <1>8. ASSUME rtw_free_stainfo PROVE TimComes
    <2>1. PICK s \in Sta : s = cmd.s
      BY <1>8 DEF rtw_free_stainfo, Types, CmdTypes
    <2>2. uapsd' = [uapsd EXCEPT ![s] = {}] /\ sleepq' = [sleepq EXCEPT ![s] = <<>>]
      BY <1>8, <2>1 DEF rtw_free_stainfo
    <2>3. sleepq'[s] = <<>>
      BY <2>2 DEF Arrays, Dest
    <2>4. ~MustAnnounce(s)'
      BY <2>3, MustNot
    <2>5. \A z \in Sta \ {s} : sleepq'[z] = sleepq[z] /\ uapsd'[z] = uapsd[z]
      BY <2>2 DEF Arrays, Dest, Types, StaTypes
    <2>6. \A z \in Sta \ {s} : MustAnnounce(z)' => MustAnnounce(z)
      BY <2>5, MustSame
    <2> QED BY <2>4, <2>6
  <1>9. ASSUME NEW s \in Sta, ExpireAging(s) PROVE TimComes
    <2>1. wakeup_sta_to_xmit(s)
      BY <1>9 DEF ExpireAging
    <2>2. Emptied(s) /\ (\A z \in Sta \ {s} : Same(z)) /\ uapsd' = uapsd
      BY <2>1, WakeMoves DEF wakeup_sta_to_xmit
    <2>3. ~MustAnnounce(s)'
      BY <2>2, MustNot DEF Emptied
    <2>4. \A z \in Sta \ {s} : MustAnnounce(z)' => MustAnnounce(z)
      BY <2>2, MustSame DEF Same
    <2> QED BY <2>3, <2>4
  <1>10. ASSUME FlushBmc PROVE TimComes
    <2>1. \A z \in Sta : sleepq'[z] = sleepq[z] /\ uapsd'[z] = uapsd[z]
      BY <1>10 DEF FlushBmc, Arrays, staVars, Dest
    <2> QED BY <2>1, MustSame
  <1>11. ASSUME \/ TxHal \/ RxBeacon \/ WmmNull \/ RxPolled \/ RxPollClear \/ ExpireMarkStore
               \/ ExpireTim \/ AkaAlive \/ AkaDead \/ StaLeft \/ AgingBeacon \/ NoFlush
               \/ UNCHANGED vars
               \/ (\E x \in Dest, ac \in AC : TxPasses(x, ac) \/ HalTake(x, ac))
               \/ (\E s \in Sta, ac \in AC \cup {None} : RxTrigger(s, ac))
               \/ (\E s \in Sta : PollEmpty(s) \/ OnAuth(s) \/ ExpireMark(s)
                        \/ ExpireCheck(s) \/ AuthExpire(s))
        PROVE TimComes
    <2> HIDE DEF TimComes
    <2>1. UNCHANGED <<sleepq, uapsd>>
      BY <1>11, Zenon DEF TxPasses, TxHal, HalTake, RxTrigger, RxBeacon, WmmNull, PollEmpty,
         RxPolled, RxPollClear, OnAuth, ExpireMark, ExpireMarkStore, ExpireTim, ExpireCheck,
         AkaAlive, AkaDead, StaLeft, AuthExpire, AgingBeacon, NoFlush, mapVars, qVars, staVars,
         vars
    <2> QED BY <2>1, MustSame DEF TimComes
  <1> QED BY <1>1, <1>2, <1>3, <1>4, <1>5, <1>6, <1>7, <1>8, <1>9, <1>10, <1>11, Zenon DEF Steps

LEMMA StaAnnouncedStep ==
  ASSUME TimHolds, TimComes
  PROVE  StaAnnounced'
  BY DEF TimHolds, TimComes, StaAnnounced

LEMMA GroupAnnouncedStep ==
  ASSUME Types, QueueTypes, Arrays, Counting, AidInv, NoIdQueue, NoIdBits, GroupAnnounced,
         [Steps]_vars
  PROVE  GroupAnnounced'
  <1> USE SleepAssumption DEF GroupAnnounced, NoIdBits, AidInv, Types, StaTypes, RxTypes,
         CmdTypes, Arrays, Dest, Lost
  <1>1. ASSUME TxGroup PROVE GroupAnnounced'
    BY <1>1 DEF TxGroup, TxGroupBuffered, staVars, SetTim, _update_beacon, NoBeaconUpdate
  <1>2. ASSUME NEW s \in Sta, NEW ac \in AC, TxUnicast(s, ac) PROVE GroupAnnounced'
    BY <1>2 DEF TxUnicast, TxUnicastBuffered, staVars, SetTim, NoBeaconUpdate, _update_beacon
  <1>3. ASSUME NEW s \in Sta, NEW ac \in AC \cup {None}, RxSleeps(s, ac) PROVE GroupAnnounced'
    <2>1. stop_sta_xmit(s) /\ disturbed \subseteq disturbed'
      BY <1>3 DEF RxSleeps
    <2>2. PICK g : g = Pending(BMC)
      OBVIOUS
    <2>3. PICK q : sleepq' = [sleepq EXCEPT ![s] = @ \o q, ![BMC] = @ \o g]
      BY <2>1, <2>2 DEF stop_sta_xmit
    <2>4. /\ tim \subseteq tim' /\ dz \subseteq dz'
          /\ g # <<>> => BMC \in tim' /\ BMC \in dz'
      BY <2>1, <2>2 DEF stop_sta_xmit, SetTim
    <2>5. CASE g = <<>>
      <3>1. sleepq[BMC] \in Seq(AC) /\ sleepq'[BMC] = sleepq[BMC] \o <<>>
        BY <2>3, <2>5 DEF QueueTypes
      <3>2. sleepq'[BMC] = sleepq[BMC]
        BY <3>1
      <3> QED BY <2>1, <2>4, <3>2
    <2>6. CASE g # <<>>
      BY <2>4, <2>6
    <2> QED BY <2>5, <2>6
  <1>4. ASSUME NEW s \in Sta, NEW ac \in AC \cup {None}, RxWakes(s, ac) PROVE GroupAnnounced'
    <2>1. wakeup_sta_to_xmit(s) /\ disturbed' = disturbed
      BY <1>4 DEF RxWakes
    <2>2. CASE FlushGroup(s)
      <3>1. sleepq'[BMC] = <<>>
        BY <2>1, <2>2, WakeMoves DEF Emptied
      <3> QED BY <3>1
    <2>3. CASE ~FlushGroup(s)
      <3>1. sleepq'[BMC] = sleepq[BMC]
        BY <2>1, <2>3, WakeMoves DEF Same
      <3>2. /\ tim \ tim' \subseteq {aid[s]} /\ dz \ dz' \subseteq {aid[s]}
        BY <2>1, <2>3 DEF wakeup_sta_to_xmit, TimAfter, DzAfter
      <3>3. aid[s] # BMC \/ BMC \in disturbed
        BY <1>4 DEF RxWakes
      <3> QED BY <2>1, <3>1, <3>2, <3>3
    <2> QED BY <2>2, <2>3
  <1>5. ASSUME NEW s \in Sta, WmmDeliver(s) PROVE GroupAnnounced'
    <2>1. Same(BMC)
      BY <1>5, DeliverMoves DEF WmmDeliver
    <2>2. /\ disturbed' = disturbed /\ dz' = dz /\ tim \ tim' \subseteq {aid[s]}
          /\ "sleep" \in st[s]
      BY <1>5 DEF WmmDeliver, xmit_delivery_enabled_frames, SetTim
    <2> QED BY <2>1, <2>2 DEF Same
  <1>6. ASSUME NEW s \in Sta, PollFrame(s) PROVE GroupAnnounced'
    BY <1>6 DEF PollFrame, SetTim, _update_beacon, NoBeaconUpdate
  <1>7. ASSUME RxPolled PROVE GroupAnnounced'
    BY <1>7 DEF RxPolled, Idle, staVars, mapVars
  <1>8. ASSUME RxPollClear PROVE GroupAnnounced'
    BY <1>8 DEF RxPollClear, SetTim, Idle, staVars, qVars, _update_beacon, NoBeaconUpdate
  <1>9. ASSUME NEW s \in Sta, NEW u \in Uapsd, OnAssocReq(s, u) PROVE GroupAnnounced'
    BY <1>9 DEF OnAssocReq, Idle, mapVars, qVars
  <1>10. ASSUME ExpireMarkStore PROVE GroupAnnounced'
    BY <1>10 DEF ExpireMarkStore, mapVars, qVars
  <1>11. ASSUME ExpireTim PROVE GroupAnnounced'
    BY <1>11 DEF ExpireTim, SetTim, staVars, qVars, _update_beacon, NoBeaconUpdate
  <1>12. ASSUME StaLeft PROVE GroupAnnounced'
    BY <1>12 DEF StaLeft, SetTim, staVars, qVars, _update_beacon, NoBeaconUpdate
  <1>13. ASSUME rtw_free_stainfo PROVE GroupAnnounced'
    BY <1>13 DEF rtw_free_stainfo, Idle
  <1>14. ASSUME NEW s \in Sta, ExpireAging(s) PROVE GroupAnnounced'
    <2>1. wakeup_sta_to_xmit(s) /\ disturbed' = disturbed
      BY <1>14 DEF ExpireAging
    <2>2. CASE FlushGroup(s)
      <3>1. sleepq'[BMC] = <<>>
        BY <2>1, <2>2, WakeMoves DEF Emptied
      <3> QED BY <3>1
    <2>3. CASE ~FlushGroup(s)
      <3>1. sleepq'[BMC] = sleepq[BMC]
        BY <2>1, <2>3, WakeMoves DEF Same
      <3>2. /\ tim \ tim' \subseteq {aid[s]} /\ dz \ dz' \subseteq {aid[s]}
        BY <2>1, <2>3 DEF wakeup_sta_to_xmit, TimAfter, DzAfter
      <3>3. aid[s] # BMC \/ BMC \in disturbed
        BY <1>14 DEF ExpireAging
      <3> QED BY <2>1, <3>1, <3>2, <3>3
    <2> QED BY <2>2, <2>3
  <1>15. ASSUME FlushBmc PROVE GroupAnnounced'
    BY <1>15 DEF FlushBmc, staVars, mapVars
  <1>16. ASSUME \/ TxHal \/ RxBeacon \/ WmmNull \/ AkaAlive \/ AkaDead \/ AgingBeacon \/ NoFlush
               \/ UNCHANGED vars
               \/ (\E x \in Dest, ac \in AC : TxPasses(x, ac) \/ HalTake(x, ac))
               \/ (\E s \in Sta, ac \in AC \cup {None} : RxTrigger(s, ac))
               \/ (\E s \in Sta : PollEmpty(s) \/ OnAuth(s) \/ ExpireMark(s)
                        \/ ExpireCheck(s) \/ AuthExpire(s))
        PROVE GroupAnnounced'
    <2> HIDE DEF GroupAnnounced, NoIdBits, AidInv, Types, StaTypes, RxTypes, CmdTypes, Arrays,
         Dest, Lost
    <2>1. UNCHANGED <<disturbed, dz, sleepq, tim>>
      BY <1>16, Zenon DEF TxPasses, TxHal, HalTake, RxTrigger, RxBeacon, WmmNull, PollEmpty,
         OnAuth, ExpireMark, ExpireCheck, AkaAlive, AkaDead, AuthExpire, AgingBeacon, NoFlush,
         mapVars, qVars, staVars, vars
    <2> QED BY <2>1 DEF GroupAnnounced, NoIdBits, AidInv, Types, StaTypes, RxTypes, CmdTypes,
         Arrays, Dest, Lost
  <1> QED BY <1>1, <1>2, <1>3, <1>4, <1>5, <1>6, <1>7, <1>8, <1>9, <1>10, <1>11, <1>12, <1>13,
         <1>14, <1>15, <1>16, Zenon DEF Steps

-----------------------------------------------------------------------------
(* The doze bits                                                           *)

DozeOf(s) ==
  /\ ("sleep" \in st[s]) = (aid[s] \in dz)
  /\ "sleep" \notin st[s] => sleepq[s] = <<>>

LEMMA DozeStep ==
  ASSUME Types, QueueTypes, Arrays, Counting, AidInv, NoIdQueue, NoIdBits,
         DozeAgrees, \A x \in Dest : LenExact(x), [Steps]_vars
  PROVE  DozeAgrees'
  <1> USE SleepAssumption DEF DozeAgrees, DozeOf, NoIdQueue, NoIdBits, AidInv, Types, StaTypes,
         RxTypes, CmdTypes, Bits, Arrays, Dest
  <1>1. ASSUME TxGroup PROVE DozeAgrees'
    BY <1>1 DEF TxGroup, TxGroupBuffered, staVars, SetTim, _update_beacon, NoBeaconUpdate
  <1>2. ASSUME NEW s \in Sta, NEW ac \in AC, TxUnicast(s, ac) PROVE DozeAgrees'
    BY <1>2 DEF TxUnicast, TxUnicastBuffered, staVars, SetTim, NoBeaconUpdate, _update_beacon
  <1>3. ASSUME NEW s \in Sta, NEW ac \in AC \cup {None}, RxSleeps(s, ac) PROVE DozeAgrees'
    <2>1. stop_sta_xmit(s) /\ disturbed \subseteq disturbed' /\ (aid[s] = BMC => s \in disturbed')
      BY <1>3 DEF RxSleeps
    <2>2. \A z \in Sta \ {s} : sleepq'[z] = sleepq[z]
      BY <2>1, StopMoves DEF Same
    <2>3. /\ aid' = aid /\ st' = [st EXCEPT ![s] = @ \cup {"sleep"}]
          /\ dz \cup {aid[s]} \subseteq dz' /\ dz' \subseteq dz \cup {aid[s], BMC}
      BY <2>1 DEF stop_sta_xmit
    <2> QED BY <2>1, <2>2, <2>3
  <1>4. ASSUME NEW s \in Sta, NEW ac \in AC \cup {None}, RxWakes(s, ac) PROVE DozeAgrees'
    <2>1. wakeup_sta_to_xmit(s) /\ disturbed' = disturbed
      BY <1>4 DEF RxWakes
    <2>2. sleepq'[s] = <<>> /\ \A z \in Sta \ {s} : sleepq'[z] = sleepq[z]
      BY <2>1, WakeMoves DEF Emptied, Same
    <2>3. s \notin disturbed => Woken(s)
      <3>1. ASSUME s \notin disturbed PROVE Minus(len[s], Len(sleepq[s])) = 0
        <4>1. PICK n \in 0..U32 - 1 : n = len[s]
          BY DEF Counting, Numbers
        <4>2. len[s] = Len(sleepq[s])
          BY <3>1 DEF LenExact
        <4>3. n \in Nat /\ n - n \in 0..U32 - 1 /\ n - n = 0
          BY <4>1
        <4>4. Minus(n, n) = 0
          BY <4>3, Exact
        <4> QED BY <4>1, <4>2, <4>4
      <3> QED BY <3>1 DEF Woken
    <2>4. /\ aid' = aid
          /\ st' = [st EXCEPT ![s] = IF Woken(s) THEN @ \ {"sleep", "alive"} ELSE @]
          /\ dz' = IF DzAfter(s) \subseteq {BMC} THEN {} ELSE DzAfter(s)
          /\ DzAfter(s) = IF Woken(s) THEN dz \ {aid[s]} ELSE dz
      BY <2>1 DEF wakeup_sta_to_xmit, FlushGroup, DzAfter
    <2>5. ASSUME NEW z \in Sta \ {s}, "linked" \in st[z], z \notin disturbed
          PROVE  DozeOf(z)'
      BY <2>2, <2>4, <2>5
    <2>6. ASSUME "linked" \in st[s], s \notin disturbed PROVE DozeOf(s)'
      BY <2>2, <2>3, <2>4, <2>6
    <2> QED BY <2>1, <2>4, <2>5, <2>6
  <1>5. ASSUME NEW s \in Sta, WmmDeliver(s) PROVE DozeAgrees'
    <2>1. \A z \in Sta \ {s} : sleepq'[z] = sleepq[z]
      BY <1>5, DeliverMoves DEF WmmDeliver, Same
    <2>2. UNCHANGED <<st, aid, dz, disturbed>> /\ "sleep" \in st[s]
      BY <1>5 DEF WmmDeliver, staVars
    <2> QED BY <2>1, <2>2
  <1>6. ASSUME NEW s \in Sta, PollFrame(s) PROVE DozeAgrees'
    BY <1>6 DEF PollFrame, SetTim, _update_beacon, NoBeaconUpdate
  <1>7. ASSUME NEW s \in Sta, PollEmpty(s) PROVE DozeAgrees'
    BY <1>7 DEF PollEmpty, Idle, mapVars, qVars
  <1>8. ASSUME RxPolled PROVE DozeAgrees'
    BY <1>8 DEF RxPolled, Idle, staVars, mapVars
  <1>9. ASSUME RxPollClear PROVE DozeAgrees'
    BY <1>9 DEF RxPollClear, SetTim, Idle, staVars, qVars, _update_beacon, NoBeaconUpdate
  <1>10. ASSUME NEW s \in Sta, OnAuth(s) PROVE DozeAgrees'
    BY <1>10 DEF OnAuth, Idle, mapVars, qVars
  <1>11. ASSUME NEW s \in Sta, NEW u \in Uapsd, OnAssocReq(s, u) PROVE DozeAgrees'
    BY <1>11 DEF OnAssocReq, Idle, mapVars, qVars
  <1>12. ASSUME ExpireMarkStore PROVE DozeAgrees'
    BY <1>12 DEF ExpireMarkStore, mapVars, qVars
  <1>13. ASSUME ExpireTim PROVE DozeAgrees'
    BY <1>13 DEF ExpireTim, SetTim, staVars, qVars, _update_beacon, NoBeaconUpdate
  <1>14. ASSUME AkaDead PROVE DozeAgrees'
    BY <1>14 DEF AkaDead, mapVars, qVars
  <1>15. ASSUME StaLeft PROVE DozeAgrees'
    BY <1>15 DEF StaLeft, SetTim, staVars, qVars, _update_beacon, NoBeaconUpdate
  <1>16. ASSUME rtw_free_stainfo PROVE DozeAgrees'
    BY <1>16 DEF rtw_free_stainfo, Idle
  <1>17. ASSUME NEW s \in Sta, ExpireAging(s) PROVE DozeAgrees'
    <2>1. wakeup_sta_to_xmit(s) /\ disturbed' = disturbed
      BY <1>17 DEF ExpireAging
    <2>2. sleepq'[s] = <<>> /\ \A z \in Sta \ {s} : sleepq'[z] = sleepq[z]
      BY <2>1, WakeMoves DEF Emptied, Same
    <2>3. s \notin disturbed => Woken(s)
      <3>1. ASSUME s \notin disturbed PROVE Minus(len[s], Len(sleepq[s])) = 0
        <4>1. PICK n \in 0..U32 - 1 : n = len[s]
          BY DEF Counting, Numbers
        <4>2. len[s] = Len(sleepq[s])
          BY <3>1 DEF LenExact
        <4>3. n \in Nat /\ n - n \in 0..U32 - 1 /\ n - n = 0
          BY <4>1
        <4>4. Minus(n, n) = 0
          BY <4>3, Exact
        <4> QED BY <4>1, <4>2, <4>4
      <3> QED BY <3>1 DEF Woken
    <2>4. /\ aid' = aid
          /\ st' = [st EXCEPT ![s] = IF Woken(s) THEN @ \ {"sleep", "alive"} ELSE @]
          /\ dz' = IF DzAfter(s) \subseteq {BMC} THEN {} ELSE DzAfter(s)
          /\ DzAfter(s) = IF Woken(s) THEN dz \ {aid[s]} ELSE dz
      BY <2>1 DEF wakeup_sta_to_xmit, FlushGroup, DzAfter
    <2>5. ASSUME NEW z \in Sta \ {s}, "linked" \in st[z], z \notin disturbed
          PROVE  DozeOf(z)'
      BY <2>2, <2>4, <2>5
    <2>6. ASSUME "linked" \in st[s], s \notin disturbed PROVE DozeOf(s)'
      BY <2>2, <2>3, <2>4, <2>6
    <2> QED BY <2>1, <2>4, <2>5, <2>6
  <1>18. ASSUME FlushBmc PROVE DozeAgrees'
    BY <1>18 DEF FlushBmc, staVars, mapVars
  <1>19. ASSUME \/ TxHal \/ RxBeacon \/ WmmNull \/ AkaAlive \/ AgingBeacon \/ NoFlush
               \/ UNCHANGED vars
               \/ (\E x \in Dest, ac \in AC : TxPasses(x, ac) \/ HalTake(x, ac))
               \/ (\E s \in Sta, ac \in AC \cup {None} : RxTrigger(s, ac))
               \/ (\E s \in Sta : ExpireMark(s) \/ ExpireCheck(s) \/ AuthExpire(s))
        PROVE DozeAgrees'
    <2> HIDE DEF DozeAgrees, DozeOf, NoIdQueue, NoIdBits, AidInv, Types, StaTypes, RxTypes,
         CmdTypes, Bits, Arrays, Dest
    <2>1. UNCHANGED <<aid, disturbed, dz, sleepq, st>>
      BY <1>19, Zenon DEF TxPasses, TxHal, HalTake, RxTrigger, RxBeacon, WmmNull, ExpireMark,
         ExpireCheck, AkaAlive, AuthExpire, AgingBeacon, NoFlush, mapVars, qVars, staVars, vars
    <2> QED BY <2>1 DEF DozeAgrees, DozeOf, NoIdQueue, NoIdBits, AidInv, Types, StaTypes,
         RxTypes, CmdTypes, Bits, Arrays, Dest
  <1> QED BY <1>1, <1>2, <1>3, <1>4, <1>5, <1>6, <1>7, <1>8, <1>9, <1>10, <1>11, <1>12, <1>13,
         <1>14, <1>15, <1>16, <1>17, <1>18, <1>19, Zenon DEF Steps

-----------------------------------------------------------------------------
(* The TIM element, as long as no step outside the lock disturbed anything *)

\* A station without an id, or about to be freed, has no TIM bit of its own.
TimInv ==
  /\ \A s \in Sta : aid[s] = BMC => s \notin tim
  /\ cmd.pc = "free" => cmd.s \notin tim
BeaconSame == rx.pc # "bcn" /\ cmd.pc # "bcn" => \A s \in Sta : (s \in ie) = (s \in tim)

LEMMA TimInvStep ==
  ASSUME Types, AidInv, TimInv, disturbed' = {}, [Steps]_vars
  PROVE  TimInv'
  <1> USE SleepAssumption DEF TimInv, AidInv, Types, StaTypes, RxTypes, CmdTypes, Dest, Lost
  <1>1. ASSUME TxGroup PROVE TimInv'
    BY <1>1 DEF TxGroup, TxGroupBuffered, staVars, SetTim, _update_beacon, NoBeaconUpdate
  <1>2. ASSUME NEW s \in Sta, NEW ac \in AC, TxUnicast(s, ac) PROVE TimInv'
    BY <1>2 DEF TxUnicast, TxUnicastBuffered, staVars, SetTim, NoBeaconUpdate, _update_beacon
  <1>3. ASSUME NEW s \in Sta, NEW ac \in AC \cup {None}, RxSleeps(s, ac) PROVE TimInv'
    BY <1>3 DEF RxSleeps, stop_sta_xmit, AfterData, Idle, SetTim, _update_beacon, NoBeaconUpdate
  <1>4. ASSUME NEW s \in Sta, NEW ac \in AC \cup {None}, RxWakes(s, ac) PROVE TimInv'
    BY <1>4 DEF RxWakes, wakeup_sta_to_xmit, AfterData, Idle, DzAfter, TimAfter
  <1>5. ASSUME NEW s \in Sta, WmmDeliver(s) PROVE TimInv'
    BY <1>5 DEF WmmDeliver, xmit_delivery_enabled_frames, Idle, staVars, SetTim, _update_beacon,
         NoBeaconUpdate
  <1>6. ASSUME NEW s \in Sta, PollFrame(s) PROVE TimInv'
    BY <1>6 DEF PollFrame, SetTim, _update_beacon, NoBeaconUpdate
  <1>7. ASSUME RxPollClear PROVE TimInv'
    BY <1>7 DEF RxPollClear, SetTim, Idle, staVars, qVars, _update_beacon, NoBeaconUpdate
  <1>8. ASSUME NEW s \in Sta, NEW u \in Uapsd, OnAssocReq(s, u) PROVE TimInv'
    BY <1>8 DEF OnAssocReq, Idle, mapVars, qVars
  <1>9. ASSUME NEW s \in Sta, ExpireMark(s) PROVE TimInv'
    BY <1>9 DEF ExpireMark, Idle, staVars, mapVars, qVars
  <1>10. ASSUME ExpireMarkStore PROVE TimInv'
    BY <1>10 DEF ExpireMarkStore, mapVars, qVars
  <1>11. ASSUME ExpireTim PROVE TimInv'
    BY <1>11 DEF ExpireTim, SetTim, staVars, qVars, _update_beacon, NoBeaconUpdate
  <1>12. ASSUME NEW s \in Sta, ExpireCheck(s) PROVE TimInv'
    BY <1>12 DEF ExpireCheck, Idle, staVars, mapVars, qVars
  <1>13. ASSUME AkaAlive PROVE TimInv'
    BY <1>13 DEF AkaAlive, Idle, staVars, mapVars, qVars
  <1>14. ASSUME AkaDead PROVE TimInv'
    BY <1>14 DEF AkaDead, mapVars, qVars
  <1>15. ASSUME StaLeft PROVE TimInv'
    BY <1>15 DEF StaLeft, SetTim, staVars, qVars, _update_beacon, NoBeaconUpdate
  <1>16. ASSUME NEW s \in Sta, AuthExpire(s) PROVE TimInv'
    BY <1>16 DEF AuthExpire, Idle, staVars, mapVars, qVars
  <1>17. ASSUME rtw_free_stainfo PROVE TimInv'
    BY <1>17 DEF rtw_free_stainfo, Idle
  <1>18. ASSUME NEW s \in Sta, ExpireAging(s) PROVE TimInv'
    BY <1>18 DEF ExpireAging, wakeup_sta_to_xmit, Idle, DzAfter, TimAfter
  <1>19. ASSUME AgingBeacon PROVE TimInv'
    BY <1>19 DEF AgingBeacon, _update_beacon, Idle, staVars, qVars
  <1>20. ASSUME \/ TxHal \/ RxBeacon \/ WmmNull \/ RxPolled \/ FlushBmc \/ NoFlush
               \/ UNCHANGED vars
               \/ (\E x \in Dest, ac \in AC : TxPasses(x, ac) \/ HalTake(x, ac))
               \/ (\E s \in Sta, ac \in AC \cup {None} : RxTrigger(s, ac))
               \/ (\E s \in Sta : PollEmpty(s) \/ OnAuth(s))
        PROVE TimInv'
    <2> HIDE DEF TimInv, AidInv, Types, StaTypes, RxTypes, CmdTypes, Dest, Lost
    <2>1. UNCHANGED <<aid, cmd, tim>>
      BY <1>20, Zenon DEF TxPasses, TxHal, HalTake, RxTrigger, RxBeacon, WmmNull, PollEmpty,
         RxPolled, OnAuth, FlushBmc, NoFlush, mapVars, qVars, staVars, vars
    <2> QED BY <2>1 DEF TimInv, AidInv, Types, StaTypes, RxTypes, CmdTypes, Dest, Lost
  <1> QED BY <1>1, <1>2, <1>3, <1>4, <1>5, <1>6, <1>7, <1>8, <1>9, <1>10, <1>11, <1>12, <1>13,
         <1>14, <1>15, <1>16, <1>17, <1>18, <1>19, <1>20, Zenon DEF Steps

LEMMA BeaconStep ==
  ASSUME Types, AidInv, TimInv, BeaconSame, disturbed' = {}, [Steps]_vars
  PROVE  BeaconSame'
  <1> USE SleepAssumption DEF BeaconSame, TimInv, AidInv, Types, StaTypes, RxTypes, CmdTypes,
         Dest, Lost
  <1>1. ASSUME TxGroup PROVE BeaconSame'
    BY <1>1 DEF TxGroup, TxGroupBuffered, staVars, SetTim, _update_beacon, NoBeaconUpdate
  <1>2. ASSUME NEW s \in Sta, NEW ac \in AC, TxUnicast(s, ac) PROVE BeaconSame'
    BY <1>2 DEF TxUnicast, TxUnicastBuffered, staVars, SetTim, NoBeaconUpdate, _update_beacon
  <1>3. ASSUME NEW s \in Sta, NEW ac \in AC \cup {None}, RxSleeps(s, ac) PROVE BeaconSame'
    BY <1>3 DEF RxSleeps, stop_sta_xmit, AfterData, Idle, SetTim, _update_beacon, NoBeaconUpdate
  <1>4. ASSUME NEW s \in Sta, NEW ac \in AC \cup {None}, RxWakes(s, ac) PROVE BeaconSame'
    <2>1. /\ rx.pc = "idle" /\ cmd' = cmd /\ ie' = ie /\ tim' = TimAfter(s)
          /\ IF TimMasked(s) THEN rx'.pc = "bcn" ELSE rx'.pc # "bcn"
      BY <1>4 DEF RxWakes, wakeup_sta_to_xmit, AfterData, Idle
    <2>2. CASE TimMasked(s)
      BY <2>1, <2>2
    <2>3. CASE ~TimMasked(s)
      <3>1. tim' = tim
        BY <2>1, <2>3 DEF TimMasked
      <3> QED BY <2>1, <3>1
    <2> QED BY <2>2, <2>3
  <1>5. ASSUME NEW s \in Sta, NEW ac \in AC \cup {None}, RxTrigger(s, ac) PROVE BeaconSame'
    BY <1>5 DEF RxTrigger, AfterData, Idle, staVars, mapVars, qVars
  <1>6. ASSUME RxBeacon PROVE BeaconSame'
    BY <1>6 DEF RxBeacon, _update_beacon, Idle, staVars, qVars
  <1>7. ASSUME NEW s \in Sta, WmmDeliver(s) PROVE BeaconSame'
    BY <1>7 DEF WmmDeliver, xmit_delivery_enabled_frames, Idle, staVars, SetTim, _update_beacon,
         NoBeaconUpdate
  <1>8. ASSUME WmmNull PROVE BeaconSame'
    BY <1>8 DEF WmmNull, Idle, staVars, mapVars, qVars
  <1>9. ASSUME NEW s \in Sta, PollFrame(s) PROVE BeaconSame'
    BY <1>9 DEF PollFrame, SetTim, _update_beacon, NoBeaconUpdate
  <1>10. ASSUME NEW s \in Sta, PollEmpty(s) PROVE BeaconSame'
    BY <1>10 DEF PollEmpty, Idle, mapVars, qVars
  <1>11. ASSUME RxPolled PROVE BeaconSame'
    BY <1>11 DEF RxPolled, Idle, staVars, mapVars
  <1>12. ASSUME RxPollClear PROVE BeaconSame'
    BY <1>12 DEF RxPollClear, SetTim, Idle, staVars, qVars, _update_beacon, NoBeaconUpdate
  <1>13. ASSUME NEW s \in Sta, ExpireMark(s) PROVE BeaconSame'
    BY <1>13 DEF ExpireMark, Idle, staVars, mapVars, qVars
  <1>14. ASSUME ExpireMarkStore PROVE BeaconSame'
    BY <1>14 DEF ExpireMarkStore, mapVars, qVars
  <1>15. ASSUME ExpireTim PROVE BeaconSame'
    BY <1>15 DEF ExpireTim, SetTim, staVars, qVars, _update_beacon, NoBeaconUpdate
  <1>16. ASSUME NEW s \in Sta, ExpireCheck(s) PROVE BeaconSame'
    BY <1>16 DEF ExpireCheck, Idle, staVars, mapVars, qVars
  <1>17. ASSUME AkaAlive PROVE BeaconSame'
    BY <1>17 DEF AkaAlive, Idle, staVars, mapVars, qVars
  <1>18. ASSUME AkaDead PROVE BeaconSame'
    BY <1>18 DEF AkaDead, mapVars, qVars
  <1>19. ASSUME StaLeft PROVE BeaconSame'
    BY <1>19 DEF StaLeft, SetTim, staVars, qVars, _update_beacon, NoBeaconUpdate
  <1>20. ASSUME NEW s \in Sta, AuthExpire(s) PROVE BeaconSame'
    BY <1>20 DEF AuthExpire, Idle, staVars, mapVars, qVars
  <1>21. ASSUME rtw_free_stainfo PROVE BeaconSame'
    BY <1>21 DEF rtw_free_stainfo, Idle
  <1>22. ASSUME NEW s \in Sta, ExpireAging(s) PROVE BeaconSame'
    <2>1. /\ cmd.pc = "idle" /\ rx' = rx /\ ie' = ie /\ tim' = TimAfter(s)
          /\ IF TimMasked(s) THEN cmd'.pc = "bcn" ELSE cmd'.pc # "bcn"
      BY <1>22 DEF ExpireAging, wakeup_sta_to_xmit, Idle
    <2>2. CASE TimMasked(s)
      BY <2>1, <2>2
    <2>3. CASE ~TimMasked(s)
      <3>1. tim' = tim
        BY <2>1, <2>3 DEF TimMasked
      <3> QED BY <2>1, <3>1
    <2> QED BY <2>2, <2>3
  <1>23. ASSUME AgingBeacon PROVE BeaconSame'
    BY <1>23 DEF AgingBeacon, _update_beacon, Idle, staVars, qVars
  <1>24. ASSUME \/ TxHal \/ FlushBmc \/ NoFlush \/ UNCHANGED vars
               \/ (\E x \in Dest, ac \in AC : TxPasses(x, ac) \/ HalTake(x, ac))
               \/ (\E s \in Sta : OnAuth(s))
               \/ (\E s \in Sta, u \in Uapsd : OnAssocReq(s, u))
        PROVE BeaconSame'
    <2> HIDE DEF BeaconSame, TimInv, AidInv, Types, StaTypes, RxTypes, CmdTypes, Dest, Lost
    <2>1. UNCHANGED <<cmd, ie, rx, tim>>
      BY <1>24, Zenon DEF TxPasses, TxHal, HalTake, OnAuth, OnAssocReq, FlushBmc, NoFlush,
         mapVars, qVars, staVars, vars
    <2> QED BY <2>1 DEF BeaconSame, TimInv, AidInv, Types, StaTypes, RxTypes, CmdTypes, Dest, Lost
  <1> QED BY <1>1, <1>2, <1>3, <1>4, <1>5, <1>6, <1>7, <1>8, <1>9, <1>10, <1>11, <1>12, <1>13,
         <1>14, <1>15, <1>16, <1>17, <1>18, <1>19, <1>20, <1>21, <1>22, <1>23, <1>24,
         Zenon DEF Steps

-----------------------------------------------------------------------------
(* The inductive invariant                                                 *)

Exacts == \A x \in Dest : LenExact(x) /\ AcExact(x)
QueueInv == QueueTypes /\ Arrays /\ Counting /\ PoolInv /\ Exacts
IdInv == AidInv /\ NoIdQueue /\ NoIdBits
SleepInv == Types /\ QueueInv /\ IdInv /\ StaAnnounced /\ GroupAnnounced /\ DozeAgrees

LEMMA InitInv ==
  ASSUME Init
  PROVE  SleepInv
  <1> USE SleepAssumption DEF Init
  <1>1. Types
    BY DEF Types, StaTypes, MapTypes, RxTypes, CmdTypes, HistoryTypes, Idle, RxPc, CmdPc, Bits, Dest
  <1>2. Counting
    <2>1. ASSUME NEW x \in Dest PROVE Numbers(x)
      <3>1. sleepq[x] = <<>> /\ len[x] = 0 /\ acLen[x] = 0 /\ pend[x] = NoPend
        OBVIOUS
      <3>2. <<>> \in Seq(AC) /\ NoPend \in [AC -> Nat] /\ 0 \in 0..U32 - 1
        BY DEF NoPend
      <3> QED BY <3>1, <3>2, Zenon DEF Numbers
    <2> QED BY <2>1 DEF Counting
  <1>3. Arrays
    BY DEF Arrays
  <1>4. QueueTypes
    BY <1>2, <1>3 DEF Counting, Numbers, Arrays, QueueTypes
  <1>5. PoolInv
    <2>1. ASSUME NEW x \in Dest, NEW f \in Frames(x) PROVE FALSE
      <3>1. sleepq[x] = <<>> /\ pend[x] = NoPend /\ Len(<<>>) = 0 /\ 0 \in Nat
        OBVIOUS
      <3>2. NoPend \in [AC -> Nat] /\ \A c \in AC : NoPend[c] = 0
        BY DEF NoPend
      <3>3. f \in FrameSet(0, NoPend)
        BY <2>1, <3>1, FramesAre
      <3>4. (\E i \in 1..0 : f = <<0, i>>) \/ \E c \in AC : \E i \in 1..NoPend[c] : f = <<c, i>>
        BY <3>1, <3>2, <3>3, FrameIn
      <3> QED BY <3>2, <3>4
    <2>2. All = {}
      BY <2>1 DEF All
    <2>3. IsFiniteSet(All) /\ Cardinality(All) = 0
      BY <2>2, FS_EmptySet
    <2> QED BY <2>3, UsedIs DEF PoolInv
  <1>6. Exacts
    <2>1. Len(<<>>) = 0 /\ \A A : Count(<<>>, A) = 0
      BY CountEmpty
    <2>2. \A x \in Dest : sleepq[x] = <<>> /\ len[x] = 0 /\ acLen[x] = 0
      OBVIOUS
    <2> QED BY <2>1, <2>2, Zenon DEF Exacts, LenExact, AcExact
  <1>7. IdInv
    BY DEF IdInv, AidInv, NoIdQueue, NoIdBits, Idle, Dest
  <1>8. StaAnnounced /\ GroupAnnounced /\ DozeAgrees
    BY DEF StaAnnounced, GroupAnnounced, DozeAgrees, Dest
  <1> QED BY <1>1, <1>2, <1>3, <1>4, <1>5, <1>6, <1>7, <1>8, Zenon DEF SleepInv, QueueInv

LEMMA QueueStep ==
  ASSUME SleepInv, [Steps]_vars
  PROVE  QueueInv'
  <1>1. /\ Types /\ QueueTypes /\ Arrays /\ Counting /\ PoolInv
        /\ \A x \in Dest : LenExact(x) /\ AcExact(x)
    BY Zenon DEF SleepInv, QueueInv, Exacts
  <1>2. FramesMove /\ Arrays' /\ \A x \in Dest : Tracked(x)
    BY <1>1, Moves, ArraysStep, Tracks
  <1>3. \A x \in Dest : Settles(x) \/ Grows(x)
    <2>1. CASE FramesStay
      BY <2>1 DEF FramesStay
    <2>2. CASE \E x \in Dest : OneMore(x)
      BY <2>2 DEF OneMore, Grows, Settles
    <2> QED BY <1>2, <2>1, <2>2 DEF FramesMove
  <1>4. Counting'
    BY <1>1, <1>3, NumbersKept DEF Counting
  <1>5. QueueTypes'
    <2>1. \A x \in Dest : sleepq'[x] \in Seq(AC) /\ pend'[x] \in [AC -> Nat]
      BY <1>4 DEF Counting, Numbers
    <2>2. sleepq' = [x \in Dest |-> sleepq'[x]] /\ pend' = [x \in Dest |-> pend'[x]]
      BY <1>2 DEF Arrays
    <2> QED BY <2>1, <2>2 DEF QueueTypes
  <1>6. PoolInv'
    BY <1>1, <1>2, PoolStep
  <1>7. ASSUME NEW x \in Dest PROVE (LenExact(x) /\ AcExact(x))'
    <2>1. Len(sleepq'[x]) \in 0..U32 - 1
      BY <1>4, <1>6, BoundAfter
    <2>2. Numbers(x) /\ LenExact(x) /\ AcExact(x) /\ (Settles(x) \/ Grows(x)) /\ Tracked(x)
      BY <1>1, <1>2, <1>3 DEF Counting
    <2> QED BY <2>1, <2>2, LenStep, AcStep
  <1>8. Exacts'
    BY <1>7 DEF Exacts
  <1> QED BY <1>2, <1>4, <1>5, <1>6, <1>8, Zenon DEF QueueInv

LEMMA TypesStep ==
  ASSUME SleepInv, [Steps]_vars
  PROVE  Types'
  <1>1. Types /\ StaTypes /\ MapTypes /\ RxTypes /\ CmdTypes /\ HistoryTypes
    BY Zenon DEF SleepInv, Types
  <1>2. StaTypes' /\ MapTypes'
    BY <1>1, StaTypesStep, MapTypesStep, Zenon
  <1>3. RxTypes' /\ CmdTypes' /\ HistoryTypes'
    BY <1>1, RxTypesStep, CmdTypesStep, HistoryTypesStep, Zenon
  <1> QED BY <1>2, <1>3, Zenon DEF Types

LEMMA SleepStep ==
  ASSUME SleepInv, [Next]_vars
  PROVE  SleepInv'
  <1>1. [Steps]_vars
    <2>1. rx.pc # "idle" => rx.s \in Sta
      BY DEF SleepInv, Types, RxTypes
    <2> QED BY <2>1, NextSteps, Zenon
  <1>2. /\ Types /\ StaTypes /\ CmdTypes /\ QueueTypes /\ Arrays /\ Counting
        /\ AidInv /\ NoIdQueue /\ NoIdBits
        /\ StaAnnounced /\ GroupAnnounced /\ DozeAgrees
        /\ \A x \in Dest : LenExact(x)
    BY Zenon DEF SleepInv, Types, QueueInv, IdInv, Exacts
  <1>3. Types' /\ QueueInv'
    BY <1>1, TypesStep, QueueStep, Zenon
  <1>4. IdInv'
    BY <1>1, <1>2, AidStep, NoIdQueueStep, NoIdBitsStep, Zenon DEF IdInv
  <1>5. StaAnnounced'
    <2>1. TimHolds /\ TimComes
      BY <1>1, <1>2, TimHoldsStep, TimComesStep, Zenon
    <2> QED BY <2>1, StaAnnouncedStep, Zenon
  <1>6. GroupAnnounced'
    BY <1>1, <1>2, GroupAnnouncedStep, Zenon
  <1>7. DozeAgrees'
    BY <1>1, <1>2, DozeStep, Zenon
  <1> QED BY <1>3, <1>4, <1>5, <1>6, <1>7, Zenon DEF SleepInv

LEMMA Invariance == Spec => []SleepInv
  BY InitInv, SleepStep, PTL DEF Spec

-----------------------------------------------------------------------------
(* Theorems                                                                *)

\* Every path that moves frames (sending, stop_sta_xmit, wakeup_sta_to_xmit,
\* xmit_delivery_enabled_frames, PS-Poll, the group flush, rtw_free_stainfo)
\* keeps the maps, the counts and the queues in their types, and no frame is
\* in two queues: together they never hold more than NR_XMITFRAME.
THEOREM TypeCorrect == Spec => []TypeOK
  <1>1. SleepInv => TypeOK
    <2>1. SUFFICES ASSUME SleepInv PROVE TypeOK
      OBVIOUS
    <2>2. StaTypes /\ MapTypes /\ QueueTypes /\ Arrays /\ Counting /\ PoolInv
      BY <2>1, Zenon DEF SleepInv, Types, QueueInv
    <2>3. len \in [Dest -> 0..U32 - 1] /\ acLen \in [Dest -> 0..U32 - 1]
      BY <2>2 DEF Arrays, Counting, Numbers
    <2> QED BY <2>2, <2>3 DEF TypeOK, StaTypes, MapTypes, QueueTypes, PoolInv, Bits
  <1> QED BY <1>1, Invariance, PTL

\* sleepq_len is exact for every destination no unlocked step disturbed, and
\* sleepq_ac_len for every such station no PS-Poll took a delivery-enabled
\* frame from, however many frames wait and whatever order they leave in:
\* wakeup_sta_to_xmit relies on the one, process_wmmps_data on the other.
THEOREM CountsCorrect == Spec => []CountersExact
  <1>1. SleepInv => CountersExact
    <2>1. SUFFICES ASSUME SleepInv PROVE CountersExact
      OBVIOUS
    <2>2. \A x \in Dest : LenExact(x) /\ AcExact(x)
      BY <2>1, Zenon DEF SleepInv, QueueInv, Exacts
    <2>3. \A s \in Sta : CountWmm(s, sleepq[s]) = Count(sleepq[s], Cats(s))
      BY CountIs
    <2> QED BY <2>2, <2>3 DEF CountersExact, LenExact, AcExact, Dest
  <1> QED BY <1>1, Invariance, PTL

\* A buffered frame that needs the TIM bit of its station keeps it, and group
\* frames wait only under bit 0 of both maps, whatever rtw_free_stainfo, the
\* expiry check, PS-Poll and wakeup_sta_to_xmit do to other stations meanwhile.
THEOREM AnnouncedCorrect == Spec => []BufferedIsAnnounced
  <1>1. SleepInv => BufferedIsAnnounced
    BY DEF SleepInv, StaAnnounced, GroupAnnounced, BufferedIsAnnounced
  <1> QED BY <1>1, Invariance, PTL

\* The sleep bit of psta->state, the bit of sta_dz_bitmap and the sleep queue
\* of an associated station agree, although process_pwrbit_data reads the
\* first, rtw_xmit_posthandle the first two and stop_sta_xmit writes all.
THEOREM DozeCorrect == Spec => []DozeAgrees
  <1>1. SleepInv => DozeAgrees
    BY DEF SleepInv
  <1> QED BY <1>1, Invariance, PTL

\* As long as no step outside pxmitpriv->lock has disturbed a destination, the
\* beacon agrees with the TIM map too, except while the beacon update after
\* wakeup_sta_to_xmit is still to come.
THEOREM MapsCorrect == Spec /\ []Undisturbed => []MapsAgree
  <1>1. Init => TimInv /\ BeaconSame
    BY SleepAssumption DEF Init, TimInv, BeaconSame, Idle
  <1>2. SleepInv /\ TimInv /\ BeaconSame /\ Undisturbed' /\ [Next]_vars => TimInv' /\ BeaconSame'
    <2>1. SUFFICES ASSUME SleepInv, TimInv, BeaconSame, Undisturbed', [Next]_vars
                   PROVE  TimInv' /\ BeaconSame'
      OBVIOUS
    <2>2. [Steps]_vars
      <3>1. rx.pc # "idle" => rx.s \in Sta
        BY <2>1 DEF SleepInv, Types, RxTypes
      <3> QED BY <2>1, <3>1, NextSteps, Zenon
    <2>3. Types /\ AidInv /\ disturbed' = {}
      BY <2>1, Zenon DEF SleepInv, IdInv, Undisturbed
    <2> QED BY <2>1, <2>2, <2>3, TimInvStep, BeaconStep, Zenon
  <1>3. SleepInv /\ BeaconSame => MapsAgree
    BY DEF SleepInv, BeaconSame, MapsAgree, BeaconAgrees
  <1> QED BY <1>1, <1>2, <1>3, Invariance, PTL DEF Spec

=============================================================================
