------------------------- MODULE LoginThrottleProofs -------------------------
(***************************************************************************)
(* Proofs about LoginThrottle.  What a limiter stores of a key is the end  *)
(* of the record of all its failures in the window, behind entries that    *)
(* have left it; and every attempt that may still record a failure passed  *)
(* a check when fewer than Limit were recorded.                            *)
(***************************************************************************)
EXTENDS LoginThrottle, TLAPS, FiniteSetTheorems, SequenceTheorems, WellFoundedInduction

\* A record of failures within the window, oldest first.
Log(L) ==
    /\ L \in Seq(0 .. Window - 1)
    /\ \A i, j \in 1 .. Len(L) : i <= j => L[i] >= L[j]

Tracks(S, L) ==
    /\ S \in Seq(0 .. Window)
    /\ Len(S) <= Limit
    /\ Len(S) >= Limit \/ Len(S) >= Len(L)
    /\ \A i \in 1 .. Len(S) :
         S[i] = IF i + Len(L) > Len(S) THEN L[i + Len(L) - Len(S)] ELSE Window

Start(S, L) == IF Len(S) > Len(L) THEN Len(S) - Len(L) + 1 ELSE 1

LEMMA Element ==
    ASSUME NEW T, NEW s \in Seq(T), NEW i \in 1 .. Len(s)
    PROVE  s[i] \in T
OBVIOUS

\* A set of natural numbers has a least element.
LEMMA Least ==
    ASSUME NEW S \in SUBSET Nat, S # {}
    PROVE  \E m \in S : \A n \in S : m <= n
<1>1. \E m \in S : \A n \in S : ~ (<<n, m>> \in OpToRel(<, Nat))
  BY NatLessThanWellFounded, WFMin
<1>2. ASSUME NEW m \in S, NEW n \in S, ~ (<<n, m>> \in OpToRel(<, Nat)) PROVE m <= n
  <2>1. <<n, m>> \in Nat \X Nat
    OBVIOUS
  <2>2. ~ (n < m)
    BY <1>2, <2>1 DEF OpToRel
  <2>. QED
    BY <2>2
<1>. QED
  BY <1>1, <1>2

\* The loop of recent stops where the tracked part begins.
LEMMA FirstRecentIs ==
    ASSUME NEW S, NEW L, Log(L), Tracks(S, L)
    PROVE  FirstRecent(S) = Start(S, L)
<1>. DEFINE Is(i) == /\ \A j \in 1 .. i - 1 : S[j] >= Window
                     /\ i <= Len(S) => S[i] < Window
            n == Start(S, L)
<1>1. Len(S) \in Nat /\ Len(L) \in Nat /\ Window \in Nat \ {0}
  BY WindowAssumption DEF Log, Tracks
<1>2. n \in 1 .. Len(S) + 1
  BY <1>1 DEF Start
<1>3. Is(n)
  <2>1. ASSUME NEW j \in 1 .. n - 1 PROVE S[j] >= Window
    <3>1. j \in 1 .. Len(S) /\ ~ (j + Len(L) > Len(S))
      BY <1>1, <1>2 DEF Start
    <3>. QED
      BY <3>1, <1>1 DEF Tracks
  <2>2. ASSUME n <= Len(S) PROVE S[n] < Window
    <3>1. n \in 1 .. Len(S) /\ n + Len(L) > Len(S) /\ n + Len(L) - Len(S) \in 1 .. Len(L)
      <4>1. CASE Len(S) > Len(L)
        BY <1>1, <1>2, <2>2, <4>1 DEF Start
      <4>2. CASE ~ (Len(S) > Len(L))
        <5>1. n = 1
          BY <4>2 DEF Start
        <5>. QED
          BY <1>1, <5>1, <2>2, <4>2
      <4>. QED
        BY <4>1, <4>2
    <3>2. S[n] = L[n + Len(L) - Len(S)]
      BY <3>1 DEF Tracks
    <3>3. L[n + Len(L) - Len(S)] \in 0 .. Window - 1
      BY <3>1, Element DEF Log
    <3>. QED
      BY <3>2, <3>3, <1>1
  <2>. QED
    BY <2>1, <2>2
<1>4. ASSUME NEW i \in 1 .. Len(S) + 1, Is(i) PROVE i = n
  <2>0. \A j \in 1 .. Len(S) : S[j] \in 0 .. Window
    BY Element DEF Tracks
  <2>1. ~ (i < n)
    <3>1. SUFFICES ASSUME i < n PROVE FALSE
      OBVIOUS
    <3>2. i \in 1 .. n - 1 /\ i <= Len(S)
      BY <3>1, <1>1, <1>2
    <3>. QED
      BY <3>2, <1>3, <1>4, <2>0, <1>1
  <2>2. ~ (n < i)
    <3>1. SUFFICES ASSUME n < i PROVE FALSE
      OBVIOUS
    <3>2. n \in 1 .. i - 1 /\ n <= Len(S) /\ n \in 1 .. Len(S)
      BY <3>1, <1>1, <1>2
    <3>. QED
      BY <3>2, <1>3, <1>4, <2>0, <1>1
  <2>. QED
    BY <2>1, <2>2, <1>2, <1>1
<1>5. FirstRecent(S) = CHOOSE i \in 1 .. Len(S) + 1 : Is(i)
  BY DEF FirstRecent
<1>6. FirstRecent(S) = n
  <2>. HIDE DEF n, Is
  <2>. QED
    BY <1>2, <1>3, <1>4, <1>5
<1>. QED
  BY <1>6
EndOf(R, L) ==
    /\ R \in Seq(0 .. Window)
    /\ Len(R) <= Limit
    /\ Len(R) <= Len(L)
    /\ Len(R) >= Limit \/ Len(R) = Len(L)
    /\ \A i \in 1 .. Len(R) : R[i] = L[i + Len(L) - Len(R)]

\* What recent returns is the end of the record, whole or of length Limit.
LEMMA RecentIsEnd ==
    ASSUME NEW S, NEW L, Log(L), Tracks(S, L)
    PROVE  EndOf(SubSeq(S, FirstRecent(S), Len(S)), L)
<1>. DEFINE n == Start(S, L)
            R == SubSeq(S, n, Len(S))
<1>1. Len(S) \in Nat /\ Len(L) \in Nat /\ Limit \in Nat
  BY LimitAssumption DEF Log, Tracks
<1>2. n \in 1 .. Len(S) + 1 /\ (Len(S) > Len(L) => n = Len(S) - Len(L) + 1)
                            /\ (~ (Len(S) > Len(L)) => n = 1)
  BY <1>1 DEF Start
<1>. HIDE DEF n
<1>3. \A i \in n .. Len(S) : S[i] \in 0 .. Window
  <2>1. \A i \in 1 .. Len(S) : S[i] \in 0 .. Window
    BY Element DEF Tracks
  <2>. QED
    BY <2>1, <1>1, <1>2
<1>4. /\ R \in Seq(0 .. Window)
      /\ Len(R) = IF n <= Len(S) THEN Len(S) - n + 1 ELSE 0
      /\ \A i \in 1 .. Len(S) - n + 1 : R[i] = S[n + i - 1]
  BY <1>1, <1>2, <1>3, SubSeqProperties
<1>5. Len(R) = Len(S) - n + 1
  BY <1>1, <1>2, <1>4
<1>6. ASSUME NEW i \in 1 .. Len(R) PROVE R[i] = L[i + Len(L) - Len(R)]
  <2>1. n + i - 1 \in 1 .. Len(S) /\ (n + i - 1) + Len(L) > Len(S)
    BY <1>1, <1>2, <1>5
  <2>2. S[n + i - 1] = L[(n + i - 1) + Len(L) - Len(S)]
    BY <2>1 DEF Tracks
  <2>3. (n + i - 1) + Len(L) - Len(S) = i + Len(L) - Len(R)
    BY <1>1, <1>2, <1>5
  <2>4. R[i] = S[n + i - 1]
    BY <1>4, <1>5
  <2>. QED
    BY <2>2, <2>3, <2>4
<1>7. Len(R) <= Limit /\ Len(R) <= Len(L) /\ (Len(R) >= Limit \/ Len(R) = Len(L))
  BY <1>1, <1>2, <1>5 DEF Tracks
<1>8. EndOf(R, L)
  BY <1>4, <1>6, <1>7 DEF EndOf
<1>. QED
  BY <1>8, FirstRecentIs DEF n

\* A failure keeps the record a record and what is stored its end.
LEMMA FailureTracked ==
    ASSUME NEW R, NEW L, Log(L), EndOf(R, L)
    PROVE  Log(Append(L, 0)) /\ Tracks(Newest(Append(R, 0)), Append(L, 0))
<1>. DEFINE A == Append(R, 0)
            M == Append(L, 0)
            N == Newest(A)
<1>1. /\ Len(R) \in Nat /\ Len(L) \in Nat /\ Limit \in Nat \ {0} /\ Window \in Nat \ {0}
      /\ 0 \in 0 .. Window /\ 0 \in 0 .. Window - 1
  BY LimitAssumption, WindowAssumption DEF Log, EndOf
<1>2. /\ M \in Seq(0 .. Window - 1) /\ Len(M) = Len(L) + 1
      /\ \A i \in 1 .. Len(L) : M[i] = L[i]
      /\ M[Len(L) + 1] = 0
  BY <1>1 DEF Log
<1>3. /\ A \in Seq(0 .. Window) /\ Len(A) = Len(R) + 1
      /\ \A i \in 1 .. Len(R) : A[i] = R[i]
      /\ A[Len(R) + 1] = 0
  BY <1>1 DEF EndOf
<1>. HIDE DEF A, M
<1>4. ASSUME NEW i \in 1 .. Len(M), NEW j \in 1 .. Len(M), i <= j PROVE M[i] >= M[j]
  <2>1. \A x \in 1 .. Len(M) : M[x] \in 0 .. Window - 1
    BY <1>2, Element
  <2>2. CASE j = Len(L) + 1
    BY <2>1, <2>2, <1>1, <1>2
  <2>3. CASE j # Len(L) + 1
    <3>1. i \in 1 .. Len(L) /\ j \in 1 .. Len(L)
      BY <2>3, <1>1, <1>2, <1>4
    <3>. QED
      BY <3>1, <1>2, <1>4 DEF Log
  <2>. QED
    BY <2>2, <2>3
<1>5. Log(M)
  BY <1>2, <1>4 DEF Log
\* The two agree from their ends.
<1>6. ASSUME NEW i \in 1 .. Len(A) PROVE A[i] = M[i + Len(M) - Len(A)]
  <2>0. Len(R) <= Len(L)
    BY DEF EndOf
  <2>1. CASE i = Len(R) + 1
    <3>1. i + Len(M) - Len(A) = Len(L) + 1
      BY <2>1, <1>1, <1>2, <1>3
    <3>. QED
      BY <3>1, <2>1, <1>2, <1>3
  <2>2. CASE i # Len(R) + 1
    <3>1. /\ i \in 1 .. Len(R)
          /\ i + Len(M) - Len(A) = i + Len(L) - Len(R)
          /\ i + Len(L) - Len(R) \in 1 .. Len(L)
      BY <2>0, <2>2, <1>1, <1>2, <1>3
    <3>2. R[i] = L[i + Len(L) - Len(R)]
      BY <3>1 DEF EndOf
    <3>. QED
      BY <3>1, <3>2, <1>2, <1>3
  <2>. QED
    BY <2>1, <2>2
<1>7. CASE Len(A) > Limit
  <2>1. Len(A) = Limit + 1 /\ Len(A) - Limit + 1 = 2 /\ N = SubSeq(A, 2, Len(A))
    <3>1. Len(A) = Limit + 1
      BY <1>7, <1>1, <1>3 DEF EndOf
    <3>. QED
      BY <3>1, <1>7, <1>1 DEF Newest
  <2>2. \A i \in 2 .. Len(A) : A[i] \in 0 .. Window
    BY <1>1, <1>3, Element
  <2>3. /\ N \in Seq(0 .. Window) /\ Len(N) = Limit
        /\ \A i \in 1 .. Limit : N[i] = A[i + 1]
    <3>1. /\ SubSeq(A, 2, Len(A)) \in Seq(0 .. Window)
          /\ Len(SubSeq(A, 2, Len(A))) = IF 2 <= Len(A) THEN Len(A) - 2 + 1 ELSE 0
          /\ \A i \in 1 .. Len(A) - 2 + 1 : SubSeq(A, 2, Len(A))[i] = A[2 + i - 1]
      BY <1>1, <1>3, <2>2, SubSeqProperties
    <3>2. Len(A) - 2 + 1 = Limit /\ 2 <= Len(A)
      BY <2>1, <1>1
    <3>. HIDE DEF N
    <3>3. \A i \in 1 .. Limit : 2 + i - 1 = i + 1
      BY <1>1
    <3>. QED
      BY <3>1, <3>2, <3>3, <2>1
  <2>. HIDE DEF N
  <2>4. ASSUME NEW i \in 1 .. Len(N)
        PROVE  i + Len(M) > Len(N) /\ N[i] = M[i + Len(M) - Len(N)]
    <3>1. i \in 1 .. Limit /\ i + 1 \in 1 .. Len(A)
      BY <2>1, <2>3, <1>1
    <3>2. (i + 1) + Len(M) - Len(A) = i + Len(M) - Len(N)
      BY <2>1, <2>3, <1>1, <1>2
    <3>3. Len(M) >= Len(A)
      BY <1>1, <1>2, <1>3 DEF EndOf
    <3>4. i + Len(M) > Len(N)
      BY <3>3, <3>1, <2>1, <2>3, <1>1, <1>2
    <3>. QED
      BY <3>1, <3>2, <3>4, <2>3, <1>6
  <2>5. Tracks(N, M)
    BY <2>3, <2>4, <1>1 DEF Tracks
  <2>. QED
    BY <2>5, <1>5 DEF N, A, M
<1>8. CASE ~ (Len(A) > Limit)
  <2>1. N = A
    BY <1>8 DEF Newest
  <2>2. Len(R) < Limit /\ Len(R) = Len(L) /\ Len(A) = Len(M)
    BY <1>8, <1>1, <1>2, <1>3 DEF EndOf
  <2>3. Tracks(A, M)
    BY <2>2, <1>1, <1>2, <1>3, <1>6, <1>8 DEF Tracks
  <2>. QED
    BY <2>1, <2>3, <1>5 DEF N, A, M
<1>. QED
  BY <1>7, <1>8
\* A tick of the clock: what leaves the window leaves the record, and what is
\* stored still ends like it.
LEMMA TickTracked ==
    ASSUME NEW S, NEW L, Log(L), Tracks(S, L)
    PROVE  /\ Log(StillRecorded(L)) /\ Tracks(Older(S), StillRecorded(L))
           /\ Len(StillRecorded(L)) <= Len(L)
<1>. DEFINE Gone(n) == \A i \in 1 .. Len(L) : i <= n <=> L[i] + 1 >= Window
<1>1. /\ Len(S) \in Nat /\ Len(L) \in Nat /\ Limit \in Nat \ {0} /\ Window \in Nat \ {0}
      /\ DOMAIN S = 1 .. Len(S) /\ DOMAIN L = 1 .. Len(L)
  BY LimitAssumption, WindowAssumption DEF Log, Tracks
<1>2. \A i \in 1 .. Len(L) : L[i] \in 0 .. Window - 1
  BY Element DEF Log
<1>3. \A i \in 1 .. Len(S) : S[i] \in 0 .. Window
  BY Element DEF Tracks
\* Ages decrease along the record: those that leave come first.
<1>4. \E n \in 0 .. Len(L) : Gone(n)
  <2>. DEFINE Stay == {i \in 1 .. Len(L) : L[i] + 1 < Window}
  <2>1. CASE Stay = {}
    <3>1. Gone(Len(L))
      BY <2>1, <1>1, <1>2
    <3>2. Len(L) \in 0 .. Len(L)
      BY <1>1
    <3>. HIDE DEF Gone
    <3>. QED
      BY <3>1, <3>2
  <2>2. CASE Stay # {}
    <3>1. Stay \in SUBSET Nat
      OBVIOUS
    <3>2. PICK m \in Stay : \A n \in Stay : m <= n
      BY <3>1, <2>2, Least
    <3>3. m - 1 \in 0 .. Len(L)
      BY <1>1
    <3>4. ASSUME NEW i \in 1 .. Len(L) PROVE i <= m - 1 <=> L[i] + 1 >= Window
      <4>1. i >= m => L[m] >= L[i]
        BY DEF Log
      <4>2. i < m => i \notin Stay
        BY <3>2, <1>1
      <4>. QED
        BY <4>1, <4>2, <1>1, <1>2
    <3>. QED
      BY <3>3, <3>4
  <2>. QED
    BY <2>1, <2>2
<1>. DEFINE n == CHOOSE k \in 0 .. Len(L) : Gone(k)
            O == Older(S)
            M == StillRecorded(L)
<1>5. n \in 0 .. Len(L) /\ Gone(n)
  <2>. HIDE DEF Gone
  <2>. QED
    BY <1>4
<1>6. M = [i \in 1 .. Len(L) - n |-> L[i + n] + 1]
  BY <1>1 DEF StillRecorded
<1>. HIDE DEF n
<1>7. Len(L) - n \in Nat
  BY <1>1, <1>5
<1>8. ASSUME NEW i \in 1 .. Len(L) - n
      PROVE  i + n \in 1 .. Len(L) /\ L[i + n] + 1 \in 0 .. Window - 1
  <2>1. i + n \in 1 .. Len(L) /\ ~ (i + n <= n)
    BY <1>1, <1>5
  <2>. QED
    BY <2>1, <1>1, <1>2, <1>5
<1>9. /\ M \in Seq(0 .. Window - 1) /\ Len(M) = Len(L) - n
      /\ \A i \in 1 .. Len(M) : M[i] = L[i + n] + 1
  <2>1. M \in [1 .. Len(L) - n -> 0 .. Window - 1]
    BY <1>6, <1>8
  <2>2. M \in Seq(0 .. Window - 1)
    BY <2>1, <1>7, SeqDef
  <2>3. Len(M) = Len(L) - n
    BY <2>1, <2>2, <1>7, LenProperties
  <2>. QED
    BY <2>2, <2>3, <1>6
<1>. HIDE DEF M
<1>10. ASSUME NEW i \in 1 .. Len(M), NEW j \in 1 .. Len(M), i <= j PROVE M[i] >= M[j]
  <2>1. i + n \in 1 .. Len(L) /\ j + n \in 1 .. Len(L) /\ i + n <= j + n
    BY <1>1, <1>5, <1>9, <1>10
  <2>2. L[i + n] >= L[j + n]
    BY <2>1 DEF Log
  <2>. QED
    BY <2>1, <2>2, <1>2, <1>9, <1>1
<1>11. /\ O \in Seq(0 .. Window) /\ Len(O) = Len(S)
       /\ \A i \in 1 .. Len(S) : O[i] = IF S[i] < Window THEN S[i] + 1 ELSE Window
  <2>1. O = [i \in 1 .. Len(S) |-> IF S[i] < Window THEN S[i] + 1 ELSE Window]
    BY <1>1 DEF Older
  <2>2. \A i \in 1 .. Len(S) : (IF S[i] < Window THEN S[i] + 1 ELSE Window) \in 0 .. Window
    BY <1>1, <1>3
  <2>. HIDE DEF O
  <2>3. O \in [1 .. Len(S) -> 0 .. Window]
    BY <2>1, <2>2
  <2>4. O \in Seq(0 .. Window)
    BY <2>3, <1>1, SeqDef
  <2>5. Len(O) = Len(S)
    BY <2>3, <2>4, <1>1, LenProperties
  <2>. QED
    BY <2>1, <2>4, <2>5
<1>. HIDE DEF O
<1>12. ASSUME NEW i \in 1 .. Len(O)
       PROVE  O[i] = IF i + Len(M) > Len(O) THEN M[i + Len(M) - Len(O)] ELSE Window
  <2>0. i \in 1 .. Len(S) /\ Len(O) = Len(S) /\ Len(M) = Len(L) - n
    BY <1>9, <1>11
  <2>1. CASE i + Len(L) > Len(S)
    <3>. DEFINE x == i + Len(L) - Len(S)
    <3>0. /\ S[i] = L[x] /\ x \in Int /\ x >= 1
          /\ i + Len(M) > Len(O) <=> x > n
          /\ i + Len(M) - Len(O) = x - n
      BY <2>0, <2>1, <1>1, <1>5 DEF Tracks
    <3>1. x \in 1 .. Len(L)
      BY <2>0, <3>0, <1>1
    <3>. HIDE DEF x
    <3>2. L[x] \in 0 .. Window - 1 /\ (x <= n <=> L[x] + 1 >= Window)
      BY <3>1, <1>2, <1>5
    <3>3. O[i] = L[x] + 1
      BY <3>0, <3>2, <2>0, <1>1, <1>11
    <3>4. CASE x > n
      <4>1. x - n \in 1 .. Len(M) /\ (x - n) + n = x
        BY <3>1, <3>4, <2>0, <1>1, <1>5
      <4>2. M[x - n] = L[x] + 1
        BY <4>1, <1>9
      <4>. QED
        BY <4>2, <3>0, <3>3, <3>4
    <3>5. CASE ~ (x > n)
      <4>1. L[x] + 1 = Window
        BY <3>1, <3>2, <3>5, <1>1, <1>5
      <4>. QED
        BY <4>1, <3>0, <3>3, <3>5
    <3>. QED
      BY <3>4, <3>5
  <2>2. CASE ~ (i + Len(L) > Len(S))
    <3>1. ~ (i + Len(M) > Len(O))
      BY <2>0, <2>2, <1>1, <1>5
    <3>2. S[i] = Window
      BY <2>0, <2>2 DEF Tracks
    <3>. QED
      BY <3>1, <3>2, <2>0, <1>1, <1>11
  <2>. QED
    BY <2>1, <2>2
<1>13. Len(O) <= Limit /\ (Len(O) >= Limit \/ Len(O) >= Len(M))
  BY <1>1, <1>5, <1>9, <1>11 DEF Tracks
<1>14. Log(M)
  BY <1>9, <1>10 DEF Log
<1>15. Tracks(O, M)
  BY <1>11, <1>12, <1>13 DEF Tracks
<1>16. Len(M) <= Len(L)
  BY <1>1, <1>5, <1>9
<1>. QED
  BY <1>14, <1>15, <1>16 DEF O, M
-----------------------------------------------------------------------------
\* Every key of a limiter is tracked.
Tracked(failures, log, keys) ==
    /\ Table(failures, keys)
    /\ log \in [keys -> Seq(0 .. Window - 1)]
    /\ \A k \in keys : Log(log[k]) /\ Tracks(Stored(failures, k), log[k])

LEMMA BlockedExactly ==
    ASSUME NEW failures, NEW log, NEW keys, Tracked(failures, log, keys), NEW k \in keys
    PROVE  Blocked(failures, k) <=> Len(log[k]) >= Limit
<1>. DEFINE S == Stored(failures, k)
            L == log[k]
            R == SubSeq(S, FirstRecent(S), Len(S))
<1>1. Log(L) /\ Tracks(S, L)
  BY DEF Tracked
<1>. HIDE DEF S, L
<1>2. EndOf(R, L)
  BY <1>1, RecentIsEnd
<1>3. Recent(failures, k) = R
  BY DEF Recent, S
<1>. HIDE DEF R
<1>4. Len(R) \in Nat /\ Len(L) \in Nat /\ Limit \in Nat
  BY <1>1, <1>2, LimitAssumption DEF Log, EndOf
<1>5. Len(R) >= Limit <=> Len(L) >= Limit
  BY <1>2, <1>4 DEF EndOf
<1>. QED
  BY <1>3, <1>5 DEF Blocked, L

LEMMA NoneTracked == Log(<<>>) /\ Tracks(<<>>, <<>>)
BY LimitAssumption DEF Log, Tracks

LEMMA FailTracked ==
    ASSUME NEW failures, NEW log, NEW keys, Tracked(failures, log, keys), NEW k \in keys
    PROVE  Tracked(Failed(failures, k), [log EXCEPT ![k] = Append(@, 0)], keys)
<1>. DEFINE F == Failed(failures, k)
            G == [log EXCEPT ![k] = Append(@, 0)]
            D == (DOMAIN failures \ Swept(failures)) \union {k}
            N == Newest(Append(Recent(failures, k), 0))
<1>1. \A j \in keys : Log(log[j]) /\ Tracks(Stored(failures, j), log[j])
                      /\ EndOf(Recent(failures, j), log[j])
  BY RecentIsEnd DEF Tracked, Recent
<1>2. Log(Append(log[k], 0)) /\ Tracks(N, Append(log[k], 0))
  BY <1>1, FailureTracked
<1>3. /\ F = [j \in D |-> IF j = k THEN N ELSE failures[j]]
      /\ DOMAIN F = D /\ D \subseteq keys
      /\ DOMAIN failures \subseteq keys
  BY DEF Failed, Tracked, Table
<1>4. log \in [keys -> Seq(0 .. Window - 1)]
  BY DEF Tracked
<1>5. /\ G \in [keys -> Seq(0 .. Window - 1)] /\ G[k] = Append(log[k], 0)
      /\ \A j \in keys : j # k => G[j] = log[j]
  BY <1>2, <1>4 DEF Log
<1>. HIDE DEF F, G, D, N
<1>6. ASSUME NEW j \in keys PROVE Log(G[j]) /\ Tracks(Stored(F, j), G[j])
  <2>1. CASE j = k
    <3>1. Stored(F, j) = N
      BY <2>1, <1>3 DEF Stored, D
    <3>. QED
      BY <3>1, <2>1, <1>2, <1>5
  <2>2. CASE j # k /\ j \in D
    <3>1. j \in DOMAIN failures
      BY <2>2 DEF D
    <3>2. Stored(F, j) = Stored(failures, j)
      BY <2>2, <3>1, <1>3 DEF Stored
    <3>. QED
      BY <3>2, <2>2, <1>1, <1>5
  <2>3. CASE j # k /\ j \notin D /\ j \notin DOMAIN failures
    <3>1. Stored(F, j) = Stored(failures, j)
      BY <2>3, <1>3 DEF Stored
    <3>. QED
      BY <3>1, <2>3, <1>1, <1>5
\* What the sweep takes has no failure left in the window.
  <2>4. CASE j # k /\ j \notin D /\ j \in DOMAIN failures
    <3>1. Recent(failures, j) = <<>> /\ EndOf(Recent(failures, j), log[j])
      BY <2>4, <1>1 DEF D, Swept
    <3>2. Len(log[j]) = 0 /\ log[j] \in Seq(0 .. Window - 1)
      BY <3>1, <1>4, LimitAssumption DEF EndOf
    <3>3. log[j] = <<>>
      BY <3>2
    <3>4. Stored(F, j) = <<>>
      BY <2>4, <1>3 DEF Stored
    <3>. QED
      BY <3>3, <3>4, <2>4, <1>5, NoneTracked
  <2>. QED
    BY <2>1, <2>2, <2>3, <2>4
<1>7. ASSUME NEW j \in DOMAIN F PROVE F[j] \in Seq(0 .. Window) /\ Len(F[j]) <= Limit
  <2>1. F[j] = Stored(F, j) /\ j \in keys
    BY <1>3 DEF Stored
  <2>. QED
    BY <2>1, <1>6 DEF Tracks
<1>8. F = [j \in DOMAIN F |-> F[j]]
  BY <1>3
<1>9. Table(F, keys)
  BY <1>3, <1>7, <1>8 DEF Table
<1>10. Tracked(F, G, keys)
  BY <1>5, <1>6, <1>9 DEF Tracked
<1>. QED
  BY <1>10 DEF F, G

LEMMA ForgetTracked ==
    ASSUME NEW failures, NEW log, NEW keys, Tracked(failures, log, keys), NEW k \in keys
    PROVE  Tracked(Forgotten(failures, k), [log EXCEPT ![k] = <<>>], keys)
<1>. DEFINE F == Forgotten(failures, k)
            G == [log EXCEPT ![k] = <<>>]
            D == DOMAIN failures \ {k}
<1>1. /\ F = [j \in D |-> failures[j]] /\ DOMAIN F = D
      /\ \A j \in D : F[j] = failures[j]
      /\ DOMAIN failures \subseteq keys
      /\ \A j \in DOMAIN failures : failures[j] \in Seq(0 .. Window) /\ Len(failures[j]) <= Limit
  BY DEF Forgotten, Tracked, Table
<1>2. /\ G \in [keys -> Seq(0 .. Window - 1)] /\ G[k] = <<>>
      /\ \A j \in keys : j # k => G[j] = log[j]
  BY DEF Tracked
<1>. HIDE DEF F, G
<1>3. ASSUME NEW j \in keys PROVE Log(G[j]) /\ Tracks(Stored(F, j), G[j])
  <2>1. CASE j = k
    BY <2>1, <1>1, <1>2, NoneTracked DEF Stored
  <2>2. CASE j # k
    <3>1. Stored(F, j) = Stored(failures, j)
      BY <2>2, <1>1 DEF Stored
    <3>. QED
      BY <3>1, <2>2, <1>2 DEF Tracked
  <2>. QED
    BY <2>1, <2>2
<1>4. Table(F, keys)
  BY <1>1 DEF Table
<1>5. Tracked(F, G, keys)
  BY <1>2, <1>3, <1>4 DEF Tracked
<1>. QED
  BY <1>5 DEF F, G

LEMMA TimeTracked ==
    ASSUME NEW failures, NEW log, NEW keys, Tracked(failures, log, keys)
    PROVE  Tracked([k \in DOMAIN failures |-> Older(failures[k])],
                   [k \in keys |-> StillRecorded(log[k])], keys)
<1>. DEFINE F == [k \in DOMAIN failures |-> Older(failures[k])]
            G == [k \in keys |-> StillRecorded(log[k])]
<1>1. DOMAIN F = DOMAIN failures /\ DOMAIN failures \subseteq keys /\ F = [j \in DOMAIN F |-> F[j]]
  BY DEF Tracked, Table
<1>2. \A j \in DOMAIN failures : F[j] = Older(failures[j])
  OBVIOUS
<1>3. \A j \in keys : G[j] = StillRecorded(log[j])
  OBVIOUS
<1>4. DOMAIN G = keys /\ G = [j \in keys |-> G[j]]
  OBVIOUS
<1>. HIDE DEF F, G
<1>5. ASSUME NEW j \in keys PROVE Log(G[j]) /\ Tracks(Stored(F, j), G[j])
  <2>1. Log(log[j]) /\ Tracks(Stored(failures, j), log[j])
    BY DEF Tracked
  <2>2. Log(StillRecorded(log[j])) /\ Tracks(Older(Stored(failures, j)), StillRecorded(log[j]))
    BY <2>1, TickTracked
  <2>3. CASE j \in DOMAIN failures
    BY <2>3, <2>2, <1>1, <1>2, <1>3 DEF Stored
  <2>4. CASE j \notin DOMAIN failures
    <3>1. Stored(F, j) = <<>> /\ Stored(failures, j) = <<>>
      BY <2>4, <1>1 DEF Stored
    <3>2. Older(<<>>) = <<>>
      BY DEF Older
    <3>. QED
      BY <3>1, <3>2, <2>2, <1>3
  <2>. QED
    BY <2>3, <2>4
<1>6. ASSUME NEW j \in DOMAIN F PROVE F[j] \in Seq(0 .. Window) /\ Len(F[j]) <= Limit
  <2>1. F[j] = Stored(F, j) /\ j \in keys
    BY <1>1 DEF Stored
  <2>. QED
    BY <2>1, <1>5 DEF Tracks
<1>7. G \in [keys -> Seq(0 .. Window - 1)]
  BY <1>4, <1>5 DEF Log
<1>8. Tracked(F, G, keys)
  BY <1>1, <1>5, <1>6, <1>7 DEF Tracked, Table
<1>. QED
  BY <1>8 DEF F, G
-----------------------------------------------------------------------------
\* Walking back from the nearest hop passes the proxies and stops at what the
\* first of them appended.
LEMMA ProxiesAreTransparent ==
    ASSUME NEW client \in Clients \ Proxies, NEW fake \in FakeHops, NEW chain \in Chains \ {<<>>}
    PROVE  ThroughProxies(client, fake, chain) = client
<1>. DEFINE H == Addresses \union {Junk}
            n == Len(chain)
            tail == SubSeq(chain, 1, n - 1)
            head == fake \o <<client>>
            hops == head \o tail
            m == Len(fake) + 1
<1>1. fake \in Seq(H) /\ chain \in Seq(Proxies) /\ chain # <<>>
  BY HeaderAssumption DEF Addresses
<1>2. n \in Nat \ {0} /\ Len(fake) \in Nat
  BY <1>1
<1>3. chain[n] \in Proxies
  <2>1. n \in 1 .. Len(chain)
    BY <1>2
  <2>. QED
    BY <2>1, <1>1, Element
<1>4. tail \in Seq(Proxies) /\ Len(tail) = n - 1
  <2>1. \A i \in 1 .. n - 1 : chain[i] \in Proxies
    <3>1. \A i \in 1 .. n : chain[i] \in Proxies
      BY <1>1, Element
    <3>. QED
      BY <3>1, <1>2
  <2>2. /\ tail \in Seq(Proxies)
        /\ Len(tail) = IF 1 <= n - 1 THEN (n - 1) - 1 + 1 ELSE 0
    BY <1>2, <2>1, SubSeqProperties
  <2>. HIDE DEF tail, n
  <2>3. (IF 1 <= n - 1 THEN (n - 1) - 1 + 1 ELSE 0) = n - 1
    <3>1. n >= 1 /\ n \in Int
      BY <1>2
    <3>2. CASE n = 1
      BY <3>2
    <3>3. CASE n > 1
      BY <3>1, <3>3
    <3>. QED
      BY <3>1, <3>2, <3>3
  <2>. QED
    BY <2>2, <2>3
<1>. HIDE DEF tail
<1>5. head \in Seq(H) /\ Len(head) = m /\ head[m] = client
  <2>1. <<client>> \in Seq(H) /\ Len(<<client>>) = 1 /\ <<client>>[1] = client
    BY DEF Addresses
  <2>2. /\ head \in Seq(H) /\ Len(head) = Len(fake) + 1
        /\ \A i \in 1 .. Len(fake) + 1 :
             head[i] = IF i <= Len(fake) THEN fake[i] ELSE <<client>>[i - Len(fake)]
    BY <1>1, <2>1, ConcatProperties
  <2>3. m \in 1 .. Len(fake) + 1 /\ ~ (m <= Len(fake)) /\ m - Len(fake) = 1
    BY <1>2
  <2>. QED
    BY <2>1, <2>2, <2>3
<1>. HIDE DEF head
<1>6. tail \in Seq(H)
  BY <1>4 DEF Addresses
<1>7. /\ hops \in Seq(H) /\ Len(hops) = m + (n - 1)
      /\ \A i \in 1 .. m + (n - 1) : hops[i] = IF i <= m THEN head[i] ELSE tail[i - m]
  <2>1. /\ hops \in Seq(H) /\ Len(hops) = Len(head) + Len(tail)
        /\ \A i \in 1 .. Len(head) + Len(tail) :
             hops[i] = IF i <= Len(head) THEN head[i] ELSE tail[i - Len(head)]
    <3>. HIDE DEF H
    <3>. QED
      BY <1>5, <1>6, ConcatProperties
  <2>. HIDE DEF hops, m, n
  <2>. QED
    BY <2>1, <1>4, <1>5
<1>. HIDE DEF hops
<1>8. DOMAIN hops = 1 .. Len(hops) /\ m \in DOMAIN hops /\ Len(hops) \in Nat
  BY <1>2, <1>7
<1>9. hops[m] = client /\ client \notin Proxies /\ client # Junk
  BY <1>5, <1>7, <1>8, AddressAssumption DEF Addresses
<1>10. ASSUME NEW j \in (m + 1) .. Len(hops) PROVE hops[j] \in Proxies
  <2>1. j \in 1 .. m + (n - 1) /\ ~ (j <= m) /\ j - m \in 1 .. Len(tail)
    BY <1>2, <1>4, <1>7
  <2>2. hops[j] = tail[j - m]
    BY <2>1, <1>7
  <2>. QED
    BY <2>1, <2>2, <1>4, Element
<1>11. StopsAt(hops, m)
  BY <1>9, <1>10 DEF StopsAt
<1>12. ASSUME NEW j \in DOMAIN hops, StopsAt(hops, j) PROVE j = m
  <2>1. j \in 1 .. Len(hops) /\ m \in 1 .. Len(hops)
    BY <1>8
  <2>2. ~ (j < m)
    <3>1. SUFFICES ASSUME j < m PROVE FALSE
      OBVIOUS
    <3>2. m \in (j + 1) .. Len(hops)
      BY <3>1, <2>1, <1>8
    <3>. QED
      BY <3>2, <1>9, <1>12 DEF StopsAt
  <2>3. ~ (j > m)
    <3>1. SUFFICES ASSUME j > m PROVE FALSE
      OBVIOUS
    <3>2. j \in (m + 1) .. Len(hops)
      BY <3>1, <2>1, <1>8
    <3>. QED
      BY <3>2, <1>10, <1>12 DEF StopsAt
  <2>. QED
    BY <2>1, <2>2, <2>3, <1>2
<1>13. (CHOOSE j \in DOMAIN hops : StopsAt(hops, j)) = m
  BY <1>8, <1>11, <1>12
<1>14. Forwarded(hops) = client
  BY <1>8, <1>9, <1>13 DEF Forwarded
<1>15. hops # <<>>
  BY <1>8
<1>16. ClientAddress(chain[n], hops, Junk) = client
  BY <1>3, <1>9, <1>14, <1>15 DEF ClientAddress
<1>. QED
  BY <1>16 DEF ThroughProxies, hops, head, tail

\* An X-Forwarded-For names an address, or nobody.
LEMMA ForwardedNames ==
    ASSUME NEW hops \in Seq(Addresses \union {Junk}), hops # <<>>
    PROVE  Forwarded(hops) \in Addresses \union {Junk}
<1>. DEFINE H == Addresses \union {Junk}
            others == {i \in DOMAIN hops : hops[i] \notin Proxies}
<1>1. Len(hops) \in Nat \ {0} /\ DOMAIN hops = 1 .. Len(hops) /\ \A i \in 1 .. Len(hops) : hops[i] \in H
  BY Element
<1>2. CASE others = {}
  <2>1. Forwarded(hops) = hops[1] /\ 1 \in 1 .. Len(hops)
    BY <1>1, <1>2 DEF Forwarded
  <2>. QED
    BY <2>1, <1>1
<1>3. CASE others # {}
  <2>. DEFINE n == Len(hops)
              back == {n - i : i \in others}
  <2>1. back \in SUBSET Nat /\ back # {}
    BY <1>1, <1>3
  <2>2. PICK m \in back : \A j \in back : m <= j
    BY <2>1, Least
  <2>3. PICK i \in others : m = n - i
    BY <2>2
  <2>4. \A j \in (i + 1) .. n : hops[j] \in Proxies
    <3>1. SUFFICES ASSUME NEW j \in (i + 1) .. n, j \in others PROVE FALSE
      BY <1>1, <2>3
    <3>2. n - j \in back /\ m <= n - j
      BY <2>2, <3>1
    <3>. QED
      BY <3>1, <3>2, <2>3, <1>1
  <2>5. StopsAt(hops, i)
    BY <2>3, <2>4 DEF StopsAt
  <2>6. PICK k \in DOMAIN hops : k = CHOOSE j \in DOMAIN hops : StopsAt(hops, j)
    BY <2>5, <2>3
  <2>7. Forwarded(hops) = IF hops[k] # Junk THEN hops[k]
                          ELSE IF k < Len(hops) THEN hops[k + 1] ELSE Junk
    BY <2>6, <1>3 DEF Forwarded
  <2>8. hops[k] \in H /\ (k < Len(hops) => hops[k + 1] \in H)
    BY <1>1
  <2>. QED
    BY <2>7, <2>8
<1>. QED
  BY <1>2, <1>3

LEMMA AddressNamed ==
    ASSUME NEW peer \in Addresses, NEW hops \in Seq(Addresses \union {Junk}),
           NEW real \in Addresses \union {Junk}
    PROVE  ClientAddress(peer, hops, real) \in Addresses
  BY ForwardedNames DEF ClientAddress

LEMMA ChainNamed ==
    ASSUME NEW client \in Clients, NEW fake \in FakeHops, NEW chain \in Chains \ {<<>>}
    PROVE  ThroughProxies(client, fake, chain) \in Addresses
<1>. DEFINE H == Addresses \union {Junk}
            n == Len(chain)
            tail == SubSeq(chain, 1, n - 1)
<1>1. fake \in Seq(H) /\ chain \in Seq(Proxies) /\ chain # <<>>
  BY HeaderAssumption
<1>2. n \in Nat \ {0} /\ chain[n] \in Proxies
  <2>1. n \in 1 .. Len(chain)
    BY <1>1
  <2>. QED
    BY <2>1, <1>1, Element
<1>3. tail \in Seq(H)
  <2>1. \A i \in 1 .. n - 1 : chain[i] \in Proxies
    <3>1. \A i \in 1 .. n : chain[i] \in Proxies
      BY <1>1, Element
    <3>. QED
      BY <3>1, <1>2
  <2>2. tail \in Seq(Proxies)
    BY <1>2, <2>1, SubSeqProperties
  <2>. QED
    BY <2>2 DEF Addresses
<1>. HIDE DEF tail
<1>4. fake \o <<client>> \o tail \in Seq(H)
  <2>1. <<client>> \in Seq(H)
    BY DEF Addresses
  <2>. HIDE DEF H
  <2>. QED
    BY <2>1, <1>1, <1>3, ConcatProperties
<1>5. chain[n] \in Addresses
  BY <1>2 DEF Addresses
<1>. QED
  BY <1>4, <1>5, AddressNamed DEF ThroughProxies, tail

\* Every route leads to some address, and to the client's own where it is sure
\* to come from there.
LEMMA RoutesLeadHome ==
    ASSUME NEW client \in Clients, NEW route \in Routes(client)
    PROVE  /\ route.address \in Addresses
           /\ route.origin \in Clients \union {Junk}
           /\ route.origin # Junk => route.address = route.origin
<1>. DEFINE sure == IF client \in Proxies THEN Junk ELSE client
<1>1. client \in Addresses /\ Proxies \subseteq Addresses
      /\ \A fake \in FakeHops : fake \in Seq(Addresses \union {Junk})
  BY HeaderAssumption DEF Addresses
<1>2. ASSUME NEW fake \in FakeHops, NEW real \in Addresses \union {Junk},
             route = [address |-> ClientAddress(client, fake, real), origin |-> sure]
      PROVE  /\ route.address \in Addresses
             /\ route.origin \in Clients \union {Junk}
             /\ route.origin # Junk => route.address = route.origin
  <2>1. ClientAddress(client, fake, real) \in Addresses
    BY <1>1, AddressNamed
  <2>2. client \notin Proxies => ClientAddress(client, fake, real) = client
    BY DEF ClientAddress
  <2>. QED
    BY <1>2, <2>1, <2>2
<1>3. ASSUME NEW fake \in FakeHops, NEW chain \in Chains \ {<<>>},
             route = [address |-> ThroughProxies(client, fake, chain), origin |-> sure]
      PROVE  /\ route.address \in Addresses
             /\ route.origin \in Clients \union {Junk}
             /\ route.origin # Junk => route.address = route.origin
  <2>1. ThroughProxies(client, fake, chain) \in Addresses
    BY ChainNamed
  <2>2. client \notin Proxies => ThroughProxies(client, fake, chain) = client
    BY ProxiesAreTransparent
  <2>. QED
    BY <1>3, <2>1, <2>2
<1>4. ASSUME NEW p \in Proxies, NEW fake \in FakeHops,
             route = [address |-> ClientAddress(p, fake, client),
                      origin |-> IF fake = <<>> THEN client ELSE Junk]
      PROVE  /\ route.address \in Addresses
             /\ route.origin \in Clients \union {Junk}
             /\ route.origin # Junk => route.address = route.origin
  <2>1. ClientAddress(p, fake, client) \in Addresses
    BY <1>1, AddressNamed
  <2>2. fake = <<>> => ClientAddress(p, fake, client) = client
    BY <1>1, AddressAssumption DEF ClientAddress
  <2>. QED
    BY <1>4, <2>1, <2>2
<1>. QED
  BY <1>2, <1>3, <1>4 DEF Routes
-----------------------------------------------------------------------------
\* The attempts that may still record a failure of an address, of a username.
MayFailAddress(k) ==
    {a \in Attempts : /\ key[a].address = k
                      /\ \/ at[a] = "user" /\ ~ waits[a]
                         \/ at[a] \in {"verify", "failAddress"}}

MayFailUser(k) ==
    {a \in Attempts : /\ key[a].user = k
                      /\ at[a] \in {"verify", "failAddress", "failUser"}}

Room == Limit - 1 + Cardinality(Attempts)

Counted ==
    /\ \A k \in Addresses : Len(addressLog[k]) + Cardinality(MayFailAddress(k)) <= Room
    /\ \A k \in Users : Len(userLog[k]) + Cardinality(MayFailUser(k)) <= Room

KeyOK(a) ==
    /\ origin[a] # Junk => key[a].address = origin[a]
    /\ IF at[a] = "idle" THEN key[a] = NoKey
       ELSE key[a] \in [address : Addresses, user : Users]

ThrottleInv ==
    /\ TypeOK
    /\ Tracked(byAddress, addressLog, Addresses)
    /\ Tracked(byUser, userLog, Users)
    /\ \A a \in Attempts : KeyOK(a)
    /\ Counted

\* What a limiter counts, and who may still add to it.
LEMMA Fewer ==
    ASSUME NEW F \in SUBSET Attempts, NEW G \in SUBSET F
    PROVE  /\ Cardinality(F) \in Nat /\ Cardinality(G) \in Nat
           /\ Cardinality(G) <= Cardinality(F)
           /\ Cardinality(F) <= Cardinality(Attempts) /\ Cardinality(Attempts) \in Nat
           /\ \A a \in F : a \notin G => Cardinality(G) + 1 <= Cardinality(F)
<1>1. IsFiniteSet(F) /\ Cardinality(F) <= Cardinality(Attempts)
  BY AttemptsAssumption, FS_Subset
<1>2. IsFiniteSet(G) /\ Cardinality(G) <= Cardinality(F)
  BY <1>1, FS_Subset
<1>3. Cardinality(F) \in Nat /\ Cardinality(G) \in Nat /\ Cardinality(Attempts) \in Nat
  BY <1>1, <1>2, AttemptsAssumption, FS_CardinalityType
<1>4. ASSUME NEW a \in F, a \notin G PROVE Cardinality(G) + 1 <= Cardinality(F)
  <2>1. Cardinality(F \ {a}) = Cardinality(F) - 1 /\ IsFiniteSet(F \ {a})
    BY <1>1, FS_RemoveElement
  <2>2. G \in SUBSET (F \ {a})
    BY <1>4
  <2>3. Cardinality(G) <= Cardinality(F \ {a})
    BY <2>1, <2>2, FS_Subset
  <2>. QED
    BY <2>1, <2>3, <1>3
<1>. QED
  BY <1>1, <1>2, <1>3, <1>4
LEMMA AddressCount ==
    ASSUME ThrottleInv, NEW k \in Addresses, addressLog' = addressLog,
           MayFailAddress(k)' \subseteq MayFailAddress(k) \/ Len(addressLog[k]) < Limit
    PROVE  Len(addressLog'[k]) + Cardinality(MayFailAddress(k)') <= Room
<1>. DEFINE F == MayFailAddress(k)
            G == MayFailAddress(k)'
<1>1. F \in SUBSET Attempts /\ G \in SUBSET Attempts
  BY DEF MayFailAddress
<1>2. Len(addressLog[k]) + Cardinality(F) <= Limit - 1 + Cardinality(Attempts)
  BY DEF ThrottleInv, Counted, Room
<1>3. Len(addressLog[k]) \in Nat /\ Limit \in Nat \ {0}
  BY LimitAssumption DEF ThrottleInv, TypeOK
<1>. HIDE DEF F, G
<1>4. Cardinality(G) \in Nat /\ Cardinality(G) <= Cardinality(Attempts)
      /\ Cardinality(Attempts) \in Nat /\ Cardinality(F) \in Nat
  BY <1>1, Fewer
<1>5. CASE G \subseteq F
  <2>1. Cardinality(G) <= Cardinality(F)
    BY <1>1, <1>5, Fewer
  <2>. QED
    BY <2>1, <1>2, <1>3, <1>4 DEF G, Room
<1>6. CASE Len(addressLog[k]) < Limit
  BY <1>6, <1>3, <1>4 DEF G, Room
<1>. QED
  BY <1>5, <1>6 DEF F, G

LEMMA UserCount ==
    ASSUME ThrottleInv, NEW k \in Users, userLog' = userLog,
           MayFailUser(k)' \subseteq MayFailUser(k) \/ Len(userLog[k]) < Limit
    PROVE  Len(userLog'[k]) + Cardinality(MayFailUser(k)') <= Room
<1>. DEFINE F == MayFailUser(k)
            G == MayFailUser(k)'
<1>1. F \in SUBSET Attempts /\ G \in SUBSET Attempts
  BY DEF MayFailUser
<1>2. Len(userLog[k]) + Cardinality(F) <= Limit - 1 + Cardinality(Attempts)
  BY DEF ThrottleInv, Counted, Room
<1>3. Len(userLog[k]) \in Nat /\ Limit \in Nat \ {0}
  BY LimitAssumption DEF ThrottleInv, TypeOK
<1>. HIDE DEF F, G
<1>4. Cardinality(G) \in Nat /\ Cardinality(G) <= Cardinality(Attempts)
      /\ Cardinality(Attempts) \in Nat /\ Cardinality(F) \in Nat
  BY <1>1, Fewer
<1>5. CASE G \subseteq F
  <2>1. Cardinality(G) <= Cardinality(F)
    BY <1>1, <1>5, Fewer
  <2>. QED
    BY <2>1, <1>2, <1>3, <1>4 DEF G, Room
<1>6. CASE Len(userLog[k]) < Limit
  BY <1>6, <1>3, <1>4 DEF G, Room
<1>. QED
  BY <1>5, <1>6 DEF F, G

LEMMA ArriveKeeps ==
    ASSUME ThrottleInv, NEW a \in Attempts, NEW c \in Clients, NEW u \in Users, Arrive(a, c, u)
    PROVE  ThrottleInv'
<1>. USE DEF ThrottleInv
<1>1. UNCHANGED <<byAddress, byUser, addressLog, userLog>>
  BY DEF Arrive, limiters
<1>2. PICK route \in Routes(c) :
        /\ at' = [at EXCEPT ![a] = "address"] /\ at[a] = "idle" /\ waits' = waits
        /\ key' = [key EXCEPT ![a] = [address |-> route.address, user |-> u]]
        /\ origin' = [origin EXCEPT ![a] = route.origin]
  BY DEF Arrive
<1>. DEFINE address == route.address
            from == route.origin
<1>3. address \in Addresses /\ from \in Clients \union {Junk} /\ (from # Junk => address = from)
  BY RoutesLeadHome
<1>. HIDE DEF address, from
<1>4. key' = [key EXCEPT ![a] = [address |-> address, user |-> u]]
       /\ origin' = [origin EXCEPT ![a] = from]
  BY <1>2 DEF address, from
<1>5. TypeOK'
  BY <1>1, <1>2, <1>3, <1>4 DEF TypeOK, Steps, Table
<1>6. Tracked(byAddress, addressLog, Addresses)' /\ Tracked(byUser, userLog, Users)'
  BY <1>1 DEF Tracked, Table, Stored
<1>7. \A b \in Attempts : KeyOK(b)'
  BY <1>2, <1>3, <1>4 DEF KeyOK, TypeOK
<1>8. \A k \in Addresses : MayFailAddress(k)' \subseteq MayFailAddress(k)
  BY <1>2, <1>4 DEF MayFailAddress, TypeOK
<1>9. \A k \in Users : MayFailUser(k)' \subseteq MayFailUser(k)
  BY <1>2, <1>4 DEF MayFailUser, TypeOK
<1>10. Counted'
  BY <1>1, <1>8, <1>9, AddressCount, UserCount DEF Counted, Room
<1>. QED
  BY <1>5, <1>6, <1>7, <1>10

LEMMA CheckAddressKeeps ==
    ASSUME ThrottleInv, NEW a \in Attempts, CheckAddress(a)
    PROVE  ThrottleInv'
<1>. USE DEF ThrottleInv
<1>1. UNCHANGED <<byAddress, byUser, addressLog, userLog, key, origin>>
  BY DEF CheckAddress, limiters
<1>2. /\ at[a] = "address" /\ at' = [at EXCEPT ![a] = "user"]
      /\ waits' = [waits EXCEPT ![a] = Blocked(byAddress, key[a].address)]
  BY DEF CheckAddress
<1>3. TypeOK'
  BY <1>1, <1>2 DEF TypeOK, Steps, Table, Blocked
<1>4. Tracked(byAddress, addressLog, Addresses)' /\ Tracked(byUser, userLog, Users)'
  BY <1>1 DEF Tracked, Table, Stored
<1>5. \A b \in Attempts : KeyOK(b)'
  BY <1>1, <1>2 DEF KeyOK, TypeOK
\* An attempt that may go on found fewer than Limit failures of its address.
<1>6. ASSUME NEW k \in Addresses
      PROVE  MayFailAddress(k)' \subseteq MayFailAddress(k) \/ Len(addressLog[k]) < Limit
  <2>1. CASE key[a].address = k /\ ~ Blocked(byAddress, k)
    <3>1. ~ (Len(addressLog[k]) >= Limit) /\ Len(addressLog[k]) \in Nat
      BY <2>1, BlockedExactly DEF TypeOK
    <3>. QED
      BY <3>1, LimitAssumption
  <2>2. CASE key[a].address # k
    BY <2>2, <1>1, <1>2 DEF MayFailAddress, TypeOK
  <2>3. CASE key[a].address = k /\ Blocked(byAddress, k)
    <3>1. waits'[a] = TRUE
      BY <2>3, <1>2 DEF TypeOK
    <3>. QED
      BY <3>1, <1>1, <1>2 DEF MayFailAddress, TypeOK
  <2>. QED
    BY <2>1, <2>2, <2>3
<1>7. \A k \in Users : MayFailUser(k)' \subseteq MayFailUser(k)
  BY <1>1, <1>2 DEF MayFailUser, TypeOK
<1>8. Counted'
  BY <1>1, <1>6, <1>7, AddressCount, UserCount DEF Counted, Room
<1>. QED
  BY <1>3, <1>4, <1>5, <1>8

\* Refused, or no verdict: the attempt is over and nothing is recorded.
LEMMA DoneKeeps ==
    ASSUME ThrottleInv, NEW a \in Attempts, Done(a), UNCHANGED limiters
    PROVE  ThrottleInv'
<1>. USE DEF ThrottleInv
<1>1. UNCHANGED <<byAddress, byUser, addressLog, userLog>>
  BY DEF limiters
<1>2. /\ at' = [at EXCEPT ![a] = "idle"] /\ waits' = [waits EXCEPT ![a] = FALSE]
      /\ key' = [key EXCEPT ![a] = NoKey] /\ origin' = [origin EXCEPT ![a] = Junk]
  BY DEF Done
<1>3. TypeOK'
  BY <1>1, <1>2 DEF TypeOK, Steps, Table
<1>4. Tracked(byAddress, addressLog, Addresses)' /\ Tracked(byUser, userLog, Users)'
  BY <1>1 DEF Tracked, Table, Stored
<1>5. \A b \in Attempts : KeyOK(b)'
  BY <1>2 DEF KeyOK, TypeOK, NoKey
<1>6. \A k \in Addresses : MayFailAddress(k)' \subseteq MayFailAddress(k)
  BY <1>2 DEF MayFailAddress, TypeOK
<1>7. \A k \in Users : MayFailUser(k)' \subseteq MayFailUser(k)
  BY <1>2 DEF MayFailUser, TypeOK
<1>8. Counted'
  BY <1>1, <1>6, <1>7, AddressCount, UserCount DEF Counted, Room
<1>. QED
  BY <1>3, <1>4, <1>5, <1>8

LEMMA AdmitKeeps ==
    ASSUME ThrottleInv, NEW a \in Attempts, Admit(a)
    PROVE  ThrottleInv'
<1>. USE DEF ThrottleInv
<1>1. UNCHANGED <<byAddress, byUser, addressLog, userLog, key, origin, waits>>
  BY DEF Admit, limiters
<1>2. /\ at[a] = "user" /\ at' = [at EXCEPT ![a] = "verify"]
      /\ ~ waits[a] /\ ~ Blocked(byUser, key[a].user)
  BY DEF Admit, MustWait
<1>3. TypeOK'
  BY <1>1, <1>2 DEF TypeOK, Steps, Table
<1>4. Tracked(byAddress, addressLog, Addresses)' /\ Tracked(byUser, userLog, Users)'
  BY <1>1 DEF Tracked, Table, Stored
<1>5. \A b \in Attempts : KeyOK(b)'
  BY <1>1, <1>2 DEF KeyOK, TypeOK
<1>6. \A k \in Addresses : MayFailAddress(k)' \subseteq MayFailAddress(k)
  BY <1>1, <1>2 DEF MayFailAddress, TypeOK
<1>7. ASSUME NEW k \in Users
      PROVE  MayFailUser(k)' \subseteq MayFailUser(k) \/ Len(userLog[k]) < Limit
  <2>1. CASE key[a].user = k
    <3>1. ~ (Len(userLog[k]) >= Limit) /\ Len(userLog[k]) \in Nat
      BY <2>1, <1>2, BlockedExactly DEF TypeOK
    <3>. QED
      BY <3>1, LimitAssumption
  <2>2. CASE key[a].user # k
    BY <2>2, <1>1, <1>2 DEF MayFailUser, TypeOK
  <2>. QED
    BY <2>1, <2>2
<1>8. Counted'
  BY <1>1, <1>6, <1>7, AddressCount, UserCount DEF Counted, Room
<1>. QED
  BY <1>3, <1>4, <1>5, <1>8

LEMMA VerifyKeeps ==
    ASSUME ThrottleInv, NEW a \in Attempts, Verify(a)
    PROVE  ThrottleInv'
<1>. USE DEF ThrottleInv
<1>1. UNCHANGED <<byAddress, byUser, addressLog, userLog, key, origin, waits>>
  BY DEF Verify, limiters
<1>2. PICK next \in {"failAddress", "succeeded"} :
          at[a] = "verify" /\ at' = [at EXCEPT ![a] = next]
  BY DEF Verify
<1>3. TypeOK'
  BY <1>1, <1>2 DEF TypeOK, Steps, Table
<1>4. Tracked(byAddress, addressLog, Addresses)' /\ Tracked(byUser, userLog, Users)'
  BY <1>1 DEF Tracked, Table, Stored
<1>5. \A b \in Attempts : KeyOK(b)'
  BY <1>1, <1>2 DEF KeyOK, TypeOK
<1>6. \A k \in Addresses : MayFailAddress(k)' \subseteq MayFailAddress(k)
  BY <1>1, <1>2 DEF MayFailAddress, TypeOK
<1>7. \A k \in Users : MayFailUser(k)' \subseteq MayFailUser(k)
  BY <1>1, <1>2 DEF MayFailUser, TypeOK
<1>8. Counted'
  BY <1>1, <1>6, <1>7, AddressCount, UserCount DEF Counted, Room
<1>. QED
  BY <1>3, <1>4, <1>5, <1>8
\* A recorded failure takes the place of the attempt that recorded it.
LEMMA FailAddressKeeps ==
    ASSUME ThrottleInv, NEW a \in Attempts, FailAddress(a)
    PROVE  ThrottleInv'
<1>. USE DEF ThrottleInv
<1>. DEFINE me == key[a].address
<1>1. UNCHANGED <<byUser, userLog, key, origin, waits>>
  BY DEF FailAddress
<1>2. /\ at[a] = "failAddress" /\ at' = [at EXCEPT ![a] = "failUser"]
      /\ byAddress' = Failed(byAddress, me)
      /\ addressLog' = [addressLog EXCEPT ![me] = Append(@, 0)]
  BY DEF FailAddress
<1>3. me \in Addresses
  BY <1>2 DEF KeyOK
<1>4. Tracked(byAddress, addressLog, Addresses)'
  <2>1. Tracked(Failed(byAddress, me), [addressLog EXCEPT ![me] = Append(@, 0)], Addresses)
    BY <1>3, FailTracked
  <2>. QED
    BY <2>1, <1>2 DEF Tracked, Table, Stored
<1>5. Tracked(byUser, userLog, Users)'
  BY <1>1 DEF Tracked, Table, Stored
<1>6. TypeOK'
  <2>1. Table(byAddress, Addresses)' /\ addressLog' \in [Addresses -> Seq(0 .. Window - 1)]
    BY <1>4 DEF Tracked
  <2>. QED
    BY <2>1, <1>1, <1>2 DEF TypeOK, Steps, Table
<1>7. \A b \in Attempts : KeyOK(b)'
  BY <1>1, <1>2 DEF KeyOK, TypeOK
<1>8. ASSUME NEW k \in Addresses
      PROVE  Len(addressLog'[k]) + Cardinality(MayFailAddress(k)') <= Room
  <2>. DEFINE F == MayFailAddress(k)
              G == MayFailAddress(k)'
  <2>1. F \in SUBSET Attempts /\ G \in SUBSET F
    BY <1>1, <1>2 DEF MayFailAddress, TypeOK
  <2>2. Len(addressLog[k]) + Cardinality(F) <= Limit - 1 + Cardinality(Attempts)
    BY DEF Counted, Room
  <2>3. Len(addressLog[k]) \in Nat /\ Limit \in Nat /\ Cardinality(Attempts) \in Nat
    BY LimitAssumption, AttemptsAssumption, FS_CardinalityType DEF TypeOK
  <2>4. k = me => a \in F /\ a \notin G
    BY <1>1, <1>2 DEF MayFailAddress, TypeOK
  <2>5. Len(addressLog'[k]) = IF k = me THEN Len(addressLog[k]) + 1 ELSE Len(addressLog[k])
    BY <1>2, <1>3, WindowAssumption DEF TypeOK
  <2>. HIDE DEF F, G
  <2>6. /\ Cardinality(F) \in Nat /\ Cardinality(G) \in Nat
        /\ Cardinality(G) <= Cardinality(F)
        /\ k = me => Cardinality(G) + 1 <= Cardinality(F)
    BY <2>1, <2>4, Fewer
  <2>7. Len(addressLog'[k]) + Cardinality(G) <= Limit - 1 + Cardinality(Attempts)
    BY <2>2, <2>3, <2>5, <2>6
  <2>. QED
    BY <2>7 DEF G, Room
<1>9. \A k \in Users : MayFailUser(k)' \subseteq MayFailUser(k)
  BY <1>1, <1>2 DEF MayFailUser, TypeOK
<1>10. Counted'
  BY <1>1, <1>8, <1>9, UserCount DEF Counted, Room
<1>. QED
  BY <1>4, <1>5, <1>6, <1>7, <1>10

LEMMA FailUserKeeps ==
    ASSUME ThrottleInv, NEW a \in Attempts, FailUser(a)
    PROVE  ThrottleInv'
<1>. USE DEF ThrottleInv
<1>. DEFINE me == key[a].user
<1>1. UNCHANGED <<byAddress, addressLog>>
  BY DEF FailUser
<1>2. /\ at[a] = "failUser" /\ at' = [at EXCEPT ![a] = "idle"]
      /\ waits' = [waits EXCEPT ![a] = FALSE]
      /\ key' = [key EXCEPT ![a] = NoKey] /\ origin' = [origin EXCEPT ![a] = Junk]
      /\ byUser' = Failed(byUser, me)
      /\ userLog' = [userLog EXCEPT ![me] = Append(@, 0)]
  BY DEF FailUser, Done
<1>3. me \in Users
  BY <1>2 DEF KeyOK
<1>4. Tracked(byUser, userLog, Users)'
  <2>1. Tracked(Failed(byUser, me), [userLog EXCEPT ![me] = Append(@, 0)], Users)
    BY <1>3, FailTracked
  <2>. QED
    BY <2>1, <1>2 DEF Tracked, Table, Stored
<1>5. Tracked(byAddress, addressLog, Addresses)'
  BY <1>1 DEF Tracked, Table, Stored
<1>6. TypeOK'
  <2>1. Table(byUser, Users)' /\ userLog' \in [Users -> Seq(0 .. Window - 1)]
    BY <1>4 DEF Tracked
  <2>. QED
    BY <2>1, <1>1, <1>2 DEF TypeOK, Steps, Table
<1>7. \A b \in Attempts : KeyOK(b)'
  BY <1>2 DEF KeyOK, TypeOK, NoKey
<1>8. ASSUME NEW k \in Users
      PROVE  Len(userLog'[k]) + Cardinality(MayFailUser(k)') <= Room
  <2>. DEFINE F == MayFailUser(k)
              G == MayFailUser(k)'
  <2>1. F \in SUBSET Attempts /\ G \in SUBSET F
    BY <1>2 DEF MayFailUser, TypeOK
  <2>2. Len(userLog[k]) + Cardinality(F) <= Limit - 1 + Cardinality(Attempts)
    BY DEF Counted, Room
  <2>3. Len(userLog[k]) \in Nat /\ Limit \in Nat /\ Cardinality(Attempts) \in Nat
    BY LimitAssumption, AttemptsAssumption, FS_CardinalityType DEF TypeOK
  <2>4. k = me => a \in F /\ a \notin G
    BY <1>2 DEF MayFailUser, TypeOK
  <2>5. Len(userLog'[k]) = IF k = me THEN Len(userLog[k]) + 1 ELSE Len(userLog[k])
    BY <1>2, <1>3, WindowAssumption DEF TypeOK
  <2>. HIDE DEF F, G
  <2>6. /\ Cardinality(F) \in Nat /\ Cardinality(G) \in Nat
        /\ Cardinality(G) <= Cardinality(F)
        /\ k = me => Cardinality(G) + 1 <= Cardinality(F)
    BY <2>1, <2>4, Fewer
  <2>7. Len(userLog'[k]) + Cardinality(G) <= Limit - 1 + Cardinality(Attempts)
    BY <2>2, <2>3, <2>5, <2>6
  <2>. QED
    BY <2>7 DEF G, Room
<1>9. \A k \in Addresses : MayFailAddress(k)' \subseteq MayFailAddress(k)
  BY <1>2 DEF MayFailAddress, TypeOK
<1>10. Counted'
  BY <1>1, <1>8, <1>9, AddressCount DEF Counted, Room
<1>. QED
  BY <1>4, <1>5, <1>6, <1>7, <1>10

LEMMA SucceedKeeps ==
    ASSUME ThrottleInv, NEW a \in Attempts, Succeed(a)
    PROVE  ThrottleInv'
<1>. USE DEF ThrottleInv
<1>. DEFINE me == key[a].user
<1>1. UNCHANGED <<byAddress, addressLog>>
  BY DEF Succeed
<1>2. /\ at[a] = "succeeded" /\ at' = [at EXCEPT ![a] = "idle"]
      /\ waits' = [waits EXCEPT ![a] = FALSE]
      /\ key' = [key EXCEPT ![a] = NoKey] /\ origin' = [origin EXCEPT ![a] = Junk]
      /\ byUser' = Forgotten(byUser, me)
      /\ userLog' = [userLog EXCEPT ![me] = <<>>]
  BY DEF Succeed, Done
<1>3. me \in Users
  BY <1>2 DEF KeyOK
<1>4. Tracked(byUser, userLog, Users)'
  <2>1. Tracked(Forgotten(byUser, me), [userLog EXCEPT ![me] = <<>>], Users)
    BY <1>3, ForgetTracked
  <2>. QED
    BY <2>1, <1>2 DEF Tracked, Table, Stored
<1>5. Tracked(byAddress, addressLog, Addresses)'
  BY <1>1 DEF Tracked, Table, Stored
<1>6. TypeOK'
  <2>1. Table(byUser, Users)' /\ userLog' \in [Users -> Seq(0 .. Window - 1)]
    BY <1>4 DEF Tracked
  <2>. QED
    BY <2>1, <1>1, <1>2 DEF TypeOK, Steps, Table
<1>7. \A b \in Attempts : KeyOK(b)'
  BY <1>2 DEF KeyOK, TypeOK, NoKey
<1>8. ASSUME NEW k \in Users
      PROVE  Len(userLog'[k]) + Cardinality(MayFailUser(k)') <= Room
  <2>. DEFINE F == MayFailUser(k)
              G == MayFailUser(k)'
  <2>1. F \in SUBSET Attempts /\ G \in SUBSET F
    BY <1>2 DEF MayFailUser, TypeOK
  <2>2. Len(userLog[k]) + Cardinality(F) <= Limit - 1 + Cardinality(Attempts)
    BY DEF Counted, Room
  <2>3. Len(userLog[k]) \in Nat /\ Limit \in Nat /\ Cardinality(Attempts) \in Nat
    BY LimitAssumption, AttemptsAssumption, FS_CardinalityType DEF TypeOK
  <2>4. Len(userLog'[k]) \in Nat /\ Len(userLog'[k]) <= Len(userLog[k])
    BY <1>2, <1>3, <2>3 DEF TypeOK
  <2>. HIDE DEF F, G
  <2>5. Cardinality(F) \in Nat /\ Cardinality(G) \in Nat /\ Cardinality(G) <= Cardinality(F)
    BY <2>1, Fewer
  <2>6. Len(userLog'[k]) + Cardinality(G) <= Limit - 1 + Cardinality(Attempts)
    BY <2>2, <2>3, <2>4, <2>5
  <2>. QED
    BY <2>6 DEF G, Room
<1>9. \A k \in Addresses : MayFailAddress(k)' \subseteq MayFailAddress(k)
  BY <1>2 DEF MayFailAddress, TypeOK
<1>10. Counted'
  BY <1>1, <1>8, <1>9, AddressCount DEF Counted, Room
<1>. QED
  BY <1>4, <1>5, <1>6, <1>7, <1>10
\* Time only takes failures out of the records.
LEMMA TickKeeps ==
    ASSUME ThrottleInv, Tick
    PROVE  ThrottleInv'
<1>. USE DEF ThrottleInv
<1>1. /\ UNCHANGED <<at, key, waits, origin>>
      /\ byAddress' = [k \in DOMAIN byAddress |-> Older(byAddress[k])]
      /\ byUser' = [k \in DOMAIN byUser |-> Older(byUser[k])]
      /\ addressLog' = [k \in Addresses |-> StillRecorded(addressLog[k])]
      /\ userLog' = [k \in Users |-> StillRecorded(userLog[k])]
  BY DEF Tick
<1>2. Tracked(byAddress, addressLog, Addresses)'
  <2>1. Tracked([k \in DOMAIN byAddress |-> Older(byAddress[k])],
                [k \in Addresses |-> StillRecorded(addressLog[k])], Addresses)
    BY TimeTracked
  <2>. QED
    BY <2>1, <1>1 DEF Tracked, Table, Stored
<1>3. Tracked(byUser, userLog, Users)'
  <2>1. Tracked([k \in DOMAIN byUser |-> Older(byUser[k])],
                [k \in Users |-> StillRecorded(userLog[k])], Users)
    BY TimeTracked
  <2>. QED
    BY <2>1, <1>1 DEF Tracked, Table, Stored
<1>4. TypeOK'
  BY <1>1, <1>2, <1>3 DEF TypeOK, Tracked
<1>5. \A b \in Attempts : KeyOK(b)'
  BY <1>1 DEF KeyOK
<1>6. ASSUME NEW k \in Addresses
      PROVE  Len(addressLog'[k]) + Cardinality(MayFailAddress(k)') <= Room
  <2>1. MayFailAddress(k)' = MayFailAddress(k)
    BY <1>1 DEF MayFailAddress
  <2>2. Log(addressLog[k]) /\ Tracks(Stored(byAddress, k), addressLog[k])
    BY DEF Tracked
  <2>3. Len(addressLog'[k]) <= Len(addressLog[k])
    BY <2>2, <1>1, TickTracked
  <2>4. Len(addressLog'[k]) \in Nat /\ Len(addressLog[k]) \in Nat /\ Room \in Nat
        /\ Cardinality(MayFailAddress(k)) \in Nat
    <3>1. MayFailAddress(k) \in SUBSET Attempts
      BY DEF MayFailAddress
    <3>2. Cardinality(MayFailAddress(k)) \in Nat /\ Cardinality(Attempts) \in Nat
      BY <3>1, Fewer
    <3>. QED
      BY <3>2, <1>4, LimitAssumption DEF TypeOK, Room
  <2>5. Len(addressLog[k]) + Cardinality(MayFailAddress(k)) <= Room
    BY DEF Counted
  <2>. QED
    BY <2>1, <2>3, <2>4, <2>5
<1>7. ASSUME NEW k \in Users
      PROVE  Len(userLog'[k]) + Cardinality(MayFailUser(k)') <= Room
  <2>1. MayFailUser(k)' = MayFailUser(k)
    BY <1>1 DEF MayFailUser
  <2>2. Log(userLog[k]) /\ Tracks(Stored(byUser, k), userLog[k])
    BY DEF Tracked
  <2>3. Len(userLog'[k]) <= Len(userLog[k])
    BY <2>2, <1>1, TickTracked
  <2>4. Len(userLog'[k]) \in Nat /\ Len(userLog[k]) \in Nat /\ Room \in Nat
        /\ Cardinality(MayFailUser(k)) \in Nat
    <3>1. MayFailUser(k) \in SUBSET Attempts
      BY DEF MayFailUser
    <3>2. Cardinality(MayFailUser(k)) \in Nat /\ Cardinality(Attempts) \in Nat
      BY <3>1, Fewer
    <3>. QED
      BY <3>2, <1>4, LimitAssumption DEF TypeOK, Room
  <2>5. Len(userLog[k]) + Cardinality(MayFailUser(k)) <= Room
    BY DEF Counted
  <2>. QED
    BY <2>1, <2>3, <2>4, <2>5
<1>8. Counted'
  BY <1>6, <1>7 DEF Counted, Room
<1>. QED
  BY <1>2, <1>3, <1>4, <1>5, <1>8

LEMMA InitThrottle ==
    ASSUME Init
    PROVE  ThrottleInv
<1>. USE DEF Init
<1>1. TypeOK
  BY DEF TypeOK, Table, Steps
<1>2. Tracked(byAddress, addressLog, Addresses) /\ Tracked(byUser, userLog, Users)
  BY NoneTracked DEF Tracked, Table, Stored
<1>3. \A a \in Attempts : KeyOK(a)
  BY DEF KeyOK, NoKey
<1>4. \A k : MayFailAddress(k) = {} /\ MayFailUser(k) = {}
  BY DEF MayFailAddress, MayFailUser
<1>5. Cardinality({}) = 0
  BY FS_EmptySet
<1>6. Room \in Nat
  BY LimitAssumption, AttemptsAssumption, FS_CardinalityType DEF Room
<1>7. Counted
  <2>1. \A k \in Addresses : Len(addressLog[k]) = 0
    OBVIOUS
  <2>2. \A k \in Users : Len(userLog[k]) = 0
    OBVIOUS
  <2>3. 0 + 0 <= Room
    BY <1>6
  <2>4. \A k \in Addresses : Cardinality(MayFailAddress(k)) = 0
    BY <1>4, <1>5
  <2>5. \A k \in Users : Cardinality(MayFailUser(k)) = 0
    BY <1>4, <1>5
  <2>. HIDE DEF Init
  <2>. QED
    BY <2>1, <2>2, <2>3, <2>4, <2>5 DEF Counted
<1>. QED
  BY <1>1, <1>2, <1>3, <1>7 DEF ThrottleInv

LEMMA NextThrottle ==
    ASSUME ThrottleInv, [Next]_vars
    PROVE  ThrottleInv'
<1>1. CASE Tick
  BY <1>1, TickKeeps
<1>2. ASSUME NEW a \in Attempts, AttemptStep(a) PROVE ThrottleInv'
  <2>1. ASSUME NEW c \in Clients, NEW u \in Users, Arrive(a, c, u) PROVE ThrottleInv'
    BY <2>1, ArriveKeeps
  <2>2. CASE CheckAddress(a)
    BY <2>2, CheckAddressKeeps
  <2>3. CASE Refuse(a) \/ LoginError(a)
    BY <2>3, DoneKeeps DEF Refuse, LoginError
  <2>4. CASE Admit(a)
    BY <2>4, AdmitKeeps
  <2>5. CASE Verify(a)
    BY <2>5, VerifyKeeps
  <2>6. CASE FailAddress(a)
    BY <2>6, FailAddressKeeps
  <2>7. CASE FailUser(a)
    BY <2>7, FailUserKeeps
  <2>8. CASE Succeed(a)
    BY <2>8, SucceedKeeps
  <2>. QED
    BY <1>2, <2>1, <2>2, <2>3, <2>4, <2>5, <2>6, <2>7, <2>8 DEF AttemptStep
<1>3. CASE UNCHANGED vars
  BY <1>3 DEF vars, ThrottleInv, TypeOK, Table, Tracked, Stored, KeyOK, Counted,
              MayFailAddress, MayFailUser
<1>. QED
  BY <1>1, <1>2, <1>3 DEF Next
-----------------------------------------------------------------------------
\* The inductive invariant of the throttle.
THEOREM ThrottleInvariant == Spec => []ThrottleInv
<1>. QED
  BY InitThrottle, NextThrottle, PTL DEF Spec

\* A limiter keeps at most Limit failures of a key.
THEOREM ThrottleTypeCorrect == Spec => []TypeOK
<1>1. ThrottleInv => TypeOK
  BY DEF ThrottleInv
<1>. QED
  BY <1>1, ThrottleInvariant, PTL

\* A key is blocked exactly when Limit of its failures are in the window.
THEOREM BlockedExactlyAtLimit == Spec => []ThrottleExact
<1>1. ThrottleInv => ThrottleExact
  BY BlockedExactly DEF ThrottleInv, ThrottleExact
<1>. QED
  BY <1>1, ThrottleInvariant, PTL

\* No key collects more failures in a window than the limit less one and one
\* for each attempt that may be under way.
THEOREM FailuresBounded == Spec => []WindowBounded
<1>1. ASSUME ThrottleInv PROVE WindowBounded
  <2>1. \A k \in Addresses : Len(addressLog[k]) < Limit + Cardinality(Attempts)
    <3>1. SUFFICES ASSUME NEW k \in Addresses
                   PROVE  Len(addressLog[k]) < Limit + Cardinality(Attempts)
      OBVIOUS
    <3>2. MayFailAddress(k) \in SUBSET Attempts
      BY DEF MayFailAddress
    <3>3. Cardinality(MayFailAddress(k)) \in Nat /\ Cardinality(Attempts) \in Nat
      BY <3>2, Fewer
    <3>4. Len(addressLog[k]) \in Nat /\ Limit \in Nat
      BY <1>1, LimitAssumption DEF ThrottleInv, TypeOK
    <3>5. Len(addressLog[k]) + Cardinality(MayFailAddress(k)) <= Limit - 1 + Cardinality(Attempts)
      BY <1>1 DEF ThrottleInv, Counted, Room
    <3>. QED
      BY <3>3, <3>4, <3>5
  <2>2. \A k \in Users : Len(userLog[k]) < Limit + Cardinality(Attempts)
    <3>1. SUFFICES ASSUME NEW k \in Users
                   PROVE  Len(userLog[k]) < Limit + Cardinality(Attempts)
      OBVIOUS
    <3>2. MayFailUser(k) \in SUBSET Attempts
      BY DEF MayFailUser
    <3>3. Cardinality(MayFailUser(k)) \in Nat /\ Cardinality(Attempts) \in Nat
      BY <3>2, Fewer
    <3>4. Len(userLog[k]) \in Nat /\ Limit \in Nat
      BY <1>1, LimitAssumption DEF ThrottleInv, TypeOK
    <3>5. Len(userLog[k]) + Cardinality(MayFailUser(k)) <= Limit - 1 + Cardinality(Attempts)
      BY <1>1 DEF ThrottleInv, Counted, Room
    <3>. QED
      BY <3>3, <3>4, <3>5
  <2>. QED
    BY <2>1, <2>2 DEF WindowBounded
<1>. QED
  BY <1>1, ThrottleInvariant, PTL

\* Attempts are counted where they come from.
THEOREM AttemptsCountedAtOrigin == Spec => []CountedAtOrigin
<1>1. ThrottleInv => CountedAtOrigin
  BY DEF ThrottleInv, CountedAtOrigin, KeyOK
<1>. QED
  BY <1>1, ThrottleInvariant, PTL
=============================================================================
