-------------------------- MODULE IsoTpCorrectProofs --------------------------
(***************************************************************************)
(* A last proof about IsoTpRequest, for all sizes of the protocol and all  *)
(* environments: an ECU without faults is understood, if it is not asked   *)
(* to answer in blocks; only a request longer than its block is refused.   *)
(***************************************************************************)
EXTENDS IsoTpWholeProofs

-----------------------------------------------------------------------------
(* What is in a queue to the tester.  Frames of other nodes do not count.  *)

Own(f) == f.id = "ecu"
IsWait(f) == Own(f) /\ IsFC(f, WAIT)

Silent(Q) == \A i \in 1..Len(Q) : ~Own(Q[i])

\* Flow Control: Wait frames, and Clear To Send after them.
Waits(Q) == {i \in 1..Len(Q) : IsWait(Q[i])}
OnlyWaits(Q) == \A i \in 1..Len(Q) : Own(Q[i]) => IsWait(Q[i])
GrantsLast(Q, b) ==
    \E j \in 1..Len(Q) :
        /\ IsCTS(Q[j]) /\ Granted(Q[j]) = b
        /\ \A i \in 1..Len(Q) : Own(Q[i]) => i = j \/ (i < j /\ IsWait(Q[i]))

\* A response: one frame that is it or begins it, or Consecutive Frames of k.
Alone(Q, j) == Own(Q[j]) /\ \A i \in 1..Len(Q) : Own(Q[i]) => i = j
OneSingle(Q) == \E j \in 1..Len(Q) : Alone(Q, j) /\ IsSingle(Q[j])
OneFirst(Q) == \E j \in 1..Len(Q) : Alone(Q, j) /\ IsFirst(Q[j])
OnlyParts(Q, k) ==
    \A i \in 1..Len(Q) : Own(Q[i]) => IsPart(Q[i]) /\ Owner(Q[i]) = k
HasLast(Q, n) ==
    \E i \in 1..Len(Q) : Own(Q[i]) /\ n <= Place(Q[i]) - 1 + CFPayload

-----------------------------------------------------------------------------
(* The course of a call with a correct ECU.                                *)

Quiet == toEcu = <<>> /\ ecu.state = "idle" /\ Silent(toTester)

\* wait_for_fc: the First Frame is on its way, the ECU puts the tester off, or
\* it has cleared it to send.
Opened ==
    /\ Len(payload) > SFMaxLen /\ ecu.total = Len(payload)
    /\ Len(ecu.msg) = FFFirst /\ ecu.seq = 1
Opening ==
    /\ Len(toEcu) = 1 /\ toEcu[1].pci = "FF" /\ Len(payload) > SFMaxLen
    /\ toEcu[1].n = Len(payload) /\ Len(toEcu[1].data) = FFFirst
    /\ ecu.state = "idle" /\ Silent(toTester) /\ waits = 0
Granting ==
    /\ toEcu = <<>> /\ ecu.state = "grant" /\ Opened /\ OnlyWaits(toTester)
    /\ waits + Cardinality(Waits(toTester)) <= ecu.waits
    /\ ecu.waits <= env.waits
GrantSent ==
    /\ toEcu = <<>> /\ ecu.state = "assemble" /\ ecu.left \in Nat /\ Opened
    /\ GrantsLast(toTester, ecu.left)
    /\ waits + Cardinality(Waits(toTester)) <= env.waits

\* The Consecutive Frames of the request, in the order of their numbers.
NumbersRise ==
    \A i \in 1..Len(toEcu) :
        /\ IsPart(toEcu[i]) /\ Len(toEcu[i].data) = CFPayload
        /\ toEcu[i].n = IF i = 1 THEN ecu.seq ELSE NextSeq(toEcu[i - 1].n)
InOrder ==
    /\ ecu.state = "assemble" /\ ecu.total = Len(payload)
    /\ NumbersRise /\ Silent(toTester)
Streaming ==
    /\ InOrder
    /\ IF bs = 0 THEN ecu.left <= 0
       ELSE blockCount < bs /\ ecu.left = (bs - blockCount) + Len(toEcu)
    /\ offset = Len(ecu.msg) + CFPayload * Len(toEcu) /\ offset < Len(payload)
    /\ seq = IF toEcu = <<>> THEN ecu.seq ELSE NextSeq(toEcu[Len(toEcu)].n)
Completing ==
    /\ InOrder /\ toEcu # <<>> /\ (ecu.left <= 0 \/ Len(toEcu) <= ecu.left)
    /\ Len(ecu.msg) + CFPayload * (Len(toEcu) - 1) < Len(payload)
    /\ Len(payload) <= Len(ecu.msg) + CFPayload * Len(toEcu)

\* receive_response: the response is awaited, and comes in a Single Frame or
\* in parts.
Asking ==
    /\ Len(toEcu) = 1 /\ toEcu[1].pci = "SF"
    /\ ecu.state = "idle" /\ Silent(toTester)
Replying == toEcu = <<>> /\ ecu.state = "reply" /\ Silent(toTester)
ReplySent == toEcu = <<>> /\ ecu.state = "idle" /\ OneSingle(toTester)
Holding == ecu.state = "hold" /\ ecu.msg[1][2] = call
FirstSent == toEcu = <<>> /\ Holding /\ OneFirst(toTester)
Clearing ==
    /\ Len(toEcu) = 1 /\ toEcu[1].pci = "FC"
    /\ Holding /\ Silent(toTester)
Responds ==
    /\ toEcu = <<>> /\ ecu.state = "respond" /\ ecu.left <= 0
    /\ ecu.msg[1][2] = call /\ OnlyParts(toTester, call)
Responded ==
    /\ toEcu = <<>> /\ ecu.state = "idle"
    /\ OnlyParts(toTester, call) /\ HasLast(toTester, total)

\* No call has failed or been late, and the ECU is where it should be.
OnCourse ==
    /\ ~late /\ ~abandoned
    /\ pc = "done" => result = "ok"
    /\ pc \in {"idle", "done", "send_first"} => Quiet
    /\ pc = "wait_fc" => Opening \/ Granting \/ GrantSent
    /\ pc = "send_cf" => Streaming
    /\ pc = "recv_first" =>
         Asking \/ Completing \/ Replying \/ ReplySent \/ FirstSent
    /\ pc = "send_fc" => toEcu = <<>> /\ Holding /\ Silent(toTester)
    /\ pc = "recv_cf" => Clearing \/ Responds \/ Responded

\* Once a request has been refused, for its block, the course is left.
CourseInv ==
    CorrectEcu /\ ~abandoned /\ result # "Unsupported" => OnCourse

\* What has been sent of a block, with any ECU: a request refused for its
\* block is too long for it, and one that has been sent is not.
FitInv ==
    /\ pc \in {"send_first", "wait_fc"} => bs = 0
    /\ pc = "send_cf" /\ bs # 0 =>
         blockCount < bs /\ offset = FFFirst + CFPayload * blockCount
    /\ pc \in {"recv_first", "send_fc", "recv_cf"} => ~BlockTooShort
    /\ result = "ok" => ~BlockTooShort
    /\ result = "Unsupported" => BlockTooShort

-----------------------------------------------------------------------------
(* Steps of a queue.                                                       *)

\* Q2 is Q without, or with more, frames of other nodes.
Shifted(Q, Q2, d) ==
    /\ \A i \in 1..Len(Q) :
         Own(Q[i]) => i - d \in 1..Len(Q2) /\ Q2[i - d] = Q[i]
    /\ \A i \in 1..Len(Q2) :
         Own(Q2[i]) => i + d \in 1..Len(Q) /\ Q[i + d] = Q2[i]

LEMMA FewerShifted ==
    ASSUME NEW A, IsFiniteSet(A), NEW B \in SUBSET Int, NEW d \in Int,
           \A b \in B : b + d \in A
    PROVE  IsFiniteSet(B) /\ Cardinality(B) <= Cardinality(A)
<1> DEFINE F == [b \in B |-> b + d]
<1>1. F \in [B -> A]
  OBVIOUS
<1>2. \A a, b \in B : F[a] = F[b] => a = b
  OBVIOUS
<1>3. F \in Injection(B, A)
  BY <1>1, <1>2 DEF Injection, IsInjective
<1> HIDE DEF F
<1> QED
  BY <1>3, FS_Injection

LEMMA WaitsFinite ==
    ASSUME NEW Q \in Seq(Frames)
    PROVE  /\ IsFiniteSet(Waits(Q)) /\ Cardinality(Waits(Q)) \in Nat
           /\ Silent(Q) => Cardinality(Waits(Q)) = 0
<1>1. IsFiniteSet(1..Len(Q)) /\ Waits(Q) \in SUBSET (1..Len(Q))
  BY LenProperties, FS_Interval DEF Waits
<1>2. IsFiniteSet(Waits(Q))
  BY <1>1, FS_Subset
<1>3. Silent(Q) => Waits(Q) = {}
  BY DEF Silent, Waits, IsWait
<1> QED
  BY <1>2, <1>3, FS_CardinalityType, FS_EmptySet

LEMMA ForeignTail ==
    ASSUME NEW Q \in Seq(Frames), Q # <<>>, ~Own(Q[1])
    PROVE  Shifted(Q, Tail(Q), 1) /\ Tail(Q) \in Seq(Frames)
<1>1. /\ Len(Q) \in Nat \ {0} /\ Len(Tail(Q)) = Len(Q) - 1
      /\ Tail(Q) \in Seq(Frames)
      /\ \A i \in 1..Len(Tail(Q)) : Tail(Q)[i] = Q[i + 1]
  BY TailLemma
<1>2. ASSUME NEW i \in 1..Len(Q), Own(Q[i])
      PROVE  i - 1 \in 1..Len(Tail(Q)) /\ Tail(Q)[i - 1] = Q[i]
  <2>1. i # 1
    BY <1>2
  <2>2. i - 1 \in 1..Len(Tail(Q)) /\ (i - 1) + 1 = i
    BY <1>1, <2>1
  <2> QED
    BY <1>1, <2>2
<1>3. \A i \in 1..Len(Tail(Q)) : i + 1 \in 1..Len(Q)
  BY <1>1
<1> QED
  BY <1>1, <1>2, <1>3 DEF Shifted

LEMMA ForeignAppend ==
    ASSUME NEW Q \in Seq(Frames), NEW f \in Frames, ~Own(f)
    PROVE  Shifted(Q, Append(Q, f), 0) /\ Append(Q, f) \in Seq(Frames)
<1>1. /\ Len(Q) \in Nat /\ Len(Append(Q, f)) = Len(Q) + 1
      /\ Append(Q, f) \in Seq(Frames)
      /\ \A i \in 1..Len(Q) : Append(Q, f)[i] = Q[i]
      /\ Append(Q, f)[Len(Q) + 1] = f
  BY AppendLemma, LenProperties
<1>2. \A i \in 1..Len(Q) :
        i - 0 \in 1..Len(Append(Q, f)) /\ Append(Q, f)[i - 0] = Q[i]
  BY <1>1
<1>3. ASSUME NEW i \in 1..Len(Append(Q, f)), Own(Append(Q, f)[i])
      PROVE  i + 0 \in 1..Len(Q) /\ Q[i + 0] = Append(Q, f)[i]
  <2>1. i # Len(Q) + 1
    BY <1>1, <1>3
  <2>2. i + 0 = i /\ i \in 1..Len(Q)
    BY <1>1, <2>1
  <2> QED
    BY <1>1, <2>2
<1> QED
  BY <1>1, <1>2, <1>3 DEF Shifted

\* They make no difference.
LEMMA ShiftedSame ==
    ASSUME NEW Q \in Seq(Frames), NEW Q2 \in Seq(Frames), NEW d \in Int,
           Shifted(Q, Q2, d)
    PROVE  /\ Silent(Q) => Silent(Q2)
           /\ OnlyWaits(Q) => OnlyWaits(Q2)
           /\ \A b : GrantsLast(Q, b) => GrantsLast(Q2, b)
           /\ OneSingle(Q) => OneSingle(Q2)
           /\ OneFirst(Q) => OneFirst(Q2)
           /\ \A k : OnlyParts(Q, k) => OnlyParts(Q2, k)
           /\ \A n : HasLast(Q, n) => HasLast(Q2, n)
           /\ Cardinality(Waits(Q2)) <= Cardinality(Waits(Q))
<1> DEFINE To(i) == i - d
           From(i) == i + d
<1>1. \A i \in 1..Len(Q) :
        Own(Q[i]) => To(i) \in 1..Len(Q2) /\ Q2[To(i)] = Q[i]
  BY DEF Shifted
<1>2. \A i \in 1..Len(Q2) :
        Own(Q2[i]) => From(i) \in 1..Len(Q) /\ Q[From(i)] = Q2[i]
  BY DEF Shifted
<1>3. \A i, j : i \in Nat /\ j \in Nat =>
        /\ From(i) = j => i = To(j)
        /\ From(i) < j => i < To(j)
  OBVIOUS
<1>4. Len(Q) \in Nat /\ Len(Q2) \in Nat
  BY LenProperties
<1>5. Cardinality(Waits(Q2)) <= Cardinality(Waits(Q))
  <2>1. Waits(Q2) \in SUBSET Int /\ \A i \in Waits(Q2) : i + d \in Waits(Q)
    BY <1>2, <1>4 DEF Waits, IsWait
  <2> QED
    BY <2>1, FewerShifted, WaitsFinite
<1> HIDE DEF To, From
<1>6. Silent(Q) => Silent(Q2)
  BY <1>2 DEF Silent
<1>7. OnlyWaits(Q) => OnlyWaits(Q2)
  BY <1>2 DEF OnlyWaits
<1>8. \A k : OnlyParts(Q, k) => OnlyParts(Q2, k)
  BY <1>2 DEF OnlyParts
<1>9. \A n : HasLast(Q, n) => HasLast(Q2, n)
  BY <1>1 DEF HasLast
<1>10. ASSUME NEW j \in 1..Len(Q), Alone(Q, j)
       PROVE  To(j) \in 1..Len(Q2) /\ Q2[To(j)] = Q[j] /\ Alone(Q2, To(j))
  <2>1. Own(Q[j]) /\ To(j) \in 1..Len(Q2) /\ Q2[To(j)] = Q[j]
    BY <1>1, <1>10 DEF Alone
  <2>2. ASSUME NEW i \in 1..Len(Q2), Own(Q2[i])
        PROVE  i = To(j)
    <3>1. From(i) = j
      BY <1>2, <1>10, <2>2 DEF Alone
    <3>2. i \in Nat /\ j \in Nat
      BY <1>4
    <3> QED
      BY <1>3, <3>1, <3>2
  <2> QED
    BY <2>1, <2>2 DEF Alone
<1>11. OneSingle(Q) => OneSingle(Q2)
  BY <1>10 DEF OneSingle
<1>12. OneFirst(Q) => OneFirst(Q2)
  BY <1>10 DEF OneFirst
<1>13. ASSUME NEW b, GrantsLast(Q, b)
       PROVE  GrantsLast(Q2, b)
  <2>1. PICK j \in 1..Len(Q) :
          /\ IsCTS(Q[j]) /\ Granted(Q[j]) = b
          /\ \A i \in 1..Len(Q) : Own(Q[i]) => i = j \/ (i < j /\ IsWait(Q[i]))
    BY <1>13 DEF GrantsLast
  <2>2. To(j) \in 1..Len(Q2) /\ Q2[To(j)] = Q[j]
    BY <1>1, <2>1 DEF IsCTS, Own
  <2>3. ASSUME NEW i \in 1..Len(Q2), Own(Q2[i])
        PROVE  i = To(j) \/ (i < To(j) /\ IsWait(Q2[i]))
    <3>1. /\ From(i) \in 1..Len(Q) /\ Q[From(i)] = Q2[i]
          /\ From(i) = j \/ (From(i) < j /\ IsWait(Q[From(i)]))
      BY <1>2, <2>1, <2>3
    <3>2. i \in Nat /\ j \in Nat
      BY <1>4
    <3> QED
      BY <1>3, <3>1, <3>2
  <2> QED
    BY <2>1, <2>2, <2>3 DEF GrantsLast
<1> QED
  BY <1>5, <1>6, <1>7, <1>8, <1>9, <1>11, <1>12, <1>13

\* The first frame, one of the ECU, is taken.
LEMMA OwnTail ==
    ASSUME NEW Q \in Seq(Frames), Q # <<>>, Own(Q[1]), NEW Q2, Q2 = Tail(Q)
    PROVE  /\ ~Silent(Q) /\ Q2 \in Seq(Frames)
           /\ IsWait(Q[1]) =>
                Cardinality(Waits(Q2)) + 1 <= Cardinality(Waits(Q))
           /\ OnlyWaits(Q) => IsWait(Q[1]) /\ OnlyWaits(Q2)
           /\ \A b : GrantsLast(Q, b) =>
                \/ IsWait(Q[1]) /\ GrantsLast(Q2, b)
                \/ IsCTS(Q[1]) /\ Granted(Q[1]) = b /\ Silent(Q2)
           /\ OneSingle(Q) => IsSingle(Q[1]) /\ Silent(Q2)
           /\ OneFirst(Q) => IsFirst(Q[1]) /\ Silent(Q2)
           /\ \A k : OnlyParts(Q, k) =>
                IsPart(Q[1]) /\ Owner(Q[1]) = k /\ OnlyParts(Q2, k)
           /\ \A n : HasLast(Q, n) =>
                n <= Place(Q[1]) - 1 + CFPayload \/ HasLast(Q2, n)
<1>1. /\ Len(Q) \in Nat \ {0} /\ Len(Q2) = Len(Q) - 1 /\ Q2 \in Seq(Frames)
      /\ \A i \in 1..Len(Q2) : Q2[i] = Q[i + 1]
      /\ \A i \in 1..Len(Q2) : i + 1 \in 1..Len(Q) /\ i + 1 # 1 /\ 1 < i + 1
      /\ 1 \in 1..Len(Q)
  BY TailLemma
<1>2. \A i \in 1..Len(Q) : i = 1 \/ (i - 1 \in 1..Len(Q2) /\ Q2[i - 1] = Q[i])
  <2>1. ASSUME NEW i \in 1..Len(Q), i # 1
        PROVE  i - 1 \in 1..Len(Q2) /\ (i - 1) + 1 = i
    BY <1>1, <2>1
  <2> QED
    BY <1>1, <2>1
<1>3. ~Silent(Q)
  BY <1>1 DEF Silent
<1>4. ASSUME IsWait(Q[1])
      PROVE  Cardinality(Waits(Q2)) + 1 <= Cardinality(Waits(Q))
  <2>1. 1 \in Waits(Q) /\ IsFiniteSet(Waits(Q)) /\ Cardinality(Waits(Q)) \in Nat
    BY <1>1, <1>4, WaitsFinite DEF Waits
  <2> DEFINE A == Waits(Q) \ {1}
             B == Waits(Q2)
             d == 1
  <2>2. IsFiniteSet(A) /\ Cardinality(A) = Cardinality(Waits(Q)) - 1
    BY <2>1, FS_RemoveElement
  <2>3. B \in SUBSET Int /\ d \in Int /\ \A i \in B : i + d \in A
    BY <1>1 DEF Waits
  <2> HIDE DEF A, B, d
  <2>4. Cardinality(B) <= Cardinality(A)
    BY <2>2, <2>3, FewerShifted
  <2>5. Cardinality(Waits(Q2)) \in Nat
    BY <1>1, WaitsFinite
  <2> QED
    BY <2>1, <2>2, <2>4, <2>5 DEF B
<1>5. OnlyWaits(Q) => IsWait(Q[1]) /\ OnlyWaits(Q2)
  BY <1>1 DEF OnlyWaits
<1>6. ASSUME NEW b, GrantsLast(Q, b)
      PROVE  \/ IsWait(Q[1]) /\ GrantsLast(Q2, b)
             \/ IsCTS(Q[1]) /\ Granted(Q[1]) = b /\ Silent(Q2)
  <2>1. PICK j \in 1..Len(Q) :
          /\ IsCTS(Q[j]) /\ Granted(Q[j]) = b
          /\ \A i \in 1..Len(Q) : Own(Q[i]) => i = j \/ (i < j /\ IsWait(Q[i]))
    BY <1>6 DEF GrantsLast
  <2>2. CASE j = 1
    <3>1. \A i \in 1..Len(Q2) : ~Own(Q2[i])
      BY <1>1, <2>1, <2>2
    <3> QED
      BY <2>1, <2>2, <3>1 DEF Silent
  <2>3. CASE j # 1
    <3>1. j - 1 \in 1..Len(Q2) /\ Q2[j - 1] = Q[j]
      BY <1>2, <2>3
    <3>2. ASSUME NEW i \in 1..Len(Q2), Own(Q2[i])
          PROVE  i = j - 1 \/ (i < j - 1 /\ IsWait(Q2[i]))
      <4>1. i + 1 \in 1..Len(Q) /\ Q2[i] = Q[i + 1]
        BY <1>1
      <4>2. i + 1 = j \/ (i + 1 < j /\ IsWait(Q2[i]))
        BY <2>1, <3>2, <4>1
      <4> QED
        BY <1>1, <4>2
    <3>3. GrantsLast(Q2, b)
      BY <2>1, <3>1, <3>2 DEF GrantsLast
    <3> QED
      BY <1>1, <2>1, <2>3, <3>3
  <2> QED
    BY <2>2, <2>3
<1>7. ASSUME NEW j \in 1..Len(Q), Alone(Q, j)
      PROVE  j = 1 /\ Silent(Q2)
  <2>1. j = 1
    BY <1>1, <1>7 DEF Alone
  <2>2. \A i \in 1..Len(Q2) : ~Own(Q2[i])
    BY <1>1, <1>7, <2>1 DEF Alone
  <2> QED
    BY <2>1, <2>2 DEF Silent
<1>8. OneSingle(Q) => IsSingle(Q[1]) /\ Silent(Q2)
  BY <1>7 DEF OneSingle
<1>9. OneFirst(Q) => IsFirst(Q[1]) /\ Silent(Q2)
  BY <1>7 DEF OneFirst
<1>10. \A k : OnlyParts(Q, k) =>
         IsPart(Q[1]) /\ Owner(Q[1]) = k /\ OnlyParts(Q2, k)
  BY <1>1 DEF OnlyParts
<1>11. \A n : HasLast(Q, n) =>
         n <= Place(Q[1]) - 1 + CFPayload \/ HasLast(Q2, n)
  BY <1>2 DEF HasLast
<1> QED
  BY <1>1, <1>3, <1>4, <1>5, <1>6, <1>8, <1>9, <1>10, <1>11

\* The ECU sends a frame.
LEMMA OwnAppend ==
    ASSUME NEW Q \in Seq(Frames), NEW f \in Frames, Own(f), NEW Q2,
           Q2 = Append(Q, f)
    PROVE  /\ Cardinality(Waits(Q2)) <= Cardinality(Waits(Q)) + 1
           /\ ~IsWait(f) => Cardinality(Waits(Q2)) <= Cardinality(Waits(Q))
           /\ OnlyWaits(Q) /\ IsWait(f) => OnlyWaits(Q2)
           /\ OnlyWaits(Q) /\ IsCTS(f) => GrantsLast(Q2, Granted(f))
           /\ Silent(Q) /\ IsSingle(f) => OneSingle(Q2)
           /\ Silent(Q) /\ IsFirst(f) => OneFirst(Q2)
           /\ \A k : OnlyParts(Q, k) /\ IsPart(f) /\ Owner(f) = k =>
                OnlyParts(Q2, k)
           /\ \A n : n <= Place(f) - 1 + CFPayload => HasLast(Q2, n)
<1> DEFINE n == Len(Q) + 1
<1>1. /\ Len(Q) \in Nat /\ Len(Q2) = n /\ Q2 \in Seq(Frames)
      /\ \A i \in 1..Len(Q) : Q2[i] = Q[i]
      /\ Q2[n] = f /\ n \in 1..Len(Q2)
      /\ \A i \in 1..Len(Q2) : i = n \/ (i \in 1..Len(Q) /\ i < n)
  BY AppendLemma, LenProperties
<1> HIDE DEF n
<1>2. /\ IsFiniteSet(Waits(Q)) /\ Cardinality(Waits(Q)) \in Nat
      /\ IsFiniteSet(Waits(Q2)) /\ Cardinality(Waits(Q2)) \in Nat
  BY <1>1, WaitsFinite
<1>3. Cardinality(Waits(Q2)) <= Cardinality(Waits(Q)) + 1
  <2> DEFINE A == Waits(Q) \cup {n}
  <2>1. Waits(Q2) \in SUBSET A
    BY <1>1 DEF Waits
  <2>2. /\ IsFiniteSet(A) /\ Cardinality(A) \in Nat
        /\ Cardinality(A) <= Cardinality(Waits(Q)) + 1
    <3>1. /\ IsFiniteSet(A)
          /\ \/ Cardinality(A) = Cardinality(Waits(Q))
             \/ Cardinality(A) = Cardinality(Waits(Q)) + 1
      BY <1>2, FS_AddElement
    <3> HIDE DEF A
    <3> QED
      BY <1>2, <3>1
  <2> HIDE DEF A
  <2>3. Cardinality(Waits(Q2)) <= Cardinality(A)
    BY <2>1, <2>2, FS_Subset
  <2> QED
    BY <1>2, <2>2, <2>3
<1>4. ASSUME ~IsWait(f)
      PROVE  Cardinality(Waits(Q2)) <= Cardinality(Waits(Q))
  <2>1. Waits(Q2) \in SUBSET Waits(Q)
    BY <1>1, <1>4 DEF Waits
  <2> QED
    BY <1>2, <2>1, FS_Subset
<1>5. OnlyWaits(Q) /\ IsWait(f) => OnlyWaits(Q2)
  BY <1>1 DEF OnlyWaits
<1>6. ASSUME OnlyWaits(Q), IsCTS(f)
      PROVE  GrantsLast(Q2, Granted(f))
  <2>1. \A i \in 1..Len(Q2) : Own(Q2[i]) => i = n \/ (i < n /\ IsWait(Q2[i]))
    BY <1>1, <1>6 DEF OnlyWaits
  <2> QED
    BY <1>1, <1>6, <2>1 DEF GrantsLast
<1>7. Silent(Q) => Alone(Q2, n)
  BY <1>1 DEF Silent, Alone
<1>8. Silent(Q) /\ IsSingle(f) => OneSingle(Q2)
  BY <1>1, <1>7 DEF OneSingle
<1>9. Silent(Q) /\ IsFirst(f) => OneFirst(Q2)
  BY <1>1, <1>7 DEF OneFirst
<1>10. \A k : OnlyParts(Q, k) /\ IsPart(f) /\ Owner(f) = k => OnlyParts(Q2, k)
  BY <1>1 DEF OnlyParts
<1>11. \A m : m <= Place(f) - 1 + CFPayload => HasLast(Q2, m)
  BY <1>1 DEF HasLast
<1> QED
  BY <1>3, <1>4, <1>5, <1>6, <1>8, <1>9, <1>10, <1>11

\* No frame of the ECU is as good as a queue of Wait frames, or of parts.
LEMMA SilentQueue ==
    ASSUME NEW Q, Silent(Q)
    PROVE  OnlyWaits(Q) /\ \A k : OnlyParts(Q, k)
  BY DEF Silent, OnlyWaits, OnlyParts

-----------------------------------------------------------------------------
(* Nothing happens that matters.                                           *)

LEMMA CorrectFacts ==
    ASSUME Types, CorrectEcu
    PROVE  /\ lost = 0 /\ env.lost = 0 /\ env.waits \in Nat /\ waits \in Nat
           /\ env.waits <= MaxWaits /\ MaxWaits < U8
           /\ ~env.faulty /\ env.patient /\ ~env.fails
           /\ env.blocks \subseteq 0..U8 - 1
           /\ env.reqLens \subseteq 1..MaxFFLength
<1>1. /\ lost \in 0..env.lost /\ waits \in Nat /\ env.waits \in Nat
      /\ env.blocks \subseteq 0..U8 - 1
  <2>1. env \in Envs /\ lost \in 0..env.lost
    BY DEF Types, BusTypes
  <2>2. waits \in 0..U8 - 1
    BY DEF Types, TesterTypes
  <2> QED
    BY <2>1, <2>2, EnvTypes, Sizes
<1>2. MaxWaits \in 0..U8 - 1 /\ U8 \in Nat
  BY Sizes
<1> QED
  BY <1>1, <1>2 DEF CorrectEcu

\* The course of a call, by what there is for somebody to do.
LEMMA Courses ==
    ASSUME Types, OnCourse
    PROVE  \/ pc \in {"idle", "done", "send_first"} /\ Quiet
           \/ pc = "wait_fc" /\ (Opening \/ Granting \/ GrantSent)
           \/ pc = "send_cf" /\ Streaming
           \/ /\ pc = "recv_first"
              /\ Asking \/ Completing \/ Replying \/ ReplySent \/ FirstSent
           \/ pc = "send_fc" /\ toEcu = <<>> /\ Holding /\ Silent(toTester)
           \/ pc = "recv_cf" /\ (Clearing \/ Responds \/ Responded)
<1>1. pc \in PCs
  BY DEF Types, TesterTypes
<1> QED
  BY <1>1 DEF OnCourse, PCs

LEMMA EcuCourses ==
    ASSUME Types, OnCourse
    PROVE  /\ ecu.state = "grant" => pc = "wait_fc" /\ Granting
           /\ ecu.state = "reply" => pc = "recv_first" /\ Replying
           /\ ecu.state = "respond" => pc = "recv_cf" /\ Responds
           /\ toEcu # <<>> =>
                \/ pc = "wait_fc" /\ Opening
                \/ pc = "send_cf" /\ Streaming
                \/ pc = "recv_first" /\ (Asking \/ Completing)
                \/ pc = "recv_cf" /\ Clearing
           /\ ~Silent(toTester) =>
                \/ pc = "wait_fc" /\ (Granting \/ GrantSent)
                \/ pc = "recv_first" /\ (ReplySent \/ FirstSent)
                \/ pc = "recv_cf" /\ (Responds \/ Responded)
<1> QED
  BY Courses DEF Quiet, Opening, Granting, GrantSent, Streaming, Completing,
                 InOrder, Asking, Replying, ReplySent, Holding, FirstSent,
                 Clearing, Responds, Responded

\* Frames of other nodes come and go.
LEMMA CourseStill ==
    ASSUME Types, OnCourse, toTester' \in Seq(Frames), NEW d \in Int,
           Shifted(toTester, toTester', d),
           UNCHANGED <<env, toEcu, ecu, call, pc, late, payload, offset, seq,
                       blockCount, bs, waits, total, result, abandoned>>
    PROVE  OnCourse'
<1> DEFINE Q == toTester
           Q2 == toTester'
<1>1. Q \in Seq(Frames) /\ Q2 \in Seq(Frames) /\ Shifted(Q, Q2, d)
  BY Queues
<1> HIDE DEF Q, Q2
<1>2. /\ Silent(Q) => Silent(Q2)
      /\ OnlyWaits(Q) => OnlyWaits(Q2)
      /\ \A b : GrantsLast(Q, b) => GrantsLast(Q2, b)
      /\ OneSingle(Q) => OneSingle(Q2)
      /\ OneFirst(Q) => OneFirst(Q2)
      /\ \A k : OnlyParts(Q, k) => OnlyParts(Q2, k)
      /\ \A n : HasLast(Q, n) => HasLast(Q2, n)
      /\ Cardinality(Waits(Q2)) <= Cardinality(Waits(Q))
      /\ Cardinality(Waits(Q)) \in Nat /\ Cardinality(Waits(Q2)) \in Nat
  BY <1>1, ShiftedSame, WaitsFinite
<1> USE DEF Q, Q2
<1>3. Quiet => Quiet'
  BY <1>2 DEF Quiet
<1>4. Opening => Opening'
  BY <1>2 DEF Opening
<1>5. Opened => Opened'
  BY DEF Opened
<1>6. ASSUME NEW n \in Nat, waits + Cardinality(Waits(Q)) <= n
      PROVE  waits + Cardinality(Waits(Q2)) <= n
  <2>1. waits \in Nat
    BY DEF Types, TesterTypes
  <2> QED
    BY <1>2, <1>6, <2>1
<1>7. Granting => Granting'
  <2>1. ecu.waits \in Nat
    BY DEF Types, EcuTypes, EcuRecords
  <2> QED
    BY <1>2, <1>5, <1>6, <2>1 DEF Granting
<1>8. GrantSent => GrantSent'
  <2>1. env.waits \in Nat
    BY EnvTypes DEF Types, BusTypes
  <2> QED
    BY <1>2, <1>5, <1>6, <2>1 DEF GrantSent
<1>9. InOrder => InOrder'
  BY <1>2 DEF InOrder, NumbersRise
<1>10. Streaming => Streaming'
  BY <1>9 DEF Streaming
<1>11. Completing => Completing'
  BY <1>9 DEF Completing
<1>12. (Asking => Asking') /\ (Replying => Replying') /\ (Holding => Holding')
  BY <1>2 DEF Asking, Replying, Holding
<1>13. (ReplySent => ReplySent') /\ (FirstSent => FirstSent')
  BY <1>2, <1>12 DEF ReplySent, FirstSent
<1>14. (Clearing => Clearing') /\ (Responds => Responds')
  BY <1>2, <1>12 DEF Clearing, Responds
<1>15. Responded => Responded'
  BY <1>2 DEF Responded
<1>16. Silent(toTester) => Silent(toTester)'
  BY <1>2
<1> QED
  BY <1>3, <1>4, <1>7, <1>8, <1>10, <1>11, <1>12, <1>13, <1>14, <1>15, <1>16
     DEF OnCourse

\* The clock cannot run out: there is always something left to do.
LEMMA NeverStuck == ASSUME Types, OnCourse PROVE ~Stuck
<1>1. /\ \A b : GrantsLast(toTester, b) => toTester # <<>>
      /\ OneSingle(toTester) \/ OneFirst(toTester) => toTester # <<>>
      /\ HasLast(toTester, total) => toTester # <<>>
  <2>1. toTester = <<>> => 1..Len(toTester) = {}
    OBVIOUS
  <2> QED
    BY <2>1 DEF GrantsLast, OneSingle, OneFirst, HasLast
<1>2. Len(toEcu) = 1 => toEcu # <<>>
  OBVIOUS
<1> QED
  BY <1>1, <1>2, Courses DEF Stuck, Receiving, Opening, Granting, GrantSent,
       Completing, Asking, Replying, ReplySent, FirstSent, Clearing, Responds,
       Responded

\* So only a poll that finds nothing can keep the tester where it is.
LEMMA AsideCourse ==
    ASSUME Types, CorrectEcu, OnCourse, Aside
    PROVE  OnCourse'
<1>1. Poll \/ RecvNone
  <2>1. ~late
    BY DEF OnCourse
  <2>2. ~GiveUp /\ ~SocketError /\ ~DeadlinePasses
    BY <2>1, NeverStuck, CorrectFacts DEF GiveUp, SocketError, DeadlinePasses
  <2> QED
    BY <2>2 DEF Aside
<1>2. /\ toTester' = toTester
      /\ UNCHANGED <<env, toEcu, ecu, call, pc, late, payload, offset, seq,
                     blockCount, bs, waits, total, result, abandoned>>
  BY <1>1 DEF Poll, RecvNone, busVars, sendVars, recvVars, histVars
<1>3. toTester \in Seq(Frames) /\ Shifted(toTester, toTester, 0)
  <2>1. \A i \in 1..Len(toTester) : i - 0 = i /\ i + 0 = i
    BY Queues
  <2> QED
    BY <2>1, Queues DEF Shifted
<1> QED
  BY <1>2, <1>3, CourseStill

LEMMA RecvForeignCourse ==
    ASSUME Types, OnCourse, NEW f, RecvForeign(f)
    PROVE  OnCourse'
<1>1. /\ Recv(f) /\ ~Own(f)
      /\ UNCHANGED <<env, toEcu, ecu, call, pc, late, payload, offset, seq,
                     blockCount, bs, waits, total, result, abandoned>>
  BY DEF RecvForeign, Own, sendVars, recvVars, histVars
<1>2. /\ toTester \in Seq(Frames) /\ toTester # <<>> /\ f = toTester[1]
      /\ toTester' = Tail(toTester)
  BY <1>1, Queues, TesterTook DEF Recv
<1>3. Shifted(toTester, toTester', 1) /\ toTester' \in Seq(Frames)
  BY <1>1, <1>2, ForeignTail
<1> QED
  BY <1>1, <1>3, CourseStill

LEMMA DisturbCourse ==
    ASSUME Types, CorrectEcu, OnCourse, Disturb
    PROVE  OnCourse'
<1>1. PICK f \in Foreign : toTester' = Append(toTester, f)
  BY CorrectFacts DEF Disturb
<1>2. ~Own(f) /\ f \in Frames
  BY DisturbType DEF Foreign, Own, SF
<1>3. Shifted(toTester, toTester', 0) /\ toTester' \in Seq(Frames)
  BY <1>1, <1>2, Queues, ForeignAppend
<1>4. UNCHANGED <<env, toEcu, ecu, call, pc, late, payload, offset, seq,
                  blockCount, bs, waits, total, result, abandoned>>
  BY DEF Disturb, testerVars, sendVars, recvVars, histVars
<1> QED
  BY <1>3, <1>4, CourseStill

\* The bus loses nothing, and the ECU neither fails nor gives up.
LEMMA NoFault ==
    ASSUME Types, CorrectEcu
    PROVE  ~Lose /\ ~EcuOverflow /\ ~EcuAbandons
  BY CorrectFacts DEF Lose, EcuOverflow, EcuAbandons

-----------------------------------------------------------------------------
(* The tester sends.                                                       *)

LEMMA StartCourse ==
    ASSUME Types, CorrectEcu, OnCourse, NEW len \in env.reqLens, Start(len)
    PROVE  OnCourse'
<1>1. len \in 1..MaxFFLength
  BY CorrectFacts
<1>2. ~(len = 0 \/ len > MaxFFLength)
  BY <1>1, Sizes
<1>3. /\ pc' = "send_first" /\ late' = FALSE /\ UNCHANGED <<toEcu, toTester, ecu>>
      /\ pc \in {"idle", "done"}
      /\ abandoned' = (abandoned \/ (pc = "done" /\ result # "ok"))
  BY <1>2 DEF Start, busVars
<1>4. abandoned' = FALSE /\ Quiet
  BY <1>3 DEF OnCourse
<1>5. Quiet'
  BY <1>3, <1>4 DEF Quiet
<1> QED
  BY <1>3, <1>4, <1>5 DEF OnCourse

\* A frame is put into an empty queue.
LEMMA FirstSends ==
    ASSUME Types, NEW f \in Frames, Send(f), toEcu = <<>>
    PROVE  Len(toEcu') = 1 /\ toEcu'[1] = f
<1>1. Len(toEcu') = Len(toEcu) + 1 /\ toEcu'[Len(toEcu) + 1] = f
  BY TesterSent
<1>2. Len(toEcu) = 0
  OBVIOUS
<1> QED
  BY <1>1, <1>2

LEMMA SendFirstCourse ==
    ASSUME Types, OnCourse, SendFirst
    PROVE  OnCourse'
<1>1. Quiet /\ pc = "send_first"
  BY DEF OnCourse, SendFirst
<1>2. /\ Send(FirstFrame)
      /\ UNCHANGED <<env, toTester, ecu, late, payload, abandoned>>
      /\ IF Len(payload) <= SFMaxLen THEN pc' = "recv_first"
         ELSE pc' = "wait_fc" /\ waits' = 0
  BY DEF SendFirst, FirstFrame
<1>3. /\ FirstFrame \in Frames /\ FirstFrame.n = Len(payload)
      /\ IF Len(payload) <= SFMaxLen THEN FirstFrame.pci = "SF"
         ELSE /\ FirstFrame.pci = "FF"
              /\ FirstFrame.data = Chunk(payload, 0, FFFirst)
  BY <1>1, FirstFrameLemma DEF Types
<1>4. /\ Len(toEcu') = 1 /\ toEcu'[1] = FirstFrame
      /\ ecu'.state = "idle" /\ Silent(toTester')
  BY <1>1, <1>2, <1>3, FirstSends DEF Quiet
<1>5. CASE Len(payload) <= SFMaxLen
  <2>1. Asking' /\ pc' = "recv_first"
    BY <1>2, <1>3, <1>4, <1>5 DEF Asking
  <2> QED
    BY <1>2, <2>1 DEF OnCourse
<1>6. CASE ~(Len(payload) <= SFMaxLen)
  <2>1. payload \in Seq(Bytes) /\ Len(payload) \in Nat
    BY LenProperties DEF Types, TesterTypes
  <2>2. Least(0 + FFFirst, Len(payload)) = FFFirst
    BY <1>6, <2>1, Sizes DEF Least
  <2>3. Len(Chunk(payload, 0, FFFirst)) = FFFirst
    BY <2>1, <2>2, Sizes, ChunkLemma
  <2>4. Len(payload') > SFMaxLen
    BY <1>2, <1>6, <2>1, Sizes
  <2>5. Opening' /\ pc' = "wait_fc"
    BY <1>2, <1>3, <1>4, <1>6, <2>3, <2>4 DEF Opening
  <2> QED
    BY <1>2, <2>5 DEF OnCourse
<1> QED
  BY <1>5, <1>6

\* The next Consecutive Frame follows the last in number.
LEMMA NextFrameNumber ==
    ASSUME Types, pc = "send_cf", NEW f,
           f = EncodeCF(seq, Chunk(payload, offset, CFPayload))
    PROVE  /\ f \in Frames /\ IsPart(f) /\ f.n = seq
           /\ Len(f.data) = CFPayload
<1>1. /\ seq \in Nat /\ seq % SeqModulus = seq /\ seq \in 0..MaxFFLength
      /\ payload \in Seq(Bytes) /\ offset \in Nat
  <2>1. seq \in 0..SeqModulus - 1 /\ offset \in 0..Len(payload)
    BY DEF Types, TesterTypes
  <2>2. seq \in Nat /\ seq < SeqModulus /\ seq <= MaxFFLength
    BY <2>1, Sizes
  <2> QED
    BY <2>1, <2>2, Sizes, ModLemma DEF Types, TesterTypes
<1> DEFINE c == Chunk(payload, offset, CFPayload)
<1>2. c \in Seq(Bytes) /\ Len(c) \in Nat /\ Len(c) <= CFPayload
  <2>1. /\ c \in Seq(Bytes)
        /\ Len(c) = IF offset < Least(offset + CFPayload, Len(payload))
                    THEN Least(offset + CFPayload, Len(payload)) - offset ELSE 0
    BY <1>1, Sizes, ChunkLemma
  <2>2. Least(offset + CFPayload, Len(payload)) <= offset + CFPayload
    BY <1>1, Sizes, LenProperties, LeastLemma
  <2>3. Least(offset + CFPayload, Len(payload)) \in Int
    BY <1>1, Sizes, LenProperties, LeastLemma
  <2> HIDE DEF c
  <2> QED
    BY <1>1, <2>1, <2>2, <2>3, Sizes, LenProperties
<1> HIDE DEF c
<1>3. Pad(c, CFPayload) \in Seq(Bytes) /\ Len(Pad(c, CFPayload)) = CFPayload
  BY <1>2, Sizes, PadLemma
<1>4. f = CF(seq, Pad(c, CFPayload))
  BY <1>1 DEF EncodeCF, c
<1>5. f \in Frames
  BY <1>1, <1>3, <1>4, FrameTypes
<1> QED
  BY <1>3, <1>4, <1>5 DEF CF, IsPart

LEMMA SendCFCourse ==
    ASSUME Types, OnCourse, SendCF, result' # "Unsupported"
    PROVE  OnCourse'
<1> DEFINE f == EncodeCF(seq, Chunk(payload, offset, CFPayload))
           n == Len(toEcu)
<1>1. Streaming /\ pc = "send_cf"
  BY DEF OnCourse, SendCF
<1>2. /\ Send(f) /\ seq' = NextSeq(seq)
      /\ offset' = Least(offset + CFPayload, Len(payload))
      /\ UNCHANGED <<toTester, ecu, late, payload, bs, abandoned>>
      /\ pc' = IF offset' < Len(payload) THEN "send_cf" ELSE "recv_first"
      /\ blockCount' = Least(blockCount + 1, U8 - 1) /\ ~BlockDone
  BY DEF SendCF, Return
<1>3. f \in Frames /\ IsPart(f) /\ f.n = seq /\ Len(f.data) = CFPayload
  BY <1>1, NextFrameNumber
<1> HIDE DEF f
<1>4. /\ n \in Nat /\ Len(toEcu') = n + 1 /\ toEcu'[n + 1] = f
      /\ \A i \in 1..n : toEcu'[i] = toEcu[i]
      /\ toEcu' # <<>>
  <2>1. /\ Len(toEcu') = n + 1 /\ toEcu'[n + 1] = f /\ n \in Nat
        /\ \A i \in 1..n : toEcu'[i] = toEcu[i]
    BY <1>2, <1>3, TesterSent, Queues
  <2>2. toEcu' # <<>>
    BY <2>1
  <2> QED
    BY <2>1, <2>2
<1>5. n = 0 <=> toEcu = <<>>
  BY Queues, EmptySeq
<1> HIDE DEF n
<1>6. NumbersRise'
  <2> SUFFICES ASSUME NEW i \in 1..n + 1
               PROVE  /\ IsPart(toEcu'[i]) /\ Len(toEcu'[i].data) = CFPayload
                      /\ toEcu'[i].n = IF i = 1 THEN ecu.seq
                                       ELSE NextSeq(toEcu'[i - 1].n)
    BY <1>2, <1>4 DEF NumbersRise
  <2>1. CASE i = n + 1
    <3>1. i = 1 => toEcu = <<>>
      BY <1>4, <1>5, <2>1
    <3>2. i # 1 => toEcu # <<>> /\ i - 1 = n /\ n \in 1..n
      BY <1>4, <1>5, <2>1
    <3> QED
      BY <1>1, <1>3, <1>4, <2>1, <3>1, <3>2 DEF Streaming, n
  <2>2. CASE i # n + 1
    <3>1. i \in 1..n /\ (i # 1 => i - 1 \in 1..n)
      BY <1>4, <2>2
    <3> QED
      BY <1>1, <1>4, <3>1 DEF Streaming, InOrder, NumbersRise, n
  <2> QED
    BY <2>1, <2>2
<1>7. InOrder'
  BY <1>1, <1>2, <1>6 DEF Streaming, InOrder
<1>8. /\ offset \in Nat /\ Len(payload) \in Nat /\ offset < Len(payload)
      /\ offset = Len(ecu.msg) + CFPayload * n
      /\ offset + CFPayload = Len(ecu.msg) + CFPayload * (n + 1)
      /\ CFPayload \in Nat
  <2>1. /\ offset \in 0..Len(payload) /\ Len(payload) \in Nat
        /\ Len(ecu.msg) \in Nat
    BY LenProperties DEF Types, TesterTypes, EcuTypes, EcuRecords
  <2>2. offset = Len(ecu.msg) + CFPayload * n /\ offset < Len(payload)
    BY <1>1 DEF Streaming, n
  <2>3. CFPayload * (n + 1) = CFPayload * n + CFPayload /\ CFPayload * n \in Nat
    BY <1>4, Sizes
  <2> QED
    BY <2>1, <2>2, <2>3, Sizes
\* A block is counted as the ECU counts it.
<1>8a. ASSUME bs # 0
          PROVE  /\ blockCount' \in Nat /\ bs \in Nat /\ blockCount' <= bs
                 /\ ecu.left = (bs - blockCount') + (n + 1)
                 /\ offset' < Len(payload) => blockCount' < bs
  <2>1. blockCount < bs /\ ecu.left = (bs - blockCount) + n
    BY <1>1, <1>8a DEF Streaming, n
  <2>2. /\ blockCount \in Nat /\ bs \in Nat /\ bs <= U8 - 1 /\ U8 \in Nat
    BY Sizes DEF Types, TesterTypes
  <2>3. blockCount' = blockCount + 1
    BY <1>2, <2>1, <2>2 DEF Least
  <2>4. ~(blockCount' = bs /\ offset' < Len(payload))
    BY <1>2, <1>8a DEF BlockDone
  <2> QED
    BY <1>4, <2>1, <2>2, <2>3, <2>4
<1>9. CASE offset' < Len(payload)
  <2>1. offset' = offset + CFPayload
    BY <1>2, <1>8, <1>9 DEF Least
  <2>2. offset' = Len(ecu'.msg) + CFPayload * Len(toEcu')
    BY <1>2, <1>4, <1>8, <2>1
  <2>3. seq' = NextSeq(toEcu'[Len(toEcu')].n)
    BY <1>2, <1>3, <1>4
  <2>4. IF bs' = 0 THEN ecu'.left <= 0
        ELSE blockCount' < bs' /\ ecu'.left = (bs' - blockCount') + Len(toEcu')
    <3>1. CASE bs = 0
      BY <1>1, <1>2, <3>1 DEF Streaming
    <3>2. CASE bs # 0
      BY <1>2, <1>4, <1>9, <1>8a, <3>2
    <3> QED
      BY <3>1, <3>2
  <2>5. Streaming' /\ pc' = "send_cf"
    BY <1>2, <1>4, <1>7, <1>9, <2>2, <2>3, <2>4 DEF Streaming
  <2> QED
    BY <1>2, <2>5 DEF OnCourse
<1>10. CASE ~(offset' < Len(payload))
  <2>1. Len(payload) <= offset + CFPayload
    BY <1>2, <1>8, <1>10 DEF Least
  <2>2. Len(toEcu') - 1 = n
    BY <1>4
  <2>3. /\ Len(ecu'.msg) + CFPayload * (Len(toEcu') - 1) < Len(payload')
        /\ Len(payload') <= Len(ecu'.msg) + CFPayload * Len(toEcu')
    <3>1. Len(ecu.msg) + CFPayload * (Len(toEcu') - 1) = offset
      BY <1>8, <2>2
    <3>2. Len(ecu.msg) + CFPayload * Len(toEcu') = offset + CFPayload
      BY <1>4, <1>8
    <3>3. ecu' = ecu /\ payload' = payload
      BY <1>2
    <3> QED
      BY <1>8, <2>1, <3>1, <3>2, <3>3
  <2>4. ecu'.left <= 0 \/ Len(toEcu') <= ecu'.left
    <3>1. CASE bs = 0
      BY <1>1, <1>2, <3>1 DEF Streaming
    <3>2. CASE bs # 0
      BY <1>2, <1>4, <1>8a, <3>2
    <3> QED
      BY <3>1, <3>2
  <2>5. Completing' /\ pc' = "recv_first"
    BY <1>2, <1>4, <1>7, <1>10, <2>3, <2>4 DEF Completing
  <2> QED
    BY <1>2, <2>5 DEF OnCourse
<1> QED
  BY <1>9, <1>10

LEMMA SendFCCourse ==
    ASSUME Types, OnCourse, SendFC
    PROVE  OnCourse'
<1> DEFINE f == EncodeFC(CTS, BlockSize)
<1>1. /\ toEcu = <<>> /\ Holding /\ Silent(toTester) /\ Send(f)
      /\ pc' = "recv_cf" /\ UNCHANGED <<toTester, ecu, late, call, abandoned>>
  BY DEF SendFC, OnCourse
<1>2. f \in Frames /\ f.pci = "FC"
  <2>1. CTS \in 0..3 /\ BlockSize \in Nat
    BY Sizes DEF CTS
  <2>2. FC(CTS, BlockSize) \in Frames
    BY <2>1, FCType
  <2> QED
    <3>1. FC(CTS, BlockSize).pci = "FC"
      BY DEF FC
    <3> QED
      BY <2>2, <3>1 DEF EncodeFC
<1> HIDE DEF f
<1>3. Len(toEcu') = 1 /\ toEcu'[1] = f
  BY <1>1, <1>2, FirstSends
<1>4. Clearing'
  BY <1>1, <1>2, <1>3 DEF Clearing, Holding
<1> QED
  BY <1>1, <1>4 DEF OnCourse

-----------------------------------------------------------------------------
(* The tester takes a frame of the ECU.                                    *)

LEMMA OwnTaken ==
    ASSUME Types, NEW f, Recv(f), f.id = "ecu"
    PROVE  /\ toTester \in Seq(Frames) /\ toTester # <<>> /\ Own(toTester[1])
           /\ f = toTester[1] /\ f \in Frames /\ toTester' = Tail(toTester)
           /\ toTester' \in Seq(Frames) /\ ~Silent(toTester)
<1>1. /\ toTester \in Seq(Frames) /\ toTester # <<>> /\ f = toTester[1]
      /\ toTester' = Tail(toTester) /\ 1 \in 1..Len(toTester)
  BY Queues, TesterTook DEF Recv
<1> QED
  BY <1>1, OwnTail DEF Own

\* wait_for_fc takes Wait, no more often than it tolerates, or Clear To Send.
LEMMA RecvFCCourse ==
    ASSUME Types, CorrectEcu, OnCourse, NEW f, RecvFC(f)
    PROVE  OnCourse'
<1> DEFINE Q == toTester
           Q2 == toTester'
<1>1. /\ pc = "wait_fc" /\ Recv(f) /\ f.id = "ecu"
      /\ UNCHANGED <<env, toEcu, ecu, late, payload, call, abandoned>>
  BY DEF RecvFC, sendVars
<1>2. /\ Q \in Seq(Frames) /\ Q # <<>> /\ Own(Q[1]) /\ f = Q[1]
      /\ Q2 = Tail(Q) /\ Q2 \in Seq(Frames) /\ ~Silent(Q)
  BY <1>1, OwnTaken
<1>3. Granting \/ GrantSent
  BY <1>1, <1>2, EcuCourses
<1> HIDE DEF Q, Q2
<1>4. /\ IsWait(f) => Cardinality(Waits(Q2)) + 1 <= Cardinality(Waits(Q))
      /\ OnlyWaits(Q) => IsWait(f) /\ OnlyWaits(Q2)
      /\ \A b : GrantsLast(Q, b) =>
           \/ IsWait(f) /\ GrantsLast(Q2, b)
           \/ IsCTS(f) /\ Granted(f) = b /\ Silent(Q2)
      /\ Cardinality(Waits(Q)) \in Nat /\ Cardinality(Waits(Q2)) \in Nat
  BY <1>2, OwnTail, WaitsFinite
<1> USE DEF Q, Q2
<1>5. CASE IsWait(f)
  <2>1. /\ waits' = (waits + 1) % U8
        /\ IF waits' > MaxWaits THEN pc' = "done" ELSE pc' = pc
    <3>1. IsFC(f, WAIT) /\ ~IsFC(f, CTS) /\ ~IsFC(f, OVERFLOW) /\ f.pci # "none"
      BY <1>5 DEF IsWait, IsFC, CTS, WAIT, OVERFLOW
    <3> QED
      BY <3>1 DEF RecvFC, TooManyWaits, Return
  <2>2. waits + 1 + Cardinality(Waits(Q2)) <= waits + Cardinality(Waits(Q))
    BY <1>4, <1>5, CorrectFacts
  <2>3. waits + Cardinality(Waits(Q)) <= env.waits
    <3>1. ecu.waits \in Nat /\ waits \in Nat /\ env.waits \in Nat
      BY CorrectFacts DEF Types, EcuTypes, EcuRecords
    <3> QED
      BY <1>3, <1>4, <3>1 DEF Granting, GrantSent
  <2>4. waits + 1 <= MaxWaits /\ waits + 1 < U8 /\ MaxWaits \in Nat /\ U8 \in Nat
    BY <1>4, <2>2, <2>3, CorrectFacts, Sizes
  <2>5. waits' = waits + 1
    BY <2>1, <2>4, CorrectFacts, ModLemma
  <2>6. pc' = "wait_fc"
    BY <1>1, <2>1, <2>4, <2>5, CorrectFacts
  <2>7. waits' + Cardinality(Waits(Q2)) <= waits + Cardinality(Waits(Q))
    BY <2>2, <2>5
  <2>8. Opened => Opened'
    BY <1>1 DEF Opened
  <2>9. ASSUME Granting
        PROVE  Granting'
    <3>1. waits' + Cardinality(Waits(Q2)) <= ecu.waits
      <4>1. waits + Cardinality(Waits(Q)) <= ecu.waits
        BY <2>9 DEF Granting
      <4>2. ecu.waits \in Nat /\ waits \in Nat
        BY CorrectFacts DEF Types, EcuTypes, EcuRecords
      <4> QED
        BY <1>4, <2>5, <2>7, <4>1, <4>2
    <3> QED
      BY <1>1, <1>4, <2>8, <2>9, <3>1 DEF Granting
  <2>10. ASSUME GrantSent
         PROVE  GrantSent'
    <3>1. waits' + Cardinality(Waits(Q2)) <= env.waits
      BY <1>4, <2>3, <2>5, <2>7, CorrectFacts
    <3>2. GrantsLast(Q2, ecu.left)
      BY <1>4, <1>5, <2>10 DEF GrantSent, IsWait, IsCTS, IsFC, WAIT, CTS
    <3> QED
      BY <1>1, <2>8, <2>10, <3>1, <3>2 DEF GrantSent
  <2> QED
    BY <1>1, <1>3, <2>6, <2>9, <2>10 DEF OnCourse
<1>6. CASE ~IsWait(f)
  <2>1. GrantSent /\ IsCTS(f) /\ Granted(f) = ecu.left /\ Silent(Q2)
    BY <1>3, <1>4, <1>6 DEF Granting, GrantSent
  <2>2. /\ pc' = "send_cf" /\ bs' = ecu.left /\ blockCount' = 0
        /\ offset' = FFFirst /\ seq' = 1
    <3>1. IsFC(f, CTS) /\ ~IsFC(f, WAIT) /\ ~IsFC(f, OVERFLOW) /\ f.pci # "none"
      BY <2>1 DEF IsCTS, IsFC, CTS, WAIT, OVERFLOW
    <3>2. /\ bs' = Granted(f) /\ pc' = "send_cf" /\ offset' = FFFirst
          /\ seq' = 1 /\ blockCount' = 0
      BY <3>1 DEF RecvFC, Granted
    <3> QED
      BY <2>1, <3>2
  <2>3. /\ toEcu' = <<>> /\ ecu' = ecu /\ payload' = payload
        /\ ecu.state = "assemble" /\ ecu.left \in Nat /\ Opened
    BY <1>1, <2>1 DEF GrantSent
  <2>4. Len(toEcu') = 0 /\ 1..Len(toEcu') = {}
    BY <2>3
  <2>5. InOrder'
    BY <2>1, <2>3, <2>4 DEF InOrder, NumbersRise, Opened
  <2>6. /\ offset' = Len(ecu'.msg) + CFPayload * Len(toEcu')
        /\ offset' < Len(payload') /\ seq' = ecu'.seq
    <3>1. CFPayload * Len(toEcu') = 0
      BY <2>4, Sizes
    <3>2. Len(payload) \in Nat
      BY LenProperties DEF Types, TesterTypes
    <3> QED
      BY <2>2, <2>3, <3>1, <3>2, Sizes DEF Opened
  <2>7. IF bs' = 0 THEN ecu'.left <= 0
        ELSE blockCount' < bs' /\ ecu'.left = (bs' - blockCount') + Len(toEcu')
    BY <2>2, <2>3, <2>4
  <2>8. Streaming'
    BY <2>2, <2>3, <2>5, <2>6, <2>7 DEF Streaming
  <2> QED
    BY <1>1, <2>2, <2>8 DEF OnCourse
<1> QED
  BY <1>5, <1>6

\* receive_response takes the frame that is the response, or begins it.
LEMMA RecvFirstCourse ==
    ASSUME Types, OnCourse, NEW f, RecvFirst(f)
    PROVE  OnCourse'
<1>1. /\ pc = "recv_first" /\ Recv(f) /\ f.id = "ecu"
      /\ UNCHANGED <<env, toEcu, ecu, late, call, abandoned>>
  BY DEF RecvFirst, histVars
<1>2. /\ toTester \in Seq(Frames) /\ toTester # <<>> /\ Own(toTester[1])
      /\ f = toTester[1] /\ toTester' = Tail(toTester) /\ ~Silent(toTester)
  BY <1>1, OwnTaken
<1>3. ReplySent \/ FirstSent
  BY <1>1, <1>2, EcuCourses
<1>4. /\ OneSingle(toTester) => IsSingle(f) /\ Silent(toTester')
      /\ OneFirst(toTester) => IsFirst(f) /\ Silent(toTester')
  BY <1>2, OwnTail
<1>5. CASE ReplySent
  <2>1. IsSingle(f) /\ ~IsFirst(f) /\ Silent(toTester')
    BY <1>4, <1>5 DEF ReplySent, IsSingle, IsFirst
  <2>2. pc' = "done" /\ result' = "ok"
    BY <2>1 DEF RecvFirst, Return
  <2>3. Quiet'
    BY <1>1, <1>5, <2>1 DEF ReplySent, Quiet
  <2> QED
    BY <1>1, <2>2, <2>3 DEF OnCourse
<1>6. CASE FirstSent
  <2>1. IsFirst(f) /\ ~IsSingle(f) /\ Silent(toTester')
    BY <1>4, <1>6 DEF FirstSent, IsSingle, IsFirst
  <2>2. pc' = "send_fc"
    BY <2>1 DEF RecvFirst
  <2>3. toEcu' = <<>> /\ Holding'
    BY <1>1, <1>6 DEF FirstSent, Holding
  <2> QED
    BY <1>1, <2>1, <2>2, <2>3 DEF OnCourse
<1> QED
  BY <1>3, <1>5, <1>6

\* A part has one number.
LEMMA NumbersUnique ==
    ASSUME NEW q \in Nat, NEW s, NEW t, Numbers(q, s), Numbers(q, t)
    PROVE  s = t
<1>1. /\ SeqModulus \in Nat /\ 1 < SeqModulus
      /\ s \in 0..SeqModulus - 1 /\ t \in 0..SeqModulus - 1
  BY Sizes DEF Numbers
<1>2. PICK d \in Nat : q + 1 = SeqModulus * d + s
  BY DEF Numbers
<1>3. PICK e \in Nat : q + 1 = SeqModulus * e + t
  BY DEF Numbers
<1>4. ASSUME NEW a \in Nat, NEW b \in Nat, a < b
      PROVE  SeqModulus * a + SeqModulus <= SeqModulus * b
  <2> DEFINE c == b - a - 1
  <2>1. c \in Nat /\ b = a + 1 + c
    BY <1>4
  <2> HIDE DEF c
  <2>2. SeqModulus * b = SeqModulus * a + SeqModulus + SeqModulus * c
    BY <1>1, <2>1
  <2>3. SeqModulus * c \in Nat /\ SeqModulus * a \in Nat
    BY <1>1, <2>1
  <2> QED
    BY <1>1, <2>2, <2>3
<1>5. SeqModulus * d \in Nat /\ SeqModulus * e \in Nat
  BY <1>1
<1>6. ~(d < e) /\ ~(e < d)
  BY <1>1, <1>2, <1>3, <1>4, <1>5
<1>7. d = e
  BY <1>6
<1> QED
  BY <1>1, <1>2, <1>3, <1>5, <1>7

\* The first part in the queue is the next of the response: since nothing is
\* lost, no part before it is missing.
LEMMA NextInOrder ==
    ASSUME WInv, CorrectEcu, OnCourse, pc = "recv_cf", toTester # <<>>,
           NEW f, f = toTester[1], IsPart(f), Owner(f) = call
    PROVE  /\ f.n = expected /\ Place(f) = Len(out) + 1
           /\ \E p \in Nat : Len(out) = Offset(p)
           /\ Collected(answers, out, total, expected, Len(out))
           /\ \E v \in answers : PartOf(f, v)
           /\ out[1][2] = call /\ f \in Frames
           /\ Rising(toTester, ReplyHeads)
           /\ Sent(toTester, ReplyHeads, ResponseS)
<1>1. /\ Types /\ ~abandoned /\ TransfersAreDistinct /\ Collecting
      /\ Awaits = expected /\ env.lost = 0 /\ lost = 0
  BY CorrectFacts DEF WInv, IInv, OnCourse, TransfersAreDistinct, Collecting, Awaits
<1>2. PICK m \in Nat :
        /\ Channel(toTester, ReplyHeads, ResponseS, ResponseS, ResponseR(m))
        /\ Collected(answers, out, total, expected, m) /\ InTime(m)
  BY <1>1 DEF WInv, LinesInv, ResponseLine
<1>3. /\ out[1][2] = call /\ Len(out) \in Nat
  <2>1. OwnInv
    BY <1>1 DEF WInv, IInv, TurnInv
  <2>2. out[1] = <<"rsp", call, 1>>
    BY <2>1 DEF OwnInv
  <2> QED
    BY <1>1, <2>2, LenProperties DEF Types, TesterTypes
<1>4. m = Len(out) /\ Accounted(toTester, ResponseS, call, m, 0)
  <2>1. ~(SeqModulus <= env.lost)
    BY <1>1, Sizes
  <2> QED
    BY <1>1, <1>2, <1>3, <2>1 DEF InTime
<1>5. Missing(toTester, ResponseS, call, m) = {}
  <2> DEFINE M == Missing(toTester, ResponseS, call, m)
  <2>1. IsFiniteSet(M) /\ Cardinality(M) <= 0
    BY <1>4 DEF Accounted
  <2> HIDE DEF M
  <2>2. Cardinality(M) = 0
    BY <2>1, FS_CardinalityType
  <2>3. M = {}
    BY <2>1, <2>2, FS_EmptySet
  <2> QED
    BY <2>3 DEF M
<1>6. PICK p \in Nat : m = Offset(p) /\ Numbers(p, expected)
  <2>1. m # Len(out) + CFPayload
    BY <1>3, <1>4, Sizes
  <2> QED
    BY <1>2, <2>1 DEF Collected, InStep
<1>7. /\ toTester \in Seq(Frames) /\ 1 \in 1..Len(toTester)
      /\ f = toTester[1] /\ f \in Frames
  BY <1>1, Queues, TailLemma
<1>8. PICK v \in answers : PartOf(f, v)
  BY <1>7 DEF WInv, CarryInv, ResponseCarry, Contents
<1>9. PICK q \in Nat : Place(f) = Offset(q) + 1 /\ Numbers(q, f.n)
  BY <1>7, <1>8, PartLemma DEF WInv, CarryInv, ResponseCarry, Wholes
<1>10. /\ Offset(p) \in Nat /\ Offset(q) \in Nat
       /\ p < q => Offset(p) < Offset(q)
       /\ q < p => Offset(q) < Offset(p)
  <2>1. /\ p < q => Offset(p) + CFPayload <= Offset(q)
        /\ q < p => Offset(q) + CFPayload <= Offset(p)
        /\ Offset(p) \in Nat /\ Offset(q) \in Nat
    BY OffsetLemma
  <2> QED
    BY <2>1, Sizes
<1>11. ~(q < p)
  <2> DEFINE r == <<out[1][2], m>>
  <2>1. r \in ResponseR(m) /\ r[1] = out[1][2] /\ r[2] = m
    BY <1>1 DEF ResponseR
  <2> HIDE DEF r
  <2>2. r[2] < Place(toTester[1])
    BY <1>2, <1>3, <1>7, <2>1 DEF Channel, Awaited, IsData
  <2> QED
    BY <1>6, <1>7, <1>9, <1>10, <2>1, <2>2
<1>12. ~(p < q)
  <2> SUFFICES ASSUME p < q PROVE FALSE
    OBVIOUS
  <2>1. PartAt(toTester, call, Offset(q))
    BY <1>7, <1>9 DEF PartAt
  <2>2. PartAt(toTester, call, Offset(p))
    BY <1>5, <1>6, <1>10, <2>1 DEF Missing
  <2>3. PICK i \in 1..Len(toTester) :
          /\ IsPart(toTester[i]) /\ Owner(toTester[i]) = call
          /\ Place(toTester[i]) = Offset(p) + 1
    BY <2>2 DEF PartAt
  <2>4. i # 1
    BY <1>7, <1>9, <1>10, <2>3
  <2>5. 1 < i
    BY <1>1, <2>4, Queues
  <2>6. Place(toTester[1]) < Place(toTester[i])
    BY <1>2, <1>7, <2>3, <2>5 DEF Channel, Rising, IsData
  <2> QED
    BY <1>7, <1>9, <1>10, <2>3, <2>6
<1>13. p = q
  BY <1>11, <1>12
<1>14. f.n = expected
  BY <1>6, <1>9, <1>13, NumbersUnique
<1>15. Place(f) = Len(out) + 1
  BY <1>4, <1>6, <1>9, <1>13
<1>16. Rising(toTester, ReplyHeads) /\ Sent(toTester, ReplyHeads, ResponseS)
  BY <1>2 DEF Channel
<1> QED
  BY <1>2, <1>3, <1>4, <1>6, <1>7, <1>8, <1>14, <1>15, <1>16

\* It is taken, and adds a whole frame unless it completes the response.
LEMMA NextTaken ==
    ASSUME WInv, CorrectEcu, OnCourse, NEW f, RecvCF(f),
           f = toTester[1], toTester # <<>>, IsPart(f), Owner(f) = call
    PROVE  /\ pc = "recv_cf" /\ total \in Nat /\ Len(out) \in Nat
           /\ Place(f) = Len(out) + 1 /\ \E p \in Nat : Len(out) = Offset(p)
           /\ \/ /\ pc' = "recv_cf" /\ Len(out) + CFPayload < total
              \/ /\ pc' = "done" /\ result' = "ok"
                 /\ total <= Len(out) + CFPayload
                 /\ out' \in answers /\ Len(out') = total /\ out'[1][2] = call
<1>1. pc = "recv_cf" /\ Types
  BY DEF RecvCF, WInv, IInv
<1>2. /\ f.n = expected /\ Place(f) = Len(out) + 1
      /\ \E p \in Nat : Len(out) = Offset(p)
      /\ Collected(answers, out, total, expected, Len(out))
      /\ \E v \in answers : PartOf(f, v)
      /\ out[1][2] = call /\ f \in Frames
  BY <1>1, NextInOrder
<1>3. /\ out' = out \o Take(f.data)
      /\ IF Len(out') < total THEN pc' = pc
         ELSE pc' = "done" /\ result' = "ok"
  BY <1>2 DEF RecvCF, IsNextCF, IsPart, Return
<1>4. /\ out \in Seq(Bytes) /\ Len(out) \in Nat /\ total \in Nat
      /\ f.data \in Seq(Bytes) /\ CFPayload \in Nat
  BY <1>1, <1>2, Sizes, LenProperties DEF Types, TesterTypes, Frames
<1> DEFINE m == Len(out)
           n == Least(total - Len(out), CFPayload)
           c == Chunk(f.data, 0, n)
<1>5. n \in Int /\ n <= CFPayload /\ n = Least(CFPayload, total - Len(out))
  BY <1>4 DEF Least
<1> HIDE DEF n
<1>6. out' = out \o c
  BY <1>3 DEF Take, n
<1>7. c \in Seq(Bytes) /\ Len(c) <= CFPayload /\ Len(c) \in Nat
  <2>1. /\ c \in Seq(Bytes)
        /\ Len(c) = IF 0 < Least(0 + n, Len(f.data))
                    THEN Least(0 + n, Len(f.data)) - 0 ELSE 0
    BY <1>4, <1>5, ChunkLemma
  <2>2. Least(0 + n, Len(f.data)) <= n /\ Least(0 + n, Len(f.data)) \in Int
    <3>1. 0 + n = n /\ Len(f.data) \in Int
      BY <1>4, <1>5
    <3> QED
      BY <1>5, <3>1, LeastLemma
  <2> HIDE DEF c
  <2> QED
    BY <1>4, <1>5, <2>1, <2>2
<1>8. Continues(answers, out, total, expected, m, f, out')
  <2>1. Takes(answers, out, total, expected, m, f)
    BY <1>2, <1>4 DEF Takes, WInv, CarryInv, ResponseCarry
  <2>2. out' = out \o Chunk(f.data, 0, Least(CFPayload, total - Len(out)))
    BY <1>5, <1>6
  <2> QED
    BY <2>1, <2>2, Collects
<1>9. Len(out') = Len(out) + Len(c) /\ Len(out') \in Nat
  <2> HIDE DEF c
  <2> QED
    BY <1>4, <1>6, <1>7, ConcatProperties
<1>10. CASE Len(out') = total /\ out' \in answers
  <2>1. out'[1][2] = call
    BY <1>2, <1>8 DEF Continues
  <2>2. ~(Len(out') < total)
    BY <1>4, <1>10
  <2>3. total <= Len(out) + CFPayload
    BY <1>4, <1>7, <1>9, <1>10
  <2> QED
    BY <1>1, <1>2, <1>3, <1>4, <1>10, <2>1, <2>2, <2>3
<1>11. ASSUME Len(out') < total, NEW m2 \in Nat,
              \/ /\ m = Len(out) /\ m2 = Len(out')
                 /\ Place(f) = m + 1 /\ m2 = m + CFPayload
              \/ m2 # Len(out') /\ m # Len(out)
              \/ /\ m2 # Len(out') /\ m = Len(out)
                 /\ \E p, q \in Nat : /\ m = Offset(p) /\ Place(f) = Offset(q) + 1
                                      /\ p + SeqModulus <= q
       PROVE  pc' = "recv_cf" /\ Len(out) + CFPayload < total
  <2>1. pc' = "recv_cf"
    BY <1>1, <1>3, <1>11
  <2>2. ASSUME NEW p \in Nat, NEW q \in Nat,
               m = Offset(p), Place(f) = Offset(q) + 1, p + SeqModulus <= q
        PROVE  FALSE
    <3>1. Offset(p) \in Nat /\ Offset(q) \in Nat
      BY OffsetLemma
    <3>2. Offset(p) = Offset(q)
      BY <1>2, <1>4, <2>2, <3>1
    <3>3. p = q
      BY <3>2, OffsetOrder
    <3> QED
      BY <2>2, <3>3, Sizes
  <2>3. m2 = Len(out') /\ m2 = Len(out) + CFPayload
    BY <1>11, <2>2
  <2> QED
    BY <1>11, <2>1, <2>3
<1> QED
  BY <1>1, <1>2, <1>4, <1>8, <1>10, <1>11 DEF Continues

\* When the response is complete, nothing of it is left.
LEMMA NothingLeft ==
    ASSUME WInv, CorrectEcu, OnCourse, NEW f, RecvCF(f),
           f = toTester[1], toTester # <<>>, Own(f), IsPart(f), Owner(f) = call,
           OnlyParts(toTester, call), pc' = "done"
    PROVE  Silent(toTester') /\ ~(ecu.state = "respond" /\ ecu.msg[1][2] = call)
<1>1. /\ pc = "recv_cf" /\ Types /\ total \in Nat /\ Len(out) \in Nat
      /\ Place(f) = Len(out) + 1 /\ total <= Len(out) + CFPayload
      /\ out' \in answers /\ Len(out') = total /\ out'[1][2] = call
  BY NextTaken DEF WInv, IInv
<1>2. PICK p \in Nat : Len(out) = Offset(p)
  BY NextTaken
<1>3. Rising(toTester, ReplyHeads) /\ Sent(toTester, ReplyHeads, ResponseS)
  BY <1>1, NextInOrder
<1>4. /\ toTester' = Tail(toTester) /\ toTester \in Seq(Frames)
      /\ 1 \in 1..Len(toTester)
      /\ \A i \in 1..Len(toTester') :
           /\ toTester'[i] = toTester[i + 1] /\ i + 1 \in 1..Len(toTester)
           /\ 1 < i + 1
  <2>1. /\ toTester' = Tail(toTester) /\ toTester \in Seq(Frames)
        /\ Len(toTester) \in Nat \ {0} /\ Len(toTester') = Len(toTester) - 1
        /\ \A i \in 1..Len(toTester') : toTester'[i] = toTester[i + 1]
    BY <1>1, Queues, TailLemma, TesterTook DEF RecvCF
  <2> QED
    BY <2>1
\* A place in the response that comes later is past its end.
<1>5. ASSUME NEW q \in Nat, Offset(p) < Offset(q)
      PROVE  Offset(q) \in Nat /\ ~(Offset(q) < total)
  <2>1. p < q /\ Offset(p) \in Nat /\ Offset(q) \in Nat
    BY <1>5, OffsetOrder, OffsetLemma
  <2>2. Offset(p) + CFPayload <= Offset(q)
    BY <2>1, OffsetLemma
  <2> QED
    BY <1>1, <1>2, <2>1, <2>2, Sizes
<1>6. ASSUME NEW w \in answers, w[1][2] = call
      PROVE  w = out'
  BY <1>1, <1>6 DEF WInv, CarryInv, ResponseCarry, Wholes
<1>7. ASSUME NEW i \in 1..Len(toTester'), Own(toTester'[i])
      PROVE  FALSE
  <2> DEFINE j == i + 1
             g == toTester[j]
  <2>1. j \in 1..Len(toTester) /\ 1 < j /\ toTester'[i] = g
    BY <1>4
  <2> HIDE DEF j
  <2>2. IsPart(g) /\ Owner(g) = call /\ g \in Frames
    BY <1>4, <1>7, <2>1 DEF OnlyParts
  <2>3. Place(f) < Place(g)
    BY <1>3, <1>4, <2>1, <2>2 DEF Rising, IsData
  <2>4. PICK w \in answers : PartOf(g, w)
    BY <1>1, <2>1, <2>2 DEF WInv, CarryInv, ResponseCarry, Contents
  <2> HIDE DEF g
  <2>5. Whole(w)
    BY DEF WInv, CarryInv, ResponseCarry, Wholes
  <2>6. PICK q \in Nat : /\ Owner(g) = w[1][2] /\ Place(g) = Offset(q) + 1
                         /\ Offset(q) \in Nat /\ Offset(q) < Len(w)
    BY <2>2, <2>4, <2>5, PartLemma
  <2>7. w = out'
    BY <1>6, <2>2, <2>6
  <2>8. Offset(q) < total
    BY <1>1, <2>6, <2>7
  <2>9. Offset(p) < Offset(q)
    BY <1>1, <1>2, <2>3, <2>6
  <2> QED
    BY <1>5, <2>8, <2>9
<1>8. ASSUME ecu.state = "respond", ecu.msg[1][2] = call
      PROVE  FALSE
  <2>1. /\ ecu.msg \in answers /\ InStep(ecu.total, ecu.seq)
        /\ ecu.total < Len(ecu.msg)
    BY <1>8 DEF WInv, CarryInv, ResponseCarry, Responding
  <2>2. PICK q \in Nat : ecu.total = Offset(q)
    BY <2>1 DEF InStep
  <2>3. Len(ecu.msg) = total
    BY <1>1, <1>6, <1>8, <2>1
  <2> DEFINE s == <<ecu.msg[1][2], ecu.total>>
  <2>4. s \in ResponseS /\ s[1] = call /\ s[2] = ecu.total
    BY <1>8 DEF ResponseS, Responding
  <2> HIDE DEF s
  <2>5. Place(f) <= ecu.total
    BY <1>3, <1>4, <2>4 DEF Sent, IsData
  <2>6. Offset(p) < Offset(q)
    <3>1. Offset(p) \in Nat /\ Offset(q) \in Nat
      BY OffsetLemma
    <3> QED
      BY <1>1, <1>2, <2>2, <2>5, <3>1
  <2> QED
    BY <1>5, <2>1, <2>2, <2>3, <2>6
<1> QED
  BY <1>7, <1>8 DEF Silent

LEMMA RecvCFCourse ==
    ASSUME WInv, CorrectEcu, OnCourse, NEW f, RecvCF(f)
    PROVE  OnCourse'
<1> DEFINE Q == toTester
           Q2 == toTester'
<1>1. /\ pc = "recv_cf" /\ Recv(f) /\ f.id = "ecu" /\ Types
      /\ UNCHANGED <<env, toEcu, ecu, late, call, total, abandoned>>
  BY DEF RecvCF, histVars, WInv, IInv
<1>2. /\ Q \in Seq(Frames) /\ Q # <<>> /\ Own(Q[1]) /\ f = Q[1]
      /\ Q2 = Tail(Q) /\ ~Silent(Q)
  BY <1>1, OwnTaken
<1>3. Responds \/ Responded
  BY <1>1, <1>2, EcuCourses
<1> HIDE DEF Q, Q2
<1>4. OnlyParts(Q, call)
  BY <1>3 DEF Responds, Responded, Q
<1>5. /\ IsPart(f) /\ Owner(f) = call /\ OnlyParts(Q2, call)
      /\ HasLast(Q, total) => total <= Place(f) - 1 + CFPayload \/ HasLast(Q2, total)
  BY <1>2, <1>4, OwnTail
<1> USE DEF Q, Q2
<1>6. /\ total \in Nat /\ Len(out) \in Nat /\ Place(f) = Len(out) + 1
      /\ \/ pc' = "recv_cf" /\ Len(out) + CFPayload < total
         \/ pc' = "done" /\ result' = "ok"
  BY <1>2, <1>5, NextTaken
<1>7. CASE pc' = "recv_cf"
  <2>1. ~(total <= Place(f) - 1 + CFPayload)
    BY <1>6, <1>7, Sizes
  <2>2. Responds => Responds'
    BY <1>1, <1>5 DEF Responds
  <2>3. Responded => Responded'
    BY <1>1, <1>5, <2>1 DEF Responded
  <2> QED
    BY <1>1, <1>3, <1>7, <2>2, <2>3 DEF OnCourse
<1>8. CASE pc' = "done"
  <2>1. Silent(toTester') /\ ~(ecu.state = "respond" /\ ecu.msg[1][2] = call)
    BY <1>2, <1>4, <1>5, <1>8, NothingLeft
  <2>2. Responded
    BY <1>3, <2>1 DEF Responds
  <2>3. Quiet'
    BY <1>1, <2>1, <2>2 DEF Quiet, Responded
  <2> QED
    BY <1>1, <1>6, <1>8, <2>3 DEF OnCourse
<1> QED
  BY <1>6, <1>7, <1>8

-----------------------------------------------------------------------------
(* The ECU takes a frame.                                                  *)

LEMMA EcuTakesCourse ==
    ASSUME Types, NEW f, EcuTakes(f)
    PROVE  /\ toEcu # <<>> /\ f = toEcu[1] /\ 1 \in 1..Len(toEcu)
           /\ Len(toEcu) \in Nat /\ Len(toEcu') = Len(toEcu) - 1
           /\ toEcu' \in Seq(Frames)
           /\ Len(toEcu) = 1 => toEcu' = <<>>
           /\ \A i \in 1..Len(toEcu') : toEcu'[i] = toEcu[i + 1]
           /\ UNCHANGED <<env, toTester, call, pc, late, payload, offset, seq,
                          blockCount, bs, waits, total, result, abandoned>>
<1>1. /\ toEcu # <<>> /\ f = toEcu[1] /\ 1 \in 1..Len(toEcu)
      /\ Len(toEcu') = Len(toEcu) - 1 /\ toEcu' = Tail(toEcu)
      /\ \A i \in 1..Len(toEcu') : toEcu'[i] = toEcu[i + 1]
  BY EcuTook DEF EcuTakes
<1>2. toEcu \in Seq(Frames) /\ Len(toEcu) \in Nat
  BY Queues
<1>3. toEcu' \in Seq(Frames)
  BY <1>1, <1>2, TailLemma
<1>4. Len(toEcu) = 1 => toEcu' = <<>>
  BY <1>1, <1>3, EmptySeq
<1>5. UNCHANGED <<env, toTester, call, pc, late, payload, offset, seq,
                  blockCount, bs, waits, total, result, abandoned>>
  BY DEF EcuTakes, testerVars, sendVars, recvVars, histVars
<1> QED
  BY <1>1, <1>2, <1>3, <1>4, <1>5

LEMMA EcuRecvSFCourse ==
    ASSUME Types, OnCourse, NEW f, EcuRecvSF(f)
    PROVE  OnCourse'
<1>1. /\ EcuTakes(f) /\ f.pci = "SF"
      /\ ecu' = [Idle EXCEPT !.state = "reply", !.msg = Chunk(f.data, 0, f.n)]
  BY DEF EcuRecvSF
<1>2. pc = "recv_first" /\ Asking
  <2>1. toEcu # <<>> /\ f = toEcu[1] /\ 1 \in 1..Len(toEcu)
    BY <1>1, EcuTakesCourse
  <2> QED
    BY <1>1, <2>1, EcuCourses DEF Opening, Streaming, Completing, InOrder,
       NumbersRise, IsPart, Clearing
<1>3. /\ toEcu' = <<>> /\ toTester' = toTester
      /\ pc' = pc /\ late' = late /\ abandoned' = abandoned
  BY <1>1, <1>2, EcuTakesCourse DEF Asking
<1>4. ecu'.state = "reply"
  BY <1>1 DEF Idle
<1>5. Replying'
  BY <1>2, <1>3, <1>4 DEF Asking, Replying
<1> QED
  BY <1>2, <1>3, <1>5 DEF OnCourse

LEMMA EcuRecvFFCourse ==
    ASSUME Types, CorrectEcu, OnCourse, NEW f, EcuRecvFF(f)
    PROVE  OnCourse'
<1>1. /\ EcuTakes(f) /\ f.pci = "FF"
      /\ ecu' = [Idle EXCEPT !.state = "grant", !.msg = f.data, !.total = f.n,
                             !.seq = 1]
  BY DEF EcuRecvFF
<1>2. pc = "wait_fc" /\ Opening /\ f = toEcu[1]
  <2>1. toEcu # <<>> /\ f = toEcu[1] /\ 1 \in 1..Len(toEcu)
    BY <1>1, EcuTakesCourse
  <2> QED
    BY <1>1, <2>1, EcuCourses DEF Asking, Streaming, Completing, InOrder,
       NumbersRise, IsPart, Clearing
<1>3. /\ toEcu' = <<>> /\ toTester' = toTester /\ payload' = payload
      /\ pc' = pc /\ late' = late /\ abandoned' = abandoned
      /\ waits' = waits /\ env' = env
  BY <1>1, <1>2, EcuTakesCourse DEF Opening
<1>4. /\ ecu'.state = "grant" /\ ecu'.msg = f.data /\ ecu'.total = f.n
      /\ ecu'.seq = 1 /\ ecu'.waits = 0
  <2>1. ecu' = [state |-> "grant", msg |-> f.data, total |-> f.n, seq |-> 1,
                block |-> 0, left |-> 0, waits |-> 0]
    BY <1>1 DEF Idle
  <2> QED
    BY <2>1
<1>5. Opened'
  BY <1>2, <1>3, <1>4 DEF Opened, Opening
<1>6. waits' + Cardinality(Waits(toTester')) <= ecu'.waits /\ ecu'.waits <= env'.waits
  <2>1. Cardinality(Waits(toTester)) = 0
    BY <1>2, Queues, WaitsFinite DEF Opening
  <2> QED
    BY <1>2, <1>3, <1>4, <2>1, CorrectFacts DEF Opening
<1>7. OnlyWaits(toTester')
  BY <1>2, <1>3, SilentQueue DEF Opening
<1>8. Granting'
  BY <1>3, <1>4, <1>5, <1>6, <1>7 DEF Granting
<1> QED
  BY <1>2, <1>3, <1>8 DEF OnCourse

\* The tester's Flow Control lets the whole response go.
LEMMA EcuRecvFCCourse ==
    ASSUME Types, BlockSize = 0, OnCourse, NEW f, EcuRecvFC(f)
    PROVE  OnCourse'
<1>1. /\ EcuTakes(f) /\ f.pci = "FC"
      /\ ecu' = IF ecu.state = "hold"
                THEN [ecu EXCEPT !.state = "respond", !.left = f.data[1][2]]
                ELSE ecu
  BY DEF EcuRecvFC
<1>2. pc = "recv_cf" /\ Clearing
  <2>1. toEcu # <<>> /\ f = toEcu[1] /\ 1 \in 1..Len(toEcu)
    BY <1>1, EcuTakesCourse
  <2> QED
    BY <1>1, <2>1, EcuCourses DEF Asking, Opening, Streaming, Completing,
       InOrder, NumbersRise, IsPart
<1>3. /\ toEcu' = <<>> /\ toTester' = toTester /\ call' = call
      /\ pc' = pc /\ late' = late /\ abandoned' = abandoned
  BY <1>1, <1>2, EcuTakesCourse DEF Clearing
<1>4. f.data[1][2] = 0
  <2>1. IsRequestFrame(f)
    BY <1>1, TakesFrame
  <2>2. f.data = <<<<"bs", BlockSize, 1>>>>
    BY <1>1, <2>1 DEF IsRequestFrame
  <2> QED
    BY <2>2
<1>5. ecu'.state = "respond" /\ ecu'.left = 0 /\ ecu'.msg = ecu.msg
  <2>1. ecu \in EcuRecords
    BY DEF Types, EcuTypes
  <2> QED
    BY <1>1, <1>2, <1>4, <2>1 DEF Clearing, Holding, EcuRecords
<1>6. OnlyParts(toTester', call')
  BY <1>2, <1>3, SilentQueue DEF Clearing
<1>7. Responds'
  BY <1>2, <1>3, <1>5, <1>6 DEF Responds, Clearing, Holding
<1> QED
  BY <1>2, <1>3, <1>7 DEF OnCourse

\* A Consecutive Frame of the request is the one the ECU waits for.
LEMMA NextAssembled ==
    ASSUME Types, InOrder, NEW f, EcuRecvCF(f), Len(ecu.msg) < Len(payload),
           ecu.left # 1 \/ Len(payload) <= Len(ecu.msg) + CFPayload
    PROVE  /\ Len(ecu'.msg) = Len(ecu.msg) +
                Least(CFPayload, Len(payload) - Len(ecu.msg))
           /\ ecu'.state = IF Len(ecu'.msg) = Len(payload) THEN "reply"
                           ELSE "assemble"
           /\ ecu'.left = ecu.left - 1 /\ ecu'.total = Len(payload)
           /\ ecu'.seq = NextSeq(ecu.seq) /\ toEcu[1].n = ecu.seq
<1> DEFINE n == Least(CFPayload, ecu.total - Len(ecu.msg))
           c == Chunk(f.data, 0, n)
           m == ecu.msg \o c
           st == IF Len(m) = ecu.total THEN "reply"
                 ELSE IF Len(m) < ecu.total /\ ecu.left = 1
                 THEN "grant" ELSE "assemble"
<1>1. EcuTakes(f) /\ f.data \in Seq(Bytes)
  BY TakesFrame DEF EcuRecvCF
<1>2. f = toEcu[1] /\ 1 \in 1..Len(toEcu)
  BY <1>1, EcuTakesCourse
<1>3. f.n = ecu.seq /\ Len(f.data) = CFPayload
  BY <1>2 DEF InOrder, NumbersRise
<1>4. /\ ecu' = [ecu EXCEPT !.msg = m, !.seq = (@ + 1) % SeqModulus,
                            !.left = @ - 1, !.state = st]
      /\ ecu.state = "assemble" /\ ecu.total = Len(payload)
  BY <1>3 DEF EcuRecvCF, InOrder
<1>5. /\ ecu.msg \in Seq(Bytes) /\ Len(ecu.msg) \in Nat /\ Len(payload) \in Nat
      /\ ecu.left \in Int /\ ecu.seq \in Nat /\ ecu \in EcuRecords
      /\ CFPayload \in Nat
  BY Sizes, LenProperties DEF Types, TesterTypes, EcuTypes, EcuRecords
<1>6. n \in Nat /\ n <= CFPayload
  BY <1>4, <1>5 DEF Least
<1>7. c \in Seq(Bytes) /\ Len(c) = n
  <2> HIDE DEF n
  <2>1. /\ c \in Seq(Bytes)
        /\ Len(c) = IF 0 < Least(0 + n, Len(f.data))
                    THEN Least(0 + n, Len(f.data)) - 0 ELSE 0
    BY <1>1, <1>6, ChunkLemma
  <2>2. Least(0 + n, Len(f.data)) = n
    BY <1>3, <1>5, <1>6 DEF Least
  <2> HIDE DEF c
  <2> QED
    BY <1>6, <2>1, <2>2
<1> HIDE DEF c, n
<1>8. Len(m) = Len(ecu.msg) + n
  BY <1>5, <1>7, ConcatProperties
<1> HIDE DEF m, st
<1>9. /\ ecu'.msg = m /\ ecu'.left = ecu.left - 1 /\ ecu'.total = ecu.total
      /\ ecu'.state = st /\ ecu'.seq = (ecu.seq + 1) % SeqModulus
  BY <1>4, <1>5 DEF EcuRecords
<1>10. ecu.left = 1 => Len(m) = Len(payload)
  <2>1. Len(payload) <= Len(ecu.msg) + CFPayload => n = Len(payload) - Len(ecu.msg)
    BY <1>4, <1>5 DEF n, Least
  <2> QED
    BY <1>5, <1>8, <2>1
<1>11. st = IF Len(m) = Len(payload) THEN "reply" ELSE "assemble"
  BY <1>4, <1>10 DEF st
<1>12. Len(ecu'.msg) = Len(ecu.msg) + Least(CFPayload, Len(payload) - Len(ecu.msg))
  BY <1>4, <1>8, <1>9 DEF n
<1> QED
  BY <1>2, <1>3, <1>4, <1>9, <1>10, <1>11, <1>12 DEF NextSeq

LEMMA NumbersStay ==
    ASSUME Types, NumbersRise, NEW f, EcuTakes(f),
           ecu'.seq = NextSeq(ecu.seq), toEcu[1].n = ecu.seq
    PROVE  NumbersRise'
<1>1. /\ Len(toEcu) \in Nat /\ Len(toEcu') = Len(toEcu) - 1
      /\ \A i \in 1..Len(toEcu') : toEcu'[i] = toEcu[i + 1]
  BY EcuTakesCourse
<1> SUFFICES ASSUME NEW i \in 1..Len(toEcu')
             PROVE  /\ IsPart(toEcu'[i]) /\ Len(toEcu'[i].data) = CFPayload
                    /\ toEcu'[i].n = IF i = 1 THEN ecu'.seq
                                     ELSE NextSeq(toEcu'[i - 1].n)
  BY DEF NumbersRise
<1> DEFINE j == i + 1
<1>2. /\ j \in 1..Len(toEcu) /\ j # 1 /\ j - 1 = i /\ toEcu'[i] = toEcu[j]
      /\ i # 1 => i - 1 \in 1..Len(toEcu') /\ (i - 1) + 1 = i
  BY <1>1
<1> HIDE DEF j
<1>3. /\ IsPart(toEcu[j]) /\ Len(toEcu[j].data) = CFPayload
      /\ toEcu[j].n = NextSeq(toEcu[i].n)
  BY <1>2 DEF NumbersRise
<1>4. i # 1 => toEcu'[i - 1] = toEcu[i]
  BY <1>1, <1>2
<1> QED
  BY <1>2, <1>3, <1>4

\* A frame's worth of a message.
LEMMA FrameFewer ==
    ASSUME NEW n \in Nat \ {0}
    PROVE  /\ CFPayload * n = CFPayload + CFPayload * (n - 1)
           /\ CFPayload * n \in Nat /\ CFPayload * (n - 1) \in Nat
           /\ n > 1 => CFPayload <= CFPayload * (n - 1)
<1>1. CFPayload \in Nat /\ n - 1 \in Nat
  BY Sizes
<1>2. n > 1 => CFPayload * (n - 1) = CFPayload + CFPayload * (n - 2) /\ n - 2 \in Nat
  BY <1>1
<1>3. n > 1 => CFPayload * (n - 2) \in Nat
  BY <1>1, <1>2
<1>4. CFPayload * (n - 1) \in Nat /\ CFPayload * n \in Nat
  BY <1>1
<1>5. CFPayload * n = CFPayload + CFPayload * (n - 1)
  BY <1>1
<1> QED
  BY <1>1, <1>2, <1>3, <1>4, <1>5

LEMMA EcuRecvCFCourse ==
    ASSUME Types, OnCourse, NEW f, EcuRecvCF(f)
    PROVE  OnCourse'
<1> DEFINE n == Len(toEcu)
           l == Len(ecu.msg)
           p == Len(payload)
<1>1. EcuTakes(f) /\ f.pci = "CF"
  BY DEF EcuRecvCF
<1>2. /\ n \in Nat \ {0} /\ Len(toEcu') = n - 1 /\ toEcu' \in Seq(Frames)
      /\ toEcu # <<>> /\ f = toEcu[1]
      /\ n = 1 => toEcu' = <<>>
      /\ \A i \in 1..Len(toEcu') : toEcu'[i] = toEcu[i + 1]
      /\ UNCHANGED <<env, toTester, call, pc, late, payload, offset, seq,
                     blockCount, bs, waits, total, result, abandoned>>
  BY <1>1, EcuTakesCourse
<1>3. (pc = "send_cf" /\ Streaming) \/ (pc = "recv_first" /\ Completing)
  <2>1. toEcu # <<>> /\ toEcu[1].pci = "CF"
    BY <1>1, <1>2
  <2> QED
    BY <2>1, EcuCourses DEF Opening, Asking, Clearing
<1>4. /\ l \in Nat /\ p \in Nat /\ CFPayload \in Nat /\ 0 < CFPayload
      /\ offset \in Nat
  BY Sizes, LenProperties DEF Types, TesterTypes, EcuTypes, EcuRecords
<1> HIDE DEF n, l, p
<1>5. /\ CFPayload * n = CFPayload + CFPayload * (n - 1)
      /\ CFPayload * n \in Nat /\ CFPayload * (n - 1) \in Nat
      /\ n > 1 => CFPayload <= CFPayload * (n - 1)
  BY <1>2, FrameFewer
<1>6. InOrder /\ l < p
  <2>1. CASE Streaming
    <3>1. offset = l + CFPayload * n /\ offset < p /\ InOrder
      BY <2>1 DEF Streaming, n, l, p
    <3> QED
      BY <1>4, <1>5, <3>1
  <2>2. CASE Completing
    <3>1. l + CFPayload * (n - 1) < p /\ InOrder
      BY <2>2 DEF Completing, n, l, p
    <3> QED
      BY <1>4, <1>5, <3>1
  <2> QED
    BY <1>3, <2>1, <2>2
<1>6a. ecu.left \in Int /\ (ecu.left # 1 \/ p <= l + CFPayload)
  <2>1. ecu.left \in Int /\ bs \in Nat /\ blockCount \in Nat
    BY DEF Types, TesterTypes, EcuTypes, EcuRecords
  <2>2. CASE Streaming
    BY <1>2, <2>1, <2>2 DEF Streaming, n
  <2>3. CASE Completing
    <3>1. CASE ecu.left <= 0
      BY <2>1, <3>1
    <3>2. CASE n <= ecu.left
      <4>1. n = 1 => p <= l + CFPayload
        <5>1. p <= l + CFPayload * n
          BY <2>3 DEF Completing, n, l, p
        <5>2. n = 1 => CFPayload * n = CFPayload
          BY <1>4
        <5> QED
          BY <5>1, <5>2
      <4> QED
        BY <1>2, <2>1, <3>2, <4>1
    <3> QED
      BY <2>3, <3>1, <3>2 DEF Completing, n
  <2> QED
    BY <1>3, <2>1, <2>2, <2>3
<1>7. /\ Len(ecu'.msg) = l + Least(CFPayload, p - l)
      /\ ecu'.state = IF Len(ecu'.msg) = p THEN "reply" ELSE "assemble"
      /\ ecu'.left = ecu.left - 1 /\ ecu'.total = p
      /\ ecu'.seq = NextSeq(ecu.seq) /\ toEcu[1].n = ecu.seq
  BY <1>6, <1>6a, NextAssembled DEF l, p
<1>8. NumbersRise'
  BY <1>1, <1>6, <1>7, NumbersStay DEF InOrder
<1>9. Silent(toTester')
  BY <1>2, <1>6 DEF InOrder
<1>10. p = Len(payload')
  BY <1>2 DEF p
<1>11. ecu'.state = "assemble" => InOrder'
  BY <1>7, <1>8, <1>9, <1>10 DEF InOrder
\* More than a frame is missing.
<1>12. ASSUME l + CFPayload < p
       PROVE  Len(ecu'.msg) = l + CFPayload /\ ecu'.state = "assemble"
  <2>1. Least(CFPayload, p - l) = CFPayload
    BY <1>4, <1>12 DEF Least
  <2>2. Len(ecu'.msg) # p
    BY <1>4, <1>7, <1>12, <2>1
  <2> QED
    BY <1>7, <2>1, <2>2
<1>13. CASE pc = "send_cf" /\ Streaming
  <2>1. /\ offset = l + CFPayload * n /\ offset < p
        /\ seq = NextSeq(toEcu[n].n)
    BY <1>2, <1>13 DEF Streaming, n, l, p
  <2>2. l + CFPayload < p
    BY <1>4, <1>5, <2>1
  <2>3. offset' = Len(ecu'.msg) + CFPayload * Len(toEcu')
    <3>1. Len(ecu'.msg) = l + CFPayload /\ Len(toEcu') = n - 1 /\ offset' = offset
      BY <1>2, <1>12, <2>2
    <3> QED
      BY <1>4, <1>5, <2>1, <3>1
  <2>4. seq' = IF toEcu' = <<>> THEN ecu'.seq ELSE NextSeq(toEcu'[Len(toEcu')].n)
    <3>1. CASE n = 1
      BY <1>2, <1>7, <2>1, <3>1
    <3>2. CASE n # 1
      <4>1. n - 1 \in 1..Len(toEcu') /\ (n - 1) + 1 = n
        BY <1>2, <3>2
      <4>2. toEcu' # <<>>
        BY <4>1
      <4>3. toEcu'[Len(toEcu')] = toEcu[n]
        BY <1>2, <4>1
      <4> QED
        BY <1>2, <2>1, <4>2, <4>3
    <3> QED
      BY <3>1, <3>2
  <2>5. IF bs' = 0 THEN ecu'.left <= 0
        ELSE blockCount' < bs' /\ ecu'.left = (bs' - blockCount') + Len(toEcu')
    <3>1. bs \in Nat /\ blockCount \in Nat
      BY DEF Types, TesterTypes
    <3>2. CASE bs = 0
      BY <1>2, <1>7, <1>6a, <1>13, <3>2 DEF Streaming
    <3>3. CASE bs # 0
      <4>1. blockCount < bs /\ ecu.left = (bs - blockCount) + n
        BY <1>13, <3>3 DEF Streaming, n
      <4> QED
        BY <1>2, <1>7, <3>1, <3>3, <4>1
    <3> QED
      BY <3>2, <3>3
  <2>6. Streaming'
    BY <1>2, <1>10, <1>11, <1>12, <2>1, <2>2, <2>3, <2>4, <2>5 DEF Streaming
  <2> QED
    BY <1>2, <1>13, <2>6 DEF OnCourse
<1>14. CASE pc = "recv_first" /\ Completing
  <2>1. l + CFPayload * (n - 1) < p /\ p <= l + CFPayload * n
    BY <1>14 DEF Completing, n, l, p
  <2>2. CASE n = 1
    <3>1. CFPayload * (n - 1) = 0
      BY <1>4, <2>2
    <3>2. p - l <= CFPayload
      BY <1>4, <1>5, <2>1, <3>1
    <3>3. Len(ecu'.msg) = p
      BY <1>4, <1>7, <3>2 DEF Least
    <3>4. Replying'
      BY <1>2, <1>7, <1>9, <2>2, <3>3 DEF Replying
    <3> QED
      BY <1>2, <1>14, <3>4 DEF OnCourse
  <2>3. CASE n # 1
    <3>1. n > 1 /\ n - 1 \in Nat \ {0}
      BY <1>2, <2>3
    <3>2. l + CFPayload < p
      BY <1>4, <1>5, <2>1, <3>1
    <3>3. Len(ecu'.msg) = l + CFPayload /\ ecu'.state = "assemble"
      BY <1>12, <3>2
    <3>4. CFPayload * (n - 1) = CFPayload + CFPayload * ((n - 1) - 1)
      BY <3>1, FrameFewer
    <3>5. CFPayload * ((n - 1) - 1) \in Nat
      BY <3>1, FrameFewer
    <3>6. /\ Len(ecu'.msg) + CFPayload * (Len(toEcu') - 1) < Len(payload')
          /\ Len(payload') <= Len(ecu'.msg) + CFPayload * Len(toEcu')
      BY <1>2, <1>4, <1>5, <1>10, <2>1, <3>3, <3>4, <3>5
    <3>7. toEcu' # <<>>
      BY <1>2, <3>1
    <3>8. ecu'.left <= 0 \/ Len(toEcu') <= ecu'.left
      <4>1. ecu.left <= 0 \/ n <= ecu.left
        BY <1>14 DEF Completing, n
      <4> QED
        BY <1>2, <1>7, <1>6a, <4>1
    <3>9. Completing'
      BY <1>11, <3>3, <3>6, <3>7, <3>8 DEF Completing
    <3> QED
      BY <1>2, <1>14, <3>9 DEF OnCourse
  <2> QED
    BY <2>2, <2>3
<1> QED
  BY <1>3, <1>13, <1>14

-----------------------------------------------------------------------------
(* The ECU sends a frame.                                                  *)

LEMMA EcuSendsCourse ==
    ASSUME Types, NEW f, EcuSends(f)
    PROVE  /\ toTester \in Seq(Frames) /\ toTester' = Append(toTester, f)
           /\ UNCHANGED <<env, toEcu, call, pc, late, payload, waits, total,
                          result, abandoned>>
  BY Queues DEF EcuSends, testerVars, recvVars

\* Flow Control clears a block of the request to send, or all of it.
LEMMA EcuGrantCourse ==
    ASSUME Types, CorrectEcu, OnCourse, NEW b \in env.blocks, EcuGrant(b)
    PROVE  OnCourse'
<1> DEFINE f == [FC(CTS, b) EXCEPT !.data = IF b = 0 /\ ~env.pads
                                            THEN <<>> ELSE @]
           Q == toTester
           Q2 == toTester'
<1>1. b \in Nat /\ env.waits \in Nat /\ waits \in Nat
  <2>1. b \in 0..U8 - 1 /\ U8 \in Nat
    BY CorrectFacts, Sizes
  <2> QED
    BY <2>1, CorrectFacts
<1>2. f = FC(CTS, b) \/ (b = 0 /\ f = [FC(CTS, b) EXCEPT !.data = <<>>])
  BY DEF FC
<1>3. f \in Frames /\ f.id = "ecu" /\ IsFC(f, CTS)
  <2>1. CTS \in 0..3
    BY DEF CTS
  <2>2. FC(CTS, b) \in Frames /\ [FC(CTS, b) EXCEPT !.data = <<>>] \in Frames
    BY <1>1, <2>1, FCType
  <2> QED
    BY <1>2, <2>2 DEF FC, IsFC
<1>4. Granted(f) = b
  <2>1. f.data = <<<<"bs", b, 1>>>> \/ (b = 0 /\ f.data = <<>>)
    BY <1>2 DEF FC
  <2> HIDE DEF f
  <2>2. CASE f.data = <<<<"bs", b, 1>>>>
    BY <2>2 DEF Granted
  <2> QED
    BY <2>1, <2>2 DEF Granted
<1>5. /\ ecu.state = "grant" /\ EcuSends(f)
      /\ ecu' = [ecu EXCEPT !.state = "assemble", !.left = b]
  BY DEF EcuGrant
<1> HIDE DEF f, Q, Q2
<1>6. Own(f) /\ IsCTS(f) /\ ~IsWait(f)
  BY <1>3 DEF Own, IsCTS, IsWait, IsFC, CTS, WAIT
<1>7. pc = "wait_fc" /\ Granting
  BY <1>5, EcuCourses
<1>8. /\ Q \in Seq(Frames) /\ Q2 = Append(Q, f)
      /\ UNCHANGED <<env, toEcu, call, pc, late, payload, waits, abandoned>>
  BY <1>5, EcuSendsCourse DEF Q, Q2
<1>9. /\ Cardinality(Waits(Q2)) <= Cardinality(Waits(Q))
      /\ OnlyWaits(Q) => GrantsLast(Q2, b)
      /\ Cardinality(Waits(Q)) \in Nat
      /\ Cardinality(Waits(Q2)) \in Nat
  <2>1. Q2 \in Seq(Frames)
    BY <1>3, <1>8, AppendLemma
  <2> QED
    BY <1>3, <1>4, <1>6, <1>8, <2>1, OwnAppend, WaitsFinite
<1>10. /\ ecu'.state = "assemble" /\ ecu'.left = b /\ ecu'.msg = ecu.msg
       /\ ecu'.total = ecu.total /\ ecu'.seq = ecu.seq
       /\ ecu.waits \in Nat
  BY <1>1, <1>5 DEF Types, EcuTypes, EcuRecords
<1>11. Opened'
  BY <1>7, <1>8, <1>10 DEF Granting, Opened
<1>12. waits' + Cardinality(Waits(Q2)) <= env'.waits
  <2>1. waits + Cardinality(Waits(Q)) <= ecu.waits /\ ecu.waits <= env.waits
    BY <1>7 DEF Granting, Q
  <2> QED
    BY <1>1, <1>8, <1>9, <1>10, <2>1
<1>13. GrantSent'
  BY <1>1, <1>7, <1>8, <1>9, <1>10, <1>11, <1>12 DEF GrantSent, Granting, Q, Q2
<1> QED
  BY <1>7, <1>8, <1>13 DEF OnCourse

\* The ECU puts the tester off.
LEMMA EcuWaitCourse ==
    ASSUME Types, CorrectEcu, OnCourse, EcuWait
    PROVE  OnCourse'
<1> DEFINE f == FC(WAIT, 0)
           Q == toTester
           Q2 == toTester'
<1>1. env.waits \in Nat /\ waits \in Nat
  BY CorrectFacts
<1>2. f \in Frames
  <2>1. WAIT \in 0..3 /\ 0 \in Nat
    BY DEF WAIT
  <2> QED
    BY <2>1, FCType
<1>3. Own(f) /\ IsWait(f)
  BY DEF FC, Own, IsWait, IsFC
<1>4. /\ ecu.state = "grant" /\ ecu.waits < env.waits /\ EcuSends(f)
      /\ ecu' = [ecu EXCEPT !.waits = @ + 1]
  BY DEF EcuWait
<1> HIDE DEF f, Q, Q2
<1>5. pc = "wait_fc" /\ Granting
  BY <1>4, EcuCourses
<1>6. /\ Q \in Seq(Frames) /\ Q2 = Append(Q, f)
      /\ UNCHANGED <<env, toEcu, call, pc, late, payload, waits, abandoned>>
  BY <1>4, EcuSendsCourse DEF Q, Q2
<1>7. /\ Cardinality(Waits(Q2)) <= Cardinality(Waits(Q)) + 1
      /\ OnlyWaits(Q) => OnlyWaits(Q2)
      /\ Cardinality(Waits(Q)) \in Nat
      /\ Cardinality(Waits(Q2)) \in Nat
  <2>1. Q2 \in Seq(Frames)
    BY <1>2, <1>6, AppendLemma
  <2> QED
    BY <1>2, <1>3, <1>6, <2>1, OwnAppend, WaitsFinite
<1>8. /\ ecu'.state = "grant" /\ ecu'.msg = ecu.msg
      /\ ecu'.total = ecu.total /\ ecu'.seq = ecu.seq
      /\ ecu.waits \in Nat /\ ecu'.waits = ecu.waits + 1
  BY <1>4 DEF Types, EcuTypes, EcuRecords
<1>9. Opened'
  BY <1>5, <1>6, <1>8 DEF Granting, Opened
<1>10. waits' + Cardinality(Waits(Q2)) <= ecu'.waits /\ ecu'.waits <= env'.waits
  <2>1. waits + Cardinality(Waits(Q)) <= ecu.waits
    BY <1>5 DEF Granting, Q
  <2> QED
    BY <1>1, <1>4, <1>6, <1>7, <1>8, <2>1
<1>11. Granting'
  BY <1>5, <1>6, <1>7, <1>8, <1>9, <1>10 DEF Granting, Q, Q2
<1> QED
  BY <1>5, <1>6, <1>11 DEF OnCourse

\* The ECU answers: with the response, or its beginning.
LEMMA EcuReplyCourse ==
    ASSUME IInv, OnCourse, NEW len \in env.respLens, EcuReply(len)
    PROVE  OnCourse'
<1> DEFINE k == ecu.msg[1][2]
           rsp == Response(k, len)
           f == ReplyFrame(rsp)
           Q == toTester
           Q2 == toTester'
<1>1. Types /\ ~abandoned /\ OwnInv
  BY DEF IInv, TurnInv, OnCourse
<1>2. /\ ecu.state = "reply" /\ k \in Nat /\ len \in 1..MaxFFLength
      /\ f \in Frames /\ EcuSends(f)
      /\ IF len <= SFMaxLen THEN ecu' = Idle
         ELSE ecu'.state = "hold" /\ ecu'.msg = rsp
  BY <1>1, EcuReplyTypes
<1>3. k = call
  <2>1. ecu.msg[1] = <<"req", call, 1>>
    BY <1>1, <1>2 DEF OwnInv, Taken
  <2> QED
    BY <2>1
<1>4. len \in Nat /\ 1 <= len
  BY <1>2, Sizes
<1> HIDE DEF k
<1>5. /\ Len(rsp) = len /\ rsp \in Seq(Bytes) /\ rsp[1] = <<"rsp", k, 1>>
      /\ f.id = "ecu" /\ f.n = len
      /\ f.pci = IF len <= SFMaxLen THEN "SF" ELSE "FF"
      /\ len <= SFMaxLen => f.data = EcuPad(rsp, SFMaxLen)
  <2>1. 1 \in 1..len
    BY <1>4
  <2>2. rsp[1] = <<"rsp", k, 1>>
    BY <1>2, <1>4, <2>1, ResponseLemma
  <2> QED
    BY <1>2, <2>2, ReplyFrameLemma
<1> HIDE DEF f, rsp, Q, Q2
<1>6. IF len <= SFMaxLen THEN IsSingle(f) ELSE IsFirst(f)
  <2>1. CASE len <= SFMaxLen
    <3>1. f.data \in Seq(Bytes) /\ Len(f.data) >= len
      BY <1>5, <2>1, Sizes, EcuPadLemma
    <3>2. Len(f.data) \in Nat
      BY <3>1, LenProperties
    <3>3. f.n \in 1..Least(SFMaxLen, Len(f.data))
      BY <1>4, <1>5, <2>1, <3>1, <3>2, Sizes DEF Least
    <3> QED
      BY <1>5, <2>1, <3>3 DEF IsSingle
  <2>2. CASE ~(len <= SFMaxLen)
    BY <1>4, <1>5, <2>2, Sizes DEF IsFirst
  <2> QED
    BY <2>1, <2>2
<1>7. pc = "recv_first" /\ Replying
  BY <1>1, <1>2, EcuCourses
<1>8. /\ Q \in Seq(Frames) /\ Q2 = Append(Q, f)
      /\ UNCHANGED <<toEcu, call, pc, late, abandoned>>
  BY <1>1, <1>2, EcuSendsCourse DEF Q, Q2
<1>9. IF len <= SFMaxLen THEN OneSingle(Q2) ELSE OneFirst(Q2)
  <2>1. Own(f) /\ Silent(Q)
    BY <1>5, <1>7 DEF Own, Replying, Q
  <2> QED
    BY <1>2, <1>6, <1>8, <2>1, OwnAppend
<1>10. toEcu' = <<>>
  BY <1>7, <1>8 DEF Replying
<1>11. CASE len <= SFMaxLen
  <2>1. ReplySent'
    BY <1>2, <1>9, <1>10, <1>11, IdleType DEF ReplySent, Q2
  <2> QED
    BY <1>1, <1>7, <1>8, <2>1 DEF OnCourse
<1>12. CASE ~(len <= SFMaxLen)
  <2>1. ecu'.state = "hold" /\ ecu'.msg[1][2] = call'
    BY <1>2, <1>3, <1>5, <1>8, <1>12
  <2>2. FirstSent'
    BY <1>9, <1>10, <1>12, <2>1 DEF FirstSent, Holding, Q2
  <2> QED
    BY <1>1, <1>7, <1>8, <2>2 DEF OnCourse
<1> QED
  BY <1>11, <1>12

\* The rest of the response follows, and ends with its last part.
LEMMA EcuSendCFCourse ==
    ASSUME WInv, CorrectEcu, OnCourse, EcuSendCF
    PROVE  OnCourse'
<1> DEFINE f == NextReply
           Q == toTester
           Q2 == toTester'
<1>1. Types /\ CarryInv /\ ~abandoned /\ env.lost = 0 /\ lost = 0 /\ OwnInv
  BY CorrectFacts DEF WInv, IInv, TurnInv, OnCourse
<1>2. /\ ecu.state = "respond" /\ EcuSends(f)
      /\ ecu' = IF ecu.total + CFPayload >= Len(ecu.msg)
                THEN Idle
                ELSE [ecu EXCEPT !.total = @ + CFPayload,
                                 !.seq = (@ + 1) % SeqModulus,
                                 !.left = @ - 1,
                                 !.state = IF ecu.left = 1 THEN "hold" ELSE @]
  BY DEF EcuSendCF, NextReply
<1>3. /\ f \in Frames /\ IsPart(f) /\ PartOf(f, ecu.msg)
      /\ Owner(f) = ecu.msg[1][2] /\ ecu.msg \in answers
      /\ \E q \in Nat : ecu.total = Offset(q) /\ Place(f) = Offset(q) + 1
  BY <1>1, <1>2, NextReplyPart
<1> HIDE DEF f, Q, Q2
<1>4. pc = "recv_cf" /\ Responds
  BY <1>1, <1>2, EcuCourses
<1>5. /\ Q \in Seq(Frames) /\ Q2 = Append(Q, f)
      /\ UNCHANGED <<toEcu, call, pc, late, total, abandoned>>
  BY <1>1, <1>2, EcuSendsCourse DEF Q, Q2
<1>6. /\ ecu.total \in Nat /\ ecu.left \in Int /\ ecu.left <= 0
      /\ Place(f) = ecu.total + 1
      /\ ecu.msg[1][2] = call /\ OnlyParts(Q, call) /\ toEcu' = <<>>
  <2>1. ecu.left \in Int
    BY <1>1 DEF Types, EcuTypes, EcuRecords
  <2>2. ecu.total \in Nat /\ Place(f) = ecu.total + 1
    BY <1>3, OffsetLemma
  <2> QED
    BY <1>4, <1>5, <2>1, <2>2 DEF Responds, Q
<1>7. /\ OnlyParts(Q2, call)
      /\ \A n : n <= Place(f) - 1 + CFPayload => HasLast(Q2, n)
  <2>1. Own(f)
    BY <1>3 DEF Own, PartOf
  <2> QED
    BY <1>3, <1>5, <1>6, <2>1, OwnAppend
<1>8. CASE ecu.total + CFPayload >= Len(ecu.msg)
  <2>1. total = Len(ecu.msg)
    <3>1. TransfersAreDistinct /\ Collecting
      BY <1>1, <1>4 DEF TransfersAreDistinct, Collecting
    <3>2. PICK w \in answers : out[1] = w[1] /\ total = Len(w)
      BY <3>1 DEF WInv, LinesInv, ResponseLine, Collected
    <3>3. out[1] = <<"rsp", call, 1>>
      BY <1>1, <1>4 DEF OwnInv
    <3>4. w[1][2] = ecu.msg[1][2]
      <4>1. w[1] = <<"rsp", call, 1>>
        BY <3>2, <3>3
      <4>2. w[1][2] = call
        BY <4>1
      <4> QED
        BY <1>6, <4>2
    <3>5. w = ecu.msg
      BY <1>1, <1>3, <3>4 DEF CarryInv, ResponseCarry, Wholes
    <3> QED
      BY <3>2, <3>5
  <2>2. total <= Place(f) - 1 + CFPayload
    <3>1. Len(ecu.msg) \in Nat
      BY <1>1, LenProperties DEF Types, EcuTypes, EcuRecords
    <3> QED
      BY <1>6, <1>8, <2>1, <3>1, Sizes
  <2>3. ecu'.state = "idle"
    BY <1>2, <1>8 DEF Idle
  <2>4. Responded'
    BY <1>5, <1>6, <1>7, <2>2, <2>3 DEF Responded, Q2
  <2> QED
    BY <1>4, <1>5, <2>4 DEF OnCourse
<1>9. CASE ~(ecu.total + CFPayload >= Len(ecu.msg))
  <2>1. ecu \in EcuRecords
    BY <1>1 DEF Types, EcuTypes
  <2>2. /\ ecu'.state = "respond" /\ ecu'.left = ecu.left - 1
        /\ ecu'.msg = ecu.msg
    <3>1. ecu.left # 1
      BY <1>6
    <3> QED
      BY <1>2, <1>9, <2>1, <3>1 DEF EcuRecords
  <2>3. ecu'.left <= 0
    BY <1>6, <2>2
  <2>4. Responds'
    BY <1>5, <1>6, <1>7, <2>2, <2>3 DEF Responds, Q2
  <2> QED
    BY <1>4, <1>5, <2>4 DEF OnCourse
<1> QED
  BY <1>8, <1>9

-----------------------------------------------------------------------------
(* The course is kept, until a request is refused.                         *)

LEMMA InitCourse == ASSUME Init PROVE CourseInv
<1>1. /\ toEcu = <<>> /\ toTester = <<>> /\ pc = "idle" /\ ~late /\ ~abandoned
      /\ ecu.state = "idle"
  BY IdleType DEF Init
<1>2. Quiet
  <2>1. 1..Len(toTester) = {}
    BY <1>1
  <2> QED
    BY <1>1, <2>1 DEF Quiet, Silent
<1> QED
  BY <1>1, <1>2 DEF CourseInv, OnCourse

LEMMA TakeCourse ==
    ASSUME WInv, CorrectEcu, OnCourse, NEW f,
           RecvForeign(f) \/ RecvFC(f) \/ RecvFirst(f) \/ RecvCF(f)
    PROVE  OnCourse'
<1>1. Types
  BY DEF WInv, IInv
<1> QED
  BY <1>1, RecvForeignCourse, RecvFCCourse, RecvFirstCourse, RecvCFCourse

LEMMA EcuCourse ==
    ASSUME BlockSize = 0, WInv, CorrectEcu, OnCourse, EcuStep
    PROVE  OnCourse'
<1>1. Types /\ IInv
  BY DEF WInv, IInv
<1>2. CASE \E f \in {toEcu[i] : i \in DOMAIN toEcu} :
             EcuRecvSF(f) \/ EcuRecvFF(f) \/ EcuRecvCF(f) \/ EcuRecvFC(f)
  <2>1. PICK f : EcuRecvSF(f) \/ EcuRecvFF(f) \/ EcuRecvCF(f) \/ EcuRecvFC(f)
    BY <1>2
  <2> QED
    BY <1>1, <2>1, EcuRecvSFCourse, EcuRecvFFCourse, EcuRecvCFCourse,
       EcuRecvFCCourse
<1>3. CASE \E b \in env.blocks : EcuGrant(b)
  BY <1>1, <1>3, EcuGrantCourse
<1>4. CASE EcuWait
  BY <1>1, <1>4, EcuWaitCourse
<1>5. CASE \E len \in env.respLens : EcuReply(len)
  BY <1>1, <1>5, EcuReplyCourse
<1>6. CASE EcuSendCF
  BY <1>6, EcuSendCFCourse
<1>7. ~EcuOverflow /\ ~EcuAbandons
  BY <1>1, NoFault
<1> QED
  BY <1>2, <1>3, <1>4, <1>5, <1>6, <1>7 DEF EcuStep

LEMMA NextCourse ==
    ASSUME BlockSize = 0, WInv, CourseInv, [Next]_vars
    PROVE  CourseInv'
<1>1. Types /\ env' = env
  <2>1. env' = env
    BY DEF Next, vars, Start, TesterStep, SendFirst, SendCF, SendFC, Poll, GiveUp,
       RecvNone, RecvForeign, RecvFC, RecvFirst, RecvCF, SocketError, EcuStep,
       EcuRecvSF, EcuRecvFF, EcuRecvCF, EcuRecvFC, EcuTakes, EcuGrant, EcuWait,
       EcuOverflow, EcuReply, EcuSendCF, EcuSends, EcuAbandons, Lose, Disturb,
       DeadlinePasses
  <2> QED
    BY <2>1 DEF WInv, IInv
<1>2. SUFFICES ASSUME CorrectEcu, ~abandoned', result' # "Unsupported"
               PROVE  OnCourse'
  BY <1>1 DEF CourseInv, CorrectEcu
\* A call that was refused is followed by none that counts.
<1>2a. OnCourse
  <2>1. /\ abandoned \in BOOLEAN /\ pc \in PCs
        /\ (result = "none") <=> (pc # "done")
    BY <1>1 DEF Types, TesterTypes
  <2>2. ASSUME \E len : Start(len)
        PROVE  ~abandoned /\ result # "Unsupported"
    <3>1. /\ pc \in {"idle", "done"}
          /\ abandoned' = (abandoned \/ (pc = "done" /\ result # "ok"))
      BY <2>2 DEF Start
    <3> QED
      BY <1>2, <2>1, <3>1
  <2>3. ASSUME ~(\E len : Start(len))
        PROVE  abandoned' = abandoned /\ (pc = "done" => result' = result)
    <3>1. ~SocketError
      BY <1>1, <1>2, CorrectFacts DEF SocketError
    <3> QED
      BY <2>3, <3>1 DEF Next, vars, testerVars, histVars, TesterStep, SendFirst,
         SendCF, SendFC, Poll, GiveUp, Receiving, RecvNone, RecvForeign, RecvFC,
         RecvFirst, RecvCF, EcuStep, EcuRecvSF, EcuRecvFF, EcuRecvCF, EcuRecvFC,
         EcuTakes, EcuGrant, EcuWait, EcuOverflow, EcuReply, EcuSendCF, EcuSends,
         EcuAbandons, Lose, Disturb, DeadlinePasses
  <2> QED
    BY <1>2, <2>1, <2>2, <2>3 DEF CourseInv
<1>3. CASE UNCHANGED vars
  <2>1. UNCHANGED <<env, toEcu, ecu, call, pc, late, payload, offset, seq,
                    blockCount, bs, waits, total, result, abandoned>>
    BY <1>3 DEF vars, busVars, testerVars, sendVars, recvVars, histVars
  <2>2. toTester' = toTester
    BY <1>3 DEF vars, busVars
  <2>3. toTester' \in Seq(Frames) /\ Shifted(toTester, toTester', 0)
    <3>1. \A i \in 1..Len(toTester) : i - 0 = i /\ i + 0 = i
      BY <1>1, Queues
    <3> QED
      BY <1>1, <2>2, <3>1, Queues DEF Shifted
  <2> QED
    BY <1>1, <1>2, <1>2a, <2>1, <2>3, CourseStill
<1>4. CASE \E len \in env.reqLens : Start(len)
  BY <1>1, <1>2, <1>2a, <1>4, StartCourse
<1>5. CASE SendFirst
  BY <1>1, <1>2, <1>2a, <1>5, SendFirstCourse
<1>6. CASE SendCF
  BY <1>1, <1>2, <1>2a, <1>6, SendCFCourse
<1>7. CASE SendFC
  BY <1>1, <1>2, <1>2a, <1>7, SendFCCourse
<1>8. CASE Aside
  BY <1>1, <1>2, <1>2a, <1>8, AsideCourse
<1>9. CASE \E f \in {toTester[i] : i \in DOMAIN toTester} :
             RecvForeign(f) \/ RecvFC(f) \/ RecvFirst(f) \/ RecvCF(f)
  BY <1>2, <1>2a, <1>9, TakeCourse
<1>10. CASE EcuStep
  BY <1>2, <1>2a, <1>10, EcuCourse
<1>11. CASE Disturb
  BY <1>1, <1>2, <1>2a, <1>11, DisturbCourse
<1>12. ~Lose
  BY <1>1, <1>2, <1>2a, NoFault
<1> QED
  BY <1>3, <1>4, <1>5, <1>6, <1>7, <1>8, <1>9, <1>10, <1>11, <1>12
     DEF Next, TesterStep, Aside

-----------------------------------------------------------------------------
(* Blocks.                                                                 *)

\* The frames sent fill the block no sooner than the last of them.
LEMMA BlockLength ==
    ASSUME NEW b \in Nat, NEW c \in Nat, c + 1 <= b
    PROVE  /\ CFPayload * (c + 1) = CFPayload * c + CFPayload
           /\ CFPayload * (c + 1) <= CFPayload * b
           /\ CFPayload * c \in Nat /\ CFPayload * b \in Nat
<1> DEFINE d == b - (c + 1)
<1>1. d \in Nat /\ b = (c + 1) + d /\ CFPayload \in Nat
  BY Sizes
<1> HIDE DEF d
<1>2. CFPayload * b = CFPayload * (c + 1) + CFPayload * d
  BY <1>1
<1>3. /\ CFPayload * d \in Nat /\ CFPayload * (c + 1) \in Nat
      /\ CFPayload * c \in Nat /\ CFPayload * b \in Nat
  BY <1>1
<1>4. CFPayload * (c + 1) = CFPayload * c + CFPayload
  BY <1>1
<1> QED
  BY <1>1, <1>2, <1>3, <1>4

\* A step that sends no Consecutive Frame and starts no block: the call stays
\* where it is, goes on to the response, or ends.
LEMMA BlockStays ==
    ASSUME Types, FitInv, UNCHANGED <<payload, offset, blockCount, bs>>,
           \/ pc' = pc /\ result' = result
           \/ /\ pc' = "done" /\ result' \notin {"ok", "Unsupported"}
           \/ /\ pc \in {"recv_first", "send_fc", "recv_cf"}
              /\ pc' \in {"recv_first", "send_fc", "recv_cf", "done"}
              /\ result' # "Unsupported"
    PROVE  FitInv'
<1>1. BlockTooShort' = BlockTooShort
  BY DEF BlockTooShort
<1>2. CASE pc' = pc /\ result' = result
  BY <1>1, <1>2 DEF FitInv
<1>3. CASE pc' = "done" /\ result' \notin {"ok", "Unsupported"}
  BY <1>3 DEF FitInv
<1>4. CASE /\ pc \in {"recv_first", "send_fc", "recv_cf"}
           /\ pc' \in {"recv_first", "send_fc", "recv_cf", "done"}
           /\ result' # "Unsupported"
  BY <1>1, <1>4 DEF FitInv
<1> QED
  BY <1>2, <1>3, <1>4

LEMMA SendCFBlock ==
    ASSUME Types, FitInv, SendCF
    PROVE  FitInv'
<1>1. /\ pc = "send_cf" /\ UNCHANGED <<payload, bs>>
      /\ offset' = Least(offset + CFPayload, Len(payload))
      /\ blockCount' = Least(blockCount + 1, U8 - 1)
      /\ IF BlockDone THEN pc' = "done" /\ result' = "Unsupported"
         ELSE /\ pc' = IF offset' < Len(payload) THEN "send_cf" ELSE "recv_first"
              /\ result' = result
  BY DEF SendCF, Return
<1>2. /\ Len(payload) \in Nat /\ offset \in Nat /\ offset <= Len(payload)
      /\ bs \in Nat /\ bs <= U8 - 1 /\ blockCount \in Nat /\ U8 \in Nat
      /\ result = "none" /\ CFPayload \in Nat /\ FFFirst \in Nat
  BY <1>1, Sizes, LenProperties DEF Types, TesterTypes
<1>3. CASE bs = 0
  BY <1>1, <1>2, <1>3 DEF FitInv, BlockDone, BlockTooShort
<1>4. CASE bs # 0
  <2>1. blockCount < bs /\ offset = FFFirst + CFPayload * blockCount
    BY <1>1, <1>4 DEF FitInv
  <2>2. blockCount' = blockCount + 1
    BY <1>1, <1>2, <2>1 DEF Least
  <2>3. /\ CFPayload * (blockCount + 1) = CFPayload * blockCount + CFPayload
        /\ CFPayload * (blockCount + 1) <= CFPayload * bs
        /\ CFPayload * blockCount \in Nat /\ CFPayload * bs \in Nat
    BY <1>2, <2>1, BlockLength
  <2>4. offset + CFPayload = FFFirst + CFPayload * (blockCount + 1)
    BY <1>2, <2>1, <2>3
  <2>5. IF offset' < Len(payload)
        THEN offset' = FFFirst + CFPayload * (blockCount + 1)
        ELSE Len(payload) <= FFFirst + CFPayload * bs
    BY <1>1, <1>2, <2>3, <2>4 DEF Least
  <2>6. CASE BlockDone
    <3>1. blockCount' = bs /\ offset' < Len(payload)
      BY <2>6 DEF BlockDone
    <3>2. FFFirst + CFPayload * bs < Len(payload)
      BY <2>2, <2>5, <3>1
    <3> QED
      BY <1>1, <1>4, <2>6, <3>2 DEF FitInv, BlockTooShort
  <2>7. CASE ~BlockDone /\ offset' < Len(payload)
    <3>1. blockCount' < bs
      BY <1>2, <1>4, <2>1, <2>2, <2>7 DEF BlockDone
    <3>2. /\ pc' = "send_cf" /\ result' = "none" /\ bs' = bs
          /\ offset' = FFFirst + CFPayload * blockCount'
      BY <1>1, <1>2, <2>2, <2>5, <2>7
    <3> QED
      BY <3>1, <3>2 DEF FitInv
  <2>8. CASE ~(offset' < Len(payload))
    <3>1. ~BlockTooShort'
      BY <1>1, <1>2, <2>3, <2>5, <2>8 DEF BlockTooShort
    <3>2. pc' = "recv_first" /\ result' = "none"
      BY <1>1, <1>2, <2>8 DEF BlockDone
    <3> QED
      BY <3>1, <3>2 DEF FitInv
  <2> QED
    BY <2>6, <2>7, <2>8
<1> QED
  BY <1>3, <1>4

LEMMA RecvFCBlock ==
    ASSUME Types, FitInv, NEW f, RecvFC(f)
    PROVE  FitInv'
<1>1. pc = "wait_fc" /\ bs = 0 /\ result = "none" /\ payload' = payload
  BY DEF RecvFC, FitInv, Types, TesterTypes
<1>2. CASE IsFC(f, CTS)
  <2>1. /\ pc' = "send_cf" /\ bs' = Granted(f) /\ offset' = FFFirst
        /\ blockCount' = 0 /\ result' = result
    BY <1>2 DEF RecvFC, Granted, IsFC, CTS, WAIT, OVERFLOW
  <2>2. Granted(f) \in Nat
    <3>1. toTester # <<>> /\ f = toTester[1] /\ 1 \in 1..Len(toTester)
      BY Queues, TesterTook DEF RecvFC, Recv
    <3>2. Granted(f) \in 0..U8 - 1
      BY <1>2, <3>1 DEF Types, BusTypes, EcuFrame
    <3> QED
      BY <3>2, Sizes
  <2>3. CFPayload * 0 = 0 /\ FFFirst + 0 = FFFirst
    BY Sizes
  <2> QED
    BY <1>1, <2>1, <2>2, <2>3 DEF FitInv
<1>3. CASE ~IsFC(f, CTS)
  <2>1. /\ UNCHANGED <<payload, offset, blockCount, bs>>
        /\ \/ pc' = pc /\ result' = result
           \/ pc' = "done" /\ result' \in {"TimedOut", "Other", "InvalidData"}
    BY <1>3 DEF RecvFC, sendVars, Return
  <2> QED
    BY <2>1, BlockStays
<1> QED
  BY <1>2, <1>3

LEMMA InitBlock == ASSUME Init PROVE FitInv
  BY DEF Init, FitInv

LEMMA NextBlock ==
    ASSUME Types, FitInv, [Next]_vars
    PROVE  FitInv'
<1>1. pc \in PCs /\ ((result = "none") <=> (pc # "done"))
  BY DEF Types, TesterTypes
<1>2. CASE \/ UNCHANGED vars
           \/ EcuStep \/ Lose \/ Disturb \/ DeadlinePasses \/ Poll \/ RecvNone
           \/ \E f : RecvForeign(f)
  <2>1. UNCHANGED <<payload, offset, blockCount, bs, pc, result>>
    BY <1>2 DEF vars, testerVars, sendVars, EcuStep, EcuRecvSF, EcuRecvFF,
       EcuRecvCF, EcuRecvFC, EcuTakes, EcuGrant, EcuWait, EcuOverflow, EcuReply,
       EcuSendCF, EcuSends, EcuAbandons, Lose, Disturb, DeadlinePasses, Poll,
       RecvNone, RecvForeign
  <2> QED
    BY <2>1, BlockStays
<1>3. CASE GiveUp \/ SocketError
  <2>1. /\ UNCHANGED <<payload, offset, blockCount, bs>> /\ pc' = "done"
        /\ result' \in {"TimedOut", "SocketError"}
    BY <1>3 DEF GiveUp, SocketError, Return, sendVars
  <2> QED
    BY <2>1, BlockStays
<1>4. CASE \E len \in env.reqLens : Start(len)
  <2>1. /\ bs' = 0
        /\ \/ pc' = "done" /\ result' = "InvalidInput"
           \/ pc' = "send_first" /\ result' = "none"
    BY <1>4 DEF Start, Return
  <2> QED
    BY <2>1 DEF FitInv
<1>5. CASE SendFirst
  <2>1. /\ pc = "send_first" /\ bs = 0 /\ bs' = 0 /\ result' = result
        /\ pc' \in {"recv_first", "wait_fc"} /\ result = "none"
    BY <1>1, <1>5 DEF SendFirst, sendVars, FitInv
  <2>2. ~BlockTooShort'
    BY <2>1 DEF BlockTooShort
  <2> QED
    BY <2>1, <2>2 DEF FitInv
<1>6. CASE SendCF
  BY <1>6, SendCFBlock
<1>7. CASE SendFC
  <2>1. /\ UNCHANGED <<payload, offset, blockCount, bs>> /\ result' = result
        /\ pc = "send_fc" /\ pc' = "recv_cf" /\ result = "none"
    BY <1>1, <1>7 DEF SendFC, sendVars
  <2> QED
    BY <2>1, BlockStays
<1>8. CASE \E f : RecvFC(f)
  BY <1>8, RecvFCBlock
<1>9. CASE \E f : RecvFirst(f) \/ RecvCF(f)
  <2>1. /\ UNCHANGED <<payload, offset, blockCount, bs>>
        /\ pc \in {"recv_first", "recv_cf"}
        /\ pc' \in {"send_fc", "recv_cf", "done"}
        /\ result' \in {result, "ok", "InvalidData"} /\ result = "none"
    BY <1>1, <1>9 DEF RecvFirst, RecvCF, sendVars, Return
  <2> QED
    BY <2>1, BlockStays
<1> QED
  BY <1>2, <1>3, <1>4, <1>5, <1>6, <1>7, <1>8, <1>9 DEF Next, TesterStep

-----------------------------------------------------------------------------
(* A correct ECU is understood.                                            *)

\* An ECU without faults is always understood, until a call has been refused:
\* on a bus that loses nothing but carries frames of other nodes as well, with
\* a timeout that outlasts every answer, every call returns Ok, however long
\* the request and its response are, whether or not the ECU fills up its
\* frames, and although it puts the tester off as often as Options::max_waits
\* allows.  The exception is a request that needs more Consecutive Frames than
\* the first Flow Control granted: that call, and no other, returns
\* Unsupported.  Options::block_size is 0 here; of an ECU that answers in
\* blocks this is not true.
THEOREM CorrectEcuIsUnderstood ==
    BlockSize = 0 => (Spec => []CorrectEcuSucceeds)
<1> SUFFICES ASSUME BlockSize = 0
             PROVE  Spec => []CorrectEcuSucceeds
  OBVIOUS
<1>1. Init => CourseInv /\ FitInv
  BY InitCourse, InitBlock
<1>2. WInv /\ CourseInv /\ FitInv /\ [Next]_vars => CourseInv' /\ FitInv'
  BY NextCourse, NextBlock DEF WInv, IInv
<1>3. CourseInv /\ FitInv => CorrectEcuSucceeds
  BY DEF CourseInv, OnCourse, FitInv, CorrectEcuSucceeds
<1> QED
  BY <1>1, <1>2, <1>3, WholeInvariant, PTL DEF Spec

=============================================================================
