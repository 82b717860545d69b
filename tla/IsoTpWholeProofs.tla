--------------------------- MODULE IsoTpWholeProofs ---------------------------
(***************************************************************************)
(* More proofs about IsoTpRequest, for all sizes of the protocol, options  *)
(* and environments: a message that is received is one that was sent, in   *)
(* either direction, whatever the bus loses.                               *)
(***************************************************************************)
EXTENDS IsoTpRequestProofs, FiniteSetTheorems


-----------------------------------------------------------------------------
(* Channels.  A message is sent as a head, a Single or a First Frame, and,  *)
(* after a First Frame, as parts, the Consecutive Frames.  The first byte   *)
(* of each of these names the message and the place of the byte in it.      *)

Owner(f) == f.data[1][2]
Place(f) == f.data[1][3]
IsPart(f) == f.pci = "CF"
IsData(f, H) == f \in H \/ IsPart(f)

\* The places where parts begin.
Offset(q) == FFFirst + CFPayload * q
Places == {Offset(q) : q \in Nat}

\* A channel is a queue Q with heads from H, a sender and a receiver.  S says
\* how much of which message the sender has sent, O the same if the next frame
\* is a part of it, and R how much of which message the receiver cannot get
\* any more, if it collects one: sets of at most one pair.
Marked(Q, H) ==
    \A i \in 1..Len(Q) :
        /\ Q[i] \in H => ~IsPart(Q[i]) /\ Place(Q[i]) = 1
        /\ IsPart(Q[i]) => \E m \in Places : Place(Q[i]) = m + 1

\* Frames of one message are in its order.
Rising(Q, H) ==
    \A i, j \in 1..Len(Q) :
        /\ i < j /\ IsData(Q[i], H) /\ IsData(Q[j], H)
        /\ Owner(Q[i]) = Owner(Q[j])
        => Place(Q[i]) < Place(Q[j])

\* Between a part and the head before it there is no other head.
Follows(Q, H) ==
    \A i, j \in 1..Len(Q) :
        i < j /\ Q[i] \in H /\ IsPart(Q[j]) =>
            \E h \in 1..Len(Q) : /\ i <= h /\ h < j
                                 /\ Q[h] \in H /\ Owner(Q[h]) = Owner(Q[j])

\* The frames are of what was sent, and of what is still to be received.
Sent(Q, H, S) ==
    \A s \in S, i \in 1..Len(Q) :
        IsData(Q[i], H) /\ Owner(Q[i]) = s[1] => Place(Q[i]) <= s[2]
Awaited(Q, H, R) ==
    \A r \in R, i \in 1..Len(Q) :
        IsData(Q[i], H) /\ Owner(Q[i]) = r[1] => r[2] < Place(Q[i])

\* The parts before the first head are of what the receiver collects, ...
Leads(Q, H, R) ==
    \A r \in R, j \in 1..Len(Q) :
        IsPart(Q[j]) => \/ Owner(Q[j]) = r[1]
                        \/ \E h \in 1..Len(Q) : h < j /\ Q[h] \in H

\* ... and the next part is of the message of the last head, or of what the
\* receiver collects if there is no head.
Ends(Q, H, O) ==
    \A s \in O, i \in 1..Len(Q) :
        Q[i] \in H => \E h \in 1..Len(Q) : /\ i <= h /\ Q[h] \in H
                                           /\ Owner(Q[h]) = s[1]
Meets(Q, H, O, R) ==
    \A s \in O, r \in R : r[1] = s[1] \/ \E h \in 1..Len(Q) : Q[h] \in H

Positions(S, O, R) ==
    /\ O \subseteq S
    /\ \A s \in S : s[2] \in {0} \cup Places
    /\ \A r \in R : r[2] \in Nat
    /\ \A r \in R, s \in S : r[1] = s[1] => r[2] <= s[2]

Channel(Q, H, S, O, R) ==
    /\ Marked(Q, H) /\ Rising(Q, H) /\ Follows(Q, H)
    /\ Sent(Q, H, S) /\ Awaited(Q, H, R) /\ Leads(Q, H, R)
    /\ Ends(Q, H, O) /\ Meets(Q, H, O, R) /\ Positions(S, O, R)

-----------------------------------------------------------------------------
(* The places.                                                             *)

LEMMA OffsetLemma ==
    ASSUME NEW q \in Nat, NEW r \in Nat
    PROVE  /\ Offset(q) \in Nat /\ FFFirst <= Offset(q)
           /\ Offset(q + 1) = Offset(q) + CFPayload
           /\ q < r => Offset(q) + CFPayload <= Offset(r)
<1>1. FFFirst \in Nat /\ CFPayload \in Nat
  BY Sizes
<1>2. CFPayload * q \in Nat
  BY <1>1
<1>3. CFPayload * (q + 1) = CFPayload * q + CFPayload
  BY <1>1
<1>4. ASSUME q < r
      PROVE  CFPayload * q + CFPayload <= CFPayload * r
  <2> DEFINE d == r - q - 1
  <2>1. d \in Nat /\ r = q + 1 + d
    BY <1>4
  <2> HIDE DEF d
  <2>2. CFPayload * r = CFPayload * q + CFPayload + CFPayload * d
    BY <1>1, <2>1
  <2>3. CFPayload * d \in Nat
    BY <1>1, <2>1
  <2> QED
    BY <1>1, <1>2, <2>2, <2>3
<1> QED
  BY <1>1, <1>2, <1>3, <1>4 DEF Offset

LEMMA PlacesLemma ==
    /\ Places \subseteq Nat /\ FFFirst \in Places
    /\ \A m \in Places : FFFirst <= m /\ m + CFPayload \in Places
    /\ \A m, n \in Places : m < n => m + CFPayload <= n
<1>1. ASSUME NEW m \in Places
      PROVE  m \in Nat /\ FFFirst <= m /\ m + CFPayload \in Places
  <2>1. PICK q \in Nat : m = Offset(q)
    BY DEF Places
  <2>2. q + 1 \in Nat /\ Offset(q + 1) = m + CFPayload
    BY <2>1, OffsetLemma
  <2> QED
    BY <2>1, <2>2, OffsetLemma DEF Places
<1>2. FFFirst \in Places
  <2>1. Offset(0) = FFFirst
    BY Sizes DEF Offset
  <2> QED
    BY <2>1 DEF Places
<1>3. ASSUME NEW m \in Places, NEW n \in Places, m < n
      PROVE  m + CFPayload <= n
  <2>1. PICK q \in Nat : m = Offset(q)
    BY DEF Places
  <2>2. PICK r \in Nat : n = Offset(r)
    BY DEF Places
  <2>3. r < q => Offset(r) + CFPayload <= Offset(q)
    BY OffsetLemma
  <2>4. q < r
    BY <1>3, <2>1, <2>2, <2>3, OffsetLemma, Sizes
  <2> QED
    BY <2>1, <2>2, <2>4, OffsetLemma
<1> QED
  BY <1>1, <1>2, <1>3

-----------------------------------------------------------------------------
(* Steps of a channel.                                                     *)

LEMMA MarkedLemma ==
    ASSUME NEW Q, NEW H, Marked(Q, H)
    PROVE  \A i \in 1..Len(Q) :
             IsData(Q[i], H) => Place(Q[i]) \in Nat /\ 1 <= Place(Q[i])
<1> SUFFICES ASSUME NEW i \in 1..Len(Q), IsData(Q[i], H)
             PROVE  Place(Q[i]) \in Nat /\ 1 <= Place(Q[i])
  OBVIOUS
<1>1. CASE Q[i] \in H
  BY <1>1 DEF Marked
<1>2. CASE IsPart(Q[i])
  <2>1. PICK m \in Places : Place(Q[i]) = m + 1
    BY <1>2 DEF Marked
  <2> QED
    BY <2>1, PlacesLemma
<1> QED
  BY <1>1, <1>2 DEF IsData

\* The sender stops, or the receiver does.
LEMMA ChannelStops ==
    ASSUME NEW Q, NEW H, NEW S, NEW O, NEW R, Channel(Q, H, S, O, R),
           NEW S2 \in SUBSET S, NEW O2 \in SUBSET O, NEW R2 \in SUBSET R,
           O2 \subseteq S2
    PROVE  Channel(Q, H, S2, O2, R2)
<1>1. Sent(Q, H, S2)
  BY DEF Channel, Sent
<1>2. Awaited(Q, H, R2) /\ Leads(Q, H, R2)
  BY DEF Channel, Awaited, Leads
<1>3. Ends(Q, H, O2) /\ Meets(Q, H, O2, R2)
  BY DEF Channel, Ends, Meets
<1>4. Positions(S2, O2, R2)
  BY DEF Channel, Positions
<1> QED
  BY <1>1, <1>2, <1>3, <1>4 DEF Channel

\* The sender turns to a message of which nothing has been sent.
LEMMA ChannelTurns ==
    ASSUME NEW Q, NEW H, NEW S, NEW O, NEW R, Channel(Q, H, S, O, R), NEW k,
           \A i \in 1..Len(Q) : IsData(Q[i], H) => Owner(Q[i]) # k,
           \A r \in R : r[1] # k
    PROVE  Channel(Q, H, {<<k, 0>>}, {}, R)
<1>1. Sent(Q, H, {<<k, 0>>})
  BY DEF Sent
<1>2. Ends(Q, H, {}) /\ Meets(Q, H, {}, R)
  BY DEF Ends, Meets
<1>3. Positions({<<k, 0>>}, {}, R)
  BY DEF Channel, Positions
<1> QED
  BY <1>1, <1>2, <1>3 DEF Channel

\* A frame is sent that is neither head nor part.
LEMMA ChannelSendsOther ==
    ASSUME NEW Q \in Seq(Frames), NEW f \in Frames, NEW H, NEW S, NEW O, NEW R,
           Channel(Q, H, S, O, R), ~IsData(f, H)
    PROVE  Channel(Append(Q, f), H, S, O, R)
<1> DEFINE Q2 == Append(Q, f)
<1>1. /\ Len(Q) \in Nat /\ Len(Q2) = Len(Q) + 1
      /\ \A i \in 1..Len(Q) : Q2[i] = Q[i]
      /\ Q2[Len(Q) + 1] = f
  BY AppendLemma, LenProperties
<1> HIDE DEF Q2
<1>2. \A i \in 1..Len(Q2) : IsData(Q2[i], H) => i \in 1..Len(Q)
  BY <1>1
<1>3. \A i \in 1..Len(Q) : i \in 1..Len(Q2)
  BY <1>1
<1>4. /\ \A i \in 1..Len(Q2) : Q2[i] \in H => i \in 1..Len(Q)
      /\ \A i \in 1..Len(Q2) : IsPart(Q2[i]) => i \in 1..Len(Q)
  BY <1>2 DEF IsData
<1>5. Marked(Q2, H)
  BY <1>1, <1>4 DEF Channel, Marked
<1>6. Rising(Q2, H)
  BY <1>1, <1>2 DEF Channel, Rising
<1>7. Follows(Q2, H)
  BY <1>1, <1>3, <1>4 DEF Channel, Follows
<1>8. Sent(Q2, H, S) /\ Awaited(Q2, H, R)
  BY <1>1, <1>2 DEF Channel, Sent, Awaited
<1>9. Leads(Q2, H, R)
  BY <1>1, <1>3, <1>4 DEF Channel, Leads
<1>10. Ends(Q2, H, O)
  BY <1>1, <1>3, <1>4 DEF Channel, Ends
<1>11. Meets(Q2, H, O, R)
  BY <1>1, <1>3 DEF Channel, Meets
<1>12. Positions(S, O, R)
  BY DEF Channel
<1> QED
  BY <1>5, <1>6, <1>7, <1>8, <1>9, <1>10, <1>11, <1>12 DEF Channel, Q2

\* The head of a message is sent.
LEMMA ChannelSendsHead ==
    ASSUME NEW Q \in Seq(Frames), NEW f \in Frames, NEW H, NEW S, NEW O, NEW R,
           Channel(Q, H, S, O, R),
           f \in H, ~IsPart(f), Place(f) = 1,
           \A i \in 1..Len(Q) : IsData(Q[i], H) => Owner(Q[i]) # Owner(f),
           \A r \in R : r[1] # Owner(f),
           NEW S2, \A s \in S2 : s[1] = Owner(f) /\ s[2] \in Places
    PROVE  Channel(Append(Q, f), H, S2, S2, R)
<1> DEFINE Q2 == Append(Q, f)
           n == Len(Q) + 1
<1>1. /\ Len(Q) \in Nat /\ Len(Q2) = n /\ n \in Nat
      /\ \A i \in 1..Len(Q) : Q2[i] = Q[i]
      /\ Q2[n] = f
      /\ \A i \in 1..n : i \in 1..Len(Q) \/ i = n
      /\ \A i \in 1..Len(Q) : i \in 1..n /\ i < n
      /\ n \in 1..n
  BY AppendLemma, LenProperties
<1> HIDE DEF Q2, n
<1>2. IsData(f, H)
  BY DEF IsData
<1>5. Marked(Q2, H)
  BY <1>1 DEF Channel, Marked
<1>6. Rising(Q2, H)
  <2> SUFFICES ASSUME NEW i \in 1..n, NEW j \in 1..n, i < j,
                      IsData(Q2[i], H), IsData(Q2[j], H),
                      Owner(Q2[i]) = Owner(Q2[j])
               PROVE  Place(Q2[i]) < Place(Q2[j])
    BY <1>1 DEF Rising
  <2>1. i \in 1..Len(Q)
    BY <1>1
  <2>2. j # n
    BY <1>1, <2>1
  <2> QED
    BY <1>1, <2>1, <2>2 DEF Channel, Rising
<1>7. Follows(Q2, H)
  <2> SUFFICES ASSUME NEW i \in 1..n, NEW j \in 1..n, i < j,
                      Q2[i] \in H, IsPart(Q2[j])
               PROVE  \E h \in 1..n : /\ i <= h /\ h < j /\ Q2[h] \in H
                                      /\ Owner(Q2[h]) = Owner(Q2[j])
    BY <1>1 DEF Follows
  <2>1. i \in 1..Len(Q) /\ j \in 1..Len(Q)
    BY <1>1
  <2>2. PICK h \in 1..Len(Q) : /\ i <= h /\ h < j /\ Q[h] \in H
                               /\ Owner(Q[h]) = Owner(Q[j])
    BY <1>1, <2>1 DEF Channel, Follows
  <2> QED
    BY <1>1, <2>1, <2>2
<1>8. Sent(Q2, H, S2)
  <2> SUFFICES ASSUME NEW s \in S2, NEW i \in 1..n, IsData(Q2[i], H),
                      Owner(Q2[i]) = s[1]
               PROVE  Place(Q2[i]) <= s[2]
    BY <1>1 DEF Sent
  <2>1. i = n
    BY <1>1
  <2>2. s[2] \in Nat /\ FFFirst <= s[2] /\ FFFirst \in Nat /\ 0 < FFFirst
    BY PlacesLemma, Sizes
  <2> QED
    BY <1>1, <2>1, <2>2
<1>9. Awaited(Q2, H, R)
  BY <1>1 DEF Channel, Awaited
<1>10. Leads(Q2, H, R)
  BY <1>1 DEF Channel, Leads
<1>11. Ends(Q2, H, S2)
  BY <1>1 DEF Ends
<1>12. Meets(Q2, H, S2, R)
  BY <1>1 DEF Meets
<1>13. Positions(S2, S2, R)
  BY DEF Channel, Positions
<1> QED
  BY <1>5, <1>6, <1>7, <1>8, <1>9, <1>10, <1>11, <1>12, <1>13 DEF Channel, Q2

\* The next part is sent.
LEMMA ChannelSendsPart ==
    ASSUME NEW Q \in Seq(Frames), NEW f \in Frames, NEW H, NEW S, NEW O, NEW R,
           Channel(Q, H, S, O, R),
           f \notin H, IsPart(f), NEW m \in Places, Place(f) = m + 1,
           <<Owner(f), m>> \in O,
           NEW S2, \A s \in S2 : /\ s[1] = Owner(f) /\ s[2] \in Places
                                 /\ m < s[2]
    PROVE  Channel(Append(Q, f), H, S2, S2, R)
<1> DEFINE Q2 == Append(Q, f)
           n == Len(Q) + 1
           s0 == <<Owner(f), m>>
<1>1. /\ Len(Q) \in Nat /\ Len(Q2) = n /\ n \in Nat
      /\ \A i \in 1..Len(Q) : Q2[i] = Q[i]
      /\ Q2[n] = f
      /\ \A i \in 1..n : i \in 1..Len(Q) \/ i = n
      /\ \A i \in 1..Len(Q) : i \in 1..n /\ i < n
      /\ n \in 1..n
  BY AppendLemma, LenProperties
<1>0. Len(Q2) = n
  BY <1>1
<1>2. /\ s0[1] = Owner(f) /\ s0[2] = m /\ s0 \in O /\ s0 \in S /\ m \in Nat
      /\ Places \subseteq Nat
  BY PlacesLemma DEF Channel, Positions
<1> HIDE DEF Q2, n, s0
<1>3. \A i \in 1..Len(Q) : IsData(Q[i], H) /\ Owner(Q[i]) = Owner(f) =>
        Place(Q[i]) <= m
  BY <1>2 DEF Channel, Sent
<1>4. \A i \in 1..Len(Q) : IsData(Q[i], H) => Place(Q[i]) \in Nat
  BY MarkedLemma DEF Channel
<1>5. Marked(Q2, H)
  BY <1>1 DEF Channel, Marked
<1>6. Rising(Q2, H)
  <2> SUFFICES ASSUME NEW i \in 1..n, NEW j \in 1..n, i < j,
                      IsData(Q2[i], H), IsData(Q2[j], H),
                      Owner(Q2[i]) = Owner(Q2[j])
               PROVE  Place(Q2[i]) < Place(Q2[j])
    BY <1>1 DEF Rising
  <2>1. i \in 1..Len(Q) /\ Q2[i] = Q[i]
    BY <1>1
  <2>2. CASE j = n
    <3>1. Place(Q[i]) <= m /\ Place(Q[i]) \in Nat
      BY <1>1, <1>3, <1>4, <2>1, <2>2
    <3> QED
      BY <1>1, <1>2, <2>1, <2>2, <3>1
  <2>3. CASE j # n
    BY <1>1, <2>1, <2>3 DEF Channel, Rising
  <2> QED
    BY <2>2, <2>3
<1>7. Follows(Q2, H)
  <2> SUFFICES ASSUME NEW i \in 1..n, NEW j \in 1..n, i < j,
                      Q2[i] \in H, IsPart(Q2[j])
               PROVE  \E h \in 1..n : /\ i <= h /\ h < j /\ Q2[h] \in H
                                      /\ Owner(Q2[h]) = Owner(Q2[j])
    BY <1>0 DEF Follows
  <2>1. i \in 1..Len(Q)
    BY <1>1
  <2>2. CASE j = n
    <3>1. PICK h \in 1..Len(Q) : /\ i <= h /\ Q[h] \in H
                                 /\ Owner(Q[h]) = s0[1]
      BY <1>1, <1>2, <2>1 DEF Channel, Ends
    <3> QED
      BY <1>1, <1>2, <2>2, <3>1
  <2>3. CASE j # n
    <3>1. PICK h \in 1..Len(Q) : /\ i <= h /\ h < j /\ Q[h] \in H
                                 /\ Owner(Q[h]) = Owner(Q[j])
      BY <1>1, <2>1, <2>3 DEF Channel, Follows
    <3> QED
      BY <1>1, <2>1, <2>3, <3>1
  <2> QED
    BY <2>2, <2>3
<1>8. Sent(Q2, H, S2)
  <2> SUFFICES ASSUME NEW s \in S2, NEW i \in 1..n, IsData(Q2[i], H),
                      Owner(Q2[i]) = s[1]
               PROVE  Place(Q2[i]) <= s[2]
    BY <1>1 DEF Sent
  <2>1. s[1] = Owner(f) /\ s[2] \in Nat /\ m < s[2]
    BY <1>2
  <2>2. CASE i = n
    BY <1>1, <1>2, <2>1, <2>2
  <2>3. CASE i # n
    <3>1. Place(Q[i]) <= m /\ Place(Q[i]) \in Nat
      BY <1>1, <1>3, <1>4, <2>1, <2>3
    <3> QED
      BY <1>1, <1>2, <2>1, <2>3, <3>1
  <2> QED
    BY <2>2, <2>3
<1>9. Awaited(Q2, H, R)
  <2> SUFFICES ASSUME NEW r \in R, NEW i \in 1..n, IsData(Q2[i], H),
                      Owner(Q2[i]) = r[1]
               PROVE  r[2] < Place(Q2[i])
    BY <1>1 DEF Awaited
  <2>1. CASE i = n
    <3>1. r[2] <= s0[2] /\ r[2] \in Nat
      BY <1>1, <1>2, <2>1 DEF Channel, Positions
    <3> QED
      BY <1>1, <1>2, <2>1, <3>1
  <2>2. CASE i # n
    BY <1>1, <2>2 DEF Channel, Awaited
  <2> QED
    BY <2>1, <2>2
<1>10. Leads(Q2, H, R)
  <2> SUFFICES ASSUME NEW r \in R, NEW j \in 1..n, IsPart(Q2[j]),
                      Owner(Q2[j]) # r[1]
               PROVE  \E h \in 1..n : h < j /\ Q2[h] \in H
    BY <1>1 DEF Leads
  <2>1. CASE j = n
    <3>1. PICK h \in 1..Len(Q) : Q[h] \in H
      BY <1>1, <1>2, <2>1 DEF Channel, Meets
    <3> QED
      BY <1>1, <2>1, <3>1
  <2>2. CASE j # n
    <3>1. PICK h \in 1..Len(Q) : h < j /\ Q[h] \in H
      BY <1>1, <2>2 DEF Channel, Leads
    <3> QED
      BY <1>1, <3>1
  <2> QED
    BY <2>1, <2>2
<1>11. Ends(Q2, H, S2)
  <2> SUFFICES ASSUME NEW s \in S2, NEW i \in 1..n, Q2[i] \in H
               PROVE  \E h \in 1..n : /\ i <= h /\ Q2[h] \in H
                                      /\ Owner(Q2[h]) = s[1]
    BY <1>1 DEF Ends
  <2>1. i \in 1..Len(Q)
    BY <1>1
  <2>2. PICK h \in 1..Len(Q) : /\ i <= h /\ Q[h] \in H
                               /\ Owner(Q[h]) = s0[1]
    BY <1>1, <1>2, <2>1 DEF Channel, Ends
  <2> QED
    BY <1>1, <1>2, <2>2
<1>12. Meets(Q2, H, S2, R)
  <2> SUFFICES ASSUME NEW s \in S2, NEW r \in R, r[1] # s[1]
               PROVE  \E h \in 1..n : Q2[h] \in H
    BY <1>1 DEF Meets
  <2>1. PICK h \in 1..Len(Q) : Q[h] \in H
    BY <1>2 DEF Channel, Meets
  <2> QED
    BY <1>1, <2>1
<1>13. Positions(S2, S2, R)
  <2>1. ASSUME NEW r \in R, NEW s \in S2, r[1] = s[1]
        PROVE  r[2] <= s[2]
    <3>1. r[2] <= s0[2] /\ r[2] \in Nat
      BY <1>2, <2>1 DEF Channel, Positions
    <3>2. s[2] \in Nat /\ m < s[2]
      BY <1>2
    <3> QED
      BY <1>2, <3>1, <3>2
  <2> QED
    BY <2>1 DEF Channel, Positions
<1> QED
  BY <1>5, <1>6, <1>7, <1>8, <1>9, <1>10, <1>11, <1>12, <1>13 DEF Channel, Q2

\* The receiver takes a frame, and stops, or goes on as before if the frame is
\* no head.
LEMMA ChannelSkips ==
    ASSUME NEW Q \in Seq(Frames), Q # <<>>, NEW H, NEW S, NEW O, NEW R,
           Channel(Q, H, S, O, R),
           NEW R2 \in SUBSET R, Q[1] \in H => R2 = {} /\ R = {}
    PROVE  Channel(Tail(Q), H, S, O, R2)
<1> DEFINE Q2 == Tail(Q)
           n == Len(Q) - 1
<1>1. /\ n \in Nat /\ Len(Q2) = n /\ n + 1 = Len(Q)
      /\ \A i \in 1..n : Q2[i] = Q[i + 1] /\ i + 1 \in 1..Len(Q)
      /\ \A i \in 1..Len(Q) : i = 1 \/ (i - 1 \in 1..n /\ (i - 1) + 1 = i)
      /\ 1 \in 1..Len(Q)
  BY TailLemma
<1> HIDE DEF Q2, n
<1>2. \A i \in 1..n : \A h \in 1..Len(Q) : i + 1 <= h =>
        h - 1 \in 1..n /\ i <= h - 1 /\ Q2[h - 1] = Q[h]
  BY <1>1
<1>5. Marked(Q2, H)
  BY <1>1 DEF Channel, Marked
<1>6. Rising(Q2, H)
  BY <1>1, SMTT(30) DEF Channel, Rising
<1>7. Follows(Q2, H)
  <2> SUFFICES ASSUME NEW i \in 1..n, NEW j \in 1..n, i < j,
                      Q2[i] \in H, IsPart(Q2[j])
               PROVE  \E h \in 1..n : /\ i <= h /\ h < j /\ Q2[h] \in H
                                      /\ Owner(Q2[h]) = Owner(Q2[j])
    BY <1>1 DEF Follows
  <2>1. /\ i + 1 \in 1..Len(Q) /\ j + 1 \in 1..Len(Q) /\ i + 1 < j + 1
        /\ Q[i + 1] \in H /\ IsPart(Q[j + 1])
    BY <1>1
  <2>2. Follows(Q, H)
    BY DEF Channel
  <2>3. PICK h \in 1..Len(Q) : /\ i + 1 <= h /\ h < j + 1 /\ Q[h] \in H
                               /\ Owner(Q[h]) = Owner(Q[j + 1])
    BY <2>1, <2>2 DEF Follows
  <2>4. h - 1 \in 1..n /\ i <= h - 1 /\ h - 1 < j /\ Q2[h - 1] = Q[h]
    BY <1>1, <1>2, <2>3
  <2> QED
    BY <1>1, <2>3, <2>4
<1>8. Sent(Q2, H, S) /\ Awaited(Q2, H, R2)
  <2>1. ASSUME NEW s \in S, NEW i \in 1..n, IsData(Q2[i], H),
               Owner(Q2[i]) = s[1]
        PROVE  Place(Q2[i]) <= s[2]
    BY <1>1, <2>1 DEF Channel, Sent
  <2>2. ASSUME NEW r \in R2, NEW i \in 1..n, IsData(Q2[i], H),
               Owner(Q2[i]) = r[1]
        PROVE  r[2] < Place(Q2[i])
    BY <1>1, <2>2 DEF Channel, Awaited
  <2> QED
    BY <1>1, <2>1, <2>2 DEF Sent, Awaited
<1>9. Leads(Q2, H, R2)
  <2> SUFFICES ASSUME NEW r \in R2, NEW j \in 1..n, IsPart(Q2[j]),
                      Owner(Q2[j]) # r[1]
               PROVE  \E h \in 1..n : h < j /\ Q2[h] \in H
    BY <1>1 DEF Leads
  <2>1. PICK h \in 1..Len(Q) : h < j + 1 /\ Q[h] \in H
    BY <1>1 DEF Channel, Leads
  <2>2. h # 1
    BY <2>1
  <2> QED
    <3>1. h - 1 \in 1..n /\ (h - 1) + 1 = h /\ h - 1 < j
      BY <1>1, <2>1, <2>2
    <3> QED
      BY <1>1, <2>1, <3>1
<1>10. Ends(Q2, H, O)
  <2> SUFFICES ASSUME NEW s \in O, NEW i \in 1..n, Q2[i] \in H
               PROVE  \E h \in 1..n : /\ i <= h /\ Q2[h] \in H
                                      /\ Owner(Q2[h]) = s[1]
    BY <1>1 DEF Ends
  <2>1. PICK h \in 1..Len(Q) : i + 1 <= h /\ Q[h] \in H /\ Owner(Q[h]) = s[1]
    BY <1>1 DEF Channel, Ends
  <2> QED
    BY <1>2, <2>1
<1>11. Meets(Q2, H, O, R2)
  <2> SUFFICES ASSUME NEW s \in O, NEW r \in R2, r[1] # s[1]
               PROVE  \E h \in 1..n : Q2[h] \in H
    BY <1>1 DEF Meets
  <2>1. PICK h \in 1..Len(Q) : Q[h] \in H
    BY DEF Channel, Meets
  <2>2. h # 1
    BY <2>1
  <2> QED
    <3>1. h - 1 \in 1..n /\ (h - 1) + 1 = h
      BY <1>1, <2>2
    <3> QED
      BY <1>1, <2>1, <3>1
<1>12. Positions(S, O, R2)
  BY DEF Channel, Positions
<1> QED
  BY <1>5, <1>6, <1>7, <1>8, <1>9, <1>10, <1>11, <1>12 DEF Channel, Q2

\* The receiver takes the head of a message, and collects it.
LEMMA ChannelTakesHead ==
    ASSUME NEW Q \in Seq(Frames), Q # <<>>, NEW H, NEW S, NEW O, NEW R,
           Channel(Q, H, S, O, R), Q[1] \in H
    PROVE  Channel(Tail(Q), H, S, O, {<<Owner(Q[1]), FFFirst>>})
<1> DEFINE Q2 == Tail(Q)
           n == Len(Q) - 1
           r0 == <<Owner(Q[1]), FFFirst>>
<1>1. /\ n \in Nat /\ Len(Q2) = n /\ n + 1 = Len(Q)
      /\ \A i \in 1..n : Q2[i] = Q[i + 1] /\ i + 1 \in 1..Len(Q) /\ 1 < i + 1
      /\ \A i \in 1..Len(Q) : i = 1 \/ (i - 1 \in 1..n /\ (i - 1) + 1 = i)
      /\ 1 \in 1..Len(Q)
  BY TailLemma
<1>2. r0[1] = Owner(Q[1]) /\ r0[2] = FFFirst /\ FFFirst \in Nat
  BY Sizes
<1>3. Channel(Q2, H, S, O, {})
  <2>1. Channel(Q, H, S, O, {})
    BY ChannelStops DEF Channel, Positions
  <2> QED
    BY <2>1, ChannelSkips
<1>4. Place(Q[1]) = 1 /\ IsData(Q[1], H)
  BY <1>1 DEF Channel, Marked, IsData
<1> HIDE DEF Q2, n, r0
<1>5. Awaited(Q2, H, {r0})
  <2> SUFFICES ASSUME NEW i \in 1..n, IsData(Q2[i], H),
                      Owner(Q2[i]) = Owner(Q[1])
               PROVE  FFFirst < Place(Q2[i])
    BY <1>1, <1>2 DEF Awaited
  <2>1. Place(Q[1]) < Place(Q2[i])
    BY <1>1, <1>4 DEF Channel, Rising
  <2>2. Q2[i] \notin H
    BY <1>1, <1>4, <2>1 DEF Channel, Marked
  <2>3. PICK m \in Places : Place(Q2[i]) = m + 1
    BY <1>3, <1>1, <2>2 DEF Channel, Marked, IsData
  <2> QED
    BY <1>2, <2>3, PlacesLemma
<1>6. Leads(Q2, H, {r0})
  <2> SUFFICES ASSUME NEW j \in 1..n, IsPart(Q2[j]),
                      Owner(Q2[j]) # Owner(Q[1])
               PROVE  \E h \in 1..n : h < j /\ Q2[h] \in H
    BY <1>1, <1>2 DEF Leads
  <2>1. PICK h \in 1..Len(Q) : /\ 1 <= h /\ h < j + 1 /\ Q[h] \in H
                               /\ Owner(Q[h]) = Owner(Q[j + 1])
    BY <1>1 DEF Channel, Follows
  <2>2. h # 1
    BY <1>1, <2>1
  <2> QED
    <3>1. h - 1 \in 1..n /\ (h - 1) + 1 = h /\ h - 1 < j
      BY <1>1, <2>1, <2>2
    <3> QED
      BY <1>1, <2>1, <3>1
<1>7. Meets(Q2, H, O, {r0})
  <2> SUFFICES ASSUME NEW s \in O, Owner(Q[1]) # s[1]
               PROVE  \E h \in 1..n : Q2[h] \in H
    BY <1>1, <1>2 DEF Meets
  <2>1. PICK h \in 1..Len(Q) : 1 <= h /\ Q[h] \in H /\ Owner(Q[h]) = s[1]
    BY <1>1 DEF Channel, Ends
  <2>2. h # 1
    BY <2>1
  <2> QED
    BY <1>1, <2>1, <2>2
<1>8. Positions(S, O, {r0})
  <2>1. ASSUME NEW s \in S, s[1] = Owner(Q[1])
        PROVE  FFFirst <= s[2]
    <3>1. Place(Q[1]) <= s[2]
      BY <1>1, <1>4, <2>1 DEF Channel, Sent
    <3>2. s[2] \in {0} \cup Places
      BY DEF Channel, Positions
    <3> QED
      <4>1. s[2] # 0
        BY <1>4, <3>1
      <4>2. s[2] \in Places
        BY <3>2, <4>1
      <4> QED
        BY <4>2, PlacesLemma
  <2> QED
    BY <1>2, <2>1 DEF Channel, Positions
<1>9. Channel(Q2, H, S, O, {r0})
  BY <1>3, <1>5, <1>6, <1>7, <1>8 DEF Channel
<1> QED
  BY <1>9 DEF Q2, r0

\* The receiver takes the next part of what it collects.
LEMMA ChannelTakesPart ==
    ASSUME NEW Q \in Seq(Frames), Q # <<>>, NEW H, NEW S, NEW O, NEW R,
           Channel(Q, H, S, O, R), IsPart(Q[1]), NEW r \in R
    PROVE  /\ Owner(Q[1]) = r[1] /\ r[2] < Place(Q[1])
           /\ \A m \in Nat : m < Place(Q[1]) + CFPayload =>
                Channel(Tail(Q), H, S, O, {<<r[1], m>>})
<1> DEFINE Q2 == Tail(Q)
           n == Len(Q) - 1
<1>1. /\ n \in Nat /\ Len(Q2) = n /\ n + 1 = Len(Q)
      /\ \A i \in 1..n : Q2[i] = Q[i + 1] /\ i + 1 \in 1..Len(Q) /\ 1 < i + 1
      /\ 1 \in 1..Len(Q)
      /\ \A h \in 1..Len(Q) : ~(h < 1)
  BY TailLemma
<1>2. Owner(Q[1]) = r[1] /\ IsData(Q[1], H) /\ Q[1] \notin H
  BY <1>1 DEF Channel, Leads, IsData, Marked
<1>3. r[2] < Place(Q[1])
  BY <1>1, <1>2 DEF Channel, Awaited
<1>4. PICK p \in Places : Place(Q[1]) = p + 1
  BY <1>1, <1>2 DEF Channel, Marked
<1>5. p \in Nat /\ CFPayload \in Nat /\ r[2] \in Nat
  BY <1>4, PlacesLemma, Sizes DEF Channel, Positions
<1> HIDE DEF Q2, n
<1> SUFFICES ASSUME NEW m \in Nat, m < Place(Q[1]) + CFPayload
             PROVE  Channel(Q2, H, S, O, {<<r[1], m>>})
  BY <1>2, <1>3 DEF Q2
<1> DEFINE r0 == <<r[1], m>>
<1>6. r0[1] = r[1] /\ r0[2] = m
  OBVIOUS
<1>7. Channel(Q2, H, S, O, {r})
  <2>1. {r} \in SUBSET R
    OBVIOUS
  <2> QED
    BY <1>1, <1>2, <2>1, ChannelSkips DEF Q2
<1> HIDE DEF r0
<1>8. Awaited(Q2, H, {r0})
  <2> SUFFICES ASSUME NEW i \in 1..n, IsData(Q2[i], H), Owner(Q2[i]) = r[1]
               PROVE  m < Place(Q2[i])
    BY <1>1, <1>6 DEF Awaited
  <2>1. Place(Q[1]) < Place(Q2[i])
    BY <1>1, <1>2 DEF Channel, Rising
  <2>2. Q2[i] \notin H
    BY <1>1, <1>4, <1>5, <2>1, <1>7 DEF Channel, Marked
  <2>3. PICK k \in Places : Place(Q2[i]) = k + 1
    BY <1>7, <1>1, <2>2 DEF Channel, Marked, IsData
  <2>4. p < k /\ k \in Nat
    BY <1>4, <1>5, <2>1, <2>3, PlacesLemma
  <2>5. p + CFPayload <= k
    BY <2>4, PlacesLemma
  <2> QED
    BY <1>4, <1>5, <2>3, <2>4, <2>5
<1>9. Leads(Q2, H, {r0}) /\ Meets(Q2, H, O, {r0})
  BY <1>6, <1>7 DEF Channel, Leads, Meets
<1>10. Positions(S, O, {r0})
  <2>1. ASSUME NEW s \in S, s[1] = r[1]
        PROVE  m <= s[2]
    <3>1. Place(Q[1]) <= s[2]
      BY <1>1, <1>2, <2>1 DEF Channel, Sent
    <3>2. s[2] \in {0} \cup Places
      BY DEF Channel, Positions
    <3>3. s[2] \in Places /\ p < s[2] /\ s[2] \in Nat
      <4>1. s[2] \in Nat
        <5>1. ASSUME s[2] \in Places
              PROVE  s[2] \in Nat
          BY <5>1, PlacesLemma
        <5> QED
          BY <3>2, <5>1
      <4>2. p + 1 <= s[2]
        BY <1>4, <3>1
      <4>3. s[2] # 0 /\ p < s[2]
        BY <1>5, <4>1, <4>2
      <4> QED
        BY <3>2, <4>1, <4>3
    <3>4. p + CFPayload <= s[2]
      BY <3>3, PlacesLemma
    <3> QED
      BY <1>4, <1>5, <3>3, <3>4
  <2> QED
    BY <1>6, <2>1 DEF Channel, Positions
<1>11. Channel(Q2, H, S, O, {r0})
  BY <1>7, <1>8, <1>9, <1>10 DEF Channel
<1> QED
  BY <1>11 DEF r0

\* A frame is lost; not a head, if it is not the only one, or if the receiver
\* collects a message.
LEMMA ChannelLoses ==
    ASSUME NEW Q \in Seq(Frames), NEW k \in DOMAIN Q, NEW H, NEW S, NEW O, NEW R,
           Channel(Q, H, S, O, R),
           Q[k] \in H => R = {} /\ \A i \in 1..Len(Q) : Q[i] \in H => i = k
    PROVE  Channel(RemoveAt(Q, k), H, S, O, R)
<1> DEFINE Q2 == RemoveAt(Q, k)
           n == Len(Q) - 1
           at == [i \in 1..n |-> IF i < k THEN i ELSE i + 1]
           to == [i \in 1..Len(Q) |-> IF i < k THEN i ELSE i - 1]
<1>1. /\ n \in Nat /\ Len(Q2) = n /\ k \in 1..Len(Q)
      /\ \A i \in 1..n : Q2[i] = Q[at[i]] /\ at[i] \in 1..Len(Q) /\ at[i] # k
  <2>1. Len(Q) \in Nat /\ k \in 1..Len(Q)
    BY LenProperties
  <2>2. /\ Len(Q2) = n
        /\ \A j \in 1..Len(Q) - 1 : Q2[j] = IF j < k THEN Q[j] ELSE Q[j + 1]
    BY RemoveLemma
  <2> HIDE DEF Q2
  <2>3. ASSUME NEW i \in 1..n
        PROVE  Q2[i] = Q[at[i]] /\ at[i] \in 1..Len(Q) /\ at[i] # k
    <3>1. at[i] = IF i < k THEN i ELSE i + 1
      OBVIOUS
    <3> HIDE DEF at
    <3>2. Q2[i] = IF i < k THEN Q[i] ELSE Q[i + 1]
      BY <2>2
    <3> QED
      BY <2>1, <3>1, <3>2
  <2> QED
    BY <2>1, <2>2, <2>3
<1>0. Len(Q2) = n
  BY <1>1
<1>4. \A i, j \in 1..n : i < j => at[i] < at[j]
  BY <1>1
<1>2. ASSUME NEW h \in 1..Len(Q), h # k
      PROVE  /\ to[h] \in 1..n /\ Q2[to[h]] = Q[h]
             /\ \A i \in 1..n : /\ at[i] <= h => i <= to[h]
                                /\ h < at[i] => to[h] < i
  <2>0. h \in Int /\ Len(Q) \in Nat /\ k \in Int /\ n \in Nat
    BY <1>1, LenProperties
  <2>1. to[h] = IF h < k THEN h ELSE h - 1
    OBVIOUS
  <2>2. to[h] \in 1..n
    BY <1>1, <1>2, <2>0, <2>1
  <2>3. at[to[h]] = h
    <3>1. at[to[h]] = IF to[h] < k THEN to[h] ELSE to[h] + 1
      BY <2>2
    <3> QED
      BY <1>1, <1>2, <2>0, <2>1, <2>2, <3>1
  <2>4. ASSUME NEW i \in 1..n
        PROVE  /\ at[i] <= h => i <= to[h]
               /\ h < at[i] => to[h] < i
    <3>1. at[i] = IF i < k THEN i ELSE i + 1
      OBVIOUS
    <3> QED
      BY <1>1, <1>2, <2>0, <2>1, <2>2, <3>1
  <2>5. Q2[to[h]] = Q[h]
    BY <1>1, <2>2, <2>3
  <2> QED
    BY <2>2, <2>4, <2>5
<1> HIDE DEF Q2, n, at, to
<1>5. Marked(Q2, H)
  BY <1>1 DEF Channel, Marked
<1>6. Rising(Q2, H)
  <2> SUFFICES ASSUME NEW i \in 1..n, NEW j \in 1..n, i < j,
                      IsData(Q2[i], H), IsData(Q2[j], H),
                      Owner(Q2[i]) = Owner(Q2[j])
               PROVE  Place(Q2[i]) < Place(Q2[j])
    BY <1>0 DEF Rising
  <2>1. at[i] < at[j]
    BY <1>4
  <2> QED
    BY <1>1, <2>1 DEF Channel, Rising
<1>8. Sent(Q2, H, S) /\ Awaited(Q2, H, R)
  BY <1>1, ZenonT(30) DEF Channel, Sent, Awaited
<1>9. Positions(S, O, R)
  BY DEF Channel
<1>10. CASE Q[k] \in H
  <2>1. \A i \in 1..n : Q2[i] \notin H
    BY <1>1, <1>10
  <2>2. Follows(Q2, H) /\ Leads(Q2, H, R) /\ Ends(Q2, H, O) /\ Meets(Q2, H, O, R)
    BY <1>1, <1>10, <2>1 DEF Follows, Leads, Ends, Meets
  <2> QED
    BY <1>5, <1>6, <1>8, <1>9, <2>2 DEF Channel, Q2
<1>11. CASE Q[k] \notin H
  <2>1. Follows(Q2, H)
    <3> SUFFICES ASSUME NEW i \in 1..n, NEW j \in 1..n, i < j,
                        Q2[i] \in H, IsPart(Q2[j])
                 PROVE  \E h \in 1..n : /\ i <= h /\ h < j /\ Q2[h] \in H
                                        /\ Owner(Q2[h]) = Owner(Q2[j])
      BY <1>0 DEF Follows
    <3>1. PICK h \in 1..Len(Q) : /\ at[i] <= h /\ h < at[j] /\ Q[h] \in H
                                 /\ Owner(Q[h]) = Owner(Q[at[j]])
      <4>1. /\ at[i] \in 1..Len(Q) /\ at[j] \in 1..Len(Q) /\ at[i] < at[j]
            /\ Q[at[i]] \in H /\ IsPart(Q[at[j]])
        BY <1>1, <1>4
      <4> QED
        BY <4>1 DEF Channel, Follows
    <3>2. h # k
      BY <1>11, <3>1
    <3> QED
      BY <1>1, <1>2, <3>1, <3>2
  <2>2. Leads(Q2, H, R)
    <3> SUFFICES ASSUME NEW r \in R, NEW j \in 1..n, IsPart(Q2[j]),
                        Owner(Q2[j]) # r[1]
                 PROVE  \E h \in 1..n : h < j /\ Q2[h] \in H
      BY <1>1 DEF Leads
    <3>1. PICK h \in 1..Len(Q) : h < at[j] /\ Q[h] \in H
      BY <1>1 DEF Channel, Leads
    <3>2. h # k
      BY <1>11, <3>1
    <3> QED
      BY <1>1, <1>2, <3>1, <3>2
  <2>3. Ends(Q2, H, O)
    <3> SUFFICES ASSUME NEW s \in O, NEW i \in 1..n, Q2[i] \in H
                 PROVE  \E h \in 1..n : /\ i <= h /\ Q2[h] \in H
                                        /\ Owner(Q2[h]) = s[1]
      BY <1>1 DEF Ends
    <3>1. PICK h \in 1..Len(Q) : at[i] <= h /\ Q[h] \in H /\ Owner(Q[h]) = s[1]
      BY <1>1 DEF Channel, Ends
    <3>2. h # k
      BY <1>11, <3>1
    <3> QED
      BY <1>1, <1>2, <3>1, <3>2
  <2>4. Meets(Q2, H, O, R)
    <3> SUFFICES ASSUME NEW s \in O, NEW r \in R, r[1] # s[1]
                 PROVE  \E h \in 1..n : Q2[h] \in H
      BY <1>1 DEF Meets
    <3>1. PICK h \in 1..Len(Q) : Q[h] \in H
      BY DEF Channel, Meets
    <3>2. h # k
      BY <1>11, <3>1
    <3> QED
      BY <1>1, <1>2, <3>1, <3>2
  <2> QED
    BY <1>5, <1>6, <1>8, <1>9, <2>1, <2>2, <2>3, <2>4 DEF Channel, Q2
<1> QED
  BY <1>10, <1>11

-----------------------------------------------------------------------------
(* What the frames carry.                                                  *)

\* A message names itself in each byte, and the bytes their places.
Whole(w) ==
    /\ w \in Seq(Bytes) /\ Len(w) > 0
    /\ \A i \in 1..Len(w) : w[i][2] = w[1][2] /\ w[i][3] = i
Wholes(W) ==
    /\ \A w \in W : Whole(w)
    /\ \A v, w \in W : v[1][2] = w[1][2] => v = w

\* The sequence number s of part q.
Numbers(q, s) ==
    /\ s \in 0..SeqModulus - 1
    /\ \E d \in Nat : q + 1 = SeqModulus * d + s
InStep(m, s) == \E q \in Nat : m = Offset(q) /\ Numbers(q, s)

\* p is the beginning of w.
Begins(p, w) ==
    Len(p) <= Len(w) /\ \A i \in 1..Len(p) : p[i] = w[i]

\* The frames of a message.
HeadOf(f, w) ==
    /\ f.n = Len(w) /\ f.data # <<>> /\ f.data[1] = w[1]
    /\ f.pci = "SF" => Chunk(f.data, 0, f.n) = w
    /\ f.pci = "FF" => /\ Len(w) > SFMaxLen
                       /\ Len(f.data) = FFFirst /\ Begins(f.data, w)
PartOf(f, w) ==
    /\ f.id = "ecu"
    /\ \E q \in Nat :
        /\ Offset(q) < Len(w) /\ Numbers(q, f.n)
        /\ \A j \in 1..Least(CFPayload, Len(w) - Offset(q)) :
             j <= Len(f.data) /\ f.data[j] = w[Offset(q) + j]

\* The frames of a queue are of the messages in W.
Contents(Q, H, W) ==
    \A i \in 1..Len(Q) :
        /\ Q[i] \in H => \E w \in W : HeadOf(Q[i], w)
        /\ IsPart(Q[i]) => \E w \in W : PartOf(Q[i], w)

\* A receiver has collected the beginning of a message, which continues with
\* the sequence number s and at place m + 1; or it is behind, too far ever to
\* believe that the message is complete, since what lies before m is gone.
Collected(W, msg, tot, s, m) ==
    \E w \in W :
        /\ msg # <<>> /\ msg[1] = w[1] /\ tot = Len(w) /\ Len(msg) < tot
        /\ \/ m = Len(msg) /\ InStep(m, s) /\ Begins(msg, w)
           \/ m = Len(msg) + CFPayload

LEMMA NumbersStart == Numbers(0, 1)
<1>1. 1 \in 0..SeqModulus - 1 /\ 0 + 1 = SeqModulus * 0 + 1
  BY Sizes
<1> QED
  BY <1>1 DEF Numbers

LEMMA NumbersStep ==
    ASSUME NEW q \in Nat, NEW s, Numbers(q, s)
    PROVE  Numbers(q + 1, NextSeq(s))
<1>1. SeqModulus \in Nat /\ 1 < SeqModulus /\ s \in 0..SeqModulus - 1
  BY Sizes DEF Numbers
<1>2. PICK d \in Nat : q + 1 = SeqModulus * d + s
  BY DEF Numbers
<1>3. CASE s + 1 < SeqModulus
  <2>1. NextSeq(s) = s + 1
    BY <1>1, <1>3, ModLemma DEF NextSeq
  <2>2. (q + 1) + 1 = SeqModulus * d + (s + 1)
    <3>1. SeqModulus * d \in Nat
      BY <1>1
    <3> QED
      BY <1>1, <1>2, <3>1
  <2> QED
    BY <1>1, <1>3, <2>1, <2>2 DEF Numbers
<1>4. CASE ~(s + 1 < SeqModulus)
  <2>1. NextSeq(s) = 0 /\ s + 1 = SeqModulus
    BY <1>1, <1>4, ModLemma DEF NextSeq
  <2>2. (q + 1) + 1 = SeqModulus * (d + 1) + 0
    <3>1. SeqModulus * d \in Nat /\ SeqModulus * (d + 1) = SeqModulus * d + SeqModulus
      BY <1>1
    <3> QED
      BY <1>1, <1>2, <2>1, <3>1
  <2>3. 0 \in 0..SeqModulus - 1 /\ d + 1 \in Nat
    BY <1>1
  <2> QED
    BY <2>1, <2>2, <2>3 DEF Numbers
<1> QED
  BY <1>3, <1>4

\* Parts that the sequence number does not tell apart are far apart.
LEMMA NumbersGap ==
    ASSUME NEW p \in Nat, NEW q \in Nat, p < q, NEW s, Numbers(p, s), Numbers(q, s)
    PROVE  p + SeqModulus <= q
<1>1. SeqModulus \in Nat /\ 1 < SeqModulus /\ s \in 0..SeqModulus - 1
  BY Sizes DEF Numbers
<1>2. PICK d \in Nat : p + 1 = SeqModulus * d + s
  BY DEF Numbers
<1>3. PICK e \in Nat : q + 1 = SeqModulus * e + s
  BY DEF Numbers
<1>4. SeqModulus * d \in Nat /\ SeqModulus * e \in Nat
  BY <1>1
<1>5. SeqModulus * d < SeqModulus * e
  BY <1>1, <1>2, <1>3, <1>4
<1>6. d < e
  BY <1>1, <1>5
<1> DEFINE c == e - d - 1
<1>7. c \in Nat /\ e = d + 1 + c
  BY <1>6
<1> HIDE DEF c
<1>8. SeqModulus * e = SeqModulus * d + SeqModulus + SeqModulus * c
  BY <1>1, <1>7
<1>9. SeqModulus * c \in Nat
  BY <1>1, <1>7
<1> QED
  BY <1>1, <1>2, <1>3, <1>4, <1>8, <1>9

LEMMA OffsetOrder ==
    ASSUME NEW p \in Nat, NEW q \in Nat
    PROVE  /\ Offset(p) = Offset(q) => p = q
           /\ Offset(p) < Offset(q) => p < q
<1>1. /\ Offset(p) \in Nat /\ Offset(q) \in Nat
      /\ p < q => Offset(p) + CFPayload <= Offset(q)
      /\ q < p => Offset(q) + CFPayload <= Offset(p)
  BY OffsetLemma
<1>2. p < q \/ q < p \/ p = q
  OBVIOUS
<1>3. CFPayload \in Nat /\ 0 < CFPayload
  BY Sizes
<1> QED
  BY <1>1, <1>2, <1>3

LEMMA HeadLemma ==
    ASSUME NEW f, NEW w, Whole(w), HeadOf(f, w)
    PROVE  Owner(f) = w[1][2] /\ Place(f) = 1
<1>1. 1 \in 1..Len(w)
  BY LenProperties DEF Whole
<1> QED
  BY <1>1 DEF Whole, HeadOf, Owner, Place

LEMMA PartLemma ==
    ASSUME NEW f \in Frames, NEW w, Whole(w), PartOf(f, w)
    PROVE  \E q \in Nat :
             /\ Owner(f) = w[1][2] /\ Place(f) = Offset(q) + 1
             /\ Offset(q) \in Nat /\ Offset(q) < Len(w) /\ Numbers(q, f.n)
             /\ \A j \in 1..Least(CFPayload, Len(w) - Offset(q)) :
                  j <= Len(f.data) /\ f.data[j] = w[Offset(q) + j]
<1>1. PICK q \in Nat :
        /\ Offset(q) < Len(w) /\ Numbers(q, f.n)
        /\ \A j \in 1..Least(CFPayload, Len(w) - Offset(q)) :
             j <= Len(f.data) /\ f.data[j] = w[Offset(q) + j]
  BY DEF PartOf
<1>2. Offset(q) \in Nat /\ Len(w) \in Nat /\ CFPayload \in Nat /\ 0 < CFPayload
  <2>1. Offset(q) \in Nat
    BY OffsetLemma
  <2>2. Len(w) \in Nat
    BY LenProperties DEF Whole
  <2> QED
    BY <2>1, <2>2, Sizes
<1>3. 1 \in 1..Least(CFPayload, Len(w) - Offset(q))
  BY <1>1, <1>2 DEF Least
<1>4. f.data[1] = w[Offset(q) + 1] /\ Offset(q) + 1 \in 1..Len(w)
  BY <1>1, <1>2, <1>3
<1>5. Owner(f) = w[1][2] /\ Place(f) = Offset(q) + 1
  BY <1>4 DEF Whole, Owner, Place
<1> QED
  BY <1>1, <1>2, <1>5

\* It may take frame f, and has then collected msg2.
Takes(W, msg, tot, s, m, f) ==
    /\ Wholes(W) /\ msg \in Seq(Bytes) /\ m \in Nat /\ f \in Frames
    /\ Collected(W, msg, tot, s, m)
    /\ \E v \in W : PartOf(f, v)
    /\ Owner(f) = msg[1][2] /\ f.n = s /\ m < Place(f)
Continues(W, msg, tot, s, m, f, msg2) ==
    /\ msg2 \in Seq(Bytes) /\ msg2 # <<>> /\ msg2[1] = msg[1]
    /\ \/ Len(msg2) = tot /\ msg2 \in W
       \/ /\ Len(msg2) < tot
          /\ \E m2 \in Nat :
               /\ Collected(W, msg2, tot, NextSeq(s), m2)
               /\ m2 < Place(f) + CFPayload
               /\ \/ /\ m = Len(msg) /\ m2 = Len(msg2)
                     /\ Place(f) = m + 1 /\ m2 = m + CFPayload
                  \/ m2 # Len(msg2) /\ m # Len(msg)
                  \/ /\ m2 # Len(msg2) /\ m = Len(msg)
                     /\ \E p, q \in Nat :
                          /\ m = Offset(p) /\ Place(f) = Offset(q) + 1
                          /\ p + SeqModulus <= q

\* A receiver takes the next part of what it collects, if the sequence number
\* is the one it waits for.
LEMMA Collects ==
    ASSUME NEW W, NEW msg, NEW tot, NEW s, NEW m, NEW f,
           Takes(W, msg, tot, s, m, f),
           NEW msg2,
           msg2 = msg \o Chunk(f.data, 0, Least(CFPayload, tot - Len(msg)))
    PROVE  Continues(W, msg, tot, s, m, f, msg2)
<1> SUFFICES ASSUME Wholes(W), msg \in Seq(Bytes), m \in Nat, f \in Frames,
                    Collected(W, msg, tot, s, m),
                    NEW v \in W, PartOf(f, v),
                    Owner(f) = msg[1][2], f.n = s, m < Place(f)
             PROVE  Continues(W, msg, tot, s, m, f, msg2)
  BY DEF Takes
<1> DEFINE L == Len(msg)
           n == Least(CFPayload, tot - L)
           c == Chunk(f.data, 0, n)
<1>1. PICK w \in W :
        /\ msg # <<>> /\ msg[1] = w[1] /\ tot = Len(w) /\ L < tot
        /\ \/ m = L /\ InStep(m, s) /\ Begins(msg, w)
           \/ m = L + CFPayload
  BY DEF Collected
<1>2. Whole(v) /\ Whole(w)
  BY DEF Wholes
<1>3. PICK q \in Nat :
        /\ Owner(f) = v[1][2] /\ Place(f) = Offset(q) + 1
        /\ Offset(q) \in Nat /\ Offset(q) < Len(v) /\ Numbers(q, f.n)
        /\ \A j \in 1..Least(CFPayload, Len(v) - Offset(q)) :
             j <= Len(f.data) /\ f.data[j] = v[Offset(q) + j]
  BY <1>2, PartLemma
<1>4. v = w
  BY <1>1, <1>3 DEF Wholes
<1>5. /\ L \in Nat /\ 1 \in 1..L /\ tot \in Nat /\ CFPayload \in Nat /\ 0 < CFPayload
      /\ w \in Seq(Bytes)
  <2> HIDE DEF n, c
  <2>1. L \in Nat /\ L # 0
    BY <1>1, EmptySeq, LenProperties
  <2>2. w \in Seq(Bytes) /\ tot \in Nat
    BY <1>1, <1>2, LenProperties DEF Whole
  <2> QED
    <3>1. 1 \in 1..L
      BY <2>1
    <3>2. CFPayload \in Nat /\ 0 < CFPayload
      BY Sizes
    <3> QED
      BY <2>1, <2>2, <3>1, <3>2
<1>6. n \in Nat /\ 0 < n /\ n <= CFPayload /\ n <= tot - L
      /\ (n = CFPayload \/ n = tot - L)
  BY <1>1, <1>5 DEF Least
<1>7. f.data \in Seq(Bytes)
  BY DEF Frames
<1>8. /\ c \in Seq(Bytes) /\ Len(c) \in Nat /\ Len(c) <= n
      /\ n <= Len(f.data) => Len(c) = n
      /\ \A i \in 1..Len(c) : c[i] = f.data[i]
  <2>1. /\ c \in Seq(Bytes)
        /\ Len(c) = IF 0 < Least(0 + n, Len(f.data))
                    THEN Least(0 + n, Len(f.data)) - 0 ELSE 0
        /\ \A i \in 1..Len(c) : c[i] = f.data[0 + i]
    <3> HIDE DEF n
    <3> QED
      BY <1>6, <1>7, ChunkLemma
  <2>2. Len(f.data) \in Nat
    BY <1>7, LenProperties
  <2> HIDE DEF c, n
  <2>3. Len(c) \in Nat /\ Len(c) <= n /\ (n <= Len(f.data) => Len(c) = n)
    BY <1>6, <2>1, <2>2 DEF Least
  <2>4. \A i \in 1..Len(c) : 0 + i = i
    BY <2>3
  <2> QED
    BY <2>1, <2>3, <2>4
<1>9. msg2 = msg \o c
  OBVIOUS
<1> HIDE DEF c, n
<1>10. /\ msg2 \in Seq(Bytes) /\ Len(msg2) = L + Len(c)
       /\ \A i \in 1..L + Len(c) :
            msg2[i] = IF i <= L THEN msg[i] ELSE c[i - L]
  <2>1. /\ msg \o c \in Seq(Bytes) /\ Len(msg \o c) = Len(msg) + Len(c)
        /\ \A i \in 1..Len(msg) + Len(c) :
             (msg \o c)[i] = IF i <= Len(msg) THEN msg[i] ELSE c[i - Len(msg)]
    BY <1>8, ConcatProperties
  <2> QED
    BY <1>9, <2>1
<1> HIDE DEF L
<1>17. L = Len(msg)
  BY DEF L
<1>11. msg2 # <<>> /\ msg2[1] = msg[1]
  <2>1. Len(msg2) # 0 /\ 1 \in 1..L + Len(c) /\ 1 <= L
    BY <1>5, <1>8, <1>10
  <2> QED
    BY <1>10, <2>1
<1>12. m <= Offset(q)
  BY <1>3
<1>13. CASE L + CFPayload <= Offset(q) /\ m <= L + CFPayload
  <2> DEFINE m2 == Len(msg2) + CFPayload
  <2>1. Len(msg2) < tot /\ m2 \in Nat /\ m2 < Place(f) + CFPayload
    <3>1. Len(msg2) <= L + CFPayload /\ Len(msg2) \in Nat
      BY <1>5, <1>6, <1>8, <1>10
    <3>2. Offset(q) < tot /\ Offset(q) \in Nat /\ Place(f) = Offset(q) + 1
      BY <1>1, <1>3, <1>4
    <3>3. L \in Nat /\ CFPayload \in Nat /\ tot \in Nat
      BY <1>5
    <3>4. Len(msg2) < tot /\ m2 \in Nat
      BY <1>13, <3>1, <3>2, <3>3
    <3>5. Len(msg2) < Place(f)
      BY <1>13, <3>1, <3>2, <3>3
    <3> QED
      BY <3>1, <3>2, <3>3, <3>4, <3>5
  <2>2. Collected(W, msg2, tot, NextSeq(s), m2)
    BY <1>1, <1>11, <2>1 DEF Collected
  <2>3. m2 # Len(msg2)
    BY <1>5, <1>8, <1>10
  <2>4. m = L => \E p, r \in Nat : /\ m = Offset(p) /\ Place(f) = Offset(r) + 1
                                   /\ p + SeqModulus <= r
    <3> SUFFICES ASSUME m = L
                 PROVE  \E p, r \in Nat : /\ m = Offset(p)
                                          /\ Place(f) = Offset(r) + 1
                                          /\ p + SeqModulus <= r
      OBVIOUS
    <3>1. InStep(m, s)
      BY <1>1, <1>5
    <3>2. PICK p \in Nat : m = Offset(p) /\ Numbers(p, s)
      BY <3>1 DEF InStep
    <3>3. p < q
      <4>1. Offset(p) < Offset(q)
        BY <1>3, <1>5, <1>13, <3>2
      <4> QED
        BY <4>1, OffsetOrder
    <3>4. p + SeqModulus <= q
      BY <1>3, <3>2, <3>3, NumbersGap
    <3> QED
      BY <1>3, <3>2, <3>4
  <2> HIDE DEF m2
  <2> QED
    BY <1>17, <1>10, <1>11, <2>1, <2>2, <2>3, <2>4 DEF Continues
<1>14. CASE m = L /\ m = Offset(q) /\ InStep(m, s) /\ Begins(msg, w)
  <2>1. n = Least(CFPayload, Len(v) - Offset(q))
    BY <1>1, <1>4, <1>14 DEF n
  <2>2. n <= Len(f.data)
    <3>1. n \in 1..n
      BY <1>6
    <3> QED
      BY <1>3, <2>1, <3>1
  <2>3. Len(c) = n /\ \A i \in 1..n : c[i] = w[L + i]
    BY <1>3, <1>4, <1>8, <1>14, <2>1, <2>2
  <2>4. Len(msg2) = L + n /\ Begins(msg2, w)
    <3>1. Len(msg2) = L + n /\ L + n <= Len(w)
      BY <1>1, <1>5, <1>6, <1>10, <2>3
    <3>2. ASSUME NEW i \in 1..L + n
          PROVE  msg2[i] = w[i]
      <4>1. CASE i <= L
        <5>1. i \in 1..L /\ msg2[i] = msg[i]
          BY <1>10, <2>3, <4>1
        <5> QED
          BY <1>17, <1>14, <5>1 DEF Begins
      <4>2. CASE ~(i <= L)
        <5>1. i - L \in 1..n /\ L + (i - L) = i /\ msg2[i] = c[i - L]
          BY <1>5, <1>6, <1>10, <2>3, <4>2
        <5> QED
          BY <2>3, <5>1
      <4> QED
        BY <4>1, <4>2
    <3> QED
      BY <3>1, <3>2 DEF Begins
  <2>5. CASE n = tot - L
    <3>1. Len(msg2) = tot
      BY <1>5, <2>4, <2>5
    <3>2. msg2 = w
      BY <1>1, <1>5, <1>10, <2>4, <3>1, SeqEqual DEF Begins
    <3> QED
      BY <1>10, <1>11, <3>1, <3>2 DEF Continues
  <2>6. CASE n # tot - L
    <3> DEFINE m2 == m + CFPayload
    <3>1. n = CFPayload /\ Len(msg2) = m2 /\ Len(msg2) < tot /\ m2 \in Nat
      BY <1>1, <1>5, <1>6, <1>14, <2>4, <2>6
    <3>2. m2 = Offset(q + 1) /\ q + 1 \in Nat
      BY <1>14, OffsetLemma
    <3>3. InStep(m2, NextSeq(s))
      <4>1. Numbers(q + 1, NextSeq(s))
        BY <1>3, NumbersStep
      <4> QED
        BY <3>2, <4>1 DEF InStep
    <3>4. Collected(W, msg2, tot, NextSeq(s), m2)
      BY <1>1, <1>11, <2>4, <3>1, <3>3 DEF Collected
    <3>5. Place(f) = m + 1 /\ m2 < Place(f) + CFPayload
      BY <1>3, <1>5, <1>14
    <3> HIDE DEF m2
    <3>6. m2 = m + CFPayload
      BY DEF m2
    <3> QED
      BY <1>17, <1>10, <1>11, <1>14, <3>1, <3>4, <3>5, <3>6 DEF Continues
  <2> QED
    BY <2>5, <2>6
<1>15. CASE m = L /\ m # Offset(q) /\ InStep(m, s)
  <2>1. PICK p \in Nat : m = Offset(p)
    BY <1>15 DEF InStep
  <2>2. p < q
    BY <1>3, <1>12, <1>15, <2>1, OffsetOrder
  <2>3. Offset(p) + CFPayload <= Offset(q)
    BY <2>2, OffsetLemma
  <2>4. L + CFPayload <= Offset(q) /\ m <= L + CFPayload
    BY <1>5, <1>15, <2>1, <2>3
  <2> QED
    BY <1>13, <2>4
<1>16. CASE m = L + CFPayload
  <2>1. L + CFPayload <= Offset(q) /\ m <= L + CFPayload
    BY <1>12, <1>16
  <2> QED
    BY <1>13, <2>1
<1> QED
  BY <1>1, <1>14, <1>15, <1>16

LEMMA ContentsKept ==
    ASSUME NEW Q, NEW H, NEW W, Contents(Q, H, W), NEW Q2,
           \A i \in 1..Len(Q2) : \E j \in 1..Len(Q) : Q2[i] = Q[j],
           NEW W2, W \subseteq W2
    PROVE  Contents(Q2, H, W2)
<1> SUFFICES ASSUME NEW i \in 1..Len(Q2)
             PROVE  /\ Q2[i] \in H => \E w \in W2 : HeadOf(Q2[i], w)
                    /\ IsPart(Q2[i]) => \E w \in W2 : PartOf(Q2[i], w)
  BY DEF Contents
<1>1. PICK j \in 1..Len(Q) : Q2[i] = Q[j]
  OBVIOUS
<1>2. /\ Q[j] \in H => \E w \in W : HeadOf(Q[j], w)
      /\ IsPart(Q[j]) => \E w \in W : PartOf(Q[j], w)
  BY DEF Contents
<1> QED
  BY <1>1, <1>2

LEMMA ContentsSent ==
    ASSUME NEW Q \in Seq(Frames), NEW f \in Frames, NEW H, NEW W,
           Contents(Q, H, W), NEW W2, W \subseteq W2,
           f \in H => \E w \in W2 : HeadOf(f, w),
           IsPart(f) => \E w \in W2 : PartOf(f, w)
    PROVE  Contents(Append(Q, f), H, W2)
<1> DEFINE Q2 == Append(Q, f)
<1>1. /\ Len(Q) \in Nat /\ Len(Q2) = Len(Q) + 1
      /\ \A i \in 1..Len(Q) : Q2[i] = Q[i]
      /\ Q2[Len(Q) + 1] = f
  BY AppendLemma, LenProperties
<1> HIDE DEF Q2
<1>2. SUFFICES ASSUME NEW i \in 1..Len(Q2)
               PROVE  /\ Q2[i] \in H => \E w \in W2 : HeadOf(Q2[i], w)
                      /\ IsPart(Q2[i]) => \E w \in W2 : PartOf(Q2[i], w)
  BY DEF Contents, Q2
<1>3. CASE i \in 1..Len(Q)
  <2>1. /\ Q[i] \in H => \E w \in W : HeadOf(Q[i], w)
        /\ IsPart(Q[i]) => \E w \in W : PartOf(Q[i], w)
    BY <1>3 DEF Contents
  <2>2. Q2[i] = Q[i]
    BY <1>1, <1>3
  <2> QED
    BY <2>1, <2>2
<1>4. CASE i \notin 1..Len(Q)
  <2>1. Q2[i] = f
    BY <1>1, <1>4
  <2> QED
    BY <2>1
<1> QED
  BY <1>3, <1>4

-----------------------------------------------------------------------------
(* Parts that are missing.  A part that should be in a queue, since it was  *)
(* sent or a later one is there, and is not, was lost.                      *)

PartAt(Q, k, p) ==
    \E i \in 1..Len(Q) : IsPart(Q[i]) /\ Owner(Q[i]) = k /\ Place(Q[i]) = p + 1

\* The parts of message k, from place m on, that are missing in Q.
Missing(Q, S, k, m) ==
    {q \in Nat :
        /\ m <= Offset(q) /\ ~PartAt(Q, k, Offset(q))
        /\ \/ \E s \in S : s[1] = k /\ Offset(q) < s[2]
           \/ \E r \in Nat : PartAt(Q, k, Offset(r)) /\ q < r}
Accounted(Q, S, k, m, l) ==
    /\ IsFiniteSet(Missing(Q, S, k, m))
    /\ Cardinality(Missing(Q, S, k, m)) <= l

\* All parts of the messages whose heads are in Q are accounted for.
Announced(Q, H, S, l) ==
    \A i \in 1..Len(Q) : Q[i] \in H => Accounted(Q, S, Owner(Q[i]), 0, l)

LEMMA AccountedLess ==
    ASSUME NEW Q, NEW S, NEW k, NEW m, NEW l \in Nat, Accounted(Q, S, k, m, l),
           NEW Q2, NEW S2, NEW k2, NEW m2, NEW l2 \in Nat, l <= l2,
           Missing(Q2, S2, k2, m2) \subseteq Missing(Q, S, k, m)
    PROVE  Accounted(Q2, S2, k2, m2, l2)
<1> DEFINE A == Missing(Q, S, k, m)
           B == Missing(Q2, S2, k2, m2)
<1>1. IsFiniteSet(A) /\ Cardinality(A) <= l /\ B \in SUBSET A
  BY DEF Accounted
<1> HIDE DEF A, B
<1>2. IsFiniteSet(B) /\ Cardinality(B) <= Cardinality(A)
  BY <1>1, FS_Subset
<1>3. Cardinality(A) \in Nat /\ Cardinality(B) \in Nat
  BY <1>1, <1>2, FS_CardinalityType
<1>4. Cardinality(B) <= l2
  BY <1>1, <1>2, <1>3
<1> QED
  BY <1>2, <1>4 DEF Accounted, B

\* The receiver takes a frame, and a part only if it goes on behind it.
LEMMA AccountedTail ==
    ASSUME NEW Q \in Seq(Frames), Q # <<>>, NEW S, NEW k, NEW m \in Nat,
           NEW l \in Nat, Accounted(Q, S, k, m, l), NEW m2 \in Nat, m <= m2,
           \A n \in Nat :
               IsPart(Q[1]) /\ Owner(Q[1]) = k /\ Place(Q[1]) = n + 1 => n < m2
    PROVE  Accounted(Tail(Q), S, k, m2, l)
<1> DEFINE Q2 == Tail(Q)
<1>1. /\ \A i \in 1..Len(Q2) : Q2[i] = Q[i + 1] /\ i + 1 \in 1..Len(Q)
      /\ \A i \in 1..Len(Q) : i = 1 \/ (i - 1 \in 1..Len(Q2) /\ (i - 1) + 1 = i)
  BY TailLemma
<1> HIDE DEF Q2
<1>2. ASSUME NEW p, PartAt(Q2, k, p)
      PROVE  PartAt(Q, k, p)
  BY <1>1, <1>2 DEF PartAt
<1>3. ASSUME NEW p \in Nat, m2 <= p, PartAt(Q, k, p)
      PROVE  PartAt(Q2, k, p)
  <2>1. PICK i \in 1..Len(Q) :
          IsPart(Q[i]) /\ Owner(Q[i]) = k /\ Place(Q[i]) = p + 1
    BY <1>3 DEF PartAt
  <2>2. i # 1
    BY <1>3, <2>1
  <2>3. i - 1 \in 1..Len(Q2) /\ Q2[i - 1] = Q[i]
    BY <1>1, <2>2
  <2> QED
    BY <2>1, <2>3 DEF PartAt
<1>4. Missing(Q2, S, k, m2) \subseteq Missing(Q, S, k, m)
  <2> SUFFICES ASSUME NEW q \in Nat, m2 <= Offset(q),
                      ~PartAt(Q2, k, Offset(q)),
                      \/ \E s \in S : s[1] = k /\ Offset(q) < s[2]
                      \/ \E r \in Nat : PartAt(Q2, k, Offset(r)) /\ q < r
               PROVE  q \in Missing(Q, S, k, m)
    BY DEF Missing
  <2>1. Offset(q) \in Nat
    BY OffsetLemma
  <2>2. m <= Offset(q) /\ ~PartAt(Q, k, Offset(q))
    BY <1>3, <2>1
  <2>3. \/ \E s \in S : s[1] = k /\ Offset(q) < s[2]
        \/ \E r \in Nat : PartAt(Q, k, Offset(r)) /\ q < r
    BY <1>2
  <2> QED
    BY <2>2, <2>3 DEF Missing
<1> QED
  BY <1>4, AccountedLess DEF Q2

\* The sender stops, or sends a frame that is no part.
LEMMA AccountedStops ==
    ASSUME NEW Q, NEW S, NEW k, NEW m \in Nat, NEW l \in Nat,
           Accounted(Q, S, k, m, l), NEW S2 \in SUBSET S
    PROVE  Accounted(Q, S2, k, m, l)
<1>1. Missing(Q, S2, k, m) \subseteq Missing(Q, S, k, m)
  BY DEF Missing
<1> QED
  BY <1>1, AccountedLess

LEMMA AccountedOther ==
    ASSUME NEW Q \in Seq(Frames), NEW S, NEW k, NEW m \in Nat, NEW l \in Nat,
           Accounted(Q, S, k, m, l), NEW f \in Frames, ~IsPart(f),
           NEW S2, \A s \in S2 : s \in S \/ s[2] = FFFirst
    PROVE  Accounted(Append(Q, f), S2, k, m, l)
<1> DEFINE Q2 == Append(Q, f)
<1>1. /\ \A i \in 1..Len(Q) : Q2[i] = Q[i] /\ i \in 1..Len(Q2)
      /\ \A i \in 1..Len(Q2) : i \in 1..Len(Q) \/ Q2[i] = f
  BY AppendLemma, LenProperties
<1> HIDE DEF Q2
<1>2. \A p : PartAt(Q2, k, p) <=> PartAt(Q, k, p)
  BY <1>1 DEF PartAt
<1>3. Missing(Q2, S2, k, m) \subseteq Missing(Q, S, k, m)
  <2> SUFFICES ASSUME NEW q \in Nat, m <= Offset(q),
                      ~PartAt(Q2, k, Offset(q)),
                      \/ \E s \in S2 : s[1] = k /\ Offset(q) < s[2]
                      \/ \E r \in Nat : PartAt(Q2, k, Offset(r)) /\ q < r
               PROVE  q \in Missing(Q, S, k, m)
    BY DEF Missing
  <2>1. FFFirst <= Offset(q) /\ Offset(q) \in Nat /\ FFFirst \in Nat
    BY OffsetLemma, Sizes
  <2>2. \A s \in S2 : Offset(q) < s[2] => s \in S
    BY <2>1
  <2>3. \/ \E s \in S : s[1] = k /\ Offset(q) < s[2]
        \/ \E r \in Nat : PartAt(Q, k, Offset(r)) /\ q < r
    BY <1>2, <2>2
  <2> QED
    BY <1>2, <2>3 DEF Missing
<1> QED
  BY <1>3, AccountedLess DEF Q2

\* The next part is sent.
LEMMA AccountedPart ==
    ASSUME NEW Q \in Seq(Frames), NEW S, NEW k, NEW m \in Nat, NEW l \in Nat,
           Accounted(Q, S, k, m, l), NEW f \in Frames, IsPart(f),
           NEW r \in Nat, Place(f) = Offset(r) + 1, <<Owner(f), Offset(r)>> \in S,
           NEW S2, \A s \in S2 : s[1] = Owner(f) /\ s[2] = Offset(r + 1)
    PROVE  Accounted(Append(Q, f), S2, k, m, l)
<1> DEFINE Q2 == Append(Q, f)
           s0 == <<Owner(f), Offset(r)>>
<1>1. /\ \A i \in 1..Len(Q) : Q2[i] = Q[i] /\ i \in 1..Len(Q2)
      /\ \A i \in 1..Len(Q2) : i \in 1..Len(Q) \/ Q2[i] = f
      /\ Q2[Len(Q) + 1] = f /\ Len(Q) + 1 \in 1..Len(Q2)
  BY AppendLemma, LenProperties
<1>2. s0 \in S /\ s0[1] = Owner(f) /\ s0[2] = Offset(r)
  OBVIOUS
<1> HIDE DEF Q2, s0
<1>3. \A p : PartAt(Q, k, p) => PartAt(Q2, k, p)
  BY <1>1 DEF PartAt
<1>4. k = Owner(f) => PartAt(Q2, k, Offset(r))
  BY <1>1 DEF PartAt
<1>5. ASSUME NEW q \in Nat, PartAt(Q2, k, Offset(q)), ~PartAt(Q, k, Offset(q))
      PROVE  k = Owner(f) /\ q = r
  <2>1. PICK i \in 1..Len(Q2) : /\ IsPart(Q2[i]) /\ Owner(Q2[i]) = k
                                /\ Place(Q2[i]) = Offset(q) + 1
    BY <1>5 DEF PartAt
  <2>2. Q2[i] = f
    BY <1>1, <1>5, <2>1 DEF PartAt
  <2>3. Offset(q) = Offset(r)
    <3>1. Offset(q) \in Nat /\ Offset(r) \in Nat
      BY OffsetLemma
    <3>2. Place(f) = Offset(r) + 1
      OBVIOUS
    <3> QED
      BY <2>1, <2>2, <3>1, <3>2
  <2> QED
    BY <2>1, <2>2, <2>3, OffsetOrder
<1>6. Missing(Q2, S2, k, m) \subseteq Missing(Q, S, k, m)
  <2> SUFFICES ASSUME NEW q \in Nat, m <= Offset(q),
                      ~PartAt(Q2, k, Offset(q)),
                      \/ \E s \in S2 : s[1] = k /\ Offset(q) < s[2]
                      \/ \E p \in Nat : PartAt(Q2, k, Offset(p)) /\ q < p
               PROVE  q \in Missing(Q, S, k, m)
    BY DEF Missing
  <2>1. ~PartAt(Q, k, Offset(q))
    BY <1>3
  <2>2. CASE k = Owner(f) /\ q < r
    <3>1. Offset(q) < s0[2]
      <4>1. /\ Offset(q) + CFPayload <= Offset(r)
            /\ Offset(q) \in Nat /\ Offset(r) \in Nat
        BY <2>2, OffsetLemma
      <4> QED
        BY <1>2, <4>1, Sizes
    <3> QED
      BY <1>2, <2>1, <2>2, <3>1 DEF Missing
  <2>3. CASE \E s \in S2 : s[1] = k /\ Offset(q) < s[2]
    <3>1. k = Owner(f) /\ Offset(q) < Offset(r + 1)
      BY <2>3
    <3>2. q < r + 1
      BY <3>1, OffsetOrder
    <3>3. q # r
      BY <1>4, <3>1
    <3> QED
      BY <2>2, <3>1, <3>2, <3>3
  <2>4. CASE \E p \in Nat : PartAt(Q2, k, Offset(p)) /\ q < p
    <3>1. PICK p \in Nat : PartAt(Q2, k, Offset(p)) /\ q < p
      BY <2>4
    <3>2. CASE PartAt(Q, k, Offset(p))
      BY <2>1, <3>1, <3>2 DEF Missing
    <3>3. CASE ~PartAt(Q, k, Offset(p))
      BY <1>5, <2>2, <3>1, <3>3
    <3> QED
      BY <3>2, <3>3
  <2> QED
    BY <2>3, <2>4
<1> QED
  BY <1>6, AccountedLess DEF Q2

\* A message that has just begun misses nothing.
LEMMA AccountedBegins ==
    ASSUME NEW Q, NEW S, NEW k, NEW m \in Nat, NEW l \in Nat,
           \A i \in 1..Len(Q) : IsPart(Q[i]) => Owner(Q[i]) # k,
           \A s \in S : s[1] = k => s[2] = FFFirst
    PROVE  Accounted(Q, S, k, m, l)
<1>1. ASSUME NEW q \in Missing(Q, S, k, m)
      PROVE  FALSE
  <2>1. \A p : ~PartAt(Q, k, p)
    BY DEF PartAt
  <2>2. q \in Nat /\ \E s \in S : s[1] = k /\ Offset(q) < s[2]
    BY <2>1 DEF Missing
  <2>3. FFFirst <= Offset(q) /\ Offset(q) \in Nat /\ FFFirst \in Nat
    BY <2>2, OffsetLemma, Sizes
  <2> QED
    BY <2>2, <2>3
<1>2. Missing(Q, S, k, m) = {}
  BY <1>1
<1> QED
  BY <1>2, FS_EmptySet DEF Accounted

\* A frame is lost.
LEMMA AccountedLoss ==
    ASSUME NEW Q \in Seq(Frames), NEW j \in DOMAIN Q, NEW S, NEW k,
           NEW m \in Nat, NEW l \in Nat, Accounted(Q, S, k, m, l)
    PROVE  Accounted(RemoveAt(Q, j), S, k, m, l + 1)
<1> DEFINE Q2 == RemoveAt(Q, j)
           A == Missing(Q, S, k, m)
           q0 == CHOOSE q \in Nat : Place(Q[j]) = Offset(q) + 1
<1>1. /\ \A i \in 1..Len(Q2) : \E h \in 1..Len(Q) : Q2[i] = Q[h]
      /\ \A h \in 1..Len(Q) : h # j => \E i \in 1..Len(Q2) : Q2[i] = Q[h]
  <2>1. /\ Len(Q2) = Len(Q) - 1 /\ Len(Q) \in Nat /\ j \in 1..Len(Q)
        /\ \A i \in 1..Len(Q) - 1 : Q2[i] = IF i < j THEN Q[i] ELSE Q[i + 1]
    BY RemoveLemma, LenProperties
  <2> HIDE DEF Q2
  <2>2. ASSUME NEW i \in 1..Len(Q2)
        PROVE  \E h \in 1..Len(Q) : Q2[i] = Q[h]
    <3>1. i \in 1..Len(Q) /\ i + 1 \in 1..Len(Q) /\ i \in 1..Len(Q) - 1
      BY <2>1
    <3> QED
      BY <2>1, <3>1
  <2>3. ASSUME NEW h \in 1..Len(Q), h # j
        PROVE  \E i \in 1..Len(Q2) : Q2[i] = Q[h]
    <3>1. CASE h < j
      BY <2>1, <2>3, <3>1
    <3>2. CASE ~(h < j)
      <4>1. h - 1 \in 1..Len(Q2) /\ ~(h - 1 < j) /\ (h - 1) + 1 = h
        BY <2>1, <2>3, <3>2
      <4> QED
        BY <2>1, <4>1
    <3> QED
      BY <3>1, <3>2
  <2> QED
    BY <2>2, <2>3
<1> HIDE DEF Q2, A, q0
<1>2. \A p : PartAt(Q2, k, p) => PartAt(Q, k, p)
  BY <1>1 DEF PartAt
<1>3. ASSUME NEW q \in Nat, PartAt(Q, k, Offset(q)), ~PartAt(Q2, k, Offset(q))
      PROVE  q = q0
  <2>1. PICK h \in 1..Len(Q) : /\ IsPart(Q[h]) /\ Owner(Q[h]) = k
                               /\ Place(Q[h]) = Offset(q) + 1
    BY <1>3 DEF PartAt
  <2>2. h = j
    BY <1>1, <1>3, <2>1 DEF PartAt
  <2>3. q0 \in Nat /\ Place(Q[j]) = Offset(q0) + 1
    <3>1. \E x \in Nat : Place(Q[j]) = Offset(x) + 1
      BY <2>1, <2>2
    <3> QED
      BY <3>1 DEF q0
  <2>4. Offset(q) = Offset(q0)
    <3>1. Offset(q) \in Nat /\ Offset(q0) \in Nat
      BY <2>3, OffsetLemma
    <3>2. Offset(q) + 1 = Offset(q0) + 1
      BY <2>1, <2>2, <2>3
    <3> QED
      BY <3>1, <3>2
  <2> QED
    BY <2>3, <2>4, OffsetOrder
<1>4. Missing(Q2, S, k, m) \subseteq A \cup {q0}
  <2> SUFFICES ASSUME NEW q \in Nat, m <= Offset(q), q # q0,
                      ~PartAt(Q2, k, Offset(q)),
                      \/ \E s \in S : s[1] = k /\ Offset(q) < s[2]
                      \/ \E p \in Nat : PartAt(Q2, k, Offset(p)) /\ q < p
               PROVE  q \in A
    BY DEF Missing
  <2>1. ~PartAt(Q, k, Offset(q))
    BY <1>3
  <2>2. \/ \E s \in S : s[1] = k /\ Offset(q) < s[2]
        \/ \E p \in Nat : PartAt(Q, k, Offset(p)) /\ q < p
    BY <1>2
  <2> QED
    BY <2>1, <2>2 DEF Missing, A
<1>5. IsFiniteSet(A) /\ Cardinality(A) <= l /\ Cardinality(A) \in Nat
  <2>1. IsFiniteSet(A) /\ Cardinality(A) <= l
    BY DEF Accounted, A
  <2> QED
    BY <2>1, FS_CardinalityType
<1>6. IsFiniteSet(A \cup {q0}) /\ Cardinality(A \cup {q0}) <= l + 1
  <2>1. /\ IsFiniteSet(A \cup {q0})
        /\ Cardinality(A \cup {q0}) = IF q0 \in A THEN Cardinality(A)
                                      ELSE Cardinality(A) + 1
    BY <1>5, FS_AddElement
  <2> QED
    BY <1>5, <2>1
<1> DEFINE B == Missing(Q2, S, k, m)
<1>7. B \in SUBSET (A \cup {q0})
  BY <1>4
<1> HIDE DEF B
<1>8. IsFiniteSet(B) /\ Cardinality(B) <= Cardinality(A \cup {q0})
  BY <1>6, <1>7, FS_Subset
<1>9. Cardinality(B) \in Nat /\ Cardinality(A \cup {q0}) \in Nat
  BY <1>6, <1>8, FS_CardinalityType
<1>10. Cardinality(B) <= l + 1
  BY <1>6, <1>8, <1>9
<1> QED
  BY <1>8, <1>10 DEF Accounted, B, Q2

\* If the next part in the queue is a later one of the same number, more is
\* lost than the numbers tell apart.
LEMMA AccountedGap ==
    ASSUME NEW Q \in Seq(Frames), 1 \in 1..Len(Q), NEW H, Rising(Q, H),
           NEW S, NEW k, NEW m \in Nat, NEW l \in Nat, Accounted(Q, S, k, m, l),
           NEW p \in Nat, NEW q \in Nat, m = Offset(p), p + SeqModulus <= q,
           IsPart(Q[1]), Owner(Q[1]) = k, Place(Q[1]) = Offset(q) + 1
    PROVE  SeqModulus <= l
<1> DEFINE A == Missing(Q, S, k, m)
<1>1. SeqModulus \in Nat /\ 1 < SeqModulus
  BY Sizes
<1>2. p..(q - 1) \subseteq A
  <2> SUFFICES ASSUME NEW r \in p..(q - 1)
               PROVE  r \in A
    OBVIOUS
  <2>1. r \in Nat /\ p <= r /\ r < q
    BY <1>1
  <2>2. m <= Offset(r)
    <3>1. CASE p = r
      BY <3>1
    <3>2. CASE p # r
      <4>1. p < r
        BY <2>1, <3>2
      <4>2. /\ Offset(p) + CFPayload <= Offset(r)
            /\ Offset(p) \in Nat /\ Offset(r) \in Nat
        BY <2>1, <4>1, OffsetLemma
      <4> QED
        BY <4>2, Sizes
    <3> QED
      BY <3>1, <3>2
  <2>3. PartAt(Q, k, Offset(q))
    BY DEF PartAt
  <2>4. ASSUME PartAt(Q, k, Offset(r))
        PROVE  FALSE
    <3>1. PICK i \in 1..Len(Q) : /\ IsPart(Q[i]) /\ Owner(Q[i]) = k
                                 /\ Place(Q[i]) = Offset(r) + 1
      BY <2>4 DEF PartAt
    <3>2. Offset(r) + CFPayload <= Offset(q) /\ Offset(r) \in Nat
          /\ Offset(q) \in Nat
      BY <2>1, OffsetLemma
    <3>3. i # 1
      BY <3>1, <3>2, Sizes
    <3>4. Place(Q[1]) < Place(Q[i])
      BY <3>1, <3>3 DEF Rising, IsData
    <3> QED
      BY <3>1, <3>2, <3>4, Sizes
  <2> QED
    BY <2>1, <2>2, <2>3, <2>4 DEF Missing
<1>3. IsFiniteSet(A) /\ Cardinality(A) <= l
  BY DEF Accounted
<1> HIDE DEF A
<1> DEFINE B == p..(q - 1)
<1>4. IsFiniteSet(B) /\ Cardinality(B) = q - p
  <2> DEFINE b == q - 1
  <2>1. b \in Int /\ p \in Int /\ ~(p > b) /\ b - p + 1 = q - p
    BY <1>1
  <2> HIDE DEF b
  <2>2. IsFiniteSet(p..b) /\ Cardinality(p..b) = b - p + 1
    BY <2>1, FS_Interval
  <2> QED
    BY <2>1, <2>2 DEF b
<1>5. B \in SUBSET A
  BY <1>2
<1> HIDE DEF B
<1>6. Cardinality(B) <= Cardinality(A) /\ Cardinality(A) \in Nat
  BY <1>3, <1>5, FS_Subset, FS_CardinalityType
<1> QED
  BY <1>1, <1>3, <1>4, <1>6

-----------------------------------------------------------------------------
(* The inductive invariant.                                                *)

RequestHeads == {f \in Frames : Opens(f)}
ReplyHeads == {f \in Frames : IsReply(f)}

\* The requests that can be sent.
Asked == asked \ {<<>>}

Assembling == ecu.state \in {"grant", "assemble"}
Responding == ecu.state \in {"hold", "respond"}
Collecting == pc \in {"send_fc", "recv_cf"}
Sending == pc \in {"send_first", "wait_fc", "send_cf"}

\* What is sent is of a request made, or of a response the ECU began.
RequestCarry ==
    /\ Wholes(Asked) /\ Contents(toEcu, RequestHeads, Asked)
    /\ Sending => payload \in Asked
    /\ pc = "send_cf" => InStep(offset, seq) /\ offset < Len(payload)
ResponseCarry ==
    /\ Wholes(answers) /\ Contents(toTester, ReplyHeads, answers)
    /\ Responding => /\ ecu.msg \in answers
                     /\ InStep(ecu.total, ecu.seq) /\ ecu.total < Len(ecu.msg)
CarryInv == RequestCarry /\ ResponseCarry

\* A request is sent once, and is then in flight, at the ECU or answered.
InFlight(k) ==
    \E i \in 1..Len(toEcu) : Opens(toEcu[i]) /\ Owner(toEcu[i]) = k
TakenUp(k) == Taken /\ ecu.msg[1][2] = k
Answered(k) == \E a \in answers : a[1][2] = k

FreshInv ==
    /\ \A r \in Asked : r[1][2] \in 0..call
    /\ \A i, j \in 1..Len(toEcu) :
         /\ Opens(toEcu[i]) /\ Opens(toEcu[j])
         /\ Owner(toEcu[i]) = Owner(toEcu[j])
         => i = j
    /\ \A k : InFlight(k) \/ TakenUp(k) \/ Answered(k) =>
         k \in 0..call /\ (pc = "send_first" => k # call)
    /\ \A k : /\ ~(InFlight(k) /\ TakenUp(k)) /\ ~(InFlight(k) /\ Answered(k))
              /\ ~(TakenUp(k) /\ Answered(k))

\* The requests on their way to the ECU.
RequestO == IF pc = "wait_fc" THEN {<<call, FFFirst>>}
            ELSE IF pc = "send_cf" THEN {<<call, offset>>} ELSE {}
RequestS == IF pc = "send_first" THEN {<<call, 0>>} ELSE RequestO
RequestR(m) == IF Assembling THEN {<<ecu.msg[1][2], m>>} ELSE {}
RequestLine ==
    /\ \E m \in Nat :
         /\ Channel(toEcu, RequestHeads, RequestS, RequestO, RequestR(m))
         /\ Assembling => Collected(Asked, ecu.msg, ecu.total, ecu.seq, m)
    /\ ecu.state = "reply" => ecu.msg \in Asked

\* The responses on their way to the tester.  The tester is behind only if as
\* many frames were lost as the sequence number tells apart.
ResponseS == IF Responding THEN {<<ecu.msg[1][2], ecu.total>>} ELSE {}
ResponseR(m) == IF Collecting THEN {<<out[1][2], m>>} ELSE {}
Awaits == IF pc = "send_fc" THEN 1 ELSE expected
InTime(m) ==
    IF m = Len(out) THEN Accounted(toTester, ResponseS, out[1][2], m, lost)
    ELSE SeqModulus <= env.lost
ResponseLine ==
    /\ \E m \in Nat :
         /\ Channel(toTester, ReplyHeads, ResponseS, ResponseS, ResponseR(m))
         /\ Collecting => Collected(answers, out, total, Awaits, m) /\ InTime(m)
    /\ Announced(toTester, ReplyHeads, ResponseS, lost)
    /\ result = "ok" => out \in answers

LinesInv == TransfersAreDistinct => RequestLine /\ ResponseLine

WInv == IInv /\ CarryInv /\ FreshInv /\ LinesInv
-----------------------------------------------------------------------------
(* The frames that are sent are those of a message.                        *)

\* A payload, filled up or not, is found again.
LEMMA ChunkOfPadded ==
    ASSUME NEW p \in Seq(Bytes), NEW d \in Seq(Bytes), Len(p) <= Len(d),
           \A i \in 1..Len(p) : d[i] = p[i]
    PROVE  Chunk(d, 0, Len(p)) = p
<1> DEFINE c == Chunk(d, 0, Len(p))
<1>1. Len(p) \in Nat /\ Len(d) \in Nat
  BY LenProperties
<1>2. Least(0 + Len(p), Len(d)) = Len(p)
  BY <1>1 DEF Least
<1>3. /\ c \in Seq(Bytes)
      /\ Len(c) = IF 0 < Len(p) THEN Len(p) - 0 ELSE 0
      /\ \A i \in 1..Len(c) : c[i] = d[0 + i]
  BY <1>1, <1>2, ChunkLemma
<1> HIDE DEF c
<1>4. Len(c) = Len(p)
  BY <1>1, <1>3
<1>5. \A i \in 1..Len(c) : c[i] = p[i]
  BY <1>1, <1>3, <1>4
<1>6. c = p
  BY <1>3, <1>4, <1>5, SeqEqual
<1> QED
  BY <1>6 DEF c

\* The bytes of a First Frame.
LEMMA ChunkBegins ==
    ASSUME NEW p \in Seq(Bytes), SFMaxLen < Len(p)
    PROVE  /\ Len(Chunk(p, 0, FFFirst)) = FFFirst
           /\ Begins(Chunk(p, 0, FFFirst), p)
<1> DEFINE c == Chunk(p, 0, FFFirst)
<1>1. Len(p) \in Nat /\ FFFirst \in Nat /\ 0 < FFFirst /\ FFFirst < Len(p)
  BY Sizes, LenProperties
<1>2. Least(0 + FFFirst, Len(p)) = FFFirst
  BY <1>1 DEF Least
<1>3. /\ Len(c) = IF 0 < FFFirst THEN FFFirst - 0 ELSE 0
      /\ \A i \in 1..Len(c) : c[i] = p[0 + i]
  BY <1>1, <1>2, ChunkLemma
<1> HIDE DEF c
<1>4. Len(c) = FFFirst
  BY <1>1, <1>3
<1>5. \A i \in 1..Len(c) : c[i] = p[i]
  BY <1>1, <1>3, <1>4
<1> QED
  BY <1>1, <1>4, <1>5 DEF Begins, c

LEMMA FirstFrameHead ==
    ASSUME Types, pc = "send_first"
    PROVE  /\ FirstFrame \in RequestHeads /\ ~IsPart(FirstFrame)
           /\ HeadOf(FirstFrame, payload)
           /\ Owner(FirstFrame) = call /\ Place(FirstFrame) = 1
<1>1. /\ FirstFrame \in Frames /\ IsRequestFrame(FirstFrame)
      /\ FirstFrame.n = Len(payload) /\ Len(payload) \in 1..MaxFFLength
      /\ FirstFrame.data[1] = <<"req", call, 1>>
      /\ FirstFrame.pci \in {"SF", "FF"}
      /\ FirstFrame.pci = "SF" => FirstFrame.data = Pad(payload, SFMaxLen)
      /\ FirstFrame.pci = "FF" => FirstFrame.data = Chunk(payload, 0, FFFirst)
      /\ FirstFrame.pci = "FF" => ~(Len(payload) <= SFMaxLen)
  BY FirstFrameLemma DEF Types
<1>2. /\ payload \in Seq(Bytes) /\ payload = Request(call, Len(payload))
      /\ call \in Nat /\ Len(payload) \in Nat
  BY Sizes, EnvTypes DEF Types, TesterTypes, BusTypes
<1>3. payload[1] = <<"req", call, 1>>
  <2>1. 1 \in 1..Len(payload)
    BY <1>1
  <2> QED
    BY <1>2, <2>1, RequestLemma
<1>4. FirstFrame.data # <<>>
  BY <1>1 DEF IsRequestFrame
<1>5. FirstFrame.pci = "SF" => Chunk(FirstFrame.data, 0, FirstFrame.n) = payload
  <2> DEFINE d == Pad(payload, SFMaxLen)
  <2>1. /\ d \in Seq(Bytes) /\ Len(d) = IF Len(payload) < SFMaxLen THEN SFMaxLen
                                        ELSE Len(payload)
        /\ \A i \in 1..Len(payload) : d[i] = payload[i]
    BY <1>2, Sizes, PadLemma
  <2>2. Len(payload) <= Len(d)
    BY <1>2, <2>1, Sizes
  <2> HIDE DEF d
  <2>3. Chunk(d, 0, Len(payload)) = payload
    BY <1>2, <2>1, <2>2, ChunkOfPadded
  <2> QED
    BY <1>1, <2>3 DEF d
<1>6. FirstFrame.pci = "FF" => /\ Len(payload) > SFMaxLen
                               /\ Len(FirstFrame.data) = FFFirst
                               /\ Begins(FirstFrame.data, payload)
  <2> SUFFICES ASSUME FirstFrame.pci = "FF"
               PROVE  /\ Len(payload) > SFMaxLen
                      /\ Len(FirstFrame.data) = FFFirst
                      /\ Begins(FirstFrame.data, payload)
    OBVIOUS
  <2>1. SFMaxLen < Len(payload)
    BY <1>1, <1>2, Sizes
  <2>2. FirstFrame.data = Chunk(payload, 0, FFFirst)
    BY <1>1
  <2> QED
    BY <1>2, <2>1, <2>2, ChunkBegins
<1>7. HeadOf(FirstFrame, payload)
  BY <1>1, <1>3, <1>4, <1>5, <1>6 DEF HeadOf
<1> QED
  BY <1>1, <1>7 DEF RequestHeads, Opens, IsPart, Owner, Place

LEMMA ReplyFrameHead ==
    ASSUME NEW k \in Nat, NEW len \in 1..MaxFFLength,
           NEW rsp, rsp = Response(k, len)
    PROVE  /\ ReplyFrame(rsp) \in ReplyHeads /\ ~IsPart(ReplyFrame(rsp))
           /\ HeadOf(ReplyFrame(rsp), rsp)
           /\ Owner(ReplyFrame(rsp)) = k /\ Place(ReplyFrame(rsp)) = 1
<1> DEFINE f == ReplyFrame(rsp)
<1>1. /\ rsp \in Seq(Bytes) /\ Len(rsp) = len
      /\ f \in Frames /\ f.id = "ecu" /\ f.n = len
      /\ f.data # <<>> /\ f.data[1] = <<"rsp", k, 1>>
      /\ f.pci = IF len <= SFMaxLen THEN "SF" ELSE "FF"
      /\ len <= SFMaxLen => f.data = EcuPad(rsp, SFMaxLen)
      /\ len > SFMaxLen => f.data = Chunk(rsp, 0, FFFirst)
  BY ReplyFrameLemma
<1>2. len \in Nat /\ 1 <= len /\ rsp[1] = <<"rsp", k, 1>>
  <2>1. len \in Nat /\ 1 \in 1..len
    BY Sizes
  <2> QED
    BY <2>1, ResponseLemma
<1> HIDE DEF f
<1>3. CASE len <= SFMaxLen
  <2> DEFINE d == EcuPad(rsp, SFMaxLen)
  <2>1. /\ d \in Seq(Bytes) /\ Len(d) >= Len(rsp)
        /\ \A i \in 1..Len(rsp) : d[i] = rsp[i]
    BY <1>1, Sizes, EcuPadLemma
  <2> HIDE DEF d
  <2>2. Len(d) \in Nat /\ Len(rsp) <= Len(d)
    BY <1>1, <1>2, <2>1, LenProperties
  <2>3. Chunk(d, 0, Len(rsp)) = rsp
    BY <1>1, <2>1, <2>2, ChunkOfPadded
  <2>4. f.pci = "SF" /\ f.data = d
    BY <1>1, <1>3 DEF d
  <2>5. HeadOf(f, rsp)
    BY <1>1, <1>2, <2>3, <2>4 DEF HeadOf
  <2>6. IsSingle(f)
    <3>1. f.n \in 1..Least(SFMaxLen, Len(f.data))
      BY <1>1, <1>2, <1>3, <2>2, <2>4, Sizes DEF Least
    <3> QED
      BY <2>4, <3>1 DEF IsSingle
  <2> QED
    BY <1>1, <2>4, <2>5, <2>6 DEF ReplyHeads, IsReply, IsPart, Owner, Place, f
<1>4. CASE ~(len <= SFMaxLen)
  <2>1. SFMaxLen < len /\ f.pci = "FF" /\ f.data = Chunk(rsp, 0, FFFirst)
    BY <1>1, <1>2, <1>4, Sizes
  <2>2. Len(f.data) = FFFirst /\ Begins(f.data, rsp)
    BY <1>1, <2>1, ChunkBegins
  <2>3. HeadOf(f, rsp)
    BY <1>1, <1>2, <2>1, <2>2, Sizes DEF HeadOf
  <2>4. IsFirst(f)
    BY <1>1, <1>2, <2>1, Sizes DEF IsFirst
  <2> QED
    BY <1>1, <2>1, <2>3, <2>4 DEF ReplyHeads, IsReply, IsPart, Owner, Place, f
<1> QED
  BY <1>3, <1>4

\* A Consecutive Frame that carries a chunk, filled up or not.
LEMMA PartMade ==
    ASSUME NEW w, Whole(w), NEW q \in Nat, Offset(q) < Len(w),
           NEW f \in Frames, f.id = "ecu", Numbers(q, f.n),
           NEW c, c = Chunk(w, Offset(q), CFPayload),
           Len(c) <= Len(f.data), \A i \in 1..Len(c) : f.data[i] = c[i]
    PROVE  PartOf(f, w) /\ Owner(f) = w[1][2] /\ Place(f) = Offset(q) + 1
<1> DEFINE n == Least(CFPayload, Len(w) - Offset(q))
<1>1. /\ Offset(q) \in Nat /\ Len(w) \in Nat /\ CFPayload \in Nat
      /\ 0 < CFPayload /\ w \in Seq(Bytes)
  <2>1. Offset(q) \in Nat
    BY OffsetLemma
  <2>2. w \in Seq(Bytes) /\ Len(w) \in Nat
    BY LenProperties DEF Whole
  <2> QED
    BY <2>1, <2>2, Sizes
<1>2. /\ Len(c) = IF Offset(q) < Least(Offset(q) + CFPayload, Len(w))
                  THEN Least(Offset(q) + CFPayload, Len(w)) - Offset(q) ELSE 0
      /\ \A i \in 1..Len(c) : c[i] = w[Offset(q) + i]
  BY <1>1, ChunkLemma
<1>3. Len(c) = n /\ n \in Nat /\ 0 < n
  BY <1>1, <1>2 DEF Least
<1> HIDE DEF n
<1>4. Len(f.data) \in Nat
  BY LenProperties DEF Frames
<1>5. \A j \in 1..n : j <= Len(f.data) /\ f.data[j] = w[Offset(q) + j]
  BY <1>2, <1>3, <1>4
<1>6. PartOf(f, w)
  BY <1>5 DEF PartOf, n
<1>7. f.data[1] = w[Offset(q) + 1] /\ Offset(q) + 1 \in 1..Len(w)
  BY <1>1, <1>3, <1>5
<1> QED
  BY <1>6, <1>7 DEF Whole, Owner, Place

\* How much has been sent with the next part.
LEMMA NextOffset ==
    ASSUME NEW q \in Nat, NEW s, Numbers(q, s), NEW n \in Nat,
           Offset(q) + CFPayload < n
    PROVE  /\ Offset(q) + CFPayload = Offset(q + 1) /\ q + 1 \in Nat
           /\ InStep(Offset(q) + CFPayload, NextSeq(s))
<1>1. Offset(q) + CFPayload = Offset(q + 1) /\ q + 1 \in Nat
  BY OffsetLemma
<1>2. Numbers(q + 1, NextSeq(s))
  BY NumbersStep
<1> QED
  BY <1>1, <1>2 DEF InStep

-----------------------------------------------------------------------------
(* What the tester sends, and what is left to send.                        *)

LEMMA MadePayload ==
    ASSUME NEW k \in Nat, NEW n \in Nat, 0 < n
    PROVE  Whole(Request(k, n)) /\ Request(k, n)[1] = <<"req", k, 1>>
<1>1. /\ Request(k, n) \in Seq(Bytes) /\ Len(Request(k, n)) = n
      /\ \A i \in 1..n : Request(k, n)[i] = <<"req", k, i>>
  BY RequestLemma
<1>2. 1 \in 1..n
  OBVIOUS
<1> DEFINE w == Request(k, n)
<1> HIDE DEF w
<1>3. \A i \in 1..Len(w) : w[i][2] = w[1][2] /\ w[i][3] = i
  BY <1>1, <1>2 DEF w
<1> QED
  BY <1>1, <1>2, <1>3 DEF Whole, w

LEMMA MadeResponse ==
    ASSUME NEW k \in Nat, NEW n \in Nat, 0 < n
    PROVE  Whole(Response(k, n)) /\ Response(k, n)[1] = <<"rsp", k, 1>>
<1>1. /\ Response(k, n) \in Seq(Bytes) /\ Len(Response(k, n)) = n
      /\ \A i \in 1..n : Response(k, n)[i] = <<"rsp", k, i>>
  BY ResponseLemma
<1>2. 1 \in 1..n
  OBVIOUS
<1> DEFINE w == Response(k, n)
<1> HIDE DEF w
<1>3. \A i \in 1..Len(w) : w[i][2] = w[1][2] /\ w[i][3] = i
  BY <1>1, <1>2 DEF w
<1> QED
  BY <1>1, <1>2, <1>3 DEF Whole, w

LEMMA PayloadWhole ==
    ASSUME Types, Sending
    PROVE  /\ Whole(payload) /\ payload[1][2] = call /\ call \in Nat
           /\ Len(payload) \in Nat /\ payload # <<>>
<1>1. /\ payload = Request(call, Len(payload)) /\ Len(payload) \in 1..MaxFFLength
      /\ call \in FirstCall..FirstCall + env.calls
  BY DEF Types, TesterTypes, Sending
<1>2. call \in Nat /\ Len(payload) \in Nat /\ 0 < Len(payload)
  BY <1>1, Sizes, EnvTypes DEF Types, BusTypes
<1> DEFINE n == Len(payload)
<1>3. Whole(Request(call, n)) /\ Request(call, n)[1] = <<"req", call, 1>>
  <2> HIDE DEF n
  <2> QED
    BY <1>2, MadePayload DEF n
<1>4. Whole(payload) /\ payload[1] = <<"req", call, 1>>
  BY <1>1, <1>3
<1>5. payload # <<>>
  BY <1>2
<1> QED
  BY <1>2, <1>4, <1>5

LEMMA NextFramePart ==
    ASSUME Types, CarryInv, pc = "send_cf"
    PROVE  /\ PartOf(NextFrame, payload) /\ payload \in Asked
           /\ NextFrame \in Frames /\ IsPart(NextFrame) /\ ~Opens(NextFrame)
           /\ Owner(NextFrame) = call /\ Place(NextFrame) = offset + 1
           /\ offset \in Places
           /\ Least(offset + CFPayload, Len(payload)) < Len(payload) =>
                /\ Least(offset + CFPayload, Len(payload)) = offset + CFPayload
                /\ InStep(offset + CFPayload, NextSeq(seq))
<1>1. /\ InStep(offset, seq) /\ offset < Len(payload) /\ payload \in Asked
      /\ Whole(payload) /\ payload[1][2] = call /\ Len(payload) \in Nat
  BY PayloadWhole DEF CarryInv, RequestCarry, Sending
<1>2. PICK q \in Nat : offset = Offset(q) /\ Numbers(q, seq)
  BY <1>1 DEF InStep
<1>3. /\ payload \in Seq(Bytes) /\ offset \in Nat /\ seq \in 0..SeqModulus - 1
  BY <1>1, <1>2, OffsetLemma DEF Whole, Numbers
<1> DEFINE c == Chunk(payload, offset, CFPayload)
           d == Pad(c, CFPayload)
<1>4. c \in Seq(Bytes)
  BY <1>3, Sizes, ChunkLemma
<1>5. NextFrame = CF(seq % SeqModulus, d)
  BY DEF NextFrame, EncodeCF
<1>6. c = Chunk(payload, Offset(q), CFPayload)
  BY <1>2
<1> HIDE DEF c
<1>7. /\ d \in Seq(Bytes) /\ Len(d) = IF Len(c) < CFPayload THEN CFPayload ELSE Len(c)
      /\ \A i \in 1..Len(c) : d[i] = c[i]
  BY <1>4, Sizes, PadLemma
<1>8. Len(c) <= Len(d)
  BY <1>4, <1>7, Sizes, LenProperties
<1> HIDE DEF d
<1>9. seq % SeqModulus = seq /\ seq \in 0..MaxFFLength
  BY <1>3, Sizes, ModLemma
<1>10. NextFrame = CF(seq, d)
  BY <1>5, <1>9
<1>11. /\ NextFrame.id = "ecu" /\ NextFrame.pci = "CF" /\ NextFrame.n = seq
       /\ NextFrame.data = d
  BY <1>10 DEF CF
<1>12. NextFrame \in Frames
  BY <1>7, <1>9, <1>10, FrameTypes
<1>13. /\ PartOf(NextFrame, payload) /\ Owner(NextFrame) = payload[1][2]
       /\ Place(NextFrame) = Offset(q) + 1
  <2> DEFINE f == NextFrame
  <2>1. /\ f \in Frames /\ f.id = "ecu" /\ Numbers(q, f.n) /\ Offset(q) < Len(payload)
        /\ Len(c) <= Len(f.data) /\ \A i \in 1..Len(c) : f.data[i] = c[i]
    BY <1>1, <1>2, <1>7, <1>8, <1>11, <1>12
  <2> HIDE DEF f
  <2>2. PartOf(f, payload) /\ Owner(f) = payload[1][2] /\ Place(f) = Offset(q) + 1
    BY <1>1, <1>6, <2>1, PartMade
  <2> QED
    BY <2>2 DEF f
<1>14. ASSUME Least(offset + CFPayload, Len(payload)) < Len(payload)
       PROVE  /\ Least(offset + CFPayload, Len(payload)) = offset + CFPayload
              /\ InStep(offset + CFPayload, NextSeq(seq))
  <2>1. /\ Least(offset + CFPayload, Len(payload)) = offset + CFPayload
        /\ Offset(q) + CFPayload < Len(payload)
    BY <1>1, <1>2, <1>3, <1>14, Sizes DEF Least
  <2>2. InStep(Offset(q) + CFPayload, NextSeq(seq))
    BY <1>1, <1>2, <2>1, NextOffset
  <2> QED
    BY <1>2, <2>1, <2>2
<1>15. offset \in Places
  BY <1>2 DEF Places
<1>16. IsPart(NextFrame) /\ ~Opens(NextFrame)
  BY <1>11 DEF IsPart, Opens
<1> QED
  BY <1>1, <1>2, <1>12, <1>13, <1>14, <1>15, <1>16

\* The same of the ECU.
NextReply ==
    CF(ecu.seq, EcuPad(Chunk(ecu.msg, ecu.total, CFPayload), CFPayload))

LEMMA NextReplyPart ==
    ASSUME Types, CarryInv, ecu.state = "respond"
    PROVE  /\ PartOf(NextReply, ecu.msg) /\ ecu.msg \in answers
           /\ NextReply \in Frames /\ IsPart(NextReply) /\ ~IsReply(NextReply)
           /\ Owner(NextReply) = ecu.msg[1][2]
           /\ \E q \in Nat :
                /\ ecu.total = Offset(q) /\ Place(NextReply) = Offset(q) + 1
                /\ ecu.total + CFPayload = Offset(q + 1)
           /\ ~(ecu.total + CFPayload >= Len(ecu.msg)) =>
                /\ InStep(ecu.total + CFPayload, NextSeq(ecu.seq))
                /\ ecu.total + CFPayload < Len(ecu.msg)
<1>1. /\ InStep(ecu.total, ecu.seq) /\ ecu.total < Len(ecu.msg)
      /\ ecu.msg \in answers /\ Whole(ecu.msg)
  BY DEF CarryInv, ResponseCarry, Responding, Wholes
<1>2. PICK q \in Nat : ecu.total = Offset(q) /\ Numbers(q, ecu.seq)
  BY <1>1 DEF InStep
<1> DEFINE w == ecu.msg
           c == Chunk(w, ecu.total, CFPayload)
           d == EcuPad(c, CFPayload)
           s == ecu.seq
<1>3. /\ w \in Seq(Bytes) /\ ecu.total \in Nat /\ s \in 0..SeqModulus - 1
      /\ Len(w) \in Nat
  BY <1>1, <1>2, OffsetLemma, LenProperties DEF Whole, Numbers
<1>4. c \in Seq(Bytes)
  <2> HIDE DEF w
  <2> QED
    BY <1>3, Sizes, ChunkLemma
<1>5. NextReply = CF(s, d)
  BY DEF NextReply
<1>6. c = Chunk(w, Offset(q), CFPayload)
  BY <1>2
<1> HIDE DEF c
<1>7. /\ d \in Seq(Bytes) /\ Len(d) >= Len(c)
      /\ \A i \in 1..Len(c) : d[i] = c[i]
  BY <1>4, Sizes, EcuPadLemma
<1> HIDE DEF d
<1>8. Len(c) <= Len(d)
  BY <1>4, <1>7, LenProperties
<1>9. s \in 0..MaxFFLength
  BY <1>3, Sizes
<1>11. /\ NextReply.id = "ecu" /\ NextReply.pci = "CF" /\ NextReply.n = s
       /\ NextReply.data = d
  BY <1>5 DEF CF
<1>12. NextReply \in Frames
  BY <1>5, <1>7, <1>9, FrameTypes
<1>13. /\ PartOf(NextReply, w) /\ Owner(NextReply) = w[1][2]
       /\ Place(NextReply) = Offset(q) + 1
  <2> DEFINE f == NextReply
  <2>1. /\ f \in Frames /\ f.id = "ecu" /\ Numbers(q, f.n) /\ Offset(q) < Len(w)
        /\ Len(c) <= Len(f.data) /\ \A i \in 1..Len(c) : f.data[i] = c[i]
    BY <1>1, <1>2, <1>7, <1>8, <1>11, <1>12
  <2>2. Whole(w)
    BY <1>1
  <2> HIDE DEF f, w
  <2>3. PartOf(f, w) /\ Owner(f) = w[1][2] /\ Place(f) = Offset(q) + 1
    BY <1>6, <2>1, <2>2, PartMade
  <2> QED
    BY <2>3 DEF f
<1>14. ASSUME ~(ecu.total + CFPayload >= Len(w))
       PROVE  /\ InStep(ecu.total + CFPayload, NextSeq(s))
              /\ ecu.total + CFPayload < Len(w)
  <2>1. Offset(q) + CFPayload < Len(w)
    BY <1>2, <1>3, <1>14, Sizes
  <2>2. InStep(Offset(q) + CFPayload, NextSeq(s))
    BY <1>2, <1>3, <2>1, NextOffset
  <2> QED
    BY <1>2, <2>1, <2>2
<1>15. ecu.total + CFPayload = Offset(q + 1)
  BY <1>2, OffsetLemma
<1>16. IsPart(NextReply) /\ ~IsReply(NextReply)
  BY <1>11 DEF IsPart, IsReply, IsSingle, IsFirst
<1> QED
  BY <1>1, <1>2, <1>12, <1>13, <1>14, <1>15, <1>16

-----------------------------------------------------------------------------
(* The requests' side is kept.                                             *)

\* The tester goes on as before or stops sending; so does the ECU.
TesterKeeps ==
    /\ UNCHANGED <<call, payload>>
    /\ \/ ~Sending'
       \/ UNCHANGED <<pc, offset, seq>>
       \/ pc = "wait_fc" /\ pc' = "send_cf" /\ offset' = FFFirst /\ seq' = 1
EcuKeeps ==
    \/ ~Taken'
    \/ /\ ecu'.msg = ecu.msg /\ ecu'.total = ecu.total /\ ecu'.seq = ecu.seq
       /\ Assembling' => Assembling
       /\ ecu'.state = "reply" => ecu.state = "reply"

LEMMA HeadsSame == RequestHeads' = RequestHeads /\ ReplyHeads' = ReplyHeads
  BY DEF RequestHeads, ReplyHeads

LEMMA TailFrames ==
    ASSUME NEW Q \in Seq(Frames), Q # <<>>
    PROVE  \A i \in 1..Len(Tail(Q)) : \E j \in 1..Len(Q) : Tail(Q)[i] = Q[j]
<1>1. \A i \in 1..Len(Tail(Q)) : Tail(Q)[i] = Q[i + 1] /\ i + 1 \in 1..Len(Q)
  BY TailLemma
<1> QED
  BY <1>1

LEMMA RemoveFrames ==
    ASSUME NEW Q \in Seq(Frames), NEW k \in DOMAIN Q
    PROVE  \A i \in 1..Len(RemoveAt(Q, k)) :
             \E j \in 1..Len(Q) : RemoveAt(Q, k)[i] = Q[j]
<1> DEFINE Q2 == RemoveAt(Q, k)
<1>1. /\ Len(Q2) = Len(Q) - 1 /\ Len(Q) \in Nat
      /\ \A i \in 1..Len(Q) - 1 : Q2[i] = IF i < k THEN Q[i] ELSE Q[i + 1]
  BY RemoveLemma, LenProperties
<1> HIDE DEF Q2
<1>2. ASSUME NEW i \in 1..Len(Q2)
      PROVE  \E j \in 1..Len(Q) : Q2[i] = Q[j]
  <2>1. i \in 1..Len(Q) /\ i + 1 \in 1..Len(Q) /\ i \in 1..Len(Q) - 1
    BY <1>1
  <2> QED
    BY <1>1, <2>1
<1> QED
  BY <1>2 DEF Q2

LEMMA RequestCarryKept ==
    ASSUME Types, RequestCarry, UNCHANGED asked, TesterKeeps,
           Contents(toEcu', RequestHeads, Asked)
    PROVE  RequestCarry'
<1>1. Asked' = Asked /\ payload' = payload
  BY DEF Asked, TesterKeeps
<1>2. Sending' => Sending
  BY DEF TesterKeeps, Sending
<1>3. pc' = "send_cf" => InStep(offset', seq') /\ offset' < Len(payload')
  <2>1. CASE UNCHANGED <<pc, offset, seq>>
    BY <1>1, <2>1 DEF RequestCarry
  <2>2. CASE pc = "wait_fc" /\ offset' = FFFirst /\ seq' = 1
    <3>1. Len(payload) > SFMaxLen /\ Len(payload) \in Nat
      BY <2>2 DEF Types, TesterTypes
    <3>2. offset' < Len(payload')
      BY <1>1, <2>2, <3>1, Sizes
    <3>3. Offset(0) = FFFirst
      BY Sizes DEF Offset
    <3>4. InStep(offset', seq')
      BY <2>2, <3>3, NumbersStart DEF InStep
    <3> QED
      BY <3>2, <3>4
  <2> QED
    BY <2>1, <2>2 DEF TesterKeeps, Sending
<1> QED
  BY <1>1, <1>2, <1>3, HeadsSame DEF RequestCarry

LEMMA SenderSets == RequestO \subseteq RequestS
  BY DEF RequestO, RequestS

LEMMA SenderKeeps ==
    ASSUME TesterKeeps
    PROVE  RequestS' \subseteq RequestS /\ RequestO' \subseteq RequestO
<1>1. CASE ~Sending'
  BY <1>1 DEF Sending, RequestS, RequestO
<1>2. CASE UNCHANGED <<pc, offset, seq>>
  BY <1>2 DEF TesterKeeps, RequestS, RequestO
<1>3. CASE pc = "wait_fc" /\ pc' = "send_cf" /\ offset' = FFFirst
  BY <1>3 DEF TesterKeeps, RequestS, RequestO
<1> QED
  BY <1>1, <1>2, <1>3 DEF TesterKeeps

LEMMA RequestLineKept ==
    ASSUME RequestLine, Asked \subseteq Asked', EcuKeeps,
           \A m \in Nat :
             Channel(toEcu, RequestHeads, RequestS, RequestO, RequestR(m)) =>
             Channel(toEcu', RequestHeads, RequestS', RequestO', RequestR(m))
    PROVE  RequestLine'
<1>1. PICK m \in Nat :
        /\ Channel(toEcu, RequestHeads, RequestS, RequestO, RequestR(m))
        /\ Assembling => Collected(Asked, ecu.msg, ecu.total, ecu.seq, m)
  BY DEF RequestLine
<1>2. Channel(toEcu', RequestHeads, RequestS', RequestO', RequestR(m))
  BY <1>1
<1>3. RequestR(m)' \subseteq RequestR(m)
  BY DEF RequestR, EcuKeeps, Assembling, Taken
<1>4. Channel(toEcu', RequestHeads', RequestS', RequestO', RequestR(m)')
  <2>1. RequestO' \subseteq RequestS'
    BY SenderSets DEF RequestO, RequestS
  <2> QED
    BY <1>2, <1>3, <2>1, HeadsSame, ChannelStops
<1>5. Assembling' => Collected(Asked', ecu'.msg, ecu'.total, ecu'.seq, m)
  BY <1>1 DEF EcuKeeps, Assembling, Taken, Collected
<1>6. ecu'.state = "reply" => ecu'.msg \in Asked'
  BY DEF RequestLine, EcuKeeps, Taken
<1> QED
  BY <1>4, <1>5, <1>6 DEF RequestLine

LEMMA RequestStill ==
    ASSUME Types, RequestCarry, UNCHANGED <<toEcu, asked>>, TesterKeeps, EcuKeeps
    PROVE  RequestCarry' /\ (RequestLine => RequestLine')
<1>1. RequestCarry'
  <2>1. Contents(toEcu', RequestHeads, Asked)
    BY DEF RequestCarry
  <2> QED
    BY <2>1, RequestCarryKept
<1>2. ASSUME RequestLine
      PROVE  RequestLine'
  <2>1. ASSUME NEW m \in Nat,
               Channel(toEcu, RequestHeads, RequestS, RequestO, RequestR(m))
        PROVE  Channel(toEcu', RequestHeads, RequestS', RequestO', RequestR(m))
    <3>1. RequestS' \subseteq RequestS /\ RequestO' \subseteq RequestO
          /\ RequestO' \subseteq RequestS' /\ toEcu' = toEcu
      BY SenderKeeps DEF RequestO, RequestS
    <3> QED
      BY <2>1, <3>1, ChannelStops
  <2>2. Asked \subseteq Asked'
    BY DEF Asked
  <2> QED
    BY <1>2, <2>1, <2>2, RequestLineKept
<1> QED
  BY <1>1, <1>2

\* A step that keeps the requests' side of the invariant.
RequestKept == RequestCarry' /\ (RequestLine => RequestLine')

LEMMA RequestByTester ==
    ASSUME Types, RequestCarry, UNCHANGED <<toEcu, asked, ecu>>, TesterKeeps
    PROVE  RequestKept
<1>1. EcuKeeps
  BY DEF EcuKeeps, Assembling
<1> QED
  BY <1>1, RequestStill DEF RequestKept

LEMMA RequestByEcu ==
    ASSUME Types, RequestCarry, UNCHANGED <<toEcu, asked, testerVars>>, EcuKeeps
    PROVE  RequestKept
<1>1. TesterKeeps
  BY DEF TesterKeeps, testerVars, sendVars
<1> QED
  BY <1>1, RequestStill DEF RequestKept

LEMMA AsideRequest ==
    ASSUME Types, RequestCarry, Aside
    PROVE  RequestKept
<1>1. UNCHANGED <<toEcu, asked, ecu>>
  BY DEF Aside, Poll, GiveUp, RecvNone, SocketError, DeadlinePasses, busVars,
         histVars
<1>2. TesterKeeps
  BY AsideTypes DEF Passive, TesterKeeps, Sending
<1> QED
  BY <1>1, <1>2, RequestByTester

LEMMA TakeRequest ==
    ASSUME Types, RequestCarry, NEW f,
           RecvForeign(f) \/ RecvFC(f) \/ RecvFirst(f) \/ RecvCF(f)
    PROVE  RequestKept
<1>1. CASE RecvForeign(f)
  <2>1. UNCHANGED <<toEcu, asked, ecu>>
    BY <1>1 DEF RecvForeign, histVars
  <2>2. TesterKeeps
    BY <1>1 DEF RecvForeign, sendVars, TesterKeeps
  <2> QED
    BY <2>1, <2>2, RequestByTester
<1>2. CASE RecvFC(f)
  <2>1. UNCHANGED <<toEcu, asked, ecu, call, payload>> /\ pc = "wait_fc"
    BY <1>2 DEF RecvFC
  <2>2. \/ ~Sending'
        \/ UNCHANGED <<pc, offset, seq>>
        \/ pc' = "send_cf" /\ offset' = FFFirst /\ seq' = 1
    BY <1>2 DEF RecvFC, sendVars, Return, Sending
  <2>3. TesterKeeps
    BY <2>1, <2>2 DEF TesterKeeps
  <2> QED
    BY <2>1, <2>3, RequestByTester
<1>3. CASE RecvFirst(f)
  <2>1. UNCHANGED <<toEcu, asked, ecu>>
    BY <1>3 DEF RecvFirst, histVars
  <2>2. TesterKeeps
    BY <1>3 DEF RecvFirst, Return, TesterKeeps, Sending
  <2> QED
    BY <2>1, <2>2, RequestByTester
<1>4. CASE RecvCF(f)
  <2>1. UNCHANGED <<toEcu, asked, ecu>>
    BY <1>4 DEF RecvCF, histVars
  <2>2. UNCHANGED <<call, payload>> /\ pc = "recv_cf" /\ pc' \in {"recv_cf", "done"}
    BY <1>4 DEF RecvCF, Return
  <2>3. TesterKeeps
    BY <2>2 DEF TesterKeeps, Sending
  <2> QED
    BY <2>1, <2>3, RequestByTester
<1> QED
  BY <1>1, <1>2, <1>3, <1>4

LEMMA EcuSendsRequest ==
    ASSUME Types, RequestCarry,
           \/ \E b \in env.blocks : EcuGrant(b)
           \/ EcuWait
           \/ EcuOverflow
           \/ \E len \in env.respLens : EcuReply(len)
           \/ EcuSendCF
           \/ EcuAbandons
    PROVE  RequestKept
<1>1. UNCHANGED <<toEcu, asked, testerVars>>
  BY DEF EcuGrant, EcuWait, EcuOverflow, EcuReply, EcuSendCF, EcuAbandons,
         EcuSends, busVars, histVars
<1>2. EcuKeeps
  <2>1. ASSUME NEW b \in env.blocks, EcuGrant(b)
        PROVE  EcuKeeps
    <3>1. ecu \in EcuRecords /\ ecu.state = "grant"
          /\ ecu' = [ecu EXCEPT !.state = "assemble", !.left = b]
      BY <2>1 DEF Types, EcuTypes, EcuGrant
    <3> QED
      BY <3>1 DEF EcuKeeps, Assembling, EcuRecords
  <2>2. CASE EcuWait
    <3>1. ecu \in EcuRecords /\ ecu.state = "grant"
          /\ ecu' = [ecu EXCEPT !.waits = @ + 1]
      BY <2>2 DEF Types, EcuTypes, EcuWait
    <3> QED
      BY <3>1 DEF EcuKeeps, Assembling, EcuRecords
  <2>3. CASE EcuOverflow \/ EcuAbandons
    BY <2>3, IdleType DEF EcuOverflow, EcuAbandons, EcuKeeps, Taken
  <2>4. ASSUME NEW len \in env.respLens, EcuReply(len)
        PROVE  EcuKeeps
    BY <2>4, EcuReplyTypes, IdleType DEF EcuKeeps, Taken
  <2>5. CASE EcuSendCF
    BY <2>5, EcuSendCFTypes, IdleType DEF EcuKeeps, Taken
  <2> QED
    BY <2>1, <2>2, <2>3, <2>4, <2>5
<1> QED
  BY <1>1, <1>2, RequestByEcu

LEMMA DisturbRequest ==
    ASSUME Types, RequestCarry, Disturb
    PROVE  RequestKept
<1>1. UNCHANGED <<toEcu, asked, testerVars, ecu>>
  BY DEF Disturb, histVars
<1>2. EcuKeeps
  BY <1>1 DEF EcuKeeps, Assembling
<1> QED
  BY <1>1, <1>2, RequestByEcu

-----------------------------------------------------------------------------
(* The ECU takes a frame.                                                  *)

\* What it takes leaves the queue, and the tester goes on.
LEMMA EcuTakesRequest ==
    ASSUME Types, RequestCarry, NEW f, EcuTakes(f)
    PROVE  /\ RequestCarry' /\ Asked' = Asked
           /\ RequestS' = RequestS /\ RequestO' = RequestO
           /\ toEcu' = Tail(toEcu) /\ toEcu # <<>> /\ f = toEcu[1] /\ f \in Frames
           /\ f \in RequestHeads <=> Opens(f)
           /\ IsPart(f) => ~Opens(f)
           /\ Opens(f) => \E w \in Asked : HeadOf(f, w)
           /\ IsPart(f) => \E w \in Asked : PartOf(f, w)
<1>1. /\ toEcu' = Tail(toEcu) /\ toEcu # <<>> /\ f = toEcu[1] /\ 1 \in 1..Len(toEcu)
  BY EcuTook DEF EcuTakes
<1>2. toEcu \in Seq(Frames) /\ f \in Frames
  BY <1>1, Queues
<1>3. UNCHANGED <<call, pc, payload, offset, seq, asked>>
  BY DEF EcuTakes, testerVars, sendVars, histVars
<1>4. /\ Asked' = Asked /\ RequestS' = RequestS /\ RequestO' = RequestO
      /\ TesterKeeps
  BY <1>3 DEF Asked, RequestS, RequestO, TesterKeeps
<1>5. Contents(toEcu, RequestHeads, Asked)
  BY DEF RequestCarry
<1>6. Contents(toEcu', RequestHeads, Asked)
  <2>1. \A i \in 1..Len(toEcu') : \E j \in 1..Len(toEcu) : toEcu'[i] = toEcu[j]
    BY <1>1, <1>2, TailFrames
  <2> QED
    BY <1>5, <2>1, ContentsKept
<1>7. RequestCarry'
  BY <1>3, <1>4, <1>6, RequestCarryKept
<1>8. f \in RequestHeads <=> Opens(f)
  BY <1>2 DEF RequestHeads
<1>9. /\ Opens(f) => \E w \in Asked : HeadOf(f, w)
      /\ IsPart(f) => \E w \in Asked : PartOf(f, w)
  BY <1>1, <1>5, <1>8 DEF Contents
<1>10. IsPart(f) => ~Opens(f)
  BY DEF IsPart, Opens
<1> QED
  BY <1>1, <1>2, <1>4, <1>7, <1>8, <1>9, <1>10

\* A frame that begins nothing, and that the ECU adds nothing of.
LEMMA EcuSkipsRequest ==
    ASSUME Types, RequestCarry, NEW f, EcuTakes(f), ~Opens(f), EcuKeeps
    PROVE  RequestKept
<1>1. /\ RequestCarry' /\ Asked' = Asked
      /\ RequestS' = RequestS /\ RequestO' = RequestO
      /\ toEcu' = Tail(toEcu) /\ toEcu # <<>> /\ f = toEcu[1]
      /\ f \notin RequestHeads
  BY EcuTakesRequest
<1>2. ASSUME RequestLine
      PROVE  RequestLine'
  <2>1. ASSUME NEW m \in Nat,
               Channel(toEcu, RequestHeads, RequestS, RequestO, RequestR(m))
        PROVE  Channel(toEcu', RequestHeads, RequestS', RequestO', RequestR(m))
    BY <1>1, <2>1, Queues, ChannelSkips
  <2> QED
    BY <1>1, <1>2, <2>1, RequestLineKept
<1> QED
  BY <1>1, <1>2 DEF RequestKept

LEMMA EcuRecvFCRequest ==
    ASSUME Types, RequestCarry, NEW f, EcuRecvFC(f)
    PROVE  RequestKept
<1>1. EcuTakes(f) /\ ~Opens(f)
  BY DEF EcuRecvFC, Opens
<1>2. EcuKeeps
  BY EcuRecvFCTypes DEF EcuKeeps, Assembling, Taken
<1> QED
  BY <1>1, <1>2, EcuSkipsRequest

\* A Single Frame is a request.
LEMMA EcuRecvSFRequest ==
    ASSUME Types, RequestCarry, NEW f, EcuRecvSF(f)
    PROVE  RequestKept
<1>1. EcuTakes(f) /\ Opens(f) /\ f.pci = "SF"
  BY DEF EcuRecvSF, Opens
<1>2. /\ RequestCarry' /\ Asked' = Asked
      /\ RequestS' = RequestS /\ RequestO' = RequestO
      /\ toEcu' = Tail(toEcu) /\ toEcu # <<>> /\ f = toEcu[1]
      /\ f \in RequestHeads
  BY <1>1, EcuTakesRequest
<1>3. ecu'.state = "reply" /\ ecu'.msg \in Asked
  BY <1>1, EcuTakesRequest, EcuRecvSFTypes DEF HeadOf
<1>4. ASSUME RequestLine
      PROVE  RequestLine'
  <2>1. PICK m \in Nat :
          Channel(toEcu, RequestHeads, RequestS, RequestO, RequestR(m))
    BY <1>4 DEF RequestLine
  <2>2. Channel(toEcu, RequestHeads, RequestS, RequestO, {})
    BY <2>1, SenderSets, ChannelStops
  <2>3. Channel(Tail(toEcu), RequestHeads, RequestS, RequestO, {})
    BY <1>2, <2>2, Queues, ChannelSkips
  <2>4. RequestR(m)' = {} /\ ~Assembling'
    BY <1>3 DEF RequestR, Assembling
  <2>5. Channel(toEcu', RequestHeads', RequestS', RequestO', RequestR(m)')
    BY <1>2, <2>3, <2>4, HeadsSame
  <2> QED
    BY <1>2, <1>3, <2>4, <2>5 DEF RequestLine
<1> QED
  BY <1>2, <1>4 DEF RequestKept

\* A First Frame is the beginning of one.
LEMMA EcuRecvFFRequest ==
    ASSUME Types, RequestCarry, NEW f, EcuRecvFF(f)
    PROVE  RequestKept
<1>1. EcuTakes(f) /\ Opens(f) /\ f.pci = "FF"
  BY DEF EcuRecvFF, Opens
<1>2. /\ RequestCarry' /\ Asked' = Asked
      /\ RequestS' = RequestS /\ RequestO' = RequestO
      /\ toEcu' = Tail(toEcu) /\ toEcu # <<>> /\ f = toEcu[1]
      /\ f \in RequestHeads
  BY <1>1, EcuTakesRequest
<1>3. PICK w \in Asked : HeadOf(f, w)
  BY <1>1, EcuTakesRequest
<1>4. ecu'.state = "grant" /\ ecu'.msg = f.data /\ ecu'.total = f.n /\ ecu'.seq = 1
  BY EcuRecvFFTypes, IdleType DEF EcuRecvFF
<1>5. Collected(Asked, ecu'.msg, ecu'.total, ecu'.seq, FFFirst)
  <2>1. /\ ecu'.msg # <<>> /\ ecu'.msg[1] = w[1] /\ ecu'.total = Len(w)
        /\ Len(ecu'.msg) = FFFirst /\ Begins(ecu'.msg, w) /\ Len(w) > SFMaxLen
    BY <1>1, <1>3, <1>4 DEF HeadOf
  <2>2. Len(w) \in Nat
    BY <1>3 DEF RequestCarry, Wholes, Whole
  <2>3. Len(ecu'.msg) < ecu'.total
    BY <2>1, <2>2, Sizes
  <2>4. Offset(0) = FFFirst
    BY Sizes DEF Offset
  <2>5. InStep(FFFirst, ecu'.seq)
    BY <1>4, <2>4, NumbersStart DEF InStep
  <2> QED
    BY <2>1, <2>3, <2>5 DEF Collected
<1>6. ASSUME RequestLine
      PROVE  RequestLine'
  <2>1. PICK m \in Nat :
          Channel(toEcu, RequestHeads, RequestS, RequestO, RequestR(m))
    BY <1>6 DEF RequestLine
  <2>2. Channel(Tail(toEcu), RequestHeads, RequestS, RequestO,
                {<<Owner(f), FFFirst>>})
    BY <1>2, <2>1, Queues, ChannelTakesHead
  <2>3. RequestR(FFFirst)' = {<<Owner(f), FFFirst>>} /\ FFFirst \in Nat
    BY <1>4, Sizes DEF RequestR, Assembling, Owner
  <2>4. Channel(toEcu', RequestHeads', RequestS', RequestO', RequestR(FFFirst)')
    BY <1>2, <2>2, <2>3, HeadsSame
  <2> QED
    BY <1>2, <1>4, <1>5, <2>3, <2>4 DEF RequestLine
<1> QED
  BY <1>2, <1>6 DEF RequestKept

\* The next Consecutive Frame continues it, or ends it.
LEMMA EcuRecvCFRequest ==
    ASSUME Types, RequestCarry, NEW f, EcuRecvCF(f)
    PROVE  RequestKept
<1>1. EcuTakes(f) /\ ~Opens(f) /\ IsPart(f)
  BY DEF EcuRecvCF, Opens, IsPart
<1>2. CASE ecu' = ecu \/ ecu' = Idle
  <2>1. EcuKeeps
    BY <1>2, IdleType DEF EcuKeeps, Assembling, Taken
  <2> QED
    BY <1>1, <2>1, EcuSkipsRequest
<1>3. CASE ~(ecu' = ecu \/ ecu' = Idle)
  <2> DEFINE msg2 == Assembled(f)
  <2>1. /\ ecu.state = "assemble" /\ f.n = ecu.seq
        /\ ecu' = [ecu EXCEPT
                   !.msg = msg2,
                   !.seq = (@ + 1) % SeqModulus,
                   !.left = @ - 1,
                   !.state = IF Len(msg2) = ecu.total THEN "reply"
                             ELSE IF Len(msg2) < ecu.total /\ ecu.left = 1
                             THEN "grant" ELSE "assemble"]
    BY <1>3 DEF EcuRecvCF, Assembled
  <2>2. /\ ecu'.msg = msg2 /\ ecu'.total = ecu.total /\ ecu'.seq = NextSeq(ecu.seq)
        /\ ecu'.state = IF Len(msg2) = ecu.total THEN "reply"
                        ELSE IF Len(msg2) < ecu.total /\ ecu.left = 1
                        THEN "grant" ELSE "assemble"
    BY <2>1 DEF Types, EcuTypes, EcuRecords, NextSeq
  <2>3. msg2 = ecu.msg \o Chunk(f.data, 0, Least(CFPayload,
                                               ecu.total - Len(ecu.msg)))
    BY DEF Assembled
  <2>4. ecu.msg \in Seq(Bytes)
    BY DEF Types, EcuTypes, EcuRecords
  <2> HIDE DEF msg2
  <2>5. /\ RequestCarry' /\ Asked' = Asked
        /\ RequestS' = RequestS /\ RequestO' = RequestO
        /\ toEcu' = Tail(toEcu) /\ toEcu # <<>> /\ f = toEcu[1] /\ f \in Frames
    BY <1>1, EcuTakesRequest
  <2>6. PICK v \in Asked : PartOf(f, v)
    BY <1>1, EcuTakesRequest
  <2>7. ASSUME RequestLine
        PROVE  RequestLine'
    <3>1. PICK m \in Nat :
            /\ Channel(toEcu, RequestHeads, RequestS, RequestO, RequestR(m))
            /\ Assembling => Collected(Asked, ecu.msg, ecu.total, ecu.seq, m)
      BY <2>7 DEF RequestLine
    <3>2. /\ RequestR(m) = {<<ecu.msg[1][2], m>>}
          /\ Collected(Asked, ecu.msg, ecu.total, ecu.seq, m)
      BY <2>1, <3>1 DEF RequestR, Assembling
    <3>3. /\ Owner(f) = ecu.msg[1][2] /\ m < Place(f)
          /\ \A n \in Nat : n < Place(f) + CFPayload =>
               Channel(Tail(toEcu), RequestHeads, RequestS, RequestO,
                       {<<ecu.msg[1][2], n>>})
      <4> DEFINE r == <<ecu.msg[1][2], m>>
      <4>1. r \in RequestR(m) /\ r[1] = ecu.msg[1][2] /\ r[2] = m
        BY <3>2
      <4> HIDE DEF r
      <4>2. toEcu \in Seq(Frames) /\ IsPart(toEcu[1]) /\ f = toEcu[1]
        BY <1>1, <2>5, Queues
      <4>3. /\ Owner(toEcu[1]) = r[1] /\ r[2] < Place(toEcu[1])
            /\ \A n \in Nat : n < Place(toEcu[1]) + CFPayload =>
                 Channel(Tail(toEcu), RequestHeads, RequestS, RequestO,
                         {<<r[1], n>>})
        BY <2>5, <3>1, <4>1, <4>2, ChannelTakesPart
      <4> QED
        BY <4>1, <4>2, <4>3
    <3>4. Wholes(Asked)
      BY DEF RequestCarry
    <3>5. /\ msg2 # <<>> /\ msg2[1] = ecu.msg[1]
          /\ \/ Len(msg2) = ecu.total /\ msg2 \in Asked
             \/ /\ Len(msg2) < ecu.total
                /\ \E m2 \in Nat :
                     /\ Collected(Asked, msg2, ecu.total, NextSeq(ecu.seq), m2)
                     /\ m2 < Place(f) + CFPayload
      <4> DEFINE tot == ecu.total
                 s == ecu.seq
                 msg == ecu.msg
      <4>1. /\ msg2 = msg \o Chunk(f.data, 0, Least(CFPayload, tot - Len(msg)))
            /\ Collected(Asked, msg, tot, s, m) /\ msg \in Seq(Bytes)
            /\ Owner(f) = msg[1][2] /\ f.n = s
        BY <2>1, <2>3, <2>4, <3>2, <3>3
      <4> HIDE DEF tot, s, msg
      <4>2. /\ msg2 # <<>> /\ msg2[1] = msg[1]
            /\ \/ Len(msg2) = tot /\ msg2 \in Asked
               \/ /\ Len(msg2) < tot
                  /\ \E m2 \in Nat :
                       /\ Collected(Asked, msg2, tot, NextSeq(s), m2)
                       /\ m2 < Place(f) + CFPayload
        <5>1. Takes(Asked, msg, tot, s, m, f)
          BY <2>5, <2>6, <3>3, <3>4, <4>1 DEF Takes
        <5>2. Continues(Asked, msg, tot, s, m, f, msg2)
          BY <4>1, <5>1, Collects
        <5> QED
          BY <5>2 DEF Continues
      <4> QED
        BY <4>2 DEF tot, s, msg
    <3>6. CASE Len(msg2) = ecu.total /\ msg2 \in Asked
      <4>1. ecu'.state = "reply" /\ ecu'.msg \in Asked'
        BY <2>2, <2>5, <3>6
      <4>2. Channel(Tail(toEcu), RequestHeads, RequestS, RequestO, {})
        <5>1. m < Place(f) + CFPayload
          <6>1. Place(f) \in Nat
            BY <2>6, PartLemma, <2>5, <3>4 DEF Wholes, Offset
          <6> QED
            BY <3>3, <6>1, Sizes
        <5>2. Channel(Tail(toEcu), RequestHeads, RequestS, RequestO,
                      {<<ecu.msg[1][2], m>>})
          BY <3>3, <5>1
        <5> QED
          BY <5>2, SenderSets, ChannelStops
      <4>3. ~Assembling' /\ RequestR(m)' = {}
        BY <4>1 DEF Assembling, RequestR
      <4>4. Channel(toEcu', RequestHeads', RequestS', RequestO', RequestR(m)')
        BY <2>5, <4>2, <4>3, HeadsSame
      <4> QED
        BY <4>1, <4>3, <4>4 DEF RequestLine
    <3>7. CASE Len(msg2) < ecu.total
      <4>1. PICK m2 \in Nat :
              /\ Collected(Asked, msg2, ecu.total, NextSeq(ecu.seq), m2)
              /\ m2 < Place(f) + CFPayload
        BY <3>5, <3>7
      <4>2. Assembling' /\ ecu'.state # "reply"
        BY <2>2, <3>7 DEF Assembling
      <4>3. RequestR(m2)' = {<<ecu.msg[1][2], m2>>}
        BY <2>2, <3>5, <4>2 DEF RequestR, Assembling
      <4>4. Channel(toEcu', RequestHeads', RequestS', RequestO', RequestR(m2)')
        BY <2>5, <3>3, <4>1, <4>3, HeadsSame
      <4>5. Collected(Asked', ecu'.msg, ecu'.total, ecu'.seq, m2)
        BY <2>2, <2>5, <4>1
      <4> QED
        BY <4>2, <4>4, <4>5 DEF RequestLine
    <3> QED
      BY <3>5, <3>6, <3>7
  <2> QED
    BY <2>5, <2>7 DEF RequestKept
<1> QED
  BY <1>2, <1>3

-----------------------------------------------------------------------------
(* The tester sends a frame, or makes the next request.                    *)

LEMMA RequestOwners ==
    ASSUME Types, RequestCarry, NEW i \in 1..Len(toEcu),
           IsData(toEcu[i], RequestHeads)
    PROVE  \E w \in Asked : Owner(toEcu[i]) = w[1][2]
<1>1. toEcu[i] \in Frames
  BY Queues
<1>2. \A w \in Asked : Whole(w)
  BY DEF RequestCarry, Wholes
<1>3. CASE toEcu[i] \in RequestHeads
  BY <1>2, <1>3, HeadLemma DEF RequestCarry, Contents
<1>4. CASE IsPart(toEcu[i])
  <2>1. PICK w \in Asked : PartOf(toEcu[i], w)
    BY <1>4 DEF RequestCarry, Contents
  <2> QED
    BY <1>1, <1>2, <2>1, PartLemma
<1> QED
  BY <1>3, <1>4 DEF IsData

LEMMA AssemblingOwner ==
    ASSUME FreshInv, Assembling
    PROVE  ecu.msg[1][2] \in 0..call /\ (pc = "send_first" => ecu.msg[1][2] # call)
<1>1. TakenUp(ecu.msg[1][2])
  BY DEF TakenUp, Taken, Assembling
<1> QED
  BY <1>1 DEF FreshInv

\* The new request differs from those before it.
LEMMA StartRequest ==
    ASSUME Types, RequestCarry, FreshInv, NEW len \in env.reqLens, Start(len)
    PROVE  RequestKept
<1> DEFINE k == call + 1
<1>1. /\ call \in Nat /\ k \in Nat /\ len \in Nat
  BY Sizes, EnvTypes DEF Types, BusTypes, TesterTypes
<1>2. /\ pc \in {"idle", "done"} /\ call' = k /\ payload' = Request(k, len)
      /\ asked' = asked \cup {payload'} /\ UNCHANGED <<toEcu, ecu>>
      /\ pc' = "done" \/ (pc' = "send_first" /\ len # 0)
  BY DEF Start, Return, busVars
<1>3. ~Sending /\ ~(pc = "send_first")
  BY <1>2 DEF Sending
<1> HIDE DEF k
<1>4. CASE len = 0
  <2>1. payload' = <<>>
    <3>1. payload' \in Seq(Bytes) /\ Len(payload') = 0
      BY <1>1, <1>2, <1>4, RequestLemma
    <3> QED
      BY <3>1, EmptySeq
  <2>2. Asked' = Asked /\ ~Sending' /\ toEcu' = toEcu
    BY <1>2, <1>4, <2>1 DEF Asked, Sending
  <2>3. RequestCarry'
    BY <2>2, HeadsSame DEF RequestCarry, Sending
  <2>4. ASSUME RequestLine
        PROVE  RequestLine'
    <3>1. EcuKeeps
      BY <1>2 DEF EcuKeeps, Assembling
    <3>2. RequestS' = {} /\ RequestO' = {}
      BY <2>2 DEF RequestS, RequestO, Sending
    <3>3. ASSUME NEW m \in Nat,
                 Channel(toEcu, RequestHeads, RequestS, RequestO, RequestR(m))
          PROVE  Channel(toEcu', RequestHeads, RequestS', RequestO', RequestR(m))
      BY <2>2, <3>2, <3>3, ChannelStops
    <3> QED
      BY <2>2, <2>4, <3>1, <3>3, RequestLineKept
  <2> QED
    BY <2>3, <2>4 DEF RequestKept
<1>5. CASE len # 0
  <2>1. Whole(payload') /\ payload'[1][2] = k /\ payload' # <<>>
    <3>1. Whole(Request(k, len)) /\ Request(k, len)[1] = <<"req", k, 1>>
      BY <1>1, <1>5, MadePayload
    <3>2. Request(k, len) # <<>>
      BY <3>1, EmptySeq DEF Whole
    <3> QED
      BY <1>2, <3>1, <3>2
  <2>2. Asked' = Asked \cup {payload'}
    BY <1>2, <2>1 DEF Asked
  <2>3. \A w \in Asked : Whole(w) /\ w[1][2] # k
    <3>1. \A n \in 0..call : n # k
      BY <1>1 DEF k
    <3> QED
      BY <3>1 DEF RequestCarry, Wholes, FreshInv
  <2>4. Wholes(Asked')
    BY <2>1, <2>2, <2>3 DEF RequestCarry, Wholes
  <2>5. Contents(toEcu', RequestHeads, Asked')
    <3>1. \A i \in 1..Len(toEcu') : \E j \in 1..Len(toEcu) : toEcu'[i] = toEcu[j]
      BY <1>2
    <3>2. Asked \subseteq Asked'
      BY <2>2
    <3> QED
      BY <3>1, <3>2, ContentsKept DEF RequestCarry
  <2>6. RequestCarry'
    BY <1>2, <2>2, <2>4, <2>5, HeadsSame DEF RequestCarry
  <2>7. ASSUME RequestLine
        PROVE  RequestLine'
    <3>1. EcuKeeps
      BY <1>2 DEF EcuKeeps, Assembling
    <3>2. RequestS' \subseteq {<<k, 0>>} /\ RequestO' = {}
      BY <1>2 DEF RequestS, RequestO
    <3>3. ASSUME NEW m \in Nat,
                 Channel(toEcu, RequestHeads, RequestS, RequestO, RequestR(m))
          PROVE  Channel(toEcu', RequestHeads, RequestS', RequestO', RequestR(m))
      <4>1. \A i \in 1..Len(toEcu) :
              IsData(toEcu[i], RequestHeads) => Owner(toEcu[i]) # k
        BY <2>3, RequestOwners
      <4>2. \A r \in RequestR(m) : r[1] # k
        <5>1. Assembling => ecu.msg[1][2] # k
          BY <1>1, AssemblingOwner DEF k
        <5> QED
          BY <5>1 DEF RequestR
      <4>3. Channel(toEcu, RequestHeads, {<<k, 0>>}, {}, RequestR(m))
        BY <3>3, <4>1, <4>2, ChannelTurns
      <4>4. Channel(toEcu, RequestHeads, RequestS', {}, RequestR(m))
        BY <3>2, <4>3, ChannelStops
      <4> QED
        BY <1>2, <3>2, <4>4
    <3>4. Asked \subseteq Asked'
      BY <2>2
    <3> QED
      BY <2>7, <3>1, <3>3, <3>4, RequestLineKept
  <2> QED
    BY <2>6, <2>7 DEF RequestKept
<1> QED
  BY <1>4, <1>5

\* What the tester sends is put at the end of the queue.
LEMMA RequestSent ==
    ASSUME Types, RequestCarry, NEW f \in Frames, Send(f), UNCHANGED <<asked, ecu>>,
           Opens(f) => HeadOf(f, payload), IsPart(f) => PartOf(f, payload),
           Opens(f) \/ IsPart(f) => payload \in Asked
    PROVE  /\ toEcu' = Append(toEcu, f) /\ Asked' = Asked /\ EcuKeeps
           /\ Contents(toEcu', RequestHeads, Asked)
<1>1. toEcu' = Append(toEcu, f) /\ Asked' = Asked /\ EcuKeeps
  BY DEF Send, Asked, EcuKeeps, Assembling
<1>2. Contents(Append(toEcu, f), RequestHeads, Asked)
  <2>1. f \in RequestHeads => \E w \in Asked : HeadOf(f, w)
    BY DEF RequestHeads
  <2>2. IsPart(f) => \E w \in Asked : PartOf(f, w)
    OBVIOUS
  <2>3. Contents(toEcu, RequestHeads, Asked)
    BY DEF RequestCarry
  <2> QED
    BY <2>1, <2>2, <2>3, Queues, ContentsSent
<1> QED
  BY <1>1, <1>2

\* No frame of the request has been sent before.
LEMMA SendFirstRequest ==
    ASSUME Types, RequestCarry, FreshInv, SendFirst
    PROVE  RequestKept
<1> DEFINE f == FirstFrame
<1>1. /\ pc = "send_first" /\ f \in Frames /\ Send(f)
      /\ pc' \in {"recv_first", "wait_fc"} /\ UNCHANGED <<asked, ecu, call, payload>>
  BY SendFirstTypes DEF SendFirst
<1>2. /\ f \in RequestHeads /\ ~IsPart(f) /\ Opens(f) /\ HeadOf(f, payload)
      /\ Owner(f) = call /\ Place(f) = 1
  BY <1>1, FirstFrameHead DEF RequestHeads
<1> HIDE DEF f
<1>3. payload \in Asked
  BY <1>1 DEF RequestCarry, Sending
<1>4. /\ toEcu' = Append(toEcu, f) /\ Asked' = Asked /\ EcuKeeps
      /\ Contents(toEcu', RequestHeads, Asked)
  BY <1>1, <1>2, <1>3, RequestSent
<1>5. RequestCarry'
  BY <1>1, <1>3, <1>4, HeadsSame DEF RequestCarry
<1>6. ASSUME RequestLine
      PROVE  RequestLine'
  <2>1. ASSUME NEW m \in Nat,
               Channel(toEcu, RequestHeads, RequestS, RequestO, RequestR(m))
        PROVE  Channel(toEcu', RequestHeads, RequestS', RequestO', RequestR(m))
    <3>1. \A i \in 1..Len(toEcu) :
            IsData(toEcu[i], RequestHeads) => Owner(toEcu[i]) # Owner(f)
      <4> SUFFICES ASSUME NEW i \in 1..Len(toEcu),
                          IsData(toEcu[i], RequestHeads), Owner(toEcu[i]) = call
                   PROVE  FALSE
        BY <1>2
      <4> DEFINE s == <<call, 0>>
      <4>1. s \in RequestS /\ s[1] = call /\ s[2] = 0
        BY <1>1 DEF RequestS
      <4> HIDE DEF s
      <4>2. Place(toEcu[i]) <= 0
        BY <2>1, <4>1 DEF Channel, Sent
      <4>3. Marked(toEcu, RequestHeads)
        BY <2>1 DEF Channel
      <4>4. Place(toEcu[i]) \in Nat /\ 1 <= Place(toEcu[i])
        BY <4>3, MarkedLemma
      <4> QED
        BY <4>2, <4>4
    <3>2. \A r \in RequestR(m) : r[1] # Owner(f)
      <4>1. Assembling => ecu.msg[1][2] # call
        BY <1>1, AssemblingOwner
      <4> QED
        BY <1>2, <4>1 DEF RequestR
    <3>3. RequestO' = RequestS'
      BY <1>1 DEF RequestS
    <3>4. \A s \in RequestS' : s[1] = Owner(f) /\ s[2] \in Places
      BY <1>1, <1>2, PlacesLemma DEF RequestS, RequestO
    <3>5. Channel(Append(toEcu, f), RequestHeads, RequestS', RequestS', RequestR(m))
      BY <1>1, <1>2, <2>1, <3>1, <3>2, <3>4, Queues, ChannelSendsHead
    <3> QED
      BY <1>4, <3>3, <3>5
  <2> QED
    BY <1>4, <1>6, <2>1, RequestLineKept
<1> QED
  BY <1>5, <1>6 DEF RequestKept

LEMMA SendCFRequest ==
    ASSUME Types, CarryInv, SendCF
    PROVE  RequestKept
<1> DEFINE f == NextFrame
<1>1. /\ pc = "send_cf" /\ f \in Frames /\ Send(f)
      /\ pc' \in {"done", "recv_first"} \/ (pc' = "send_cf" /\ offset' < Len(payload))
      /\ offset' = Least(offset + CFPayload, Len(payload)) /\ seq' = NextSeq(seq)
      /\ UNCHANGED <<asked, ecu, call, payload>>
  BY SendCFTypes DEF SendCF
<1>2. /\ f \notin RequestHeads /\ IsPart(f) /\ ~Opens(f) /\ PartOf(f, payload)
      /\ payload \in Asked /\ Owner(f) = call /\ Place(f) = offset + 1
      /\ offset \in Places
      /\ pc' = "send_cf" =>
           offset' = offset + CFPayload /\ InStep(offset', seq')
  BY <1>1, NextFramePart DEF RequestHeads
<1> HIDE DEF f
<1>3. RequestCarry
  BY DEF CarryInv
<1>4. /\ toEcu' = Append(toEcu, f) /\ Asked' = Asked /\ EcuKeeps
      /\ Contents(toEcu', RequestHeads, Asked)
  BY <1>1, <1>2, <1>3, RequestSent
<1>5. RequestCarry'
  BY <1>1, <1>2, <1>3, <1>4, HeadsSame DEF RequestCarry
<1>6. ASSUME RequestLine
      PROVE  RequestLine'
  <2>1. ASSUME NEW m \in Nat,
               Channel(toEcu, RequestHeads, RequestS, RequestO, RequestR(m))
        PROVE  Channel(toEcu', RequestHeads, RequestS', RequestO', RequestR(m))
    <3>1. <<Owner(f), offset>> \in RequestO
      BY <1>1, <1>2 DEF RequestO
    <3>2. RequestO' = RequestS'
      BY <1>1 DEF RequestS
    <3>3. \A s \in RequestS' :
            s[1] = Owner(f) /\ s[2] \in Places /\ offset < s[2]
      <4>1. /\ offset + CFPayload \in Places
            /\ offset < offset + CFPayload
        BY <1>2, PlacesLemma, Sizes
      <4> QED
        BY <1>1, <1>2, <4>1 DEF RequestS, RequestO
    <3>4. Channel(Append(toEcu, f), RequestHeads, RequestS', RequestS', RequestR(m))
      BY <1>1, <1>2, <2>1, <3>1, <3>3, Queues, ChannelSendsPart
    <3> QED
      BY <1>4, <3>2, <3>4
  <2> QED
    BY <1>4, <1>6, <2>1, RequestLineKept
<1> QED
  BY <1>5, <1>6 DEF RequestKept

LEMMA SendFCRequest ==
    ASSUME Types, RequestCarry, SendFC
    PROVE  RequestKept
<1> DEFINE f == EncodeFC(CTS, BlockSize)
<1>1. /\ f \in Frames /\ Send(f) /\ pc' = "recv_cf"
      /\ UNCHANGED <<asked, ecu, call, payload>>
  BY SendFCTypes DEF SendFC
<1>2. ~Opens(f) /\ ~IsPart(f)
  BY DEF EncodeFC, FC, Opens, IsPart
<1> HIDE DEF f
<1>3. ~IsData(f, RequestHeads)
  BY <1>2 DEF IsData, RequestHeads
<1>4. /\ toEcu' = Append(toEcu, f) /\ Asked' = Asked /\ EcuKeeps
      /\ Contents(toEcu', RequestHeads, Asked)
  BY <1>1, <1>2, RequestSent
<1>5. TesterKeeps
  BY <1>1 DEF TesterKeeps, Sending
<1>6. RequestCarry'
  BY <1>1, <1>4, <1>5, RequestCarryKept
<1>7. ASSUME RequestLine
      PROVE  RequestLine'
  <2>1. ASSUME NEW m \in Nat,
               Channel(toEcu, RequestHeads, RequestS, RequestO, RequestR(m))
        PROVE  Channel(toEcu', RequestHeads, RequestS', RequestO', RequestR(m))
    <3>1. Channel(toEcu', RequestHeads, RequestS, RequestO, RequestR(m))
      BY <1>1, <1>3, <1>4, <2>1, Queues, ChannelSendsOther
    <3>2. RequestS' = {} /\ RequestO' = {}
      BY <1>1 DEF RequestS, RequestO
    <3> QED
      BY <3>1, <3>2, ChannelStops
  <2> QED
    BY <1>4, <1>7, <2>1, RequestLineKept
<1> QED
  BY <1>6, <1>7 DEF RequestKept

\* A request lost is the only one: else an earlier call has failed.
LEMMA LoseRequest ==
    ASSUME Types, TurnInv, RequestCarry, Lose
    PROVE  RequestCarry' /\ (TransfersAreDistinct' /\ RequestLine => RequestLine')
<1>1. /\ UNCHANGED <<call, pc, payload, offset, seq, ecu, asked, abandoned>>
      /\ lost' = lost + 1 /\ lost \in Nat
  BY DEF Lose, testerVars, sendVars, histVars, Types, BusTypes
<1>2. TesterKeeps /\ EcuKeeps /\ Asked \subseteq Asked'
  BY <1>1 DEF TesterKeeps, EcuKeeps, Assembling, Asked
<1>3. CASE UNCHANGED toEcu
  BY <1>1, <1>2, <1>3, RequestStill
<1>4. ASSUME NEW k \in DOMAIN toEcu, toEcu' = RemoveAt(toEcu, k)
      PROVE  RequestCarry' /\ (TransfersAreDistinct' /\ RequestLine => RequestLine')
  <2>1. RequestCarry'
    <3>1. \A i \in 1..Len(toEcu') : \E j \in 1..Len(toEcu) : toEcu'[i] = toEcu[j]
      BY <1>4, RemoveFrames, Queues
    <3>2. Contents(toEcu', RequestHeads, Asked)
      BY <3>1, ContentsKept DEF RequestCarry
    <3> QED
      BY <1>1, <1>2, <3>2, RequestCarryKept
  <2>2. ASSUME TransfersAreDistinct', RequestLine
        PROVE  RequestLine'
    <3>1. OnePlace
      BY <1>1, <2>2 DEF TransfersAreDistinct, TurnInv, Types, TesterTypes
    <3>2. k \in 1..Len(toEcu)
      BY <1>4, Queues
    <3>3. ASSUME NEW m \in Nat,
                 Channel(toEcu, RequestHeads, RequestS, RequestO, RequestR(m))
          PROVE  Channel(toEcu', RequestHeads, RequestS', RequestO', RequestR(m))
      <4>1. \A i \in 1..Len(toEcu) : toEcu[i] \in RequestHeads => Opens(toEcu[i])
        BY DEF RequestHeads
      <4>2. toEcu[k] \in RequestHeads =>
              RequestR(m) = {} /\ \A i \in 1..Len(toEcu) :
                                    toEcu[i] \in RequestHeads => i = k
        <5> SUFFICES ASSUME toEcu[k] \in RequestHeads
                     PROVE  RequestR(m) = {} /\ \A i \in 1..Len(toEcu) :
                                    toEcu[i] \in RequestHeads => i = k
          OBVIOUS
        <5>1. Requested /\ k = Len(toEcu)
          BY <3>1, <3>2, <4>1 DEF Requested, OnePlace
        <5>2. ~Assembling
          BY <3>1, <5>1 DEF OnePlace, Taken, Assembling
        <5> QED
          BY <3>1, <4>1, <5>1, <5>2 DEF OnePlace, RequestR
      <4>3. Channel(toEcu', RequestHeads, RequestS, RequestO, RequestR(m))
        BY <1>4, <3>3, <4>2, Queues, ChannelLoses
      <4>4. RequestS' = RequestS /\ RequestO' = RequestO
        BY <1>1 DEF RequestS, RequestO
      <4> QED
        BY <4>3, <4>4
    <3> QED
      BY <1>2, <2>2, <3>3, RequestLineKept
  <2> QED
    BY <2>1, <2>2
<1> QED
  BY <1>3, <1>4 DEF Lose

LEMMA RequestNext ==
    ASSUME IInv, CarryInv, FreshInv, [Next]_vars
    PROVE  RequestCarry' /\ (TransfersAreDistinct' /\ RequestLine => RequestLine')
<1>1. Types /\ TurnInv /\ RequestCarry
  BY DEF IInv, CarryInv
<1>2. ASSUME NEW len \in env.reqLens, Start(len)
      PROVE  RequestKept
  BY <1>1, <1>2, StartRequest
<1>3. CASE TesterStep
  <2>1. CASE SendFirst
    BY <1>1, <2>1, SendFirstRequest DEF RequestKept
  <2>2. CASE SendCF
    BY <1>1, <2>2, SendCFRequest DEF RequestKept
  <2>3. CASE SendFC
    BY <1>1, <2>3, SendFCRequest DEF RequestKept
  <2>4. CASE Poll \/ GiveUp \/ RecvNone \/ SocketError
    BY <1>1, <2>4, AsideRequest DEF Aside, RequestKept
  <2>5. ASSUME NEW f,
               RecvForeign(f) \/ RecvFC(f) \/ RecvFirst(f) \/ RecvCF(f)
        PROVE  RequestKept
    BY <1>1, <2>5, TakeRequest
  <2> QED
    BY <1>3, <2>1, <2>2, <2>3, <2>4, <2>5 DEF TesterStep, RequestKept
<1>4. CASE EcuStep
  <2>1. ASSUME NEW f,
               EcuRecvSF(f) \/ EcuRecvFF(f) \/ EcuRecvCF(f) \/ EcuRecvFC(f)
        PROVE  RequestKept
    BY <1>1, <2>1, EcuRecvSFRequest, EcuRecvFFRequest, EcuRecvCFRequest,
       EcuRecvFCRequest
  <2>2. CASE \/ \E b \in env.blocks : EcuGrant(b)
             \/ EcuWait
             \/ EcuOverflow
             \/ \E len \in env.respLens : EcuReply(len)
             \/ EcuSendCF
             \/ EcuAbandons
    BY <1>1, <2>2, EcuSendsRequest DEF RequestKept
  <2> QED
    BY <1>4, <2>1, <2>2 DEF EcuStep, RequestKept
<1>5. CASE Lose
  BY <1>1, <1>5, LoseRequest
<1>6. CASE Disturb
  BY <1>1, <1>6, DisturbRequest DEF RequestKept
<1>7. CASE DeadlinePasses
  BY <1>1, <1>7, AsideRequest DEF Aside, RequestKept
<1>8. CASE UNCHANGED vars
  <2>1. UNCHANGED <<toEcu, asked, testerVars, ecu>>
    BY <1>8 DEF vars, busVars, testerVars, sendVars, recvVars, histVars
  <2>2. EcuKeeps
    BY <2>1 DEF EcuKeeps, Assembling
  <2> QED
    BY <1>1, <2>1, <2>2, RequestByEcu DEF RequestKept
<1> QED
  BY <1>2, <1>3, <1>4, <1>5, <1>6, <1>7, <1>8 DEF Next, RequestKept

-----------------------------------------------------------------------------
(* The responses' side is kept.                                            *)

LEMMA AnnouncedStops ==
    ASSUME NEW Q, NEW H, NEW S, NEW l \in Nat, Announced(Q, H, S, l),
           NEW S2 \in SUBSET S, NEW l2 \in Nat, l <= l2
    PROVE  Announced(Q, H, S2, l2)
<1>1. ASSUME NEW i \in 1..Len(Q), Q[i] \in H
      PROVE  Accounted(Q, S2, Owner(Q[i]), 0, l2)
  <2>1. Accounted(Q, S, Owner(Q[i]), 0, l)
    BY <1>1 DEF Announced
  <2>2. Accounted(Q, S2, Owner(Q[i]), 0, l)
    BY <2>1, AccountedStops
  <2> QED
    BY <2>2, AccountedLess
<1> QED
  BY <1>1 DEF Announced

\* No part of a message is before its head.
LEMMA AnnouncedTail ==
    ASSUME NEW Q \in Seq(Frames), Q # <<>>, NEW H, NEW S, NEW l \in Nat,
           Announced(Q, H, S, l), Marked(Q, H), Rising(Q, H)
    PROVE  Announced(Tail(Q), H, S, l)
<1>1. /\ Len(Q) \in Nat \ {0} /\ Len(Tail(Q)) = Len(Q) - 1
      /\ \A i \in 1..Len(Tail(Q)) : Tail(Q)[i] = Q[i + 1]
  BY TailLemma
<1>2. ASSUME NEW i \in 1..Len(Tail(Q)), Tail(Q)[i] \in H
      PROVE  Accounted(Tail(Q), S, Owner(Tail(Q)[i]), 0, l)
  <2> DEFINE j == i + 1
             k == Owner(Q[j])
  <2>1. j \in 1..Len(Q) /\ 1 \in 1..Len(Q) /\ 1 < j /\ Tail(Q)[i] = Q[j]
    BY <1>1
  <2> HIDE DEF j
  <2>2. Accounted(Q, S, k, 0, l)
    BY <1>2, <2>1 DEF Announced
  <2>3. ~(IsPart(Q[1]) /\ Owner(Q[1]) = k)
    <3> SUFFICES ASSUME IsPart(Q[1]), Owner(Q[1]) = k
                 PROVE  FALSE
      OBVIOUS
    <3>1. IsData(Q[1], H) /\ IsData(Q[j], H) /\ Place(Q[j]) = 1
      BY <1>2, <2>1 DEF IsData, Marked
    <3>2. Place(Q[1]) \in Nat /\ 1 <= Place(Q[1])
      BY <2>1, <3>1, MarkedLemma
    <3>3. Place(Q[1]) < Place(Q[j])
      BY <2>1, <3>1 DEF Rising
    <3> QED
      BY <3>1, <3>2, <3>3
  <2> HIDE DEF k
  <2>4. Accounted(Tail(Q), S, k, 0, l)
    BY <2>2, <2>3, AccountedTail
  <2> QED
    BY <2>1, <2>4 DEF k
<1> QED
  BY <1>2 DEF Announced

\* The tester collects the same as before or stops; so does the ECU send.
ReceiverKeeps ==
    /\ Collecting' => /\ Collecting
                      /\ out' = out /\ total' = total /\ Awaits' = Awaits
    /\ result' = "ok" => result = "ok" /\ out' = out
ResponderKeeps ==
    Responding' => /\ Responding /\ ecu'.msg = ecu.msg
                   /\ ecu'.total = ecu.total /\ ecu'.seq = ecu.seq

\* A step that keeps the responses' side of the invariant.
ResponseKept == ResponseCarry' /\ (ResponseLine => ResponseLine')

LEMMA ResponseSets ==
    /\ ResponderKeeps => ResponseS' \subseteq ResponseS
    /\ ReceiverKeeps => \A m : ResponseR(m)' \subseteq ResponseR(m)
  BY DEF ResponderKeeps, ReceiverKeeps, ResponseS, ResponseR

LEMMA ResponseCarryKept ==
    ASSUME ResponseCarry, UNCHANGED answers, ResponderKeeps,
           Contents(toTester', ReplyHeads, answers)
    PROVE  ResponseCarry'
  BY HeadsSame DEF ResponseCarry, ResponderKeeps

LEMMA ResponseLineKept ==
    ASSUME ResponseLine, answers \subseteq answers', UNCHANGED env, ReceiverKeeps,
           \A m \in Nat :
             Channel(toTester, ReplyHeads, ResponseS, ResponseS, ResponseR(m)) =>
             /\ Channel(toTester', ReplyHeads, ResponseS', ResponseS', ResponseR(m)')
             /\ Collecting' /\ Accounted(toTester, ResponseS, out[1][2], m, lost) =>
                  Accounted(toTester', ResponseS', out[1][2], m, lost')
             /\ Announced(toTester, ReplyHeads, ResponseS, lost) =>
                  Announced(toTester', ReplyHeads, ResponseS', lost')
    PROVE  ResponseLine'
<1>1. PICK m \in Nat :
        /\ Channel(toTester, ReplyHeads, ResponseS, ResponseS, ResponseR(m))
        /\ Collecting => Collected(answers, out, total, Awaits, m) /\ InTime(m)
  BY DEF ResponseLine
<1>2. Channel(toTester', ReplyHeads', ResponseS', ResponseS', ResponseR(m)')
  BY <1>1, HeadsSame
<1>3. Collecting' => Collected(answers', out', total', Awaits', m)
  BY <1>1 DEF ReceiverKeeps, Collected
<1>4. Collecting' => InTime(m)'
  BY <1>1 DEF ReceiverKeeps, InTime
<1>5. Announced(toTester', ReplyHeads', ResponseS', lost')
  BY <1>1, HeadsSame DEF ResponseLine
<1>6. result' = "ok" => out' \in answers'
  BY DEF ReceiverKeeps, ResponseLine
<1> QED
  BY <1>2, <1>3, <1>4, <1>5, <1>6 DEF ResponseLine

LEMMA ResponseStill ==
    ASSUME ResponseCarry, UNCHANGED <<env, toTester, answers>>, ReceiverKeeps,
           ResponderKeeps, lost \in Nat, lost' \in Nat, lost <= lost'
    PROVE  ResponseKept
<1>1. Contents(toTester', ReplyHeads, answers)
  BY DEF ResponseCarry
<1>2. ASSUME ResponseLine
      PROVE  ResponseLine'
  <2>1. ResponseS' \subseteq ResponseS /\ \A m : ResponseR(m)' \subseteq ResponseR(m)
    BY ResponseSets
  <2>2. ASSUME NEW m \in Nat,
               Channel(toTester, ReplyHeads, ResponseS, ResponseS, ResponseR(m))
        PROVE  Channel(toTester', ReplyHeads, ResponseS', ResponseS', ResponseR(m)')
    BY <2>1, <2>2, ChannelStops
  <2>3. ASSUME NEW m \in Nat, NEW k, Accounted(toTester, ResponseS, k, m, lost)
        PROVE  Accounted(toTester', ResponseS', k, m, lost')
    <3>1. Accounted(toTester, ResponseS', k, m, lost)
      BY <2>1, <2>3, AccountedStops
    <3> QED
      BY <3>1, AccountedLess
  <2>4. Announced(toTester, ReplyHeads, ResponseS, lost) =>
          Announced(toTester', ReplyHeads, ResponseS', lost')
    BY <2>1, AnnouncedStops
  <2> QED
    BY <1>2, <2>2, <2>3, <2>4, ResponseLineKept
<1> QED
  BY <1>1, <1>2, ResponseCarryKept DEF ResponseKept

\* Steps that leave the queue of responses alone.
LEMMA TesterResponse ==
    ASSUME Types, ResponseCarry,
           \/ Aside \/ SendFirst \/ SendCF \/ SendFC
           \/ \E len \in env.reqLens : Start(len)
    PROVE  ResponseKept
<1>1. UNCHANGED <<env, toTester, answers, ecu, lost>> /\ lost \in Nat
  <2>1. lost \in Nat
    BY DEF Types, BusTypes
  <2>2. CASE Aside
    BY <2>1, <2>2 DEF Aside, Poll, GiveUp, RecvNone, SocketError, DeadlinePasses,
                      busVars, histVars
  <2>3. CASE SendFirst \/ SendCF \/ SendFC \/ \E len \in env.reqLens : Start(len)
    BY <2>1, <2>3 DEF SendFirst, SendCF, SendFC, Start, busVars
  <2> QED
    BY <2>2, <2>3
<1>2. ReceiverKeeps
  <2>1. CASE Aside
    BY <2>1, AsideTypes DEF Passive, ReceiverKeeps, Collecting, Awaits, Errors
  <2>2. CASE SendFirst
    BY <2>2, SendFirstTypes DEF SendFirst, recvVars, ReceiverKeeps, Collecting
  <2>3. CASE SendCF
    <3>1. pc' \in {"done", "send_cf", "recv_first"} /\ out' = out
          /\ result' \in {result, "Unsupported"}
      BY <2>3 DEF SendCF, recvVars, Return
    <3> QED
      BY <3>1 DEF ReceiverKeeps, Collecting
  <2>4. CASE SendFC
    BY <2>4 DEF SendFC, ReceiverKeeps, Collecting, Awaits
  <2>5. ASSUME NEW len \in env.reqLens, Start(len)
        PROVE  ReceiverKeeps
    BY <2>5 DEF Start, Return, ReceiverKeeps, Collecting
  <2> QED
    BY <2>1, <2>2, <2>3, <2>4, <2>5
<1>3. ResponderKeeps
  BY <1>1 DEF ResponderKeeps, Responding
<1> QED
  BY <1>1, <1>2, <1>3, ResponseStill

LEMMA EcuTakesResponse ==
    ASSUME Types, ResponseCarry,
           \/ \E f : EcuRecvSF(f) \/ EcuRecvFF(f) \/ EcuRecvCF(f) \/ EcuRecvFC(f)
           \/ EcuAbandons
    PROVE  ResponseKept
<1>1. /\ UNCHANGED <<env, toTester, answers, lost, testerVars>> /\ lost \in Nat
  <2>1. lost \in Nat
    BY DEF Types, BusTypes
  <2>2. (\E f : EcuTakes(f)) \/ EcuAbandons
    BY DEF EcuRecvSF, EcuRecvFF, EcuRecvCF, EcuRecvFC
  <2>3. ASSUME NEW f, EcuTakes(f)
        PROVE  UNCHANGED <<env, toTester, answers, lost, testerVars>>
    BY <2>3 DEF EcuTakes, histVars
  <2>4. CASE EcuAbandons
    BY <2>1, <2>4 DEF EcuAbandons, busVars, histVars
  <2> QED
    BY <2>1, <2>2, <2>3, <2>4
<1>2. ReceiverKeeps
  BY <1>1 DEF testerVars, recvVars, ReceiverKeeps, Collecting, Awaits
<1>3. ResponderKeeps
  <2>1. ASSUME NEW f, EcuRecvSF(f)
        PROVE  ResponderKeeps
    BY <2>1, EcuRecvSFTypes DEF ResponderKeeps, Responding
  <2>2. ASSUME NEW f, EcuRecvFF(f)
        PROVE  ResponderKeeps
    BY <2>2, EcuRecvFFTypes DEF ResponderKeeps, Responding
  <2>3. ASSUME NEW f, EcuRecvCF(f)
        PROVE  ResponderKeeps
    BY <2>3, EcuRecvCFTypes, IdleType DEF ResponderKeeps, Responding
  <2>4. ASSUME NEW f, EcuRecvFC(f)
        PROVE  ResponderKeeps
    BY <2>4, EcuRecvFCTypes DEF ResponderKeeps, Responding
  <2>5. CASE EcuAbandons
    BY <2>5, EcuAbandonsTypes, IdleType DEF ResponderKeeps, Responding
  <2> QED
    BY <2>1, <2>2, <2>3, <2>4, <2>5
<1> QED
  BY <1>1, <1>2, <1>3, ResponseStill

\* Steps that add a frame of no response to it.
LEMMA ResponseOther ==
    ASSUME Types, ResponseCarry, NEW f \in Frames, ~IsReply(f), ~IsPart(f),
           toTester' = Append(toTester, f), UNCHANGED <<env, lost, testerVars, answers>>,
           ResponderKeeps
    PROVE  ResponseKept
<1>1. ~IsData(f, ReplyHeads) /\ f \notin ReplyHeads
  BY DEF IsData, ReplyHeads
<1>2. toTester \in Seq(Frames) /\ Len(toTester) \in Nat /\ lost \in Nat
  BY Queues DEF Types, BusTypes
<1>3. ReceiverKeeps
  BY DEF testerVars, recvVars, ReceiverKeeps, Collecting, Awaits
<1>4. ResponseCarry'
  <2>1. Contents(toTester', ReplyHeads, answers)
    BY <1>1, <1>2, ContentsSent DEF ResponseCarry
  <2> QED
    BY <2>1, ResponseCarryKept
<1>5. ASSUME ResponseLine
      PROVE  ResponseLine'
  <2>1. ResponseS' \subseteq ResponseS /\ \A m : ResponseR(m)' \subseteq ResponseR(m)
    BY <1>3, ResponseSets
  <2>2. ASSUME NEW m \in Nat,
               Channel(toTester, ReplyHeads, ResponseS, ResponseS, ResponseR(m))
        PROVE  Channel(toTester', ReplyHeads, ResponseS', ResponseS', ResponseR(m)')
    <3>1. Channel(toTester', ReplyHeads, ResponseS, ResponseS, ResponseR(m))
      BY <1>1, <1>2, <2>2, ChannelSendsOther
    <3> QED
      BY <2>1, <3>1, ChannelStops
  <2>3. ASSUME NEW m \in Nat, NEW k, Accounted(toTester, ResponseS, k, m, lost)
        PROVE  Accounted(toTester', ResponseS', k, m, lost')
    BY <1>2, <2>1, <2>3, AccountedOther
  <2>4. ASSUME Announced(toTester, ReplyHeads, ResponseS, lost)
        PROVE  Announced(toTester', ReplyHeads, ResponseS', lost')
    <3>1. ASSUME NEW i \in 1..Len(toTester'), toTester'[i] \in ReplyHeads
          PROVE  Accounted(toTester', ResponseS', Owner(toTester'[i]), 0, lost')
      <4>1. i \in 1..Len(toTester) /\ toTester'[i] = toTester[i]
        BY <1>1, <1>2, <3>1, AppendLemma
      <4>2. Accounted(toTester, ResponseS, Owner(toTester[i]), 0, lost)
        BY <2>4, <3>1, <4>1 DEF Announced
      <4> QED
        BY <2>3, <4>1, <4>2
    <3> QED
      BY <3>1 DEF Announced
  <2> QED
    BY <1>3, <1>5, <2>2, <2>3, <2>4, ResponseLineKept
<1> QED
  BY <1>4, <1>5 DEF ResponseKept

LEMMA EcuFlowResponse ==
    ASSUME Types, ResponseCarry,
           \/ \E b \in env.blocks : EcuGrant(b)
           \/ EcuWait
           \/ EcuOverflow
    PROVE  ResponseKept
<1>1. PICK f : f.pci = "FC" /\ f \in Frames /\ EcuSends(f)
  <2>1. ASSUME NEW b \in env.blocks, EcuGrant(b)
        PROVE  \E f : f.pci = "FC" /\ f \in Frames /\ EcuSends(f)
    BY <2>1, EcuGrantTypes
  <2>2. /\ FC(WAIT, 0) \in Frames /\ FC(OVERFLOW, 0) \in Frames
        /\ FC(WAIT, 0).pci = "FC" /\ FC(OVERFLOW, 0).pci = "FC"
    <3>1. WAIT \in 0..3 /\ OVERFLOW \in 0..3 /\ 0 \in Nat
      BY DEF WAIT, OVERFLOW
    <3>2. FC(WAIT, 0) \in Frames /\ FC(OVERFLOW, 0) \in Frames
      BY <3>1, FCType
    <3> QED
      BY <3>2 DEF FC
  <2> QED
    BY <2>1, <2>2 DEF EcuWait, EcuOverflow
<1>2. ~IsReply(f) /\ ~IsPart(f)
  BY <1>1 DEF IsReply, IsSingle, IsFirst, IsPart
<1>3. /\ toTester' = Append(toTester, f)
      /\ UNCHANGED <<env, lost, testerVars, answers>>
  BY <1>1 DEF EcuSends, EcuGrant, EcuWait, EcuOverflow
<1>4. ResponderKeeps
  BY EcuGrantTypes, EcuWaitTypes, EcuOverflowTypes, IdleType
     DEF ResponderKeeps, Responding
<1> QED
  BY <1>1, <1>2, <1>3, <1>4, ResponseOther

LEMMA DisturbResponse ==
    ASSUME Types, ResponseCarry, Disturb
    PROVE  ResponseKept
<1>1. PICK f \in Foreign \cup Malformed : toTester' = Append(toTester, f)
  BY DEF Disturb
<1>2. f \in Frames /\ ~IsReply(f)
  BY DisturbType
<1>3. ~IsPart(f)
  BY DEF Foreign, Malformed, SF, FF, FC, EmptyFrame, IsPart
<1>4. UNCHANGED <<env, lost, testerVars, answers, ecu>>
  BY DEF Disturb, histVars
<1>5. ResponderKeeps
  BY <1>4 DEF ResponderKeeps, Responding
<1> QED
  BY <1>1, <1>2, <1>3, <1>4, <1>5, ResponseOther

-----------------------------------------------------------------------------
(* The tester takes a frame.                                               *)

LEMMA TesterTakesResponse ==
    ASSUME Types, ResponseCarry, NEW f, Recv(f), UNCHANGED <<ecu, answers>>
    PROVE  /\ ResponseCarry' /\ ResponseS' = ResponseS
           /\ toTester' = Tail(toTester) /\ toTester # <<>> /\ f = toTester[1]
           /\ 1 \in 1..Len(toTester)
           /\ toTester \in Seq(Frames) /\ f \in Frames
           /\ f \in ReplyHeads <=> IsReply(f)
           /\ IsPart(f) => ~IsReply(f)
           /\ IsReply(f) => \E w \in answers : HeadOf(f, w)
           /\ IsPart(f) => \E w \in answers : PartOf(f, w)
<1>1. /\ toTester' = Tail(toTester) /\ toTester # <<>> /\ f = toTester[1]
      /\ 1 \in 1..Len(toTester)
  BY TesterTook DEF Recv
<1>2. toTester \in Seq(Frames) /\ f \in Frames
  BY <1>1, Queues
<1>3. ResponseS' = ResponseS /\ ResponderKeeps
  BY DEF ResponseS, Responding, ResponderKeeps
<1>4. Contents(toTester, ReplyHeads, answers)
  BY DEF ResponseCarry
<1>5. Contents(toTester', ReplyHeads, answers)
  <2>1. \A i \in 1..Len(toTester') :
          \E j \in 1..Len(toTester) : toTester'[i] = toTester[j]
    BY <1>1, <1>2, TailFrames
  <2> QED
    BY <1>4, <2>1, ContentsKept
<1>6. ResponseCarry'
  BY <1>3, <1>5, ResponseCarryKept
<1>7. f \in ReplyHeads <=> IsReply(f)
  BY <1>2 DEF ReplyHeads
<1>8. /\ IsReply(f) => \E w \in answers : HeadOf(f, w)
      /\ IsPart(f) => \E w \in answers : PartOf(f, w)
  BY <1>1, <1>4, <1>7 DEF Contents
<1>9. IsPart(f) => ~IsReply(f)
  BY DEF IsPart, IsReply, IsSingle, IsFirst
<1> QED
  BY <1>1, <1>2, <1>3, <1>6, <1>7, <1>8, <1>9

\* A frame it skips, or that ends the call.
LEMMA TesterSkipsResponse ==
    ASSUME Types, ResponseCarry, NEW f, Recv(f),
           UNCHANGED <<env, lost, ecu, answers>>,
           ReceiverKeeps, Collecting' => ~IsReply(f) /\ ~IsPart(f)
    PROVE  ResponseKept
<1>1. /\ ResponseCarry' /\ ResponseS' = ResponseS
      /\ toTester' = Tail(toTester) /\ toTester # <<>> /\ f = toTester[1]
      /\ toTester \in Seq(Frames) /\ (f \in ReplyHeads <=> IsReply(f))
      /\ lost \in Nat
  BY TesterTakesResponse DEF Types, BusTypes
<1>2. ASSUME ResponseLine
      PROVE  ResponseLine'
  <2>1. ASSUME NEW m \in Nat,
               Channel(toTester, ReplyHeads, ResponseS, ResponseS, ResponseR(m))
        PROVE  Channel(toTester', ReplyHeads, ResponseS', ResponseS', ResponseR(m)')
    <3>1. ResponseR(m)' \subseteq ResponseR(m)
      BY ResponseSets
    <3>2. Channel(toTester, ReplyHeads, ResponseS, ResponseS, ResponseR(m)')
      BY <2>1, <3>1, ChannelStops
    <3>3. toTester[1] \in ReplyHeads => ResponseR(m)' = {}
      BY <1>1 DEF ResponseR
    <3>4. Channel(Tail(toTester), ReplyHeads, ResponseS, ResponseS, ResponseR(m)')
      BY <1>1, <3>2, <3>3, ChannelSkips
    <3> QED
      BY <1>1, <3>4
  <2>2. ASSUME NEW m \in Nat, NEW k, Collecting',
               Accounted(toTester, ResponseS, k, m, lost)
        PROVE  Accounted(toTester', ResponseS', k, m, lost')
    <3>1. ~IsPart(toTester[1])
      BY <1>1, <2>2
    <3>2. Accounted(Tail(toTester), ResponseS, k, m, lost)
      BY <1>1, <2>2, <3>1, AccountedTail
    <3> QED
      BY <1>1, <3>2
  <2>3. ASSUME NEW m \in Nat,
               Channel(toTester, ReplyHeads, ResponseS, ResponseS, ResponseR(m)),
               Announced(toTester, ReplyHeads, ResponseS, lost)
        PROVE  Announced(toTester', ReplyHeads, ResponseS', lost')
    BY <1>1, <2>3, AnnouncedTail DEF Channel
  <2> QED
    BY <1>2, <2>1, <2>2, <2>3, ResponseLineKept
<1> QED
  BY <1>1, <1>2 DEF ResponseKept

LEMMA RecvForeignResponse ==
    ASSUME Types, ResponseCarry, NEW f, RecvForeign(f)
    PROVE  ResponseKept
<1>1. Recv(f) /\ UNCHANGED <<env, lost, ecu, answers>> /\ f.id # "ecu"
  BY DEF RecvForeign, histVars
<1>2. ReceiverKeeps
  BY DEF RecvForeign, recvVars, ReceiverKeeps, Collecting, Awaits
<1>3. ~IsReply(f)
  BY <1>1 DEF IsReply
<1>4. ~IsPart(f)
  BY <1>1, TesterTakesResponse DEF PartOf
<1> QED
  BY <1>1, <1>2, <1>3, <1>4, TesterSkipsResponse

LEMMA RecvFCResponse ==
    ASSUME Types, ResponseCarry, NEW f, RecvFC(f)
    PROVE  ResponseKept
<1>1. Recv(f) /\ UNCHANGED <<env, lost, ecu, answers>> /\ pc = "wait_fc"
  BY DEF RecvFC
<1>2. ~Collecting' /\ (result' = "ok" => result = "ok" /\ out' = out)
  BY <1>1 DEF RecvFC, Return, recvVars, Collecting
<1>3. ReceiverKeeps
  BY <1>2 DEF ReceiverKeeps
<1> QED
  BY <1>1, <1>2, <1>3, TesterSkipsResponse

\* A First Frame of response w begins the response collected.
LEMMA FirstCollects ==
    ASSUME NEW f \in Frames, IsFirst(f), NEW W, Wholes(W), NEW w \in W, HeadOf(f, w),
           NEW p, p = Chunk(f.data, 0, f.n)
    PROVE  /\ Collected(W, p, f.n, 1, FFFirst) /\ Len(p) = FFFirst
           /\ p[1][2] = Owner(f)
<1>1. /\ f.n = Len(w) /\ f.data[1] = w[1] /\ Len(w) > SFMaxLen /\ Len(w) \in Nat
      /\ Len(f.data) = FFFirst /\ Begins(f.data, w) /\ f.data \in Seq(Bytes)
  BY DEF IsFirst, HeadOf, Wholes, Whole, Frames
<1>2. /\ Len(p) = IF 0 < Least(0 + f.n, Len(f.data))
                  THEN Least(0 + f.n, Len(f.data)) - 0 ELSE 0
      /\ \A i \in 1..Len(p) : p[i] = f.data[0 + i]
  BY <1>1, ChunkLemma
<1>3. Len(p) = FFFirst /\ FFFirst < f.n /\ 1 \in 1..FFFirst /\ FFFirst \in Nat
  <2>1. /\ FFFirst \in Nat /\ 0 < FFFirst /\ SFMaxLen \in Nat /\ FFFirst < SFMaxLen
    BY Sizes
  <2>2. FFFirst < f.n /\ 1 \in 1..FFFirst /\ f.n \in Nat
    BY <1>1, <2>1
  <2>3. Least(0 + f.n, Len(f.data)) = FFFirst
    BY <1>1, <2>1, <2>2 DEF Least
  <2> QED
    BY <1>2, <2>1, <2>2, <2>3
<1>4. \A i \in 1..Len(p) : p[i] = f.data[i]
  <2>1. \A i \in 1..Len(p) : 0 + i = i
    BY <1>3
  <2> QED
    BY <1>2, <2>1
<1>5. Begins(p, w) /\ p[1] = w[1] /\ p # <<>>
  <2>1. Begins(p, w)
    BY <1>1, <1>3, <1>4 DEF Begins
  <2>2. p[1] = w[1]
    BY <1>1, <1>3, <1>4
  <2>3. p # <<>>
    BY <1>3, Sizes
  <2> QED
    BY <2>1, <2>2, <2>3
<1>6. InStep(FFFirst, 1)
  <2>1. Offset(0) = FFFirst
    BY Sizes DEF Offset
  <2> QED
    BY <2>1, NumbersStart DEF InStep
<1>7. Collected(W, p, f.n, 1, FFFirst)
  BY <1>1, <1>3, <1>5, <1>6 DEF Collected
<1> QED
  BY <1>1, <1>3, <1>5, <1>7 DEF Owner

LEMMA RecvFirstResponse ==
    ASSUME Types, ResponseCarry, NEW f, RecvFirst(f)
    PROVE  ResponseKept
<1>1. /\ Recv(f) /\ UNCHANGED <<env, lost, ecu, answers>> /\ pc = "recv_first"
      /\ ~Collecting
  BY DEF RecvFirst, histVars, Collecting
<1>2. /\ ResponseCarry' /\ ResponseS' = ResponseS
      /\ toTester' = Tail(toTester) /\ toTester # <<>> /\ f = toTester[1]
      /\ 1 \in 1..Len(toTester) /\ toTester \in Seq(Frames) /\ f \in Frames
      /\ (f \in ReplyHeads <=> IsReply(f)) /\ (IsPart(f) => ~IsReply(f))
      /\ lost \in Nat
  BY <1>1, TesterTakesResponse DEF Types, BusTypes
<1>3. \/ Passive /\ ~IsReply(f)
      \/ /\ IsReply(f) /\ out' = Chunk(f.data, 0, f.n)
         /\ \/ IsSingle(f) /\ pc' = "done" /\ result' = "ok"
            \/ IsFirst(f) /\ pc' = "send_fc" /\ total' = f.n
  BY RecvFirstTypes
<1>4. CASE Passive
  <2>1. ~Collecting' /\ ReceiverKeeps
    BY <1>1, <1>4 DEF Passive, Collecting, ReceiverKeeps, Errors
  <2> QED
    BY <1>1, <2>1, TesterSkipsResponse
<1>5. ASSUME IsReply(f), out' = Chunk(f.data, 0, f.n),
             \/ IsSingle(f) /\ pc' = "done" /\ result' = "ok"
             \/ IsFirst(f) /\ pc' = "send_fc" /\ total' = f.n
      PROVE  ResponseKept
  <2>1. PICK w \in answers : HeadOf(f, w)
    BY <1>1, <1>5, TesterTakesResponse
  <2>2. ASSUME ResponseLine
        PROVE  ResponseLine'
    <3>1. PICK m \in Nat :
            Channel(toTester, ReplyHeads, ResponseS, ResponseS, ResponseR(m))
      BY <2>2 DEF ResponseLine
    <3>2. Announced(toTester', ReplyHeads', ResponseS', lost')
      BY <1>1, <1>2, <2>2, <3>1, AnnouncedTail, HeadsSame DEF Channel, ResponseLine
    <3>3. CASE IsSingle(f) /\ pc' = "done" /\ result' = "ok"
      <4>1. out' \in answers'
        BY <1>1, <1>5, <2>1, <3>3 DEF HeadOf, IsSingle
      <4>2. ResponseR(m) = {} /\ ResponseR(m)' = {} /\ ~Collecting'
        BY <1>1, <3>3 DEF ResponseR, Collecting
      <4>3. Channel(Tail(toTester), ReplyHeads, ResponseS, ResponseS, {})
        BY <1>2, <3>1, <4>2, ChannelSkips
      <4>4. Channel(toTester', ReplyHeads', ResponseS', ResponseS', ResponseR(m)')
        BY <1>2, <4>2, <4>3, HeadsSame
      <4> QED
        BY <3>2, <4>1, <4>2, <4>4 DEF ResponseLine
    <3>4. CASE IsFirst(f) /\ pc' = "send_fc" /\ total' = f.n
      <4>1. /\ Collected(answers, out', f.n, 1, FFFirst) /\ Len(out') = FFFirst
            /\ out'[1][2] = Owner(f) /\ FFFirst \in Nat
        BY <1>2, <1>5, <2>1, <3>4, FirstCollects, Sizes DEF ResponseCarry
      <4>2. Collected(answers', out', total', Awaits', FFFirst)
        BY <1>1, <3>4, <4>1 DEF Awaits
      <4>3. Channel(Tail(toTester), ReplyHeads, ResponseS, ResponseS,
                    {<<Owner(f), FFFirst>>})
        BY <1>2, <1>5, <3>1, ChannelTakesHead
      <4>4. ResponseR(FFFirst)' = {<<Owner(f), FFFirst>>} /\ Collecting'
        BY <3>4, <4>1 DEF ResponseR, Collecting
      <4>5. Channel(toTester', ReplyHeads', ResponseS', ResponseS',
                    ResponseR(FFFirst)')
        BY <1>2, <4>3, <4>4, HeadsSame
      <4>6. Accounted(Tail(toTester), ResponseS, Owner(f), FFFirst, lost)
        <5>1. Accounted(toTester, ResponseS, Owner(f), 0, lost)
          BY <1>2, <1>5, <2>2 DEF ResponseLine, Announced
        <5>2. ~IsPart(toTester[1]) /\ 0 <= FFFirst /\ 0 \in Nat
          BY <1>2, <1>5, Sizes
        <5> QED
          BY <1>2, <4>1, <5>1, <5>2, AccountedTail
      <4>7. InTime(FFFirst)'
        BY <1>1, <1>2, <4>1, <4>6 DEF InTime
      <4>8. result' # "ok"
        BY <3>4, RecvFirstTypes DEF Types, TesterTypes
      <4> QED
        BY <3>2, <4>1, <4>2, <4>5, <4>7, <4>8 DEF ResponseLine
    <3> QED
      BY <1>5, <3>3, <3>4
  <2> QED
    BY <1>2, <2>2 DEF ResponseKept
<1> QED
  BY <1>3, <1>4, <1>5

\* A Consecutive Frame continues it.  If frames between were lost unnoticed,
\* they are as many as the sequence number tells apart.
LEMMA RecvCFResponse ==
    ASSUME Types, ResponseCarry, NEW f, RecvCF(f)
    PROVE  ResponseKept
<1>1. /\ Recv(f) /\ UNCHANGED <<env, lost, ecu, answers>> /\ pc = "recv_cf"
      /\ Collecting /\ total' = total /\ Awaits = expected
  BY DEF RecvCF, histVars, Collecting, Awaits
<1>2. /\ ResponseCarry' /\ ResponseS' = ResponseS
      /\ toTester' = Tail(toTester) /\ toTester # <<>> /\ f = toTester[1]
      /\ 1 \in 1..Len(toTester) /\ toTester \in Seq(Frames) /\ f \in Frames
      /\ lost \in Nat /\ env.lost \in Nat /\ lost <= env.lost
  <2>1. lost \in 0..env.lost /\ env.lost \in Nat
    BY EnvTypes DEF Types, BusTypes
  <2>2. lost \in Nat /\ lost <= env.lost
    BY <2>1
  <2> QED
    BY <1>1, <2>1, <2>2, TesterTakesResponse
<1>3. CASE ~IsNextCF(f)
  <2>1. pc' = "done" /\ result' # "ok"
    BY <1>3 DEF RecvCF, Return
  <2>2. ~Collecting' /\ ReceiverKeeps
    BY <2>1 DEF Collecting, ReceiverKeeps
  <2> QED
    BY <1>1, <2>2, TesterSkipsResponse
<1>4. CASE IsNextCF(f)
  <2>1. /\ f.pci = "CF" /\ f.n = expected /\ out' = out \o Take(f.data)
        /\ expected' = NextSeq(expected)
        /\ IF Len(out') < total THEN pc' = pc /\ result' = result
           ELSE pc' = "done" /\ result' = "ok"
    BY <1>4 DEF RecvCF, IsNextCF, Return
  <2>2. PICK v \in answers : PartOf(f, v)
    BY <1>1, <2>1, TesterTakesResponse DEF IsPart
  <2>3. ASSUME ResponseLine
        PROVE  ResponseLine'
    <3>1. PICK m \in Nat :
            /\ Channel(toTester, ReplyHeads, ResponseS, ResponseS, ResponseR(m))
            /\ Collected(answers, out, total, expected, m) /\ InTime(m)
      BY <1>1, <2>3 DEF ResponseLine
    <3>2. Announced(toTester', ReplyHeads', ResponseS', lost')
      BY <1>1, <1>2, <2>3, <3>1, AnnouncedTail, HeadsSame DEF Channel, ResponseLine
    <3>3. /\ Owner(f) = out[1][2] /\ m < Place(f)
          /\ \A n \in Nat : n < Place(f) + CFPayload =>
               Channel(Tail(toTester), ReplyHeads, ResponseS, ResponseS,
                       {<<out[1][2], n>>})
      <4> DEFINE r == <<out[1][2], m>>
      <4>1. r \in ResponseR(m) /\ r[1] = out[1][2] /\ r[2] = m
        BY <1>1 DEF ResponseR
      <4> HIDE DEF r
      <4>2. IsPart(toTester[1])
        BY <1>2, <2>1 DEF IsPart
      <4>3. /\ Owner(toTester[1]) = r[1] /\ r[2] < Place(toTester[1])
            /\ \A n \in Nat : n < Place(toTester[1]) + CFPayload =>
                 Channel(Tail(toTester), ReplyHeads, ResponseS, ResponseS,
                         {<<r[1], n>>})
        BY <1>2, <3>1, <4>1, <4>2, ChannelTakesPart
      <4> QED
        BY <1>2, <4>1, <4>3
    <3>4. Place(f) \in Nat
      BY <1>2, <2>2, PartLemma DEF ResponseCarry, Wholes, Offset
    <3>5. Continues(answers, out, total, expected, m, f, out')
      <4>1. Takes(answers, out, total, expected, m, f)
        BY <1>2, <2>1, <2>2, <3>1, <3>3
           DEF Takes, ResponseCarry, Types, TesterTypes
      <4>2. Least(total - Len(out), CFPayload) = Least(CFPayload, total - Len(out))
        <5>1. total - Len(out) \in Int /\ CFPayload \in Int
          BY Sizes, LenProperties DEF Types, TesterTypes
        <5> QED
          BY <5>1 DEF Least
      <4>3. out' = out \o Chunk(f.data, 0, Least(CFPayload, total - Len(out)))
        BY <2>1, <4>2 DEF Take
      <4> QED
        BY <4>1, <4>3, Collects
    <3>6. CASE Len(out') = total /\ out' \in answers
      <4>1. pc' = "done" /\ ~Collecting' /\ ResponseR(m)' = {}
        <5>1. ~(Len(out') < total)
          BY <3>6 DEF Types, TesterTypes
        <5> QED
          BY <2>1, <5>1 DEF Collecting, ResponseR
      <4>2. Channel(Tail(toTester), ReplyHeads, ResponseS, ResponseS, {})
        <5>1. m < Place(f) + CFPayload
          BY <3>3, <3>4, Sizes
        <5>2. Channel(Tail(toTester), ReplyHeads, ResponseS, ResponseS,
                      {<<out[1][2], m>>})
          BY <3>3, <5>1
        <5> QED
          BY <5>2, ChannelStops
      <4>3. Channel(toTester', ReplyHeads', ResponseS', ResponseS', ResponseR(m)')
        BY <1>2, <4>1, <4>2, HeadsSame
      <4> QED
        BY <1>1, <3>2, <3>6, <4>1, <4>3 DEF ResponseLine
    <3>7. ASSUME Len(out') < total, NEW m2 \in Nat,
                 Collected(answers, out', total, NextSeq(expected), m2),
                 m2 < Place(f) + CFPayload,
                 \/ /\ m = Len(out) /\ m2 = Len(out')
                    /\ Place(f) = m + 1 /\ m2 = m + CFPayload
                 \/ m2 # Len(out') /\ m # Len(out)
                 \/ /\ m2 # Len(out') /\ m = Len(out)
                    /\ \E p, q \in Nat : /\ m = Offset(p) /\ Place(f) = Offset(q) + 1
                                         /\ p + SeqModulus <= q
          PROVE  ResponseLine'
      <4>1. /\ pc' = "recv_cf" /\ result' = result /\ Collecting'
            /\ Awaits' = NextSeq(expected)
        BY <1>1, <2>1, <3>7 DEF Collecting, Awaits
      <4>2. out'[1] = out[1]
        BY <3>5 DEF Continues
      <4>3. ResponseR(m2)' = {<<out[1][2], m2>>}
        BY <4>1, <4>2 DEF ResponseR
      <4>4. Channel(toTester', ReplyHeads', ResponseS', ResponseS', ResponseR(m2)')
        BY <1>2, <3>3, <3>7, <4>3, HeadsSame
      <4>5. Collected(answers', out', total', Awaits', m2)
        BY <1>1, <3>7, <4>1
      <4>6. InTime(m2)'
        <5>1. CASE /\ m = Len(out) /\ m2 = Len(out')
                   /\ Place(f) = m + 1 /\ m2 = m + CFPayload
          <6>1. Accounted(toTester, ResponseS, out[1][2], m, lost)
            BY <3>1, <5>1 DEF InTime
          <6>2. m <= m2 /\ \A n \in Nat : Place(toTester[1]) = n + 1 => n < m2
            BY <1>2, <5>1, Sizes
          <6>3. Accounted(Tail(toTester), ResponseS, out[1][2], m2, lost)
            BY <1>2, <6>1, <6>2, AccountedTail
          <6> QED
            BY <1>1, <1>2, <4>2, <5>1, <6>3 DEF InTime
        <5>2. CASE m2 # Len(out') /\ m # Len(out)
          BY <1>1, <3>1, <5>2 DEF InTime
        <5>3. ASSUME m2 # Len(out'), m = Len(out), NEW p \in Nat, NEW q \in Nat,
                     m = Offset(p), Place(f) = Offset(q) + 1, p + SeqModulus <= q
              PROVE  InTime(m2)'
          <6>1. Accounted(toTester, ResponseS, out[1][2], m, lost)
            BY <3>1, <5>3 DEF InTime
          <6>2. Rising(toTester, ReplyHeads)
            BY <3>1 DEF Channel
          <6>3. /\ IsPart(toTester[1]) /\ Owner(toTester[1]) = out[1][2]
                /\ Place(toTester[1]) = Offset(q) + 1
            BY <1>2, <2>1, <3>3, <5>3 DEF IsPart
          <6>4. SeqModulus <= lost
            BY <1>2, <5>3, <6>1, <6>2, <6>3, AccountedGap
          <6>5. SeqModulus <= env.lost
            BY <1>2, <6>4, Sizes
          <6> QED
            BY <1>1, <5>3, <6>5 DEF InTime
        <5> QED
          BY <3>7, <5>1, <5>2, <5>3
      <4>7. result' # "ok"
        BY <1>1, <4>1 DEF Types, TesterTypes
      <4> QED
        BY <3>2, <4>4, <4>5, <4>6, <4>7 DEF ResponseLine
    <3> QED
      BY <3>5, <3>6, <3>7 DEF Continues
  <2> QED
    BY <1>2, <2>3 DEF ResponseKept
<1> QED
  BY <1>3, <1>4

-----------------------------------------------------------------------------
(* The ECU sends a part of a response, and the bus loses one.              *)

LEMMA ResponseOwners ==
    ASSUME Types, ResponseCarry, NEW i \in 1..Len(toTester),
           IsData(toTester[i], ReplyHeads)
    PROVE  Answered(Owner(toTester[i]))
<1>1. toTester[i] \in Frames
  BY Queues
<1>2. \A w \in answers : Whole(w)
  BY DEF ResponseCarry, Wholes
<1>3. \E w \in answers : Owner(toTester[i]) = w[1][2]
  <2>1. CASE toTester[i] \in ReplyHeads
    BY <1>2, <2>1, HeadLemma DEF ResponseCarry, Contents
  <2>2. CASE IsPart(toTester[i])
    <3>1. PICK w \in answers : PartOf(toTester[i], w)
      BY <2>2 DEF ResponseCarry, Contents
    <3> QED
      BY <1>1, <1>2, <3>1, PartLemma
  <2> QED
    BY <2>1, <2>2 DEF IsData
<1> QED
  BY <1>3 DEF Answered

\* The request answered has not been answered before.
LEMMA EcuReplyResponse ==
    ASSUME Types, ResponseCarry, FreshInv, NEW len \in env.respLens, EcuReply(len)
    PROVE  ResponseKept
<1> DEFINE k == ecu.msg[1][2]
           rsp == Response(k, len)
           f == ReplyFrame(rsp)
<1>1. /\ ecu.state = "reply" /\ k \in Nat /\ len \in 1..MaxFFLength
      /\ f \in Frames /\ EcuSends(f) /\ answers' = answers \cup {rsp}
      /\ IF len <= SFMaxLen THEN ecu' = Idle
         ELSE /\ ecu'.state = "hold" /\ ecu'.msg = rsp
              /\ ecu'.total = FFFirst /\ ecu'.seq = 1
  BY EcuReplyTypes
<1>2. f \in ReplyHeads /\ ~IsPart(f) /\ HeadOf(f, rsp) /\ Owner(f) = k /\ Place(f) = 1
  BY <1>1, ReplyFrameHead
<1>3. Whole(rsp) /\ rsp[1][2] = k /\ Len(rsp) = len
  <2>1. len \in Nat /\ 0 < len
    BY <1>1, Sizes
  <2>2. Whole(Response(k, len)) /\ Response(k, len)[1] = <<"rsp", k, 1>>
    BY <1>1, <2>1, MadeResponse
  <2>3. Len(Response(k, len)) = len
    BY <1>1, <2>1, ResponseLemma
  <2> QED
    BY <2>2, <2>3
<1>4. ~Answered(k)
  <2>1. TakenUp(k)
    BY <1>1 DEF TakenUp, Taken
  <2> QED
    BY <2>1 DEF FreshInv
<1> HIDE DEF k, rsp, f
<1>5. /\ toTester' = Append(toTester, f) /\ toTester \in Seq(Frames)
      /\ Len(toTester) \in Nat /\ lost \in Nat
      /\ UNCHANGED <<env, lost, testerVars>>
  BY <1>1, Queues DEF EcuSends, Types, BusTypes
<1>6. ReceiverKeeps
  BY <1>5 DEF testerVars, recvVars, ReceiverKeeps, Collecting, Awaits
<1>7. ResponseS' = (IF len <= SFMaxLen THEN {} ELSE {<<k, FFFirst>>}) /\ ResponseS = {}
  BY <1>1, <1>3, IdleType DEF ResponseS, Responding
<1>8. ResponseCarry'
  <2>1. Wholes(answers')
    BY <1>1, <1>3, <1>4 DEF ResponseCarry, Wholes, Answered
  <2>2. Contents(toTester', ReplyHeads, answers')
    <3>1. answers \subseteq answers' /\ rsp \in answers'
      BY <1>1
    <3> QED
      BY <1>1, <1>2, <1>5, <3>1, ContentsSent DEF ResponseCarry
  <2>3. Responding' => /\ ecu'.msg \in answers' /\ InStep(ecu'.total, ecu'.seq)
                       /\ ecu'.total < Len(ecu'.msg)
    <3> SUFFICES ASSUME Responding'
                 PROVE  /\ ecu'.msg \in answers' /\ InStep(ecu'.total, ecu'.seq)
                        /\ ecu'.total < Len(ecu'.msg)
      OBVIOUS
    <3>1. ~(len <= SFMaxLen)
      BY <1>1, IdleType DEF Responding
    <3>2. FFFirst < len
      BY <1>1, <3>1, Sizes
    <3>3. InStep(FFFirst, 1)
      <4>1. Offset(0) = FFFirst
        BY Sizes DEF Offset
      <4> QED
        BY <4>1, NumbersStart DEF InStep
    <3> QED
      BY <1>1, <1>3, <3>1, <3>2, <3>3
  <2> QED
    BY <2>1, <2>2, <2>3, HeadsSame DEF ResponseCarry
<1>9. ASSUME ResponseLine
      PROVE  ResponseLine'
  <2>1. \A i \in 1..Len(toTester) :
          IsData(toTester[i], ReplyHeads) => Owner(toTester[i]) # k
    BY <1>4, ResponseOwners
  <2>2. \A s \in ResponseS' : s[1] = Owner(f) /\ s[2] \in Places /\ s[2] = FFFirst
    BY <1>2, <1>7, PlacesLemma
  <2>3. ASSUME NEW m \in Nat, NEW j, Accounted(toTester, ResponseS, j, m, lost)
        PROVE  Accounted(toTester', ResponseS', j, m, lost')
    <3>1. Accounted(Append(toTester, f), ResponseS', j, m, lost)
      BY <1>1, <1>2, <1>5, <2>2, <2>3, AccountedOther
    <3> QED
      BY <1>5, <3>1
  <2>4. PICK m \in Nat :
          /\ Channel(toTester, ReplyHeads, ResponseS, ResponseS, ResponseR(m))
          /\ Collecting => Collected(answers, out, total, Awaits, m) /\ InTime(m)
    BY <1>9 DEF ResponseLine
  <2>5. \A r \in ResponseR(m) : r[1] # k
    <3>1. Collecting => out[1][2] # k
      BY <1>4, <2>4 DEF Collected, Answered
    <3> QED
      BY <3>1 DEF ResponseR
  <2>6. Channel(toTester', ReplyHeads', ResponseS', ResponseS', ResponseR(m)')
    <3>1. Channel(Append(toTester, f), ReplyHeads, ResponseS', ResponseS',
                  ResponseR(m))
      BY <1>1, <1>2, <1>5, <2>1, <2>2, <2>4, <2>5, ChannelSendsHead
    <3>2. ResponseR(m)' = ResponseR(m)
      BY <1>5 DEF testerVars, recvVars, ResponseR, Collecting
    <3> QED
      BY <1>5, <3>1, <3>2, HeadsSame
  <2>7. Collecting' => Collected(answers', out', total', Awaits', m)
    BY <1>1, <1>6, <2>4 DEF ReceiverKeeps, Collected
  <2>8. Collecting' => InTime(m)'
    BY <1>5, <1>6, <2>3, <2>4 DEF ReceiverKeeps, InTime
  <2>9. Announced(toTester', ReplyHeads', ResponseS', lost')
    <3>1. ASSUME NEW i \in 1..Len(toTester'), toTester'[i] \in ReplyHeads
          PROVE  Accounted(toTester', ResponseS', Owner(toTester'[i]), 0, lost')
      <4>1. /\ Len(toTester') = Len(toTester) + 1 /\ toTester'[Len(toTester) + 1] = f
            /\ \A h \in 1..Len(toTester) : toTester'[h] = toTester[h]
        BY <1>1, <1>5, AppendLemma
      <4>2. CASE i \in 1..Len(toTester)
        <5>1. Accounted(toTester, ResponseS, Owner(toTester[i]), 0, lost)
          BY <1>9, <3>1, <4>1, <4>2 DEF ResponseLine, Announced
        <5> QED
          BY <2>3, <4>1, <4>2, <5>1
      <4>3. CASE i = Len(toTester) + 1
        <5>1. \A h \in 1..Len(toTester') :
                IsPart(toTester'[h]) => Owner(toTester'[h]) # k
          <6> SUFFICES ASSUME NEW h \in 1..Len(toTester'), IsPart(toTester'[h])
                       PROVE  Owner(toTester'[h]) # k
            OBVIOUS
          <6>1. h \in 1..Len(toTester) \/ h = Len(toTester) + 1
            BY <1>5, <4>1
          <6>2. h \in 1..Len(toTester) /\ toTester'[h] = toTester[h]
            BY <1>2, <4>1, <6>1
          <6> QED
            BY <2>1, <6>2 DEF IsData
        <5>2. \A s \in ResponseS' : s[1] = k => s[2] = FFFirst
          BY <2>2
        <5>3. Accounted(toTester', ResponseS', k, 0, lost)
          BY <1>5, <5>1, <5>2, AccountedBegins
        <5> QED
          BY <1>2, <1>5, <4>1, <4>3, <5>3
      <4> QED
        BY <1>5, <4>1, <4>2, <4>3
    <3> QED
      BY <3>1, HeadsSame DEF Announced
  <2>10. result' = "ok" => out' \in answers'
    BY <1>1, <1>6, <1>9 DEF ReceiverKeeps, ResponseLine
  <2> QED
    BY <2>6, <2>7, <2>8, <2>9, <2>10 DEF ResponseLine
<1> QED
  BY <1>8, <1>9 DEF ResponseKept

LEMMA EcuSendCFResponse ==
    ASSUME Types, CarryInv, EcuSendCF
    PROVE  ResponseKept
<1> DEFINE f == NextReply
           k == ecu.msg[1][2]
<1>1. /\ ecu.state = "respond" /\ f \in Frames /\ toTester' = Append(toTester, f)
      /\ UNCHANGED <<env, lost, testerVars, answers>>
      /\ IF ecu.total + CFPayload >= Len(ecu.msg)
         THEN ecu' = Idle
         ELSE /\ ecu'.state \in {"hold", "respond"} /\ ecu'.msg = ecu.msg
              /\ ecu'.total = ecu.total + CFPayload
              /\ ecu'.seq = NextSeq(ecu.seq)
  BY EcuSendCFTypes DEF EcuSendCF, EcuSends, NextReply, NextSeq
<1>2. /\ PartOf(f, ecu.msg) /\ ecu.msg \in answers /\ IsPart(f) /\ ~IsReply(f)
      /\ Owner(f) = k
      /\ ~(ecu.total + CFPayload >= Len(ecu.msg)) =>
           /\ InStep(ecu.total + CFPayload, NextSeq(ecu.seq))
           /\ ecu.total + CFPayload < Len(ecu.msg)
  BY <1>1, NextReplyPart
<1>3. PICK q \in Nat : /\ ecu.total = Offset(q) /\ Place(f) = Offset(q) + 1
                       /\ ecu.total + CFPayload = Offset(q + 1)
  BY <1>1, NextReplyPart
<1> HIDE DEF f, k
<1>4. /\ toTester \in Seq(Frames) /\ Len(toTester) \in Nat /\ lost \in Nat
      /\ f \notin ReplyHeads /\ ResponseCarry
  BY <1>2, Queues DEF Types, BusTypes, ReplyHeads, CarryInv
<1>5. ReceiverKeeps
  BY <1>1 DEF testerVars, recvVars, ReceiverKeeps, Collecting, Awaits
<1>6. ResponseS = {<<k, Offset(q)>>}
  BY <1>1, <1>3 DEF ResponseS, Responding, k
<1>7. ResponseS' \subseteq {<<k, Offset(q + 1)>>}
  BY <1>1, <1>3, IdleType DEF ResponseS, Responding, k
<1>8. ResponseCarry'
  <2>1. Contents(toTester', ReplyHeads, answers)
    BY <1>1, <1>2, <1>4, ContentsSent DEF ResponseCarry
  <2>2. Responding' => /\ ecu'.msg \in answers /\ InStep(ecu'.total, ecu'.seq)
                       /\ ecu'.total < Len(ecu'.msg)
    BY <1>1, <1>2, IdleType DEF Responding
  <2> QED
    BY <1>1, <1>4, <2>1, <2>2, HeadsSame DEF ResponseCarry
<1>9. ASSUME ResponseLine
      PROVE  ResponseLine'
  <2>1. Offset(q) \in Places /\ Offset(q + 1) \in Places /\ Offset(q) < Offset(q + 1)
    <3>1. Offset(q) \in Places /\ Offset(q + 1) \in Places
      BY DEF Places
    <3>2. Offset(q + 1) = Offset(q) + CFPayload /\ Offset(q) \in Nat
      BY OffsetLemma
    <3> QED
      BY <3>1, <3>2, Sizes
  <2>2. \A s \in ResponseS' : s[1] = Owner(f) /\ s[2] = Offset(q + 1)
    BY <1>2, <1>7
  <2>3. <<Owner(f), Offset(q)>> \in ResponseS
    BY <1>2, <1>6
  <2>4. ASSUME NEW m \in Nat,
               Channel(toTester, ReplyHeads, ResponseS, ResponseS, ResponseR(m))
        PROVE  Channel(toTester', ReplyHeads, ResponseS', ResponseS', ResponseR(m)')
    <3>1. \A s \in ResponseS' :
            s[1] = Owner(f) /\ s[2] \in Places /\ Offset(q) < s[2]
      BY <2>1, <2>2
    <3>2. Channel(Append(toTester, f), ReplyHeads, ResponseS', ResponseS',
                  ResponseR(m))
      BY <1>1, <1>2, <1>3, <1>4, <2>1, <2>3, <2>4, <3>1, ChannelSendsPart
    <3>3. ResponseR(m)' = ResponseR(m)
      BY <1>1 DEF testerVars, recvVars, ResponseR, Collecting
    <3> QED
      BY <1>1, <3>2, <3>3
  <2>5. ASSUME NEW m \in Nat, NEW j, Accounted(toTester, ResponseS, j, m, lost)
        PROVE  Accounted(toTester', ResponseS', j, m, lost')
    <3>1. Accounted(Append(toTester, f), ResponseS', j, m, lost)
      BY <1>1, <1>2, <1>3, <1>4, <2>2, <2>3, <2>5, AccountedPart
    <3> QED
      BY <1>1, <3>1
  <2>6. ASSUME Announced(toTester, ReplyHeads, ResponseS, lost)
        PROVE  Announced(toTester', ReplyHeads, ResponseS', lost')
    <3>1. ASSUME NEW i \in 1..Len(toTester'), toTester'[i] \in ReplyHeads
          PROVE  Accounted(toTester', ResponseS', Owner(toTester'[i]), 0, lost')
      <4>1. i \in 1..Len(toTester) /\ toTester'[i] = toTester[i]
        BY <1>1, <1>4, <3>1, AppendLemma
      <4>2. Accounted(toTester, ResponseS, Owner(toTester[i]), 0, lost)
        BY <2>6, <3>1, <4>1 DEF Announced
      <4> QED
        BY <2>5, <4>1, <4>2
    <3> QED
      BY <3>1 DEF Announced
  <2>7. answers \subseteq answers' /\ UNCHANGED env
    BY <1>1
  <2> QED
    BY <1>5, <1>9, <2>4, <2>5, <2>6, <2>7, ResponseLineKept
<1> QED
  BY <1>8, <1>9 DEF ResponseKept

\* A frame lost is accounted for.  If it begins a response, it is the only
\* such one and the tester collects none: else an earlier call has failed.
LEMMA LoseResponse ==
    ASSUME Types, TurnInv, ResponseCarry, Lose
    PROVE  ResponseCarry' /\ (TransfersAreDistinct' /\ ResponseLine => ResponseLine')
<1>1. /\ UNCHANGED <<env, testerVars, ecu, answers, abandoned>>
      /\ lost' = lost + 1 /\ lost \in Nat /\ lost' \in Nat /\ lost <= lost'
  <2>1. lost \in Nat
    BY DEF Types, BusTypes
  <2> QED
    BY <2>1 DEF Lose, histVars
<1>2. ReceiverKeeps /\ ResponderKeeps
  BY <1>1 DEF testerVars, recvVars, ReceiverKeeps, Collecting, Awaits,
              ResponderKeeps, Responding
<1>3. CASE UNCHANGED toTester
  BY <1>1, <1>2, <1>3, ResponseStill DEF ResponseKept
<1>4. ASSUME NEW k \in DOMAIN toTester, toTester' = RemoveAt(toTester, k)
      PROVE  ResponseCarry' /\ (TransfersAreDistinct' /\ ResponseLine => ResponseLine')
  <2>1. \A i \in 1..Len(toTester') :
          \E j \in 1..Len(toTester) : toTester'[i] = toTester[j]
    BY <1>4, RemoveFrames, Queues
  <2>2. ResponseCarry'
    <3>1. Contents(toTester', ReplyHeads, answers)
      BY <2>1, ContentsKept DEF ResponseCarry
    <3> QED
      BY <1>1, <1>2, <3>1, ResponseCarryKept
  <2>3. ASSUME TransfersAreDistinct', ResponseLine
        PROVE  ResponseLine'
    <3>1. OnePlace /\ NoneUnderWay
      BY <1>1, <2>3 DEF TransfersAreDistinct, TurnInv, Types, TesterTypes
    <3>2. k \in 1..Len(toTester) /\ toTester \in Seq(Frames)
      BY <1>4, Queues
    <3>3. ResponseS' = ResponseS /\ \A m : ResponseR(m)' = ResponseR(m)
      BY <1>1 DEF testerVars, recvVars, ResponseS, Responding, ResponseR, Collecting
    <3>4. ASSUME NEW m \in Nat,
                 Channel(toTester, ReplyHeads, ResponseS, ResponseS, ResponseR(m))
          PROVE  Channel(toTester', ReplyHeads, ResponseS', ResponseS', ResponseR(m)')
      <4>1. \A i \in 1..Len(toTester) : toTester[i] \in ReplyHeads => IsReply(toTester[i])
        BY DEF ReplyHeads
      <4>2. toTester[k] \in ReplyHeads =>
              ResponseR(m) = {} /\ \A i \in 1..Len(toTester) :
                                     toTester[i] \in ReplyHeads => i = k
        <5> SUFFICES ASSUME toTester[k] \in ReplyHeads
                     PROVE  ResponseR(m) = {} /\ \A i \in 1..Len(toTester) :
                                     toTester[i] \in ReplyHeads => i = k
          OBVIOUS
        <5>1. Replied
          BY <3>2, <4>1 DEF Replied
        <5>2. ~Collecting
          BY <3>1, <5>1 DEF NoneUnderWay, Collecting
        <5> QED
          BY <3>1, <3>2, <4>1, <5>2 DEF OnePlace, ResponseR
      <4>3. Channel(toTester', ReplyHeads, ResponseS, ResponseS, ResponseR(m))
        BY <1>4, <3>2, <3>4, <4>2, ChannelLoses
      <4> QED
        BY <3>3, <4>3
    <3>5. ASSUME NEW m \in Nat, NEW j, Accounted(toTester, ResponseS, j, m, lost)
          PROVE  Accounted(toTester', ResponseS', j, m, lost')
      BY <1>1, <1>4, <3>2, <3>3, <3>5, AccountedLoss
    <3>6. ASSUME Announced(toTester, ReplyHeads, ResponseS, lost)
          PROVE  Announced(toTester', ReplyHeads, ResponseS', lost')
      <4>1. ASSUME NEW i \in 1..Len(toTester'), toTester'[i] \in ReplyHeads
            PROVE  Accounted(toTester', ResponseS', Owner(toTester'[i]), 0, lost')
        <5>1. PICK j \in 1..Len(toTester) : toTester'[i] = toTester[j]
          BY <2>1
        <5>2. Accounted(toTester, ResponseS, Owner(toTester[j]), 0, lost)
          BY <3>6, <4>1, <5>1 DEF Announced
        <5> QED
          BY <3>5, <5>1, <5>2
      <4> QED
        BY <4>1 DEF Announced
    <3>7. answers \subseteq answers' /\ UNCHANGED env
      BY <1>1
    <3> QED
      BY <1>2, <2>3, <3>4, <3>5, <3>6, <3>7, ResponseLineKept
  <2> QED
    BY <2>2, <2>3
<1> QED
  BY <1>3, <1>4 DEF Lose

LEMMA ResponseNext ==
    ASSUME IInv, CarryInv, FreshInv, [Next]_vars
    PROVE  ResponseCarry' /\ (TransfersAreDistinct' /\ ResponseLine => ResponseLine')
<1>1. Types /\ TurnInv /\ ResponseCarry
  BY DEF IInv, CarryInv
<1>2. CASE \E len \in env.reqLens : Start(len)
  BY <1>1, <1>2, TesterResponse DEF ResponseKept
<1>3. CASE TesterStep
  <2>1. CASE SendFirst \/ SendCF \/ SendFC
    BY <1>1, <2>1, TesterResponse DEF ResponseKept
  <2>2. CASE Poll \/ GiveUp \/ RecvNone \/ SocketError
    BY <1>1, <2>2, TesterResponse DEF Aside, ResponseKept
  <2>3. ASSUME NEW f,
               RecvForeign(f) \/ RecvFC(f) \/ RecvFirst(f) \/ RecvCF(f)
        PROVE  ResponseKept
    BY <1>1, <2>3, RecvForeignResponse, RecvFCResponse, RecvFirstResponse,
       RecvCFResponse
  <2> QED
    BY <1>3, <2>1, <2>2, <2>3 DEF TesterStep, ResponseKept
<1>4. CASE EcuStep
  <2>1. CASE \/ \E f : EcuRecvSF(f) \/ EcuRecvFF(f) \/ EcuRecvCF(f) \/ EcuRecvFC(f)
             \/ EcuAbandons
    BY <1>1, <2>1, EcuTakesResponse DEF ResponseKept
  <2>2. CASE (\E b \in env.blocks : EcuGrant(b)) \/ EcuWait \/ EcuOverflow
    BY <1>1, <2>2, EcuFlowResponse DEF ResponseKept
  <2>3. ASSUME NEW len \in env.respLens, EcuReply(len)
        PROVE  ResponseKept
    BY <1>1, <2>3, EcuReplyResponse
  <2>4. CASE EcuSendCF
    BY <1>1, <2>4, EcuSendCFResponse DEF ResponseKept
  <2> QED
    BY <1>4, <2>1, <2>2, <2>3, <2>4 DEF EcuStep, ResponseKept
<1>5. CASE Lose
  BY <1>1, <1>5, LoseResponse
<1>6. CASE Disturb
  BY <1>1, <1>6, DisturbResponse DEF ResponseKept
<1>7. CASE DeadlinePasses
  BY <1>1, <1>7, TesterResponse DEF Aside, ResponseKept
<1>8. CASE UNCHANGED vars
  <2>1. /\ UNCHANGED <<env, toTester, answers, lost, testerVars, ecu>>
        /\ lost \in Nat
    BY <1>1, <1>8 DEF vars, busVars, testerVars, sendVars, recvVars, histVars,
                      Types, BusTypes
  <2>2. ReceiverKeeps /\ ResponderKeeps
    BY <2>1 DEF testerVars, recvVars, ReceiverKeeps, Collecting, Awaits,
                ResponderKeeps, Responding
  <2> QED
    BY <1>1, <2>1, <2>2, ResponseStill DEF ResponseKept
<1> QED
  BY <1>2, <1>3, <1>4, <1>5, <1>6, <1>7, <1>8 DEF Next

-----------------------------------------------------------------------------
(* A request is in one place.                                              *)

\* Nothing new is in flight, taken up or answered.
LEMMA FreshStill ==
    ASSUME FreshInv, UNCHANGED <<call, asked, answers>>,
           toEcu \in Seq(Frames), Thins(toEcu, toEcu'),
           Taken' => Taken /\ ecu'.msg[1] = ecu.msg[1],
           pc' = "send_first" => pc = "send_first"
    PROVE  FreshInv'
<1>1. PICK m \in [1..Len(toEcu') -> 1..Len(toEcu)] :
        /\ \A i, j \in 1..Len(toEcu') : i < j => m[i] < m[j]
        /\ \A i \in 1..Len(toEcu') : toEcu'[i] = toEcu[m[i]]
  BY DEF Thins
<1>2. Asked' = Asked /\ call' = call
  BY DEF Asked
<1>3. \A k : /\ InFlight(k)' => InFlight(k)
             /\ TakenUp(k)' => TakenUp(k)
             /\ Answered(k)' => Answered(k)
  BY <1>1 DEF InFlight, TakenUp, Answered
<1>4. \A i, j \in 1..Len(toEcu') :
        /\ Opens(toEcu'[i]) /\ Opens(toEcu'[j])
        /\ Owner(toEcu'[i]) = Owner(toEcu'[j])
        => i = j
  <2> SUFFICES ASSUME NEW i \in 1..Len(toEcu'), NEW j \in 1..Len(toEcu'),
                      Opens(toEcu'[i]), Opens(toEcu'[j]),
                      Owner(toEcu'[i]) = Owner(toEcu'[j])
               PROVE  i = j
    OBVIOUS
  <2>1. m[i] = m[j]
    BY <1>1, SMTT(30) DEF FreshInv
  <2>2. ~(i < j) /\ ~(j < i)
    <3>1. m[i] \in Int /\ m[j] \in Int
      BY <1>1
    <3> QED
      BY <1>1, <2>1, <3>1
  <2> QED
    BY <2>2
<1> QED
  BY <1>2, <1>3, <1>4 DEF FreshInv

LEMMA TakeFresh ==
    ASSUME Types, FreshInv,
           \/ Aside
           \/ \E f : RecvForeign(f) \/ RecvFC(f) \/ RecvFirst(f) \/ RecvCF(f)
    PROVE  FreshInv'
<1>1. \/ UNCHANGED <<call, asked, answers, toEcu, ecu>> /\ pc' # "send_first"
      \/ UNCHANGED <<call, asked, answers, toEcu, ecu, pc>>
  <2>1. CASE Aside
    BY <2>1 DEF Aside, Poll, GiveUp, RecvNone, SocketError, DeadlinePasses,
                Return, busVars, histVars
  <2>2. ASSUME NEW f, RecvForeign(f)
        PROVE  UNCHANGED <<call, asked, answers, toEcu, ecu, pc>>
    BY <2>2 DEF RecvForeign, histVars
  <2>3. ASSUME NEW f, RecvFC(f)
        PROVE  UNCHANGED <<call, asked, answers, toEcu, ecu>> /\ pc' # "send_first"
    BY <2>3 DEF RecvFC, Return
  <2>4. ASSUME NEW f, RecvFirst(f)
        PROVE  UNCHANGED <<call, asked, answers, toEcu, ecu>> /\ pc' # "send_first"
    BY <2>4 DEF RecvFirst, Return, histVars
  <2>5. ASSUME NEW f, RecvCF(f)
        PROVE  UNCHANGED <<call, asked, answers, toEcu, ecu>> /\ pc' # "send_first"
    BY <2>5 DEF RecvCF, Return, histVars
  <2> QED
    BY <2>1, <2>2, <2>3, <2>4, <2>5
<1>2. /\ UNCHANGED <<call, asked, answers, toEcu, ecu>>
      /\ pc' = "send_first" => pc = "send_first"
  BY <1>1
<1>3. toEcu \in Seq(Frames) /\ Thins(toEcu, toEcu')
  BY <1>2, Queues, EcuSame
<1>4. Taken' => Taken /\ ecu'.msg[1] = ecu.msg[1]
  BY <1>2 DEF Taken
<1> QED
  BY <1>2, <1>3, <1>4, FreshStill

\* A step of the ECU that takes up no request and answers none.
LEMMA EcuQuietFresh ==
    ASSUME Types, FreshInv,
           \/ \E f : EcuRecvCF(f) \/ EcuRecvFC(f)
           \/ \E b \in env.blocks : EcuGrant(b)
           \/ EcuWait \/ EcuOverflow \/ EcuSendCF \/ EcuAbandons
    PROVE  FreshInv'
<1>1. toEcu \in Seq(Frames) /\ Thins(toEcu, toEcu)
  BY Queues, SameThins
<1>2. Thins(toEcu, toEcu') /\ UNCHANGED <<call, asked, answers, pc>>
  <2>1. ASSUME NEW f, EcuTakes(f)
        PROVE  Thins(toEcu, toEcu') /\ UNCHANGED <<call, asked, answers, pc>>
    BY <2>1, EcuTook DEF EcuTakes, histVars
  <2>2. CASE \E f : EcuRecvCF(f) \/ EcuRecvFC(f)
    BY <2>1, <2>2 DEF EcuRecvCF, EcuRecvFC
  <2>3. CASE (\E b \in env.blocks : EcuGrant(b)) \/ EcuWait \/ EcuOverflow \/ EcuSendCF
    BY <1>1, <2>3 DEF EcuGrant, EcuWait, EcuOverflow, EcuSendCF, EcuSends, testerVars
  <2>4. CASE EcuAbandons
    BY <1>1, <2>4 DEF EcuAbandons, busVars, testerVars, histVars
  <2> QED
    BY <2>2, <2>3, <2>4
<1>3. Taken' => Taken /\ ecu'.msg[1] = ecu.msg[1]
  <2>1. ASSUME NEW f, EcuRecvCF(f)
        PROVE  Taken' => Taken /\ ecu'.msg[1] = ecu.msg[1]
    BY <2>1, EcuRecvCFTypes, IdleType DEF Taken
  <2>2. ASSUME NEW f, EcuRecvFC(f)
        PROVE  Taken' => Taken /\ ecu'.msg[1] = ecu.msg[1]
    BY <2>2, EcuRecvFCTypes DEF Taken
  <2>3. ASSUME NEW b \in env.blocks, EcuGrant(b)
        PROVE  Taken' => Taken /\ ecu'.msg[1] = ecu.msg[1]
    BY <2>3, EcuGrantTypes DEF Taken
  <2>4. CASE EcuWait \/ EcuOverflow \/ EcuSendCF \/ EcuAbandons
    BY <2>4, EcuWaitTypes, EcuOverflowTypes, EcuSendCFTypes, EcuAbandonsTypes,
       IdleType DEF Taken
  <2> QED
    BY <2>1, <2>2, <2>3, <2>4
<1> QED
  BY <1>1, <1>2, <1>3, FreshStill

LEMMA BusFresh ==
    ASSUME Types, FreshInv, Lose \/ Disturb \/ UNCHANGED vars
    PROVE  FreshInv'
<1>1. UNCHANGED <<call, asked, answers, pc, ecu>>
  BY DEF Lose, Disturb, vars, testerVars, histVars
<1>2. toEcu \in Seq(Frames) /\ Thins(toEcu, toEcu')
  <2>1. CASE UNCHANGED toEcu
    BY <2>1, Queues, SameThins
  <2>2. ASSUME NEW k \in DOMAIN toEcu, toEcu' = RemoveAt(toEcu, k)
        PROVE  Thins(toEcu, toEcu')
    BY <2>2, Queues, RemoveThins
  <2>3. UNCHANGED toEcu \/ \E k \in DOMAIN toEcu : toEcu' = RemoveAt(toEcu, k)
    BY DEF Lose, Disturb, vars, busVars
  <2> QED
    BY <2>1, <2>2, <2>3, Queues
<1>3. Taken' => Taken /\ ecu'.msg[1] = ecu.msg[1]
  BY <1>1 DEF Taken
<1> QED
  BY <1>1, <1>2, <1>3, FreshStill

\* A new call has a new number.
LEMMA StartFresh ==
    ASSUME Types, FreshInv, NEW len \in env.reqLens, Start(len)
    PROVE  FreshInv'
<1>1. /\ UNCHANGED <<toEcu, ecu, answers>> /\ call' = call + 1
      /\ payload' = Request(call + 1, len) /\ asked' = asked \cup {payload'}
  BY DEF Start, busVars
<1>2. call \in Nat /\ call' \in Nat /\ len \in Nat
  BY <1>1, Sizes, EnvTypes, SMTT(30) DEF Types, BusTypes, TesterTypes
<1>3. \A k \in 0..call : k \in 0..call' /\ k # call'
  BY <1>1, <1>2
<1>4. \A r \in Asked' : r[1][2] \in 0..call'
  <2>1. ASSUME payload' # <<>>
        PROVE  payload'[1][2] = call'
    <3>1. 0 < len
      <4>1. Request(call + 1, 0) \in Seq(Bytes) /\ Len(Request(call + 1, 0)) = 0
        BY <1>1, <1>2, RequestLemma
      <4>2. Request(call + 1, 0) = <<>>
        BY <4>1, EmptySeq
      <4> QED
        BY <1>1, <1>2, <2>1, <4>2
    <3>2. Request(call + 1, len)[1] = <<"req", call + 1, 1>>
      BY <1>1, <1>2, <3>1, MadePayload
    <3> QED
      BY <1>1, <3>2
  <2>2. \A r \in Asked' : r \in Asked \/ (r = payload' /\ r # <<>>)
    BY <1>1 DEF Asked
  <2>3. call' \in 0..call'
    BY <1>2
  <2> QED
    BY <1>3, <2>1, <2>2, <2>3 DEF FreshInv
<1>5. \A k : /\ InFlight(k)' <=> InFlight(k)
             /\ TakenUp(k)' <=> TakenUp(k)
             /\ Answered(k)' <=> Answered(k)
  BY <1>1 DEF InFlight, TakenUp, Taken, Answered
<1> QED
  BY <1>1, <1>3, <1>4, <1>5 DEF FreshInv

LEMMA SendFresh ==
    ASSUME Types, FreshInv, SendFirst \/ SendCF \/ SendFC
    PROVE  FreshInv'
<1>1. PICK f \in Frames : /\ Send(f)
                          /\ Opens(f) => Owner(f) = call /\ pc = "send_first"
  <2>1. CASE SendFirst
    BY <2>1, SendFirstTypes, FirstFrameHead DEF SendFirst
  <2>2. CASE SendCF
    BY <2>2, SendCFTypes DEF Opens
  <2>3. CASE SendFC
    <3>1. ~Opens(EncodeFC(CTS, BlockSize))
      BY DEF EncodeFC, FC, Opens
    <3> QED
      BY <2>3, <3>1, SendFCTypes
  <2> QED
    BY <2>1, <2>2, <2>3
<1>2. UNCHANGED <<call, asked, answers, ecu>> /\ pc' # "send_first"
  BY DEF SendFirst, SendCF, SendFC, Return
<1>3. /\ Len(toEcu') = Len(toEcu) + 1 /\ Len(toEcu) \in Nat
      /\ \A i \in 1..Len(toEcu) : toEcu'[i] = toEcu[i]
      /\ toEcu'[Len(toEcu) + 1] = f
  BY <1>1, TesterSent, Queues
<1>4. \A i \in 1..Len(toEcu') : i \in 1..Len(toEcu) \/ i = Len(toEcu) + 1
  BY <1>3
<1>5. \A k : /\ InFlight(k)' => InFlight(k) \/ (k = call /\ Opens(f))
             /\ TakenUp(k)' <=> TakenUp(k)
             /\ Answered(k)' <=> Answered(k)
  BY <1>1, <1>2, <1>3, <1>4 DEF InFlight, TakenUp, Taken, Answered
<1>6. Opens(f) => ~InFlight(call) /\ ~TakenUp(call) /\ ~Answered(call)
  BY <1>1 DEF FreshInv
<1>7. \A i, j \in 1..Len(toEcu') :
        /\ Opens(toEcu'[i]) /\ Opens(toEcu'[j])
        /\ Owner(toEcu'[i]) = Owner(toEcu'[j])
        => i = j
  <2>1. Opens(f) => \A i \in 1..Len(toEcu) : Opens(toEcu[i]) => Owner(toEcu[i]) # call
    BY <1>6 DEF InFlight
  <2> QED
    BY <1>1, <1>3, <1>4, <2>1 DEF FreshInv
<1>8. call \in 0..call /\ call' = call /\ Asked' = Asked
  BY <1>2, Sizes DEF Asked, Types, TesterTypes
<1> QED
  BY <1>2, <1>5, <1>6, <1>7, <1>8 DEF FreshInv

\* The request taken up was in flight, and no other is.
LEMMA EcuOpensFresh ==
    ASSUME Types, FreshInv, NEW f, EcuRecvSF(f) \/ EcuRecvFF(f)
    PROVE  FreshInv'
<1>1. EcuTakes(f) /\ Opens(f) /\ Taken' /\ ecu'.msg[1] = f.data[1]
  BY EcuRecvSFTypes, EcuRecvFFTypes DEF EcuRecvSF, EcuRecvFF, Opens, Taken
<1>2. /\ f = toEcu[1] /\ 1 \in 1..Len(toEcu) /\ Len(toEcu) \in Nat
      /\ Len(toEcu') = Len(toEcu) - 1
      /\ \A i \in 1..Len(toEcu') : toEcu'[i] = toEcu[i + 1]
  BY <1>1, EcuTook, Queues
<1>3. UNCHANGED <<call, pc, asked, answers>>
  BY <1>1 DEF EcuTakes, testerVars, histVars
<1>4. \A i \in 1..Len(toEcu') : i + 1 \in 1..Len(toEcu) /\ i + 1 # 1
  BY <1>2
<1>5. InFlight(Owner(f))
  BY <1>1, <1>2 DEF InFlight
<1>6. \A k : /\ InFlight(k)' => InFlight(k) /\ k # Owner(f)
             /\ TakenUp(k)' <=> k = Owner(f)
             /\ Answered(k)' <=> Answered(k)
  <2>1. \A k : InFlight(k)' => InFlight(k)
    BY <1>2, <1>4 DEF InFlight
  <2>2. \A k : InFlight(k)' => k # Owner(f)
    BY <1>1, <1>2, <1>4 DEF InFlight, FreshInv
  <2>3. \A k : TakenUp(k)' <=> k = Owner(f)
    BY <1>1 DEF TakenUp, Owner
  <2>4. \A k : Answered(k)' <=> Answered(k)
    BY <1>3 DEF Answered
  <2> QED
    BY <2>1, <2>2, <2>3, <2>4
<1>7. \A i, j \in 1..Len(toEcu') :
        /\ Opens(toEcu'[i]) /\ Opens(toEcu'[j])
        /\ Owner(toEcu'[i]) = Owner(toEcu'[j])
        => i = j
  <2> SUFFICES ASSUME NEW i \in 1..Len(toEcu'), NEW j \in 1..Len(toEcu'),
                      Opens(toEcu'[i]), Opens(toEcu'[j]),
                      Owner(toEcu'[i]) = Owner(toEcu'[j])
               PROVE  i = j
    OBVIOUS
  <2>1. i + 1 = j + 1
    BY <1>2, <1>4 DEF FreshInv
  <2> QED
    BY <2>1
<1>8. Asked' = Asked
  BY <1>3 DEF Asked
<1> QED
  BY <1>3, <1>5, <1>6, <1>7, <1>8 DEF FreshInv

\* The request answered was taken up, and no other is.
LEMMA EcuReplyFresh ==
    ASSUME Types, FreshInv, NEW len \in env.respLens, EcuReply(len)
    PROVE  FreshInv'
<1> DEFINE h == ecu.msg[1][2]
           rsp == Response(h, len)
<1>1. /\ ecu.state = "reply" /\ h \in Nat /\ len \in 1..MaxFFLength
      /\ answers' = answers \cup {rsp} /\ EcuSends(ReplyFrame(rsp))
  BY EcuReplyTypes
<1>2. rsp[1][2] = h
  <2>1. len \in Nat /\ 0 < len
    BY <1>1, Sizes
  <2>2. Response(h, len)[1] = <<"rsp", h, 1>>
    BY <1>1, <2>1, MadeResponse
  <2> QED
    BY <2>2
<1>3. ~Taken'
  BY EcuReplyTypes, IdleType DEF Taken
<1>4. TakenUp(h)
  BY <1>1 DEF TakenUp, Taken
<1>5. UNCHANGED <<toEcu, call, pc, asked>>
  BY <1>1 DEF EcuSends, testerVars
<1> HIDE DEF h, rsp
<1>6. \A k : /\ InFlight(k)' <=> InFlight(k)
             /\ ~TakenUp(k)'
             /\ Answered(k)' <=> Answered(k) \/ k = h
  BY <1>1, <1>2, <1>3, <1>5 DEF InFlight, TakenUp, Answered
<1>7. Asked' = Asked
  BY <1>5 DEF Asked
<1> QED
  BY <1>4, <1>5, <1>6, <1>7 DEF FreshInv

LEMMA FreshNext ==
    ASSUME Types, FreshInv, [Next]_vars
    PROVE  FreshInv'
<1>1. CASE \E len \in env.reqLens : Start(len)
  BY <1>1, StartFresh
<1>2. CASE TesterStep
  <2>1. \/ Aside \/ SendFirst \/ SendCF \/ SendFC
        \/ \E f : RecvForeign(f) \/ RecvFC(f) \/ RecvFirst(f) \/ RecvCF(f)
    BY <1>2 DEF TesterStep, Aside
  <2> QED
    BY <2>1, SendFresh, TakeFresh
<1>3. CASE EcuStep
  <2>1. ASSUME NEW f, EcuRecvSF(f) \/ EcuRecvFF(f)
        PROVE  FreshInv'
    BY <2>1, EcuOpensFresh
  <2>2. CASE \E len \in env.respLens : EcuReply(len)
    BY <2>2, EcuReplyFresh
  <2>3. CASE \/ \E f : EcuRecvCF(f) \/ EcuRecvFC(f)
             \/ \E b \in env.blocks : EcuGrant(b)
             \/ EcuWait \/ EcuOverflow \/ EcuSendCF \/ EcuAbandons
    BY <2>3, EcuQuietFresh
  <2> QED
    BY <1>3, <2>1, <2>2, <2>3 DEF EcuStep
<1>4. CASE Lose \/ Disturb \/ UNCHANGED vars
  BY <1>4, BusFresh
<1>5. CASE DeadlinePasses
  BY <1>5, TakeFresh DEF Aside
<1> QED
  BY <1>1, <1>2, <1>3, <1>4, <1>5 DEF Next

-----------------------------------------------------------------------------
(* The invariant holds.                                                    *)

LEMMA InitWhole == ASSUME Init PROVE WInv
<1>1. IInv
  BY InitInv
<1>2. /\ toEcu = <<>> /\ toTester = <<>> /\ asked = {} /\ answers = {}
      /\ pc = "idle" /\ result = "none"
      /\ ecu.state = "idle"
  BY IdleType DEF Init
<1>3. Len(toEcu) = 0 /\ Len(toTester) = 0 /\ Asked = {}
  BY <1>2 DEF Asked
<1>4. \A i \in 1..0 : FALSE
  OBVIOUS
<1>5. ~Assembling /\ ~Responding /\ ~Collecting /\ ~Sending /\ ~Taken
  BY <1>2 DEF Assembling, Responding, Collecting, Sending, Taken
<1>6. CarryInv
  BY <1>2, <1>3, <1>4, <1>5
     DEF CarryInv, RequestCarry, ResponseCarry, Wholes, Contents, Sending
<1>7. FreshInv
  BY <1>2, <1>3, <1>4, <1>5 DEF FreshInv, InFlight, TakenUp, Answered
<1>8. \A H : Channel(<<>>, H, {}, {}, {})
  <2>1. Len(<<>>) = 0
    OBVIOUS
  <2> QED
    BY <1>4, <2>1 DEF Channel, Marked, Rising, Follows, Sent, Awaited, Leads, Ends,
                      Meets, Positions
<1>9. RequestLine
  <2>1. RequestS = {} /\ RequestO = {} /\ RequestR(0) = {}
    BY <1>2, <1>5 DEF RequestS, RequestO, RequestR
  <2> QED
    BY <1>2, <1>5, <1>8, <2>1 DEF RequestLine
<1>10. ResponseLine
  <2>1. ResponseS = {} /\ ResponseR(0) = {}
    BY <1>5 DEF ResponseS, ResponseR
  <2>2. Announced(toTester, ReplyHeads, ResponseS, lost)
    BY <1>3, <1>4 DEF Announced
  <2> QED
    BY <1>2, <1>5, <1>8, <2>1, <2>2 DEF ResponseLine
<1> QED
  BY <1>1, <1>6, <1>7, <1>9, <1>10 DEF WInv, LinesInv

\* Frames that were lost stay lost, and a call that failed has failed.
LEMMA DistinctBefore ==
    ASSUME Types, [Next]_vars, TransfersAreDistinct'
    PROVE  TransfersAreDistinct
<1>1. lost \in Nat
  BY DEF Types, BusTypes
<1>2. (abandoned => abandoned') /\ (lost' = lost \/ lost' = lost + 1)
  <2>1. CASE \E len \in env.reqLens : Start(len)
    BY <2>1 DEF Start, busVars
  <2>2. CASE TesterStep
    <3>1. CASE SendFirst \/ SendCF \/ SendFC
      BY <3>1 DEF SendFirst, SendCF, SendFC
    <3>2. CASE Poll \/ GiveUp \/ RecvNone \/ SocketError
      BY <3>2 DEF Poll, GiveUp, RecvNone, SocketError, busVars, histVars
    <3>3. ASSUME NEW f, RecvForeign(f) \/ RecvFC(f) \/ RecvFirst(f) \/ RecvCF(f)
          PROVE  UNCHANGED <<abandoned, lost>>
      BY <3>3 DEF RecvForeign, RecvFC, RecvFirst, RecvCF, histVars
    <3> QED
      BY <2>2, <3>1, <3>2, <3>3 DEF TesterStep
  <2>3. CASE EcuStep
    <3>1. ASSUME NEW f, EcuTakes(f)
          PROVE  UNCHANGED <<abandoned, lost>>
      BY <3>1 DEF EcuTakes, histVars
    <3>2. ASSUME NEW f, EcuSends(f)
          PROVE  UNCHANGED <<abandoned, lost>>
      BY <3>2 DEF EcuSends
    <3>3. CASE EcuAbandons
      BY <3>3 DEF EcuAbandons, busVars, histVars
    <3>4. ASSUME NEW f, EcuRecvSF(f) \/ EcuRecvFF(f) \/ EcuRecvCF(f) \/ EcuRecvFC(f)
          PROVE  UNCHANGED <<abandoned, lost>>
      BY <3>1, <3>4 DEF EcuRecvSF, EcuRecvFF, EcuRecvCF, EcuRecvFC
    <3>5. CASE \/ \E b \in env.blocks : EcuGrant(b)
               \/ EcuWait \/ EcuOverflow \/ EcuSendCF
               \/ \E len \in env.respLens : EcuReply(len)
      BY <3>2, <3>5 DEF EcuGrant, EcuWait, EcuOverflow, EcuSendCF, EcuReply
    <3> QED
      BY <2>3, <3>3, <3>4, <3>5 DEF EcuStep
  <2>4. CASE Lose \/ Disturb \/ DeadlinePasses \/ UNCHANGED vars
    BY <2>4 DEF Lose, Disturb, DeadlinePasses, vars, busVars, histVars
  <2> QED
    BY <2>1, <2>2, <2>3, <2>4 DEF Next
<1>3. lost' = 0 => lost = 0
  BY <1>1, <1>2
<1> QED
  BY <1>2, <1>3 DEF TransfersAreDistinct

LEMMA NextWhole == ASSUME WInv, [Next]_vars PROVE WInv'
<1>1. IInv /\ Types /\ CarryInv /\ FreshInv /\ LinesInv
  BY DEF WInv, IInv
<1>2. IInv'
  BY <1>1, NextInv
<1>3. FreshInv'
  BY <1>1, FreshNext
<1>4. CarryInv'
  BY <1>1, RequestNext, ResponseNext DEF CarryInv
<1>5. LinesInv'
  <2> SUFFICES ASSUME TransfersAreDistinct'
               PROVE  RequestLine' /\ ResponseLine'
    BY DEF LinesInv
  <2>1. TransfersAreDistinct
    BY <1>1, DistinctBefore
  <2>2. RequestLine /\ ResponseLine
    BY <1>1, <2>1 DEF LinesInv
  <2> QED
    BY <1>1, <2>2, RequestNext, ResponseNext
<1> QED
  BY <1>2, <1>3, <1>4, <1>5 DEF WInv

\* In every reachable state the frames on their way, and what either side has
\* collected of them, are pieces of requests made and of responses begun, in
\* their order and at their places.
THEOREM WholeInvariant == Spec => []WInv
<1>1. Init => WInv
  BY InitWhole
<1>2. WInv /\ [Next]_vars => WInv'
  BY NextWhole
<1> QED
  BY <1>1, <1>2, PTL DEF Spec

-----------------------------------------------------------------------------
(* Messages arrive whole.                                                  *)

LEMMA BeginsIsPrefix ==
    ASSUME NEW p \in Seq(Bytes), NEW w \in Seq(Bytes), Begins(p, w)
    PROVE  IsPrefix(p, w)
<1> DEFINE n == Len(p)
           a == SubSeq(p, 1, n)
           b == SubSeq(w, 1, n)
<1>1. n \in Nat /\ Len(w) \in Nat /\ n <= Len(w) /\ \A i \in 1..n : p[i] = w[i]
  BY LenProperties DEF Begins
<1>2. /\ a \in Seq(Bytes) /\ Len(a) = n
      /\ \A i \in 1..n : a[i] = p[i]
  <2>1. \A i \in 1..n : 1 + i - 1 = i
    BY <1>1
  <2>2. n - 1 + 1 = n /\ (n < 1 => n = 0)
    BY <1>1
  <2> QED
    BY <1>1, <2>1, <2>2, SubSeqProperties
<1>3. /\ b \in Seq(Bytes) /\ Len(b) = n
      /\ \A i \in 1..n : b[i] = w[i]
  <2>1. \A i \in 1..n : 1 + i - 1 = i
    BY <1>1
  <2>2. n - 1 + 1 = n /\ (n < 1 => n = 0)
    BY <1>1
  <2> QED
    BY <1>1, <2>1, <2>2, SubSeqProperties
<1> HIDE DEF a, b, n
<1>4. a = b
  BY <1>1, <1>2, <1>3, SeqEqual
<1> QED
  BY <1>1, <1>4 DEF IsPrefix, a, b, n

\* What the ECU takes for a request is one that was made, whole: the
\* Consecutive Frames of send_consecutive_frames never mix with those of
\* another call, whatever the bus loses.
THEOREM RequestsArriveWhole == Spec => []RequestArrivesWhole
<1>1. WInv => RequestArrivesWhole
  BY DEF WInv, LinesInv, RequestLine, RequestArrivesWhole, Asked
<1> QED
  BY <1>1, WholeInvariant, PTL

\* What request() returns is exactly one response of the ECU, and as long as
\* fewer frames are lost than the sequence number tells apart, what
\* receive_response has collected is the beginning of one.
THEOREM ResponsesAreWhole == Spec => []ResponseIsOneWhole
<1>1. WInv => OkIsOneWholeResponse
  BY DEF WInv, LinesInv, ResponseLine, OkIsOneWholeResponse
<1>2. ASSUME WInv
      PROVE  CollectedIsPrefix
  <2> SUFFICES ASSUME Collecting, env.lost < SeqModulus, TransfersAreDistinct
               PROVE  \E rsp \in answers : Len(rsp) = total /\ IsPrefix(out, rsp)
    BY DEF CollectedIsPrefix, Collecting
  <2>1. PICK m \in Nat : Collected(answers, out, total, Awaits, m) /\ InTime(m)
    BY <1>2 DEF WInv, LinesInv, ResponseLine
  <2>2. out \in Seq(Bytes) /\ Len(out) \in Nat /\ env.lost \in Nat
    BY <1>2, EnvTypes, LenProperties DEF WInv, IInv, Types, TesterTypes, BusTypes
  <2>3. m = Len(out)
    <3>1. ~(SeqModulus <= env.lost)
      BY <2>2, Sizes
    <3> QED
      BY <2>1, <3>1 DEF InTime
  <2>4. PICK w \in answers :
          /\ total = Len(w)
          /\ \/ m = Len(out) /\ InStep(m, Awaits) /\ Begins(out, w)
             \/ m = Len(out) + CFPayload
    BY <2>1 DEF Collected
  <2>5. Begins(out, w)
    <3>1. m # Len(out) + CFPayload
      BY <2>2, <2>3, Sizes
    <3> QED
      BY <2>4, <3>1
  <2>6. w \in Seq(Bytes)
    BY <1>2 DEF WInv, CarryInv, ResponseCarry, Wholes, Whole
  <2>7. IsPrefix(out, w)
    BY <2>2, <2>5, <2>6, BeginsIsPrefix
  <2> QED
    BY <2>4, <2>7
<1>3. WInv => ResponseIsOneWhole
  BY <1>1, <1>2 DEF ResponseIsOneWhole
<1> QED
  BY <1>3, WholeInvariant, PTL

=============================================================================
