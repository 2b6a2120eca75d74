------------------------ MODULE SatForwardLinkProofs ------------------------
(***************************************************************************)
(* The frames of the forward link, for every set of connections and        *)
(* MODCODs and every size and duration of a frame.  What is said of a      *)
(* container is a sum over its queues: of the durations of the frames, or  *)
(* of the bytes that they carry of a connection.  Every operation of a     *)
(* container replaces, adds or removes the frame at one end of a queue, so *)
(* it changes such a sum by what that frame counts for.                    *)
(***************************************************************************)
EXTENDS SatForwardLink, SatFacts

Pdu == [conn : Connections, n : Int, modcod : Modcods, about : Ut \cup {None}]
Frame == [modcod : Modcods, type : FrameTypes, max : Int, used : Int, pdus : Seq(Pdu)]

\* Containers whose frames at each place are of the set that G has for it.
Containers(G) ==
  [queues : {q \in [Places -> Seq(Frame)] : \A p \in Places : q[p] \in Seq(G[p])},
   totalDuration : Int]

\* What a queue, and a container, weighs if every frame f counts w[f].
QueueWeight(w, q) == SumFunction([i \in DOMAIN q |-> w[q[i]]])
Weight(w, k) == SumFunction([p \in Places |-> QueueWeight(w, k.queues[p])])
Weighs(w) == \A f \in Frame : w[f] \in Int
Loses(l, k, f) == \A w : Weighs(w) => Weight(w, l) = Weight(w, k) - w[f]

DurationOf == [f \in Frame |-> FrameDuration(f)]
Exact(k) == k.totalDuration = Weight(DurationOf, k)

-----------------------------------------------------------------------------
\* Sequences of the same elements are equal.
LEMMA SameSequence ==
  ASSUME NEW S, NEW s \in Seq(S), NEW t \in Seq(S), Len(s) = Len(t), \A i \in 1 .. Len(s) : s[i] = t[i]
  PROVE  s = t
  OBVIOUS

\* A sequence that another makes up with one more element.
LEMMA OneMore ==
  ASSUME NEW S, NEW s \in Seq(S), NEW f \in Seq(S), NEW e \in S,
         Len(s) = Len(f) + 1, \A i \in 1 .. Len(f) : s[i] = f[i], s[Len(s)] = e
  PROVE  s = Append(f, e)
<1>1. Append(f, e) \in Seq(S) /\ Len(Append(f, e)) = Len(s)
  OBVIOUS
<1>2. ASSUME NEW i \in 1 .. Len(s) PROVE Append(f, e)[i] = s[i]
  <2>1. CASE i \in 1 .. Len(f)
    BY <2>1
  <2>2. CASE i = Len(f) + 1
    BY <2>2
  <2> QED BY <2>1, <2>2
<1> QED BY <1>1, <1>2

\* A sequence that is not empty is its front and its last element.
LEMMA FrontAndLast ==
  ASSUME NEW S, NEW s \in Seq(S), s # <<>>
  PROVE  /\ Front(s) \in Seq(S) /\ Last(s) \in S /\ s = Append(Front(s), Last(s))
         /\ Tail(s) \in Seq(S) /\ Head(s) \in S
<1>1. Len(s) \in Nat \ {0} /\ s \in [1 .. Len(s) -> S]
  OBVIOUS
<1>2. /\ Front(s) \in Seq(S)
      /\ Len(Front(s)) = Len(s) - 1
      /\ \A i \in 1 .. Len(s) - 1 : Front(s)[i] = s[i]
  BY <1>1 DEF Front
<1>3. Last(s) \in S /\ s[Len(s)] = Last(s)
  BY <1>1 DEF Last
<1>4. Len(s) = Len(Front(s)) + 1 /\ \A i \in 1 .. Len(Front(s)) : s[i] = Front(s)[i]
  BY <1>1, <1>2
<1>5. s = Append(Front(s), Last(s))
  BY <1>2, <1>3, <1>4, OneMore
<1> QED BY <1>2, <1>3, <1>5

\* The weights of sequences: integers, and what an element more or less makes of
\* them.
LEMMA SequenceWeights ==
  ASSUME NEW S, NEW w, \A x \in S : w[x] \in Int, NEW q \in Seq(S)
  PROVE  /\ QueueWeight(w, q) \in Int
         /\ QueueWeight(w, <<>>) = 0
         /\ \A f \in S : QueueWeight(w, Append(q, f)) = QueueWeight(w, q) + w[f]
         /\ q # <<>> => /\ QueueWeight(w, q) = QueueWeight(w, Front(q)) + w[Last(q)]
                        /\ QueueWeight(w, q) = QueueWeight(w, Tail(q)) + w[Head(q)]
<1> DEFINE W(s) == [i \in DOMAIN s |-> w[s[i]]]
<1>1. \A s \in Seq(S) : W(s) \in Seq(Int) /\ Len(W(s)) = Len(s)
  OBVIOUS
<1>2. \A s \in Seq(S) : QueueWeight(w, s) \in Int
  BY <1>1, SumOfSequence DEF QueueWeight
<1>3. QueueWeight(w, <<>>) = 0
  <2>1. DOMAIN W(<<>>) = {}
    OBVIOUS
  <2> QED BY <2>1, SumOfNone DEF QueueWeight, SumFunction
<1>4. ASSUME NEW s \in Seq(S), NEW f \in S
      PROVE  QueueWeight(w, Append(s, f)) = QueueWeight(w, s) + w[f]
  <2> DEFINE t == Append(s, f)
  <2>1. t \in Seq(S) /\ Len(t) = Len(s) + 1 /\ t[Len(t)] = f
    OBVIOUS
  <2>2. w[f] \in Int
    OBVIOUS
  <2>3. W(t) = Append(W(s), w[f])
    <3>1. Len(W(t)) = Len(W(s)) + 1
      BY <1>1, <2>1
    <3>2. \A i \in 1 .. Len(W(s)) : W(t)[i] = W(s)[i]
      BY <1>1
    <3>3. W(t)[Len(W(t))] = w[f]
      BY <1>1, <2>1
    <3> HIDE DEF W, t
    <3> QED BY <1>1, <2>1, <2>2, <3>1, <3>2, <3>3, OneMore
  <2> HIDE DEF W
  <2>4. SumFunction(Append(W(s), w[f])) = SumFunction(W(s)) + w[f]
    BY <1>1, <2>2, SumAppend
  <2>5. QueueWeight(w, t) = SumFunction(W(t)) /\ QueueWeight(w, s) = SumFunction(W(s))
    BY DEF QueueWeight, W
  <2> QED BY <2>3, <2>4, <2>5
<1>5. ASSUME q # <<>>
      PROVE  /\ QueueWeight(w, q) = QueueWeight(w, Front(q)) + w[Last(q)]
             /\ QueueWeight(w, q) = QueueWeight(w, Tail(q)) + w[Head(q)]
  <2>1. Front(q) \in Seq(S) /\ Last(q) \in S /\ q = Append(Front(q), Last(q))
    BY <1>5, FrontAndLast
  <2>2. QueueWeight(w, Append(Front(q), Last(q))) = QueueWeight(w, Front(q)) + w[Last(q)]
    BY <2>1, <1>4
  <2>3. W(q) # <<>> /\ Head(W(q)) = w[Head(q)] /\ Tail(W(q)) = W(Tail(q)) /\ Tail(q) \in Seq(S)
    <3>1. Tail(q) \in Seq(S) /\ Len(q) \in Nat \ {0} /\ Len(Tail(q)) = Len(q) - 1
          /\ Head(q) = q[1] /\ \A i \in 1 .. Len(q) - 1 : Tail(q)[i] = q[i + 1]
      BY <1>5
    <3>2. W(q) \in Seq(Int) /\ Len(W(q)) = Len(q) /\ W(Tail(q)) \in Seq(Int) /\ Len(W(Tail(q))) = Len(q) - 1
      BY <1>1, <3>1
    <3>3. \A i \in 1 .. Len(q) : W(q)[i] = w[q[i]]
      OBVIOUS
    <3>4. \A i \in 1 .. Len(q) - 1 : W(Tail(q))[i] = W(q)[i + 1]
      BY <3>1
    <3> HIDE DEF W
    <3>5. W(q) # <<>> /\ Head(W(q)) = w[Head(q)]
      BY <3>1, <3>2, <3>3
    <3>6. Tail(W(q)) = W(Tail(q))
      <4>1. /\ Tail(W(q)) \in Seq(Int) /\ Len(Tail(W(q))) = Len(q) - 1
            /\ \A i \in 1 .. Len(q) - 1 : Tail(W(q))[i] = W(q)[i + 1]
        BY <3>1, <3>2, <3>5
      <4> QED BY <3>2, <3>4, <4>1, SameSequence
    <3> QED BY <3>1, <3>5, <3>6
  <2>4. SumFunction(W(q)) = Head(W(q)) + SumFunction(Tail(W(q)))
    BY <1>1, <2>3, SumTail
  <2>5. QueueWeight(w, q) = w[Head(q)] + QueueWeight(w, Tail(q))
    BY <2>3, <2>4 DEF QueueWeight
  <2>6. w[Head(q)] \in Int /\ QueueWeight(w, Tail(q)) \in Int
    <3>1. Head(q) \in S
      BY <1>5
    <3> QED BY <3>1, <2>3, <1>2
  <2>7. QueueWeight(w, q) = QueueWeight(w, Front(q)) + w[Last(q)]
    BY <2>1, <2>2, Zenon
  <2> QED BY <2>5, <2>6, <2>7
<1> QED BY <1>2, <1>3, <1>4, <1>5

\* Those of two sequences add up.
LEMMA ConcatenationWeighs ==
  ASSUME NEW S, NEW w, \A x \in S : w[x] \in Int, NEW q \in Seq(S), NEW r \in Seq(S)
  PROVE  QueueWeight(w, q \o r) = QueueWeight(w, q) + QueueWeight(w, r)
<1> DEFINE A == {n \in Nat : \A s \in Seq(S) : Len(s) = n =>
                               QueueWeight(w, q \o s) = QueueWeight(w, q) + QueueWeight(w, s)}
<1>1. \A s \in Seq(S) : QueueWeight(w, s) \in Int
  BY SequenceWeights
<1>2. \A b \in Seq(S), e \in S : QueueWeight(w, Append(b, e)) = QueueWeight(w, b) + w[e]
  BY SequenceWeights
<1>3. 0 \in A
  <2>1. ASSUME NEW s \in Seq(S), Len(s) = 0
        PROVE  QueueWeight(w, q \o s) = QueueWeight(w, q) + QueueWeight(w, s)
    <3>1. s = <<>>
      BY <2>1
    <3>2. QueueWeight(w, s) = 0
      BY <3>1, SequenceWeights
    <3>3. q \o s = q
      BY <3>1
    <3> QED BY <1>1, <3>2, <3>3
  <2> QED BY <2>1
<1>4. ASSUME NEW n \in Nat, n \in A PROVE n + 1 \in A
  <2>1. ASSUME NEW s \in Seq(S), Len(s) = n + 1
        PROVE  QueueWeight(w, q \o s) = QueueWeight(w, q) + QueueWeight(w, s)
    <3>1. s # <<>>
      BY <2>1
    <3>2. Front(s) \in Seq(S) /\ Last(s) \in S /\ s = Append(Front(s), Last(s))
      BY <3>1, FrontAndLast
    <3>3. PICK f, e : f = Front(s) /\ e = Last(s)
      OBVIOUS
    <3>4. f \in Seq(S) /\ e \in S /\ s = Append(f, e)
      BY <3>2, <3>3
    <3>5. Len(f) = n
      <4>1. Len(f) \in Nat /\ Len(s) = Len(f) + 1
        BY <3>4
      <4> QED BY <2>1, <4>1
    <3>6. QueueWeight(w, q \o f) = QueueWeight(w, q) + QueueWeight(w, f)
      BY <1>4, <3>4, <3>5
    <3>7. q \o f \in Seq(S) /\ q \o s = Append(q \o f, e)
      <4>1. q \o f \in Seq(S) /\ q \o s \in Seq(S) /\ Len(q \o f) = Len(q) + Len(f)
            /\ Len(q \o s) = Len(q) + Len(s) /\ Len(s) = Len(f) + 1 /\ Len(f) \in Nat /\ Len(q) \in Nat
        BY <3>4
      <4>2. \A i \in 1 .. Len(q) + Len(f) : (q \o s)[i] = (q \o f)[i]
        BY <3>4
      <4>3. (q \o s)[Len(q \o s)] = e
        <5>1. s[Len(s)] = e
          BY <3>4
        <5> QED BY <4>1, <5>1
      <4> DEFINE a == q \o s
                 b == q \o f
      <4>4. /\ a \in Seq(S) /\ b \in Seq(S) /\ Len(a) = Len(b) + 1
            /\ (\A i \in 1 .. Len(b) : a[i] = b[i]) /\ a[Len(a)] = e
        BY <4>1, <4>2, <4>3
      <4> HIDE DEF a, b
      <4>5. a = Append(b, e)
        BY <3>4, <4>4, OneMore
      <4> QED BY <4>4, <4>5 DEF a, b
    <3>8. QueueWeight(w, Append(q \o f, e)) = QueueWeight(w, q \o f) + w[e]
      BY <1>2, <3>4, <3>7, Zenon
    <3>9. QueueWeight(w, Append(f, e)) = QueueWeight(w, f) + w[e]
      BY <1>2, <3>4, Zenon
    <3>10. w[e] \in Int /\ QueueWeight(w, f) \in Int /\ QueueWeight(w, q) \in Int
      BY <1>1, <3>4
    <3>11. PICK x, y, z : x = QueueWeight(w, q \o s) /\ y = QueueWeight(w, q \o f)
                          /\ z = QueueWeight(w, s)
      OBVIOUS
    <3>12. x = y + w[e] /\ z = QueueWeight(w, f) + w[e]
      BY <3>4, <3>7, <3>8, <3>9, <3>11
    <3> QED BY <3>6, <3>10, <3>11, <3>12
  <2> QED BY <2>1
<1>5. Len(r) \in A
  <2> HIDE DEF A
  <2>1. \A n \in Nat : n \in A
    BY <1>3, <1>4, Induction
  <2> QED BY <2>1
<1> QED BY <1>5

\* Those of queues of frames.
LEMMA QueueWeights ==
  ASSUME NEW w, Weighs(w), NEW q \in Seq(Frame)
  PROVE  /\ QueueWeight(w, q) \in Int
         /\ QueueWeight(w, <<>>) = 0
         /\ \A f \in Frame : QueueWeight(w, Append(q, f)) = QueueWeight(w, q) + w[f]
         /\ q # <<>> => /\ QueueWeight(w, q) = QueueWeight(w, Front(q)) + w[Last(q)]
                        /\ QueueWeight(w, q) = QueueWeight(w, Tail(q)) + w[Head(q)]
  BY SequenceWeights DEF Weighs

\* There are finitely many places.
LEMMA PlacesFinite == IsFiniteSet(Places) /\ Places = 0 .. Len(Bytes["NORMAL_FRAME"])
<1>1. Modcods = 1 .. Len(Bytes["NORMAL_FRAME"]) /\ Modcods # {}
  <2>1. Len(Bytes["NORMAL_FRAME"]) \in Nat \ {0}
    BY ContainerAssumption
  <2> QED BY <2>1, ContainerAssumption
<1>2. IsFiniteSet(Modcods)
  BY <1>1, FS_Interval
<1>3. IsFiniteSet(Modcods \cup {Control})
  BY <1>2, FS_AddElement
<1>4. Places = Modcods \cup {Control}
  BY DEF Places
<1>5. Places = 0 .. Len(Bytes["NORMAL_FRAME"])
  <2>1. Len(Bytes["NORMAL_FRAME"]) \in Nat
    BY ContainerAssumption
  <2> QED BY <1>1, <1>4, <2>1 DEF Control
<1>6. IsFiniteSet(Places)
  BY <1>3, <1>4
<1> QED BY <1>5, <1>6

\* Frames have durations.
LEMMA DurationsWeigh ==
  /\ Weighs(DurationOf)
  /\ \A f \in Frame : DurationOf[f] = FrameDuration(f) /\ FrameDuration(f) \in Nat \ {0}
<1>1. \A t \in FrameTypes, m \in Modcods : Duration[t][m] \in Nat \ {0}
  BY ContainerAssumption
<1>2. ASSUME NEW f \in Frame PROVE FrameDuration(f) \in Nat \ {0}
  <2>1. f.type \in FrameTypes /\ f.modcod \in Modcods
    BY DEF Frame
  <2> QED BY <1>1, <2>1 DEF FrameDuration
<1> QED BY <1>2 DEF Weighs, DurationOf
-----------------------------------------------------------------------------
(* The operations of a container. *)

\* What makes a container.
LEMMA ContainerOf ==
  ASSUME NEW G, NEW l, l = [queues |-> l.queues, totalDuration |-> l.totalDuration],
         l.queues \in [Places -> Seq(Frame)], \A r \in Places : l.queues[r] \in Seq(G[r]),
         l.totalDuration \in Int
  PROVE  l \in Containers(G)
<1> DEFINE Q == {q \in [Places -> Seq(Frame)] : \A r \in Places : q[r] \in Seq(G[r])}
<1>1. l.queues \in Q
  OBVIOUS
<1>2. [queues |-> l.queues, totalDuration |-> l.totalDuration] \in [queues : Q, totalDuration : Int]
  <2> HIDE DEF Q
  <2> QED BY <1>1
<1> QED BY <1>2, Zenon DEF Containers

\* A container weighs more or less by what one queue does.
AgreeBut(k, l, p) ==
  /\ k.queues \in [Places -> Seq(Frame)] /\ l.queues \in [Places -> Seq(Frame)]
  /\ \A r \in Places \ {p} : l.queues[r] = k.queues[r]
LEMMA WeightChanged ==
  ASSUME NEW w, Weighs(w), NEW k, NEW l, NEW p \in Places, AgreeBut(k, l, p)
  PROVE  /\ Weight(w, k) \in Int
         /\ Weight(w, l) = Weight(w, k) - QueueWeight(w, k.queues[p]) + QueueWeight(w, l.queues[p])
<1> DEFINE F == [r \in Places |-> QueueWeight(w, k.queues[r])]
           H == [r \in Places |-> QueueWeight(w, l.queues[r])]
<1>1. \A r \in Places : F[r] \in Int /\ H[r] \in Int
  BY QueueWeights DEF AgreeBut
<1>2. \A r \in Places : r # p => H[r] = F[r]
  BY DEF AgreeBut
<1>3. DOMAIN F = Places /\ DOMAIN H = Places /\ F[p] = QueueWeight(w, k.queues[p])
      /\ H[p] = QueueWeight(w, l.queues[p])
  OBVIOUS
<1>4. Weight(w, k) = SumFunction(F) /\ Weight(w, l) = SumFunction(H)
  BY DEF Weight
<1> HIDE DEF F, H
<1>5. PICK f, g : f = F /\ g = H
  OBVIOUS
<1>6. IsFiniteSet(Places)
  BY PlacesFinite
<1>7. \A r \in Places : f[r] \in Int /\ g[r] \in Int /\ (r # p => g[r] = f[r])
  BY <1>1, <1>2, <1>5
<1>8. SumFunctionOnSet(g, Places) = SumFunctionOnSet(f, Places) - f[p] + g[p]
  BY <1>6, <1>7, SumChanged
<1>9. SumFunctionOnSet(f, Places) \in Int
  BY <1>6, <1>7, SumType
<1> QED BY <1>3, <1>4, <1>5, <1>8, <1>9 DEF SumFunction

\* What a container weighs is an integer.
LEMMA WeightType ==
  ASSUME NEW w, Weighs(w), NEW k, k.queues \in [Places -> Seq(Frame)]
  PROVE  Weight(w, k) \in Int
<1>1. Control \in Places /\ AgreeBut(k, k, Control)
  BY DEF AgreeBut, Places
<1> QED BY <1>1, WeightChanged

\* l has the queues of k, but for the one at p.
Replaces(l, k, p, q) == l.queues = [k.queues EXCEPT ![p] = q]

\* That container, with a total duration d.
Becomes(l, k, p, q, d) == l = [queues |-> [k.queues EXCEPT ![p] = q], totalDuration |-> d]

\* A container in which a queue is replaced.
LEMMA QueueReplaced ==
  ASSUME NEW G, NEW k \in Containers(G), NEW p \in Places, NEW q \in Seq(Frame), q \in Seq(G[p]),
         NEW l, Replaces(l, k, p, q)
  PROVE  /\ l.queues \in [Places -> Seq(Frame)] /\ \A r \in Places : l.queues[r] \in Seq(G[r])
         /\ k.queues[p] \in Seq(Frame) /\ k.queues[p] \in Seq(G[p])
         /\ \A w : Weighs(w) =>
              /\ Weight(w, k) \in Int
              /\ Weight(w, l) = Weight(w, k) - QueueWeight(w, k.queues[p]) + QueueWeight(w, q)
<1>1. k.queues \in [Places -> Seq(Frame)] /\ \A r \in Places : k.queues[r] \in Seq(G[r])
  BY DEF Containers
<1>2. /\ l.queues \in [Places -> Seq(Frame)] /\ l.queues[p] = q
      /\ \A r \in Places \ {p} : l.queues[r] = k.queues[r]
  BY <1>1 DEF Replaces
<1>3. \A r \in Places : l.queues[r] \in Seq(G[r])
  BY <1>1, <1>2
<1>4. ASSUME NEW w, Weighs(w)
      PROVE  /\ Weight(w, k) \in Int
             /\ Weight(w, l) = Weight(w, k) - QueueWeight(w, k.queues[p]) + QueueWeight(w, q)
  <2>1. k.queues \in [Places -> Seq(Frame)] /\ l.queues \in [Places -> Seq(Frame)]
    BY <1>1, <1>2
  <2>2. \A r \in Places \ {p} : l.queues[r] = k.queues[r]
    BY <1>2
  <2>3. /\ Weight(w, k) \in Int
        /\ Weight(w, l) = Weight(w, k) - QueueWeight(w, k.queues[p]) + QueueWeight(w, l.queues[p])
    <3>1. AgreeBut(k, l, p)
      BY <2>1, <2>2 DEF AgreeBut
    <3> QED BY <1>4, <3>1, WeightChanged
  <2> QED BY <1>2, <2>3
<1> QED BY <1>1, <1>2, <1>3, <1>4

\* The tail replaced.
LEMMA WithTailFacts ==
  ASSUME NEW G, NEW k \in Containers(G), NEW p \in Places, ~ IsEmpty(k, p),
         NEW f \in Frame, f \in G[p]
  PROVE  /\ WithTail(k, p, f) \in Containers(G)
         /\ Tail_(k, p) \in Frame /\ Tail_(k, p) \in G[p]
         /\ \A w : Weighs(w) => Weight(w, WithTail(k, p, f)) = Weight(w, k) - w[Tail_(k, p)] + w[f]
         /\ Exact(k) => Exact(WithTail(k, p, f))
         /\ ~ IsEmpty(WithTail(k, p, f), p) /\ Tail_(WithTail(k, p, f), p) = f
         /\ \A r \in Places \ {p} : WithTail(k, p, f).queues[r] = k.queues[r]
<1> DEFINE l == WithTail(k, p, f)
           s == k.queues[p]
           q == Append(Front(s), f)
<1>1. s \in Seq(Frame) /\ s \in Seq(G[p]) /\ s # <<>> /\ k.totalDuration \in Int
      /\ k.queues \in [Places -> Seq(Frame)]
  BY DEF Containers, IsEmpty
<1>2. /\ Front(s) \in Seq(Frame) /\ Last(s) \in Frame
      /\ Front(s) \in Seq(G[p]) /\ Last(s) \in G[p]
  BY <1>1, FrontAndLast
<1>3. /\ l.queues = [k.queues EXCEPT ![p] = q]
      /\ l.totalDuration = (k.totalDuration + FrameDuration(f)) - FrameDuration(Last(s))
      /\ l = [queues |-> l.queues, totalDuration |-> l.totalDuration]
  <2>1. l = [queues |-> [k.queues EXCEPT ![p] = Append(Front(@), f)],
             totalDuration |-> (k.totalDuration + FrameDuration(f)) - FrameDuration(Last(s))]
    BY DEF WithTail, Tail_
  <2>2. [k.queues EXCEPT ![p] = Append(Front(@), f)] = [k.queues EXCEPT ![p] = q]
    OBVIOUS
  <2> HIDE DEF l, q
  <2> QED BY <2>1, <2>2
<1>4. q \in Seq(Frame) /\ q \in Seq(G[p]) /\ q # <<>> /\ Last(q) = f
  <2>1. q \in Seq(Frame) /\ q \in Seq(G[p])
    <3>1. \A S, r, e : r \in Seq(S) /\ e \in S => Append(r, e) \in Seq(S)
      OBVIOUS
    <3> QED BY <1>2, <3>1
  <2>2. Len(Front(s)) \in Nat
    BY <1>2
  <2>3. Len(q) = Len(Front(s)) + 1 /\ q[Len(q)] = f
    BY <1>2, <2>2
  <2> QED BY <2>1, <2>2, <2>3 DEF Last
<1> HIDE DEF l, q
<1>5. /\ l.queues \in [Places -> Seq(Frame)] /\ \A r \in Places : l.queues[r] \in Seq(G[r])
      /\ \A w : Weighs(w) =>
           /\ Weight(w, k) \in Int
           /\ Weight(w, l) = Weight(w, k) - QueueWeight(w, k.queues[p]) + QueueWeight(w, q)
  <2>1. q \in Seq(Frame) /\ q \in Seq(G[p]) /\ Replaces(l, k, p, q)
    BY <1>3, <1>4 DEF Replaces
  <2> QED BY <2>1, QueueReplaced
<1>6. ASSUME NEW w, Weighs(w) PROVE Weight(w, l) = Weight(w, k) - w[Last(s)] + w[f]
  <2>1. QueueWeight(w, s) = QueueWeight(w, Front(s)) + w[Last(s)]
    BY <1>1, <1>6, QueueWeights
  <2>2. QueueWeight(w, q) = QueueWeight(w, Front(s)) + w[f] /\ QueueWeight(w, Front(s)) \in Int
    BY <1>2, <1>6, QueueWeights DEF q
  <2>3. w[f] \in Int /\ w[Last(s)] \in Int
    BY <1>2, <1>6 DEF Weighs
  <2>4. /\ Weight(w, k) \in Int
        /\ Weight(w, l) = Weight(w, k) - QueueWeight(w, s) + QueueWeight(w, q)
    BY <1>5, <1>6
  <2> QED BY <2>1, <2>2, <2>3, <2>4
<1>7. FrameDuration(f) \in Int /\ FrameDuration(Last(s)) \in Int
  BY <1>2, DurationsWeigh
<1>8. l \in Containers(G)
  <2>1. l.totalDuration \in Int
    BY <1>1, <1>3, <1>7
  <2> QED BY <1>3, <1>5, <2>1, ContainerOf
<1>9. ASSUME Exact(k) PROVE Exact(l)
  <2>1. Weight(DurationOf, l) = Weight(DurationOf, k) - DurationOf[Last(s)] + DurationOf[f]
    BY <1>6, DurationsWeigh
  <2>2. DurationOf[Last(s)] = FrameDuration(Last(s)) /\ DurationOf[f] = FrameDuration(f)
    BY <1>2, DurationsWeigh
  <2> QED BY <1>1, <1>3, <1>7, <1>9, <2>1, <2>2 DEF Exact
<1>10. l.queues[p] = q /\ \A r \in Places \ {p} : l.queues[r] = k.queues[r]
  BY <1>1, <1>3, <1>4
<1>11. ~ IsEmpty(l, p) /\ Tail_(l, p) = f
  BY <1>4, <1>10 DEF IsEmpty, Tail_
<1>12. Tail_(k, p) = Last(s)
  BY DEF Tail_
<1> QED BY <1>2, <1>6, <1>8, <1>9, <1>10, <1>11, <1>12 DEF l

\* A container that holds what is to be appended at a place.
LEMMA WithAppendedFacts ==
  ASSUME NEW G, NEW k \in Containers(G), NEW p \in Places, NEW f \in Frame, f \in G[p],
         NEW l, Becomes(l, k, p, Append(k.queues[p], f), k.totalDuration + FrameDuration(f))
  PROVE  /\ l \in Containers(G)
         /\ \A w : Weighs(w) => Weight(w, l) = Weight(w, k) + w[f]
         /\ Exact(k) => Exact(l)
         /\ ~ IsEmpty(l, p) /\ Tail_(l, p) = f
         /\ \A r \in Places \ {p} : l.queues[r] = k.queues[r]
<1> DEFINE s == k.queues[p]
           q == Append(s, f)
<1>1. s \in Seq(Frame) /\ s \in Seq(G[p]) /\ k.totalDuration \in Int
      /\ k.queues \in [Places -> Seq(Frame)]
  BY DEF Containers
<1>2. q \in Seq(Frame) /\ q \in Seq(G[p]) /\ q # <<>> /\ Last(q) = f
  <2>1. q \in Seq(Frame) /\ q \in Seq(G[p])
    <3>1. \A S, r, e : r \in Seq(S) /\ e \in S => Append(r, e) \in Seq(S)
      OBVIOUS
    <3> QED BY <1>1, <3>1
  <2>2. Len(s) \in Nat
    BY <1>1
  <2>3. Len(q) = Len(s) + 1 /\ q[Len(q)] = f
    BY <1>1, <2>2
  <2> QED BY <2>1, <2>2, <2>3 DEF Last
<1>3. l.queues = [k.queues EXCEPT ![p] = q] /\ l.totalDuration = k.totalDuration + FrameDuration(f)
      /\ l = [queues |-> l.queues, totalDuration |-> l.totalDuration]
  <2> HIDE DEF q
  <2>1. Becomes(l, k, p, q, k.totalDuration + FrameDuration(f))
    BY DEF q
  <2> QED BY <2>1 DEF Becomes
<1> HIDE DEF q
<1>4. /\ l.queues \in [Places -> Seq(Frame)] /\ \A r \in Places : l.queues[r] \in Seq(G[r])
      /\ \A w : Weighs(w) =>
           /\ Weight(w, k) \in Int
           /\ Weight(w, l) = Weight(w, k) - QueueWeight(w, k.queues[p]) + QueueWeight(w, q)
  <2>1. q \in Seq(Frame) /\ q \in Seq(G[p]) /\ Replaces(l, k, p, q)
    BY <1>2, <1>3 DEF Replaces
  <2> QED BY <2>1, QueueReplaced
<1>5. ASSUME NEW w, Weighs(w) PROVE Weight(w, l) = Weight(w, k) + w[f] /\ w[f] \in Int /\ Weight(w, k) \in Int
  <2>1. QueueWeight(w, q) = QueueWeight(w, s) + w[f] /\ QueueWeight(w, s) \in Int
    BY <1>1, <1>5, QueueWeights DEF q
  <2>2. w[f] \in Int
    BY <1>5 DEF Weighs
  <2>3. /\ Weight(w, k) \in Int
        /\ Weight(w, l) = Weight(w, k) - QueueWeight(w, s) + QueueWeight(w, q)
    BY <1>4, <1>5
  <2> QED BY <2>1, <2>2, <2>3
<1>6. FrameDuration(f) \in Int
  BY DurationsWeigh
<1>7. l \in Containers(G)
  <2>1. l.totalDuration \in Int
    BY <1>1, <1>3, <1>6
  <2> QED BY <1>3, <1>4, <2>1, ContainerOf
<1>8. ASSUME Exact(k) PROVE Exact(l)
  <2>1. Weight(DurationOf, l) = Weight(DurationOf, k) + DurationOf[f]
    BY <1>5, DurationsWeigh
  <2>2. DurationOf[f] = FrameDuration(f)
    BY DurationsWeigh
  <2> QED BY <1>3, <1>8, <2>1, <2>2 DEF Exact
<1>9. l.queues[p] = q /\ \A r \in Places \ {p} : l.queues[r] = k.queues[r]
  BY <1>1, <1>3
<1>10. ~ IsEmpty(l, p) /\ Tail_(l, p) = f
  BY <1>2, <1>9 DEF IsEmpty, Tail_
<1> QED BY <1>5, <1>7, <1>8, <1>9, <1>10

\* A container that one frame left, at either end of a queue.
LEMMA WithoutFrameFacts ==
  ASSUME NEW G, NEW k \in Containers(G), NEW p \in Places, ~ IsEmpty(k, p), NEW q, NEW f,
         \/ q = Front(k.queues[p]) /\ f = Last(k.queues[p])
         \/ q = Tail(k.queues[p]) /\ f = Head(k.queues[p]),
         NEW l, Becomes(l, k, p, q, k.totalDuration - FrameDuration(f))
  PROVE  /\ l \in Containers(G)
         /\ f \in Frame /\ f \in G[p]
         /\ Loses(l, k, f)
         /\ Exact(k) => Exact(l)
<1> DEFINE s == k.queues[p]
<1>1. s \in Seq(Frame) /\ s \in Seq(G[p]) /\ s # <<>> /\ k.totalDuration \in Int
      /\ k.queues \in [Places -> Seq(Frame)]
  BY DEF Containers, IsEmpty
<1>2. q \in Seq(Frame) /\ f \in Frame /\ q \in Seq(G[p]) /\ f \in G[p]
  <2>1. Front(s) \in Seq(Frame) /\ Last(s) \in Frame /\ Tail(s) \in Seq(Frame) /\ Head(s) \in Frame
    BY <1>1, FrontAndLast
  <2>2. Front(s) \in Seq(G[p]) /\ Last(s) \in G[p] /\ Tail(s) \in Seq(G[p]) /\ Head(s) \in G[p]
    BY <1>1, FrontAndLast
  <2> QED BY <2>1, <2>2
<1>3. l.queues = [k.queues EXCEPT ![p] = q] /\ l.totalDuration = k.totalDuration - FrameDuration(f)
      /\ l = [queues |-> l.queues, totalDuration |-> l.totalDuration]
  BY DEF Becomes
<1>4. /\ l.queues \in [Places -> Seq(Frame)] /\ \A r \in Places : l.queues[r] \in Seq(G[r])
      /\ \A w : Weighs(w) =>
           /\ Weight(w, k) \in Int
           /\ Weight(w, l) = Weight(w, k) - QueueWeight(w, k.queues[p]) + QueueWeight(w, q)
  <2>1. q \in Seq(Frame) /\ q \in Seq(G[p]) /\ Replaces(l, k, p, q)
    BY <1>2, <1>3 DEF Replaces
  <2> QED BY <2>1, QueueReplaced
<1>5. ASSUME NEW w, Weighs(w) PROVE Weight(w, l) = Weight(w, k) - w[f] /\ w[f] \in Int /\ Weight(w, k) \in Int
  <2>1. QueueWeight(w, s) = QueueWeight(w, q) + w[f]
    BY <1>1, <1>5, QueueWeights
  <2>2. w[f] \in Int /\ QueueWeight(w, q) \in Int
    <3>1. w[f] \in Int
      BY <1>2, <1>5 DEF Weighs
    <3>2. QueueWeight(w, q) \in Int
      BY <1>2, <1>5, QueueWeights
    <3> QED BY <3>1, <3>2
  <2>3. /\ Weight(w, k) \in Int
        /\ Weight(w, l) = Weight(w, k) - QueueWeight(w, s) + QueueWeight(w, q)
    BY <1>4, <1>5
  <2> QED BY <2>1, <2>2, <2>3
<1>6. FrameDuration(f) \in Int
  BY <1>2, DurationsWeigh
<1>7. l \in Containers(G)
  <2>1. l.totalDuration \in Int
    BY <1>1, <1>3, <1>6
  <2> QED BY <1>3, <1>4, <2>1, ContainerOf
<1>8. ASSUME Exact(k) PROVE Exact(l)
  <2>1. Weight(DurationOf, l) = Weight(DurationOf, k) - DurationOf[f]
    BY <1>5, DurationsWeigh
  <2>2. DurationOf[f] = FrameDuration(f)
    BY <1>2, DurationsWeigh
  <2> QED BY <1>3, <1>8, <2>1, <2>2 DEF Exact
<1>9. Loses(l, k, f)
  BY <1>5 DEF Loses
<1> QED BY <1>2, <1>7, <1>8, <1>9

\* An empty container.
LEMMA EmptyFacts ==
  ASSUME NEW G
  PROVE  /\ EmptyContainer \in Containers(G) /\ Exact(EmptyContainer)
         /\ EmptyContainer.totalDuration = 0
         /\ \A w : Weighs(w) => Weight(w, EmptyContainer) = 0
<1>1. /\ EmptyContainer.queues = [p \in Places |-> <<>>] /\ EmptyContainer.totalDuration = 0
      /\ EmptyContainer = [queues |-> EmptyContainer.queues,
                           totalDuration |-> EmptyContainer.totalDuration]
  BY DEF EmptyContainer
<1> DEFINE k == EmptyContainer
<1>2. k \in Containers(G)
  <2>1. /\ k.queues \in [Places -> Seq(Frame)] /\ \A r \in Places : k.queues[r] \in Seq(G[r])
        /\ k.totalDuration \in Int
    BY <1>1
  <2> HIDE DEF k
  <2>2. k = [queues |-> k.queues, totalDuration |-> k.totalDuration]
    BY <1>1 DEF k
  <2> QED BY <2>1, <2>2, ContainerOf
<1>3. ASSUME NEW w, Weighs(w) PROVE Weight(w, k) = 0
  <2>1. QueueWeight(w, <<>>) = 0
    <3>1. <<>> \in Seq(Frame)
      OBVIOUS
    <3> QED BY <1>3, <3>1, QueueWeights
  <2> DEFINE F == [p \in Places |-> QueueWeight(w, k.queues[p])]
  <2>2. DOMAIN F = Places /\ \A p \in Places : F[p] = 0
    BY <1>1, <2>1
  <2>3. Weight(w, k) = SumFunction(F)
    BY DEF Weight
  <2> HIDE DEF F
  <2>4. PICK f : f = F
    OBVIOUS
  <2>5. IsFiniteSet(Places)
    BY PlacesFinite
  <2>6. \A p \in Places : f[p] = 0
    BY <2>2, <2>4
  <2>7. SumFunctionOnSet(f, Places) = 0
    BY <2>5, <2>6, SumOfZeros
  <2> QED BY <2>2, <2>3, <2>4, <2>7 DEF SumFunction
<1>4. Exact(k)
  BY <1>1, <1>3, DurationsWeigh DEF Exact
<1> QED BY <1>1, <1>2, <1>3, <1>4

-----------------------------------------------------------------------------
(* Merging and shrinking. *)

\* The forms of a frame are frames, and none lasts longer than the one it is of.
LEMMA FrameForms ==
  ASSUME NEW f \in Frame
  PROVE  /\ \A pdu \in Pdu : /\ AddPayload(f, pdu) \in Frame
                             /\ FrameDuration(AddPayload(f, pdu)) = FrameDuration(f)
         /\ \A g \in Frame : /\ MergeWithFrame(f, g) \in Frame
                             /\ FrameDuration(MergeWithFrame(f, g)) = FrameDuration(f)
         /\ Shrink(f) \in Frame /\ FrameDuration(Shrink(f)) <= FrameDuration(f)
         /\ Extend(f) \in Frame /\ Extend(f).type = "NORMAL_FRAME"
<1>1. PICK m \in Modcods, t \in FrameTypes, x \in Int, u \in Int, ps \in Seq(Pdu) :
        f = [modcod |-> m, type |-> t, max |-> x, used |-> u, pdus |-> ps]
  <2>1. f = [modcod |-> f.modcod, type |-> f.type, max |-> f.max, used |-> f.used, pdus |-> f.pdus]
    BY DEF Frame
  <2>2. /\ f.modcod \in Modcods /\ f.type \in FrameTypes /\ f.max \in Int /\ f.used \in Int
        /\ f.pdus \in Seq(Pdu)
    BY DEF Frame
  <2> QED BY <2>1, <2>2
<1>2. /\ f.modcod = m /\ f.type = t /\ f.max = x /\ f.used = u /\ f.pdus = ps
  BY <1>1
<1>3. ASSUME NEW type \in FrameTypes, NEW max \in Int, NEW used \in Int, NEW pdus \in Seq(Pdu)
      PROVE  [modcod |-> m, type |-> type, max |-> max, used |-> used, pdus |-> pdus] \in Frame
  BY DEF Frame
<1>4. HeaderBytes \in Int /\ \A n \in Modcods, r \in FrameTypes : Bytes[r][n] \in Int
  BY ContainerAssumption
<1>5. ASSUME NEW pdu \in Pdu
      PROVE  /\ AddPayload(f, pdu) \in Frame
             /\ FrameDuration(AddPayload(f, pdu)) = FrameDuration(f)
  <2>1. AddPayload(f, pdu) = [modcod |-> m, type |-> t, max |-> x, used |-> u + pdu.n,
                              pdus |-> Append(ps, pdu)]
    <3>1. [f EXCEPT !.used = @ + pdu.n] = [modcod |-> m, type |-> t, max |-> x,
                                           used |-> u + pdu.n, pdus |-> ps]
      BY <1>1
    <3>2. AddPayload(f, pdu) = [[f EXCEPT !.used = @ + pdu.n] EXCEPT !.pdus = Append(@, pdu)]
      BY DEF AddPayload
    <3> QED BY <3>1, <3>2
  <2>2. u + pdu.n \in Int /\ Append(ps, pdu) \in Seq(Pdu)
    BY DEF Pdu
  <2>3. AddPayload(f, pdu) \in Frame
    BY <2>1, <2>2, <1>3
  <2> QED BY <1>2, <2>1, <2>3 DEF FrameDuration
<1>6. ASSUME NEW g \in Frame
      PROVE  /\ MergeWithFrame(f, g) \in Frame
             /\ FrameDuration(MergeWithFrame(f, g)) = FrameDuration(f)
  <2>1. MergeWithFrame(f, g) = [modcod |-> m, type |-> t, max |-> x, used |-> u + DataBytes(g),
                                pdus |-> ps \o g.pdus]
    <3>1. PICK v : v = u + DataBytes(g)
      OBVIOUS
    <3>2. [f EXCEPT !.used = @ + DataBytes(g)]
          = [modcod |-> m, type |-> t, max |-> x, used |-> v, pdus |-> ps]
      BY <1>1, <3>1
    <3>3. MergeWithFrame(f, g)
          = [[f EXCEPT !.used = @ + DataBytes(g)] EXCEPT !.pdus = @ \o g.pdus]
      BY DEF MergeWithFrame
    <3>4. PICK qs : qs = ps \o g.pdus
      OBVIOUS
    <3>5. MergeWithFrame(f, g)
          = [[modcod |-> m, type |-> t, max |-> x, used |-> v, pdus |-> ps] EXCEPT !.pdus = qs]
      BY <3>2, <3>3, <3>4
    <3> QED BY <3>1, <3>4, <3>5
  <2>2. g.used \in Int /\ g.pdus \in Seq(Pdu)
    BY DEF Frame
  <2>3. u + DataBytes(g) \in Int /\ ps \o g.pdus \in Seq(Pdu)
    BY <1>4, <2>2 DEF DataBytes
  <2>4. MergeWithFrame(f, g) \in Frame
    BY <2>1, <2>3, <1>3
  <2> QED BY <1>2, <2>1, <2>4 DEF FrameDuration
<1>7. "SHORT_FRAME" \in FrameTypes /\ "NORMAL_FRAME" \in FrameTypes
  BY DEF FrameTypes
<1>8. Shrink(f) \in Frame /\ FrameDuration(Shrink(f)) <= FrameDuration(f)
  <2>1. FrameDuration(f) \in Nat
    BY DurationsWeigh
  <2>2. CASE Shrink(f) = f
    BY <2>1, <2>2
  <2>3. CASE Shrink(f) # f
    <3>1. t = "NORMAL_FRAME" /\ Shrink(f) = [f EXCEPT !.type = "SHORT_FRAME",
                                             !.max = Bytes["SHORT_FRAME"][f.modcod] - HeaderBytes]
      BY <1>2, <2>3 DEF Shrink
    <3>2. Shrink(f) = [modcod |-> m, type |-> "SHORT_FRAME",
                       max |-> Bytes["SHORT_FRAME"][m] - HeaderBytes, used |-> u, pdus |-> ps]
      BY <1>1, <1>2, <3>1
    <3>3. Bytes["SHORT_FRAME"][m] - HeaderBytes \in Int
      BY <1>4, <1>7
    <3>4. Shrink(f) \in Frame
      BY <3>2, <3>3, <1>3, <1>7
    <3>5. Duration["SHORT_FRAME"][m] <= Duration["NORMAL_FRAME"][m]
      BY ContainerAssumption
    <3> QED BY <1>2, <3>1, <3>2, <3>4, <3>5 DEF FrameDuration
  <2> QED BY <2>2, <2>3
<1>9. Extend(f) \in Frame /\ Extend(f).type = "NORMAL_FRAME"
  <2>1. CASE t # "SHORT_FRAME"
    BY <1>2, <2>1 DEF Extend, FrameTypes
  <2>2. CASE t = "SHORT_FRAME"
    <3>1. Extend(f) = [f EXCEPT !.type = "NORMAL_FRAME", !.max = Bytes["NORMAL_FRAME"][f.modcod]]
      BY <1>2, <2>2 DEF Extend
    <3>2. Extend(f) = [modcod |-> m, type |-> "NORMAL_FRAME",
                       max |-> Bytes["NORMAL_FRAME"][m], used |-> u, pdus |-> ps]
      BY <1>1, <1>2, <3>1
    <3> QED BY <3>2, <1>3, <1>4, <1>7
  <2> QED BY <2>1, <2>2
<1> QED BY <1>5, <1>6, <1>8, <1>9

\* What the forms of a frame have of it.
LEMMA FrameParts ==
  ASSUME NEW f \in Frame
  PROVE  /\ \A pdu \in Pdu :
              LET h == AddPayload(f, pdu)
              IN h.pdus = Append(f.pdus, pdu) /\ h.used = f.used + pdu.n
                 /\ h.modcod = f.modcod /\ h.type = f.type /\ h.max = f.max
         /\ \A g \in Frame :
              LET h == MergeWithFrame(f, g)
              IN h.pdus = f.pdus \o g.pdus /\ h.used = f.used + DataBytes(g)
                 /\ h.modcod = f.modcod /\ h.type = f.type /\ h.max = f.max
         /\ Shrink(f).pdus = f.pdus /\ Shrink(f).used = f.used /\ Shrink(f).modcod = f.modcod
         /\ \/ Shrink(f) = f
            \/ /\ Shrink(f).type = "SHORT_FRAME" /\ f.used < Bytes["SHORT_FRAME"][f.modcod]
               /\ Shrink(f).max = Bytes["SHORT_FRAME"][f.modcod] - HeaderBytes
         /\ Extend(f).pdus = f.pdus /\ Extend(f).used = f.used /\ Extend(f).modcod = f.modcod
         /\ \/ Extend(f) = f
            \/ f.type = "SHORT_FRAME" /\ Extend(f).max = Bytes["NORMAL_FRAME"][f.modcod]
<1>1. DOMAIN f = {"modcod", "type", "max", "used", "pdus"}
  BY DEF Frame
<1>2. ASSUME NEW pdu \in Pdu
      PROVE  LET h == AddPayload(f, pdu)
             IN h.pdus = Append(f.pdus, pdu) /\ h.used = f.used + pdu.n
                /\ h.modcod = f.modcod /\ h.type = f.type /\ h.max = f.max
  BY <1>1 DEF AddPayload
<1>3. ASSUME NEW g \in Frame
      PROVE  LET h == MergeWithFrame(f, g)
             IN h.pdus = f.pdus \o g.pdus /\ h.used = f.used + DataBytes(g)
                /\ h.modcod = f.modcod /\ h.type = f.type /\ h.max = f.max
  BY <1>1 DEF MergeWithFrame
<1>4. /\ Shrink(f).pdus = f.pdus /\ Shrink(f).used = f.used /\ Shrink(f).modcod = f.modcod
      /\ \/ Shrink(f) = f
         \/ /\ Shrink(f).type = "SHORT_FRAME" /\ f.used < Bytes["SHORT_FRAME"][f.modcod]
            /\ Shrink(f).max = Bytes["SHORT_FRAME"][f.modcod] - HeaderBytes
  BY <1>1 DEF Shrink
<1>5. /\ Extend(f).pdus = f.pdus /\ Extend(f).used = f.used /\ Extend(f).modcod = f.modcod
      /\ \/ Extend(f) = f
         \/ f.type = "SHORT_FRAME" /\ Extend(f).max = Bytes["NORMAL_FRAME"][f.modcod]
  BY <1>1 DEF Extend
<1> QED BY <1>2, <1>3, <1>4, <1>5

\* What is counted of what is in a frame, whatever the frame.
Additive(w) ==
  /\ Weighs(w)
  /\ \A f \in Frame, g \in Frame : w[MergeWithFrame(f, g)] = w[f] + w[g]
  /\ \A f \in Frame : w[Shrink(f)] = w[f] /\ w[Extend(f)] = w[f]
  /\ \A m \in Modcods, t \in FrameTypes : w[EmptyFrame(m, t)] = 0

\* Frames among which the results of merging, and of shrinking, are.
ClosedUnderMerge(G) ==
  \A p \in Places, m \in Modcods : \A f \in Frame, g \in Frame :
    /\ f \in G[p] /\ g \in G[m] /\ p < m
    /\ BelowOccupancy(f, LowOccupancy) /\ HasRoomFor(f, DataBytes(g))
    => MergeWithFrame(f, g) \in G[p]
ClosedUnderShrink(G) == \A p \in Places : \A f \in Frame : f \in G[p] => Shrink(f) \in G[p]

\* l is what the end of a round may make of k.
Keeps(G, k, l) ==
  /\ l \in Containers(G) /\ Exact(l) /\ l.totalDuration <= k.totalDuration
  /\ \A w : Additive(w) => Weight(w, l) = Weight(w, k)

\* Nothing done, and one thing done after the other.
LEMMA KeepsOn ==
  ASSUME NEW G, NEW k \in Containers(G), Exact(k)
  PROVE  /\ Keeps(G, k, k)
         /\ \A l, n : Keeps(G, k, l) /\ Keeps(G, l, n) => Keeps(G, k, n)
<1>1. \A l \in Containers(G) : l.totalDuration \in Int
  BY DEF Containers
<1>2. Keeps(G, k, k)
  BY <1>1 DEF Keeps
<1>3. ASSUME NEW l, NEW n, Keeps(G, k, l), Keeps(G, l, n) PROVE Keeps(G, k, n)
  <2>1. n \in Containers(G) /\ Exact(n) /\ l \in Containers(G)
    BY <1>3 DEF Keeps
  <2>2. k.totalDuration \in Int /\ l.totalDuration \in Int /\ n.totalDuration \in Int
    BY <1>1, <2>1
  <2>3. n.totalDuration <= k.totalDuration
    BY <1>3, <2>2 DEF Keeps
  <2>4. ASSUME NEW w, Additive(w) PROVE Weight(w, n) = Weight(w, k)
    BY <1>3, <2>4 DEF Keeps
  <2> QED BY <2>1, <2>3, <2>4 DEF Keeps
<1> QED BY <1>2, <1>3

\* The tail of a MODCOD merged into another.
LEMMA MergeTailKeeps ==
  ASSUME NEW G, ClosedUnderMerge(G), NEW k \in Containers(G), Exact(k), NEW m \in Modcods
  PROVE  Keeps(G, k, MergeTail(k, m))
<1>1. CASE MergeTail(k, m) = k
  BY <1>1, KeepsOn
<1>2. CASE MergeTail(k, m) # k
  <2> DEFINE p == CHOOSE p \in Places : IsBestCandidate(k, m, p)
             f == Tail_(k, p)
             g == Tail_(k, m)
             h == MergeWithFrame(f, g)
             l == WithTail(k, p, h)
             n == WithoutTail(l, m)
  <2>1. ~ IsEmpty(k, m) /\ (\E q \in Places : IsBestCandidate(k, m, q)) /\ MergeTail(k, m) = n
    BY <1>2 DEF MergeTail
  <2>2. p \in Places /\ p \in MergeCandidates(k, m)
    BY <2>1 DEF IsBestCandidate
  <2> HIDE DEF p
  <2>3. /\ ~ IsEmpty(k, p) /\ p < m
        /\ BelowOccupancy(f, LowOccupancy) /\ HasRoomFor(f, DataBytes(g))
    BY <2>2 DEF MergeCandidates, NonEmptyPlaces
  <2>4. m \in Places /\ m # p
    <3>1. Places = 0 .. Len(Bytes["NORMAL_FRAME"]) /\ Len(Bytes["NORMAL_FRAME"]) \in Nat
      BY PlacesFinite, ContainerAssumption
    <3>2. m \in Places
      BY DEF Places
    <3> QED BY <2>2, <2>3, <3>1, <3>2
  <2>5. f \in Frame /\ f \in G[p] /\ g \in Frame /\ g \in G[m]
    <3>1. ASSUME NEW q \in Places, ~ IsEmpty(k, q) PROVE Tail_(k, q) \in Frame /\ Tail_(k, q) \in G[q]
      <4>1. k.queues[q] \in Seq(Frame) /\ k.queues[q] \in Seq(G[q]) /\ k.queues[q] # <<>>
        BY <3>1 DEF Containers, IsEmpty
      <4>2. Last(k.queues[q]) \in Frame
        BY <4>1, FrontAndLast
      <4>3. Last(k.queues[q]) \in G[q]
        BY <4>1, FrontAndLast
      <4> QED BY <4>2, <4>3 DEF Tail_
    <3> QED BY <2>1, <2>2, <2>3, <2>4, <3>1
  <2>6. h \in Frame /\ h \in G[p] /\ FrameDuration(h) = FrameDuration(f)
    <3>1. h \in Frame /\ FrameDuration(h) = FrameDuration(f)
      BY <2>5, FrameForms
    <3>2. h \in G[p]
      BY <2>2, <2>3, <2>5 DEF ClosedUnderMerge
    <3> QED BY <3>1, <3>2
  <2> HIDE DEF f, g, h, n, l
  <2>7. /\ l \in Containers(G) /\ Exact(l)
        /\ \A w : Weighs(w) => Weight(w, l) = Weight(w, k) - w[f] + w[h]
        /\ l.queues[m] = k.queues[m]
    BY <2>2, <2>3, <2>4, <2>6, WithTailFacts DEF l, f
  <2>8. ~ IsEmpty(l, m) /\ Tail_(l, m) = g
    BY <2>1, <2>7 DEF IsEmpty, Tail_, g
  <2>9. Becomes(n, l, m, Front(l.queues[m]), l.totalDuration - FrameDuration(g))
    <3>1. n = [queues |-> [l.queues EXCEPT ![m] = Front(l.queues[m])],
               totalDuration |-> l.totalDuration - FrameDuration(Tail_(l, m))]
      BY DEF n, WithoutTail
    <3> QED BY <2>8, <3>1 DEF Becomes
  <2>10. /\ n \in Containers(G) /\ Exact(n)
         /\ \A w : Weighs(w) => Weight(w, n) = Weight(w, l) - w[g]
    <3>1. g = Last(l.queues[m])
      BY <2>8 DEF Tail_
    <3>2. n \in Containers(G) /\ Exact(n) /\ Loses(n, l, g)
      BY <2>4, <2>7, <2>8, <2>9, <3>1, WithoutFrameFacts
    <3> QED BY <3>2 DEF Loses
  <2>11. ASSUME NEW w, Weighs(w)
         PROVE  /\ Weight(w, n) = Weight(w, k) - w[f] + w[h] - w[g]
                /\ Weight(w, k) \in Int /\ w[f] \in Int /\ w[g] \in Int /\ w[h] \in Int
    <3>1. Weight(w, l) = Weight(w, k) - w[f] + w[h] /\ Weight(w, n) = Weight(w, l) - w[g]
      BY <2>7, <2>10, <2>11
    <3>2. Weight(w, k) \in Int
      <4>1. k.queues \in [Places -> Seq(Frame)]
        BY DEF Containers
      <4> QED BY <2>2, <2>11, <4>1, WeightType
    <3>3. w[f] \in Int /\ w[g] \in Int /\ w[h] \in Int
      BY <2>5, <2>6, <2>11 DEF Weighs
    <3> QED BY <3>1, <3>2, <3>3
  <2>12. n.totalDuration <= k.totalDuration
    <3>1. /\ n.totalDuration = Weight(DurationOf, n) /\ k.totalDuration = Weight(DurationOf, k)
          /\ Weighs(DurationOf)
      BY <2>10, DurationsWeigh DEF Exact
    <3>2. /\ Weight(DurationOf, n)
             = Weight(DurationOf, k) - DurationOf[f] + DurationOf[h] - DurationOf[g]
          /\ Weight(DurationOf, k) \in Int
      BY <3>1, <2>11
    <3>3. DurationOf[f] = DurationOf[h] /\ DurationOf[f] \in Nat /\ DurationOf[g] \in Nat
      BY <2>5, <2>6, DurationsWeigh
    <3> QED BY <3>1, <3>2, <3>3
  <2>13. ASSUME NEW w, Additive(w) PROVE Weight(w, n) = Weight(w, k)
    <3>1. Weighs(w) /\ w[h] = w[f] + w[g]
      BY <2>5, <2>13 DEF Additive, h
    <3>2. /\ Weight(w, n) = Weight(w, k) - w[f] + w[h] - w[g]
          /\ Weight(w, k) \in Int /\ w[f] \in Int /\ w[g] \in Int /\ w[h] \in Int
      BY <3>1, <2>11
    <3> QED BY <3>1, <3>2
  <2> QED BY <2>1, <2>10, <2>12, <2>13 DEF Keeps
<1> QED BY <1>1, <1>2

\* The tail at a place shrunk.
LEMMA ShrinkTailKeeps ==
  ASSUME NEW G, ClosedUnderShrink(G), NEW k \in Containers(G), Exact(k), NEW p \in Places
  PROVE  Keeps(G, k, ShrinkTail(k, p))
<1>1. CASE IsEmpty(k, p)
  BY <1>1, KeepsOn DEF ShrinkTail
<1>2. CASE ~ IsEmpty(k, p)
  <2> DEFINE f == Tail_(k, p)
             h == Shrink(f)
             n == WithTail(k, p, h)
  <2>1. ShrinkTail(k, p) = n
    BY <1>2 DEF ShrinkTail
  <2>2. f \in Frame /\ f \in G[p]
    <3>1. k.queues[p] \in Seq(Frame) /\ k.queues[p] \in Seq(G[p]) /\ k.queues[p] # <<>>
      BY <1>2 DEF Containers, IsEmpty
    <3>2. Last(k.queues[p]) \in Frame
      BY <3>1, FrontAndLast
    <3>3. Last(k.queues[p]) \in G[p]
      BY <3>1, FrontAndLast
    <3> QED BY <3>2, <3>3 DEF Tail_
  <2> HIDE DEF f
  <2>3. h \in Frame /\ FrameDuration(h) <= FrameDuration(f) /\ h \in G[p]
    BY <2>2, FrameForms DEF ClosedUnderShrink
  <2> HIDE DEF h, n
  <2>4. /\ n \in Containers(G) /\ Exact(n)
        /\ \A w : Weighs(w) => Weight(w, n) = Weight(w, k) - w[f] + w[h]
    BY <1>2, <2>3, WithTailFacts DEF n, f
  <2>5. ASSUME NEW w, Weighs(w)
        PROVE  /\ Weight(w, n) = Weight(w, k) - w[f] + w[h]
               /\ Weight(w, k) \in Int /\ w[f] \in Int /\ w[h] \in Int
    <3>1. k.queues \in [Places -> Seq(Frame)]
      BY DEF Containers
    <3>2. Weight(w, k) \in Int
      BY <2>5, <3>1, WeightType
    <3>3. w[f] \in Int /\ w[h] \in Int
      BY <2>2, <2>3, <2>5 DEF Weighs
    <3> QED BY <2>4, <2>5, <3>2, <3>3
  <2>6. n.totalDuration <= k.totalDuration
    <3>1. /\ n.totalDuration = Weight(DurationOf, n) /\ k.totalDuration = Weight(DurationOf, k)
          /\ Weighs(DurationOf)
      BY <2>4, DurationsWeigh DEF Exact
    <3>2. /\ Weight(DurationOf, n) = Weight(DurationOf, k) - DurationOf[f] + DurationOf[h]
          /\ Weight(DurationOf, k) \in Int
      BY <3>1, <2>5
    <3>3. DurationOf[h] <= DurationOf[f] /\ DurationOf[f] \in Nat /\ DurationOf[h] \in Nat
      BY <2>2, <2>3, DurationsWeigh
    <3> QED BY <3>1, <3>2, <3>3
  <2>7. ASSUME NEW w, Additive(w) PROVE Weight(w, n) = Weight(w, k)
    <3>1. Weighs(w) /\ w[h] = w[f]
      BY <2>2, <2>7 DEF Additive, h
    <3>2. /\ Weight(w, n) = Weight(w, k) - w[f] + w[h]
          /\ Weight(w, k) \in Int /\ w[f] \in Int /\ w[h] \in Int
      BY <3>1, <2>5
    <3> QED BY <3>1, <3>2
  <2> QED BY <2>1, <2>4, <2>6, <2>7 DEF Keeps
<1> QED BY <1>1, <1>2

\* The MODCODs as MergeBbFrames goes through them.
LEMMA EfficientFirstPlaces ==
  /\ EfficientFirst \in Seq(Modcods) /\ Append(EfficientFirst, Control) \in Seq(Places)
<1>1. EfficientFirst \in Seq(Modcods)
  <2> DEFINE n == Len(Bytes["NORMAL_FRAME"])
             s == [m \in Modcods |-> m]
  <2>1. n \in Nat /\ Modcods = 1 .. n
    BY ContainerAssumption
  <2> HIDE DEF n
  <2>2. s \in Seq(Modcods) /\ Len(s) = n
    BY <2>1
  <2>3. \A i \in 1 .. n : s[(n - i) + 1] \in Modcods
    BY <2>1
  <2> HIDE DEF s
  <2>4. Reverse(s) \in Seq(Modcods)
    BY <2>1, <2>2, <2>3 DEF Reverse
  <2> QED BY <2>4 DEF EfficientFirst, s
<1>2. EfficientFirst \in Seq(Places) /\ Control \in Places
  <2>1. Modcods \subseteq Places /\ Control \in Places
    BY DEF Places
  <2> QED BY <1>1, <2>1
<1>3. Append(EfficientFirst, Control) \in Seq(Places)
  BY <1>2
<1> QED BY <1>1, <1>3

\* The last of some positions is one of them.
LEMMA LastPosition ==
  ASSUME NEW n \in Nat, NEW T \in SUBSET (1 .. n), T # {}
  PROVE  Max(T) \in T
<1>1. \E x \in T : \A y \in T : x >= y
  BY LargestElement
<1> QED BY <1>1 DEF Max

\* What merging the tails, in the order of the positions, makes of a container.
Merges(h, k, s) ==
  h = [T \in SUBSET DOMAIN s |->
         IF T = {} THEN {k} ELSE {MergeTail(x, s[Max(T)]) : x \in h[T \ {Max(T)}]}]

\* The same of shrinking them.
Shrinks(h, k, s) ==
  h = [T \in SUBSET DOMAIN s |->
         IF T = {} THEN {k} ELSE {ShrinkTail(x, s[Max(T)]) : x \in h[T \ {Max(T)}]}]

\* What merging, and shrinking, tails one by one makes of containers.
MergedTails(ks, s) == InTurnBy(MergeTail, ks, s)
ShrunkTails(ks, s) == InTurnBy(ShrinkTail, ks, s)

\* Merging the tails one by one leaves one container.
LEMMA MergesKeep ==
  ASSUME NEW G, ClosedUnderMerge(G), NEW k \in Containers(G), Exact(k), NEW s \in Seq(Modcods)
  PROVE  \E l : Keeps(G, k, l) /\ MergedTails({k}, s) = {l}
<1> DEFINE D == DOMAIN s
           Y == {{l} : l \in {c \in Containers(G) : Keeps(G, k, c)}}
           pick == [T \in SUBSET D |-> Max(T)]
           step == [i \in D |-> [y \in Y |-> {MergeTail(x, s[i]) : x \in y}]]
<1>1. Len(s) \in Nat /\ D = 1 .. Len(s) /\ \A i \in D : s[i] \in Modcods
  OBVIOUS
<1>2. IsFiniteSet(D) /\ \A T \in SUBSET D : T # {} => Max(T) \in T
  <2>1. IsFiniteSet(1 .. Len(s))
    BY <1>1, FS_Interval
  <2>2. \A T \in SUBSET (1 .. Len(s)) : T # {} => Max(T) \in T
    BY <1>1, LastPosition
  <2> QED BY <1>1, <2>1, <2>2
<1>3. ASSUME NEW i \in D, NEW y \in Y PROVE {MergeTail(x, s[i]) : x \in y} \in Y
  <2>1. PICK c \in Containers(G) : y = {c} /\ Keeps(G, k, c)
    OBVIOUS
  <2>2. Exact(c)
    BY <2>1 DEF Keeps
  <2> HIDE DEF D
  <2>3. s[i] \in Modcods
    BY <1>1
  <2>4. Keeps(G, c, MergeTail(c, s[i]))
    BY <2>2, <2>3, MergeTailKeeps
  <2>5. Keeps(G, k, MergeTail(c, s[i]))
    BY <2>1, <2>4, KeepsOn
  <2>6. MergeTail(c, s[i]) \in Containers(G)
    BY <2>5 DEF Keeps
  <2>7. {MergeTail(x, s[i]) : x \in y} = {MergeTail(c, s[i])}
    BY <2>1
  <2> QED BY <2>5, <2>6, <2>7
<1>4. {k} \in Y
  BY KeepsOn
<1> HIDE DEF D, Y
<1>5. PICK h : Recurs(h, D, {k}, pick, step) /\ \A T \in SUBSET D : h[T] \in Y
  <2>1. \A T \in SUBSET D : T # {} => pick[T] \in T
    BY <1>2
  <2>2. \A i \in D, y \in Y : step[i][y] \in Y
    BY <1>3
  <2> HIDE DEF pick, step
  <2> QED BY <1>2, <1>4, <2>1, <2>2, Recursion
<1>6. Merges(h, k, s)
  <2>1. \A T \in SUBSET D : T # {} =>
          step[pick[T]][h[T \ {pick[T]}]] = {MergeTail(x, s[Max(T)]) : x \in h[T \ {Max(T)}]}
    BY <1>2, <1>5
  <2> HIDE DEF pick, step
  <2> QED BY <1>5, <2>1 DEF Recurs, Merges, D
<1> DEFINE r == CHOOSE g : Merges(g, k, s)
<1>7. Merges(r, k, s)
  BY <1>6, Zenon
<1>8. MergedTails({k}, s) = r[D]
  BY Zenon DEF MergedTails, InTurnBy, FoldLeft, MapThenFoldSet, Merges, D
<1> HIDE DEF r
<1>9. D \in {T \in SUBSET D : r[T] \in Y}
  <2> DEFINE A == {T \in SUBSET D : r[T] \in Y}
  <2>1. {} \in A
    BY <1>4, <1>7 DEF Merges, D
  <2>2. ASSUME NEW T \in SUBSET D, T # {} PROVE \E i \in T : T \ {i} \in A => T \in A
    <3>1. Max(T) \in T
      BY <1>2, <2>2
    <3>2. r[T] = {MergeTail(x, s[Max(T)]) : x \in r[T \ {Max(T)}]}
      BY <1>7, <2>2 DEF Merges, D
    <3>3. ASSUME T \ {Max(T)} \in A PROVE T \in A
      <4>1. r[T \ {Max(T)}] \in Y
        BY <3>3
      <4>2. Max(T) \in D
        BY <3>1
      <4>3. {MergeTail(x, s[Max(T)]) : x \in r[T \ {Max(T)}]} \in Y
        BY <1>3, <4>1, <4>2
      <4> QED BY <3>2, <4>3
    <3> QED BY <3>1, <3>3
  <2> HIDE DEF A
  <2>3. D \in A
    BY <1>2, <2>1, <2>2, SubsetInduction
  <2> QED BY <2>3 DEF A
<1> QED BY <1>8, <1>9 DEF Y

\* Shrinking the tails one by one leaves one container.
ShrinksTo(G, k, s) == \E l : Keeps(G, k, l) /\ ShrunkTails({k}, s) = {l}
LEMMA ShrinksKeep ==
  ASSUME NEW G, ClosedUnderShrink(G), NEW k \in Containers(G), Exact(k), NEW s \in Seq(Places)
  PROVE  ShrinksTo(G, k, s)
<1> DEFINE D == DOMAIN s
           Y == {{l} : l \in {c \in Containers(G) : Keeps(G, k, c)}}
           pick == [T \in SUBSET D |-> Max(T)]
           step == [i \in D |-> [y \in Y |-> {ShrinkTail(x, s[i]) : x \in y}]]
<1>1. Len(s) \in Nat /\ D = 1 .. Len(s) /\ \A i \in D : s[i] \in Places
  OBVIOUS
<1>2. IsFiniteSet(D) /\ \A T \in SUBSET D : T # {} => Max(T) \in T
  <2>1. IsFiniteSet(1 .. Len(s))
    BY <1>1, FS_Interval
  <2>2. \A T \in SUBSET (1 .. Len(s)) : T # {} => Max(T) \in T
    BY <1>1, LastPosition
  <2> QED BY <1>1, <2>1, <2>2
<1>3. ASSUME NEW i \in D, NEW y \in Y PROVE {ShrinkTail(x, s[i]) : x \in y} \in Y
  <2>1. PICK c \in Containers(G) : y = {c} /\ Keeps(G, k, c)
    OBVIOUS
  <2>2. Exact(c)
    BY <2>1 DEF Keeps
  <2> HIDE DEF D
  <2>3. s[i] \in Places
    BY <1>1
  <2>4. Keeps(G, c, ShrinkTail(c, s[i]))
    BY <2>2, <2>3, ShrinkTailKeeps
  <2>5. Keeps(G, k, ShrinkTail(c, s[i]))
    BY <2>1, <2>4, KeepsOn
  <2>6. ShrinkTail(c, s[i]) \in Containers(G)
    BY <2>5 DEF Keeps
  <2>7. {ShrinkTail(x, s[i]) : x \in y} = {ShrinkTail(c, s[i])}
    BY <2>1
  <2> QED BY <2>5, <2>6, <2>7
<1>4. {k} \in Y
  BY KeepsOn
<1> HIDE DEF D, Y
<1>5. PICK h : Recurs(h, D, {k}, pick, step) /\ \A T \in SUBSET D : h[T] \in Y
  <2>1. \A T \in SUBSET D : T # {} => pick[T] \in T
    BY <1>2
  <2>2. \A i \in D, y \in Y : step[i][y] \in Y
    BY <1>3
  <2> HIDE DEF pick, step
  <2> QED BY <1>2, <1>4, <2>1, <2>2, Recursion
<1>6. Shrinks(h, k, s)
  <2>1. \A T \in SUBSET D : T # {} =>
          step[pick[T]][h[T \ {pick[T]}]] = {ShrinkTail(x, s[Max(T)]) : x \in h[T \ {Max(T)}]}
    BY <1>2, <1>5
  <2> HIDE DEF pick, step
  <2> QED BY <1>5, <2>1 DEF Recurs, Shrinks, D
<1> DEFINE r == CHOOSE g : Shrinks(g, k, s)
<1>7. Shrinks(r, k, s)
  BY <1>6, Zenon
<1>8. ShrunkTails({k}, s) = r[D]
  BY Zenon DEF ShrunkTails, InTurnBy, FoldLeft, MapThenFoldSet, Shrinks, D
<1> HIDE DEF r
<1>9. D \in {T \in SUBSET D : r[T] \in Y}
  <2> DEFINE A == {T \in SUBSET D : r[T] \in Y}
  <2>1. {} \in A
    BY <1>4, <1>7 DEF Shrinks, D
  <2>2. ASSUME NEW T \in SUBSET D, T # {} PROVE \E i \in T : T \ {i} \in A => T \in A
    <3>1. Max(T) \in T
      BY <1>2, <2>2
    <3>2. r[T] = {ShrinkTail(x, s[Max(T)]) : x \in r[T \ {Max(T)}]}
      BY <1>7, <2>2 DEF Shrinks, D
    <3>3. ASSUME T \ {Max(T)} \in A PROVE T \in A
      <4>1. r[T \ {Max(T)}] \in Y
        BY <3>3
      <4>2. Max(T) \in D
        BY <3>1
      <4>3. {ShrinkTail(x, s[Max(T)]) : x \in r[T \ {Max(T)}]} \in Y
        BY <1>3, <4>1, <4>2
      <4> QED BY <3>2, <4>3
    <3> QED BY <3>1, <3>3
  <2> HIDE DEF A
  <2>3. D \in A
    BY <1>2, <2>1, <2>2, SubsetInduction
  <2> QED BY <2>3 DEF A
<1> QED BY <1>8, <1>9 DEF Y, ShrinksTo

\* The end of a round for a container.
LEMMA MergeBbFramesKeeps ==
  ASSUME NEW G, ClosedUnderMerge(G), mode = "SHORT_AND_NORMAL_FRAMES" => ClosedUnderShrink(G),
         NEW k \in Containers(G), Exact(k)
  PROVE  Keeps(G, k, MergeBbFrames(mode, k))
<1> DEFINE s == EfficientFirst
           a == Append(EfficientFirst, Control)
           merged == MergedTails({k}, s)
           results == IF mode # "SHORT_AND_NORMAL_FRAMES" THEN merged ELSE ShrunkTails(merged, a)
<1>1. PICK l : Keeps(G, k, l) /\ merged = {l}
  BY EfficientFirstPlaces, MergesKeep
<1>2. MergeBbFrames(mode, k) = CHOOSE result \in results : TRUE
  BY DEF MergeBbFrames, MergedTails, ShrunkTails
<1>3. \E n : Keeps(G, k, n) /\ results = {n}
  <2>1. CASE mode # "SHORT_AND_NORMAL_FRAMES"
    BY <1>1, <2>1
  <2>2. CASE mode = "SHORT_AND_NORMAL_FRAMES"
    <3>1. l \in Containers(G) /\ Exact(l)
      BY <1>1 DEF Keeps
    <3> HIDE DEF a, merged
    <3>2. PICK n : Keeps(G, l, n) /\ ShrunkTails({l}, a) = {n}
      <4>1. a \in Seq(Places) /\ ClosedUnderShrink(G)
        BY <2>2, EfficientFirstPlaces DEF a
      <4>2. PICK b : b = a
        OBVIOUS
      <4> HIDE DEF s, results
      <4>3. ShrinksTo(G, l, b)
        BY <3>1, <4>1, <4>2, ShrinksKeep
      <4> QED BY <4>2, <4>3 DEF ShrinksTo
    <3>3. results = {n}
      <4>1. results = ShrunkTails(merged, a)
        BY <2>2
      <4> QED BY <1>1, <3>2, <4>1
    <3>4. Keeps(G, k, n)
      BY <1>1, <3>2, KeepsOn
    <3> QED BY <3>3, <3>4
  <2> QED BY <2>1, <2>2
<1> HIDE DEF results
<1> QED BY <1>2, <1>3

-----------------------------------------------------------------------------
(* Adding data. *)

\* The MODCOD of a place, and the type of frames by default.
LEMMA PlaceTypes ==
  /\ \A p \in Places : ModcodOf(p) \in Modcods
  /\ DefaultType(mode) \in FrameTypes
  /\ \A m \in Modcods : m \in Places /\ ModcodOf(m) = m /\ m > 0 /\ m # Control /\ m >= 1
  /\ Control \in Places /\ ModcodOf(Control) = 1
<1>1. Len(Bytes["NORMAL_FRAME"]) \in Nat \ {0} /\ Modcods = 1 .. Len(Bytes["NORMAL_FRAME"])
  BY ContainerAssumption
<1>2. 1 \in Modcods /\ \A m \in Modcods : m \in Nat /\ m > 0 /\ m >= 1
  BY <1>1
<1>3. DefaultType(mode) \in FrameTypes
  BY DEF DefaultType, FrameTypes
<1> QED BY <1>2, <1>3 DEF ModcodOf, Places, Control

\* A frame without data is one.
LEMMA EmptyFrameType ==
  ASSUME NEW m \in Modcods, NEW t \in FrameTypes
  PROVE  EmptyFrame(m, t) \in Frame
<1>1. Bytes[t][m] \in Int /\ HeaderBytes \in Int
  BY ContainerAssumption
<1>2. <<>> \in Seq(Pdu)
  OBVIOUS
<1> QED BY <1>1, <1>2 DEF EmptyFrame, Frame

\* The frames of a set, at a place, that data can be added to stay in the set.
Open(G, p) ==
  /\ EmptyFrame(ModcodOf(p), DefaultType(mode)) \in G[p]
  /\ \A f \in Frame : f \in G[p] =>
       /\ mode = "SHORT_AND_NORMAL_FRAMES" => Extend(f) \in G[p]
       /\ \A pdu \in Pdu :
            /\ PlaceOf(pdu.conn, pdu.modcod) = p
            /\ ModcodOf(p) <= pdu.modcod /\ HasRoomFor(f, pdu.n)
            /\ mode = "SHORT_AND_NORMAL_FRAMES" /\ p \in Modcods => f.type = "NORMAL_FRAME"
            => AddPayload(f, pdu) \in G[p]

\* l is k with at most one frame more.
AtMostOneMore(k, l) ==
  \E t \in FrameTypes, m \in Modcods : l.totalDuration <= k.totalDuration + Duration[t][m]

\* Up to the frame that the data goes to.
LEMMA TailsForDataFacts ==
  ASSUME NEW G, NEW k \in Containers(G), Exact(k), NEW p \in Places, Open(G, p), NEW n,
         NEW l \in TailsForData(mode, k, p, n)
  PROVE  /\ l \in Containers(G) /\ Exact(l) /\ ~ IsEmpty(l, p)
         /\ AtMostOneMore(k, l)
         /\ \A w : Additive(w) => Weight(w, l) = Weight(w, k)
         /\ mode = "SHORT_AND_NORMAL_FRAMES" /\ p \in Modcods => Tail_(l, p).type = "NORMAL_FRAME"
<1> DEFINE m == ModcodOf(p)
           t == DefaultType(mode)
           e == EmptyFrame(m, t)
           g == Tail_(k, p)
           x == WithTail(k, p, Extend(g))
<1>1. m \in Modcods /\ t \in FrameTypes /\ e \in Frame /\ e \in G[p]
  BY PlaceTypes, EmptyFrameType DEF Open
<1>2. k.queues \in [Places -> Seq(Frame)] /\ k.totalDuration \in Int
  BY DEF Containers
<1>3. \A r \in FrameTypes, q \in Modcods : Duration[r][q] \in Nat
  BY ContainerAssumption
<1>4. CASE NeedsNewFrame(mode, k, p, n)
  <2>1. l = CreateFrameToTail(mode, k, p)
    BY <1>4 DEF TailsForData
  <2>2. Becomes(l, k, p, Append(k.queues[p], e), k.totalDuration + FrameDuration(e))
    BY <2>1, Zenon DEF CreateFrameToTail, Becomes
  <2> HIDE DEF e
  <2>3. /\ l \in Containers(G) /\ Exact(k) => Exact(l)
        /\ ~ IsEmpty(l, p) /\ Tail_(l, p) = e
        /\ \A w : Weighs(w) => Weight(w, l) = Weight(w, k) + w[e]
    BY <1>1, <2>2, WithAppendedFacts
  <2>4. l \in Containers(G) /\ Exact(l)
    BY <1>1, <2>2, WithAppendedFacts
  <2>5. e.type = t /\ FrameDuration(e) = Duration[t][m]
    BY DEF e, EmptyFrame, FrameDuration
  <2>6. AtMostOneMore(k, l)
    <3>1. l.totalDuration = k.totalDuration + Duration[t][m]
      BY <2>2, <2>5 DEF Becomes
    <3>2. l.totalDuration <= k.totalDuration + Duration[t][m]
      <4>1. Duration[t][m] \in Int
        BY <1>1, <1>3
      <4> HIDE DEF t, m
      <4> QED BY <1>2, <3>1, <4>1
    <3> QED BY <1>1, <3>2 DEF AtMostOneMore
  <2>7. ASSUME NEW w, Additive(w) PROVE Weight(w, l) = Weight(w, k)
    <3>1. Weighs(w) /\ w[e] = 0
      BY <1>1, <2>7 DEF Additive, e
    <3>2. Weight(w, k) \in Int
      BY <1>2, <3>1, WeightType
    <3>3. Weight(w, l) = Weight(w, k) + w[e]
      BY <2>3, <3>1
    <3> QED BY <3>1, <3>2, <3>3
  <2>8. mode = "SHORT_AND_NORMAL_FRAMES" => Tail_(l, p).type = "NORMAL_FRAME"
    BY <2>3, <2>5 DEF DefaultType
  <2> QED BY <2>3, <2>4, <2>6, <2>7, <2>8
<1>5. CASE ~ NeedsNewFrame(mode, k, p, n)
  <2>1. ~ IsEmpty(k, p)
    BY <1>5 DEF NeedsNewFrame
  <2>2. g \in Frame /\ g \in G[p]
    <3>1. k.queues[p] \in Seq(Frame) /\ k.queues[p] \in Seq(G[p]) /\ k.queues[p] # <<>>
      BY <2>1 DEF Containers, IsEmpty
    <3>2. Last(k.queues[p]) \in Frame
      BY <3>1, FrontAndLast
    <3>3. Last(k.queues[p]) \in G[p]
      BY <3>1, FrontAndLast
    <3> QED BY <3>2, <3>3 DEF Tail_
  <2>3. \/ l = k /\ (mode = "SHORT_AND_NORMAL_FRAMES" /\ p \in Modcods => g.type = "NORMAL_FRAME")
        \/ l = x /\ mode = "SHORT_AND_NORMAL_FRAMES"
    <3> HIDE DEF x, g
    <3>1. TailsForData(mode, k, p, n) =
            IF mode # "SHORT_AND_NORMAL_FRAMES" THEN {k}
            ELSE IF IsEmpty(k, TypeReadAt(p)) THEN {k, x}
            ELSE IF Tail_(k, TypeReadAt(p)).type = "SHORT_FRAME" THEN {x} ELSE {k}
      BY <1>5 DEF TailsForData, x, g
    <3>2. CASE mode # "SHORT_AND_NORMAL_FRAMES" \/ p \notin Modcods
      BY <3>1, <3>2
    <3>3. CASE mode = "SHORT_AND_NORMAL_FRAMES" /\ p \in Modcods
      <4>1. TypeReadAt(p) = p
        BY <3>3, PlaceTypes DEF TypeReadAt
      <4>2. TailsForData(mode, k, p, n) = IF g.type = "SHORT_FRAME" THEN {x} ELSE {k}
        BY <2>1, <3>1, <3>3, <4>1 DEF g
      <4>3. g.type \in FrameTypes
        BY <2>2 DEF Frame
      <4> QED BY <3>3, <4>2, <4>3 DEF FrameTypes
    <3> QED BY <3>2, <3>3
  <2> HIDE DEF g
  <2>4. CASE l = k /\ (mode = "SHORT_AND_NORMAL_FRAMES" /\ p \in Modcods => g.type = "NORMAL_FRAME")
    <3>1. AtMostOneMore(k, l)
      <4>1. Duration[t][m] \in Nat
        BY <1>1, <1>3
      <4> HIDE DEF t, m
      <4>2. l.totalDuration <= k.totalDuration + Duration[t][m]
        BY <2>4, <1>2, <4>1
      <4> QED BY <1>1, <4>2 DEF AtMostOneMore
    <3> QED BY <2>1, <2>4, <3>1 DEF g
  <2>5. CASE l = x /\ mode = "SHORT_AND_NORMAL_FRAMES"
    <3> DEFINE h == Extend(g)
    <3>1. h \in Frame /\ h \in G[p]
      BY <2>2, <2>5, FrameForms DEF Open
    <3>2. h.type = "NORMAL_FRAME"
      BY <2>2, FrameForms
    <3> HIDE DEF h
    <3>3. /\ l \in Containers(G) /\ Exact(l)
          /\ \A w : Weighs(w) => Weight(w, l) = Weight(w, k) - w[g] + w[h]
          /\ ~ IsEmpty(l, p) /\ Tail_(l, p) = h
      BY <2>1, <2>5, <3>1, WithTailFacts DEF g, h
    <3>4. AtMostOneMore(k, l)
      <4>1. l.totalDuration = (k.totalDuration + FrameDuration(h)) - FrameDuration(g)
        BY <2>5 DEF WithTail, g, h
      <4>2. FrameDuration(h) \in Nat /\ FrameDuration(g) \in Nat
        BY <2>2, <3>1, DurationsWeigh
      <4>3. l.totalDuration <= k.totalDuration + FrameDuration(h)
        BY <1>2, <4>1, <4>2
      <4>4. h.type \in FrameTypes /\ h.modcod \in Modcods
        BY <3>1 DEF Frame
      <4> QED BY <4>3, <4>4 DEF FrameDuration, AtMostOneMore
    <3>5. ASSUME NEW w, Additive(w) PROVE Weight(w, l) = Weight(w, k)
      <4>1. Weighs(w) /\ w[h] = w[g]
        BY <2>2, <3>5 DEF Additive, h
      <4>2. Weight(w, k) \in Int
        BY <1>2, <4>1, WeightType
      <4>3. w[g] \in Int
        BY <2>2, <4>1 DEF Weighs
      <4>4. Weight(w, l) = Weight(w, k) - w[g] + w[h]
        BY <3>3, <4>1
      <4> QED BY <4>1, <4>2, <4>3, <4>4
    <3> QED BY <3>2, <3>3, <3>4, <3>5
  <2> QED BY <2>3, <2>4, <2>5
<1> QED BY <1>4, <1>5

\* Data added to the tail that it is for.
LEMMA WithDataFacts ==
  ASSUME NEW G, NEW k \in Containers(G), Exact(k), NEW p \in Places, Open(G, p),
         NEW pdu \in Pdu, PlaceOf(pdu.conn, pdu.modcod) = p, ModcodOf(p) <= pdu.modcod,
         NEW l \in TailsForData(mode, k, p, pdu.n), HasRoomFor(Tail_(l, p), pdu.n)
  PROVE  /\ WithData(l, p, pdu) \in Containers(G) /\ Exact(WithData(l, p, pdu))
         /\ AtMostOneMore(k, WithData(l, p, pdu))
         /\ \E f \in Frame : \A w : Additive(w) =>
              Weight(w, WithData(l, p, pdu)) = Weight(w, k) - w[f] + w[AddPayload(f, pdu)]
<1> DEFINE g == Tail_(l, p)
           h == AddPayload(g, pdu)
           n == WithData(l, p, pdu)
<1>1. /\ l \in Containers(G) /\ Exact(l) /\ ~ IsEmpty(l, p)
      /\ AtMostOneMore(k, l)
      /\ \A w : Additive(w) => Weight(w, l) = Weight(w, k)
      /\ mode = "SHORT_AND_NORMAL_FRAMES" /\ p \in Modcods => g.type = "NORMAL_FRAME"
  BY TailsForDataFacts
<1>2. g \in Frame /\ g \in G[p]
  <2>1. l.queues[p] \in Seq(Frame) /\ l.queues[p] \in Seq(G[p]) /\ l.queues[p] # <<>>
    BY <1>1 DEF Containers, IsEmpty
  <2>2. Last(l.queues[p]) \in Frame
    BY <2>1, FrontAndLast
  <2>3. Last(l.queues[p]) \in G[p]
    BY <2>1, FrontAndLast
  <2> QED BY <2>2, <2>3 DEF Tail_
<1> HIDE DEF g
<1>3. h \in Frame /\ FrameDuration(h) = FrameDuration(g) /\ h \in G[p]
  <2>1. h \in Frame /\ FrameDuration(h) = FrameDuration(g)
    BY <1>2, FrameForms
  <2>2. HasRoomFor(g, pdu.n)
    BY DEF g
  <2>3. h \in G[p]
    BY <1>1, <1>2, <2>2 DEF Open
  <2> QED BY <2>1, <2>3
<1>4. n = WithTail(l, p, h)
  BY DEF WithData, g
<1> HIDE DEF h, n
<1>5. /\ n \in Containers(G) /\ Exact(n)
      /\ \A w : Weighs(w) => Weight(w, n) = Weight(w, l) - w[g] + w[h]
  BY <1>1, <1>3, <1>4, WithTailFacts DEF g
<1>6. AtMostOneMore(k, n)
  <2>1. n.totalDuration = (l.totalDuration + FrameDuration(h)) - FrameDuration(g)
    BY <1>4 DEF WithTail, g
  <2>2. l.totalDuration \in Int /\ FrameDuration(g) \in Nat
    BY <1>1, <1>2, DurationsWeigh DEF Containers
  <2>3. n.totalDuration = l.totalDuration
    BY <1>3, <2>1, <2>2
  <2> QED BY <1>1, <2>3 DEF AtMostOneMore
<1>7. ASSUME NEW w, Additive(w) PROVE Weight(w, n) = Weight(w, k) - w[g] + w[h]
  <2>1. Weighs(w) /\ Weight(w, l) = Weight(w, k)
    BY <1>1, <1>7 DEF Additive
  <2> QED BY <1>5, <2>1
<1> QED BY <1>2, <1>5, <1>6, <1>7 DEF n, h

-----------------------------------------------------------------------------
(* The containers of the slices. *)

\* What the containers of all slices weigh.
SlicesWeight(w, ks) == SumFunction([s \in DOMAIN ks |-> Weight(w, ks[s])])

\* They weigh more or less by what one of them does.
LEMMA SlicesWeightChanged ==
  ASSUME NEW G, NEW S, IsFiniteSet(S), NEW ks \in [S -> Containers(G)], NEW ls \in [S -> Containers(G)],
         NEW s \in S, \A r \in S \ {s} : ls[r] = ks[r], NEW w, Weighs(w)
  PROVE  /\ SlicesWeight(w, ks) \in Int /\ Weight(w, ks[s]) \in Int /\ Weight(w, ls[s]) \in Int
         /\ SlicesWeight(w, ls) = SlicesWeight(w, ks) - Weight(w, ks[s]) + Weight(w, ls[s])
<1> DEFINE F == [r \in S |-> Weight(w, ks[r])]
           H == [r \in S |-> Weight(w, ls[r])]
<1>1. ASSUME NEW k \in Containers(G) PROVE Weight(w, k) \in Int
  <2>1. k.queues \in [Places -> Seq(Frame)] /\ Control \in Places
    BY PlaceTypes DEF Containers
  <2> QED BY <2>1, WeightType
<1>2. DOMAIN ks = S /\ DOMAIN ls = S /\ \A r \in S : ks[r] \in Containers(G) /\ ls[r] \in Containers(G)
  OBVIOUS
<1>3. SlicesWeight(w, ks) = SumFunction(F) /\ SlicesWeight(w, ls) = SumFunction(H)
  BY <1>2 DEF SlicesWeight
<1>4. /\ DOMAIN F = S /\ DOMAIN H = S
      /\ \A r \in S : F[r] = Weight(w, ks[r]) /\ H[r] = Weight(w, ls[r])
  OBVIOUS
<1> HIDE DEF F, H
<1>5. \A r \in S : F[r] \in Int /\ H[r] \in Int /\ (r # s => H[r] = F[r])
  BY <1>1, <1>2, <1>4
<1>6. PICK f, g : f = F /\ g = H
  OBVIOUS
<1>7. \A r \in S : f[r] \in Int /\ g[r] \in Int /\ (r # s => g[r] = f[r])
  BY <1>5, <1>6
<1>8. SumFunctionOnSet(g, S) = SumFunctionOnSet(f, S) - f[s] + g[s]
  BY <1>7, SumChanged
<1>9. SumFunctionOnSet(f, S) \in Int
  BY <1>7, SumType
<1>10. SlicesWeight(w, ls) = SlicesWeight(w, ks) - Weight(w, ks[s]) + Weight(w, ls[s])
       /\ SlicesWeight(w, ks) \in Int
  BY <1>3, <1>4, <1>6, <1>8, <1>9 DEF SumFunction
<1> QED BY <1>1, <1>2, <1>10

\* The containers are made up of frames of G, and count their durations.
Contained(G) ==
  /\ m_numberOfSlices \in Nat
  /\ m_bbFrameContainers \in [Slices -> Containers(G)]
  /\ \A s \in Slices : Exact(m_bbFrameContainers[s])

\* The limit of a round is exceeded by less than a frame.
WithinLimit ==
  \E t \in FrameTypes, m \in Modcods :
    GetTotalDuration < Duration[t][m]
                         + (IF TimeSlicing THEN PeriodicInterval ELSE StopThreshold)

\* The durations that are counted are those that the frames have.
LEMMA TotalIsWeight ==
  ASSUME NEW G, Contained(G)
  PROVE  GetTotalDuration = SlicesWeight(DurationOf, m_bbFrameContainers)
<1>1. GetTotalDuration
        = SumFunction([s \in DOMAIN m_bbFrameContainers |-> m_bbFrameContainers[s].totalDuration])
  BY DEF GetTotalDuration, SumOver
<1>2. [s \in DOMAIN m_bbFrameContainers |-> m_bbFrameContainers[s].totalDuration]
        = [s \in DOMAIN m_bbFrameContainers |-> Weight(DurationOf, m_bbFrameContainers[s])]
  BY DEF Contained, Exact
<1> QED BY <1>1, <1>2 DEF SlicesWeight

\* The same of what is next.
LEMMA NextTotalIsWeight ==
  ASSUME NEW G, Contained(G)'
  PROVE  GetTotalDuration' = SlicesWeight(DurationOf, m_bbFrameContainers')
<1>1. GetTotalDuration'
        = SumFunction([s \in DOMAIN m_bbFrameContainers' |-> m_bbFrameContainers'[s].totalDuration])
  BY DEF GetTotalDuration, SumOver
<1>2. [s \in DOMAIN m_bbFrameContainers' |-> m_bbFrameContainers'[s].totalDuration]
        = [s \in DOMAIN m_bbFrameContainers' |-> Weight(DurationOf, m_bbFrameContainers'[s])]
  BY DEF Contained, Exact
<1> QED BY <1>1, <1>2 DEF SlicesWeight

\* What a step that changes one container keeps to.
LEMMA OneContainerChanged ==
  ASSUME NEW G, Contained(G), WithinLimit, UNCHANGED configVars,
         NEW s \in Slices, NEW x \in Containers(G), Exact(x),
         m_bbFrameContainers' = [m_bbFrameContainers EXCEPT ![s] = x],
         \/ x.totalDuration <= m_bbFrameContainers[s].totalDuration
         \/ RoundGoesOn /\ AtMostOneMore(m_bbFrameContainers[s], x)
  PROVE  /\ Contained(G)' /\ WithinLimit'
         /\ \A w : Weighs(w) =>
              /\ SlicesWeight(w, m_bbFrameContainers) \in Int
              /\ Weight(w, m_bbFrameContainers[s]) \in Int /\ Weight(w, x) \in Int
              /\ SlicesWeight(w, m_bbFrameContainers')
                   = SlicesWeight(w, m_bbFrameContainers) - Weight(w, m_bbFrameContainers[s])
                       + Weight(w, x)
<1> DEFINE y == m_bbFrameContainers[s]
           limit == IF TimeSlicing THEN PeriodicInterval ELSE StopThreshold
<1>1. m_numberOfSlices \in Nat /\ m_numberOfSlices' = m_numberOfSlices
      /\ Slices = 0 .. m_numberOfSlices /\ Slices' = Slices
      /\ m_bbFrameContainers \in [0 .. m_numberOfSlices -> Containers(G)]
      /\ s \in 0 .. m_numberOfSlices
  BY DEF Contained, configVars, Slices
<1>2. Contained(G)'
  <2>1. m_bbFrameContainers' \in [Slices -> Containers(G)]
    BY <1>1
  <2>2. \A r \in Slices : Exact(m_bbFrameContainers'[r])
    BY <1>1 DEF Contained
  <2> QED BY <1>1, <2>1, <2>2 DEF Contained
<1>3. ASSUME NEW w, Weighs(w)
      PROVE  /\ SlicesWeight(w, m_bbFrameContainers) \in Int
             /\ Weight(w, y) \in Int /\ Weight(w, x) \in Int
             /\ SlicesWeight(w, m_bbFrameContainers')
                  = SlicesWeight(w, m_bbFrameContainers) - Weight(w, y) + Weight(w, x)
  <2>1. PICK S, ks, ls : S = Slices /\ ks = m_bbFrameContainers /\ ls = m_bbFrameContainers'
    OBVIOUS
  <2>2. /\ ks \in [S -> Containers(G)] /\ ls \in [S -> Containers(G)] /\ s \in S
        /\ ls[s] = x /\ \A r \in S \ {s} : ls[r] = ks[r]
    BY <1>1, <2>1
  <2>3. IsFiniteSet(S)
    BY <1>1, <2>1, FS_Interval
  <2>4. /\ SlicesWeight(w, ks) \in Int /\ Weight(w, ks[s]) \in Int /\ Weight(w, ls[s]) \in Int
        /\ SlicesWeight(w, ls) = SlicesWeight(w, ks) - Weight(w, ks[s]) + Weight(w, ls[s])
    BY <1>3, <2>2, <2>3, SlicesWeightChanged
  <2> QED BY <2>1, <2>2, <2>4
<1>4. WithinLimit'
  <2>1. /\ GetTotalDuration = SlicesWeight(DurationOf, m_bbFrameContainers)
        /\ GetTotalDuration' = SlicesWeight(DurationOf, m_bbFrameContainers')
    BY <1>2, TotalIsWeight, NextTotalIsWeight
  <2>2. Weight(DurationOf, y) = y.totalDuration /\ Weight(DurationOf, x) = x.totalDuration
    BY DEF Contained, Exact
  <2>3. /\ GetTotalDuration' = GetTotalDuration - y.totalDuration + x.totalDuration
        /\ GetTotalDuration \in Int /\ y.totalDuration \in Int /\ x.totalDuration \in Int
    BY <2>1, <2>2, <1>3, DurationsWeigh
  <2>4. limit \in Int /\ limit' = limit
    BY <1>1, ForwardLinkAssumption DEF TimeSlicing
  <2>5. \A t \in FrameTypes, m \in Modcods : Duration[t][m] \in Int
    BY ContainerAssumption
  <2>6. WithinLimit <=>
          \E t \in FrameTypes, m \in Modcods : GetTotalDuration < Duration[t][m] + limit
    BY DEF WithinLimit
  <2>7. WithinLimit' <=>
          \E t \in FrameTypes, m \in Modcods : GetTotalDuration' < Duration[t][m] + limit
    BY <2>4 DEF WithinLimit
  <2>8. RoundGoesOn <=> GetTotalDuration < limit
    BY DEF RoundGoesOn
  <2> HIDE DEF limit, y
  <2>9. CASE x.totalDuration <= y.totalDuration
    <3>1. PICK t \in FrameTypes, m \in Modcods : GetTotalDuration < Duration[t][m] + limit
      BY <2>6
    <3>2. GetTotalDuration' < Duration[t][m] + limit
      BY <2>3, <2>4, <2>5, <2>9, <3>1
    <3> QED BY <2>7, <3>2
  <2>10. CASE RoundGoesOn /\ AtMostOneMore(y, x)
    <3>1. PICK t \in FrameTypes, m \in Modcods : x.totalDuration <= y.totalDuration + Duration[t][m]
      BY <2>10 DEF AtMostOneMore
    <3>2. GetTotalDuration' < Duration[t][m] + limit
      BY <2>3, <2>4, <2>5, <2>8, <2>10, <3>1
    <3> QED BY <2>7, <3>2
  <2> QED BY <2>9, <2>10 DEF y
<1> QED BY <1>2, <1>3, <1>4

-----------------------------------------------------------------------------
(* The state of the link. *)

Packet == [n : Int, about : Ut \cup {None}]
Rounds ==
  {Idle, [phase |-> "send"]}
  \cup [phase : {"objects"}, objects : SUBSET Connections, next : {"idle", "send"}]
  \cup [phase : {"filling"}, objects : SUBSET Connections, next : {"idle", "send"},
        conn : Connections, modcod : Modcods, bytes : Int]
  \cup [phase : {"merging"}, objects : SUBSET Connections, next : {"idle", "send"},
        conn : Connections]

LinkType ==
  /\ mode \in UsageModes /\ m_numberOfSlices \in Nat
  /\ buffer \in [Connections -> Seq(Packet)]
  /\ bestModcod \in [Ut -> Modcods \cup {Unknown}]
  /\ m_slicesMapping \in [Ut -> Slices]
  /\ m_lastSliceAssigned \in Nat /\ (TimeSlicing => m_lastSliceAssigned \in Slices)
  /\ m_lastSliceDequeued \in Int
  /\ round \in Rounds

\* The invariant, for frames of the sets that G has.
LinkInv(G) == LinkType /\ Contained(G) /\ WithinLimit

\* What the phase of a round says of it.
LEMMA RoundForms ==
  ASSUME round \in Rounds
  PROVE  /\ round.phase \in {"objects", "filling", "merging"} =>
              round.objects \in SUBSET Connections /\ round.next \in {"idle", "send"}
         /\ round.phase \in {"filling", "merging"} => round.conn \in Connections
         /\ round.phase = "filling" =>
              /\ round.modcod \in Modcods /\ round.bytes \in Int
              /\ round \in [phase : {"filling"}, objects : SUBSET Connections,
                            next : {"idle", "send"}, conn : Connections, modcod : Modcods,
                            bytes : Int]
         /\ EndOfRound \in Rounds
<1>1. round = Idle => round.phase = "idle"
  BY DEF Idle
<1>2. EndOfRound \in Rounds
  BY DEF Rounds, EndOfRound
<1> QED BY <1>1, <1>2 DEF Rounds

\* Where data of a connection goes.
LEMMA PlaceTaken ==
  ASSUME NEW c \in Connections, NEW m \in Modcods
  PROVE  PlaceOf(c, m) \in Places /\ ModcodOf(PlaceOf(c, m)) <= m
<1>1. m \in Nat /\ 1 <= m
  BY ContainerAssumption
<1> QED BY <1>1, PlaceTypes DEF PlaceOf

\* The containers that are used are there.
LEMMA SlicesUsed ==
  ASSUME LinkType, NEW c \in Connections
  PROVE  SliceOf(c) \in Slices /\ ContainerFor(c) \in Slices /\ 0 \in Slices
<1>1. 0 \in Slices
  BY DEF LinkType, Slices
<1>2. c.to \in Ut \cup {Broadcast}
  BY ForwardLinkAssumption
<1> QED BY <1>1, <1>2 DEF LinkType, SliceOf, ContainerFor

\* The MODCOD that is used is one.
LEMMA GetModcodType ==
  ASSUME LinkType, NEW c \in Connections
  PROVE  GetModcod(c) \in Modcods
<1>1. c.to \in Ut \cup {Broadcast} /\ DefaultModcod \in Modcods
  BY ForwardLinkAssumption
<1>2. ModcodOf(Control) \in Modcods
  BY PlaceTypes
<1> QED BY <1>1, <1>2 DEF LinkType, GetModcod

\* The bytes that are left are a number.
LEMMA BytesLeftType ==
  ASSUME NEW G, NEW k \in Containers(G), NEW p \in Places
  PROVE  /\ GetBytesLeftInTailFrame(mode, k, p) \in Int
         /\ GetMaxFramePayloadInBytes(mode, p) \in Int /\ HeaderBytes \in Int
<1>1. GetMaxFramePayloadInBytes(mode, p) \in Int /\ HeaderBytes \in Int
  BY ContainerAssumption, PlaceTypes DEF GetMaxFramePayloadInBytes
<1>2. ~ IsEmpty(k, p) => Tail_(k, p).used \in Int
  <2>1. k.queues[p] \in Seq(Frame)
    BY DEF Containers
  <2>2. ~ IsEmpty(k, p) => Tail_(k, p) \in Frame
    BY <2>1, FrontAndLast DEF IsEmpty, Tail_
  <2> QED BY <2>2 DEF Frame
<1> QED BY <1>1, <1>2 DEF GetBytesLeftInTailFrame

\* Steps that leave the containers alone.
LEMMA ContainersUnchanged ==
  ASSUME NEW G, Contained(G), WithinLimit, UNCHANGED <<configVars, m_bbFrameContainers>>
  PROVE  Contained(G)' /\ WithinLimit'
<1>1. UNCHANGED <<m_numberOfSlices, m_bbFrameContainers>>
  BY DEF configVars
<1>2. Contained(G)'
  BY <1>1 DEF Contained, Slices
<1>3. WithinLimit'
  <2>1. GetTotalDuration' = GetTotalDuration /\ (TimeSlicing' <=> TimeSlicing)
    BY <1>1 DEF GetTotalDuration, SumOver, TimeSlicing
  <2> QED BY <2>1 DEF WithinLimit
<1> QED BY <1>2, <1>3

\* The next object, or the end of the round.
LEMMA NextObjectStep ==
  ASSUME NEW G, LinkInv(G), NextObject
  PROVE  LinkInv(G)'
<1>1. LinkType /\ Contained(G) /\ WithinLimit
  BY DEF LinkInv
<1>2. /\ UNCHANGED <<configVars, m_bbFrameContainers, bestModcod, m_lastSliceDequeued>>
      /\ round.phase = "objects"
  BY DEF NextObject, frameVars
<1>3. Contained(G)' /\ WithinLimit'
  BY <1>1, <1>2, ContainersUnchanged
<1>4. /\ round.objects \in SUBSET Connections /\ round.next \in {"idle", "send"}
      /\ EndOfRound \in Rounds
  BY <1>1, <1>2, RoundForms DEF LinkType
<1>5. UNCHANGED <<mode, m_numberOfSlices>> /\ (TimeSlicing' <=> TimeSlicing) /\ Slices' = Slices
  BY <1>2 DEF configVars, TimeSlicing, Slices
<1>6. ASSUME UNCHANGED <<buffer, sliceVars>>, round' \in Rounds
      PROVE  LinkType'
  BY <1>1, <1>2, <1>5, <1>6 DEF LinkType, sliceVars
<1>7. CASE round' = EndOfRound /\ UNCHANGED <<buffer, sliceVars, rescheduled>>
  BY <1>3, <1>4, <1>6, <1>7 DEF LinkInv
<1>8. ASSUME NEW c \in FirstObjects, NeedsSlice(c), AssignSlice(c)
      PROVE  LinkType'
  <2>1. c \in Connections /\ TimeSlicing /\ c.to \in Ut
    <3>1. c \in Connections
      BY <1>4 DEF FirstObjects
    <3>2. c.to \in Ut \cup {Broadcast}
      BY <3>1, ForwardLinkAssumption
    <3> QED BY <1>8, <3>1, <3>2 DEF NeedsSlice
  <2>2. m_numberOfSlices \in Nat \ {0} /\ m_lastSliceAssigned \in Nat
        /\ m_lastSliceAssigned \in Slices
    BY <1>1, <2>1 DEF LinkType, TimeSlicing
  <2>3. m_slicesMapping' \in [Ut -> Slices]
    BY <1>1, <1>8, <2>1, <2>2 DEF AssignSlice, LinkType
  <2>4. m_lastSliceAssigned' \in Nat /\ m_lastSliceAssigned' \in Slices
    <3>1. m_lastSliceAssigned % m_numberOfSlices \in 0 .. m_numberOfSlices - 1
      BY <2>2, DivModType
    <3> QED BY <1>8, <2>2, <3>1 DEF AssignSlice, Slices
  <2>5. buffer' \in [Connections -> Seq(Packet)]
    <3>1. Subscriptions \in Connections
      BY ForwardLinkAssumption
    <3>2. [n |-> 1, about |-> c.to] \in Packet
      BY <2>1 DEF Packet
    <3>3. buffer[Subscriptions] \in Seq(Packet)
      BY <1>1, <3>1 DEF LinkType
    <3>4. Append(buffer[Subscriptions], [n |-> 1, about |-> c.to]) \in Seq(Packet)
      BY <3>2, <3>3
    <3> QED BY <1>1, <1>8, <3>4 DEF AssignSlice, LinkType
  <2>6. round' \in Rounds
    BY <1>4, <1>8 DEF AssignSlice
  <2> QED BY <1>1, <1>2, <1>5, <2>3, <2>4, <2>5, <2>6 DEF LinkType
<1>9. ASSUME NEW c \in FirstObjects, OpenObject(c), UNCHANGED <<buffer, sliceVars, rescheduled>>
      PROVE  LinkType'
  <2>1. c \in Connections
    BY <1>4 DEF FirstObjects
  <2> DEFINE modcod == GetModcod(c)
             k == m_bbFrameContainers[SliceOf(c)]
             place == PlaceOf(c, modcod)
             bytes == GetBytesLeftInTailFrame(mode, k, place)
  <2>2. modcod \in Modcods /\ place \in Places
    BY <1>1, <2>1, GetModcodType, PlaceTaken
  <2>3. k \in Containers(G)
    BY <1>1, <2>1, SlicesUsed DEF Contained
  <2>4. bytes \in Int
    BY <2>2, <2>3, BytesLeftType
  <2>5. \/ round' = [round EXCEPT !.objects = @ \ {c}]
        \/ round' = [phase |-> "filling", objects |-> round.objects \ {c}, next |-> round.next,
                     conn |-> c, modcod |-> modcod, bytes |-> bytes]
    BY <1>9 DEF OpenObject
  <2>6. round \in [phase : {"objects"}, objects : SUBSET Connections, next : {"idle", "send"}]
    <3>1. round \in Rounds
      BY <1>1 DEF LinkType
    <3> QED BY <1>2, <3>1 DEF Rounds, Idle
  <2> HIDE DEF modcod, bytes
  <2>7. round' \in Rounds
    <3>1. CASE round' = [round EXCEPT !.objects = @ \ {c}]
      BY <2>6, <3>1 DEF Rounds
    <3>2. CASE round' = [phase |-> "filling", objects |-> round.objects \ {c}, next |-> round.next,
                         conn |-> c, modcod |-> modcod, bytes |-> bytes]
      BY <1>4, <2>1, <2>2, <2>4, <3>2 DEF Rounds
    <3> QED BY <2>5, <3>1, <3>2
  <2> QED BY <1>6, <1>9, <2>7
<1>10. LinkType'
  <2>1. \/ round' = EndOfRound /\ UNCHANGED <<buffer, sliceVars, rescheduled>>
        \/ \E c \in FirstObjects :
             \/ NeedsSlice(c) /\ AssignSlice(c)
             \/ OpenObject(c) /\ UNCHANGED <<buffer, sliceVars, rescheduled>>
    BY Zenon DEF NextObject
  <2> QED BY <2>1, <1>4, <1>6, <1>8, <1>9
<1> QED BY <1>3, <1>10 DEF LinkInv

-----------------------------------------------------------------------------
(* Transmission opportunities. *)

\* The bytes of a packet, and of what is buffered.
PacketBytes == [packet \in Packet |-> packet.n]

\* What a buffer is after a PDU was taken out of it.
LEMMA AfterPduFacts ==
  ASSUME NEW q \in Seq(Packet), q # <<>>, NEW pdu, Taken(pdu) \in Int
  PROVE  /\ AfterPdu(q, pdu) \in Seq(Packet)
         /\ QueueWeight(PacketBytes, q) \in Int
         /\ QueueWeight(PacketBytes, AfterPdu(q, pdu)) = QueueWeight(PacketBytes, q) - Taken(pdu)
<1>1. \A x \in Packet : PacketBytes[x] = x.n /\ PacketBytes[x] \in Int
  BY DEF PacketBytes, Packet
<1>2. \A s \in Seq(Packet) :
        /\ QueueWeight(PacketBytes, s) \in Int
        /\ s # <<>> => QueueWeight(PacketBytes, s)
                         = QueueWeight(PacketBytes, Tail(s)) + PacketBytes[Head(s)]
  BY <1>1, SequenceWeights
<1>3. Tail(q) \in Seq(Packet) /\ Head(q) \in Packet
  BY FrontAndLast
<1>4. QueueWeight(PacketBytes, q) = QueueWeight(PacketBytes, Tail(q)) + Head(q).n
  BY <1>1, <1>2, <1>3
<1>5. Head(q).n \in Int
  BY <1>3 DEF Packet
<1>6. CASE Taken(pdu) = Head(q).n
  <2>1. AfterPdu(q, pdu) = Tail(q)
    BY <1>6 DEF AfterPdu
  <2>2. QueueWeight(PacketBytes, Tail(q)) \in Int /\ QueueWeight(PacketBytes, q) \in Int
    BY <1>2, <1>3
  <2>3. QueueWeight(PacketBytes, Tail(q)) = QueueWeight(PacketBytes, q) - Taken(pdu)
    BY <1>4, <1>5, <1>6, <2>2
  <2> QED BY <1>3, <2>1, <2>2, <2>3, Zenon
<1>7. CASE Taken(pdu) # Head(q).n
  <2> DEFINE x == [Head(q) EXCEPT !.n = @ - Taken(pdu)]
             s == <<x>> \o Tail(q)
  <2>1. AfterPdu(q, pdu) = s
    BY <1>7 DEF AfterPdu
  <2>2. x \in Packet /\ x.n = Head(q).n - Taken(pdu)
    BY <1>3, <1>5 DEF Packet
  <2> HIDE DEF x
  <2>3. s \in Seq(Packet) /\ s # <<>> /\ Head(s) = x /\ Tail(s) = Tail(q)
    <3>1. PICK t : t = Tail(q)
      OBVIOUS
    <3>2. t \in Seq(Packet) /\ Len(t) \in Nat
      BY <1>3, <3>1
    <3>3. /\ <<x>> \o t \in Seq(Packet) /\ Len(<<x>> \o t) = Len(t) + 1 /\ (<<x>> \o t)[1] = x
          /\ \A i \in 1 .. Len(t) : (<<x>> \o t)[i + 1] = t[i]
      BY <2>2, <3>2
    <3> DEFINE r == <<x>> \o t
    <3>4. /\ r \in Seq(Packet) /\ Len(r) = Len(t) + 1 /\ r[1] = x
          /\ \A i \in 1 .. Len(t) : r[i + 1] = t[i]
      BY <3>3
    <3> HIDE DEF r
    <3>5. /\ r # <<>> /\ Head(r) = x /\ Tail(r) \in Seq(Packet) /\ Len(Tail(r)) = Len(t)
          /\ \A i \in 1 .. Len(t) : Tail(r)[i] = t[i]
      BY <3>2, <3>4
    <3>6. Tail(r) = t
      BY <3>2, <3>5, SameSequence
    <3> QED BY <3>1, <3>4, <3>5, <3>6 DEF r
  <2> HIDE DEF s
  <2>4. QueueWeight(PacketBytes, s) = QueueWeight(PacketBytes, Tail(q)) + x.n
    BY <1>1, <1>2, <2>2, <2>3
  <2>5. QueueWeight(PacketBytes, Tail(q)) \in Int
    BY <1>2, <1>3
  <2>6. QueueWeight(PacketBytes, s) = QueueWeight(PacketBytes, q) - Taken(pdu)
    BY <1>4, <1>5, <2>2, <2>4, <2>5
  <2> QED BY <1>2, <2>1, <2>3, <2>6
<1> QED BY <1>6, <1>7

\* The PDUs of an opportunity.
LEMMA PduForFacts ==
  ASSUME LinkType, round.phase = "filling", buffer[round.conn] # <<>>,
         NEW bytes \in Int, NEW pdu \in PduFor(round.conn, bytes)
  PROVE  /\ pdu \in Pdu /\ pdu.conn = round.conn /\ pdu.modcod = round.modcod
         /\ Taken(pdu) \in Int
         /\ pdu.about = Head(buffer[round.conn]).about
         /\ ~ IsCut(round.conn) => Taken(pdu) = Head(buffer[round.conn]).n
<1>1. round.conn \in Connections /\ round.modcod \in Modcods
  BY RoundForms DEF LinkType
<1> DEFINE head == Head(buffer[round.conn])
<1>2. head \in Packet
  <2>1. buffer[round.conn] \in Seq(Packet)
    BY <1>1 DEF LinkType
  <2> QED BY <2>1, FrontAndLast
<1>3. head.n \in Int /\ head.about \in Ut \cup {None} /\ GseHeader \in Int
  BY <1>2, ForwardLinkAssumption DEF Packet
<1> HIDE DEF head
<1>4. PICK n \in Int :
        pdu = [conn |-> round.conn, n |-> n, modcod |-> round.modcod, about |-> head.about]
  <2>1. CASE ~ IsCut(round.conn)
    BY <1>3, <2>1 DEF PduFor, head
  <2>2. CASE IsCut(round.conn)
    BY <1>3, <2>2 DEF PduFor, head
  <2> QED BY <2>1, <2>2
<1>5. pdu \in Pdu
  BY <1>1, <1>3, <1>4 DEF Pdu
<1>6. Taken(pdu) \in Int
  BY <1>3, <1>4 DEF Taken
<1>7. ~ IsCut(round.conn) => pdu.n = head.n
  BY <1>3, <1>4 DEF PduFor, head
<1>8. ~ IsCut(round.conn) => Taken(pdu) = head.n
  BY <1>4, <1>7 DEF Taken
<1> QED BY <1>4, <1>5, <1>6, <1>8 DEF head

\* What an opportunity that data is added in does.
Added(G, s, x, pdu, f) ==
  /\ Exact(x) /\ AtMostOneMore(m_bbFrameContainers[s], x)
  /\ m_bbFrameContainers' = [m_bbFrameContainers EXCEPT ![s] = x]
  /\ \A w : Additive(w) =>
       Weight(w, x) = Weight(w, m_bbFrameContainers[s]) - w[f] + w[AddPayload(f, pdu)]
  /\ s = ContainerFor(round.conn) /\ pdu.conn = round.conn
  /\ pdu.about = Head(buffer[round.conn]).about
  /\ ~ IsCut(round.conn) => Taken(pdu) = Head(buffer[round.conn]).n
  /\ buffer[pdu.conn] # <<>> /\ Taken(pdu) \in Int
  /\ buffer' = [buffer EXCEPT ![pdu.conn] = AfterPdu(buffer[pdu.conn], pdu)]
  /\ RoundGoesOn

\* The place that a round that fills frames adds data at.
PlaceFilled == PlaceOf(round.conn, round.modcod)

\* A PDU added.
LEMMA AddDataEffect ==
  ASSUME NEW G, LinkInv(G), round.phase = "filling", ObjectGoesOn, Open(G, PlaceFilled),
         NEW pdu \in PduFor(round.conn, OpportunityBytes), AddData(pdu)
  PROVE  /\ buffer' \in [Connections -> Seq(Packet)] /\ round' \in Rounds
         /\ \/ fatal' # None /\ UNCHANGED m_bbFrameContainers
            \/ \E s \in Slices, x \in Containers(G), p \in Pdu, f \in Frame : Added(G, s, x, p, f)
<1> DEFINE s == ContainerFor(round.conn)
           k == m_bbFrameContainers[s]
           place == PlaceFilled
<1>1. LinkType /\ Contained(G)
  BY DEF LinkInv
<1>2. /\ round.conn \in Connections /\ round.modcod \in Modcods /\ round.bytes \in Int
      /\ round \in [phase : {"filling"}, objects : SUBSET Connections,
                    next : {"idle", "send"}, conn : Connections, modcod : Modcods, bytes : Int]
  BY <1>1, RoundForms DEF LinkType
<1>3. place \in Places /\ ModcodOf(place) <= round.modcod
  BY <1>2, PlaceTaken DEF PlaceFilled
<1>4. s \in Slices /\ k \in Containers(G) /\ Exact(k)
  BY <1>1, <1>2, SlicesUsed DEF Contained
<1>5. OpportunityBytes \in Int
  <2>1. NewFrameBytes \in Int
    BY <1>3, <1>4, BytesLeftType DEF NewFrameBytes, PlaceFilled
  <2> QED BY <1>2, <2>1 DEF OpportunityBytes
<1>6. /\ pdu \in Pdu /\ pdu.conn = round.conn /\ pdu.modcod = round.modcod /\ Taken(pdu) \in Int
      /\ buffer[round.conn] # <<>> /\ RoundGoesOn
      /\ pdu.about = Head(buffer[round.conn]).about
      /\ ~ IsCut(round.conn) => Taken(pdu) = Head(buffer[round.conn]).n
  BY <1>1, <1>5, PduForFacts DEF ObjectGoesOn
<1>7. buffer' = [buffer EXCEPT ![pdu.conn] = AfterPdu(buffer[pdu.conn], pdu)]
  BY DEF AddData
<1>8. buffer' \in [Connections -> Seq(Packet)]
  <2>1. buffer[round.conn] \in Seq(Packet)
    BY <1>1, <1>2 DEF LinkType
  <2>2. AfterPdu(buffer[round.conn], pdu) \in Seq(Packet)
    BY <1>6, <2>1, AfterPduFacts
  <2> QED BY <1>1, <1>2, <1>6, <1>7, <2>2 DEF LinkType
<1>9. ASSUME NEW l \in TailsForData(mode, k, place, pdu.n), HasRoomFor(Tail_(l, place), pdu.n),
             m_bbFrameContainers' = [m_bbFrameContainers EXCEPT ![s] = WithData(l, place, pdu)],
             round' = [round EXCEPT !.bytes = BytesAfter(WithData(l, place, pdu), place)]
      PROVE  /\ round' \in Rounds
             /\ \E r \in Slices, x \in Containers(G), p \in Pdu, f \in Frame : Added(G, r, x, p, f)
  <2> HIDE DEF k, s, place
  <2>1. PICK x : x = WithData(l, place, pdu)
    OBVIOUS
  <2>2. /\ x \in Containers(G) /\ Exact(x) /\ AtMostOneMore(k, x)
        /\ \E f \in Frame : \A w : Additive(w) => Weight(w, x) = Weight(w, k) - w[f] + w[AddPayload(f, pdu)]
    <3>1. /\ ModcodOf(place) <= pdu.modcod /\ Open(G, place)
          /\ PlaceOf(pdu.conn, pdu.modcod) = place
      BY <1>3, <1>6 DEF place, PlaceFilled
    <3> QED BY <1>3, <1>4, <1>6, <1>9, <2>1, <3>1, WithDataFacts
  <2>3. PICK f \in Frame : \A w : Additive(w) => Weight(w, x) = Weight(w, k) - w[f] + w[AddPayload(f, pdu)]
    BY <2>2
  <2>4. BytesAfter(x, place) \in Int
    <3>1. GetBytesLeftInTailFrame(mode, x, place) \in Int
      BY <1>3, <2>2, BytesLeftType
    <3> QED BY <1>5, <3>1 DEF BytesAfter
  <2>5. round' \in Rounds
    BY <1>2, <1>9, <2>1, <2>4 DEF Rounds
  <2>6. Added(G, s, x, pdu, f)
    BY <1>6, <1>7, <1>9, <2>1, <2>2, <2>3 DEF Added, k, s
  <2> QED BY <1>4, <1>6, <2>2, <2>5, <2>6
<1>10. CASE fatal' # None /\ UNCHANGED <<m_bbFrameContainers, round>>
  BY <1>1, <1>8, <1>10 DEF LinkType
<1>11. \/ fatal' # None /\ UNCHANGED <<m_bbFrameContainers, round>>
       \/ \E l \in TailsForData(mode, k, place, pdu.n) :
            /\ HasRoomFor(Tail_(l, place), pdu.n)
            /\ m_bbFrameContainers' = [m_bbFrameContainers EXCEPT ![s] = WithData(l, place, pdu)]
            /\ round' = [round EXCEPT !.bytes = BytesAfter(WithData(l, place, pdu), place)]
  <2> HIDE DEF k, s, place
  <2>1. "DATA_CANNOT_BE_ADDED" # None /\ "READS_NO_FRAME" # None
    BY DEF None
  <2>2. \/ \E l \in TailsForData(mode, k, place, pdu.n) :
             IF HasRoomFor(Tail_(l, place), pdu.n)
             THEN /\ m_bbFrameContainers' = [m_bbFrameContainers EXCEPT ![s] = WithData(l, place, pdu)]
                  /\ round' = [round EXCEPT !.bytes = BytesAfter(WithData(l, place, pdu), place)]
                  /\ UNCHANGED fatal
             ELSE /\ fatal' = "DATA_CANNOT_BE_ADDED"
                  /\ UNCHANGED <<m_bbFrameContainers, round>>
        \/ /\ ReadsNoFrame(mode, k, place, pdu.n)
           /\ fatal' = "READS_NO_FRAME"
           /\ UNCHANGED <<m_bbFrameContainers, round>>
    BY DEF AddData, k, s, place, PlaceFilled
  <2> QED BY <2>1, <2>2
<1> QED BY <1>8, <1>9, <1>10, <1>11

\* A transmission opportunity: data added, or not.
LEMMA TxOpportunityEffect ==
  ASSUME NEW G, LinkInv(G), TxOpportunity, Open(G, PlaceFilled)
  PROVE  /\ UNCHANGED <<configVars, bestModcod, sliceVars, frameVars>>
         /\ buffer' \in [Connections -> Seq(Packet)] /\ round' \in Rounds
         /\ \/ UNCHANGED <<buffer, m_bbFrameContainers>>
            \/ fatal' # None /\ UNCHANGED m_bbFrameContainers
            \/ \E s \in Slices, x \in Containers(G), p \in Pdu, f \in Frame : Added(G, s, x, p, f)
<1>1. LinkType /\ Contained(G) /\ round.phase = "filling" /\ ObjectGoesOn
  BY DEF LinkInv, TxOpportunity
<1>2. UNCHANGED <<configVars, bestModcod, sliceVars, frameVars>>
  BY DEF TxOpportunity
<1>3. /\ buffer \in [Connections -> Seq(Packet)] /\ round \in Rounds
      /\ round.conn \in Connections /\ round.objects \in SUBSET Connections
      /\ round.next \in {"idle", "send"} /\ round.modcod \in Modcods
      /\ round \in [phase : {"filling"}, objects : SUBSET Connections,
                    next : {"idle", "send"}, conn : Connections, modcod : Modcods, bytes : Int]
  BY <1>1, RoundForms DEF LinkType
<1>4. LeaveObject \in Rounds
  BY <1>3 DEF LeaveObject, Rounds
<1>5. CASE round' = LeaveObject /\ UNCHANGED <<buffer, unacked, m_bbFrameContainers, fatal>>
  BY <1>2, <1>3, <1>4, <1>5
<1>6. CASE fatal' = "CONTROL_TOO_LONG" /\ UNCHANGED <<buffer, unacked, m_bbFrameContainers, round>>
  BY <1>2, <1>3, <1>6
<1>7. CASE TryAgain
  <2> DEFINE whole == GetMaxFramePayloadInBytes(mode, PlaceFilled)
  <2>1. whole \in Int
    <3>1. PlaceFilled \in Places
      BY <1>3, PlaceTaken DEF PlaceFilled
    <3>2. m_bbFrameContainers[SliceOf(round.conn)] \in Containers(G)
      BY <1>1, <1>3, SlicesUsed DEF Contained
    <3> QED BY <3>1, <3>2, BytesLeftType
  <2>2. /\ UNCHANGED <<buffer, m_bbFrameContainers>>
        /\ round' = round \/ round' = LeaveObject \/ round' = [round EXCEPT !.bytes = whole]
    BY <1>7 DEF TryAgain, PlaceFilled
  <2> HIDE DEF whole
  <2>3. [round EXCEPT !.bytes = whole] \in Rounds
    BY <1>3, <2>1 DEF Rounds
  <2> QED BY <1>2, <1>3, <1>4, <2>2, <2>3
<1>8. ASSUME NEW pdu \in PduFor(round.conn, OpportunityBytes), AddData(pdu)
      PROVE  /\ buffer' \in [Connections -> Seq(Packet)] /\ round' \in Rounds
             /\ \/ fatal' # None /\ UNCHANGED m_bbFrameContainers
                \/ \E s \in Slices, x \in Containers(G), p \in Pdu, f \in Frame : Added(G, s, x, p, f)
  BY <1>1, <1>8, AddDataEffect
<1>9. \/ round' = LeaveObject /\ UNCHANGED <<buffer, unacked, m_bbFrameContainers, fatal>>
      \/ fatal' = "CONTROL_TOO_LONG" /\ UNCHANGED <<buffer, unacked, m_bbFrameContainers, round>>
      \/ TryAgain
      \/ \E pdu \in PduFor(round.conn, OpportunityBytes) : AddData(pdu)
  BY Zenon DEF TxOpportunity
<1>10. CASE \E pdu \in PduFor(round.conn, OpportunityBytes) : AddData(pdu)
  BY <1>2, <1>8, <1>10
<1> QED BY <1>5, <1>6, <1>7, <1>9, <1>10

\* It keeps the invariant.
LEMMA TxOpportunityStep ==
  ASSUME NEW G, LinkInv(G), TxOpportunity, Open(G, PlaceFilled)
  PROVE  LinkInv(G)'
<1>1. LinkType /\ Contained(G) /\ WithinLimit
  BY DEF LinkInv
<1>2. /\ UNCHANGED <<configVars, bestModcod, sliceVars, frameVars>>
      /\ buffer' \in [Connections -> Seq(Packet)] /\ round' \in Rounds
  BY TxOpportunityEffect
<1>3. LinkType'
  BY <1>1, <1>2 DEF LinkType, configVars, sliceVars, frameVars, TimeSlicing, Slices
<1>4. CASE UNCHANGED m_bbFrameContainers
  BY <1>1, <1>2, <1>3, <1>4, ContainersUnchanged DEF LinkInv
<1>5. ASSUME NEW s \in Slices, NEW x \in Containers(G), NEW p \in Pdu, NEW f \in Frame,
             Added(G, s, x, p, f)
      PROVE  LinkInv(G)'
  <2>1. /\ Exact(x) /\ m_bbFrameContainers' = [m_bbFrameContainers EXCEPT ![s] = x]
        /\ RoundGoesOn /\ AtMostOneMore(m_bbFrameContainers[s], x)
    BY <1>5 DEF Added
  <2>2. Contained(G)' /\ WithinLimit'
    BY <1>1, <1>2, <2>1, OneContainerChanged
  <2> QED BY <1>3, <2>2 DEF LinkInv
<1>6. \/ UNCHANGED m_bbFrameContainers
      \/ \E s \in Slices, x \in Containers(G), p \in Pdu, f \in Frame : Added(G, s, x, p, f)
  BY TxOpportunityEffect
<1> QED BY <1>4, <1>5, <1>6

-----------------------------------------------------------------------------
(* The other steps. *)

\* Sets of frames that a round keeps to.
Suits(G) ==
  /\ ClosedUnderMerge(G)
  /\ mode = "SHORT_AND_NORMAL_FRAMES" => ClosedUnderShrink(G)

\* The frames of a container merged.
LEMMA MergeFramesEffect ==
  ASSUME NEW G, LinkInv(G), Suits(G), MergeFrames
  PROVE  /\ round' \in Rounds
         /\ UNCHANGED <<configVars, llcVars, bestModcod, sliceVars, m_lastSliceDequeued>>
         /\ \E s \in Slices, x \in Containers(G) :
              /\ m_bbFrameContainers' = [m_bbFrameContainers EXCEPT ![s] = x]
              /\ Keeps(G, m_bbFrameContainers[s], x)
<1> DEFINE s == SliceOf(round.conn)
           k == m_bbFrameContainers[s]
           x == MergeBbFrames(mode, k)
<1>1. LinkType /\ Contained(G)
  BY DEF LinkInv
<1>2. /\ round.conn \in Connections /\ round.objects \in SUBSET Connections
      /\ round.next \in {"idle", "send"}
  <2>1. round.phase \in {"filling", "merging"}
    BY DEF MergeFrames
  <2> QED BY <1>1, <2>1, RoundForms DEF LinkType
<1>3. round' \in Rounds
  BY <1>2 DEF MergeFrames, Rounds
<1>4. s \in Slices /\ k \in Containers(G) /\ Exact(k)
  BY <1>1, <1>2, SlicesUsed DEF Contained
<1>5. m_bbFrameContainers' = [m_bbFrameContainers EXCEPT ![s] = x]
  BY DEF MergeFrames
<1>6. UNCHANGED <<configVars, llcVars, bestModcod, sliceVars, m_lastSliceDequeued>>
  BY DEF MergeFrames
<1> HIDE DEF k, s
<1>7. Keeps(G, k, x)
  BY <1>4, MergeBbFramesKeeps DEF Suits
<1>8. x \in Containers(G)
  BY <1>7 DEF Keeps
<1> HIDE DEF x
<1> QED BY <1>3, <1>4, <1>5, <1>6, <1>7, <1>8 DEF k

\* It keeps the invariant.
LEMMA MergeFramesStep ==
  ASSUME NEW G, LinkInv(G), Suits(G), MergeFrames
  PROVE  LinkInv(G)'
<1>1. LinkType /\ Contained(G) /\ WithinLimit
  BY DEF LinkInv
<1>2. PICK s \in Slices, x \in Containers(G) :
        /\ m_bbFrameContainers' = [m_bbFrameContainers EXCEPT ![s] = x]
        /\ Keeps(G, m_bbFrameContainers[s], x)
  BY MergeFramesEffect
<1>3. /\ round' \in Rounds
      /\ UNCHANGED <<configVars, llcVars, bestModcod, sliceVars, m_lastSliceDequeued>>
  BY MergeFramesEffect
<1>4. Exact(x) /\ x.totalDuration <= m_bbFrameContainers[s].totalDuration
  BY <1>2 DEF Keeps
<1>5. Contained(G)' /\ WithinLimit'
  <2>1. UNCHANGED configVars
    BY <1>3
  <2> QED BY <1>1, <1>2, <1>4, <2>1, OneContainerChanged
<1>6. LinkType'
  BY <1>1, <1>3 DEF LinkType, configVars, llcVars, sliceVars, TimeSlicing, Slices
<1> QED BY <1>5, <1>6 DEF LinkInv

\* The slices of which a frame may be sent are there.
LEMMA NextSliceType ==
  ASSUME LinkType, NEW s \in NextSlices
  PROVE  s \in Slices
<1>1. m_numberOfSlices \in Nat /\ m_lastSliceDequeued \in Int
  BY DEF LinkType
<1>2. ASSUME NEW i \in Slices PROVE InTurn(i) \in Slices
  <2>1. m_lastSliceDequeued + i \in Int /\ m_numberOfSlices + 1 \in Nat \ {0}
    BY <1>1 DEF Slices
  <2>2. InTurn(i) \in 0 .. (m_numberOfSlices + 1) - 1
    BY <2>1, DivModType DEF InTurn
  <2>3. (m_numberOfSlices + 1) - 1 = m_numberOfSlices
    BY <1>1
  <2> QED BY <2>2, <2>3 DEF Slices
<1>3. 0 \in Slices
  BY <1>1 DEF Slices
<1> QED BY <1>2, <1>3 DEF NextSlices

\* A frame sent.
LEMMA SendFrameStep ==
  ASSUME NEW G, LinkInv(G), SendFrame
  PROVE  LinkInv(G)'
<1>1. LinkType /\ Contained(G) /\ WithinLimit /\ m_numberOfSlices \in Nat
      /\ m_lastSliceDequeued \in Int
  BY DEF LinkInv, LinkType
<1>2. UNCHANGED <<configVars, llcVars, bestModcod, sliceVars>> /\ round' \in Rounds
  BY DEF SendFrame, Rounds
<1>3. ASSUME m_lastSliceDequeued' \in Int PROVE LinkType'
  BY <1>1, <1>2, <1>3 DEF LinkType, configVars, llcVars, sliceVars, TimeSlicing, Slices
<1>4. CASE UNCHANGED <<m_bbFrameContainers, frameVars>>
  <2>1. m_lastSliceDequeued' \in Int
    BY <1>1, <1>4 DEF frameVars
  <2>2. UNCHANGED <<configVars, m_bbFrameContainers>>
    BY <1>2, <1>4
  <2>3. Contained(G)' /\ WithinLimit'
    BY <1>1, <2>2, ContainersUnchanged
  <2> QED BY <1>3, <2>1, <2>3 DEF LinkInv
<1>5. ASSUME NEW s \in NextSlices, NEW p \in NextFramePlaces(m_bbFrameContainers[s]),
             m_bbFrameContainers' = [m_bbFrameContainers EXCEPT ![s] = WithoutHead(@, p)],
             m_lastSliceDequeued' = LastSliceDequeued(s)
      PROVE  LinkInv(G)'
  <2>1. s \in Slices
    BY <1>1, NextSliceType
  <2>2. m_lastSliceDequeued' \in Int
    <3>1. s + 1 \in Int /\ m_numberOfSlices + 1 \in Nat \ {0}
      BY <1>1, <2>1 DEF Slices
    <3>2. (s + 1) % (m_numberOfSlices + 1) \in 0 .. (m_numberOfSlices + 1) - 1
      BY <3>1, DivModType
    <3>3. (s + 1) % (m_numberOfSlices + 1) \in Int
      BY <3>1, <3>2
    <3> QED BY <1>1, <1>5, <3>3 DEF LastSliceDequeued
  <2> DEFINE k == m_bbFrameContainers[s]
             x == WithoutHead(k, p)
             f == Head(k.queues[p])
  <2>3. k \in Containers(G) /\ Exact(k)
    BY <1>1, <2>1 DEF Contained
  <2>4. m_bbFrameContainers' = [m_bbFrameContainers EXCEPT ![s] = x]
    BY <1>5
  <2>5. p \in Places /\ ~ IsEmpty(k, p)
    BY PlaceTypes DEF NextFramePlaces, NonEmptyPlaces
  <2>6. x = [queues |-> [k.queues EXCEPT ![p] = Tail(k.queues[p])],
             totalDuration |-> k.totalDuration - FrameDuration(f)]
    BY DEF WithoutHead
  <2> HIDE DEF k, x
  <2>7. x \in Containers(G) /\ Exact(x) /\ f \in Frame
    <3>1. PICK h, q : h = f /\ q = Tail(k.queues[p])
      OBVIOUS
    <3>2. Becomes(x, k, p, q, k.totalDuration - FrameDuration(h))
      BY <2>6, <3>1 DEF Becomes
    <3>3. \/ q = Front(k.queues[p]) /\ h = Last(k.queues[p])
          \/ q = Tail(k.queues[p]) /\ h = Head(k.queues[p])
      BY <3>1
    <3> HIDE DEF f
    <3>4. x \in Containers(G) /\ h \in Frame /\ (Exact(k) => Exact(x))
      BY <2>3, <2>5, <3>2, <3>3, WithoutFrameFacts
    <3> QED BY <2>3, <3>1, <3>4
  <2>8. x.totalDuration <= k.totalDuration
    <3>1. x.totalDuration = k.totalDuration - FrameDuration(f)
      BY <2>6
    <3>2. FrameDuration(f) \in Nat /\ k.totalDuration \in Int
      BY <2>3, <2>7, DurationsWeigh DEF Containers
    <3> QED BY <3>1, <3>2
  <2>9. Contained(G)' /\ WithinLimit'
    <3>1. UNCHANGED configVars
      BY <1>2
    <3> QED BY <1>1, <2>1, <2>4, <2>7, <2>8, <3>1, OneContainerChanged DEF k
  <2> QED BY <1>3, <2>2, <2>9 DEF LinkInv
<1>6. \/ UNCHANGED <<m_bbFrameContainers, frameVars>>
      \/ \E s \in NextSlices : \E p \in NextFramePlaces(m_bbFrameContainers[s]) :
           /\ m_bbFrameContainers' = [m_bbFrameContainers EXCEPT ![s] = WithoutHead(@, p)]
           /\ m_lastSliceDequeued' = LastSliceDequeued(s)
  BY Zenon DEF SendFrame
<1> QED BY <1>4, <1>5, <1>6

\* What a step leaves alone that does not touch frames or slices.
Untouched == <<configVars, m_bbFrameContainers, sliceVars, frameVars>>

\* Such steps.
LEMMA UntouchedStep ==
  ASSUME NEW G, LinkInv(G), UNCHANGED Untouched, round' \in Rounds,
         buffer' \in [Connections -> Seq(Packet)], bestModcod' \in [Ut -> Modcods \cup {Unknown}]
  PROVE  LinkInv(G)'
<1>1. LinkType /\ Contained(G) /\ WithinLimit
  BY DEF LinkInv
<1>2. UNCHANGED <<configVars, m_bbFrameContainers, sliceVars, frameVars>>
  BY DEF Untouched
<1>3. Contained(G)' /\ WithinLimit'
  BY <1>1, <1>2, ContainersUnchanged
<1>4. LinkType'
  BY <1>1, <1>2 DEF LinkType, configVars, sliceVars, frameVars, TimeSlicing, Slices
<1> QED BY <1>3, <1>4 DEF LinkInv

\* A packet queued.
LEMMA EnqueStep ==
  ASSUME NEW G, LinkInv(G), NEW c \in Connections, NEW n \in PacketSizes \cup ControlSizes, Enque(c, n)
  PROVE  LinkInv(G)'
<1>1. LinkType /\ n \in Int
  BY ForwardLinkAssumption DEF LinkInv
<1>2. UNCHANGED Untouched /\ UNCHANGED <<bestModcod, round>>
  BY DEF Enque, Untouched
<1>3. buffer' \in [Connections -> Seq(Packet)]
  <2>1. [n |-> n, about |-> None] \in Packet
    BY <1>1 DEF Packet
  <2>2. buffer[c] \in Seq(Packet)
    BY <1>1 DEF LinkType
  <2>3. Append(buffer[c], [n |-> n, about |-> None]) \in Seq(Packet)
    BY <2>1, <2>2
  <2> QED BY <1>1, <2>3 DEF Enque, LinkType
<1> QED BY <1>1, <1>2, <1>3, UntouchedStep DEF LinkType

\* An acknowledgement, and a report.
LEMMA FeedbackStep ==
  ASSUME NEW G, LinkInv(G),
         \/ \E c \in Connections : ReceiveAck(c)
         \/ \E u \in Ut, m \in Modcods : CnoInfoUpdated(u, m)
  PROVE  LinkInv(G)'
<1>1. LinkType
  BY DEF LinkInv
<1>2. CASE \E c \in Connections : ReceiveAck(c)
  <2>1. UNCHANGED Untouched /\ UNCHANGED <<buffer, bestModcod, round>>
    BY <1>2 DEF ReceiveAck, Untouched
  <2> QED BY <1>1, <2>1, UntouchedStep DEF LinkType
<1>3. CASE \E u \in Ut, m \in Modcods : CnoInfoUpdated(u, m)
  <2>1. PICK u \in Ut, m \in Modcods : CnoInfoUpdated(u, m)
    BY <1>3
  <2>2. UNCHANGED Untouched /\ UNCHANGED <<llcVars, round>>
    BY <2>1 DEF CnoInfoUpdated, Untouched
  <2>3. bestModcod' \in [Ut -> Modcods \cup {Unknown}]
    BY <1>1, <2>1 DEF CnoInfoUpdated, LinkType
  <2> QED BY <1>1, <2>2, <2>3, UntouchedStep DEF LinkType, llcVars
<1> QED BY <1>2, <1>3

\* The events that begin a round, or go on to send.
LEMMA EventStep ==
  ASSUME NEW G, LinkInv(G), RunRescheduled \/ PeriodicTimerExpired \/ StartTransmission
  PROVE  LinkInv(G)'
<1>1. LinkType
  BY DEF LinkInv
<1>2. Round("idle") \in Rounds /\ Round("send") \in Rounds /\ [phase |-> "send"] \in Rounds
  <2>1. SchedulingObjects \in SUBSET Connections
    BY DEF SchedulingObjects
  <2> QED BY <2>1 DEF Round, Rounds
<1>3. UNCHANGED Untouched /\ UNCHANGED <<llcVars, bestModcod>> /\ round' \in Rounds
  <2>1. CASE RunRescheduled
    BY <1>2, <2>1 DEF RunRescheduled, Untouched
  <2>2. CASE PeriodicTimerExpired
    BY <1>2, <2>2 DEF PeriodicTimerExpired, Untouched
  <2>3. CASE StartTransmission
    BY <1>2, <2>3 DEF StartTransmission, Untouched
  <2> QED BY <2>1, <2>2, <2>3
<1> QED BY <1>1, <1>3, UntouchedStep DEF LinkType, llcVars

\* The invariant holds at first.
LEMMA LinkInit ==
  ASSUME NEW G, Init
  PROVE  LinkInv(G)
<1>1. m_numberOfSlices \in Nat
  <2>1. Cardinality(Ut) \in Nat
    BY ForwardLinkAssumption, FS_CardinalityType
  <2> QED BY <2>1 DEF Init
<1>2. LinkType
  <2>1. buffer \in [Connections -> Seq(Packet)]
    BY DEF Init
  <2>2. bestModcod \in [Ut -> Modcods \cup {Unknown}]
    BY DEF Init
  <2>3. m_slicesMapping \in [Ut -> Slices] /\ (TimeSlicing => 1 \in Slices)
    BY <1>1 DEF Init, Slices, Unknown, TimeSlicing
  <2>4. m_lastSliceAssigned = 1 /\ m_lastSliceDequeued \in Int /\ mode \in UsageModes
    BY DEF Init
  <2>5. round \in Rounds
    BY DEF Init, Rounds
  <2> QED BY <1>1, <2>1, <2>2, <2>3, <2>4, <2>5 DEF LinkType
<1>3. m_bbFrameContainers = [s \in Slices |-> EmptyContainer]
  BY DEF Init
<1>4. Contained(G)
  BY <1>1, <1>3, EmptyFacts DEF Contained
<1>5. WithinLimit
  <2>1. GetTotalDuration = SumFunction([s \in Slices |-> 0])
    <3>1. [s \in DOMAIN m_bbFrameContainers |-> m_bbFrameContainers[s].totalDuration]
            = [s \in Slices |-> 0]
      BY <1>3, EmptyFacts
    <3> QED BY <3>1 DEF GetTotalDuration, SumOver
  <2> DEFINE F == [s \in Slices |-> 0]
  <2>2. DOMAIN F = Slices /\ \A s \in Slices : F[s] = 0
    OBVIOUS
  <2> HIDE DEF F
  <2>3. IsFiniteSet(Slices)
    BY <1>1, FS_Interval DEF Slices
  <2>4. PICK f, S : f = F /\ S = Slices
    OBVIOUS
  <2>5. SumFunctionOnSet(f, S) = 0
    BY <2>2, <2>3, <2>4, SumOfZeros
  <2>6. GetTotalDuration = 0
    BY <2>1, <2>2, <2>4, <2>5 DEF SumFunction, F
  <2>7. 1 \in Modcods /\ "NORMAL_FRAME" \in FrameTypes
    BY PlaceTypes DEF FrameTypes
  <2>8. Duration["NORMAL_FRAME"][1] \in Nat \ {0}
    BY <2>7, ContainerAssumption
  <2>9. StopThreshold \in Nat /\ PeriodicInterval \in Nat
    BY ForwardLinkAssumption
  <2>10. GetTotalDuration < Duration["NORMAL_FRAME"][1]
                             + (IF TimeSlicing THEN PeriodicInterval ELSE StopThreshold)
    BY <2>6, <2>8, <2>9
  <2> QED BY <2>7, <2>10 DEF WithinLimit
<1> QED BY <1>2, <1>4, <1>5 DEF LinkInv

\* Every step keeps it, if the frames that data is added to are of G.
LEMMA LinkStep ==
  ASSUME NEW G, LinkInv(G), Suits(G), TxOpportunity => Open(G, PlaceFilled), [Next]_vars
  PROVE  LinkInv(G)'
<1>1. CASE \E c \in Connections, n \in PacketSizes \cup ControlSizes : Enque(c, n)
  BY <1>1, EnqueStep
<1>2. CASE \/ \E c \in Connections : ReceiveAck(c)
           \/ \E u \in Ut, m \in Modcods : CnoInfoUpdated(u, m)
  BY <1>2, FeedbackStep
<1>3. CASE NextObject
  BY <1>3, NextObjectStep
<1>4. CASE TxOpportunity
  BY <1>4, TxOpportunityStep
<1>5. CASE MergeFrames
  BY <1>5, MergeFramesStep
<1>6. CASE RunRescheduled \/ PeriodicTimerExpired \/ StartTransmission
  BY <1>6, EventStep
<1>7. CASE SendFrame
  BY <1>7, SendFrameStep
<1>8. CASE UNCHANGED vars
  <2>1. UNCHANGED Untouched /\ UNCHANGED <<buffer, bestModcod, round>>
    BY <1>8 DEF vars, Untouched, llcVars
  <2> QED BY <2>1, UntouchedStep DEF LinkInv, LinkType
<1> QED BY <1>1, <1>2, <1>3, <1>4, <1>5, <1>6, <1>7, <1>8 DEF Next

-----------------------------------------------------------------------------
(* What is counted is what is there. *)

\* Any frames, at any place.
AnyFrames == [p \in Places |-> Frame]

\* They suit all that is done with frames.
LEMMA AnyFramesSuit ==
  /\ Suits(AnyFrames)
  /\ \A p \in Places : Open(AnyFrames, p)
<1>1. \A p \in Places : AnyFrames[p] = Frame
  BY DEF AnyFrames
<1>2. \A m \in Modcods : m \in Places
  BY PlaceTypes
<1>3. Suits(AnyFrames)
  BY <1>1, <1>2, FrameForms DEF Suits, ClosedUnderMerge, ClosedUnderShrink
<1>4. \A p \in Places : EmptyFrame(ModcodOf(p), DefaultType(mode)) \in Frame
  BY PlaceTypes, EmptyFrameType
<1>5. \A p \in Places : Open(AnyFrames, p)
  BY <1>1, <1>4, FrameForms DEF Open
<1> QED BY <1>3, <1>5

\* The durations of the frames in the queues.
LEMMA QueuesDurationIsWeight ==
  ASSUME NEW G, NEW k \in Containers(G)
  PROVE  QueuesDuration(k) = Weight(DurationOf, k)
<1>1. k.queues \in [Places -> Seq(Frame)]
  BY DEF Containers
<1>2. ASSUME NEW q \in Seq(Frame)
      PROVE  SumFunction([i \in DOMAIN q |-> FrameDuration(q[i])]) = QueueWeight(DurationOf, q)
  <2>1. \A i \in DOMAIN q : FrameDuration(q[i]) = DurationOf[q[i]]
    <3>1. \A i \in DOMAIN q : q[i] \in Frame
      OBVIOUS
    <3> QED BY <3>1, DurationsWeigh
  <2>2. [i \in DOMAIN q |-> FrameDuration(q[i])] = [i \in DOMAIN q |-> DurationOf[q[i]]]
    BY <2>1
  <2> QED BY <2>2 DEF QueueWeight
<1>3. QueuesDuration(k)
        = SumFunction([p \in DOMAIN k.queues |->
                         SumFunction([i \in DOMAIN k.queues[p] |-> FrameDuration(k.queues[p][i])])])
  BY DEF QueuesDuration, SumOver
<1>4. DOMAIN k.queues = Places /\ \A p \in Places :
        SumFunction([i \in DOMAIN k.queues[p] |-> FrameDuration(k.queues[p][i])])
          = QueueWeight(DurationOf, k.queues[p])
  BY <1>1, <1>2
<1>5. [p \in DOMAIN k.queues |->
         SumFunction([i \in DOMAIN k.queues[p] |-> FrameDuration(k.queues[p][i])])]
        = [p \in Places |-> QueueWeight(DurationOf, k.queues[p])]
  BY <1>4
<1> QED BY <1>3, <1>5 DEF Weight

\* The invariant gives what the runs check.
LEMMA ExactIsExact ==
  ASSUME NEW G, LinkInv(G)
  PROVE  DurationsExact
<1>1. \A s \in Slices : m_bbFrameContainers[s] \in Containers(G) /\ Exact(m_bbFrameContainers[s])
  BY DEF LinkInv, Contained
<1>2. \A s \in Slices :
        m_bbFrameContainers[s].totalDuration = QueuesDuration(m_bbFrameContainers[s])
  BY <1>1, QueuesDurationIsWeight DEF Exact
<1> QED BY <1>2 DEF LinkInv, WithinLimit, DurationsExact

\* The invariant, for any frames.
THEOREM LinkTypeCorrect == Spec => []LinkInv(AnyFrames)
<1>1. Init => LinkInv(AnyFrames)
  BY LinkInit
<1>2. LinkInv(AnyFrames) /\ [Next]_vars => LinkInv(AnyFrames)'
  <2>1. ASSUME LinkInv(AnyFrames), TxOpportunity PROVE Open(AnyFrames, PlaceFilled)
    <3>1. round.conn \in Connections /\ round.modcod \in Modcods
      BY <2>1, RoundForms DEF LinkInv, LinkType, TxOpportunity
    <3>2. PlaceFilled \in Places
      BY <3>1, PlaceTaken DEF PlaceFilled
    <3> QED BY <3>2, AnyFramesSuit
  <2>2. PICK G : G = AnyFrames
    OBVIOUS
  <2>3. LinkInv(G) /\ [Next]_vars => LinkInv(G)'
    BY <2>1, <2>2, AnyFramesSuit, LinkStep
  <2>4. LinkInv(AnyFrames)' <=> LinkInv(G)'
    BY <2>2
  <2> QED BY <2>2, <2>3, <2>4
<1> QED BY <1>1, <1>2, PTL DEF Spec

\* The durations by which rounds start and stop are those of the frames in the
\* queues, and a round stops with at most one frame above its limit: for every
\* number of connections, MODCODs and slices, and every size and duration.
THEOREM DurationsAreExact == Spec => []DurationsExact
<1>1. LinkInv(AnyFrames) => DurationsExact
  BY ExactIsExact
<1> QED BY <1>1, LinkTypeCorrect, PTL

-----------------------------------------------------------------------------
(* No data is lost, repeated or made up. *)

\* What a frame counts, if every PDU in it counts v[pdu].
Counted(v) == [f \in Frame |-> QueueWeight(v, f.pdus)]

\* It is counted of what is in a frame, whatever the frame.
LEMMA CountedAdditive ==
  ASSUME NEW v, \A pdu \in Pdu : v[pdu] \in Int
  PROVE  /\ Additive(Counted(v))
         /\ \A f \in Frame, pdu \in Pdu : Counted(v)[AddPayload(f, pdu)] = Counted(v)[f] + v[pdu]
<1>1. PICK w : w = Counted(v)
  OBVIOUS
<1>2. \A f \in Frame : w[f] = QueueWeight(v, f.pdus) /\ f.pdus \in Seq(Pdu)
  BY <1>1 DEF Counted, Frame
<1>3. /\ \A ps \in Seq(Pdu) : QueueWeight(v, ps) \in Int /\ QueueWeight(v, <<>>) = 0
      /\ \A ps \in Seq(Pdu), pdu \in Pdu : QueueWeight(v, Append(ps, pdu)) = QueueWeight(v, ps) + v[pdu]
  BY SequenceWeights
<1>4. \A ps \in Seq(Pdu), qs \in Seq(Pdu) :
        QueueWeight(v, ps \o qs) = QueueWeight(v, ps) + QueueWeight(v, qs)
  BY ConcatenationWeighs
<1>5. Weighs(w)
  BY <1>2, <1>3 DEF Weighs
<1>6. ASSUME NEW f \in Frame, NEW g \in Frame
      PROVE  w[MergeWithFrame(f, g)] = w[f] + w[g]
  <2>1. MergeWithFrame(f, g) \in Frame /\ MergeWithFrame(f, g).pdus = f.pdus \o g.pdus
    BY FrameForms, FrameParts
  <2>2. w[MergeWithFrame(f, g)] = QueueWeight(v, f.pdus \o g.pdus)
    BY <1>2, <2>1
  <2>3. QueueWeight(v, f.pdus \o g.pdus) = QueueWeight(v, f.pdus) + QueueWeight(v, g.pdus)
    BY <1>2, <1>4
  <2> QED BY <1>2, <2>2, <2>3
<1>7. ASSUME NEW f \in Frame
      PROVE  w[Shrink(f)] = w[f] /\ w[Extend(f)] = w[f]
  <2>1. /\ Shrink(f) \in Frame /\ Shrink(f).pdus = f.pdus
        /\ Extend(f) \in Frame /\ Extend(f).pdus = f.pdus
    BY FrameForms, FrameParts
  <2> QED BY <1>2, <2>1
<1>8. ASSUME NEW m \in Modcods, NEW t \in FrameTypes PROVE w[EmptyFrame(m, t)] = 0
  <2>1. EmptyFrame(m, t) \in Frame /\ EmptyFrame(m, t).pdus = <<>>
    BY EmptyFrameType DEF EmptyFrame
  <2>2. <<>> \in Seq(Pdu)
    OBVIOUS
  <2> QED BY <1>2, <1>3, <2>1, <2>2
<1>9. ASSUME NEW f \in Frame, NEW pdu \in Pdu
      PROVE  w[AddPayload(f, pdu)] = w[f] + v[pdu]
  <2>1. AddPayload(f, pdu) \in Frame /\ AddPayload(f, pdu).pdus = Append(f.pdus, pdu)
    BY FrameForms, FrameParts
  <2>2. w[AddPayload(f, pdu)] = QueueWeight(v, Append(f.pdus, pdu))
    BY <1>2, <2>1
  <2> QED BY <1>2, <1>3, <2>2
<1>10. Additive(w)
  BY <1>5, <1>6, <1>7, <1>8 DEF Additive
<1> QED BY <1>1, <1>9, <1>10

\* The bytes that a PDU took of a connection, and those in a frame.
TakenOf(c) == [pdu \in Pdu |-> IF pdu.conn = c THEN Taken(pdu) ELSE 0]
Takes(c) == Counted(TakenOf(c))

\* They are integers.
LEMMA TakenType ==
  \A c, pdu : pdu \in Pdu =>
    /\ TakenOf(c)[pdu] = (IF pdu.conn = c THEN Taken(pdu) ELSE 0)
    /\ TakenOf(c)[pdu] \in Int /\ Taken(pdu) \in Int
<1>1. \A pdu \in Pdu : Taken(pdu) \in Int
  BY ForwardLinkAssumption DEF Taken, Pdu
<1> QED BY <1>1 DEF TakenOf

\* They are counted of what is in a frame, whatever the frame.
LEMMA TakesAdditive ==
  ASSUME NEW c
  PROVE  /\ Additive(Takes(c))
         /\ \A f \in Frame, pdu \in Pdu : Takes(c)[AddPayload(f, pdu)] = Takes(c)[f] + TakenOf(c)[pdu]
<1>1. PICK v : v = TakenOf(c)
  OBVIOUS
<1>2. \A pdu \in Pdu : v[pdu] \in Int
  BY <1>1, TakenType
<1> QED BY <1>1, <1>2, CountedAdditive DEF Takes

\* The sums that FramedBytes is made up of.
FrameTakes(c, f) ==
  SumFunction([i \in DOMAIN f.pdus |-> IF f.pdus[i].conn = c THEN Taken(f.pdus[i]) ELSE 0])
QueueTakes(c, q) == SumFunction([i \in DOMAIN q |-> FrameTakes(c, q[i])])
ContainerTakes(c, k) == SumFunction([p \in DOMAIN k.queues |-> QueueTakes(c, k.queues[p])])

\* Those of a container are its weight.
LEMMA ContainerTakesIsWeight ==
  ASSUME NEW c, NEW G, NEW k \in Containers(G)
  PROVE  ContainerTakes(c, k) = Weight(Takes(c), k)
<1>1. ASSUME NEW f \in Frame PROVE FrameTakes(c, f) = Takes(c)[f]
  <2>1. f.pdus \in Seq(Pdu)
    BY DEF Frame
  <2>2. \A i \in DOMAIN f.pdus :
          (IF f.pdus[i].conn = c THEN Taken(f.pdus[i]) ELSE 0) = TakenOf(c)[f.pdus[i]]
    <3>1. \A i \in DOMAIN f.pdus : f.pdus[i] \in Pdu
      BY <2>1
    <3> QED BY <3>1, TakenType
  <2>3. [i \in DOMAIN f.pdus |-> IF f.pdus[i].conn = c THEN Taken(f.pdus[i]) ELSE 0]
          = [i \in DOMAIN f.pdus |-> TakenOf(c)[f.pdus[i]]]
    BY <2>2
  <2> QED BY <2>3 DEF FrameTakes, Takes, Counted, QueueWeight
<1>2. ASSUME NEW q \in Seq(Frame) PROVE QueueTakes(c, q) = QueueWeight(Takes(c), q)
  <2>1. \A i \in DOMAIN q : FrameTakes(c, q[i]) = Takes(c)[q[i]]
    <3>1. \A i \in DOMAIN q : q[i] \in Frame
      OBVIOUS
    <3> QED BY <1>1, <3>1
  <2>2. [i \in DOMAIN q |-> FrameTakes(c, q[i])] = [i \in DOMAIN q |-> Takes(c)[q[i]]]
    BY <2>1
  <2> QED BY <2>2 DEF QueueTakes, QueueWeight
<1>3. k.queues \in [Places -> Seq(Frame)]
  BY DEF Containers
<1>4. [p \in DOMAIN k.queues |-> QueueTakes(c, k.queues[p])]
        = [p \in Places |-> QueueWeight(Takes(c), k.queues[p])]
  BY <1>2, <1>3
<1> QED BY <1>4 DEF ContainerTakes, Weight

\* What is framed of a connection is what the containers weigh.
LEMMA FramedIsWeight ==
  ASSUME NEW c, NEW G, Contained(G)
  PROVE  FramedBytes(c) = SlicesWeight(Takes(c), m_bbFrameContainers)
<1>1. FramedBytes(c) = SumFunction([s \in DOMAIN m_bbFrameContainers |->
                                      ContainerTakes(c, m_bbFrameContainers[s])])
  BY DEF FramedBytes, SumOver, ContainerTakes, QueueTakes, FrameTakes
<1>2. \A s \in DOMAIN m_bbFrameContainers :
        ContainerTakes(c, m_bbFrameContainers[s]) = Weight(Takes(c), m_bbFrameContainers[s])
  BY ContainerTakesIsWeight DEF Contained
<1>3. [s \in DOMAIN m_bbFrameContainers |-> ContainerTakes(c, m_bbFrameContainers[s])]
        = [s \in DOMAIN m_bbFrameContainers |-> Weight(Takes(c), m_bbFrameContainers[s])]
  BY <1>2
<1> QED BY <1>1, <1>3 DEF SlicesWeight

\* The same of what is next.
LEMMA NextFramedIsWeight ==
  ASSUME NEW c, NEW G, Contained(G)'
  PROVE  FramedBytes(c)' = SlicesWeight(Takes(c), m_bbFrameContainers')
<1>1. FramedBytes(c)' = SumFunction([s \in DOMAIN m_bbFrameContainers' |->
                                       ContainerTakes(c, m_bbFrameContainers'[s])])
  BY DEF FramedBytes, SumOver, ContainerTakes, QueueTakes, FrameTakes
<1>2. \A s \in DOMAIN m_bbFrameContainers' :
        ContainerTakes(c, m_bbFrameContainers'[s]) = Weight(Takes(c), m_bbFrameContainers'[s])
  BY ContainerTakesIsWeight DEF Contained
<1>3. [s \in DOMAIN m_bbFrameContainers' |-> ContainerTakes(c, m_bbFrameContainers'[s])]
        = [s \in DOMAIN m_bbFrameContainers' |-> Weight(Takes(c), m_bbFrameContainers'[s])]
  BY <1>2
<1> QED BY <1>1, <1>3 DEF SlicesWeight

\* What is buffered of a connection.
LEMMA BufferedIsWeight ==
  ASSUME NEW c \in Connections, NEW b \in [Connections -> Seq(Packet)]
  PROVE  SumFunction([i \in DOMAIN b[c] |-> b[c][i].n]) = QueueWeight(PacketBytes, b[c])
<1>1. b[c] \in Seq(Packet)
  OBVIOUS
<1>2. \A i \in DOMAIN b[c] : b[c][i].n = PacketBytes[b[c][i]]
  <2>1. \A i \in DOMAIN b[c] : b[c][i] \in Packet
    BY <1>1
  <2> QED BY <2>1 DEF PacketBytes
<1>3. [i \in DOMAIN b[c] |-> b[c][i].n] = [i \in DOMAIN b[c] |-> PacketBytes[b[c][i]]]
  BY <1>2
<1> QED BY <1>3 DEF QueueWeight

\* A transmission opportunity moves what it takes of a buffer into a frame.
LEMMA OpportunityConserves ==
  ASSUME LinkInv(AnyFrames), LinkInv(AnyFrames)', TxOpportunity, fatal' = None,
         Open(AnyFrames, PlaceFilled), NEW c \in Connections
  PROVE  BufferedBytes(c)' + FramedBytes(c)' = BufferedBytes(c) + FramedBytes(c)
<1>1. /\ LinkType /\ Contained(AnyFrames) /\ WithinLimit /\ Contained(AnyFrames)'
      /\ buffer \in [Connections -> Seq(Packet)] /\ buffer' \in [Connections -> Seq(Packet)]
  BY DEF LinkInv, LinkType
<1>2. /\ FramedBytes(c) = SlicesWeight(Takes(c), m_bbFrameContainers)
      /\ FramedBytes(c)' = SlicesWeight(Takes(c), m_bbFrameContainers')
  BY <1>1, FramedIsWeight, NextFramedIsWeight
<1>3. /\ BufferedBytes(c) = QueueWeight(PacketBytes, buffer[c])
      /\ BufferedBytes(c)' = QueueWeight(PacketBytes, buffer'[c])
  <2>1. /\ BufferedBytes(c) = SumFunction([i \in DOMAIN buffer[c] |-> buffer[c][i].n])
        /\ BufferedBytes(c)' = SumFunction([i \in DOMAIN buffer'[c] |-> buffer'[c][i].n])
    BY DEF BufferedBytes, SumOver
  <2> QED BY <1>1, <2>1, BufferedIsWeight
<1>4. CASE UNCHANGED <<buffer, m_bbFrameContainers>>
  BY <1>2, <1>3, <1>4
<1>5. ASSUME NEW s \in Slices, NEW x \in Containers(AnyFrames), NEW pdu \in Pdu, NEW f \in Frame,
             Added(AnyFrames, s, x, pdu, f)
      PROVE  BufferedBytes(c)' + FramedBytes(c)' = BufferedBytes(c) + FramedBytes(c)
  <2>1. /\ Exact(x) /\ m_bbFrameContainers' = [m_bbFrameContainers EXCEPT ![s] = x]
        /\ RoundGoesOn /\ AtMostOneMore(m_bbFrameContainers[s], x)
        /\ buffer[pdu.conn] # <<>>
        /\ buffer' = [buffer EXCEPT ![pdu.conn] = AfterPdu(buffer[pdu.conn], pdu)]
    BY <1>5 DEF Added
  <2> DEFINE y == m_bbFrameContainers[s]
  <2>2. PICK w : w = Takes(c)
    OBVIOUS
  <2>3. Additive(w) /\ Weighs(w)
    BY <2>2, TakesAdditive DEF Additive
  <2>4. Weight(w, x) = Weight(w, y) - w[f] + w[AddPayload(f, pdu)]
    BY <1>5, <2>3 DEF Added
  <2>5. UNCHANGED configVars
    BY DEF TxOpportunity
  <2>6. /\ SlicesWeight(w, m_bbFrameContainers) \in Int
        /\ Weight(w, y) \in Int /\ Weight(w, x) \in Int
        /\ SlicesWeight(w, m_bbFrameContainers')
             = SlicesWeight(w, m_bbFrameContainers) - Weight(w, y) + Weight(w, x)
    BY <1>1, <2>1, <2>3, <2>5, OneContainerChanged
  <2>7. w[AddPayload(f, pdu)] = w[f] + TakenOf(c)[pdu] /\ w[f] \in Int /\ TakenOf(c)[pdu] \in Int
    BY <2>2, <2>3, TakesAdditive, TakenType DEF Weighs
  <2>8. SlicesWeight(w, m_bbFrameContainers')
          = SlicesWeight(w, m_bbFrameContainers) + TakenOf(c)[pdu]
    <3> HIDE DEF y
    <3> QED BY <2>4, <2>6, <2>7
  <2>9. pdu.conn \in Connections /\ Taken(pdu) \in Int
    BY TakenType DEF Pdu
  <2>10. /\ QueueWeight(PacketBytes, buffer[c]) \in Int
         /\ QueueWeight(PacketBytes, buffer'[c])
              = QueueWeight(PacketBytes, buffer[c]) - TakenOf(c)[pdu]
    <3>1. \A r \in Seq(Packet) : QueueWeight(PacketBytes, r) \in Int
      <4>1. \A p \in Packet : PacketBytes[p] \in Int
        BY DEF PacketBytes, Packet
      <4> QED BY <4>1, SequenceWeights
    <3>2. buffer[c] \in Seq(Packet) /\ QueueWeight(PacketBytes, buffer[c]) \in Int
      BY <1>1, <3>1
    <3>3. CASE pdu.conn = c
      <4>1. buffer'[c] = AfterPdu(buffer[c], pdu) /\ buffer[c] # <<>>
        BY <1>1, <2>1, <3>3
      <4>2. PICK q : q = buffer[c]
        OBVIOUS
      <4>3. q \in Seq(Packet) /\ q # <<>>
        BY <3>2, <4>1, <4>2
      <4>4. QueueWeight(PacketBytes, AfterPdu(q, pdu)) = QueueWeight(PacketBytes, q) - Taken(pdu)
        BY <2>9, <4>3, AfterPduFacts
      <4>5. TakenOf(c)[pdu] = Taken(pdu)
        BY <3>3, TakenType
      <4> QED BY <3>2, <4>1, <4>2, <4>4, <4>5
    <3>4. CASE pdu.conn # c
      <4>1. buffer'[c] = buffer[c]
        BY <1>1, <2>1, <3>4
      <4>2. TakenOf(c)[pdu] = 0
        BY <3>4, TakenType
      <4> QED BY <3>2, <4>1, <4>2
    <3> QED BY <3>3, <3>4
  <2> QED BY <1>2, <1>3, <2>2, <2>6, <2>7, <2>8, <2>10
<1>6. \/ UNCHANGED <<buffer, m_bbFrameContainers>>
      \/ \E s \in Slices, x \in Containers(AnyFrames), p \in Pdu, f \in Frame :
           Added(AnyFrames, s, x, p, f)
  BY TxOpportunityEffect
<1> QED BY <1>4, <1>5, <1>6

\* Merging moves what is in frames into others.
LEMMA MergingConserves ==
  ASSUME LinkInv(AnyFrames), LinkInv(AnyFrames)', MergeFrames, NEW c \in Connections
  PROVE  BufferedBytes(c)' + FramedBytes(c)' = BufferedBytes(c) + FramedBytes(c)
<1>1. /\ LinkType /\ Contained(AnyFrames) /\ WithinLimit /\ Contained(AnyFrames)'
  BY DEF LinkInv
<1>2. /\ FramedBytes(c) = SlicesWeight(Takes(c), m_bbFrameContainers)
      /\ FramedBytes(c)' = SlicesWeight(Takes(c), m_bbFrameContainers')
  BY <1>1, FramedIsWeight, NextFramedIsWeight
<1>3. BufferedBytes(c)' = BufferedBytes(c)
  BY DEF MergeFrames, llcVars, BufferedBytes, SumOver
<1>4. PICK s \in Slices, x \in Containers(AnyFrames) :
        /\ m_bbFrameContainers' = [m_bbFrameContainers EXCEPT ![s] = x]
        /\ Keeps(AnyFrames, m_bbFrameContainers[s], x)
  BY AnyFramesSuit, MergeFramesEffect
<1>5. PICK w : w = Takes(c)
  OBVIOUS
<1>6. Additive(w) /\ Weighs(w)
  BY <1>5, TakesAdditive DEF Additive
<1>7. /\ Exact(x) /\ x.totalDuration <= m_bbFrameContainers[s].totalDuration
      /\ Weight(w, x) = Weight(w, m_bbFrameContainers[s])
  BY <1>4, <1>6 DEF Keeps
<1>8. UNCHANGED configVars
  BY DEF MergeFrames
<1>9. /\ SlicesWeight(w, m_bbFrameContainers) \in Int
      /\ Weight(w, m_bbFrameContainers[s]) \in Int
      /\ SlicesWeight(w, m_bbFrameContainers')
           = SlicesWeight(w, m_bbFrameContainers) - Weight(w, m_bbFrameContainers[s]) + Weight(w, x)
  BY <1>1, <1>4, <1>6, <1>7, <1>8, OneContainerChanged
<1>10. SlicesWeight(w, m_bbFrameContainers') = SlicesWeight(w, m_bbFrameContainers)
  BY <1>7, <1>9
<1> QED BY <1>2, <1>3, <1>5, <1>10

\* No step of a round loses, repeats or makes up data: what leaves a buffer is in
\* a frame of the right connection, through every merge and every change of type.
THEOREM DataIsConserved == Spec => DataConserved
<1>1. LinkInv(AnyFrames) /\ LinkInv(AnyFrames)' /\ [Next]_vars =>
        [(TxOpportunity \/ MergeFrames) /\ fatal' = None =>
           \A c \in Connections :
             BufferedBytes(c)' + FramedBytes(c)' = BufferedBytes(c) + FramedBytes(c)]_vars
  <2>1. ASSUME LinkInv(AnyFrames), TxOpportunity PROVE Open(AnyFrames, PlaceFilled)
    <3>1. round.conn \in Connections /\ round.modcod \in Modcods
      BY <2>1, RoundForms DEF LinkInv, LinkType, TxOpportunity
    <3>2. PlaceFilled \in Places
      BY <3>1, PlaceTaken DEF PlaceFilled
    <3> QED BY <3>2, AnyFramesSuit
  <2> QED BY <2>1, OpportunityConserves, MergingConserves
<1> QED BY <1>1, LinkTypeCorrect, PTL DEF Spec, DataConserved

-----------------------------------------------------------------------------
(* A frame can be decoded by those that it is for. *)

PduBytes == [pdu \in Pdu |-> pdu.n]

\* What is known of the frames at a place: their MODCOD is that of the place and
\* no more efficient than what is in them allows, what is used is the header and
\* the PDUs, and it fits into a frame of the type.  The free space that is
\* computed is real, but for that of a frame that was shrunk, whose limit lost
\* the header a second time.
Decodable(md) ==
  [p \in Places |->
    {f \in Frame :
       /\ f.modcod = ModcodOf(p)
       /\ \A i \in DOMAIN f.pdus : f.modcod <= f.pdus[i].modcod
       /\ f.used = HeaderBytes + QueueWeight(PduBytes, f.pdus)
       /\ 0 <= f.max /\ f.max <= Bytes[f.type][f.modcod] /\ f.used <= Bytes[f.type][f.modcod]
       /\ f.type = "NORMAL_FRAME" \/ md # "SHORT_AND_NORMAL_FRAMES" => f.used <= f.max}]

\* A share of a number is no more than it.
LEMMA ShareOf ==
  ASSUME NEW x \in 0 .. 100, NEW y \in Nat, NEW u \in Int, 100 * u < x * y
  PROVE  u < y
<1>1. (100 - x) * y >= 0
  <2>1. 100 - x \in Nat
    OBVIOUS
  <2> QED BY <2>1
<1> DEFINE z == x * y
<1>2. z \in Int /\ z = 100 * y - (100 - x) * y /\ (100 - x) * y \in Int /\ 100 * y \in Int
  OBVIOUS
<1>3. z <= 100 * y /\ 100 * u < z
  BY <1>1, <1>2
<1> QED
  <2> HIDE DEF z
  <2> QED BY <1>2, <1>3

\* The bytes of what is in a frame.
LEMMA BytesAdd ==
  /\ QueueWeight(PduBytes, <<>>) = 0
  /\ \A ps \in Seq(Pdu) : QueueWeight(PduBytes, ps) \in Int
  /\ \A ps \in Seq(Pdu), pdu \in Pdu :
       QueueWeight(PduBytes, Append(ps, pdu)) = QueueWeight(PduBytes, ps) + pdu.n
  /\ \A ps \in Seq(Pdu), qs \in Seq(Pdu) :
       QueueWeight(PduBytes, ps \o qs) = QueueWeight(PduBytes, ps) + QueueWeight(PduBytes, qs)
<1>1. \A pdu \in Pdu : PduBytes[pdu] = pdu.n /\ PduBytes[pdu] \in Int
  BY DEF PduBytes, Pdu
<1>2. PICK w : w = PduBytes
  OBVIOUS
<1>3. \A pdu \in Pdu : w[pdu] \in Int
  BY <1>1, <1>2
<1>4. /\ \A ps \in Seq(Pdu) : QueueWeight(w, ps) \in Int /\ QueueWeight(w, <<>>) = 0
      /\ \A ps \in Seq(Pdu), pdu \in Pdu : QueueWeight(w, Append(ps, pdu)) = QueueWeight(w, ps) + w[pdu]
  BY <1>3, SequenceWeights
<1>5. \A ps \in Seq(Pdu), qs \in Seq(Pdu) :
        QueueWeight(w, ps \o qs) = QueueWeight(w, ps) + QueueWeight(w, qs)
  BY <1>3, ConcatenationWeighs
<1>6. <<>> \in Seq(Pdu)
  OBVIOUS
<1> QED BY <1>1, <1>2, <1>4, <1>5, <1>6

\* The bounds of a frame's size.
LEMMA FrameSizes ==
  \A t \in FrameTypes, m \in Modcods :
    /\ HeaderBytes \in Nat /\ Bytes[t][m] \in Nat /\ HeaderBytes < Bytes[t][m]
    /\ Bytes["SHORT_FRAME"][m] < Bytes["NORMAL_FRAME"][m]
    /\ Bytes["SHORT_FRAME"][m] \in Nat /\ Bytes["NORMAL_FRAME"][m] \in Nat
    /\ HeaderBytes < Bytes["SHORT_FRAME"][m]
  BY ContainerAssumption DEF FrameTypes

\* PDUs that all allow a MODCOD, together and with one more that does.
AllAllow(n, ps) == \A i \in DOMAIN ps : n <= ps[i].modcod
LEMMA AllowedTogether ==
  ASSUME NEW n, NEW ps \in Seq(Pdu), AllAllow(n, ps)
  PROVE  /\ \A qs \in Seq(Pdu) : AllAllow(n, qs) => AllAllow(n, ps \o qs)
         /\ \A pdu \in Pdu : n <= pdu.modcod => AllAllow(n, Append(ps, pdu))
<1>1. ASSUME NEW qs \in Seq(Pdu), AllAllow(n, qs) PROVE AllAllow(n, ps \o qs)
  <2> SUFFICES ASSUME NEW i \in DOMAIN (ps \o qs) PROVE n <= (ps \o qs)[i].modcod
    BY DEF AllAllow
  <2>1. \/ i \in DOMAIN ps /\ (ps \o qs)[i] = ps[i]
        \/ i - Len(ps) \in DOMAIN qs /\ (ps \o qs)[i] = qs[i - Len(ps)]
    OBVIOUS
  <2> QED BY <1>1, <2>1 DEF AllAllow
<1>2. ASSUME NEW pdu \in Pdu, n <= pdu.modcod PROVE AllAllow(n, Append(ps, pdu))
  <2> SUFFICES ASSUME NEW i \in DOMAIN Append(ps, pdu) PROVE n <= Append(ps, pdu)[i].modcod
    BY DEF AllAllow
  <2>1. (i \in DOMAIN ps /\ Append(ps, pdu)[i] = ps[i]) \/ Append(ps, pdu)[i] = pdu
    OBVIOUS
  <2> QED BY <1>2, <2>1 DEF AllAllow
<1> QED BY <1>1, <1>2

\* Merging: there is room in the better frame, and what is moved gets a more
\* robust MODCOD.
LEMMA DecodableMerged ==
  ASSUME NEW md
  PROVE  ClosedUnderMerge(Decodable(md))
<1> SUFFICES ASSUME NEW p \in Places, NEW m \in Modcods, NEW f \in Frame, NEW g \in Frame,
                    f \in Decodable(md)[p], g \in Decodable(md)[m], p < m,
                    BelowOccupancy(f, LowOccupancy), HasRoomFor(f, DataBytes(g))
             PROVE  MergeWithFrame(f, g) \in Decodable(md)[p]
  BY DEF ClosedUnderMerge
<1> DEFINE h == MergeWithFrame(f, g)
<1>1. /\ f.modcod = ModcodOf(p) /\ g.modcod = m
      /\ \A i \in DOMAIN f.pdus : f.modcod <= f.pdus[i].modcod
      /\ \A i \in DOMAIN g.pdus : g.modcod <= g.pdus[i].modcod
      /\ f.used = HeaderBytes + QueueWeight(PduBytes, f.pdus)
      /\ g.used = HeaderBytes + QueueWeight(PduBytes, g.pdus)
      /\ 0 <= f.max /\ f.max <= Bytes[f.type][f.modcod]
  BY PlaceTypes DEF Decodable
<1>2. /\ f.used \in Int /\ f.max \in Int /\ g.used \in Int /\ f.type \in FrameTypes
      /\ f.modcod \in Modcods /\ f.pdus \in Seq(Pdu) /\ g.pdus \in Seq(Pdu)
  BY DEF Frame
<1>3. /\ h \in Frame /\ h.pdus = f.pdus \o g.pdus /\ h.used = f.used + DataBytes(g)
      /\ h.modcod = f.modcod /\ h.type = f.type /\ h.max = f.max
  <2>1. h \in Frame
    BY FrameForms
  <2>2. \A x \in Frame, y \in Frame :
          LET z == MergeWithFrame(x, y)
          IN z.pdus = x.pdus \o y.pdus /\ z.used = x.used + DataBytes(y)
             /\ z.modcod = x.modcod /\ z.type = x.type /\ z.max = x.max
    BY FrameParts, Zenon
  <2>3. /\ h.pdus = f.pdus \o g.pdus /\ h.used = f.used + DataBytes(g)
        /\ h.modcod = f.modcod /\ h.type = f.type /\ h.max = f.max
    BY <2>2, Zenon
  <2> QED BY <2>1, <2>3
<1> HIDE DEF h
<1>4. Bytes[f.type][f.modcod] \in Nat /\ HeaderBytes \in Nat
  <2>1. \A t \in FrameTypes, n \in Modcods : Bytes[t][n] \in Nat /\ HeaderBytes \in Nat
    BY FrameSizes
  <2>2. f.type \in FrameTypes /\ f.modcod \in Modcods
    BY <1>2
  <2> QED BY <2>1, <2>2
<1>5. f.used < f.max
  <2>1. f.max \in Nat
    BY <1>1, <1>2
  <2>2. LowOccupancy \in 0 .. 100
    BY ContainerAssumption
  <2>3. 100 * f.used < LowOccupancy * f.max
    BY Zenon DEF BelowOccupancy
  <2> QED BY <1>2, <2>1, <2>2, <2>3, ShareOf
<1>6. h.used <= f.max
  BY <1>2, <1>3, <1>4, <1>5 DEF HasRoomFor, DataBytes
<1>7. h.used = HeaderBytes + QueueWeight(PduBytes, h.pdus)
  <2>1. /\ QueueWeight(PduBytes, f.pdus) \in Int /\ QueueWeight(PduBytes, g.pdus) \in Int
        /\ QueueWeight(PduBytes, h.pdus)
             = QueueWeight(PduBytes, f.pdus) + QueueWeight(PduBytes, g.pdus)
    BY <1>2, <1>3, BytesAdd
  <2>2. h.used = f.used + (g.used - HeaderBytes)
    BY <1>3 DEF DataBytes
  <2> QED BY <1>1, <1>4, <2>1, <2>2
<1>8. \A i \in DOMAIN h.pdus : h.modcod <= h.pdus[i].modcod
  <2>1. f.modcod <= m /\ f.modcod \in Int /\ m \in Int
    <3>1. m \in Nat /\ 1 <= m /\ p \in Nat
      BY ContainerAssumption DEF Places, Control
    <3> QED BY <1>1, <3>1 DEF ModcodOf
  <2>2. \A i \in DOMAIN g.pdus : f.modcod <= g.pdus[i].modcod
    <3>1. \A i \in DOMAIN g.pdus : g.pdus[i].modcod \in Int
      <4>1. \A i \in DOMAIN g.pdus : g.pdus[i] \in Pdu
        BY <1>2
      <4> QED BY <4>1, ContainerAssumption DEF Pdu
    <3> QED BY <1>1, <2>1, <3>1
  <2>3. AllAllow(f.modcod, f.pdus) /\ AllAllow(f.modcod, g.pdus)
    BY <1>1, <2>2 DEF AllAllow
  <2>4. AllAllow(f.modcod, f.pdus \o g.pdus)
    BY <1>2, <2>3, AllowedTogether
  <2>5. AllAllow(h.modcod, h.pdus)
    BY <1>3, <2>4
  <2> QED BY <2>5 DEF AllAllow
<1>9. 0 <= h.max /\ h.max <= Bytes[h.type][h.modcod] /\ h.used <= Bytes[h.type][h.modcod]
  <2>1. h.used \in Int
    BY <1>3 DEF Frame
  <2> QED BY <1>1, <1>2, <1>3, <1>4, <1>6, <2>1
<1> HIDE DEF h
<1>10. h \in Decodable(md)[p]
  BY <1>1, <1>3, <1>6, <1>7, <1>8, <1>9 DEF Decodable
<1> QED BY <1>10 DEF h

\* Shrinking: only a frame that is as good as a short one.
LEMMA DecodableShrunk ==
  ClosedUnderShrink(Decodable("SHORT_AND_NORMAL_FRAMES"))
<1> SUFFICES ASSUME NEW p \in Places, NEW f \in Frame,
                    f \in Decodable("SHORT_AND_NORMAL_FRAMES")[p]
             PROVE  Shrink(f) \in Decodable("SHORT_AND_NORMAL_FRAMES")[p]
  BY DEF ClosedUnderShrink
<1> DEFINE h == Shrink(f)
<1>1. CASE h = f
  BY <1>1
<1>2. CASE h # f
  <2>1. /\ h \in Frame /\ h.pdus = f.pdus /\ h.used = f.used /\ h.modcod = f.modcod
        /\ h.type = "SHORT_FRAME" /\ f.used < Bytes["SHORT_FRAME"][f.modcod]
        /\ h.max = Bytes["SHORT_FRAME"][f.modcod] - HeaderBytes
    BY <1>2, FrameForms, FrameParts
  <2>2. f.modcod \in Modcods /\ f.used \in Int /\ "SHORT_FRAME" \in FrameTypes
    BY DEF Frame, FrameTypes
  <2>3. 0 <= h.max /\ h.max <= Bytes[h.type][h.modcod] /\ h.used <= Bytes[h.type][h.modcod]
    BY <2>1, <2>2, FrameSizes
  <2>4. h.type # "NORMAL_FRAME"
    BY <2>1
  <2>5. /\ f.modcod = ModcodOf(p)
        /\ \A i \in DOMAIN f.pdus : f.modcod <= f.pdus[i].modcod
        /\ f.used = HeaderBytes + QueueWeight(PduBytes, f.pdus)
    BY DEF Decodable
  <2> HIDE DEF h
  <2>6. h \in Decodable("SHORT_AND_NORMAL_FRAMES")[p]
    BY <2>1, <2>3, <2>4, <2>5 DEF Decodable
  <2> QED BY <2>6 DEF h
<1> QED BY <1>1, <1>2

\* Adding data: not control messages when frames are of both types.
LEMMA DecodableOpen ==
  ASSUME NEW p \in Places, mode # "SHORT_AND_NORMAL_FRAMES" \/ p \in Modcods
  PROVE  Open(Decodable(mode), p)
<1>1. ModcodOf(p) \in Modcods /\ DefaultType(mode) \in FrameTypes
  BY PlaceTypes
<1>2. EmptyFrame(ModcodOf(p), DefaultType(mode)) \in Decodable(mode)[p]
  <2> DEFINE h == EmptyFrame(ModcodOf(p), DefaultType(mode))
  <2>1. /\ h \in Frame /\ h.modcod = ModcodOf(p) /\ h.type = DefaultType(mode)
        /\ h.max = Bytes[DefaultType(mode)][ModcodOf(p)] /\ h.used = HeaderBytes /\ h.pdus = <<>>
    BY <1>1, EmptyFrameType DEF EmptyFrame
  <2>2. h.used = HeaderBytes + QueueWeight(PduBytes, h.pdus)
    BY <1>1, <2>1, BytesAdd, FrameSizes
  <2>3. /\ 0 <= h.max /\ h.max <= Bytes[h.type][h.modcod] /\ h.used <= Bytes[h.type][h.modcod]
        /\ h.used <= h.max
    BY <1>1, <2>1, FrameSizes
  <2> HIDE DEF h
  <2>4. h \in Decodable(mode)[p]
    BY <2>1, <2>2, <2>3 DEF Decodable
  <2> QED BY <2>4 DEF h
<1>3. ASSUME NEW f \in Frame, f \in Decodable(mode)[p] PROVE Extend(f) \in Decodable(mode)[p]
  <2> DEFINE h == Extend(f)
  <2>1. CASE h = f
    BY <1>3, <2>1
  <2>2. CASE h # f
    <3>1. /\ h \in Frame /\ h.pdus = f.pdus /\ h.used = f.used /\ h.modcod = f.modcod
          /\ h.type = "NORMAL_FRAME" /\ f.type = "SHORT_FRAME"
          /\ h.max = Bytes["NORMAL_FRAME"][f.modcod]
      BY <2>2, FrameForms, FrameParts
    <3>2. /\ f.modcod = ModcodOf(p) /\ f.modcod \in Modcods /\ f.used \in Int
          /\ \A i \in DOMAIN f.pdus : f.modcod <= f.pdus[i].modcod
          /\ f.used = HeaderBytes + QueueWeight(PduBytes, f.pdus)
          /\ f.used <= Bytes[f.type][f.modcod]
      BY <1>3 DEF Decodable, Frame
    <3>3. "NORMAL_FRAME" \in FrameTypes
      BY DEF FrameTypes
    <3>4. /\ 0 <= h.max /\ h.max <= Bytes[h.type][h.modcod] /\ h.used <= Bytes[h.type][h.modcod]
          /\ h.used <= h.max
      BY <3>1, <3>2, <3>3, FrameSizes
    <3> HIDE DEF h
    <3>5. h \in Decodable(mode)[p]
      BY <3>1, <3>2, <3>4 DEF Decodable
    <3> QED BY <3>5 DEF h
  <2> QED BY <2>1, <2>2
<1>4. ASSUME NEW f \in Frame, f \in Decodable(mode)[p], NEW pdu \in Pdu,
             ModcodOf(p) <= pdu.modcod, HasRoomFor(f, pdu.n),
             mode = "SHORT_AND_NORMAL_FRAMES" /\ p \in Modcods => f.type = "NORMAL_FRAME"
      PROVE  AddPayload(f, pdu) \in Decodable(mode)[p]
  <2> DEFINE h == AddPayload(f, pdu)
  <2>1. /\ h \in Frame /\ h.pdus = Append(f.pdus, pdu) /\ h.used = f.used + pdu.n
        /\ h.modcod = f.modcod /\ h.type = f.type /\ h.max = f.max
    BY FrameForms, FrameParts
  <2>2. /\ f.modcod = ModcodOf(p) /\ f.modcod \in Modcods /\ f.used \in Int /\ f.max \in Int
        /\ f.type \in FrameTypes /\ f.pdus \in Seq(Pdu) /\ pdu.n \in Int
        /\ \A i \in DOMAIN f.pdus : f.modcod <= f.pdus[i].modcod
        /\ f.used = HeaderBytes + QueueWeight(PduBytes, f.pdus)
        /\ 0 <= f.max /\ f.max <= Bytes[f.type][f.modcod]
        /\ f.type = "NORMAL_FRAME" \/ mode # "SHORT_AND_NORMAL_FRAMES" => f.used <= f.max
    BY <1>4 DEF Decodable, Frame, Pdu
  <2>3. f.used <= f.max
    BY <1>4, <2>2
  <2>4. h.used <= h.max
    BY <1>4, <2>1, <2>2, <2>3 DEF HasRoomFor
  <2>5. h.used = HeaderBytes + QueueWeight(PduBytes, h.pdus)
    <3>1. /\ QueueWeight(PduBytes, h.pdus) = QueueWeight(PduBytes, f.pdus) + pdu.n
          /\ QueueWeight(PduBytes, f.pdus) \in Int
      BY <2>1, <2>2, BytesAdd
    <3>2. HeaderBytes \in Int
      BY <2>2, FrameSizes
    <3> QED BY <2>1, <2>2, <3>1, <3>2
  <2>6. \A i \in DOMAIN h.pdus : h.modcod <= h.pdus[i].modcod
    <3>1. AllAllow(f.modcod, f.pdus) /\ f.modcod <= pdu.modcod
      BY <1>4, <2>2 DEF AllAllow
    <3>2. AllAllow(f.modcod, Append(f.pdus, pdu))
      BY <2>2, <3>1, AllowedTogether
    <3>3. AllAllow(h.modcod, h.pdus)
      BY <2>1, <3>2
    <3> QED BY <3>3 DEF AllAllow
  <2>7. /\ 0 <= h.max /\ h.max <= Bytes[h.type][h.modcod] /\ h.used <= Bytes[h.type][h.modcod]
    <3>1. Bytes[f.type][f.modcod] \in Nat /\ h.used \in Int
      BY <2>1, <2>2, FrameSizes
    <3> QED BY <2>1, <2>2, <2>4, <3>1
  <2> HIDE DEF h
  <2>8. h \in Decodable(mode)[p]
    BY <2>1, <2>2, <2>4, <2>5, <2>6, <2>7 DEF Decodable
  <2> QED BY <2>8 DEF h
<1> QED BY <1>2, <1>3, <1>4 DEF Open

\* No control message waits where frames are of both types.
NoControlInMixedFrames ==
  mode = "SHORT_AND_NORMAL_FRAMES" =>
    \A c \in Connections : c.flow = 0 => buffer[c] = <<>>

\* The frames of the mode that is used.
LEMMA DecodableStep ==
  ASSUME NoControlInMixedFrames, LinkInv(Decodable(mode)), [Next]_vars
  PROVE  LinkInv(Decodable(mode))'
<1>1. PICK md : md = mode
  OBVIOUS
<1>2. mode' = mode
  BY DEF Next, vars, configVars, Enque, ReceiveAck, CnoInfoUpdated, NextObject, TxOpportunity,
         MergeFrames, RunRescheduled, PeriodicTimerExpired, StartTransmission, SendFrame
<1>3. Suits(Decodable(md))
  BY <1>1, DecodableMerged, DecodableShrunk DEF Suits
<1>4. ASSUME TxOpportunity PROVE Open(Decodable(md), PlaceFilled)
  <2>1. round.conn \in Connections /\ round.modcod \in Modcods /\ buffer[round.conn] # <<>>
    BY <1>4, RoundForms DEF LinkInv, LinkType, TxOpportunity, ObjectGoesOn
  <2>2. PlaceFilled \in Places
    BY <2>1, PlaceTaken DEF PlaceFilled
  <2>3. mode = "SHORT_AND_NORMAL_FRAMES" => PlaceFilled \in Modcods
    BY <2>1 DEF NoControlInMixedFrames, PlaceFilled, PlaceOf
  <2> QED BY <1>1, <2>2, <2>3, DecodableOpen
<1>5. PICK G : G = Decodable(md)
  OBVIOUS
<1>6. LinkInv(G)
  BY <1>1, <1>5
<1>7. LinkInv(G)'
  BY <1>3, <1>4, <1>5, <1>6, LinkStep
<1>8. G = Decodable(mode')
  BY <1>1, <1>2, <1>5
<1> QED BY <1>7, <1>8

\* Frames that are known to be as above can be decoded.
LEMMA DecodableFrames ==
  ASSUME LinkInv(Decodable(mode))
  PROVE  FramesCanBeDecoded
<1> SUFFICES ASSUME NEW f \in AllFrames
             PROVE  PayloadFits(f) /\ \A i \in DOMAIN f.pdus : f.modcod <= f.pdus[i].modcod
  BY DEF FramesCanBeDecoded
<1>1. PICK s \in Slices, p \in Places : f \in ToSet(m_bbFrameContainers[s].queues[p])
  BY DEF AllFrames, Frames
<1>2. PICK k \in Containers(Decodable(mode)) : k = m_bbFrameContainers[s]
  BY DEF LinkInv, Contained
<1>3. k.queues[p] \in Seq(Frame) /\ \A i \in DOMAIN k.queues[p] : k.queues[p][i] \in Decodable(mode)[p]
  BY DEF Containers
<1>4. f \in Frame /\ f \in Decodable(mode)[p]
  BY <1>1, <1>2, <1>3 DEF ToSet, Decodable
<1>5. SumOver(f.pdus, LAMBDA pdu : pdu.n) = QueueWeight(PduBytes, f.pdus)
  <2>1. SumOver(f.pdus, LAMBDA pdu : pdu.n) = SumFunction([i \in DOMAIN f.pdus |-> f.pdus[i].n])
    BY DEF SumOver
  <2>2. f.pdus \in Seq(Pdu)
    BY <1>4 DEF Frame
  <2>3. \A i \in DOMAIN f.pdus : f.pdus[i].n = PduBytes[f.pdus[i]]
    <3>1. \A i \in DOMAIN f.pdus : f.pdus[i] \in Pdu
      BY <2>2
    <3> QED BY <3>1 DEF PduBytes
  <2>4. [i \in DOMAIN f.pdus |-> f.pdus[i].n] = [i \in DOMAIN f.pdus |-> PduBytes[f.pdus[i]]]
    BY <2>3
  <2> QED BY <2>1, <2>4 DEF QueueWeight
<1>6. /\ f.used = HeaderBytes + QueueWeight(PduBytes, f.pdus)
      /\ f.used <= Bytes[f.type][f.modcod]
      /\ \A i \in DOMAIN f.pdus : f.modcod <= f.pdus[i].modcod
  BY <1>4 DEF Decodable
<1> QED BY <1>5, <1>6 DEF PayloadFits

\* What is in a frame fits into it and is sent with no more efficient a MODCOD
\* than each PDU's UT was given, whatever was merged, extended and shrunk, as long
\* as no control message waits where frames are of both types: there the code
\* takes the type of another frame for that of the control messages' (AddData).
THEOREM FramesDecodable ==
  Spec /\ []NoControlInMixedFrames => []FramesCanBeDecoded
<1>1. Init => LinkInv(Decodable(mode))
  BY LinkInit
<1>2. NoControlInMixedFrames /\ LinkInv(Decodable(mode)) /\ [Next]_vars
        => LinkInv(Decodable(mode))'
  BY DecodableStep
<1>3. LinkInv(Decodable(mode)) => FramesCanBeDecoded
  BY DecodableFrames
<1> QED BY <1>1, <1>2, <1>3, PTL DEF Spec

-----------------------------------------------------------------------------
(* A UT knows its slice. *)

\* What a PDU tells UT u of its slice, and whether it is for u.
Tells(u) == [pdu \in Pdu |-> IF pdu.conn = Subscriptions /\ pdu.about = u THEN 1 ELSE 0]
Serves(u) == [pdu \in Pdu |-> IF pdu.conn.to = u THEN 1 ELSE 0]

\* A queue, and a container, whose elements count naturals: it counts none that
\* is larger, and nothing if they all count nothing.
LEMMA NaturalQueue ==
  ASSUME NEW S, NEW w, \A x \in S : w[x] \in Nat, NEW q \in Seq(S)
  PROVE  /\ QueueWeight(w, q) \in Nat
         /\ \A i \in DOMAIN q : w[q[i]] <= QueueWeight(w, q)
         /\ (\A i \in DOMAIN q : w[q[i]] = 0) => QueueWeight(w, q) = 0
<1> DEFINE F == [i \in DOMAIN q |-> w[q[i]]]
<1>1. DOMAIN F = DOMAIN q /\ \A i \in DOMAIN q : F[i] = w[q[i]] /\ F[i] \in Nat
  OBVIOUS
<1>2. IsFiniteSet(DOMAIN q)
  <2>1. DOMAIN q = 1 .. Len(q) /\ Len(q) \in Nat
    OBVIOUS
  <2> QED BY <2>1, FS_Interval
<1>3. QueueWeight(w, q) = SumFunction(F)
  BY DEF QueueWeight
<1> HIDE DEF F
<1>4. QueueWeight(w, q) = SumFunctionOnSet(F, DOMAIN q)
  BY <1>1, <1>3 DEF SumFunction
<1>5. PICK f, D : f = F /\ D = DOMAIN q
  OBVIOUS
<1>6. /\ SumFunctionOnSet(f, D) \in Nat
      /\ \A i \in D : f[i] <= SumFunctionOnSet(f, D)
      /\ (\A i \in D : f[i] = 0) => SumFunctionOnSet(f, D) = 0
  <2>1. IsFiniteSet(D) /\ \A i \in D : f[i] \in Nat
    BY <1>1, <1>2, <1>5
  <2> QED BY <2>1, SumOfNaturals
<1> QED BY <1>1, <1>4, <1>5, <1>6
LEMMA NaturalContainer ==
  ASSUME NEW w, \A f \in Frame : w[f] \in Nat, NEW k, k.queues \in [Places -> Seq(Frame)]
  PROVE  /\ Weight(w, k) \in Nat
         /\ \A p \in Places : \A i \in DOMAIN k.queues[p] : w[k.queues[p][i]] <= Weight(w, k)
         /\ (\A p \in Places : \A i \in DOMAIN k.queues[p] : w[k.queues[p][i]] = 0)
              => Weight(w, k) = 0
<1> DEFINE F == [p \in Places |-> QueueWeight(w, k.queues[p])]
<1>1. \A p \in Places : k.queues[p] \in Seq(Frame)
  OBVIOUS
<1>2. \A q \in Seq(Frame) :
        /\ QueueWeight(w, q) \in Nat
        /\ \A i \in DOMAIN q : w[q[i]] <= QueueWeight(w, q)
        /\ (\A i \in DOMAIN q : w[q[i]] = 0) => QueueWeight(w, q) = 0
  BY NaturalQueue
<1>3. DOMAIN F = Places /\ \A p \in Places : F[p] = QueueWeight(w, k.queues[p]) /\ F[p] \in Nat
  BY <1>1, <1>2
<1>4. Weight(w, k) = SumFunction(F)
  BY DEF Weight
<1> HIDE DEF F
<1>5. Weight(w, k) = SumFunctionOnSet(F, Places)
  BY <1>3, <1>4 DEF SumFunction
<1>6. PICK f, P : f = F /\ P = Places
  OBVIOUS
<1>7. /\ SumFunctionOnSet(f, P) \in Nat
      /\ \A p \in P : f[p] <= SumFunctionOnSet(f, P)
      /\ (\A p \in P : f[p] = 0) => SumFunctionOnSet(f, P) = 0
  <2>1. IsFiniteSet(P) /\ \A p \in P : f[p] \in Nat
    BY <1>3, <1>6, PlacesFinite
  <2> QED BY <2>1, SumOfNaturals
<1>8. ASSUME NEW p \in Places, NEW i \in DOMAIN k.queues[p]
      PROVE  w[k.queues[p][i]] <= Weight(w, k)
  <2>1. w[k.queues[p][i]] <= F[p] /\ F[p] <= Weight(w, k)
    BY <1>1, <1>2, <1>3, <1>5, <1>6, <1>7
  <2>2. w[k.queues[p][i]] \in Nat /\ F[p] \in Nat /\ Weight(w, k) \in Nat
    <3>1. k.queues[p][i] \in Frame
      BY <1>1
    <3> QED BY <3>1, <1>3, <1>5, <1>6, <1>7
  <2> QED BY <2>1, <2>2
<1>9. ASSUME \A p \in Places : \A i \in DOMAIN k.queues[p] : w[k.queues[p][i]] = 0
      PROVE  Weight(w, k) = 0
  <2>1. \A p \in Places : F[p] = 0
    BY <1>1, <1>2, <1>3, <1>9
  <2> QED BY <2>1, <1>5, <1>6, <1>7
<1> QED BY <1>5, <1>6, <1>7, <1>8, <1>9

\* What a frame counts of them: something if and only if one of its PDUs does.
LEMMA CountedOfPdus ==
  ASSUME NEW v, \A pdu \in Pdu : v[pdu] \in {0, 1}
  PROVE  /\ Additive(Counted(v))
         /\ \A f \in Frame, pdu \in Pdu : Counted(v)[AddPayload(f, pdu)] = Counted(v)[f] + v[pdu]
         /\ \A f \in Frame : /\ Counted(v)[f] \in Nat
                             /\ Counted(v)[f] # 0 <=> \E i \in DOMAIN f.pdus : v[f.pdus[i]] = 1
<1>1. \A pdu \in Pdu : v[pdu] \in Int /\ v[pdu] \in Nat
  OBVIOUS
<1>2. ASSUME NEW f \in Frame
      PROVE  /\ Counted(v)[f] \in Nat
             /\ Counted(v)[f] # 0 <=> \E i \in DOMAIN f.pdus : v[f.pdus[i]] = 1
  <2>1. f.pdus \in Seq(Pdu) /\ Counted(v)[f] = QueueWeight(v, f.pdus)
    BY DEF Frame, Counted
  <2>2. \A i \in DOMAIN f.pdus : v[f.pdus[i]] \in {0, 1}
    <3>1. \A i \in DOMAIN f.pdus : f.pdus[i] \in Pdu
      BY <2>1
    <3> QED BY <3>1
  <2>3. PICK q : q = f.pdus
    OBVIOUS
  <2>4. /\ QueueWeight(v, q) \in Nat
        /\ \A i \in DOMAIN q : v[q[i]] <= QueueWeight(v, q)
        /\ (\A i \in DOMAIN q : v[q[i]] = 0) => QueueWeight(v, q) = 0
    BY <1>1, <2>1, <2>3, NaturalQueue
  <2>5. (\E i \in DOMAIN q : v[q[i]] = 1) => QueueWeight(v, q) # 0
    BY <2>4
  <2>6. QueueWeight(v, q) # 0 => \E i \in DOMAIN q : v[q[i]] = 1
    BY <2>2, <2>3, <2>4
  <2> QED BY <2>1, <2>3, <2>4, <2>5, <2>6
<1>3. PICK w : w = v
  OBVIOUS
<1>4. /\ Additive(Counted(w))
      /\ \A f \in Frame, pdu \in Pdu : Counted(w)[AddPayload(f, pdu)] = Counted(w)[f] + w[pdu]
  BY <1>1, <1>3, CountedAdditive
<1> QED BY <1>2, <1>3, <1>4

\* That is so of what PDUs tell u, and have for it.
LEMMA PdusOf ==
  ASSUME NEW u
  PROVE  /\ \A pdu \in Pdu : Tells(u)[pdu] \in {0, 1} /\ Serves(u)[pdu] \in {0, 1}
         /\ \A pdu \in Pdu : Tells(u)[pdu] = 1 <=> pdu.conn = Subscriptions /\ pdu.about = u
         /\ \A pdu \in Pdu : Serves(u)[pdu] = 1 <=> pdu.conn.to = u
  BY DEF Tells, Serves

\* Control messages to all are at the place of control messages.
ToldFrames ==
  [p \in Places |-> {f \in Frame : p # Control =>
                                     \A i \in DOMAIN f.pdus : f.pdus[i].conn # Subscriptions}]

\* They stay there.
LEMMA ToldFramesSuit ==
  /\ Suits(ToldFrames)
  /\ \A p \in Places : Open(ToldFrames, p)
<1> DEFINE Others(ps) == \A i \in DOMAIN ps : ps[i].conn # Subscriptions
<1>1. \A p \in Places, f \in Frame : f \in ToldFrames[p] <=> (p # Control => Others(f.pdus))
  BY DEF ToldFrames
<1>2. \A f \in Frame : f.pdus \in Seq(Pdu)
  BY DEF Frame
<1>3. /\ \A ps \in Seq(Pdu), qs \in Seq(Pdu) : Others(ps) /\ Others(qs) => Others(ps \o qs)
      /\ \A ps \in Seq(Pdu), pdu \in Pdu :
           Others(ps) /\ pdu.conn # Subscriptions => Others(Append(ps, pdu))
  <2>1. ASSUME NEW ps \in Seq(Pdu), NEW qs \in Seq(Pdu), Others(ps), Others(qs),
               NEW i \in DOMAIN (ps \o qs)
        PROVE  (ps \o qs)[i].conn # Subscriptions
    <3>1. \/ i \in DOMAIN ps /\ (ps \o qs)[i] = ps[i]
          \/ i - Len(ps) \in DOMAIN qs /\ (ps \o qs)[i] = qs[i - Len(ps)]
      OBVIOUS
    <3> QED BY <2>1, <3>1
  <2>2. ASSUME NEW ps \in Seq(Pdu), NEW pdu \in Pdu, Others(ps), pdu.conn # Subscriptions,
               NEW i \in DOMAIN Append(ps, pdu)
        PROVE  Append(ps, pdu)[i].conn # Subscriptions
    <3>1. (i \in DOMAIN ps /\ Append(ps, pdu)[i] = ps[i]) \/ Append(ps, pdu)[i] = pdu
      OBVIOUS
    <3> QED BY <2>2, <3>1
  <2> QED BY <2>1, <2>2
<1>4. ASSUME NEW p \in Places, NEW m \in Modcods, NEW f \in Frame, NEW g \in Frame,
             f \in ToldFrames[p], g \in ToldFrames[m]
      PROVE  MergeWithFrame(f, g) \in ToldFrames[p]
  <2>1. MergeWithFrame(f, g) \in Frame /\ MergeWithFrame(f, g).pdus = f.pdus \o g.pdus
    BY FrameForms, FrameParts
  <2>2. m # Control /\ m \in Places
    BY PlaceTypes
  <2>3. Others(g.pdus) /\ (p # Control => Others(f.pdus))
    BY <1>1, <1>4, <2>2
  <2> HIDE DEF Others
  <2> QED BY <1>1, <1>2, <1>3, <2>1, <2>3
<1>5. ASSUME NEW p \in Places, NEW f \in Frame, f \in ToldFrames[p]
      PROVE  Shrink(f) \in ToldFrames[p] /\ Extend(f) \in ToldFrames[p]
  <2>1. /\ Shrink(f) \in Frame /\ Shrink(f).pdus = f.pdus
        /\ Extend(f) \in Frame /\ Extend(f).pdus = f.pdus
    BY FrameForms, FrameParts
  <2> QED BY <1>1, <1>5, <2>1
<1>6. ASSUME NEW p \in Places PROVE EmptyFrame(ModcodOf(p), DefaultType(mode)) \in ToldFrames[p]
  <2> DEFINE h == EmptyFrame(ModcodOf(p), DefaultType(mode))
  <2>1. h \in Frame /\ h.pdus = <<>>
    BY PlaceTypes, EmptyFrameType DEF EmptyFrame
  <2>2. Others(<<>>)
    OBVIOUS
  <2> QED BY <1>1, <2>1, <2>2
<1>7. ASSUME NEW p \in Places, NEW f \in Frame, f \in ToldFrames[p], NEW pdu \in Pdu,
             PlaceOf(pdu.conn, pdu.modcod) = p
      PROVE  AddPayload(f, pdu) \in ToldFrames[p]
  <2>1. AddPayload(f, pdu) \in Frame /\ AddPayload(f, pdu).pdus = Append(f.pdus, pdu)
    BY FrameForms, FrameParts
  <2>2. p # Control => pdu.conn # Subscriptions
    BY <1>7 DEF PlaceOf, Subscriptions
  <2>3. p # Control => Others(f.pdus)
    BY <1>1, <1>7
  <2> HIDE DEF Others
  <2> QED BY <1>1, <1>2, <1>3, <2>1, <2>2, <2>3
<1>8. Suits(ToldFrames)
  BY <1>4, <1>5 DEF Suits, ClosedUnderMerge, ClosedUnderShrink
<1>9. \A p \in Places : Open(ToldFrames, p)
  BY <1>5, <1>6, <1>7 DEF Open
<1> QED BY <1>8, <1>9

\* Where control messages are waiting for a turn, no frame has one.
LEMMA NothingToTell ==
  ASSUME NEW k \in Containers(ToldFrames), IsEmpty(k, Control), NEW u
  PROVE  Weight(Counted(Tells(u)), k) = 0
<1>1. k.queues \in [Places -> Seq(Frame)] /\ \A p \in Places : k.queues[p] \in Seq(ToldFrames[p])
  BY DEF Containers
<1>2. PICK w : w = Counted(Tells(u))
  OBVIOUS
<1>3. \A f \in Frame : /\ w[f] \in Nat
                       /\ w[f] # 0 <=> \E i \in DOMAIN f.pdus : Tells(u)[f.pdus[i]] = 1
  BY <1>2, PdusOf, CountedOfPdus
<1>4. ASSUME NEW p \in Places, NEW i \in DOMAIN k.queues[p] PROVE w[k.queues[p][i]] = 0
  <2>1. PICK f : f = k.queues[p][i]
    OBVIOUS
  <2>2. f \in Frame /\ f \in ToldFrames[p] /\ p # Control
    <3>1. f \in Frame /\ f \in ToldFrames[p]
      BY <1>1, <2>1
    <3>2. DOMAIN k.queues[Control] = {}
      BY DEF IsEmpty
    <3> QED BY <3>1, <3>2
  <2>3. \A j \in DOMAIN f.pdus : f.pdus[j] \in Pdu /\ f.pdus[j].conn # Subscriptions
    BY <2>2 DEF ToldFrames, Frame
  <2> QED BY <1>3, <2>1, <2>2, <2>3, PdusOf
<1>5. Weight(w, k) = 0
  BY <1>1, <1>3, <1>4, NaturalContainer
<1> QED BY <1>2, <1>5

\* UT u was told of its slice, or a frame that goes before all others tells it.
Announced(u) ==
  u \in subscribed \/ Weight(Counted(Tells(u)), m_bbFrameContainers[0]) # 0

\* A UT with a slice is told of it, or will be.
Assigned(u) == m_slicesMapping[u] # Unknown => Announced(u) \/ u \in ToBeTold

\* A UT with data in its slice is told before.
Served(u) ==
  \A s \in Slices \ {0} : Weight(Counted(Serves(u)), m_bbFrameContainers[s]) # 0 => Announced(u)

\* While the message to u waits, no round that goes on gets past control messages.
Before(u) ==
  u \in ToBeTold =>
    /\ round.phase = "objects" => Subscriptions \in round.objects \/ ~ RoundGoesOn
    /\ round.phase = "filling" => /\ round.conn.flow = 0
                                  /\ round.conn = Subscriptions \/ Subscriptions \in round.objects
    /\ round.phase # "merging"

InTime(u) == Assigned(u) /\ (u \notin overtaken => Served(u) /\ Before(u))
SliceInv ==
  /\ SlicesKnown
  /\ fatal = None => \A u \in Ut : InTime(u)

\* What such weights are.
LEMMA UtWeights ==
  ASSUME NEW G, NEW k \in Containers(G), NEW u
  PROVE  /\ Additive(Counted(Tells(u))) /\ Additive(Counted(Serves(u)))
         /\ Weight(Counted(Tells(u)), k) \in Nat /\ Weight(Counted(Serves(u)), k) \in Nat
         /\ \A f \in Frame : Counted(Tells(u))[f] \in Nat /\ Counted(Serves(u))[f] \in Nat
<1>1. k.queues \in [Places -> Seq(Frame)]
  BY DEF Containers
<1>2. \A v : (\A pdu \in Pdu : v[pdu] \in {0, 1}) =>
        /\ Additive(Counted(v)) /\ Weight(Counted(v), k) \in Nat
        /\ \A f \in Frame : Counted(v)[f] \in Nat
  <2>1. ASSUME NEW v, \A pdu \in Pdu : v[pdu] \in {0, 1}
        PROVE  /\ Additive(Counted(v)) /\ Weight(Counted(v), k) \in Nat
               /\ \A f \in Frame : Counted(v)[f] \in Nat
    <3>1. Additive(Counted(v)) /\ \A f \in Frame : Counted(v)[f] \in Nat
      BY <2>1, CountedOfPdus
    <3>2. PICK w : w = Counted(v)
      OBVIOUS
    <3>3. Weight(w, k) \in Nat
      BY <1>1, <3>1, <3>2, NaturalContainer
    <3> QED BY <3>1, <3>2, <3>3
  <2> QED BY <2>1
<1> QED BY <1>2, PdusOf

\* A step that leaves frames and slices alone, and no message behind.
LEMMA QuietStep ==
  ASSUME NEW u, InTime(u), UNCHANGED Untouched, ToBeTold \subseteq ToBeTold', Before(u)'
  PROVE  InTime(u)'
<1>1. UNCHANGED <<m_numberOfSlices, m_bbFrameContainers, m_slicesMapping, subscribed, overtaken>>
  BY DEF Untouched, configVars, sliceVars, frameVars
<1>2. (Announced(u)' <=> Announced(u)) /\ Slices' = Slices
  BY <1>1 DEF Announced, Slices
<1>3. Assigned(u)'
  BY <1>1, <1>2 DEF InTime, Assigned
<1>4. Served(u) => Served(u)'
  BY <1>1, <1>2 DEF Served
<1> QED BY <1>1, <1>3, <1>4 DEF InTime

\* A step outside of a round.
LEMMA OutsideStep ==
  ASSUME NEW u \in Ut, InTime(u), LinkType,
         \/ \E c \in Connections, n \in PacketSizes \cup ControlSizes : Enque(c, n)
         \/ \E c \in Connections : ReceiveAck(c)
         \/ \E v \in Ut, m \in Modcods : CnoInfoUpdated(v, m)
  PROVE  InTime(u)'
<1>1. UNCHANGED Untouched /\ round' = Idle
  BY DEF Enque, ReceiveAck, CnoInfoUpdated, Untouched
<1>2. Before(u)'
  BY <1>1 DEF Before, Idle
<1>3. ToBeTold \subseteq ToBeTold'
  <2>1. CASE UNCHANGED buffer
    BY <2>1 DEF ToBeTold
  <2>2. ASSUME NEW c \in Connections, NEW n, Enque(c, n)
        PROVE  ToBeTold \subseteq ToBeTold'
    <3> DEFINE b == buffer[Subscriptions]
    <3>1. b \in Seq(Packet) /\ buffer \in [Connections -> Seq(Packet)] /\ Subscriptions \in Connections
      BY ForwardLinkAssumption DEF LinkType
    <3>2. \A i \in DOMAIN b : i \in DOMAIN buffer'[Subscriptions] /\ buffer'[Subscriptions][i] = b[i]
      <4>1. \A e : \A i \in DOMAIN b : i \in DOMAIN Append(b, e) /\ Append(b, e)[i] = b[i]
        BY <3>1
      <4> QED BY <2>2, <3>1, <4>1 DEF Enque
    <3> QED BY <3>2 DEF ToBeTold
  <2>3. (\E c \in Connections, n \in PacketSizes \cup ControlSizes : Enque(c, n)) \/ UNCHANGED buffer
    BY DEF ReceiveAck, CnoInfoUpdated, llcVars
  <2> QED BY <2>1, <2>2, <2>3
<1> QED BY <1>1, <1>2, <1>3, QuietStep

\* What waits.
LEMMA Waiting ==
  ASSUME NEW u \in ToBeTold
  PROVE  buffer[Subscriptions] # <<>> /\ (RoundGoesOn => Subscriptions \in SchedulingObjects)
<1>1. buffer[Subscriptions] # <<>>
  BY DEF ToBeTold
<1> QED BY <1>1, ForwardLinkAssumption DEF SchedulingObjects

\* An event that begins a round, or goes on to send.
LEMMA BeginStep ==
  ASSUME NEW u \in Ut, InTime(u), LinkType, RunRescheduled \/ PeriodicTimerExpired \/ StartTransmission
  PROVE  InTime(u)'
<1>1. UNCHANGED Untouched /\ UNCHANGED buffer
      /\ round' \in {Round("idle"), Round("send"), [phase |-> "send"]}
  BY DEF RunRescheduled, PeriodicTimerExpired, StartTransmission, Untouched, llcVars
<1>2. ToBeTold' = ToBeTold /\ (RoundGoesOn' <=> RoundGoesOn)
  BY <1>1 DEF ToBeTold, RoundGoesOn, GetTotalDuration, SumOver, TimeSlicing, Untouched, configVars
<1>3. Before(u)'
  <2>1. CASE round' = [phase |-> "send"]
    BY <2>1 DEF Before
  <2>2. CASE round' \in {Round("idle"), Round("send")}
    <3>1. round'.phase = "objects" /\ round'.objects = SchedulingObjects
      BY <2>2 DEF Round
    <3> QED BY <1>2, <3>1, Waiting DEF Before
  <2> QED BY <1>1, <2>1, <2>2
<1> QED BY <1>1, <1>2, <1>3, QuietStep

\* The next object: control messages to all are first.
LEMMA ObjectStep ==
  ASSUME NEW u \in Ut, InTime(u), LinkType, NextObject
  PROVE  InTime(u)'
<1>1. /\ UNCHANGED <<configVars, m_bbFrameContainers, frameVars>> /\ round.phase = "objects"
      /\ round.objects \in SUBSET Connections
  BY RoundForms DEF LinkType, NextObject
<1>2. EndOfRound.phase \in {"send", "idle"}
  BY DEF EndOfRound, Idle
<1>3. Subscriptions \in Connections /\ buffer \in [Connections -> Seq(Packet)]
      /\ \A c \in Connections : c.to \in Ut \cup {Broadcast} /\ c.flow \in Nat
  BY ForwardLinkAssumption DEF LinkType
<1>4. CASE round' = EndOfRound /\ UNCHANGED <<buffer, sliceVars, rescheduled>>
  <2>1. Before(u)' /\ ToBeTold' = ToBeTold /\ UNCHANGED Untouched
    BY <1>1, <1>2, <1>4 DEF Before, ToBeTold, Untouched
  <2> QED BY <2>1, QuietStep
<1>5. ASSUME NEW c \in FirstObjects, NeedsSlice(c), AssignSlice(c)
      PROVE  InTime(u)'
  <2>1. Before(u)'
    BY <1>2, <1>5 DEF AssignSlice, Before
  <2> DEFINE b == buffer[Subscriptions]
             e == [n |-> 1, about |-> c.to]
  <2>2. b \in Seq(Packet) /\ buffer'[Subscriptions] = Append(b, e)
    BY <1>3, <1>5 DEF AssignSlice
  <2>3. c \in Connections /\ c.to \in Ut
    BY <1>1, <1>3, <1>5 DEF FirstObjects, NeedsSlice
  <2>4. ToBeTold \subseteq ToBeTold'
    <3>1. \A i \in DOMAIN b : i \in DOMAIN Append(b, e) /\ Append(b, e)[i] = b[i]
      BY <2>2
    <3> QED BY <2>2, <3>1 DEF ToBeTold
  <2>5. c.to \in ToBeTold'
    <3>1. Len(b) + 1 \in DOMAIN Append(b, e) /\ Append(b, e)[Len(b) + 1] = e
      BY <2>2
    <3> QED BY <2>2, <2>3, <3>1 DEF ToBeTold
  <2>6. m_slicesMapping' = [m_slicesMapping EXCEPT ![c.to] = m_lastSliceAssigned]
        /\ m_slicesMapping \in [Ut -> Slices]
    BY <1>5 DEF AssignSlice, LinkType
  <2>7. (Announced(u)' <=> Announced(u)) /\ Slices' = Slices /\ overtaken' = overtaken
    BY <1>1 DEF Announced, Slices, configVars, frameVars
  <2>8. Assigned(u)'
    BY <2>4, <2>5, <2>6, <2>7 DEF InTime, Assigned
  <2>9. Served(u) => Served(u)'
    BY <1>1, <2>7 DEF Served
  <2> QED BY <2>1, <2>7, <2>8, <2>9 DEF InTime
<1>6. ASSUME NEW c \in FirstObjects, OpenObject(c), UNCHANGED <<buffer, sliceVars, rescheduled>>,
             RoundGoesOn
      PROVE  InTime(u)'
  <2>1. UNCHANGED Untouched /\ ToBeTold' = ToBeTold /\ overtaken' = overtaken
    BY <1>1, <1>6 DEF Untouched, ToBeTold, frameVars
  <2>2. c \in round.objects /\ c.flow \in Nat /\ \A d \in round.objects : c.flow <= d.flow
    BY <1>1, <1>3, <1>6 DEF FirstObjects
  <2>3. ASSUME u \in ToBeTold, Before(u) PROVE Before(u)'
    <3>1. Subscriptions \in round.objects
      BY <1>1, <1>6, <2>3 DEF Before
    <3>2. c.flow = 0
      BY <2>2, <3>1 DEF Subscriptions
    <3>3. CanOpenBbFrame(c, GetModcod(c))
      BY <3>2 DEF CanOpenBbFrame
    <3>4. /\ round'.phase = "filling" /\ round'.conn = c
          /\ round'.objects = round.objects \ {c}
      BY <1>6, <3>3 DEF OpenObject
    <3> QED BY <2>1, <3>1, <3>2, <3>4 DEF Before
  <2>4. u \notin ToBeTold => Before(u)'
    BY <2>1 DEF Before
  <2>5. CASE u \notin overtaken
    BY <1>6, <2>1, <2>3, <2>4, <2>5, QuietStep DEF InTime
  <2>6. CASE u \in overtaken
    <3>1. Announced(u)' <=> Announced(u)
      BY <1>1 DEF Announced, frameVars
    <3> QED BY <1>6, <2>1, <2>6, <3>1 DEF InTime, Assigned, sliceVars
  <2> QED BY <2>5, <2>6
<1>7. \/ round' = EndOfRound /\ UNCHANGED <<buffer, sliceVars, rescheduled>>
      \/ RoundGoesOn /\ \E c \in FirstObjects :
           \/ NeedsSlice(c) /\ AssignSlice(c)
           \/ OpenObject(c) /\ UNCHANGED <<buffer, sliceVars, rescheduled>>
  BY Zenon DEF NextObject
<1> QED BY <1>4, <1>5, <1>6, <1>7

\* What an opportunity makes of the round, and whether it leaves the object.
LEMMA OpportunityRound ==
  ASSUME LinkType, TxOpportunity, fatal' = None
  PROVE  /\ round'.phase \in {"filling", "merging"}
         /\ round'.phase = "filling" => round'.conn = round.conn /\ round'.objects = round.objects
         /\ round'.phase = "merging" => round.conn.flow # 0
<1>1. round \in [phase : {"filling"}, objects : SUBSET Connections, next : {"idle", "send"},
                 conn : Connections, modcod : Modcods, bytes : Int]
  BY RoundForms DEF LinkType, TxOpportunity
<1>2. \/ round' = LeaveObject /\ ~ CanOpenBbFrame(round.conn, round.modcod)
      \/ round' = round
      \/ \E b : round' = [round EXCEPT !.bytes = b]
  <2>1. "CONTROL_TOO_LONG" # None /\ "PACKET_TOO_LONG" # None /\ "DATA_CANNOT_BE_ADDED" # None
        /\ "READS_NO_FRAME" # None
    BY DEF None
  <2>2. CASE TryAgain
    BY <2>1, <2>2 DEF TryAgain
  <2>3. ASSUME NEW pdu, AddData(pdu) PROVE \E b : round' = [round EXCEPT !.bytes = b]
    BY <2>1, <2>3 DEF AddData
  <2>4. \/ round' = LeaveObject /\ ~ CanOpenBbFrame(round.conn, round.modcod)
        \/ fatal' = "CONTROL_TOO_LONG"
        \/ TryAgain
        \/ \E pdu \in PduFor(round.conn, OpportunityBytes) : AddData(pdu)
    BY Zenon DEF TxOpportunity
  <2> QED BY <2>1, <2>2, <2>3, <2>4
<1>3. LeaveObject.phase = "merging"
  BY DEF LeaveObject
<1>4. ~ CanOpenBbFrame(round.conn, round.modcod) => round.conn.flow # 0
  BY DEF CanOpenBbFrame
<1> QED BY <1>1, <1>2, <1>3, <1>4

\* An opportunity: a message that leaves the buffer is in a frame of control
\* messages, and no data is added for a UT whose message waits.
LEMMA OpportunityStep ==
  ASSUME NEW u \in Ut, InTime(u), LinkInv(ToldFrames), TxOpportunity, fatal' = None
  PROVE  InTime(u)'
<1>1. /\ LinkType /\ Contained(ToldFrames) /\ round.phase = "filling"
      /\ m_bbFrameContainers \in [Slices -> Containers(ToldFrames)] /\ 0 \in Slices
  BY DEF LinkInv, TxOpportunity, Contained, LinkType, Slices
<1>2. /\ round.conn \in Connections /\ buffer \in [Connections -> Seq(Packet)]
      /\ PlaceFilled \in Places /\ Subscriptions \in Connections
  BY <1>1, RoundForms, PlaceTaken, ForwardLinkAssumption DEF LinkType, PlaceFilled
<1>3. UNCHANGED <<configVars, sliceVars, frameVars>> /\ Slices' = Slices
  BY DEF TxOpportunity, Slices, configVars
<1>4. /\ round'.phase \in {"filling", "merging"}
      /\ round'.phase = "filling" => round'.conn = round.conn /\ round'.objects = round.objects
      /\ round'.phase = "merging" => round.conn.flow # 0
  BY <1>1, OpportunityRound
<1>5. ASSUME ToBeTold' \subseteq ToBeTold, Before(u) PROVE Before(u)'
  BY <1>1, <1>4, <1>5 DEF Before
<1>6. CASE UNCHANGED <<buffer, m_bbFrameContainers>>
  <2>1. ToBeTold' = ToBeTold /\ (Announced(u)' <=> Announced(u))
    BY <1>3, <1>6 DEF ToBeTold, Announced, frameVars
  <2> QED BY <1>3, <1>5, <1>6, <2>1 DEF InTime, Assigned, Served, sliceVars, frameVars
<1>7. ASSUME NEW s \in Slices, NEW x \in Containers(ToldFrames), NEW pdu \in Pdu, NEW f \in Frame,
             Added(ToldFrames, s, x, pdu, f)
      PROVE  InTime(u)'
  <2> DEFINE y == m_bbFrameContainers[s]
             t == Counted(Tells(u))
             v == Counted(Serves(u))
  <2>1. /\ m_bbFrameContainers' = [m_bbFrameContainers EXCEPT ![s] = x]
        /\ s = ContainerFor(round.conn) /\ pdu.conn = round.conn
        /\ buffer[round.conn] # <<>> /\ pdu.about = Head(buffer[round.conn]).about
        /\ ~ IsCut(round.conn) => Taken(pdu) = Head(buffer[round.conn]).n
        /\ buffer' = [buffer EXCEPT ![pdu.conn] = AfterPdu(buffer[pdu.conn], pdu)]
    BY <1>7 DEF Added
  <2>2. /\ m_bbFrameContainers'[s] = x
        /\ \A r \in Slices \ {s} : m_bbFrameContainers'[r] = m_bbFrameContainers[r]
    BY <1>1, <2>1
  <2>3. /\ Weight(t, y) \in Nat /\ Weight(t, x) = Weight(t, y) + Tells(u)[pdu]
        /\ Weight(v, y) \in Nat /\ Weight(v, x) = Weight(v, y) + Serves(u)[pdu]
        /\ Tells(u)[pdu] \in {0, 1} /\ Serves(u)[pdu] \in {0, 1}
    <3>1. /\ y \in Containers(ToldFrames)
          /\ Additive(t) /\ Additive(v)
          /\ Weight(t, y) \in Nat /\ Weight(v, y) \in Nat
          /\ t[f] \in Nat /\ v[f] \in Nat
      BY <1>1, UtWeights
    <3>2. /\ t[AddPayload(f, pdu)] = t[f] + Tells(u)[pdu]
          /\ v[AddPayload(f, pdu)] = v[f] + Serves(u)[pdu]
      BY PdusOf, CountedOfPdus
    <3>3. Tells(u)[pdu] \in {0, 1} /\ Serves(u)[pdu] \in {0, 1}
      BY PdusOf
    <3>4. /\ Weight(t, x) = Weight(t, y) - t[f] + t[AddPayload(f, pdu)]
          /\ Weight(v, x) = Weight(v, y) - v[f] + v[AddPayload(f, pdu)]
      BY <1>7, <3>1 DEF Added
    <3> HIDE DEF t, v, y
    <3> QED BY <3>1, <3>2, <3>3, <3>4
  <2>4. Announced(u) => Announced(u)'
    <3>1. subscribed' = subscribed
      BY <1>3 DEF frameVars
    <3>2. Weight(t, m_bbFrameContainers[0]) # 0 => Weight(t, m_bbFrameContainers'[0]) # 0
      <4>1. CASE s = 0
        BY <2>2, <2>3, <4>1
      <4>2. CASE s # 0
        BY <1>1, <2>2, <4>2
      <4> QED BY <4>1, <4>2
    <3> QED BY <3>1, <3>2 DEF Announced
  <2>5. /\ ToBeTold' \subseteq ToBeTold
        /\ u \in ToBeTold => u \in ToBeTold' \/ Announced(u)'
    <3>1. CASE round.conn # Subscriptions
      BY <1>2, <2>1, <3>1 DEF ToBeTold
    <3>2. CASE round.conn = Subscriptions
      <4> DEFINE b == buffer[Subscriptions]
      <4>1. /\ b \in Seq(Packet) /\ b # <<>> /\ pdu.about = Head(b).about
            /\ buffer'[Subscriptions] = Tail(b)
        BY <1>2, <2>1, <3>2 DEF IsCut, AfterPdu
      <4>2. /\ \A i \in DOMAIN Tail(b) : i + 1 \in DOMAIN b /\ Tail(b)[i] = b[i + 1]
            /\ \A i \in DOMAIN b : b[i] = Head(b) \/ (i - 1 \in DOMAIN Tail(b) /\ b[i] = Tail(b)[i - 1])
        <5>1. PICK q : q = b
          OBVIOUS
        <5>2. q \in Seq(Packet) /\ q # <<>>
          BY <4>1, <5>1
        <5> HIDE DEF b
        <5>3. /\ Len(q) \in Nat \ {0} /\ DOMAIN q = 1 .. Len(q)
              /\ Tail(q) \in Seq(Packet) /\ Len(Tail(q)) = Len(q) - 1 /\ Head(q) = q[1]
              /\ \A i \in 1 .. Len(q) - 1 : Tail(q)[i] = q[i + 1]
          BY <5>2
        <5>6. DOMAIN Tail(q) = 1 .. Len(q) - 1
          BY <5>3
        <5>4. \A i \in DOMAIN Tail(q) : i + 1 \in DOMAIN q /\ Tail(q)[i] = q[i + 1]
          BY <5>3, <5>6
        <5>5. ASSUME NEW i \in DOMAIN q
              PROVE  q[i] = Head(q) \/ (i - 1 \in DOMAIN Tail(q) /\ q[i] = Tail(q)[i - 1])
          <6>1. CASE i = 1
            BY <5>3, <6>1
          <6>2. CASE i # 1
            <7>1. i - 1 \in 1 .. Len(q) - 1 /\ (i - 1) + 1 = i
              BY <5>3, <6>2
            <7> QED BY <5>3, <5>6, <7>1
          <6> QED BY <6>1, <6>2
        <5> QED BY <5>1, <5>4, <5>5
      <4>3. ToBeTold' \subseteq ToBeTold
        BY <4>1, <4>2 DEF ToBeTold
      <4>4. ASSUME u \in ToBeTold, pdu.about # u PROVE u \in ToBeTold'
        <5>1. PICK i \in DOMAIN b : b[i].about = u
          BY <4>4 DEF ToBeTold
        <5>2. i - 1 \in DOMAIN Tail(b) /\ b[i] = Tail(b)[i - 1]
          BY <4>1, <4>2, <4>4, <5>1
        <5>3. buffer'[Subscriptions][i - 1].about = u
          BY <4>1, <5>1, <5>2
        <5> QED BY <4>1, <5>2, <5>3 DEF ToBeTold
      <4>5. ASSUME pdu.about = u PROVE Announced(u)'
        <5>1. Tells(u)[pdu] = 1
          BY <2>1, <3>2, <4>5, PdusOf
        <5>2. s = 0
          BY <2>1, <3>2 DEF ContainerFor, Subscriptions
        <5>3. Weight(t, m_bbFrameContainers'[0]) # 0
          BY <2>2, <2>3, <5>1, <5>2
        <5> QED BY <5>3 DEF Announced
      <4> QED BY <4>3, <4>4, <4>5
    <3> QED BY <3>1, <3>2
  <2>6. Assigned(u)'
    BY <1>3, <2>4, <2>5 DEF InTime, Assigned, sliceVars
  <2>7. ASSUME Served(u), Before(u), NEW r \in Slices \ {0},
               Weight(v, m_bbFrameContainers'[r]) # 0
        PROVE  Announced(u)
    <3>1. CASE r # s \/ Serves(u)[pdu] = 0
      <4>1. Weight(v, m_bbFrameContainers[r]) # 0
        BY <2>2, <2>3, <2>7, <3>1
      <4> QED BY <2>7, <4>1 DEF Served
    <3>2. CASE r = s /\ Serves(u)[pdu] = 1
      <4>1. round.conn.to = u /\ round.conn.flow # 0 /\ SliceOf(round.conn) # 0
        BY <2>1, <2>7, <3>2, PdusOf DEF ContainerFor
      <4>2. m_slicesMapping[u] # Unknown
        BY <4>1 DEF SliceOf, Unknown
      <4>3. u \notin ToBeTold
        BY <1>1, <2>7, <4>1 DEF Before
      <4> QED BY <4>2, <4>3 DEF InTime, Assigned
    <3> QED BY <2>3, <3>1, <3>2
  <2>8. Served(u) /\ Before(u) => Served(u)'
    BY <1>3, <2>4, <2>7 DEF Served
  <2>9. Before(u) => Before(u)'
    BY <1>5, <2>5
  <2> QED BY <1>3, <2>6, <2>8, <2>9 DEF InTime, frameVars
<1>8. \/ UNCHANGED <<buffer, m_bbFrameContainers>>
      \/ \E s \in Slices, x \in Containers(ToldFrames), p \in Pdu, f \in Frame :
           Added(ToldFrames, s, x, p, f)
  BY <1>2, ToldFramesSuit, TxOpportunityEffect
<1> QED BY <1>6, <1>7, <1>8

\* Merging: what waits when it makes the round go on is overtaken.
LEMMA MergingStep ==
  ASSUME NEW u \in Ut, InTime(u), LinkInv(ToldFrames), MergeFrames
  PROVE  InTime(u)' /\ overtaken \subseteq overtaken'
<1>1. /\ LinkType /\ m_bbFrameContainers \in [Slices -> Containers(ToldFrames)] /\ 0 \in Slices
  BY DEF LinkInv, Contained, LinkType, Slices
<1>2. /\ UNCHANGED <<configVars, llcVars, sliceVars, subscribed>>
      /\ round'.phase = "objects" /\ round'.objects = round.objects
      /\ round.phase = "merging" \/ (round.phase = "filling" /\ ~ ObjectGoesOn)
      /\ overtaken' = IF round.conn = Subscriptions /\ RoundGoesOn'
                      THEN overtaken \cup ToBeTold ELSE overtaken
  BY DEF MergeFrames
<1>3. ToBeTold' = ToBeTold /\ Slices' = Slices
  BY <1>2 DEF ToBeTold, llcVars, Slices, configVars
<1>4. PICK s \in Slices, x \in Containers(ToldFrames) :
        /\ m_bbFrameContainers' = [m_bbFrameContainers EXCEPT ![s] = x]
        /\ Keeps(ToldFrames, m_bbFrameContainers[s], x)
  BY ToldFramesSuit, MergeFramesEffect
<1>5. ASSUME NEW r \in Slices
      PROVE  /\ Weight(Counted(Tells(u)), m_bbFrameContainers'[r])
                  = Weight(Counted(Tells(u)), m_bbFrameContainers[r])
             /\ Weight(Counted(Serves(u)), m_bbFrameContainers'[r])
                  = Weight(Counted(Serves(u)), m_bbFrameContainers[r])
  <2>1. Additive(Counted(Tells(u))) /\ Additive(Counted(Serves(u)))
    BY <1>1, UtWeights
  <2>2. CASE r = s
    BY <1>1, <1>4, <2>1, <2>2 DEF Keeps
  <2>3. CASE r # s
    BY <1>1, <1>4, <2>3
  <2> QED BY <2>2, <2>3
<1>6. Announced(u)' <=> Announced(u)
  BY <1>1, <1>2, <1>5 DEF Announced
<1>7. Assigned(u)' /\ (Served(u) => Served(u)')
  BY <1>2, <1>3, <1>5, <1>6 DEF InTime, Assigned, Served, sliceVars
<1>8. ASSUME Before(u), u \in ToBeTold, u \notin overtaken'
      PROVE  Subscriptions \in round'.objects \/ ~ RoundGoesOn'
  <2>1. round.phase = "filling" /\ (round.conn = Subscriptions \/ Subscriptions \in round.objects)
    BY <1>2, <1>8 DEF Before
  <2> QED BY <1>2, <1>8, <2>1
<1>9. Before(u) /\ u \notin overtaken' => Before(u)'
  BY <1>2, <1>3, <1>8 DEF Before
<1> QED BY <1>2, <1>7, <1>9 DEF InTime

\* The effect of sending the first frame of a queue of a container.
LEMMA FirstFrameLeaves ==
  ASSUME NEW G, NEW k \in Containers(G), NEW p \in Places, ~ IsEmpty(k, p),
         NEW f, f = Head(k.queues[p]), NEW x, x = WithoutHead(k, p)
  PROVE  x \in Containers(G) /\ f \in Frame /\ Loses(x, k, f)
<1>1. PICK h, q : h = f /\ q = Tail(k.queues[p])
  OBVIOUS
<1>2. Becomes(x, k, p, q, k.totalDuration - FrameDuration(h))
  BY <1>1 DEF Becomes, WithoutHead
<1>3. \/ q = Front(k.queues[p]) /\ h = Last(k.queues[p])
      \/ q = Tail(k.queues[p]) /\ h = Head(k.queues[p])
  BY <1>1
<1>4. x \in Containers(G) /\ h \in Frame /\ Loses(x, k, h)
  BY <1>2, <1>3, WithoutFrameFacts
<1> QED BY <1>1, <1>4

\* A frame sent: a message that leaves the frames is told, and no frame of a
\* slice is sent while a message is in one.
LEMMA SendingStep ==
  ASSUME \A u \in Ut : InTime(u), LinkInv(ToldFrames), SendFrame
  PROVE  /\ \A u \in Ut : InTime(u)'
         /\ missed \subseteq overtaken => missed' \subseteq overtaken'
<1>1. /\ LinkType /\ m_bbFrameContainers \in [Slices -> Containers(ToldFrames)] /\ 0 \in Slices
  BY DEF LinkInv, Contained, LinkType, Slices
<1>2. UNCHANGED <<configVars, llcVars, sliceVars>> /\ round' = Idle
  BY DEF SendFrame
<1>3. \A u : Before(u)'
  BY <1>2 DEF Before, Idle
<1>4. ToBeTold' = ToBeTold /\ Slices' = Slices
  BY <1>2 DEF ToBeTold, llcVars, Slices, configVars
<1>5. CASE UNCHANGED <<m_bbFrameContainers, frameVars>>
  <2>1. UNCHANGED Untouched
    BY <1>2, <1>5 DEF Untouched
  <2>2. \A u \in Ut : InTime(u)'
    BY <1>3, <1>4, <2>1, QuietStep
  <2> QED BY <1>5, <2>2 DEF frameVars
<1>6. ASSUME NEW s \in NextSlices, NEW p \in NextFramePlaces(m_bbFrameContainers[s]),
             NEW f, f = Head(m_bbFrameContainers[s].queues[p]),
             m_bbFrameContainers' = [m_bbFrameContainers EXCEPT ![s] = WithoutHead(@, p)],
             subscribed' = subscribed \cup Told(f), missed' = missed \cup Unheard(f, s),
             overtaken' = overtaken
      PROVE  /\ \A u \in Ut : InTime(u)'
             /\ missed \subseteq overtaken => missed' \subseteq overtaken'
  <2> DEFINE k == m_bbFrameContainers[s]
  <2>1. s \in Slices /\ k \in Containers(ToldFrames) /\ p \in Places /\ ~ IsEmpty(k, p)
    BY <1>1, NextSliceType, PlaceTypes DEF NextFramePlaces, NonEmptyPlaces
  <2>2. PICK x : x = WithoutHead(k, p)
    OBVIOUS
  <2>3. /\ m_bbFrameContainers'[s] = x
        /\ \A r \in Slices \ {s} : m_bbFrameContainers'[r] = m_bbFrameContainers[r]
    BY <1>1, <1>6, <2>1, <2>2
  <2>4. /\ x \in Containers(ToldFrames) /\ f \in Frame
        /\ \A w : Weighs(w) => Weight(w, x) = Weight(w, k) - w[f]
    BY <1>6, <2>1, <2>2, FirstFrameLeaves DEF Loses
  <2>5. \A i \in DOMAIN f.pdus : f.pdus[i] \in Pdu
    BY <2>4 DEF Frame
  <2> HIDE DEF k
  <2>6. ASSUME NEW u \in Ut
        PROVE  LET t == Counted(Tells(u))
                   v == Counted(Serves(u))
               IN /\ Weight(t, x) = Weight(t, k) - t[f] /\ Weight(v, x) = Weight(v, k) - v[f]
                  /\ Weight(t, k) \in Nat /\ Weight(v, k) \in Nat
                  /\ Weight(t, x) \in Nat /\ Weight(v, x) \in Nat
                  /\ t[f] \in Nat /\ v[f] \in Nat
    <3>1. /\ Additive(Counted(Tells(u))) /\ Additive(Counted(Serves(u)))
          /\ Weight(Counted(Tells(u)), k) \in Nat /\ Weight(Counted(Serves(u)), k) \in Nat
          /\ Weight(Counted(Tells(u)), x) \in Nat /\ Weight(Counted(Serves(u)), x) \in Nat
          /\ Counted(Tells(u))[f] \in Nat /\ Counted(Serves(u))[f] \in Nat
      BY <2>1, <2>4, UtWeights
    <3> QED BY <2>4, <3>1 DEF Additive
  <2>7. ASSUME NEW u \in Ut, Announced(u) PROVE Announced(u)'
    <3> DEFINE t == Counted(Tells(u))
    <3>1. CASE s # 0 \/ t[f] = 0
      <4>1. Weight(t, m_bbFrameContainers'[0]) = Weight(t, m_bbFrameContainers[0])
        BY <1>1, <2>3, <2>6, <3>1 DEF k
      <4> QED BY <1>6, <2>7, <4>1 DEF Announced
    <3>2. CASE t[f] # 0
      <4>1. PICK i \in DOMAIN f.pdus : Tells(u)[f.pdus[i]] = 1
        BY <2>4, <3>2, PdusOf, CountedOfPdus
      <4>2. f.pdus[i].about = u
        BY <2>5, <4>1, PdusOf
      <4>3. u \in Told(f)
        BY <4>2 DEF Told
      <4> QED BY <1>6, <4>3 DEF Announced
    <3> QED BY <3>1, <3>2
  <2>8. ASSUME NEW u \in Ut PROVE InTime(u)'
    <3>1. Assigned(u)'
      BY <1>2, <1>4, <2>7 DEF InTime, Assigned, sliceVars
    <3>2. ASSUME Served(u), NEW r \in Slices \ {0},
                 Weight(Counted(Serves(u)), m_bbFrameContainers'[r]) # 0
          PROVE  Announced(u)
      <4>1. Weight(Counted(Serves(u)), m_bbFrameContainers[r]) # 0
        BY <2>3, <2>6, <3>2 DEF k
      <4> QED BY <3>2, <4>1 DEF Served
    <3>3. Served(u) => Served(u)'
      BY <1>4, <2>7, <3>2 DEF Served
    <3> QED BY <1>3, <1>6, <3>1, <3>3 DEF InTime
  <2>9. ASSUME NEW u \in Unheard(f, s), u \notin overtaken PROVE FALSE
    <3>1. s # 0 /\ u \in Ut \ subscribed
      BY <2>9 DEF Unheard
    <3>2. PICK i \in DOMAIN f.pdus : f.pdus[i].conn.to = u
      BY <2>9, <3>1 DEF Unheard
    <3>3. Counted(Serves(u))[f] # 0
      <4>1. Serves(u)[f.pdus[i]] = 1
        BY <2>5, <3>2, PdusOf
      <4> QED BY <2>4, <3>2, <4>1, PdusOf, CountedOfPdus
    <3>4. Weight(Counted(Serves(u)), k) # 0
      BY <2>6, <3>1, <3>3
    <3>5. Announced(u)
      BY <2>1, <2>9, <3>1, <3>4 DEF InTime, Served, k
    <3>6. IsEmpty(m_bbFrameContainers[0], Control)
      BY <3>1 DEF NextSlices
    <3>7. Weight(Counted(Tells(u)), m_bbFrameContainers[0]) = 0
      BY <1>1, <3>6, NothingToTell
    <3> QED BY <3>1, <3>5, <3>7 DEF Announced
  <2> QED BY <1>6, <2>8, <2>9
<1>7. \/ UNCHANGED <<m_bbFrameContainers, frameVars>>
      \/ \E s \in NextSlices : \E p \in NextFramePlaces(m_bbFrameContainers[s]) :
           LET f == Head(m_bbFrameContainers[s].queues[p])
           IN /\ m_bbFrameContainers' = [m_bbFrameContainers EXCEPT ![s] = WithoutHead(@, p)]
              /\ subscribed' = subscribed \cup Told(f)
              /\ missed' = missed \cup Unheard(f, s)
              /\ overtaken' = overtaken
  BY Zenon DEF SendFrame
<1> QED BY <1>5, <1>6, <1>7

\* Every step keeps it.
LEMMA SliceStep ==
  ASSUME LinkInv(ToldFrames), SliceInv, [Next]_vars
  PROVE  SliceInv'
<1>1. LinkType
  BY DEF LinkInv
<1>2. CASE UNCHANGED vars
  <2>1. UNCHANGED Untouched /\ UNCHANGED <<buffer, round, missed, overtaken, fatal>>
    BY <1>2 DEF vars, Untouched, llcVars, frameVars
  <2>2. ToBeTold' = ToBeTold /\ (RoundGoesOn' <=> RoundGoesOn)
    BY <2>1 DEF ToBeTold, RoundGoesOn, GetTotalDuration, SumOver, TimeSlicing, Untouched, configVars
  <2>3. ASSUME NEW u \in Ut, InTime(u) PROVE InTime(u)'
    <3>1. Announced(u)' <=> Announced(u)
      BY <2>1 DEF Announced, Untouched, frameVars
    <3>2. Before(u)' <=> Before(u)
      BY <2>1, <2>2 DEF Before
    <3>3. Slices' = Slices
      BY <2>1 DEF Untouched, configVars, Slices
    <3> QED BY <2>1, <2>2, <2>3, <3>1, <3>2, <3>3
            DEF InTime, Assigned, Served, Untouched, sliceVars
  <2> QED BY <2>1, <2>3 DEF SliceInv, SlicesKnown
<1>3. ASSUME fatal = None, \A u \in Ut : fatal' = None /\ InTime(u) => InTime(u)',
             missed' = missed, overtaken \subseteq overtaken'
      PROVE  SliceInv'
  BY <1>3 DEF SliceInv, SlicesKnown
<1>4. CASE \/ \E c \in Connections, n \in PacketSizes \cup ControlSizes : Enque(c, n)
           \/ \E c \in Connections : ReceiveAck(c)
           \/ \E u \in Ut, m \in Modcods : CnoInfoUpdated(u, m)
  <2>1. fatal = None /\ missed' = missed /\ overtaken' = overtaken
    BY <1>4 DEF Enque, ReceiveAck, CnoInfoUpdated, frameVars
  <2>2. \A u \in Ut : InTime(u) => InTime(u)'
    BY <1>1, <1>4, OutsideStep
  <2> QED BY <1>3, <2>1, <2>2
<1>5. CASE RunRescheduled \/ PeriodicTimerExpired \/ StartTransmission
  <2>1. fatal = None /\ missed' = missed /\ overtaken' = overtaken
    BY <1>5 DEF RunRescheduled, PeriodicTimerExpired, StartTransmission, frameVars
  <2>2. \A u \in Ut : InTime(u) => InTime(u)'
    BY <1>1, <1>5, BeginStep
  <2> QED BY <1>3, <2>1, <2>2
<1>6. CASE NextObject
  <2>1. fatal = None /\ missed' = missed /\ overtaken' = overtaken
    BY <1>6 DEF NextObject, frameVars
  <2>2. \A u \in Ut : InTime(u) => InTime(u)'
    BY <1>1, <1>6, ObjectStep
  <2> QED BY <1>3, <2>1, <2>2
<1>7. CASE TxOpportunity
  <2>1. fatal = None /\ missed' = missed /\ overtaken' = overtaken
    BY <1>7 DEF TxOpportunity, frameVars
  <2>2. \A u \in Ut : fatal' = None /\ InTime(u) => InTime(u)'
    BY <1>7, OpportunityStep
  <2> QED BY <1>3, <2>1, <2>2
<1>8. CASE MergeFrames
  <2>1. fatal = None /\ missed' = missed /\ overtaken \subseteq overtaken'
    BY <1>8 DEF MergeFrames
  <2>2. \A u \in Ut : InTime(u) => InTime(u)'
    BY <1>8, MergingStep
  <2> QED BY <1>3, <2>1, <2>2
<1>9. CASE SendFrame
  <2>1. fatal = None /\ \A u \in Ut : InTime(u)
    BY <1>9 DEF SendFrame, SliceInv
  <2>2. /\ \A u \in Ut : InTime(u)'
        /\ missed \subseteq overtaken => missed' \subseteq overtaken'
    BY <1>9, <2>1, SendingStep
  <2> QED BY <2>2 DEF SliceInv, SlicesKnown
<1> QED BY <1>2, <1>4, <1>5, <1>6, <1>7, <1>8, <1>9 DEF Next

\* No UT gets data in a slice that it was not told of, for any number of UTs,
\* slices and connections, any sizes and durations, and any interleaving of
\* arrivals, rounds and frames; but for one whose message waited when merging
\* reopened a round that control messages had filled.
THEOREM UtsKnowTheirSlices == Spec => []SlicesKnown
<1>1. Init => LinkInv(ToldFrames) /\ SliceInv
  <2>1. ASSUME Init PROVE SliceInv
    <3>1. /\ missed = {} /\ m_slicesMapping = [u \in Ut |-> Unknown] /\ round = Idle
          /\ m_bbFrameContainers = [s \in Slices |-> EmptyContainer]
      BY <2>1 DEF Init
    <3>2. ASSUME NEW u \in Ut PROVE InTime(u)
      <4>1. Assigned(u)
        BY <3>1 DEF Assigned
      <4>2. Weight(Counted(Serves(u)), EmptyContainer) = 0
        <5>1. Additive(Counted(Serves(u)))
          BY EmptyFacts, UtWeights
        <5> QED BY <5>1, EmptyFacts DEF Additive
      <4>3. Served(u)
        BY <3>1, <4>2 DEF Served
      <4>4. Before(u)
        BY <3>1 DEF Before, Idle
      <4> QED BY <4>1, <4>3, <4>4 DEF InTime
    <3> QED BY <3>1, <3>2 DEF SliceInv, SlicesKnown
  <2> QED BY <2>1, LinkInit
<1>2. LinkInv(ToldFrames) /\ SliceInv /\ [Next]_vars => LinkInv(ToldFrames)' /\ SliceInv'
  <2>1. ASSUME LinkInv(ToldFrames), TxOpportunity PROVE Open(ToldFrames, PlaceFilled)
    <3>1. round.conn \in Connections /\ round.modcod \in Modcods
      BY <2>1, RoundForms DEF LinkInv, LinkType, TxOpportunity
    <3>2. PlaceFilled \in Places
      BY <3>1, PlaceTaken DEF PlaceFilled
    <3> QED BY <3>2, ToldFramesSuit
  <2>2. PICK G : G = ToldFrames
    OBVIOUS
  <2>3. LinkInv(G) /\ [Next]_vars => LinkInv(G)'
    BY <2>1, <2>2, ToldFramesSuit, LinkStep
  <2>4. LinkInv(ToldFrames)' <=> LinkInv(G)'
    BY <2>2
  <2> QED BY <2>2, <2>3, <2>4, SliceStep
<1>3. SliceInv => SlicesKnown
  BY DEF SliceInv
<1> QED BY <1>1, <1>2, <1>3, PTL DEF Spec
=============================================================================
