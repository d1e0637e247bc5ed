------------------------ MODULE ModbusClient_proofs ------------------------
(***************************************************************************)
(* Lemmas about the board and the calls of the client, for any size of a   *)
(* frame, a burst and a chunk, which the proofs about the web application  *)
(* and the collector use: what sequences are when they are joined, what a  *)
(* frame is in chunks, what the board is after a request was executed any  *)
(* number of times, which pixels the stream serves, and which bits of      *)
(* which registers of the camera each of its settings has.                 *)
(*                                                                         *)
(* Induction is stated about sets, as NatLessThanWellFounded allows, so    *)
(* that it can be instantiated.                                            *)
(***************************************************************************)
EXTENDS ModbusClient, FiniteSetTheorems, WellFoundedInduction, TLAPS

(* Sequences that are joined, and the chunks of a frame *)

LEMMA Induction ==
  ASSUME NEW S, 0 \in S, \A n \in Nat : n \in S => n + 1 \in S
  PROVE  Nat \subseteq S
<1> SUFFICES ASSUME Nat \ S # {} PROVE FALSE OBVIOUS
<1>1. PICK m \in Nat \ S : \A k \in Nat \ S : ~ (<<k, m>> \in OpToRel(<, Nat))
  <2>1. Nat \ S \subseteq Nat OBVIOUS
  <2>2. QED BY <2>1, NatLessThanWellFounded, WFMin
<1>2. m # 0 /\ m - 1 \in Nat /\ m - 1 < m OBVIOUS
<1>3. m - 1 \notin S BY <1>2
<1>4. <<m - 1, m>> \in OpToRel(<, Nat) BY <1>2 DEF OpToRel
<1>5. QED BY <1>1, <1>2, <1>3, <1>4

\* A sequence of anything.
IsSeq(s) == \E S : s \in Seq(S)

LEMMA AppendSeq ==
  ASSUME NEW s, IsSeq(s), NEW r
  PROVE  /\ IsSeq(Append(s, r)) /\ Len(Append(s, r)) = Len(s) + 1 /\ Len(s) \in Nat
         /\ \A i \in 1..Len(s) : Append(s, r)[i] = s[i]
         /\ Append(s, r)[Len(s) + 1] = r
<1>1. PICK S : s \in Seq(S) BY DEF IsSeq
<1>2. s \in Seq(S \cup {r}) /\ r \in S \cup {r} BY <1>1
<1>3. /\ Append(s, r) \in Seq(S \cup {r}) /\ Len(Append(s, r)) = Len(s) + 1 /\ Len(s) \in Nat
      /\ \A i \in 1..Len(s) : Append(s, r)[i] = s[i]
      /\ Append(s, r)[Len(s) + 1] = r
  BY <1>2
<1>4. QED BY <1>3 DEF IsSeq

\* f joins the first n sequences of s, from the left, as FlattenSeq does.
Joins(s, n, f) == f = [i \in 1..n |-> IF i = 1 THEN s[i] ELSE f[i-1] \o s[i]]

LEMMA JoinStep ==
  ASSUME NEW s, NEW n \in Nat, NEW f, Joins(s, n, f)
  PROVE  /\ n # 0 => f[1] = s[1]
         /\ \A i \in Nat : i # 0 /\ i < n => f[i+1] = f[i] \o s[i+1]
<1>1. \A i \in 1..n : f[i] = IF i = 1 THEN s[i] ELSE f[i-1] \o s[i] BY DEF Joins
<1>2. n # 0 => f[1] = s[1] BY <1>1
<1>3. ASSUME NEW i \in Nat, i # 0, i < n PROVE f[i+1] = f[i] \o s[i+1]
  <2>1. PICK j : j = i + 1 OBVIOUS
  <2>2. j \in 1..n /\ j # 1 /\ j - 1 = i BY <1>3, <2>1
  <2>3. f[j] = f[j-1] \o s[j] BY <1>1, <2>2
  <2>4. QED BY <2>1, <2>2, <2>3
<1>4. QED BY <1>2, <1>3

LEMMA JoinExists ==
  ASSUME NEW S, NEW s \in Seq(S)
  PROVE  \E f : Joins(s, Len(s), f)
<1> DEFINE N == {n \in Nat : n <= Len(s) => \E f : Joins(s, n, f)}
<1>1. 0 \in N
  <2>1. Joins(s, 0, <<>>) BY DEF Joins
  <2>2. QED BY <2>1
<1>2. ASSUME NEW n \in Nat, n \in N PROVE n + 1 \in N
  <2>1. SUFFICES ASSUME n + 1 <= Len(s) PROVE \E g : Joins(s, n + 1, g) OBVIOUS
  <2>2. PICK f : Joins(s, n, f) BY <1>2, <2>1
  <2> DEFINE g == [i \in 1..n+1 |-> IF i <= n THEN f[i] ELSE IF i = 1 THEN s[1] ELSE f[n] \o s[n+1]]
  <2>3. \A i \in 1..n+1 : g[i] = IF i = 1 THEN s[i] ELSE g[i-1] \o s[i]
    <3>1. \A i \in 1..n : f[i] = IF i = 1 THEN s[i] ELSE f[i-1] \o s[i] BY <2>2 DEF Joins
    <3>2. ASSUME NEW i \in 1..n+1 PROVE g[i] = IF i = 1 THEN s[i] ELSE g[i-1] \o s[i]
      <4>1. CASE i = 1 BY <3>1, <4>1
      <4>2. CASE i # 1 /\ i <= n
        <5>1. g[i] = f[i] /\ g[i-1] = f[i-1] /\ i \in 1..n BY <4>2
        <5> HIDE DEF g
        <5>2. QED BY <3>1, <4>2, <5>1
      <4>3. CASE i # 1 /\ i = n + 1
        <5>0. i - 1 = n /\ n \in 1..n+1 /\ ~ (i <= n) BY <4>2, <4>3
        <5>1. g[n] = f[n]
          <6>1. n <= n /\ n \in 1..n+1 BY <5>0
          <6>2. QED BY <6>1
        <5>2. g[n+1] = f[n] \o s[n+1]
          <6>1. n + 1 \in 1..n+1 /\ ~ (n + 1 <= n) /\ n + 1 # 1 BY <4>2, <4>3, <5>0
          <6>2. QED BY <6>1
        <5> HIDE DEF g
        <5>3. QED BY <4>3, <5>0, <5>1, <5>2
      <4>4. QED BY <4>1, <4>2, <4>3
    <3>3. QED BY <3>2
  <2>4. g = [i \in 1..n+1 |-> g[i]] OBVIOUS
  <2> HIDE DEF g
  <2>5. Joins(s, n + 1, g) BY <2>3, <2>4 DEF Joins
  <2>6. QED BY <2>5
<1> HIDE DEF N
<1>3. Nat \subseteq N BY <1>1, <1>2, Induction
<1>4. Len(s) \in Nat OBVIOUS
<1>5. QED BY <1>3, <1>4 DEF N

Agree(s, t, n) == \A i \in 1..n : s[i] = t[i]

LEMMA JoinUnique ==
  ASSUME NEW s, NEW t, NEW n \in Nat, NEW m \in Nat, n <= m, NEW f, NEW g,
         Joins(s, n, f), Joins(t, m, g), Agree(s, t, n)
  PROVE  Agree(f, g, n)
<1> DEFINE N == {k \in Nat : k \in 1..n => f[k] = g[k]}
<1>1. /\ n # 0 => f[1] = s[1]
      /\ \A i \in Nat : i # 0 /\ i < n => f[i+1] = f[i] \o s[i+1]
  BY JoinStep
<1>2. /\ m # 0 => g[1] = t[1]
      /\ \A i \in Nat : i # 0 /\ i < m => g[i+1] = g[i] \o t[i+1]
  BY JoinStep
<1>3. 0 \in N OBVIOUS
<1>4. ASSUME NEW k \in Nat, k \in N PROVE k + 1 \in N
  <2>1. SUFFICES ASSUME k + 1 \in 1..n PROVE f[k+1] = g[k+1] OBVIOUS
  <2>2. k + 1 \in 1..m /\ s[k+1] = t[k+1] BY <2>1 DEF Agree
  <2>3. CASE k = 0
    <3>1. n # 0 /\ m # 0 /\ k + 1 = 1 BY <2>1, <2>3
    <3>2. QED BY <1>1, <1>2, <2>2, <3>1
  <2>4. CASE k # 0
    <3>1. f[k] = g[k] BY <1>4, <2>1, <2>4
    <3>2. f[k+1] = f[k] \o s[k+1] /\ g[k+1] = g[k] \o t[k+1]
      <4>1. k < n /\ k < m BY <2>1
      <4>2. QED BY <1>1, <1>2, <2>4, <4>1
    <3>3. QED BY <2>2, <3>1, <3>2
  <2>5. QED BY <2>3, <2>4
<1> HIDE DEF N
<1>5. Nat \subseteq N BY <1>3, <1>4, Induction
<1>6. QED BY <1>5 DEF N, Agree

LEMMA FlattenIs ==
  ASSUME NEW S, NEW s \in Seq(S), Len(s) # 0
  PROVE  \E f : Joins(s, Len(s), f) /\ FlattenSeq(s) = f[Len(s)]
<1>1. FlattenSeq(s) = (CHOOSE f : Joins(s, Len(s), f))[Len(s)] BY DEF FlattenSeq, Joins
<1>2. Joins(s, Len(s), CHOOSE f : Joins(s, Len(s), f)) BY JoinExists
<1>3. QED BY <1>1, <1>2

\* One more sequence is joined at the end.
LEMMA FlattenAppend ==
  ASSUME NEW S, NEW s \in Seq(Seq(S)), NEW x \in Seq(S)
  PROVE  FlattenSeq(Append(s, x)) = FlattenSeq(s) \o x
<1> DEFINE t == Append(s, x)
<1>1. t \in Seq(Seq(S)) /\ Len(t) = Len(s) + 1 /\ t[Len(t)] = x /\ Len(s) \in Nat
      /\ \A i \in 1..Len(s) : s[i] = t[i]
  OBVIOUS
<1> HIDE DEF t
<1>2. PICK g : Joins(t, Len(t), g) /\ FlattenSeq(t) = g[Len(t)]
  <2>1. Len(t) # 0 BY <1>1
  <2> DEFINE T == Seq(S)
  <2>2. t \in Seq(T) BY <1>1
  <2> HIDE DEF T
  <2>3. QED BY <2>1, <2>2, FlattenIs
<1>3. /\ g[1] = t[1]
      /\ \A i \in Nat : i # 0 /\ i < Len(t) => g[i+1] = g[i] \o t[i+1]
  <2>1. Len(t) # 0 BY <1>1
  <2>2. Len(t) \in Nat BY <1>1
  <2>3. Joins(t, Len(t), g) BY <1>2
  <2>4. /\ Len(t) # 0 => g[1] = t[1]
        /\ \A i \in Nat : i # 0 /\ i < Len(t) => g[i+1] = g[i] \o t[i+1]
    BY <2>2, <2>3, JoinStep, Zenon
  <2>5. QED BY <2>1, <2>4
<1>4. CASE Len(s) = 0
  <2>1. FlattenSeq(t) = x BY <1>1, <1>2, <1>3, <1>4
  <2>2. s = <<>> /\ FlattenSeq(s) = <<>> BY <1>4 DEF FlattenSeq
  <2>3. QED BY <2>1, <2>2 DEF t
<1>5. CASE Len(s) # 0
  <2>1. PICK f : Joins(s, Len(s), f) /\ FlattenSeq(s) = f[Len(s)] BY <1>5, FlattenIs
  <2>2. f[Len(s)] = g[Len(s)]
    <3>1. \A i \in 1..Len(s) : f[i] = g[i]
      <4>1. Len(s) \in Nat /\ Len(t) \in Nat /\ Len(s) <= Len(t) BY <1>1
      <4> DEFINE n == Len(s)
                 m == Len(t)
      <4>2. Joins(s, n, f) BY <2>1
      <4>3. Joins(t, m, g) BY <1>2
      <4>4. Agree(s, t, n) BY <1>1 DEF Agree
      <4>5. n \in Nat BY <4>1
      <4>6. m \in Nat BY <4>1
      <4>7. n <= m BY <4>1
      <4> HIDE DEF n, m
      <4>8. Agree(f, g, n) BY <4>2, <4>3, <4>4, <4>5, <4>6, <4>7, JoinUnique
      <4>9. QED BY <4>8 DEF n, Agree
    <3>2. Len(s) \in 1..Len(s) BY <1>1, <1>5
    <3>3. QED BY <3>1, <3>2, Zenon
  <2>3. g[Len(t)] = g[Len(s)] \o x
    <3>1. Len(s) < Len(t) /\ t[Len(s) + 1] = x BY <1>1
    <3>2. g[Len(s) + 1] = g[Len(s)] \o t[Len(s) + 1] BY <1>1, <1>3, <1>5, <3>1
    <3>3. QED BY <1>1, <3>1, <3>2
  <2>4. QED BY <1>2, <2>1, <2>2, <2>3 DEF t
<1>6. QED BY <1>4, <1>5

\* What is joined has the elements of its parts.
LEMMA FlattenType ==
  ASSUME NEW S, NEW s \in Seq(Seq(S))
  PROVE  FlattenSeq(s) \in Seq(S)
<1>1. CASE Len(s) = 0
  <2>1. FlattenSeq(s) = <<>> BY <1>1 DEF FlattenSeq
  <2>2. QED BY <2>1
<1>2. CASE Len(s) # 0
  <2>1. PICK f : Joins(s, Len(s), f) /\ FlattenSeq(s) = f[Len(s)] BY <1>2, FlattenIs
  <2>2. /\ f[1] = s[1]
        /\ \A i \in Nat : i # 0 /\ i < Len(s) => f[i+1] = f[i] \o s[i+1]
    <3>1. Len(s) \in Nat OBVIOUS
    <3>2. Joins(s, Len(s), f) BY <2>1
    <3>3. /\ Len(s) # 0 => f[1] = s[1]
          /\ \A i \in Nat : i # 0 /\ i < Len(s) => f[i+1] = f[i] \o s[i+1]
      BY <3>1, <3>2, JoinStep, Zenon
    <3>4. QED BY <1>2, <3>3
  <2> DEFINE N == {n \in Nat : n \in 1..Len(s) => f[n] \in Seq(S)}
  <2>3. 0 \in N OBVIOUS
  <2>4. ASSUME NEW n \in Nat, n \in N PROVE n + 1 \in N
    <3>1. SUFFICES ASSUME n + 1 \in 1..Len(s) PROVE f[n+1] \in Seq(S) OBVIOUS
    <3>2. s[n+1] \in Seq(S) BY <3>1
    <3>3. CASE n = 0 BY <2>2, <3>1, <3>2, <3>3
    <3>4. CASE n # 0
      <4>1. f[n] \in Seq(S) BY <2>4, <3>1, <3>4
      <4>2. f[n+1] = f[n] \o s[n+1]
        <5>1. n < Len(s) BY <3>1
        <5>2. QED BY <2>2, <3>4, <5>1
      <4>3. QED BY <3>2, <4>1, <4>2
    <3>5. QED BY <3>3, <3>4
  <2> HIDE DEF N
  <2>5. Nat \subseteq N BY <2>3, <2>4, Induction
  <2>6. Len(s) \in Nat OBVIOUS
  <2>7. Len(s) \in N BY <2>5, <2>6
  <2>8. QED BY <1>2, <2>1, <2>6, <2>7 DEF N
<1>3. QED BY <1>1, <1>2
\* Where the elements of the parts are in what is joined: off[k] is how many
\* the first k parts have together.
LEMMA FlattenOffsets ==
  ASSUME NEW S, NEW s \in Seq(Seq(S)), Len(s) # 0, NEW off, off[0] = 0,
         \A k \in 1..Len(s) : off[k] = off[k-1] + Len(s[k])
  PROVE  /\ off[Len(s)] \in Nat /\ Len(FlattenSeq(s)) = off[Len(s)]
         /\ \A k \in 1..Len(s) :
              /\ off[k-1] \in Nat
              /\ \A i \in 1..Len(s[k]) :
                   /\ off[k-1] + i \in 1..off[Len(s)]
                   /\ FlattenSeq(s)[off[k-1] + i] = s[k][i]
<1> DEFINE Placed(g, n) == \A k \in 1..n : /\ off[k-1] \in Nat
                                           /\ \A i \in 1..Len(s[k]) : /\ off[k-1] + i \in 1..off[n]
                                                                      /\ g[off[k-1] + i] = s[k][i]
           Holds(g, n) == g \in Seq(S) /\ off[n] \in Nat /\ Len(g) = off[n] /\ Placed(g, n)
<1>1. PICK f : Joins(s, Len(s), f) /\ FlattenSeq(s) = f[Len(s)]
  <2> DEFINE T == Seq(S)
  <2>1. s \in Seq(T) OBVIOUS
  <2> HIDE DEF T
  <2>2. QED BY <2>1, FlattenIs
<1>2. Len(s) \in Nat /\ \A k \in 1..Len(s) : s[k] \in Seq(S) /\ Len(s[k]) \in Nat OBVIOUS
<1>3. /\ f[1] = s[1]
      /\ \A i \in Nat : i # 0 /\ i < Len(s) => f[i+1] = f[i] \o s[i+1]
  <2>1. /\ Len(s) # 0 => f[1] = s[1]
        /\ \A i \in Nat : i # 0 /\ i < Len(s) => f[i+1] = f[i] \o s[i+1]
    BY <1>1, <1>2, JoinStep, Zenon
  <2>2. QED BY <2>1
<1> DEFINE N == {n \in Nat : n + 1 \in 1..Len(s) => Holds(f[n+1], n + 1)}
<1>4. 0 \in N
  <2>1. 1 \in 1..Len(s) BY <1>2
  <2>2. off[1] = Len(s[1]) /\ s[1] \in Seq(S) /\ Len(s[1]) \in Nat
    <3>1. off[1] = off[1-1] + Len(s[1]) BY <2>1
    <3>2. QED BY <1>2, <2>1, <3>1
  <2>3. Holds(f[1], 1)
    <3>1. ASSUME NEW k \in 1..1 PROVE off[k-1] = 0 /\ k = 1 OBVIOUS
    <3>2. QED BY <1>3, <2>2, <3>1
  <2> HIDE DEF Holds
  <2>4. QED BY <2>3
<1>5. ASSUME NEW n \in Nat, n \in N PROVE n + 1 \in N
  <2>1. SUFFICES ASSUME n + 2 \in 1..Len(s) PROVE Holds(f[n+2], n + 2)
    <3> HIDE DEF Holds
    <3>1. QED BY <2>1
  <2> DEFINE g == f[n+1]
             x == s[n+2]
             a == off[n+1]
             b == off[n+2]
  <2>2. n + 1 \in 1..Len(s) /\ n + 2 \in 1..Len(s) BY <2>1
  <2>3. Holds(g, n + 1) BY <1>5, <2>2
  <2>4. f[n+2] = g \o x
    <3>1. n + 1 \in Nat /\ n + 1 # 0 /\ n + 1 < Len(s) /\ (n + 1) + 1 = n + 2 BY <1>2, <2>1
    <3>2. QED BY <1>3, <3>1
  <2>5. x \in Seq(S) /\ Len(x) \in Nat /\ b = a + Len(x)
    <3>1. off[n+2] = off[(n+2)-1] + Len(s[n+2]) /\ (n+2)-1 = n+1 BY <2>2
    <3>2. QED BY <1>2, <2>2, <3>1
  <2>6. g \in Seq(S) /\ a \in Nat /\ Len(g) = a /\ Placed(g, n + 1) BY <2>3
  <2>7. PICK h : h = g \o x OBVIOUS
  <2>8. /\ h \in Seq(S) /\ Len(h) = b /\ b \in Nat
        /\ \A i \in 1..a : h[i] = g[i]
        /\ \A i \in 1..Len(x) : h[a + i] = x[i]
    <3> HIDE DEF g, x, a, b, Placed
    <3>1. g \in Seq(S) /\ x \in Seq(S) BY <2>5, <2>6
    <3>2. h \in Seq(S) /\ Len(h) = Len(g) + Len(x) BY <2>7, <3>1
    <3>3. \A i \in 1..Len(g) : h[i] = g[i] BY <2>7, <3>1
    <3>4. \A i \in 1..Len(x) : h[Len(g) + i] = x[i] BY <2>7, <3>1
    <3>5. QED BY <2>5, <2>6, <3>2, <3>3, <3>4
  <2>9. Placed(h, n + 2)
    <3>1. SUFFICES ASSUME NEW k \in 1..n+2
                   PROVE  /\ off[k-1] \in Nat
                          /\ \A i \in 1..Len(s[k]) : off[k-1] + i \in 1..b /\ h[off[k-1] + i] = s[k][i]
      OBVIOUS
    <3>2. CASE k = n + 2
      <4>1. k - 1 = n + 1 /\ off[k-1] = a /\ s[k] = x BY <3>2
      <4> HIDE DEF a, b, x, g, Placed
      <4>2. QED BY <2>5, <2>6, <2>8, <4>1
    <3>3. CASE k # n + 2
      <4>1. k \in 1..n+1 BY <3>3
      <4>2. /\ off[k-1] \in Nat
            /\ \A i \in 1..Len(s[k]) : off[k-1] + i \in 1..a /\ g[off[k-1] + i] = s[k][i]
        BY <2>6, <4>1
      <4> HIDE DEF a, b, x, g, Placed
      <4>3. ASSUME NEW i \in 1..Len(s[k]) PROVE off[k-1] + i \in 1..b /\ h[off[k-1] + i] = s[k][i]
        <5>1. PICK j \in 1..a : j = off[k-1] + i BY <4>2
        <5>2. g[j] = s[k][i] /\ h[j] = g[j] /\ j \in 1..b BY <2>5, <2>6, <2>8, <4>2, <5>1
        <5>3. QED BY <5>1, <5>2
      <4>4. QED BY <4>2, <4>3
    <3>4. QED BY <3>2, <3>3
  <2>10. QED BY <2>4, <2>7, <2>8, <2>9
<1> HIDE DEF N
<1>6. Nat \subseteq N BY <1>4, <1>5, Induction
<1>7. PICK m \in Nat : m + 1 = Len(s)
  <2>1. Len(s) - 1 \in Nat /\ (Len(s) - 1) + 1 = Len(s) BY <1>2
  <2>2. QED BY <2>1
<1>8. m + 1 \in 1..Len(s) BY <1>2, <1>7
<1>9. Holds(f[m+1], m + 1) BY <1>6, <1>8 DEF N
<1> HIDE DEF Holds
<1>10. FlattenSeq(s) = f[m+1] /\ Len(s) = m + 1 BY <1>1, <1>7
<1>11. Holds(FlattenSeq(s), Len(s)) BY <1>9, <1>10
<1>12. QED BY <1>11 DEF Holds

Done(k) == IF k * MAX_READ <= FRAME_PIXELS THEN k * MAX_READ ELSE FRAME_PIXELS

LEMMA Quotient ==
  ASSUME NEW a \in Nat, NEW b \in Nat \ {0}
  PROVE  /\ a \div b \in Nat /\ a % b \in 0..b-1
         /\ a = b * (a \div b) + (a % b)
OBVIOUS

LEMMA Remainder ==
  ASSUME NEW b \in Nat \ {0}, NEW q \in Nat, NEW r \in 0..b-1, NEW a \in Nat, a = b * q + r
  PROVE  a % b = r
<1> DEFINE p == a \div b
           s == a % b
<1>1. p \in Nat /\ s \in 0..b-1 /\ a = b * p + s BY Quotient
<1> HIDE DEF p, s
<1>2. p = q
  <2>1. CASE p < q
    <3>1. b * p <= b * (q - 1) /\ b * (q - 1) = b * q - b BY <1>1, <2>1
    <3>2. QED BY <1>1, <3>1
  <2>2. CASE p > q
    <3>1. b * q <= b * (p - 1) /\ b * (p - 1) = b * p - b BY <1>1, <2>2
    <3>2. QED BY <1>1, <3>1
  <2>3. QED BY <1>1, <2>1, <2>2
<1>3. s = r BY <1>1, <1>2
<1>4. QED BY <1>3 DEF s

LEMMA ChunkSum ==
  ASSUME NEW i \in 1..Len(Chunks(FRAME_PIXELS, MAX_READ))
  PROVE  /\ Chunks(FRAME_PIXELS, MAX_READ)[i] \in 0..MAX_READ
         /\ Done(i) = Done(i-1) + Chunks(FRAME_PIXELS, MAX_READ)[i]
         /\ Done(i-1) < FRAME_PIXELS
         /\ Done(i-1) \in Nat
         /\ i = Len(Chunks(FRAME_PIXELS, MAX_READ)) => Done(i) = FRAME_PIXELS
<1> DEFINE F == FRAME_PIXELS
           M == MAX_READ
           C == (F + M - 1) \div M
<1>1. F \in Nat \ {0} /\ M \in Nat \ {0} BY StreamAssumption
<1> HIDE DEF F, M
<1>2. C \in Nat /\ (F + M - 1) % M \in 0..M-1 /\ F + M - 1 = M * C + ((F + M - 1) % M)
  <2>1. F + M - 1 \in Nat BY <1>1
  <2>2. QED BY <1>1, <2>1, Quotient
<1>3. F \div M \in Nat /\ F % M \in 0..M-1 /\ F = M * (F \div M) + (F % M) BY <1>1, Quotient
<1> HIDE DEF C
<1>4. Chunks(FRAME_PIXELS, MAX_READ) = [k \in 1..C |-> IF k * M <= F THEN M ELSE F % M]
  BY DEF Chunks, F, M, C
<1>5. Len(Chunks(FRAME_PIXELS, MAX_READ)) = C BY <1>2, <1>4
<1>6. i \in 1..C BY <1>5
<1>7. M * C <= F + M - 1 /\ F <= M * C BY <1>1, <1>2
<1>8. (i - 1) * M < F /\ (i - 1) * M \in Nat
  <2>1. (i - 1) * M = i * M - M BY <1>1, <1>6
  <2>2. i * M <= C * M /\ C * M = M * C BY <1>1, <1>2, <1>6
  <2>3. QED BY <1>1, <1>2, <1>6, <1>7, <2>1, <2>2
<1>9. Done(i-1) = (i - 1) * M BY <1>1, <1>8 DEF Done, F, M
<1>10. Chunks(FRAME_PIXELS, MAX_READ)[i] = IF i * M <= F THEN M ELSE F % M BY <1>4, <1>6
<1>11. (i - 1) * M = i * M - M /\ i * M \in Nat BY <1>1, <1>6
<1>12. CASE i * M <= F
  <2>1. Done(i) = i * M BY <1>12 DEF Done, F, M
  <2>2. i = C => i * M = F
    <3>1. i = C => i * M = M * C BY <1>1, <1>2, <1>6
    <3>2. QED BY <1>7, <1>12, <3>1, <1>1, <1>11
  <2>3. QED BY <1>1, <1>5, <1>8, <1>9, <1>10, <1>11, <1>12, <2>1, <2>2 DEF F, M
<1>13. CASE ~ (i * M <= F)
  <2>1. Done(i) = F BY <1>13 DEF Done, F, M
  <2>2. F % M = F - (i - 1) * M
    <3>1. PICK q \in Nat : q = i - 1 BY <1>6
    <3>2. PICK r : r = F - q * M OBVIOUS
    <3>3. q * M = M * q /\ q * M = (i - 1) * M BY <1>1, <1>6, <3>1
    <3>4. r \in 0..M-1 /\ F = M * q + r BY <1>1, <1>6, <1>8, <1>11, <1>13, <3>2, <3>3
    <3>5. F % M = r BY <1>1, <3>1, <3>4, Remainder
    <3>6. QED BY <3>2, <3>3, <3>5
  <2>3. QED BY <1>1, <1>3, <1>8, <1>9, <1>10, <1>13, <2>1, <2>2 DEF F, M
<1>14. QED BY <1>12, <1>13

-----------------------------------------------------------------------------
(* The board *)

Runs(d, op, n, f) == f = [i \in 0..n |-> IF i = 0 THEN d ELSE Execute(f[i-1], op)[2]]

LEMMA RunExists ==
  ASSUME NEW d, NEW op, NEW n \in Nat
  PROVE  \E f : Runs(d, op, n, f)
<1> DEFINE N == {k \in Nat : \E f : Runs(d, op, k, f)}
<1>1. 0 \in N
  <2> DEFINE f == [i \in 0..0 |-> d]
  <2>1. f = [i \in 0..0 |-> IF i = 0 THEN d ELSE Execute(f[i-1], op)[2]] OBVIOUS
  <2>2. Runs(d, op, 0, f) BY <2>1 DEF Runs
  <2>3. QED BY <2>2
<1>2. ASSUME NEW k \in Nat, k \in N PROVE k + 1 \in N
  <2>1. PICK f : Runs(d, op, k, f) BY <1>2
  <2> DEFINE g == [i \in 0..k+1 |-> IF i <= k THEN f[i] ELSE Execute(f[k], op)[2]]
  <2>2. \A i \in 0..k : f[i] = IF i = 0 THEN d ELSE Execute(f[i-1], op)[2] BY <2>1 DEF Runs
  <2>3. \A i \in 0..k : g[i] = f[i] BY <2>2
  <2>4. g[k+1] = Execute(f[k], op)[2]
    <3>1. k + 1 \in 0..k+1 /\ ~ (k + 1 <= k) OBVIOUS
    <3>2. QED BY <3>1
  <2>5. g = [i \in 0..k+1 |-> g[i]] OBVIOUS
  <2> HIDE DEF g
  <2>6. ASSUME NEW i \in 0..k+1 PROVE g[i] = IF i = 0 THEN d ELSE Execute(g[i-1], op)[2]
    <3>1. CASE i = 0 BY <2>2, <2>3, <3>1
    <3>2. CASE i # 0 /\ i <= k
      <4>1. i \in 0..k /\ i - 1 \in 0..k BY <3>2
      <4>2. g[i] = f[i] /\ g[i-1] = f[i-1] BY <2>3, <4>1
      <4>3. QED BY <2>2, <3>2, <4>1, <4>2
    <3>3. CASE i = k + 1
      <4>1. i - 1 = k /\ k \in 0..k /\ i # 0 BY <3>3
      <4>2. QED BY <2>3, <2>4, <3>3, <4>1
    <3>4. QED BY <3>1, <3>2, <3>3
  <2>7. Runs(d, op, k + 1, g) BY <2>5, <2>6 DEF Runs
  <2>8. QED BY <2>7
<1> HIDE DEF N
<1>3. Nat \subseteq N BY <1>1, <1>2, Induction
<1>4. QED BY <1>3 DEF N

\* What a board is after n executions, one after the other.
LEMMA AfterRuns ==
  ASSUME NEW d, NEW op, NEW n \in Nat
  PROVE  \E f : /\ f[0] = d
                /\ \A i \in Nat : i < n => f[i+1] = Execute(f[i], op)[2]
                /\ After(d, op, n) = f[n]
<1>1. After(d, op, n) = (CHOOSE f : Runs(d, op, n, f))[n] BY DEF After, Runs
<1>2. PICK f : f = CHOOSE g : Runs(d, op, n, g) OBVIOUS
<1>3. Runs(d, op, n, f) BY <1>2, RunExists
<1>4. \A i \in 0..n : f[i] = IF i = 0 THEN d ELSE Execute(f[i-1], op)[2] BY <1>3 DEF Runs
<1>5. f[0] = d BY <1>4
<1>6. ASSUME NEW i \in Nat, i < n PROVE f[i+1] = Execute(f[i], op)[2]
  <2>1. PICK j : j = i + 1 OBVIOUS
  <2>2. j \in 0..n /\ j # 0 /\ j - 1 = i BY <1>6, <2>1
  <2>3. QED BY <1>4, <2>1, <2>2
<1>7. QED BY <1>1, <1>2, <1>5, <1>6

\* What every board is that an operation is executed on again, the one that is
\* answered is.
LEMMA Often ==
  ASSUME NEW d, NEW op, op.fn # "wait", NEW n \in Nat \ {0}
  PROVE  \E U : /\ d \in U
               /\ \A V \in SUBSET U :
                    d \in V /\ (\A x \in V : Execute(x, op)[2] \in U => Execute(x, op)[2] \in V)
                    => \E x \in V : Answered(d, op, n) = Execute(x, op)
<1>1. n - 1 \in Nat OBVIOUS
<1>2. PICK f : /\ f[0] = d
               /\ \A i \in Nat : i < n - 1 => f[i+1] = Execute(f[i], op)[2]
               /\ After(d, op, n - 1) = f[n - 1]
  BY <1>1, AfterRuns
<1> DEFINE U == {f[i] : i \in 0..n-1}
<1>3. d \in U BY <1>1, <1>2
<1>4. ASSUME NEW V \in SUBSET U, d \in V,
             \A x \in V : Execute(x, op)[2] \in U => Execute(x, op)[2] \in V
      PROVE  \E x \in V : Answered(d, op, n) = Execute(x, op)
  <2> DEFINE N == {i \in Nat : i <= n - 1 => f[i] \in V}
  <2>1. 0 \in N BY <1>2, <1>4
  <2>2. ASSUME NEW i \in Nat, i \in N PROVE i + 1 \in N
    <3>1. SUFFICES ASSUME i + 1 <= n - 1 PROVE f[i+1] \in V OBVIOUS
    <3>2. i < n - 1 /\ f[i] \in V BY <1>1, <2>2, <3>1
    <3>3. i + 1 \in 0..n-1 BY <1>1, <3>1
    <3>4. f[i+1] \in U BY <3>3
    <3>5. f[i+1] = Execute(f[i], op)[2] BY <1>2, <3>2
    <3> HIDE DEF U
    <3>6. QED BY <1>4, <3>2, <3>4, <3>5
  <2> HIDE DEF N
  <2>3. Nat \subseteq N BY <2>1, <2>2, Induction
  <2>4. n - 1 \in N BY <1>1, <2>3
  <2>5. f[n-1] \in V BY <1>1, <2>4 DEF N
  <2>6. Answered(d, op, n) = Execute(f[n-1], op) BY <1>2 DEF Answered
  <2>7. QED BY <2>5, <2>6
<1> HIDE DEF U
<1>5. QED BY <1>3, <1>4

LEMMA CamLow == CamRegs \subseteq 0..\hC9
<1>1. \A id \in DOMAIN CONTROLS : RegsOf(CONTROLS[id]) \subseteq 0..\hC9
  BY DEF CONTROLS, RegsOf, ByteControl, BitControl, PATTERN_REGS, Range, GAM_BASE, GAMMA_SAMPLE_INDEX
<1>2. DOMAIN IDENTITY \subseteq 0..\hC9 BY DEF IDENTITY
<1>3. NeededRegs \subseteq 0..\hC9 BY <1>1, <1>2 DEF NeededRegs
<1>4. Range(gamma_register_addrs) \subseteq 0..\hC9
  <2>1. Knees = 15 BY DEF Knees, GAM_BREAKPOINTS
  <2>2. gamma_register_addrs = <<SLOP_REG>> \o [i \in 1..15 |-> GAM_BASE + i - 1] BY <2>1 DEF gamma_register_addrs
  <2> DEFINE a == <<SLOP_REG>>
             b == [i \in 1..15 |-> GAM_BASE + i - 1]
  <2>3. a \in Seq(0..\hC9) BY DEF SLOP_REG
  <2>4. b \in Seq(0..\hC9) BY DEF GAM_BASE
  <2> HIDE DEF a, b
  <2>5. a \o b \in Seq(0..\hC9) BY <2>3, <2>4
  <2>6. QED BY <2>2, <2>5 DEF Range, a, b
<1>5. Range(MTX_REGS) \cup {MTXS_REG} \subseteq 0..\hC9 BY DEF MTX_REGS, MTXS_REG, Range
<1>6. QED BY <1>3, <1>4, <1>5 DEF CamRegs

BoardFields == {"cam", "initing", "on", "cursor", "cells", "calib", "engine", "busy", "shot", "mem",
                "addr", "data", "baddr", "widx", "loaded", "burst", "serv", "pending"}

Shape(d) ==
  /\ DOMAIN d = BoardFields
  /\ d.engine \in {"idle", "wait", "capture"} /\ (d.engine # "idle" => d.calib)
  /\ d.shot \in Nat /\ DOMAIN d.mem = 0..FRAME_PIXELS-1

\* What only the engine writes.
Film(d) == <<d.calib, d.shot, d.mem>>

LEMMA ShapeRead ==
  ASSUME NEW d, Shape(d), NEW at
  PROVE  Shape(ReadBurst(d, at)) /\ Film(ReadBurst(d, at)) = Film(d) /\ ReadBurst(d, at).engine = d.engine
         /\ ReadBurst(d, at).baddr = d.baddr
BY DEF Shape, ReadBurst, BoardFields, Film

\* A register access leaves a board a board, and captures nothing.
Access(d, e) == Shape(e) /\ e.shot = d.shot

\* A write changes one register's part of the board.
LEMMA WriteChoices ==
  ASSUME NEW d, NEW a, NEW v
  PROVE  WriteReg(d, a, v) \in
           {[d EXCEPT !.cam[a] = v], ArmGrab(d), ReadBurst(d, d.addr),
            [d EXCEPT !.addr = @ - (@ % ADDR_LO_SPAN) + v], [d EXCEPT !.addr = v * ADDR_LO_SPAN + (@ % ADDR_LO_SPAN)],
            Rewind(d), [d EXCEPT !.initing = TRUE], OsdControl(d, v), [d EXCEPT !.cursor = v],
            Advance([d EXCEPT !.cells[d.cursor] = v]), [d EXCEPT !.pending = TRUE], d}
<1> DEFINE cam == [d EXCEPT !.cam[a] = v]
           lo == [d EXCEPT !.addr = @ - (@ % ADDR_LO_SPAN) + v]
           hi == [d EXCEPT !.addr = v * ADDR_LO_SPAN + (@ % ADDR_LO_SPAN)]
           init == [d EXCEPT !.initing = TRUE]
           cursor == [d EXCEPT !.cursor = v]
           data == Advance([d EXCEPT !.cells[d.cursor] = v])
           boot == [d EXCEPT !.pending = TRUE]
           W == WriteReg(d, a, v)
<1>1. W = CASE a \in CamRegs -> cam
            [] a = REG_GRAB /\ v = 1 -> ArmGrab(d)
            [] a = REG_GRAB /\ v = 2 -> ReadBurst(d, d.addr)
            [] a = REG_GRAB_ADDR_LO -> lo
            [] a = REG_GRAB_ADDR_HI -> hi
            [] a = REG_STREAM      -> Rewind(d)
            [] a = REG_REINIT      -> init
            [] a = REG_OSD_CTRL    -> OsdControl(d, v)
            [] a = REG_OSD_ADDR    -> cursor
            [] a = REG_OSD_DATA    -> data
            [] a = REG_BOOT_DATA   -> boot
            [] OTHER               -> d
  BY DEF WriteReg
<1> HIDE DEF W, cam, lo, hi, init, cursor, data, boot
<1>2. W \in {cam, ArmGrab(d), ReadBurst(d, d.addr), lo, hi, Rewind(d), init, OsdControl(d, v), cursor, data, boot, d}
  BY <1>1
<1>3. QED BY <1>2 DEF W, cam, lo, hi, init, cursor, data, boot

\* The calibration is done once; the address register is a number.
Settled(d) == Shape(d) /\ d.calib /\ d.addr \in Nat

LEMMA AddressKept ==
  ASSUME NEW x \in Nat, NEW v \in Nat
  PROVE  /\ x % ADDR_LO_SPAN \in Nat /\ x - (x % ADDR_LO_SPAN) + v \in Nat
         /\ v * ADDR_LO_SPAN + (x % ADDR_LO_SPAN) \in Nat
         /\ v < ADDR_LO_SPAN => (x - (x % ADDR_LO_SPAN) + v) % ADDR_LO_SPAN = v
         /\ (v * ADDR_LO_SPAN + (x % ADDR_LO_SPAN)) % ADDR_LO_SPAN = x % ADDR_LO_SPAN
<1> DEFINE L == ADDR_LO_SPAN
<1>1. PICK s \in Nat \ {0} : s = L BY SpanAssumption
<1>2. PICK q \in Nat, r \in 0..s-1 : r = x % L /\ x = s * q + r
  <2>1. x \div s \in Nat /\ x % s \in 0..s-1 /\ x = s * (x \div s) + (x % s) BY Quotient
  <2>2. QED BY <1>1, <2>1
<1> HIDE DEF L
<1>3. s * q \in Nat /\ s * v \in Nat /\ v * L = s * v BY <1>1
<1>4. x - r + v = s * q + v BY <1>2, <1>3
<1>5. ASSUME v < L PROVE (x - r + v) % L = v
  <2>1. v \in 0..s-1 /\ s * q + v \in Nat BY <1>1, <1>3, <1>5
  <2>2. PICK y \in Nat : y = s * q + v BY <2>1
  <2>3. y % s = v BY <2>1, <2>2, Remainder
  <2>4. QED BY <1>1, <1>4, <2>2, <2>3
<1>6. (s * v + r) % L = r
  <2>1. PICK y \in Nat : y = s * v + r BY <1>3
  <2>2. y % s = r BY <2>1, Remainder
  <2>3. QED BY <1>1, <2>1, <2>2
<1>7. x % L = r /\ r \in Nat /\ x - (x % L) + v \in Nat /\ v * L + (x % L) \in Nat
  BY <1>2, <1>3, <1>4
<1>8. QED BY <1>2, <1>3, <1>5, <1>6, <1>7 DEF L

LEMMA WriteAccess ==
  ASSUME NEW d, Shape(d), NEW a, NEW v
  PROVE  /\ Access(d, WriteReg(d, a, v))
         /\ Settled(d) /\ v \in Nat => Settled(WriteReg(d, a, v))
<1> DEFINE Like(e) == Access(d, e) /\ e.calib = d.calib /\ (d.addr \in Nat /\ v \in Nat => e.addr \in Nat)
<1>1. Like([d EXCEPT !.cam[a] = v]) BY DEF Access, Shape, BoardFields
<1>2. Like(ArmGrab(d)) BY DEF Access, Shape, BoardFields, ArmGrab
<1>3. Like(ReadBurst(d, d.addr))
  <2>1. ReadBurst(d, d.addr).addr = d.addr BY DEF ReadBurst, Shape, BoardFields
  <2>2. QED BY <2>1, ShapeRead DEF Access, Film
<1>4. Like([d EXCEPT !.addr = @ - (@ % ADDR_LO_SPAN) + v])
  <2> DEFINE y == d.addr - (d.addr % ADDR_LO_SPAN) + v
  <2>1. d.addr \in Nat /\ v \in Nat => y \in Nat BY AddressKept
  <2> HIDE DEF y
  <2>2. Like([d EXCEPT !.addr = y]) BY <2>1 DEF Access, Shape, BoardFields
  <2>3. QED BY <2>2 DEF y
<1>5. Like([d EXCEPT !.addr = v * ADDR_LO_SPAN + (@ % ADDR_LO_SPAN)])
  <2> DEFINE y == v * ADDR_LO_SPAN + (d.addr % ADDR_LO_SPAN)
  <2>1. d.addr \in Nat /\ v \in Nat => y \in Nat BY AddressKept
  <2> HIDE DEF y
  <2>2. Like([d EXCEPT !.addr = y]) BY <2>1 DEF Access, Shape, BoardFields
  <2>3. QED BY <2>2 DEF y
<1>6. Like(Rewind(d)) BY DEF Access, Shape, BoardFields, Rewind
<1>7. Like([d EXCEPT !.initing = TRUE]) BY DEF Access, Shape, BoardFields
<1>8. Like(OsdControl(d, v)) BY DEF Access, Shape, BoardFields, OsdControl
<1>9. Like([d EXCEPT !.cursor = v]) BY DEF Access, Shape, BoardFields
<1>10. Like(Advance([d EXCEPT !.cells[d.cursor] = v])) BY DEF Access, Shape, BoardFields, Advance
<1>11. Like([d EXCEPT !.pending = TRUE]) BY DEF Access, Shape, BoardFields
<1>12. Like(d) BY DEF Access
<1> HIDE DEF Like
<1>13. Like(WriteReg(d, a, v))
  BY <1>1, <1>2, <1>3, <1>4, <1>5, <1>6, <1>7, <1>8, <1>9, <1>10, <1>11, <1>12, WriteChoices
<1>14. QED BY <1>13 DEF Like, Settled, Access

LEMMA ServeAccess ==
  ASSUME NEW d, Shape(d), NEW n
  PROVE  Access(d, ServePixels(d, n)[2])
<1> DEFINE BurstOf(i) == d.baddr + BURST * ((d.widx + i - 1) \div BURST)
           Has(i) == d.loaded /\ BurstOf(i) = d.baddr
           end == IF Has(n) THEN d ELSE ReadBurst(d, BurstOf(n))
<1>1. Access(d, end)
  <2>1. Access(d, ReadBurst(d, BurstOf(n))) BY ShapeRead DEF Access, Film
  <2>2. QED BY <2>1 DEF Access
<1>2. \E w, x, y, z : ServePixels(d, n)[2] = [end EXCEPT !.widx = w, !.loaded = x, !.baddr = y, !.burst = z]
  BY DEF ServePixels
<1> HIDE DEF end
<1>3. QED BY <1>1, <1>2 DEF Access, Shape, BoardFields

LEMMA ExecuteAccess ==
  ASSUME NEW d, Shape(d), NEW op
  PROVE  Access(d, Execute(d, op)[2])
<1>1. CASE op.fn = "write"
  <2>1. Execute(d, op)[2] = WriteReg(d, op.addr, op.value) BY <1>1 DEF Execute
  <2>2. QED BY <2>1, WriteAccess
<1>2. CASE op.fn # "write"
  <2> DEFINE a == op.addr
             n == op.count
  <2>1. Execute(d, op) = ReadRegs(d, a, n) BY <1>2 DEF Execute
  <2>2. \/ ReadRegs(d, a, n)[2] = ServePixels(d, n)[2]
        \/ ReadRegs(d, a, n)[2] = [d EXCEPT !.cursor = (@ + n) % OSD_CELLS]
        \/ ReadRegs(d, a, n)[2] = d
    BY DEF ReadRegs, ReadCells
  <2> HIDE DEF a, n
  <2>3. Access(d, [d EXCEPT !.cursor = (@ + n) % OSD_CELLS]) BY DEF Access, Shape, BoardFields
  <2>4. Access(d, d) BY DEF Access
  <2>5. Access(d, ServePixels(d, n)[2]) BY ServeAccess
  <2>6. QED BY <2>1, <2>2, <2>3, <2>4, <2>5
<1>3. QED BY <1>1, <1>2

LEMMA AfterAccess ==
  ASSUME NEW d, Shape(d), NEW op, NEW n \in Nat
  PROVE  Access(d, After(d, op, n))
<1>1. PICK f : /\ f[0] = d
               /\ \A i \in Nat : i < n => f[i+1] = Execute(f[i], op)[2]
               /\ After(d, op, n) = f[n]
  BY AfterRuns
<1> DEFINE N == {i \in Nat : i <= n => Access(d, f[i])}
<1>2. 0 \in N BY <1>1 DEF Access
<1>3. ASSUME NEW i \in Nat, i \in N PROVE i + 1 \in N
  <2>1. SUFFICES ASSUME i + 1 <= n PROVE Access(d, f[i+1]) OBVIOUS
  <2>2. i < n /\ Access(d, f[i]) BY <1>3, <2>1
  <2>3. QED BY <1>1, <2>2, ExecuteAccess DEF Access
<1> HIDE DEF N
<1>4. Nat \subseteq N BY <1>2, <1>3, Induction
<1>5. QED BY <1>1, <1>4 DEF N

LEMMA AnswerAccess ==
  ASSUME NEW d, Shape(d), NEW op, NEW n \in Nat, n # 0
  PROVE  Access(d, Answered(d, op, n)[2])
<1>1. CASE op.fn = "wait" BY <1>1 DEF Answered, Access
<1>2. CASE op.fn # "wait"
  <2>1. n - 1 \in Nat OBVIOUS
  <2>2. Access(d, After(d, op, n - 1)) BY <2>1, AfterAccess
  <2>3. Access(After(d, op, n - 1), Execute(After(d, op, n - 1), op)[2])
    BY <2>2, ExecuteAccess DEF Access
  <2>4. Answered(d, op, n)[2] = Execute(After(d, op, n - 1), op)[2] BY <1>2 DEF Answered
  <2>5. QED BY <2>2, <2>3, <2>4 DEF Access
<1>3. QED BY <1>1, <1>2

LEMMA Arms ==
  ASSUME NEW d
  PROVE  Execute(d, WriteSingle(REG_GRAB, 1))[2] = ArmGrab(d)
<1>1. REG_GRAB \notin CamRegs BY CamLow DEF REG_GRAB
<1>2. WriteReg(d, REG_GRAB, 1) = ArmGrab(d)
  BY <1>1 DEF WriteReg, REG_GRAB, REG_GRAB_ADDR_LO, REG_GRAB_ADDR_HI, REG_STREAM, REG_REINIT,
              REG_OSD_CTRL, REG_OSD_ADDR, REG_OSD_DATA, REG_BOOT_DATA
<1>3. QED BY <1>2 DEF Execute, WriteSingle

LEMMA Rewinds ==
  ASSUME NEW d
  PROVE  Execute(d, WriteSingle(REG_STREAM, 1))[2] = Rewind(d)
<1>1. REG_STREAM \notin CamRegs BY CamLow DEF REG_STREAM
<1>2. WriteReg(d, REG_STREAM, 1) = Rewind(d)
  BY <1>1 DEF WriteReg, REG_GRAB, REG_GRAB_ADDR_LO, REG_GRAB_ADDR_HI, REG_STREAM, REG_REINIT,
              REG_OSD_CTRL, REG_OSD_ADDR, REG_OSD_DATA, REG_BOOT_DATA
<1>3. QED BY <1>2 DEF Execute, WriteSingle

\* The engine after it was asked for a capture.
Asked(d) == IF d.engine = "idle" /\ d.calib THEN "wait" ELSE d.engine

\* However often the request for a capture arrives.
LEMMA Armed ==
  ASSUME NEW d, Shape(d), NEW n \in Nat, n # 0, NEW e,
         e = Answered(d, WriteSingle(REG_GRAB, 1), n)[2]
  PROVE  Shape(e) /\ e.busy /\ Film(e) = Film(d) /\ e.engine = Asked(d)
<1> DEFINE op == WriteSingle(REG_GRAB, 1)
<1>1. n - 1 \in Nat BY SMT
<1>2. e = Execute(After(d, op, n - 1), op)[2] BY DEF Answered, WriteSingle
<1>3. PICK f : /\ f[0] = d
               /\ \A i \in Nat : i < n - 1 => f[i+1] = Execute(f[i], op)[2]
               /\ After(d, op, n - 1) = f[n - 1]
  BY <1>1, AfterRuns
<1> DEFINE Like(x) == Shape(x) /\ Film(x) = Film(d) /\ x.engine \in {d.engine, Asked(d)}
           N == {i \in Nat : i <= n - 1 => Like(f[i])}
<1>4. ASSUME NEW x, Like(x)
      PROVE  Like(ArmGrab(x)) /\ ArmGrab(x).busy /\ ArmGrab(x).engine = Asked(d)
  <2>1. x.calib = d.calib BY <1>4 DEF Film
  <2>2. QED BY <1>4, <2>1 DEF Shape, BoardFields, Film, ArmGrab, Asked
<1>5. Like(d) OBVIOUS
<1> HIDE DEF Like
<1>6. 0 \in N BY <1>3, <1>5
<1>7. ASSUME NEW i \in Nat, i \in N PROVE i + 1 \in N
  <2>1. SUFFICES ASSUME i + 1 <= n - 1 PROVE Like(f[i+1]) OBVIOUS
  <2>2. i < n - 1 /\ Like(f[i]) BY <1>7, <2>1
  <2>3. QED BY <1>3, <1>4, <2>2, Arms
<1> HIDE DEF N
<1>8. Nat \subseteq N BY <1>6, <1>7, Induction
<1>9. Like(f[n-1]) BY <1>1, <1>8 DEF N
<1>10. e = ArmGrab(f[n-1]) BY <1>2, <1>3, Arms
<1>11. Like(e) /\ e.busy /\ e.engine = Asked(d) BY <1>4, <1>9, <1>10
<1>12. QED BY <1>11 DEF Like

\* However often the request to rewind the stream arrives.
LEMMA Rewound ==
  ASSUME NEW d, Shape(d), NEW n \in Nat, n # 0, NEW e,
         e = Answered(d, WriteSingle(REG_STREAM, 1), n)[2]
  PROVE  /\ Shape(e) /\ Film(e) = Film(d) /\ e.engine = d.engine
         /\ e.baddr = 0 /\ e.widx = 0 /\ ~ e.loaded
<1> DEFINE op == WriteSingle(REG_STREAM, 1)
<1>1. n - 1 \in Nat BY SMT
<1>2. e = Execute(After(d, op, n - 1), op)[2] BY DEF Answered, WriteSingle
<1>3. PICK f : /\ f[0] = d
               /\ \A i \in Nat : i < n - 1 => f[i+1] = Execute(f[i], op)[2]
               /\ After(d, op, n - 1) = f[n - 1]
  BY <1>1, AfterRuns
<1> DEFINE Like(x) == Shape(x) /\ Film(x) = Film(d) /\ x.engine = d.engine
           N == {i \in Nat : i <= n - 1 => Like(f[i])}
<1>4. ASSUME NEW x, Like(x)
      PROVE  /\ Like(Rewind(x))
             /\ Rewind(x).baddr = 0 /\ Rewind(x).widx = 0 /\ ~ Rewind(x).loaded
  BY <1>4 DEF Shape, BoardFields, Film, Rewind
<1>5. Like(d) OBVIOUS
<1> HIDE DEF Like
<1>6. 0 \in N BY <1>3, <1>5
<1>7. ASSUME NEW i \in Nat, i \in N PROVE i + 1 \in N
  <2>1. SUFFICES ASSUME i + 1 <= n - 1 PROVE Like(f[i+1]) OBVIOUS
  <2>2. i < n - 1 /\ Like(f[i]) BY <1>7, <2>1
  <2>3. QED BY <1>3, <1>4, <2>2, Rewinds
<1> HIDE DEF N
<1>8. Nat \subseteq N BY <1>6, <1>7, Induction
<1>9. Like(f[n-1]) BY <1>1, <1>8 DEF N
<1>10. e = Rewind(f[n-1]) BY <1>2, <1>3, Rewinds
<1>11. Like(e) /\ e.baddr = 0 /\ e.widx = 0 /\ ~ e.loaded BY <1>4, <1>9, <1>10
<1>12. QED BY <1>11 DEF Like

\* A frame has been captured and nothing disturbs it; the stream is at pixel p.
Captured(d) ==
  d.engine = "idle" /\ d.calib /\ d.mem = [i \in 0..FRAME_PIXELS-1 |-> d.shot]
StreamAt(d, p) ==
  /\ d.widx \in 0..BURST-1 /\ d.baddr \in Nat /\ d.baddr + d.widx = p
  /\ d.loaded => d.burst = [i \in 1..BURST |-> Pixel(d, d.baddr + i - 1)]

LEMMA AtOnce == ASSUME NEW d, NEW op PROVE After(d, op, 0) = d
BY AfterRuns

LEMMA PixelsServed ==
  ASSUME NEW d, Shape(d), Captured(d), NEW p, StreamAt(d, p), NEW n \in Nat, n # 0, p + n <= FRAME_PIXELS,
         NEW r, r = ServePixels(d, n)
  PROVE  /\ r[1] = [i \in 1..n |-> <<d.shot, p + i - 1>>]
         /\ Shape(r[2]) /\ Film(r[2]) = Film(d) /\ Captured(r[2]) /\ StreamAt(r[2], p + n)
<1> DEFINE B == BURST
           q(i) == (d.widx + i - 1) \div B
           BurstOf(i) == d.baddr + B * q(i)
           Has(i) == d.loaded /\ BurstOf(i) = d.baddr
           end == IF Has(n) THEN d ELSE ReadBurst(d, BurstOf(n))
           at == (d.widx + n) % B
<1>1. B \in Nat \ {0} BY BurstAssumption
<1>2. p \in Nat /\ d.widx \in 0..B-1 /\ d.baddr \in Nat /\ d.baddr + d.widx = p
  BY <1>1 DEF StreamAt
<1>3. ASSUME NEW i \in Nat, i # 0
      PROVE  /\ q(i) \in Nat /\ (d.widx + i - 1) % B \in 0..B-1
             /\ d.widx + i - 1 = B * q(i) + ((d.widx + i - 1) % B)
             /\ BurstOf(i) \in Nat /\ B * q(i) \in Nat
  <2>1. d.widx + i - 1 \in Nat BY <1>1, <1>2, <1>3
  <2>2. /\ q(i) \in Nat /\ (d.widx + i - 1) % B \in 0..B-1
        /\ d.widx + i - 1 = B * q(i) + ((d.widx + i - 1) % B)
    BY <1>1, <2>1, Quotient
  <2> HIDE DEF q
  <2>3. B * q(i) \in Nat BY <1>1, <2>2
  <2>4. QED BY <1>2, <2>2, <2>3
<1>4. r = <<[i \in 1..n |-> (IF Has(i) THEN d.burst ELSE ReadBurst(d, BurstOf(i)).data)
                          [((d.widx + i - 1) % B) + 1]],
            [end EXCEPT !.widx = at, !.loaded = at # 0,
                        !.baddr = IF at = 0 THEN BurstOf(n) + B ELSE BurstOf(n),
                        !.burst = IF Has(n) THEN @ ELSE end.data]>>
  BY DEF ServePixels
<1>5. ASSUME NEW x \in Nat
      PROVE  ReadBurst(d, x).data = [i \in 1..B |-> Pixel(d, x + i - 1)]
  BY DEF ReadBurst, Captured, Shape, BoardFields
<1>6. ASSUME NEW i \in Nat, i # 0, Has(i)
      PROVE  d.burst = [k \in 1..B |-> Pixel(d, BurstOf(i) + k - 1)]
  BY <1>6 DEF StreamAt
<1> HIDE DEF q, BurstOf
<1>7. ASSUME NEW i \in 1..n
      PROVE  r[1][i] = <<d.shot, p + i - 1>>
  <2> DEFINE k == ((d.widx + i - 1) % B) + 1
             src == IF Has(i) THEN d.burst ELSE ReadBurst(d, BurstOf(i)).data
  <2>1. src = [j \in 1..B |-> Pixel(d, BurstOf(i) + j - 1)]
    <3>1. CASE Has(i) BY <1>6, <3>1
    <3>2. CASE ~ Has(i)
      <4>1. i \in Nat /\ i # 0 OBVIOUS
      <4>2. BurstOf(i) \in Nat BY <1>3, <4>1
      <4>3. QED BY <1>5, <3>2, <4>2
    <3>3. QED BY <3>1, <3>2
  <2>2. r[1][i] = src[k] BY <1>4
  <2>3. k \in 1..B /\ BurstOf(i) + k - 1 = p + i - 1
    <3> DEFINE m == B * q(i)
               e == (d.widx + i - 1) % B
    <3>1. i \in Nat /\ i # 0 OBVIOUS
    <3>2. e \in 0..B-1 /\ d.widx + i - 1 = m + e /\ m \in Nat
      BY <1>3, <3>1 DEF BurstOf
    <3>3. BurstOf(i) = d.baddr + m /\ k = e + 1 BY DEF BurstOf
    <3> HIDE DEF m, e, k
    <3>4. d.baddr + m + e = p + i - 1 BY <1>1, <1>2, <3>1, <3>2
    <3>5. QED BY <1>1, <1>2, <3>2, <3>3, <3>4
  <2> HIDE DEF k, src
  <2>4. r[1][i] = Pixel(d, p + i - 1) BY <2>1, <2>2, <2>3
  <2>5. p + i - 1 \in 0..FRAME_PIXELS-1 BY <1>2, StreamAssumption
  <2>6. PICK j \in 0..FRAME_PIXELS-1 : j = p + i - 1 BY <2>5
  <2>7. Pixel(d, j) = <<d.mem[j], j>> BY <2>6, StreamAssumption DEF Pixel
  <2>8. d.mem[j] = d.shot BY <2>6 DEF Captured
  <2>9. QED BY <2>4, <2>6, <2>7, <2>8
<1>8. r[1] = [i \in 1..n |-> <<d.shot, p + i - 1>>]
  <2>1. r[1] = [i \in 1..n |-> r[1][i]] BY <1>4
  <2>2. QED BY <1>7, <2>1
<1>9. /\ r[2].widx = at /\ r[2].loaded = (at # 0)
      /\ r[2].baddr = IF at = 0 THEN BurstOf(n) + B ELSE BurstOf(n)
      /\ r[2].burst = IF Has(n) THEN d.burst ELSE ReadBurst(d, BurstOf(n)).data
      /\ Shape(r[2]) /\ Film(r[2]) = Film(d) /\ r[2].engine = d.engine
  <2>1. Shape(end) /\ Film(end) = Film(d) /\ end.engine = d.engine
        /\ (Has(n) => end.burst = d.burst)
    <3>1. CASE Has(n) BY <3>1
    <3>2. CASE ~ Has(n) BY <3>2, ShapeRead
    <3>3. QED BY <3>1, <3>2
  <2>2. end.data = ReadBurst(d, BurstOf(n)).data \/ Has(n) OBVIOUS
  <2> DEFINE base == IF at = 0 THEN BurstOf(n) + B ELSE BurstOf(n)
             has == Has(n)
             data == ReadBurst(d, BurstOf(n)).data
  <2>3. r[2] = [end EXCEPT !.widx = at, !.loaded = at # 0, !.baddr = base,
                           !.burst = IF has THEN @ ELSE end.data]
    BY <1>4
  <2>4. (has => end.burst = d.burst) /\ (~ has => end.data = data) BY <2>1, <2>2
  <2> HIDE DEF end, at, base, has, data
  <2>5. /\ r[2].widx = at /\ r[2].loaded = (at # 0) /\ r[2].baddr = base
        /\ r[2].burst = IF has THEN d.burst ELSE data
        /\ Shape(r[2]) /\ Film(r[2]) = Film(d) /\ r[2].engine = d.engine
    BY <2>1, <2>3, <2>4 DEF Shape, BoardFields, Film
  <2>6. QED BY <2>5 DEF base, has, data
<1>10. Captured(r[2]) BY <1>9 DEF Captured, Film
<1>11. StreamAt(r[2], p + n)
  <2> DEFINE m == B * q(n)
             e == (d.widx + n - 1) % B
  <2>1. e \in 0..B-1 /\ d.widx + n - 1 = m + e /\ m \in Nat /\ BurstOf(n) = d.baddr + m
        /\ q(n) \in Nat /\ m = B * q(n)
    BY <1>3 DEF BurstOf
  <2> HIDE DEF m, e
  <2>2. at = IF e = B - 1 THEN 0 ELSE e + 1
    <3>1. d.widx + n \in Nat BY <1>2
    <3>2. CASE e = B - 1
      <4>1. B * (q(n) + 1) = m + B /\ q(n) + 1 \in Nat BY <1>1, <2>1
      <4>2. d.widx + n = B * (q(n) + 1) + 0
        <5>1. d.widx + n = m + B BY <1>1, <1>2, <2>1, <3>2
        <5>2. QED BY <4>1, <5>1, <2>1, <1>1
      <4>3. 0 \in 0..B-1 BY <1>1
      <4>4. at = 0
        <5>1. PICK w \in Nat : w = d.widx + n BY <3>1
        <5>2. PICK k \in Nat : k = q(n) + 1 BY <4>1
        <5>3. w = B * k + 0 BY <4>2, <5>1, <5>2
        <5>4. w % B = 0 BY <1>1, <4>3, <5>3, Remainder
        <5>5. QED BY <5>1, <5>4
      <4>5. QED BY <3>2, <4>4
    <3>3. CASE e # B - 1
      <4>1. PICK f \in 0..B-1 : f = e + 1 BY <1>1, <2>1, <3>3
      <4>2. d.widx + n = B * q(n) + f
        <5>1. d.widx + n = m + f BY <1>1, <1>2, <2>1, <4>1
        <5>2. QED BY <2>1, <5>1
      <4>3. at = f
        <5>1. PICK w \in Nat : w = d.widx + n BY <3>1
        <5>2. PICK k \in Nat : k = q(n) BY <2>1
        <5>3. w = B * k + f BY <4>2, <5>1, <5>2
        <5>4. w % B = f BY <1>1, <5>3, Remainder
        <5>5. QED BY <5>1, <5>4
      <4>4. QED BY <3>3, <4>1, <4>3
    <3>4. QED BY <3>2, <3>3
  <2> HIDE DEF at
  <2>3. r[2].widx \in 0..B-1 /\ r[2].baddr \in Nat /\ r[2].baddr + r[2].widx = p + n
    <3>1. CASE e = B - 1
      <4>1. r[2].widx = 0 /\ r[2].baddr = d.baddr + m + B BY <1>9, <2>1, <2>2, <3>1
      <4>2. (d.baddr + m + B) + 0 = p + n /\ d.baddr + m + B \in Nat BY <1>1, <1>2, <2>1, <3>1
      <4>3. QED BY <1>1, <4>1, <4>2
    <3>2. CASE e # B - 1
      <4>1. at # 0 BY <1>1, <2>1, <2>2, <3>2
      <4>2. r[2].widx = e + 1 /\ r[2].baddr = d.baddr + m BY <1>9, <2>1, <2>2, <3>2, <4>1
      <4>3. e + 1 \in 0..B-1 BY <1>1, <2>1, <3>2
      <4>4. d.baddr + m \in Nat /\ (d.baddr + m) + (e + 1) = p + n BY <1>1, <1>2, <2>1
      <4>5. QED BY <4>2, <4>3, <4>4
    <3>3. QED BY <3>1, <3>2
  <2>4. ASSUME r[2].loaded
        PROVE  r[2].burst = [i \in 1..B |-> Pixel(r[2], r[2].baddr + i - 1)]
    <3>1. r[2].baddr = BurstOf(n) BY <1>9, <2>4
    <3>2. r[2].burst = [i \in 1..B |-> Pixel(d, BurstOf(n) + i - 1)]
      <4>1. CASE Has(n) BY <1>6, <1>9, <4>1
      <4>2. CASE ~ Has(n)
        <5>1. BurstOf(n) \in Nat BY <1>3
        <5>2. QED BY <1>5, <1>9, <4>2, <5>1
      <4>3. QED BY <4>1, <4>2
    <3>3. r[2].mem = d.mem BY <1>9 DEF Film
    <3>4. \A x : Pixel(r[2], x) = Pixel(d, x) BY <3>3 DEF Pixel
    <3>5. QED BY <3>1, <3>2, <3>4
  <2>5. QED BY <2>3, <2>4 DEF StreamAt
<1>12. QED BY <1>8, <1>9, <1>10, <1>11

\* The board by itself takes the frame that is waited for, and spoils none
\* that is in the memory.
LEMMA BoardShapes ==
  ASSUME NEW d, Shape(d), NEW e \in BoardSteps(d)
  PROVE  /\ Shape(e) /\ e.shot >= d.shot /\ e.addr = d.addr
         /\ \/ /\ Film(e) = Film(d) /\ e.engine = d.engine /\ e.busy = d.busy
               /\ e.baddr = d.baddr /\ e.widx = d.widx /\ e.loaded = d.loaded /\ e.burst = d.burst
               /\ e.data = d.data
            \/ d.engine = "wait" /\ e.engine = "capture" /\ e.busy = d.busy /\ e.shot > d.shot
            \/ d.engine = "capture" /\ Captured(e) /\ e.shot = d.shot
<1>1. \/ d.engine = "wait" /\ e = CaptureStarts(d)
      \/ d.engine = "capture" /\ e = CaptureEnds(d)
      \/ e = InitEnds(d) \/ e = Drains(d)
  BY DEF BoardSteps
<1>2. d.shot \in Nat /\ d.shot + 1 > d.shot /\ d.shot >= d.shot /\ d.shot + 1 \in Nat BY DEF Shape
<1>3. CASE d.engine = "wait" /\ e = CaptureStarts(d)
  <2> DEFINE m == [i \in DOMAIN d.mem |-> IF 2 * i < FRAME_PIXELS THEN d.shot + 1 ELSE d.mem[i]]
  <2>1. e = [d EXCEPT !.engine = "capture", !.shot = d.shot + 1, !.mem = m] BY <1>3 DEF CaptureStarts
  <2>2. DOMAIN m = DOMAIN d.mem OBVIOUS
  <2> HIDE DEF m
  <2>3. /\ DOMAIN e = DOMAIN d /\ e.engine = "capture" /\ e.shot = d.shot + 1 /\ e.mem = m
        /\ e.busy = d.busy /\ e.calib = d.calib /\ e.addr = d.addr
    BY <2>1 DEF Shape, BoardFields
  <2>4. QED BY <1>2, <1>3, <2>2, <2>3 DEF Shape
<1>4. CASE d.engine = "capture" /\ e = CaptureEnds(d)
  <2> DEFINE m == [i \in DOMAIN d.mem |-> d.shot]
  <2>1. e = [d EXCEPT !.engine = "idle", !.busy = FALSE, !.mem = m] BY <1>4 DEF CaptureEnds
  <2>2. DOMAIN m = DOMAIN d.mem /\ m = [i \in 0..FRAME_PIXELS-1 |-> d.shot] BY DEF Shape
  <2> HIDE DEF m
  <2>3. /\ DOMAIN e = DOMAIN d /\ e.engine = "idle" /\ e.shot = d.shot /\ e.mem = m /\ e.calib = d.calib
        /\ e.addr = d.addr
    BY <2>1 DEF Shape, BoardFields
  <2>4. QED BY <1>2, <1>4, <2>2, <2>3 DEF Shape, Captured
<1>5. CASE e = InitEnds(d) \/ e = Drains(d)
  <2>1. \A x, y : LET z == [d EXCEPT !.initing = x, !.cam = y]
                  IN  /\ DOMAIN z = DOMAIN d /\ Film(z) = Film(d) /\ z.engine = d.engine /\ z.busy = d.busy
                      /\ z.baddr = d.baddr /\ z.widx = d.widx /\ z.loaded = d.loaded /\ z.burst = d.burst
                      /\ z.addr = d.addr /\ z.data = d.data
    BY DEF Shape, BoardFields, Film
  <2>2. /\ DOMAIN e = DOMAIN d /\ Film(e) = Film(d) /\ e.engine = d.engine /\ e.busy = d.busy
        /\ e.baddr = d.baddr /\ e.widx = d.widx /\ e.loaded = d.loaded /\ e.burst = d.burst
        /\ e.addr = d.addr /\ e.data = d.data
    <3>1. CASE e = InitEnds(d)
      <4> DEFINE y == [a \in CamRegs |-> CamReset(a)]
      <4>1. e = [d EXCEPT !.initing = FALSE, !.cam = y] BY <3>1 DEF InitEnds
      <4> HIDE DEF y
      <4>2. QED BY <2>1, <4>1
    <3>2. CASE e = Drains(d) BY <3>2 DEF Drains, Shape, BoardFields, Film
    <3>3. QED BY <1>5, <3>1, <3>2
  <2>3. QED BY <1>2, <2>2 DEF Shape, Film
<1>6. QED BY <1>1, <1>3, <1>4, <1>5

LEMMA PowerShapes ==
  ASSUME NEW calib, NEW serv
  PROVE  Shape(PowerOn(calib, serv))
BY DEF PowerOn, Shape, BoardFields

-----------------------------------------------------------------------------
(* Bytes as sets of bits, and the settings that are read from them *)

LEMMA Halves ==
  ASSUME NEW x \in 0..255
  PROVE  x = (x % 2) + 2 * ((x \div 2) % 2) + 4 * ((x \div 4) % 2) + 8 * ((x \div 8) % 2)
             + 16 * ((x \div 16) % 2) + 32 * ((x \div 32) % 2) + 64 * ((x \div 64) % 2) + 128 * ((x \div 128) % 2)
OBVIOUS

LEMMA Powers ==
  2^0 = 1 /\ 2^1 = 2 /\ 2^2 = 4 /\ 2^3 = 8 /\ 2^4 = 16 /\ 2^5 = 32 /\ 2^6 = 64 /\ 2^7 = 128
OBVIOUS

LEMMA NumIs ==
  ASSUME NEW b
  PROVE  LET d(i, w) == IF i \in b THEN w ELSE 0
         IN  Num(b) = d(0, 1) + d(1, 2) + d(2, 4) + d(3, 8) + d(4, 16) + d(5, 32) + d(6, 64) + d(7, 128)
<1> DEFINE d(i, w) == IF i \in b THEN w ELSE 0
           P(f) == f = [i \in 0..8 |-> IF i = 0 THEN 0 ELSE f[i-1] + IF i-1 \in b THEN 2^(i-1) ELSE 0]
           s1 == d(0, 1)
           s2 == s1 + d(1, 2)
           s3 == s2 + d(2, 4)
           s4 == s3 + d(3, 8)
           s5 == s4 + d(4, 16)
           s6 == s5 + d(5, 32)
           s7 == s6 + d(6, 64)
           s8 == s7 + d(7, 128)
           g == [i \in 0..8 |-> IF i = 0 THEN 0 ELSE IF i = 1 THEN s1 ELSE IF i = 2 THEN s2 ELSE IF i = 3 THEN s3
                   ELSE IF i = 4 THEN s4 ELSE IF i = 5 THEN s5 ELSE IF i = 6 THEN s6 ELSE IF i = 7 THEN s7 ELSE s8]
           r(i) == g[i-1] + IF i-1 \in b THEN 2^(i-1) ELSE 0
<1>1. P(g)
  <2>1. g[0] = 0 /\ g[1] = s1 /\ g[2] = s2 /\ g[3] = s3 /\ g[4] = s4 /\ g[5] = s5 /\ g[6] = s6 /\ g[7] = s7 /\ g[8] = s8
    OBVIOUS
  <2>2. /\ s1 = 0 + d(0, 1) /\ s2 = s1 + d(1, 2) /\ s3 = s2 + d(2, 4) /\ s4 = s3 + d(3, 8) /\ s5 = s4 + d(4, 16)
        /\ s6 = s5 + d(5, 32) /\ s7 = s6 + d(6, 64) /\ s8 = s7 + d(7, 128)
    OBVIOUS
  <2>3. g = [i \in 0..8 |-> g[i]] OBVIOUS
  <2> HIDE DEF g, s1, s2, s3, s4, s5, s6, s7, s8
  <2>4. r(1) = s1 /\ r(2) = s2 /\ r(3) = s3 /\ r(4) = s4 BY <2>1, <2>2, Powers
  <2>5. r(5) = s5 /\ r(6) = s6 /\ r(7) = s7 /\ r(8) = s8 BY <2>1, <2>2, Powers
  <2> HIDE DEF r
  <2>6. \A i \in 0..8 : i # 0 => g[i] = r(i)
    <3>1. \A i \in 0..8 : i \in {0, 1, 2, 3, 4, 5, 6, 7, 8} OBVIOUS
    <3>2. QED BY <2>1, <2>4, <2>5, <3>1
  <2>7. g = [i \in 0..8 |-> IF i = 0 THEN 0 ELSE r(i)] BY <2>1, <2>3, <2>6
  <2>8. QED BY <2>7 DEF r
<1> HIDE DEF g
<1>2. P(CHOOSE f : P(f)) BY <1>1
<1>3. Num(b) = (CHOOSE f : P(f))[8] BY DEF Num
<1>4. PICK f : f = (CHOOSE h : P(h)) OBVIOUS
<1>5. P(f) /\ Num(b) = f[8] BY <1>2, <1>3, <1>4
<1>6. /\ f[0] = 0 /\ f[1] = f[0] + d(0, 1) /\ f[2] = f[1] + d(1, 2) /\ f[3] = f[2] + d(2, 4)
      /\ f[4] = f[3] + d(3, 8)
  BY <1>5, Powers
<1>7. /\ f[5] = f[4] + d(4, 16) /\ f[6] = f[5] + d(5, 32) /\ f[7] = f[6] + d(6, 64) /\ f[8] = f[7] + d(7, 128)
  BY <1>5, Powers
<1>8. QED BY <1>5, <1>6, <1>7

LEMMA NumBits == ASSUME NEW x \in 0..255 PROVE Num(Bits(x)) = x
<1> DEFINE b == Bits(x)
           d(i, w) == IF i \in b THEN w ELSE 0
<1>1. \A i \in 0..7 : i \in b <=> (x \div 2^i) % 2 = 1 BY DEF Bits
<1> HIDE DEF b
<1>2. /\ 0 \in b <=> (x \div 1) % 2 = 1
      /\ 1 \in b <=> (x \div 2) % 2 = 1
      /\ 2 \in b <=> (x \div 4) % 2 = 1
      /\ 3 \in b <=> (x \div 8) % 2 = 1
  BY <1>1, Powers
<1>3. /\ 4 \in b <=> (x \div 16) % 2 = 1
      /\ 5 \in b <=> (x \div 32) % 2 = 1
      /\ 6 \in b <=> (x \div 64) % 2 = 1
      /\ 7 \in b <=> (x \div 128) % 2 = 1
  BY <1>1, Powers
<1>4. /\ d(0, 1) = (x % 2)
      /\ d(1, 2) = 2 * ((x \div 2) % 2)
      /\ d(2, 4) = 4 * ((x \div 4) % 2)
      /\ d(3, 8) = 8 * ((x \div 8) % 2)
  BY <1>2
<1>5. /\ d(4, 16) = 16 * ((x \div 16) % 2)
      /\ d(5, 32) = 32 * ((x \div 32) % 2)
      /\ d(6, 64) = 64 * ((x \div 64) % 2)
      /\ d(7, 128) = 128 * ((x \div 128) % 2)
  BY <1>3
<1>6. Num(b) = d(0, 1) + d(1, 2) + d(2, 4) + d(3, 8) + d(4, 16) + d(5, 32) + d(6, 64) + d(7, 128) BY NumIs
<1>7. Num(b) = x BY <1>4, <1>5, <1>6, Halves
<1>8. QED BY <1>7 DEF b

-----------------------------------------------------------------------------
(* Which bits of which register a setting has *)

Settings == {<<"control", id>> : id \in DOMAIN CONTROLS} \cup {<<"coeff", i>> : i \in 0..5} \cup {<<"center", 0>>}

Mask(x, a) ==
  IF x[1] = "control"
  THEN LET c == CONTROLS[x[2]]
       IN  IF a \notin RegsOf(c) THEN {}
           ELSE IF c.type = "bit" THEN c.mask ELSE IF c.type = "pattern" THEN {7} ELSE 0..7
  ELSE IF x[1] = "coeff"
  THEN IF a = MTX_REGS[x[2] + 1] THEN 0..7 ELSE IF a = MTXS_REG THEN {x[2]} ELSE {}
  ELSE IF a = MTXS_REG THEN MTXS_AUTO_CONTRAST ELSE {}

\* The setting a bit belongs to.
Owner(a, b) ==
  IF a = \h55 THEN <<"control", "brightness">>
  ELSE IF a = \h56 THEN <<"control", "contrast">>
  ELSE IF a = 0 THEN <<"control", "gain">>
  ELSE IF a = \h10 THEN <<"control", "exposure">>
  ELSE IF a = \h13 THEN <<"control", IF b = 2 THEN "agc" ELSE IF b = 1 THEN "awb" ELSE "aec">>
  ELSE IF a = \h1E THEN <<"control", IF b = 5 THEN "mirror" ELSE "vflip">>
  ELSE IF a = \h3A THEN <<"control", "negative">>
  ELSE IF a = \h3B THEN <<"control", "night">>
  ELSE IF a = \h3D THEN <<"control", "gamma_enable">>
  ELSE IF a \in \h7A..\h89 THEN <<"control", "gamma">>
  ELSE IF a \in \h70..\h71 THEN <<"control", "pattern">>
  ELSE IF a \in \h4F..\h54 THEN <<"coeff", a - \h4F>>
  ELSE IF b = 7 THEN <<"center", 0>> ELSE <<"coeff", b>>

Ids14 == {"brightness", "contrast", "gain", "exposure", "agc", "awb", "aec", "mirror", "vflip", "negative",
          "night", "gamma_enable", "gamma", "pattern"}

LEMMA ControlIs ==
  /\ DOMAIN CONTROLS = Ids14
  /\ CONTROLS["brightness"] = [type |-> "byte", reg |-> \h55]
  /\ CONTROLS["contrast"] = [type |-> "byte", reg |-> \h56]
  /\ CONTROLS["gain"] = [type |-> "byte", reg |-> 0]
  /\ CONTROLS["exposure"] = [type |-> "byte", reg |-> \h10]
  /\ CONTROLS["agc"] = [type |-> "bit", reg |-> \h13, mask |-> {2}]
  /\ CONTROLS["awb"] = [type |-> "bit", reg |-> \h13, mask |-> {1}]
  /\ CONTROLS["aec"] = [type |-> "bit", reg |-> \h13, mask |-> {0}]
  /\ CONTROLS["mirror"] = [type |-> "bit", reg |-> \h1E, mask |-> {5}]
  /\ CONTROLS["vflip"] = [type |-> "bit", reg |-> \h1E, mask |-> {4}]
  /\ CONTROLS["negative"] = [type |-> "bit", reg |-> \h3A, mask |-> {5}]
  /\ CONTROLS["night"] = [type |-> "bit", reg |-> \h3B, mask |-> {7}]
  /\ CONTROLS["gamma_enable"] = [type |-> "bit", reg |-> \h3D, mask |-> {7}]
  /\ CONTROLS["gamma"] = [type |-> "gamma", sample_reg |-> \h82]
  /\ CONTROLS["pattern"] = [type |-> "pattern"]
BY DEF CONTROLS, ByteControl, BitControl, Ids14, GAM_BASE, GAMMA_SAMPLE_INDEX

LEMMA ControlOwner ==
  ASSUME NEW id \in Ids14, NEW x, x = <<"control", id>>, NEW a, NEW b \in Mask(x, a)
  PROVE  Owner(a, b) = x
<1>1. PICK c : c = CONTROLS[id] OBVIOUS
<1>2. x[1] = "control" /\ x[2] = id OBVIOUS
<1>3. /\ a \in RegsOf(c)
      /\ b \in IF c.type = "bit" THEN c.mask ELSE IF c.type = "pattern" THEN {7} ELSE 0..7
  BY <1>1, <1>2 DEF Mask
<1>4. RegsOf(c) = CASE c.type = "pattern" -> Range(PATTERN_REGS)
                    [] c.type = "gamma"   -> {c.sample_reg}
                    [] OTHER              -> {c.reg}
  BY DEF RegsOf
<1>5. Range(PATTERN_REGS) = {\h70, \h71}
  <2>1. DOMAIN PATTERN_REGS = {1, 2} /\ PATTERN_REGS[1] = \h70 /\ PATTERN_REGS[2] = \h71 BY DEF PATTERN_REGS
  <2>2. QED BY <2>1 DEF Range
<1>6. CASE id \in {"brightness", "contrast", "gain", "exposure"}
  BY <1>1, <1>3, <1>4, <1>6, ControlIs DEF Owner
<1>7. CASE id \in {"agc", "awb", "aec", "mirror", "vflip", "negative"}
  BY <1>1, <1>3, <1>4, <1>7, ControlIs DEF Owner
<1>8. CASE id \in {"night", "gamma_enable", "gamma"}
  BY <1>1, <1>3, <1>4, <1>8, ControlIs DEF Owner
<1>9. CASE id = "pattern"
  BY <1>1, <1>3, <1>4, <1>5, <1>9, ControlIs DEF Owner
<1>10. QED BY <1>6, <1>7, <1>8, <1>9 DEF Ids14

LEMMA MatrixIs ==
  /\ MTXS_REG = \h58 /\ Len(MTX_REGS) = 6
  /\ \A i \in 0..5 : MTX_REGS[i + 1] = \h4F + i
BY DEF MTXS_REG, MTX_REGS

LEMMA OwnerIs == ASSUME NEW x \in Settings, NEW a, NEW b \in Mask(x, a) PROVE Owner(a, b) = x
<1>1. ASSUME NEW id \in DOMAIN CONTROLS, x = <<"control", id>> PROVE Owner(a, b) = x
  BY <1>1, ControlIs, ControlOwner
<1>2. ASSUME NEW i \in 0..5, x = <<"coeff", i>> PROVE Owner(a, b) = x
  <2>2. x[1] = "coeff" /\ x[2] = i BY <1>2
  <2>3. b \in IF a = MTX_REGS[i + 1] THEN 0..7 ELSE IF a = MTXS_REG THEN {i} ELSE {} BY <2>2 DEF Mask
  <2>4. QED BY <1>2, <2>3, MatrixIs DEF Owner
<1>3. CASE x = <<"center", 0>>
  <2>1. x[1] = "center" BY <1>3
  <2>2. a = MTXS_REG /\ b = 7 BY <2>1 DEF Mask, MTXS_AUTO_CONTRAST
  <2>3. QED BY <1>3, <2>2, MatrixIs DEF Owner
<1>4. QED BY <1>1, <1>2, <1>3 DEF Settings

\* Two settings share no bit.
LEMMA Apart ==
  ASSUME NEW x \in Settings, NEW y \in Settings, x # y, NEW a
  PROVE  Mask(x, a) \cap Mask(y, a) = {}
BY OwnerIs

\* Two contents of the camera's registers that have the same bits of a setting.
SameBits(x, f, g) ==
  \A a \in CamRegs : Mask(x, a) # {} =>
    f[a] \subseteq 0..7 /\ g[a] \subseteq 0..7 /\ \A b \in Mask(x, a) : b \in f[a] <=> b \in g[a]

LEMMA ControlRegs ==
  ASSUME NEW id \in DOMAIN CONTROLS
  PROVE  /\ RegsOf(CONTROLS[id]) \subseteq CamRegs
         /\ CONTROLS[id].type = "pattern" => RegsOf(CONTROLS[id]) = {PATTERN_REGS[1], PATTERN_REGS[2]}
         /\ CONTROLS[id].type = "gamma" => RegsOf(CONTROLS[id]) = {CONTROLS[id].sample_reg}
         /\ CONTROLS[id].type \in {"byte", "bit"} => RegsOf(CONTROLS[id]) = {CONTROLS[id].reg}
         /\ CONTROLS[id].type \in {"byte", "bit", "gamma", "pattern"}
         /\ CONTROLS[id].type = "gamma" <=> id = "gamma"
         /\ CONTROLS[id].type = "gamma" => CONTROLS[id].sample_reg = GAM_BASE + GAMMA_SAMPLE_INDEX
         /\ CONTROLS[id].type = "bit" => \E b \in 0..7 : CONTROLS[id].mask = {b}
<1>1. RegsOf(CONTROLS[id]) \subseteq CamRegs BY DEF CamRegs, NeededRegs
<1>2. Range(PATTERN_REGS) = {PATTERN_REGS[1], PATTERN_REGS[2]}
  <2>1. DOMAIN PATTERN_REGS = {1, 2} BY DEF PATTERN_REGS
  <2>2. QED BY <2>1 DEF Range
<1>3. PICK c : c = CONTROLS[id] OBVIOUS
<1>4. RegsOf(c) = CASE c.type = "pattern" -> Range(PATTERN_REGS)
                    [] c.type = "gamma"   -> {c.sample_reg}
                    [] OTHER              -> {c.reg}
  BY DEF RegsOf
<1>5. /\ c.type \in {"byte", "bit", "gamma", "pattern"} /\ (c.type = "gamma" <=> id = "gamma")
      /\ c.type = "gamma" => c.sample_reg = \h82
      /\ c.type = "bit" => c.mask \in {{0}, {1}, {2}, {4}, {5}, {7}}
  BY <1>3, ControlIs DEF Ids14
<1>6. GAM_BASE + GAMMA_SAMPLE_INDEX = \h82 BY DEF GAM_BASE, GAMMA_SAMPLE_INDEX
<1>7. c.type = "bit" => \E b \in 0..7 : c.mask = {b} BY <1>5
<1>8. QED BY <1>1, <1>2, <1>3, <1>4, <1>5, <1>6, <1>7

LEMMA WholeByte ==
  ASSUME NEW f, NEW g, f \subseteq 0..7, g \subseteq 0..7, \A b \in 0..7 : b \in f <=> b \in g
  PROVE  f = g
OBVIOUS

LEMMA ControlSame ==
  ASSUME NEW id \in DOMAIN CONTROLS, NEW f, NEW g, SameBits(<<"control", id>>, f, g)
  PROVE  decode_control(CONTROLS[id], f) = decode_control(CONTROLS[id], g)
<1>1. PICK c : c = CONTROLS[id] OBVIOUS
<1>2. PICK x : x = <<"control", id>> OBVIOUS
<1>3. x[1] = "control" /\ x[2] = id BY <1>2
<1>4. \A a : Mask(x, a) = IF a \notin RegsOf(c) THEN {}
                          ELSE IF c.type = "bit" THEN c.mask ELSE IF c.type = "pattern" THEN {7} ELSE 0..7
  BY <1>1, <1>3 DEF Mask
<1>5. \A a \in RegsOf(c) : f[a] \subseteq 0..7 /\ g[a] \subseteq 0..7 /\ \A b \in Mask(x, a) : b \in f[a] <=> b \in g[a]
  <2>1. SUFFICES ASSUME NEW a \in RegsOf(c)
                 PROVE  f[a] \subseteq 0..7 /\ g[a] \subseteq 0..7 /\ \A b \in Mask(x, a) : b \in f[a] <=> b \in g[a]
    OBVIOUS
  <2>2. a \in CamRegs BY <1>1, ControlRegs
  <2>3. Mask(x, a) # {}
    <3>1. c.type = "bit" => c.mask # {} BY <1>1, ControlRegs
    <3>2. QED BY <1>4, <3>1
  <2>4. QED BY <1>2, <2>2, <2>3 DEF SameBits
<1>6. CASE c.type = "byte"
  <2>1. c.reg \in RegsOf(c) BY <1>1, <1>6, ControlRegs
  <2>2. f[c.reg] = g[c.reg] BY <1>4, <1>5, <1>6, <2>1, WholeByte
  <2>3. decode_control(c, f) = f[c.reg] /\ decode_control(c, g) = g[c.reg] BY <1>6 DEF decode_control
  <2>4. QED BY <1>1, <2>2, <2>3
<1>7. CASE c.type = "bit"
  <2>1. c.reg \in RegsOf(c) BY <1>1, <1>7, ControlRegs
  <2>2. f[c.reg] \cap c.mask = g[c.reg] \cap c.mask BY <1>4, <1>5, <1>7, <2>1
  <2>3. \A h : decode_control(c, h) = (h[c.reg] \cap c.mask # {}) BY <1>7 DEF decode_control
  <2>4. QED BY <1>1, <2>2, <2>3
<1>8. CASE c.type = "gamma"
  <2>1. c.sample_reg \in RegsOf(c) /\ c.sample_reg = GAM_BASE + GAMMA_SAMPLE_INDEX BY <1>1, <1>8, ControlRegs
  <2>2. f[c.sample_reg] = g[c.sample_reg] BY <1>4, <1>5, <1>8, <2>1, WholeByte
  <2>3. estimate_gamma(f) = estimate_gamma(g) BY <2>1, <2>2 DEF estimate_gamma
  <2>4. \A h : decode_control(c, h) = estimate_gamma(h) BY <1>8 DEF decode_control
  <2>5. QED BY <1>1, <2>3, <2>4
<1>9. CASE c.type = "pattern"
  <2> DEFINE Option(p, r) == CHOOSE opt \in DOMAIN PATTERN_OPTIONS :
                               PATTERN_OPTIONS[opt].xsc = p /\ PATTERN_OPTIONS[opt].ysc = r
  <2>1. \A h : decode_control(c, h) = Option(7 \in h[PATTERN_REGS[1]], 7 \in h[PATTERN_REGS[2]])
    BY <1>9 DEF decode_control
  <2>2. PATTERN_REGS[1] \in RegsOf(c) /\ PATTERN_REGS[2] \in RegsOf(c) BY <1>1, <1>9, ControlRegs
  <2>3. /\ (7 \in f[PATTERN_REGS[1]]) = (7 \in g[PATTERN_REGS[1]])
        /\ (7 \in f[PATTERN_REGS[2]]) = (7 \in g[PATTERN_REGS[2]])
    BY <1>4, <1>5, <1>9, <2>2
  <2> HIDE DEF Option
  <2>4. Option(7 \in f[PATTERN_REGS[1]], 7 \in f[PATTERN_REGS[2]])
          = Option(7 \in g[PATTERN_REGS[1]], 7 \in g[PATTERN_REGS[2]])
    BY <2>3
  <2>5. QED BY <1>1, <2>1, <2>4
<1>10. QED BY <1>1, <1>6, <1>7, <1>8, <1>9, ControlRegs

LEMMA MatrixRegs ==
  /\ MTXS_REG \in CamRegs /\ \A i \in 0..5 : MTX_REGS[i + 1] \in CamRegs /\ MTX_REGS[i + 1] # MTXS_REG
  /\ \A i \in 0..5, j \in 0..5 : i # j => MTX_REGS[i + 1] # MTX_REGS[j + 1]
<1>1. MTXS_REG \in CamRegs BY DEF CamRegs
<1>2. DOMAIN MTX_REGS = 1..6 BY DEF MTX_REGS
<1>3. ASSUME NEW i \in 0..5 PROVE MTX_REGS[i + 1] \in CamRegs
  <2>1. i + 1 \in DOMAIN MTX_REGS BY <1>2
  <2>2. QED BY <2>1 DEF CamRegs, Range
<1>4. QED BY <1>1, <1>3, MatrixIs

LEMMA CoeffSame ==
  ASSUME NEW i \in 0..5, NEW f, NEW g, SameBits(<<"coeff", i>>, f, g)
  PROVE  decode_matrix(f, i) = decode_matrix(g, i)
<1>1. PICK x : x = <<"coeff", i>> /\ x[1] = "coeff" /\ x[2] = i OBVIOUS
<1>2. Mask(x, MTX_REGS[i + 1]) = 0..7 BY <1>1 DEF Mask
<1>3. Mask(x, MTXS_REG) = {i} BY <1>1, MatrixRegs DEF Mask
<1>4. f[MTX_REGS[i + 1]] = g[MTX_REGS[i + 1]] BY <1>1, <1>2, MatrixRegs, WholeByte DEF SameBits
<1>5. i \in f[MTXS_REG] <=> i \in g[MTXS_REG] BY <1>1, <1>3, MatrixRegs DEF SameBits
<1>6. QED BY <1>4, <1>5 DEF decode_matrix

LEMMA CenterSame ==
  ASSUME NEW f, NEW g, SameBits(<<"center", 0>>, f, g)
  PROVE  MTXS_AUTO_CONTRAST \subseteq f[MTXS_REG] <=> MTXS_AUTO_CONTRAST \subseteq g[MTXS_REG]
<1>1. PICK x : x = <<"center", 0>> /\ x[1] = "center" OBVIOUS
<1>2. Mask(x, MTXS_REG) = {7} BY <1>1 DEF Mask, MTXS_AUTO_CONTRAST
<1>3. 7 \in f[MTXS_REG] <=> 7 \in g[MTXS_REG] BY <1>1, <1>2, MatrixRegs DEF SameBits
<1>4. QED BY <1>3 DEF MTXS_AUTO_CONTRAST

(* What is read back of what was written *)

LEMMA LeastOf ==
  ASSUME NEW x \in Int, NEW y \in Int
  PROVE  /\ Min({x, y}) = IF x <= y THEN x ELSE y
         /\ Max({x, y}) = IF x <= y THEN y ELSE x
<1>1. PICK l : l = IF x <= y THEN x ELSE y OBVIOUS
<1>2. PICK g : g = IF x <= y THEN y ELSE x OBVIOUS
<1>3. l \in {x, y} /\ \A z \in {x, y} : l <= z BY <1>1
<1>4. g \in {x, y} /\ \A z \in {x, y} : g >= z BY <1>2
<1>5. \A z \in {x, y} : (\A w \in {x, y} : z <= w) => z = l BY <1>1
<1>6. \A z \in {x, y} : (\A w \in {x, y} : z >= w) => z = g BY <1>2
<1>7. Min({x, y}) = l BY <1>3, <1>5 DEF Min
<1>8. Max({x, y}) = g BY <1>4, <1>6 DEF Max
<1>9. QED BY <1>1, <1>2, <1>7, <1>8

LEMMA CoeffDecoded ==
  ASSUME NEW i \in 0..5, NEW v \in Int, NEW f,
         f[MTX_REGS[i + 1]] = Bits(Min({255, IF v < 0 THEN -v ELSE v})), i \in f[MTXS_REG] <=> v < 0
  PROVE  decode_matrix(f, i) = Max({-255, Min({255, v})})
<1>1. PICK w \in Nat : w = IF v < 0 THEN -v ELSE v OBVIOUS
<1>2. PICK m : m = Min({255, w}) OBVIOUS
<1>3. m = IF 255 <= w THEN 255 ELSE w BY <1>2, LeastOf
<1>4. m \in 0..255 BY <1>3
<1>5. Num(f[MTX_REGS[i + 1]]) = m BY <1>1, <1>2, <1>4, NumBits
<1>6. decode_matrix(f, i) = IF v < 0 THEN -m ELSE m BY <1>5 DEF decode_matrix
<1>7. PICK l : l = Min({255, v}) OBVIOUS
<1>8. l = IF 255 <= v THEN 255 ELSE v BY <1>7, LeastOf
<1>9. l \in Int /\ -255 \in Int BY <1>8
<1>10. Max({-255, l}) = IF -255 <= l THEN l ELSE -255 BY <1>9, LeastOf
<1>11. QED BY <1>1, <1>3, <1>6, <1>7, <1>8, <1>10

LEMMA PatternDecoded ==
  ASSUME NEW v \in DOMAIN PATTERN_OPTIONS, NEW f,
         7 \in f[PATTERN_REGS[1]] <=> PATTERN_OPTIONS[v].xsc, 7 \in f[PATTERN_REGS[2]] <=> PATTERN_OPTIONS[v].ysc
  PROVE  decode_control(CONTROLS["pattern"], f) = v
<1> DEFINE Is(opt) == /\ PATTERN_OPTIONS[opt].xsc = (7 \in f[PATTERN_REGS[1]])
                      /\ PATTERN_OPTIONS[opt].ysc = (7 \in f[PATTERN_REGS[2]])
<1>1. /\ DOMAIN PATTERN_OPTIONS = {"none", "colorbar", "shifting1", "fadegray"}
      /\ PATTERN_OPTIONS["none"].xsc = FALSE /\ PATTERN_OPTIONS["none"].ysc = FALSE
      /\ PATTERN_OPTIONS["colorbar"].xsc = FALSE /\ PATTERN_OPTIONS["colorbar"].ysc = TRUE
      /\ PATTERN_OPTIONS["shifting1"].xsc = TRUE /\ PATTERN_OPTIONS["shifting1"].ysc = FALSE
      /\ PATTERN_OPTIONS["fadegray"].xsc = TRUE /\ PATTERN_OPTIONS["fadegray"].ysc = TRUE
  BY DEF PATTERN_OPTIONS
<1>2. Is(v)
  <2>1. PICK x \in BOOLEAN, y \in BOOLEAN : x = PATTERN_OPTIONS[v].xsc /\ y = PATTERN_OPTIONS[v].ysc BY <1>1
  <2>2. (7 \in f[PATTERN_REGS[1]] <=> x) /\ (7 \in f[PATTERN_REGS[2]] <=> y) BY <2>1
  <2>3. x = (7 \in f[PATTERN_REGS[1]]) /\ y = (7 \in f[PATTERN_REGS[2]]) BY <2>2
  <2>4. QED BY <2>1, <2>3
<1>3. \A opt \in DOMAIN PATTERN_OPTIONS : Is(opt) => opt = v BY <1>1, <1>2
<1>4. decode_control(CONTROLS["pattern"], f) = CHOOSE opt \in DOMAIN PATTERN_OPTIONS : Is(opt)
  BY ControlIs DEF decode_control
<1> HIDE DEF Is
<1>5. QED BY <1>2, <1>3, <1>4

LEMMA BitDecoded ==
  ASSUME NEW id \in DOMAIN CONTROLS, CONTROLS[id].type = "bit", NEW v \in BOOLEAN, NEW f,
         \A b \in CONTROLS[id].mask : b \in f[CONTROLS[id].reg] <=> v
  PROVE  decode_control(CONTROLS[id], f) = v
<1>1. PICK c : c = CONTROLS[id] OBVIOUS
<1>2. PICK b \in 0..7 : c.mask = {b} BY <1>1, ControlRegs
<1>3. decode_control(c, f) = (f[c.reg] \cap c.mask # {}) BY <1>1 DEF decode_control
<1>4. (f[c.reg] \cap c.mask # {}) <=> v BY <1>1, <1>2
<1>5. QED BY <1>1, <1>3, <1>4

\* The settings page reads every register it needs.
LEMMA Needed ==
  /\ DOMAIN needed_registers = 1..Cardinality(NeededRegs) /\ Cardinality(NeededRegs) \in Nat
  /\ \A a \in NeededRegs : \E i \in DOMAIN needed_registers : needed_registers[i] = a
<1> DEFINE Below(a) == {s \in NeededRegs : s < a}
<1>1. NeededRegs \subseteq 0..\hC9 BY CamLow DEF CamRegs
<1>2. IsFiniteSet(NeededRegs)
  <2>0. \A m \in Int, k \in Int : IsFiniteSet(m..k) BY FS_Interval
  <2>1. PICK h \in Int : h = \hC9 OBVIOUS
  <2>2. IsFiniteSet(0..h) BY <2>0
  <2>3. NeededRegs \subseteq 0..h BY <1>1, <2>1
  <2>4. QED BY <2>2, <2>3, FS_Subset
<1>3. PICK n \in Nat : n = Cardinality(NeededRegs) BY <1>2, FS_CardinalityType
<1>4. \A a \in NeededRegs : IsFiniteSet(Below(a)) /\ Cardinality(Below(a)) \in Nat
  <2>1. SUFFICES ASSUME NEW a \in NeededRegs PROVE IsFiniteSet(Below(a)) /\ Cardinality(Below(a)) \in Nat OBVIOUS
  <2>2. Below(a) \subseteq NeededRegs OBVIOUS
  <2>3. IsFiniteSet(Below(a)) BY <1>2, <2>2, FS_Subset
  <2>4. QED BY <2>3, FS_CardinalityType
<1>5. ASSUME NEW a \in NeededRegs, NEW b \in NeededRegs, a < b PROVE Cardinality(Below(a)) < Cardinality(Below(b))
  <2>1. PICK S, T : S = Below(a) /\ T = Below(b) OBVIOUS
  <2>2. S \subseteq T
    <3>1. \A s \in NeededRegs : s < a => s < b BY <1>1, <1>5
    <3>2. QED BY <2>1, <3>1
  <2>3. S # T BY <1>1, <1>5, <2>1
  <2>4. IsFiniteSet(T) BY <1>4, <2>1
  <2>5. Cardinality(S) <= Cardinality(T) /\ (Cardinality(T) = Cardinality(S) => T = S) BY <2>2, <2>4, FS_Subset
  <2>7. Cardinality(S) \in Nat /\ Cardinality(T) \in Nat BY <1>4, <2>1
  <2>6. QED BY <2>1, <2>3, <2>5, <2>7
<1>6. \A a \in NeededRegs : Cardinality(Below(a)) < n
  <2>1. SUFFICES ASSUME NEW a \in NeededRegs PROVE Cardinality(Below(a)) < n OBVIOUS
  <2>2. PICK S : S = Below(a) OBVIOUS
  <2>3. S \subseteq NeededRegs /\ a \notin S BY <1>1, <2>2
  <2>4. S # NeededRegs BY <2>3
  <2>5. Cardinality(S) <= Cardinality(NeededRegs) /\ (Cardinality(NeededRegs) = Cardinality(S) => NeededRegs = S)
    BY <1>2, <2>3, FS_Subset
  <2>6. Cardinality(S) \in Nat BY <1>4, <2>2
  <2>7. QED BY <1>3, <2>2, <2>4, <2>5, <2>6
<1>7. needed_registers = [i \in 1..n |-> CHOOSE r \in NeededRegs : Cardinality(Below(r)) = i - 1]
  BY <1>3 DEF needed_registers
<1> HIDE DEF Below
<1>8. ASSUME NEW a \in NeededRegs PROVE \E i \in DOMAIN needed_registers : needed_registers[i] = a
  <2>1. PICK k \in Nat : k = Cardinality(Below(a)) BY <1>4
  <2>2. k < n BY <1>6, <2>1
  <2>3. k + 1 \in 1..n /\ k + 1 - 1 = k BY <2>2
  <2>4. needed_registers[k+1] = CHOOSE r \in NeededRegs : Cardinality(Below(r)) = k BY <1>7, <2>3
  <2>5. \A r \in NeededRegs : Cardinality(Below(r)) = k => r = a
    <3>1. SUFFICES ASSUME NEW r \in NeededRegs, Cardinality(Below(r)) = k PROVE r = a OBVIOUS
    <3>2. ~ (r < a) BY <1>4, <1>5, <2>1, <3>1
    <3>3. ~ (a < r) BY <1>4, <1>5, <2>1, <3>1
    <3>4. QED BY <1>1, <3>2, <3>3
  <2>6. needed_registers[k+1] = a BY <2>1, <2>4, <2>5
  <2>7. QED BY <1>7, <2>3, <2>6
<1>9. QED BY <1>3, <1>7, <1>8
=============================================================================
