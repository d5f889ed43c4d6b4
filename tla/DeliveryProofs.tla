---------------------------- MODULE DeliveryProofs ----------------------------
(***************************************************************************)
(* What holds of the messages on their way, for any devices, spaces,       *)
(* commands, policies and faults.                                          *)
(***************************************************************************)
EXTENDS Delivery, SequenceTheorems, WellFoundedInduction, FiniteSetTheorems, TLAPS

\* Leg l is one of device d's.
At(d, l) == l \in Legs /\ Given(l) /\ Dev(l) = d
Heard(d, l) == \E h \in heard[d] : h.leg = l

\* Answers that say what became of the message.
Final == Refusals \cup {"spoken", "cancelled", "rejected", "noEngine"}

-----------------------------------------------------------------------------
(* Facts about the sequence operators that the queues are built from.      *)

\* Removing position i leaves the others: those before it where they are,
\* those behind it one position forward (VecDeque::remove).
LEMMA RemoveAtFacts ==
    ASSUME NEW S, NEW s \in Seq(S), NEW i \in DOMAIN s
    PROVE  /\ RemoveAt(s, i) \in Seq(S)
           /\ Len(RemoveAt(s, i)) = Len(s) - 1
           /\ \A k \in 1 .. Len(s) - 1 :
                RemoveAt(s, i)[k] = IF k < i THEN s[k] ELSE s[k + 1]
  <1>1. PICK n, l, r : n = Len(s) /\ l = SubSeq(s, 1, i - 1) /\ r = SubSeq(s, i + 1, Len(s))
    OBVIOUS
  <1>2. n \in Nat /\ i \in 1 .. n /\ DOMAIN s = 1 .. n
    BY <1>1
  <1>3. l \in Seq(S) /\ Len(l) = i - 1 /\ \A k \in 1 .. i - 1 : l[k] = s[k]
    BY <1>1, <1>2
  <1>4. r \in Seq(S) /\ Len(r) = n - i /\ \A k \in 1 .. n - i : r[k] = s[i + k]
    BY <1>1, <1>2
  <1>5. /\ l \o r \in Seq(S) /\ Len(l \o r) = n - 1
        /\ \A k \in 1 .. n - 1 : (l \o r)[k] = IF k < i THEN l[k] ELSE r[k - i + 1]
    BY <1>2, <1>3, <1>4
  <1>6. RemoveAt(s, i) = l \o r
    BY <1>1 DEF RemoveAt
  <1>7. ASSUME NEW k \in 1 .. n - 1
        PROVE  (l \o r)[k] = IF k < i THEN s[k] ELSE s[k + 1]
    <2>1. k < i => l[k] = s[k]
      BY <1>2, <1>3
    <2>2. ~(k < i) => r[k - i + 1] = s[k + 1]
      <3>1. ~(k < i) => k - i + 1 \in 1 .. n - i /\ i + (k - i + 1) = k + 1
        BY <1>2
      <3> QED  BY <1>4, <3>1
    <2> QED  BY <1>5, <2>1, <2>2
  <1> QED  BY <1>1, <1>5, <1>6, <1>7

\* What is left after a removal was there before it.
LEMMA RemoveAtElements ==
    ASSUME NEW S, NEW s \in Seq(S), NEW i \in DOMAIN s
    PROVE  \A k \in DOMAIN RemoveAt(s, i) :
              \E n \in DOMAIN s : n # i /\ RemoveAt(s, i)[k] = s[n]
  <1> SUFFICES ASSUME NEW k \in 1 .. Len(s) - 1
               PROVE  \E n \in DOMAIN s : n # i /\ RemoveAt(s, i)[k] = s[n]
    BY RemoveAtFacts, LenProperties
  <1>0. RemoveAt(s, i)[k] = IF k < i THEN s[k] ELSE s[k + 1]
    BY RemoveAtFacts
  <1>1. k < i => RemoveAt(s, i)[k] = s[k] /\ k \in DOMAIN s
    BY <1>0
  <1>2. ~(k < i) => RemoveAt(s, i)[k] = s[k + 1] /\ k + 1 \in DOMAIN s /\ k + 1 # i
    BY <1>0
  <1> QED  BY <1>1, <1>2

\* The elements of a sequence, as a set.
LEMMA ToSetOf ==
    ASSUME NEW S, NEW s \in Seq(S)
    PROVE  /\ ToSet(s) \subseteq S
           /\ \A x : x \in ToSet(s) <=> \E n \in DOMAIN s : s[n] = x
  BY DEF ToSet

\* Every element of a concatenation is one of the two sequences'.
LEMMA ConcatElements ==
    ASSUME NEW S, NEW s \in Seq(S), NEW t \in Seq(S)
    PROVE  /\ s \o t \in Seq(S)
           /\ \A n \in DOMAIN (s \o t) :
                \/ \E k \in DOMAIN s : (s \o t)[n] = s[k]
                \/ \E k \in DOMAIN t : (s \o t)[n] = t[k]
  OBVIOUS

\* VecDeque::push_back of something new.
LEMMA AppendInjectiveSeq ==
    ASSUME NEW S, NEW s \in Seq(S), NEW x \in S
    PROVE  /\ ToSet(Append(s, x)) = ToSet(s) \cup {x}
           /\ IsInjective(s) /\ x \notin ToSet(s) => IsInjective(Append(s, x))
  BY DEF ToSet, IsInjective

\* A sequence has the elements that are left and the one that was removed.
LEMMA RemoveAtSet ==
    ASSUME NEW S, NEW s \in Seq(S), NEW i \in DOMAIN s
    PROVE  ToSet(s) = ToSet(RemoveAt(s, i)) \cup {s[i]}
  <1>1. PICK r : r = RemoveAt(s, i)
    OBVIOUS
  <1>2. /\ DOMAIN r = 1 .. Len(s) - 1 /\ DOMAIN s = 1 .. Len(s) /\ Len(s) \in Nat
        /\ \A k \in 1 .. Len(s) - 1 : r[k] = IF k < i THEN s[k] ELSE s[k + 1]
    BY <1>1, RemoveAtFacts, LenProperties
  <1>3. ASSUME NEW n \in 1 .. Len(s), n # i
        PROVE  \E k \in 1 .. Len(s) - 1 : r[k] = s[n]
    <2>1. CASE n < i
      BY <1>2, <2>1
    <2>2. CASE ~(n < i)
      <3>1. n - 1 \in 1 .. Len(s) - 1 /\ r[n - 1] = s[n]
        BY <1>2, <1>3, <2>2
      <3> QED  BY <3>1
    <2> QED  BY <2>1, <2>2
  <1>4. \A k \in DOMAIN r : \E n \in DOMAIN s : r[k] = s[n]
    BY <1>1, RemoveAtElements
  <1>5. ToSet(s) \subseteq ToSet(r) \cup {s[i]}
    BY SMTT(30), <1>2, <1>3 DEF ToSet
  <1>6. ToSet(r) \cup {s[i]} \subseteq ToSet(s)
    BY <1>4 DEF ToSet
  <1> QED  BY <1>1, <1>5, <1>6

-----------------------------------------------------------------------------
(* Induction, with a set in the place of a predicate: a set of numbers that *)
(* is not empty has a least one.                                            *)

LEMMA LeastNumber ==
    ASSUME NEW T \in SUBSET Nat, T # {}
    PROVE  \E x \in T : \A y \in T : x <= y
  <1>1. PICK R : R = {p \in Nat \X Nat : p[1] < p[2]}
    OBVIOUS
  <1>2. IsWellFoundedOn(R, Nat)
    BY <1>1, NatLessThanWellFounded DEF OpToRel
  <1>3. PICK x \in T : \A y \in T : ~ (<<y, x>> \in R)
    BY <1>2, WFMin
  <1>4. ASSUME NEW y \in T PROVE x <= y
    <2>1. y \in Nat /\ x \in Nat /\ <<y, x>> \notin R
      BY <1>3
    <2>2. ~(y < x)
      BY <1>1, <2>1
    <2> QED  BY <2>1, <2>2
  <1> QED  BY <1>4

\* What holds of 0, and of i + 1 if of i, holds up to n.
LEMMA Induct ==
    ASSUME NEW n \in Nat, NEW T, 0 \in T, \A i \in 0 .. n - 1 : i \in T => i + 1 \in T
    PROVE  \A i \in 0 .. n : i \in T
  <1>1. PICK bad : bad = {i \in 0 .. n : i \notin T}
    OBVIOUS
  <1>2. CASE bad = {}
    BY <1>1, <1>2
  <1>3. CASE bad # {}
    <2>1. bad \in SUBSET Nat
      BY <1>1
    <2>2. PICK x \in bad : \A y \in bad : x <= y
      BY <1>3, <2>1, LeastNumber
    <2>3. x \in 0 .. n /\ x \notin T /\ x # 0
      BY <1>1
    <2>4. x - 1 \in 0 .. n - 1 /\ x - 1 + 1 = x /\ x - 1 \in 0 .. n
      BY <2>3
    <2>5. x - 1 \notin bad
      BY <2>2, <2>3
    <2> QED  BY <1>1, <2>3, <2>4, <2>5
  <1> QED  BY <1>2, <1>3

\* The greatest of some numbers up to n + 1 that has n + 1.
LEMMA MaxIs ==
    ASSUME NEW n \in Nat, NEW T \in SUBSET (1 .. n + 1), n + 1 \in T
    PROVE  Max(T) = n + 1
  <1>1. n + 1 \in T /\ \A y \in T : n + 1 >= y
    OBVIOUS
  <1>2. \A x \in T : (\A y \in T : x >= y) => x = n + 1
    <2> SUFFICES ASSUME NEW x \in T, \A y \in T : x >= y
                 PROVE  x = n + 1
      OBVIOUS
    <2>1. x \in 1 .. n + 1 /\ x >= n + 1
      OBVIOUS
    <2> QED  BY <2>1
  <1>3. Max(T) \in T /\ \A y \in T : Max(T) >= y
    BY <1>1 DEF Max
  <1> QED  BY <1>2, <1>3

\* The greatest of some numbers up to n is one of them.
LEMMA MaxIn ==
    ASSUME NEW n \in Nat, NEW T \in SUBSET (1 .. n), T # {}
    PROVE  Max(T) \in T
  <1>1. PICK U : U = {n - x : x \in T}
    OBVIOUS
  <1>2. U \in SUBSET Nat /\ U # {}
    <2>1. \A x \in T : n - x \in Nat
      OBVIOUS
    <2> QED  BY <1>1, <2>1
  <1>3. PICK u \in U : \A y \in U : u <= y
    BY <1>2, LeastNumber
  <1>4. PICK x \in T : u = n - x
    BY <1>1
  <1>5. ASSUME NEW y \in T PROVE x >= y
    <2>1. n - y \in U /\ n - x <= n - y
      BY <1>1, <1>3, <1>4
    <2>2. x \in 1 .. n /\ y \in 1 .. n
      OBVIOUS
    <2> QED  BY <2>1, <2>2
  <1> QED  BY <1>5 DEF Max

\* g is FoldLeft's function over the sets of the first k positions, if the step is
\* a function.
Folding(g, k, T, base, step) ==
    /\ g \in [SUBSET (1 .. k) -> T]
    /\ \A x \in SUBSET (1 .. k) :
          g[x] = IF x = {} THEN base ELSE step[<<Max(x), g[x \ {Max(x)}]>>]

\* There is such a function.
LEMMA FoldExists ==
    ASSUME NEW n \in Nat, NEW T, NEW base \in T, NEW step \in [(1 .. n) \X T -> T]
    PROVE  \E g : Folding(g, n, T, base, step)
  <1> DEFINE Fits(k, g) == Folding(g, k, T, base, step)
  <1>1. PICK good : good = {k \in 0 .. n : \E g : Fits(k, g)}
    OBVIOUS
  <1>2. 0 \in good
    <2>1. SUBSET (1 .. 0) = {{}}
      OBVIOUS
    <2>2. PICK g : g = [x \in SUBSET (1 .. 0) |-> base]
      OBVIOUS
    <2>3. Fits(0, g)
      BY <2>1, <2>2 DEF Folding
    <2>4. 0 \in 0 .. n
      OBVIOUS
    <2> HIDE DEF Fits
    <2> QED  BY <1>1, <2>3, <2>4
  <1>3. ASSUME NEW i \in 0 .. n - 1, i \in good
        PROVE  i + 1 \in good
    <2>1. PICK g : Fits(i, g)
      BY <1>1, <1>3
    <2> USE DEF Folding
    <2>2. PICK h : h = [x \in SUBSET (1 .. i + 1) |->
                          IF i + 1 \in x THEN step[<<i + 1, g[x \ {i + 1}]>>] ELSE g[x]]
      OBVIOUS
    <2>3. ASSUME NEW x \in SUBSET (1 .. i + 1)
          PROVE  /\ x \ {i + 1} \in SUBSET (1 .. i)
                 /\ i + 1 \notin x => x \in SUBSET (1 .. i)
      OBVIOUS
    <2>4. h \in [SUBSET (1 .. i + 1) -> T]
      <3>1. ASSUME NEW x \in SUBSET (1 .. i + 1)
            PROVE  (IF i + 1 \in x THEN step[<<i + 1, g[x \ {i + 1}]>>] ELSE g[x]) \in T
        <4>1. g[x \ {i + 1}] \in T /\ (i + 1 \notin x => g[x] \in T)
          BY <2>1, <2>3
        <4>2. <<i + 1, g[x \ {i + 1}]>> \in (1 .. n) \X T
          BY <4>1
        <4> QED  BY <4>1, <4>2
      <3> QED  BY <2>2, <3>1
    <2>5. ASSUME NEW x \in SUBSET (1 .. i + 1)
          PROVE  h[x] = IF x = {} THEN base ELSE step[<<Max(x), h[x \ {Max(x)}]>>]
      <3>1. CASE i + 1 \in x
        <4>1. Max(x) = i + 1
          BY <3>1, MaxIs
        <4>2. x \ {i + 1} \in SUBSET (1 .. i + 1) /\ i + 1 \notin x \ {i + 1}
          OBVIOUS
        <4>3. h[x \ {i + 1}] = g[x \ {i + 1}]
          BY <2>2, <4>2
        <4>4. h[x] = step[<<i + 1, g[x \ {i + 1}]>>]
          BY <2>2, <3>1
        <4> QED  BY <3>1, <4>1, <4>3, <4>4
      <3>2. CASE i + 1 \notin x
        <4>1. x \in SUBSET (1 .. i)
          BY <2>3, <3>2
        <4>2. h[x] = g[x]
          BY <2>2, <3>2
        <4>3. g[x] = IF x = {} THEN base ELSE step[<<Max(x), g[x \ {Max(x)}]>>]
          BY <2>1, <4>1
        <4>4. h[x \ {Max(x)}] = g[x \ {Max(x)}]
          <5>1. x \ {Max(x)} \in SUBSET (1 .. i + 1) /\ i + 1 \notin x \ {Max(x)}
            BY <3>2
          <5> QED  BY <2>2, <5>1
        <4> QED  BY <4>2, <4>3, <4>4
      <3> QED  BY <3>1, <3>2
    <2>6. Fits(i + 1, h)
      BY <2>4, <2>5
    <2>7. i + 1 \in 0 .. n
      OBVIOUS
    <2> QED  BY <1>1, <2>6, <2>7
  <1>4. n \in good
    BY <1>2, <1>3, Induct
  <1> QED  BY <1>1, <1>4

-----------------------------------------------------------------------------
(* The books of a leg: who holds its job, what was heard, what was replied. *)

\* A job that waits at d or is spoken there: asked for there, or a leg's whose
\* outcome is open.
Sound(d, j) ==
    /\ j.asked <=> j.leg = None
    /\ ~j.asked =>
          /\ At(d, j.leg) /\ j.id = j.leg[1]
          /\ host[j.leg] \in {"waiting", "replying", "over"} /\ reply[j.leg] \notin Final
          /\ ~Heard(d, j.leg)

Booked ==
    \A d \in Devices :
        /\ \A i \in DOMAIN queue[d] : Sound(d, queue[d][i])
        /\ saying[d] # None => Sound(d, saying[d])
        /\ \A i, k \in DOMAIN queue[d] :
              queue[d][i].leg = queue[d][k].leg /\ ~queue[d][i].asked => i = k
        /\ \A i \in DOMAIN queue[d] :
              saying[d] # None /\ ~saying[d].asked => saying[d].leg # queue[d][i].leg
        /\ \A h \in heard[d] : h.leg # None =>
              /\ At(d, h.leg) /\ h.id = h.leg[1]
              /\ host[h.leg] \in {"replying", "over"}

\* What a leg was told, or will be.
Told ==
    \A l \in Legs :
        /\ host[l] # "no" => Given(l)
        /\ reply[l] # None => host[l] \in {"refused", "replying", "over"}
        /\ reply[l] = "spoken" => LegHeard(l)
        /\ reply[l] \in Final \ {"spoken"} => ~LegHeard(l)
        /\ answer[l] \notin {None, "unreachable"} => host[l] = "over" /\ reply[l] = answer[l]

LegInv == TypeOK /\ Booked /\ Told

-----------------------------------------------------------------------------
(* One leg for a device and a space. *)

\* No command has two legs to the same target.
Single == \A m \in Sends : targets[m] # None => IsInjective(targets[m])

\* What a device hears, and what still waits there, comes in a space; one command
\* comes in one space once.
Through(l) == Target(l).space
OncePerSpace ==
    \A d \in Devices :
        LET sent == {h \in heard[d] : h.leg # None}
            line == <<saying[d]>> \o queue[d]
            owed == {i \in DOMAIN line : line[i] # None /\ ~line[i].asked}
        IN  /\ \A g, h \in sent : g.id = h.id /\ Through(g.leg) = Through(h.leg) => g = h
            /\ \A i \in owed :
                  /\ \A h \in sent : h.id = line[i].id => Through(h.leg) # Through(line[i].leg)
                  /\ \A k \in owed : line[k].id = line[i].id /\ Through(line[k].leg) = Through(line[i].leg)
                                      => k = i

\* The newest entry of a message says "queued" only while one of its legs is on its
\* way.  An older entry of the same message, which came in another space, may say so
\* for ever: set_status does not reach it.
NewestIsLive ==
    \A d \in Devices \ restarted : \A i \in DOMAIN history[d] :
        i \in Newest(history[d], history[d][i].id) /\ history[d][i].status = "queued"
            => InHand(d, history[d][i].id)

Waits(d, j) == (\E i \in DOMAIN queue[d] : queue[d][i] = j) \/ (j = saying[d] /\ j # None)
Pending(d, id) ==
    \/ \E l \in Legs : At(d, l) /\ l[1] = id /\ host[l] \in {"recorded", "refused", "cleared"}
    \/ \E j : Waits(d, j) /\ j.id = id
Live ==
    \A d \in Devices \ restarted : \A i \in DOMAIN history[d] :
        i \in Newest(history[d], history[d][i].id) /\ history[d][i].status = "queued"
            => Pending(d, history[d][i].id)

LiveInv == LegInv /\ Live

-----------------------------------------------------------------------------
(* What was let through. *)

Would(g, space, priority) ==
    Verdicts(g[1].device, IF space = None THEN Open ELSE g[1].over[space], priority, g[2], 0) = "speak"

LetThrough ==
    /\ \A l \in Legs : host[l] = "cleared" =>
          Given(l) /\ Would(granted[l], Target(l).space, Cmd[l[1]].priority)
    /\ \A d \in Devices : \A i \in DOMAIN queue[d] :
          ~queue[d][i].asked => Would(queue[d][i].then, queue[d][i].space, queue[d][i].priority)

PassInv == TypeOK /\ LetThrough /\ RefusedForCause

-----------------------------------------------------------------------------
(* Resolving: what push_target and the loops around it compute, for any     *)
(* number of targets.                                                       *)

\* FoldLeft by Push goes through the targets from the first to the last.
LEMMA PushAllIs ==
    ASSUME NEW S, NEW t \in Seq(S), NEW s \in Seq(S)
    PROVE  \E F : /\ F[0] = t
                  /\ \A i \in 1 .. Len(s) : F[i] = Push(F[i - 1], s[i])
                  /\ PushAll(t, s) = F[Len(s)]
  <1>0. PICK n : n = Len(s)
    OBVIOUS
  <1> DEFINE Runs(f) == f = [x \in SUBSET DOMAIN s |->
                               IF x = {} THEN t ELSE Push(f[x \ {Max(x)}], s[Max(x)])]
  <1>1. n \in Nat /\ DOMAIN s = 1 .. n /\ \A i \in 1 .. n : s[i] \in S
    BY <1>0, LenProperties, ElementOfSeq
  <1>2. PICK step : step = [p \in (1 .. n) \X Seq(S) |-> Push(p[2], s[p[1]])]
    OBVIOUS
  <1>3. step \in [(1 .. n) \X Seq(S) -> Seq(S)]
    <2>1. \A p \in (1 .. n) \X Seq(S) : Push(p[2], s[p[1]]) \in Seq(S)
      BY <1>1, AppendProperties DEF Push
    <2> QED  BY <1>2, <2>1
  <1>4. PICK g \in [SUBSET (1 .. n) -> Seq(S)] :
            \A x \in SUBSET (1 .. n) :
                g[x] = IF x = {} THEN t ELSE step[<<Max(x), g[x \ {Max(x)}]>>]
    <2>1. PICK T : T = Seq(S)
      OBVIOUS
    <2>2. n \in Nat /\ t \in T /\ step \in [(1 .. n) \X T -> T]
      BY <1>1, <1>3, <2>1
    <2>3. PICK g : Folding(g, n, T, t, step)
      BY <2>2, FoldExists
    <2> QED  BY <2>1, <2>3 DEF Folding
  <1>5. \A x \in SUBSET (1 .. n) : g[x] = IF x = {} THEN t ELSE Push(g[x \ {Max(x)}], s[Max(x)])
    <2> SUFFICES ASSUME NEW x \in SUBSET (1 .. n), x # {}
                 PROVE  g[x] = Push(g[x \ {Max(x)}], s[Max(x)])
      BY <1>4
    <2>1. Max(x) \in 1 .. n
      BY <1>1, MaxIn
    <2>2. g[x \ {Max(x)}] \in Seq(S)
      BY <1>4
    <2>3. step[<<Max(x), g[x \ {Max(x)}]>>] = Push(g[x \ {Max(x)}], s[Max(x)])
      BY <1>2, <2>1, <2>2
    <2> QED  BY <1>4, <2>3
  <1>6. Runs(g)
    BY <1>1, <1>4, <1>5
  <1>7. PICK f : Runs(f) /\ PushAll(t, s) = f[DOMAIN s]
    BY <1>6 DEF PushAll, FoldLeft, MapThenFoldSet
  <1>8. PICK F : F = [i \in 0 .. n |-> f[1 .. i]]
    OBVIOUS
  <1>9. ASSUME NEW i \in 1 .. n
        PROVE  F[i] = Push(F[i - 1], s[i])
    <2>1. 1 .. i \in SUBSET DOMAIN s /\ 1 .. i # {} /\ Max(1 .. i) = i /\ (1 .. i) \ {i} = 1 .. i - 1
      <3>1. i - 1 \in Nat /\ i - 1 + 1 = i /\ i \in 1 .. i /\ 1 .. i \in SUBSET (1 .. i)
        BY <1>1
      <3>2. Max(1 .. i) = i
        BY <3>1, MaxIs
      <3>3. 1 .. i \subseteq 1 .. n /\ (1 .. i) \ {i} = 1 .. i - 1
        BY <1>1
      <3> QED  BY <1>1, <3>1, <3>2, <3>3
    <2>2. f[1 .. i] = Push(f[1 .. i - 1], s[i])
      BY <1>7, <2>1
    <2> QED  BY <1>1, <1>8, <2>2
  <1>10. F[0] = t
    <2>1. 1 .. 0 = {} /\ {} \in SUBSET DOMAIN s
      OBVIOUS
    <2>2. f[{}] = t
      BY <1>7, <2>1
    <2> QED  BY <1>1, <1>8, <2>1, <2>2
  <1>11. PushAll(t, s) = F[n]
    BY <1>1, <1>7, <1>8
  <1> QED  BY <1>0, <1>9, <1>10, <1>11

\* push_target: whatever is pushed, however often, no target is there twice.
LEMMA PushAllOnce ==
    ASSUME NEW S, NEW t \in Seq(S), IsInjective(t), NEW s \in Seq(S)
    PROVE  PushAll(t, s) \in Seq(S) /\ IsInjective(PushAll(t, s))
  <1>1. PICK F : /\ F[0] = t
                 /\ \A i \in 1 .. Len(s) : F[i] = Push(F[i - 1], s[i])
                 /\ PushAll(t, s) = F[Len(s)]
    BY PushAllIs
  <1>0. PICK n : n = Len(s)
    OBVIOUS
  <1>2. n \in Nat /\ \A i \in 1 .. n : s[i] \in S
    BY <1>0, LenProperties, ElementOfSeq
  <1>3. PICK good : good = {i \in 0 .. n : F[i] \in Seq(S) /\ IsInjective(F[i])}
    OBVIOUS
  <1>4. 0 \in good
    BY <1>1, <1>2, <1>3
  <1>5. ASSUME NEW i \in 0 .. n - 1, i \in good
        PROVE  i + 1 \in good
    <2>1. i + 1 \in 1 .. n /\ i + 1 - 1 = i /\ i + 1 \in 0 .. n
      BY <1>2
    <2>2. F[i + 1] = Push(F[i], s[i + 1])
      BY <1>0, <1>1, <2>1
    <2>3. F[i] \in Seq(S) /\ IsInjective(F[i]) /\ s[i + 1] \in S
      BY <1>2, <1>3, <1>5, <2>1
    <2>4. Append(F[i], s[i + 1]) \in Seq(S)
      BY <2>3, AppendProperties
    <2>5. s[i + 1] \notin ToSet(F[i]) => IsInjective(Append(F[i], s[i + 1]))
      BY <2>3, AppendInjectiveSeq
    <2> QED  BY <1>3, <2>1, <2>2, <2>3, <2>4, <2>5 DEF Push
  <1>6. n \in good
    <2>1. n \in Nat
      BY <1>2
    <2>2. \A i \in 0 .. n : i \in good
      BY <1>4, <1>5, <2>1, Induct
    <2> QED  BY <2>1, <2>2
  <1> QED  BY <1>0, <1>1, <1>3, <1>6

LEMMA PushAllTypes ==
    ASSUME NEW S, NEW t \in Seq(S), NEW s \in Seq(S)
    PROVE  PushAll(t, s) \in Seq(S)
  <1>1. PICK F : /\ F[0] = t
                 /\ \A i \in 1 .. Len(s) : F[i] = Push(F[i - 1], s[i])
                 /\ PushAll(t, s) = F[Len(s)]
    BY PushAllIs
  <1>0. PICK n : n = Len(s)
    OBVIOUS
  <1>2. n \in Nat /\ \A i \in 1 .. n : s[i] \in S
    BY <1>0, LenProperties, ElementOfSeq
  <1>3. PICK good : good = {i \in 0 .. n : F[i] \in Seq(S)}
    OBVIOUS
  <1>4. 0 \in good
    BY <1>1, <1>2, <1>3
  <1>5. ASSUME NEW i \in 0 .. n - 1, i \in good
        PROVE  i + 1 \in good
    <2>1. i + 1 \in 1 .. n /\ i + 1 - 1 = i /\ i + 1 \in 0 .. n
      BY <1>2
    <2>2. F[i + 1] = Push(F[i], s[i + 1])
      BY <1>0, <1>1, <2>1
    <2>3. F[i] \in Seq(S) /\ s[i + 1] \in S
      BY <1>2, <1>3, <1>5, <2>1
    <2>4. Append(F[i], s[i + 1]) \in Seq(S)
      BY <2>3, AppendProperties
    <2> QED  BY <1>3, <2>1, <2>2, <2>3, <2>4 DEF Push
  <1>6. n \in good
    <2>1. n \in Nat
      BY <1>2
    <2>2. \A i \in 0 .. n : i \in good
      BY <1>4, <1>5, <2>1, Induct
    <2> QED  BY <2>1, <2>2
  <1> QED  BY <1>0, <1>1, <1>3, <1>6

\* The loop over the elements of a selector.
LEMMA FoldTargetsIs ==
    ASSUME NEW S, NEW s \in Seq(Seq(S))
    PROVE  \E F : /\ F[0] = <<>>
                  /\ \A i \in 1 .. Len(s) : F[i] = PushAll(F[i - 1], s[i])
                  /\ FoldLeft(PushAll, <<>>, s) = F[Len(s)]
  <1>0. PICK n : n = Len(s)
    OBVIOUS
  <1> DEFINE Runs(f) == f = [x \in SUBSET DOMAIN s |->
                               IF x = {} THEN <<>> ELSE PushAll(f[x \ {Max(x)}], s[Max(x)])]
  <1>1. n \in Nat /\ DOMAIN s = 1 .. n /\ \A i \in 1 .. n : s[i] \in Seq(S)
    BY <1>0, LenProperties, ElementOfSeq
  <1>2. PICK step : step = [p \in (1 .. n) \X Seq(S) |-> PushAll(p[2], s[p[1]])]
    OBVIOUS
  <1>3. step \in [(1 .. n) \X Seq(S) -> Seq(S)]
    <2>1. \A p \in (1 .. n) \X Seq(S) : PushAll(p[2], s[p[1]]) \in Seq(S)
      BY <1>1, PushAllTypes
    <2> QED  BY <1>2, <2>1
  <1>4. PICK g \in [SUBSET (1 .. n) -> Seq(S)] :
            \A x \in SUBSET (1 .. n) :
                g[x] = IF x = {} THEN <<>> ELSE step[<<Max(x), g[x \ {Max(x)}]>>]
    <2>1. PICK T : T = Seq(S)
      OBVIOUS
    <2>2. n \in Nat /\ <<>> \in T /\ step \in [(1 .. n) \X T -> T]
      BY <1>1, <1>3, <2>1
    <2>3. PICK g : Folding(g, n, T, <<>>, step)
      BY <2>2, FoldExists
    <2> QED  BY <2>1, <2>3 DEF Folding
  <1>5. \A x \in SUBSET (1 .. n) : g[x] = IF x = {} THEN <<>> ELSE PushAll(g[x \ {Max(x)}], s[Max(x)])
    <2> SUFFICES ASSUME NEW x \in SUBSET (1 .. n), x # {}
                 PROVE  g[x] = PushAll(g[x \ {Max(x)}], s[Max(x)])
      BY <1>4
    <2>1. Max(x) \in 1 .. n
      BY <1>1, MaxIn
    <2>2. g[x \ {Max(x)}] \in Seq(S)
      BY <1>4
    <2>3. step[<<Max(x), g[x \ {Max(x)}]>>] = PushAll(g[x \ {Max(x)}], s[Max(x)])
      BY <1>2, <2>1, <2>2
    <2> QED  BY <1>4, <2>3
  <1>6. Runs(g)
    BY <1>1, <1>4, <1>5
  <1>7. PICK f : Runs(f) /\ FoldLeft(PushAll, <<>>, s) = f[DOMAIN s]
    BY <1>6 DEF FoldLeft, MapThenFoldSet
  <1>8. PICK F : F = [i \in 0 .. n |-> f[1 .. i]]
    OBVIOUS
  <1>9. ASSUME NEW i \in 1 .. n
        PROVE  F[i] = PushAll(F[i - 1], s[i])
    <2>1. 1 .. i \in SUBSET DOMAIN s /\ 1 .. i # {} /\ Max(1 .. i) = i /\ (1 .. i) \ {i} = 1 .. i - 1
      <3>1. i - 1 \in Nat /\ i - 1 + 1 = i /\ i \in 1 .. i /\ 1 .. i \in SUBSET (1 .. i)
        BY <1>1
      <3>2. Max(1 .. i) = i
        BY <3>1, MaxIs
      <3>3. 1 .. i \subseteq 1 .. n /\ (1 .. i) \ {i} = 1 .. i - 1
        BY <1>1
      <3> QED  BY <1>1, <3>1, <3>2, <3>3
    <2>2. f[1 .. i] = PushAll(f[1 .. i - 1], s[i])
      BY <1>7, <2>1
    <2> QED  BY <1>1, <1>8, <2>2
  <1>10. F[0] = <<>>
    <2>1. 1 .. 0 = {} /\ {} \in SUBSET DOMAIN s
      OBVIOUS
    <2>2. f[{}] = <<>>
      BY <1>7, <2>1
    <2> QED  BY <1>1, <1>8, <2>1, <2>2
  <1>11. FoldLeft(PushAll, <<>>, s) = F[n]
    <2>1. F[n] = f[DOMAIN s]
      BY <1>1, <1>8
    <2>2. FoldLeft(PushAll, <<>>, s) = f[DOMAIN s]
      BY <1>7
    <2> QED  BY <2>1, <2>2, Zenon
  <1> QED  BY <1>0, <1>9, <1>10, <1>11

\* No target is there twice when all elements are through.
LEMMA FoldTargetsOnce ==
    ASSUME NEW S, NEW s \in Seq(Seq(S))
    PROVE  FoldLeft(PushAll, <<>>, s) \in Seq(S) /\ IsInjective(FoldLeft(PushAll, <<>>, s))
  <1>1. PICK F : /\ F[0] = <<>>
                 /\ \A i \in 1 .. Len(s) : F[i] = PushAll(F[i - 1], s[i])
                 /\ FoldLeft(PushAll, <<>>, s) = F[Len(s)]
    BY FoldTargetsIs
  <1>0. PICK n : n = Len(s)
    OBVIOUS
  <1>2. n \in Nat /\ \A i \in 1 .. n : s[i] \in Seq(S)
    BY <1>0, LenProperties, ElementOfSeq
  <1>3. PICK good : good = {i \in 0 .. n : F[i] \in Seq(S) /\ IsInjective(F[i])}
    OBVIOUS
  <1>4. 0 \in good
    <2>1. <<>> \in Seq(S) /\ IsInjective(<<>>)
      BY DEF IsInjective
    <2>2. F[0] = <<>> /\ 0 \in 0 .. n
      BY <1>1, <1>2
    <2> QED  BY <1>3, <2>1, <2>2
  <1>5. ASSUME NEW i \in 0 .. n - 1, i \in good
        PROVE  i + 1 \in good
    <2>1. i + 1 \in 1 .. n /\ i + 1 - 1 = i /\ i + 1 \in 0 .. n
      BY <1>2
    <2>2. F[i + 1] = PushAll(F[i], s[i + 1])
      BY <1>0, <1>1, <2>1
    <2>3. F[i] \in Seq(S) /\ IsInjective(F[i]) /\ s[i + 1] \in Seq(S)
      BY <1>2, <1>3, <1>5, <2>1
    <2>4. PushAll(F[i], s[i + 1]) \in Seq(S) /\ IsInjective(PushAll(F[i], s[i + 1]))
      BY <2>3, PushAllOnce
    <2> QED  BY <1>3, <2>1, <2>2, <2>4
  <1>6. n \in good
    <2>1. n \in Nat
      BY <1>2
    <2>2. \A i \in 0 .. n : i \in good
      BY <1>4, <1>5, <2>1, Induct
    <2> QED  BY <2>1, <2>2
  <1> QED  BY <1>0, <1>1, <1>3, <1>6

\* What a selector can name: devices known to d, and d itself.
Nameable(d) == Knows(d) \cup {Here(d)}

LEMMA SetToSeqFacts ==
    ASSUME NEW S, IsFiniteSet(S)
    PROVE  SetToSeq(S) \in Seq(S)
  <1>1. PICK n : n = Cardinality(S)
    OBVIOUS
  <1>2. n \in Nat /\ \E f \in [1 .. n -> S] : IsInjective(f)
    BY <1>1, FS_CardinalityType DEF ExistsBijection, Bijection, Injection
  <1>3. SetToSeq(S) \in [1 .. n -> S]
    BY <1>1, <1>2 DEF SetToSeq
  <1> QED  BY <1>2, <1>3

LEMMA KnowsFinite ==
    ASSUME NEW d \in Devices
    PROVE  IsFiniteSet(Knows(d))
  <1>1. PICK P : P = (Devices \ {d}) \X Spaces
    OBVIOUS
  <1>2. IsFiniteSet(P)
    <2>1. IsFiniteSet(Devices \ {d}) /\ IsFiniteSet(Spaces)
      BY DeliveryAssumption, FS_RemoveElement
    <2> QED  BY <1>1, <2>1, FS_Product
  <1>3. PICK f : f = [p \in P |-> [dev |-> p[1], space |-> p[2]]]
    OBVIOUS
  <1>4. f \in Surjection(P, Known(d))
    <2>1. f \in [P -> Known(d)]
      BY <1>1, <1>3 DEF Known
    <2>2. \A k \in Known(d) : \E p \in P : f[p] = k
      <3> SUFFICES ASSUME NEW e \in Devices \ {d}, NEW s \in Spaces
                   PROVE  \E p \in P : f[p] = [dev |-> e, space |-> s]
        BY DEF Known
      <3>1. <<e, s>> \in P /\ f[<<e, s>>] = [dev |-> e, space |-> s]
        BY <1>1, <1>3
      <3> QED  BY <3>1
    <2> QED  BY <2>1, <2>2 DEF Surjection
  <1>5. IsFiniteSet(Known(d))
    BY <1>2, <1>4, FS_Surjection
  <1>6. Knows(d) \in SUBSET Known(d)
    BY DEF Knows
  <1> QED  BY <1>5, <1>6, FS_Subset

LEMMA MeansTypes ==
    ASSUME NEW d \in Devices, NEW e \in Elements
    PROVE  Means(d, e) \in Seq(Nameable(d))
  <1>1. \A S \in SUBSET Knows(d) : SetToSeq(S) \in Seq(Nameable(d))
    <2> SUFFICES ASSUME NEW S \in SUBSET Knows(d)
                 PROVE  SetToSeq(S) \in Seq(Nameable(d))
      OBVIOUS
    <2>1. IsFiniteSet(S)
      BY KnowsFinite, FS_Subset
    <2>2. SetToSeq(S) \in Seq(S) /\ S \subseteq Nameable(d)
      BY <2>1, SetToSeqFacts DEF Nameable
    <2> QED  BY <2>2
  <1>2. <<Here(d)>> \in Seq(Nameable(d))
    BY DEF Nameable
  <1>3. \A s : Everyone(d, s) \in Seq(Nameable(d))
    <2> SUFFICES ASSUME NEW s
                 PROVE  Everyone(d, s) \in Seq(Nameable(d))
      OBVIOUS
    <2>1. {k \in Knows(d) : k.space = s} \in SUBSET Knows(d)
      OBVIOUS
    <2>2. <<Here(d)>> \o SetToSeq({k \in Knows(d) : k.space = s}) \in Seq(Nameable(d))
      BY <1>1, <1>2, <2>1, ConcatElements
    <2> QED  BY <2>2 DEF Everyone
  <1>4. SetToSeq(Called(d, e)) \in Seq(Nameable(d))
    <2>1. Called(d, e) \in SUBSET Knows(d)
      BY DEF Called
    <2> QED  BY <1>1, <2>1
  <1> QED  BY <1>2, <1>3, <1>4 DEF Means

\* What a command is resolved to: devices its sender knows, none named twice.
LEMMA ResolveFacts ==
    ASSUME NEW d \in Devices, NEW selector \in Seq(Elements)
    PROVE  /\ Resolve(d, selector) \in Seq(Nameable(d))
           /\ Resolve(d, selector) \in Seq(Targets)
           /\ IsInjective(Resolve(d, selector))
  <1>1. PICK s : s = [i \in DOMAIN selector |-> Means(d, selector[i])]
    OBVIOUS
  <1>2. s \in Seq(Seq(Nameable(d)))
    <2>1. PICK n : n = Len(selector)
      OBVIOUS
    <2>2. n \in Nat /\ DOMAIN selector = 1 .. n /\ \A i \in 1 .. n : selector[i] \in Elements
      BY <2>1, LenProperties, ElementOfSeq
    <2>3. \A i \in 1 .. n : Means(d, selector[i]) \in Seq(Nameable(d))
      BY <2>2, MeansTypes
    <2>4. s \in [1 .. n -> Seq(Nameable(d))]
      BY <1>1, <2>2, <2>3
    <2> QED  BY <2>2, <2>4
  <1>3. /\ FoldLeft(PushAll, <<>>, s) \in Seq(Nameable(d))
        /\ IsInjective(FoldLeft(PushAll, <<>>, s))
    BY <1>2, FoldTargetsOnce
  <1>4. Resolve(d, selector) \in {<<>>, FoldLeft(PushAll, <<>>, s)}
    BY <1>1 DEF Resolve
  <1>5. <<>> \in Seq(Nameable(d)) /\ IsInjective(<<>>)
    BY DEF IsInjective
  <1>6. Nameable(d) \subseteq Targets
    BY DEF Nameable, Knows, Known, Here, Targets
  <1>7. Resolve(d, selector) \in Seq(Nameable(d)) /\ IsInjective(Resolve(d, selector))
    BY <1>3, <1>4, <1>5
  <1> QED  BY <1>6, <1>7

-----------------------------------------------------------------------------
(* Types. *)

LEMMA GivenIs ==
    ASSUME TypeOK, NEW l \in Legs, Given(l)
    PROVE  /\ l[1] \in Sends /\ targets[l[1]] \in Seq(Targets) /\ l[2] \in DOMAIN targets[l[1]]
           /\ Target(l) \in Targets
           /\ Dev(l) \in Devices /\ Target(l).space \in Spaces \cup {None}
           /\ At(Dev(l), l)
  <1>1. l[1] \in Sends /\ l[2] \in Int /\ 1 <= l[2]
    BY DEF Legs
  <1>2. targets[l[1]] \in Seq(Targets) /\ l[2] <= Len(targets[l[1]])
    BY <1>1 DEF TypeOK, Given
  <1>3. l[2] \in DOMAIN targets[l[1]]
    BY <1>1, <1>2, LenProperties
  <1>4. Target(l) \in Targets
    BY <1>2, <1>3, ElementOfSeq DEF Target
  <1>5. Dev(l) \in Devices /\ Target(l).space \in Spaces \cup {None}
    BY <1>4 DEF Dev, Targets
  <1> QED  BY <1>1, <1>2, <1>3, <1>4, <1>5 DEF At

LEMMA VerdictValues ==
    ASSUME NEW p, NEW o, NEW priority, NEW m, NEW depth
    PROVE  Verdicts(p, o, priority, m, depth) \in Refusals \cup {"speak"}
  <1>1. \A x : Verdict(x, priority, m, depth) \in Refusals \cup {"speak"}
    BY DEF Verdict, Refusals
  <1> QED  BY <1>1 DEF Verdicts

\* r is h and then e, without the first element of h perhaps.
Follows(r, h, e) ==
    \E off \in {0, 1} :
        /\ Len(h) - off + 1 = Len(r)
        /\ r[Len(h) - off + 1] = e
        /\ \A i \in 1 .. Len(h) - off : i + off \in DOMAIN h /\ r[i] = h[i + off]

LEMMA RecordFacts ==
    ASSUME NEW S, NEW h \in Seq(S), Len(h) <= Keep, NEW e \in S
    PROVE  /\ Record(h, e) \in Seq(S) /\ Len(Record(h, e)) <= Keep
           /\ Follows(Record(h, e), h, e)
  <1>0. Keep \in Nat \ {0}
    BY DeliveryAssumption
  <1>1. PICK n : n = Len(h)
    OBVIOUS
  <1>2. n \in Nat /\ DOMAIN h = 1 .. n
    BY <1>1, LenProperties
  <1>3. CASE n = Keep
    <2>1. PICK t : t = Tail(h)
      OBVIOUS
    <2>2. /\ t \in Seq(S) /\ Len(t) = n - 1 /\ DOMAIN t = 1 .. n - 1
          /\ \A i \in 1 .. n - 1 : t[i] = h[i + 1]
      BY <1>0, <1>1, <1>2, <1>3, <2>1, HeadTailProperties, LenProperties
    <2>3. PICK r : r = Append(t, e)
      OBVIOUS
    <2>4. /\ r \in Seq(S) /\ Len(r) = n /\ r[n] = e
          /\ \A i \in 1 .. n - 1 : r[i] = t[i]
      BY <1>2, <2>2, <2>3, AppendProperties
    <2>5. Record(h, e) = r
      BY <1>1, <1>3, <2>1, <2>3 DEF Record
    <2>6. \A i \in 1 .. n - 1 : i + 1 \in 1 .. n /\ r[i] = h[i + 1]
      BY <1>2, <2>2, <2>4
    <2>7. n - 1 + 1 = n
      BY <1>2
    <2>8. Follows(r, h, e)
      BY <1>1, <1>2, <2>4, <2>6, <2>7 DEF Follows
    <2> QED  BY <1>0, <1>3, <2>4, <2>5, <2>8
  <1>4. CASE n # Keep
    <2>1. PICK r : r = Append(h, e)
      OBVIOUS
    <2>2. /\ r \in Seq(S) /\ Len(r) = n + 1 /\ r[n + 1] = e
          /\ \A i \in 1 .. n : r[i] = h[i]
      BY <1>1, <1>2, <2>1, AppendProperties
    <2>3. Record(h, e) = r
      BY <1>1, <1>4, <2>1 DEF Record
    <2>4. n + 1 <= Keep /\ n - 0 + 1 = n + 1 /\ n - 0 = n
      BY <1>0, <1>1, <1>2, <1>4
    <2>5. \A i \in 1 .. n : i + 0 = i
      BY <1>2
    <2>6. Follows(r, h, e)
      BY <1>1, <1>2, <2>2, <2>4, <2>5 DEF Follows
    <2> QED  BY <2>2, <2>3, <2>4, <2>6
  <1> QED  BY <1>3, <1>4

LEMMA SetStatusFacts ==
    ASSUME NEW h \in Seq(Entries), NEW ids, NEW status \in Outcomes
    PROVE  LET r == SetStatus(h, ids, status) IN
           /\ r \in Seq(Entries) /\ Len(r) = Len(h) /\ DOMAIN r = DOMAIN h
           /\ \A i \in DOMAIN h :
                 /\ r[i].id = h[i].id /\ r[i].leg = h[i].leg
                 /\ (\E id \in ids : i \in Newest(h, id)) => r[i].status = status
                 /\ r[i].status # status => r[i] = h[i]
  <1>1. PICK n : n = Len(h)
    OBVIOUS
  <1>2. n \in Nat /\ DOMAIN h = 1 .. n /\ \A i \in 1 .. n : h[i] \in Entries
    BY <1>1, LenProperties, ElementOfSeq
  <1>3. PICK r : r = SetStatus(h, ids, status)
    OBVIOUS
  <1>4. PICK hit : hit = {i \in 1 .. n : \E id \in ids : i \in Newest(h, id)}
    OBVIOUS
  <1>5. r = [i \in 1 .. n |-> IF i \in hit THEN [h[i] EXCEPT !.status = status] ELSE h[i]]
    BY <1>2, <1>3, <1>4 DEF SetStatus
  <1>6. \A i \in 1 .. n : /\ r[i] \in Entries /\ r[i].id = h[i].id /\ r[i].leg = h[i].leg
                          /\ i \in hit => r[i].status = status
                          /\ i \notin hit => r[i] = h[i]
    BY <1>2, <1>5 DEF Entries
  <1>7. r \in Seq(Entries) /\ Len(r) = n /\ DOMAIN r = 1 .. n
    BY <1>2, <1>5, <1>6
  <1> QED  BY <1>1, <1>2, <1>3, <1>4, <1>6, <1>7

LEMMA EndsTypes ==
    ASSUME TypeOK, NEW d \in Devices, NEW jobs, NEW status \in Outcomes, Ends(d, jobs, status)
    PROVE  /\ history' \in [Devices -> Seq(Entries)] /\ \A e \in Devices : Len(history'[e]) <= Keep
           /\ host' \in [Legs -> Places]
           /\ \A l \in Legs : host'[l] = "cleared" => host[l] = "cleared"
           /\ reply' \in [Legs -> Answers \cup {None}]
           /\ \A l \in Legs : host'[l] = "refused" => reply'[l] \in Outcomes
  <1>1. PICK r : r = SetStatus(history[d], {j.id : j \in jobs}, status)
    OBVIOUS
  <1>2. history' = [history EXCEPT ![d] = r]
    BY <1>1 DEF Ends
  <1>3. history[d] \in Seq(Entries) /\ Len(history[d]) <= Keep
    BY DEF TypeOK
  <1>4. r \in Seq(Entries) /\ Len(r) <= Keep
    BY <1>1, <1>3, SetStatusFacts
  <1>5. history' \in [Devices -> Seq(Entries)] /\ \A e \in Devices : Len(history'[e]) <= Keep
    BY <1>2, <1>4 DEF TypeOK
  <1>6. PICK told : /\ host' = [l \in Legs |-> IF l \in told THEN "replying" ELSE host[l]]
                    /\ reply' = [l \in Legs |-> IF l \in told THEN status ELSE reply[l]]
    BY DEF Ends
  <1>7. status \in Answers
    BY DEF Answers
  <1> QED  BY <1>5, <1>6, <1>7 DEF TypeOK, Places

LEMMA TypeInit ==
    ASSUME Init
    PROVE  TypeOK
  <1>1. \A d \in Devices : policy[d] \in PolicySets
    <2>1. Open \in Policies /\ \A q \in Windows \cup {NoWindow} : [Open EXCEPT !.quiet = q] \in Policies
      BY DEF Open, Policies
    <2>2. PICK w \in [Devices -> Windows \cup {NoWindow}] :
              policy = [d \in Devices |-> [device |-> [Open EXCEPT !.quiet = w[d]],
                                           over |-> [s \in Spaces |-> Open]]]
      BY DEF Init
    <2> QED  BY <2>1, <2>2 DEF PolicySets
  <1>2. policy \in [Devices -> PolicySets]
    <2>1. PICK f : policy = [d \in Devices |-> f[d]]
      BY DEF Init
    <2> QED  BY <1>1, <2>1
  <1>3. <<>> \in Seq(Jobs) /\ <<>> \in Seq(Entries) /\ Len(<<>>) = 0
    OBVIOUS
  <1>4. 0 \in Minutes /\ Changes \in 0 .. Changes /\ 0 <= Keep
    BY DeliveryAssumption, PolicyAssumption DEF Minutes
  <1>5. \A l \in Legs : host[l] \notin {"cleared", "refused"} /\ host[l] \in Places
    BY DEF Init, Places
  <1> QED  BY <1>2, <1>3, <1>4, <1>5 DEF Init, TypeOK

LEMMA TypeLegs ==
    ASSUME TypeOK, NEW l \in Legs, Given(l), LegStep(l) \/ Lose(l)
    PROVE  TypeOK'
  <1>1. /\ l[1] \in Sends /\ Dev(l) \in Devices /\ Target(l).space \in Spaces \cup {None}
        /\ Cmd[l[1]].priority \in Priorities
    <2>1. l[1] \in Sends /\ Dev(l) \in Devices /\ Target(l).space \in Spaces \cup {None}
      BY GivenIs
    <2> QED  BY <2>1, DeliveryAssumption
  <1>2. CASE Dead(l) \/ Lose(l)
    <2>1. "unreachable" \in Answers
      BY DEF Answers
    <2> QED  BY ZenonT(60), <1>2, <2>1 DEF Dead, Lose, Report, TypeOK, hosts, speech, people, seen
  <1>3. CASE Receive(l)
    <2>1. PICK e : e = [id |-> l[1], leg |-> l, status |-> "queued"]
      OBVIOUS
    <2>2. e \in Entries
      BY <1>1, <2>1 DEF Entries
    <2>3. PICK r : r = Record(history[Dev(l)], e)
      OBVIOUS
    <2>4. r \in Seq(Entries) /\ Len(r) <= Keep
      BY <1>1, <2>2, <2>3, RecordFacts DEF TypeOK
    <2>5. history' = history \/ history' = [history EXCEPT ![Dev(l)] = r]
      BY <1>3, <2>1, <2>3 DEF Receive
    <2>6. history' \in [Devices -> Seq(Entries)] /\ \A d \in Devices : Len(history'[d]) <= Keep
      BY <1>1, <2>4, <2>5 DEF TypeOK
    <2>7. \E p \in {"recorded", "replying"}, s \in Answers \cup {None} : Goes(l, p, s)
      BY <1>3 DEF Receive, Answers
    <2>8. /\ host' \in [Legs -> Places]
          /\ reply' \in [Legs -> Answers \cup {None}]
          /\ \A k \in Legs : host'[k] = "cleared" => host[k] = "cleared"
          /\ \A k \in Legs : host'[k] = "refused" => reply'[k] \in Outcomes
      BY <2>7 DEF Goes, TypeOK, Places
    <2>9. UNCHANGED <<calls, granted, speech, people, minute, seen, restarted>>
      BY <1>3 DEF Receive
    <2> QED  BY <2>6, <2>8, <2>9 DEF TypeOK, calls, speech, people, seen
  <1>4. CASE Judge(l)
    <2>1. PICK v : v = Judgement(Dev(l), Target(l).space, Cmd[l[1]].priority, Len(queue[Dev(l)]))
      OBVIOUS
    <2>2. v \in Refusals \cup {"speak"}
      BY <2>1, VerdictValues DEF Judgement
    <2>3. <<policy[Dev(l)], minute>> \in Grants
      BY <1>1 DEF TypeOK, Grants
    <2>4. UNCHANGED <<calls, speech, people, minute, seen, restarted>>
      BY <1>4 DEF Judge
    <2>5. CASE /\ Goes(l, "cleared", None)
               /\ granted' = [granted EXCEPT ![l] = <<policy[Dev(l)], minute>>]
               /\ UNCHANGED history
      <3>1. /\ granted' \in [Legs -> Grants \cup {None}]
            /\ \A k \in Legs : host'[k] = "cleared" => granted'[k] \in Grants
            /\ \A k \in Legs : host'[k] = "refused" => reply'[k] \in Outcomes
        BY <2>3, <2>5 DEF Goes, TypeOK
      <3>2. /\ host' \in [Legs -> Places]
            /\ reply' \in [Legs -> Answers \cup {None}]
        BY <2>5 DEF Goes, TypeOK, Places
      <3> QED  BY <2>4, <2>5, <3>1, <3>2 DEF TypeOK, calls, speech, people, seen
    <2>6. CASE /\ \E status \in Outcomes : Goes(l, "refused", status)
               /\ UNCHANGED <<granted, history>>
      <3>1. PICK status \in Outcomes : Goes(l, "refused", status)
        BY <2>6
      <3>2. /\ host' \in [Legs -> Places]
            /\ reply' \in [Legs -> Answers \cup {None}]
            /\ \A k \in Legs : host'[k] = "cleared" => host[k] = "cleared"
            /\ \A k \in Legs : host'[k] = "refused" => reply'[k] \in Outcomes
        BY <3>1 DEF Goes, TypeOK, Answers, Places
      <3> QED  BY <2>4, <2>6, <3>2 DEF TypeOK, calls, speech, people, seen
    <2>7. Refusals \subseteq Outcomes /\ Faults \cap {"noEngine"} \subseteq Outcomes
      BY DEF Outcomes
    <2> QED  BY <1>4, <2>1, <2>2, <2>4, <2>5, <2>6, <2>7 DEF Judge
  <1>9. CASE Settle(l)
    <2>1. PICK status : status = reply[l]
      OBVIOUS
    <2>2. /\ history' = [history EXCEPT ![Dev(l)] = SetStatus(@, {l[1]}, status)]
          /\ Goes(l, "replying", status)
          /\ UNCHANGED <<calls, granted, speech, people, minute, seen, restarted>>
      BY <1>9, <2>1 DEF Settle
    <2>3. status \in Outcomes
      BY <1>9, <2>1 DEF Settle, TypeOK
    <2>4. PICK r : r = SetStatus(history[Dev(l)], {l[1]}, status)
      OBVIOUS
    <2>5. history[Dev(l)] \in Seq(Entries) /\ Len(history[Dev(l)]) <= Keep
      BY <1>1 DEF TypeOK
    <2>6. r \in Seq(Entries) /\ Len(r) <= Keep
      BY <2>3, <2>4, <2>5, SetStatusFacts
    <2>7. history' = [history EXCEPT ![Dev(l)] = r]
      BY <2>2, <2>4
    <2>8. history' \in [Devices -> Seq(Entries)] /\ \A d \in Devices : Len(history'[d]) <= Keep
      BY <1>1, <2>6, <2>7 DEF TypeOK
    <2>9. /\ host' \in [Legs -> Places]
          /\ reply' \in [Legs -> Answers \cup {None}]
          /\ \A k \in Legs : host'[k] = "cleared" => host[k] = "cleared"
          /\ \A k \in Legs : host'[k] = "refused" => reply'[k] \in Outcomes
      BY <2>2, <2>3 DEF Goes, TypeOK, Answers, Places
    <2> QED  BY <2>2, <2>8, <2>9 DEF TypeOK, calls, speech, people, seen
  <1>5. CASE Submit(l)
    <2>1. granted[l] \in Grants
      BY <1>5 DEF Submit, TypeOK
    <2>2. PICK j : j = Job(l)
      OBVIOUS
    <2>3. j \in Jobs
      BY <1>1, <2>1, <2>2 DEF Job, Jobs
    <2>4. queue' = [queue EXCEPT ![Dev(l)] = Append(@, j)]
      BY <1>5, <2>2 DEF Submit
    <2>5. queue' \in [Devices -> Seq(Jobs)]
      BY <1>1, <2>3, <2>4, AppendProperties DEF TypeOK
    <2>6. \E p \in {"waiting", "replying"}, s \in Answers \cup {None} : Goes(l, p, s)
      BY <1>5 DEF Submit, Answers
    <2>7. /\ host' \in [Legs -> Places]
          /\ reply' \in [Legs -> Answers \cup {None}]
          /\ \A k \in Legs : host'[k] = "cleared" => host[k] = "cleared"
          /\ \A k \in Legs : host'[k] = "refused" => reply'[k] \in Outcomes
      BY <2>6 DEF Goes, TypeOK, Places
    <2>8. UNCHANGED <<calls, granted, saying, paused, history, people, minute, seen, restarted>>
      BY <1>5 DEF Submit
    <2> QED  BY <2>5, <2>7, <2>8 DEF TypeOK, calls, people, seen
  <1>6. CASE Timeout(l) \/ Answer(l)
    <2>1. "speaking" \in Answers /\ reply[l] \in Answers \cup {None}
      BY DEF Answers, TypeOK
    <2>2. \E p \in {"over", "replying"}, s \in Answers \cup {None} : Goes(l, p, s)
      BY <1>6, <2>1 DEF Timeout, Answer
    <2>3. /\ host' \in [Legs -> Places]
          /\ reply' \in [Legs -> Answers \cup {None}]
          /\ \A k \in Legs : host'[k] = "cleared" => host[k] = "cleared"
          /\ \A k \in Legs : host'[k] = "refused" => reply'[k] \in Outcomes
      BY <2>2 DEF Goes, TypeOK, Places
    <2>4. targets' = targets /\ \/ Report(l, reply[l])
                                \/ UNCHANGED <<caller, answer>>
      BY <1>6 DEF Timeout, Answer, calls
    <2>5. /\ caller' \in [Legs -> {"no", "asking", "done"}]
          /\ answer' \in [Legs -> Answers \cup {None}]
      BY <2>1, <2>4 DEF Report, TypeOK
    <2>6. UNCHANGED <<granted, speech, history, people, minute, seen, restarted>>
      BY <1>6 DEF Timeout, Answer
    <2> QED  BY <2>3, <2>4, <2>5, <2>6 DEF TypeOK, speech, people, seen
  <1> QED  BY <1>2, <1>3, <1>4, <1>5, <1>6, <1>9 DEF LegStep

LEMMA FirstIn ==
    ASSUME NEW q \in Seq(Jobs), q # <<>>
    PROVE  First(q) \in DOMAIN q
  <1>1. PICK n : n = Len(q)
    OBVIOUS
  <1>2. n \in Nat /\ DOMAIN q = 1 .. n /\ 1 \in 1 .. n
    BY <1>1
  <1>3. PICK T : T = {i \in 1 .. n : Urgent(q[i])}
    OBVIOUS
  <1>4. CASE T = {}
    BY <1>2, <1>3, <1>4 DEF First
  <1>5. CASE T # {}
    <2>1. PICK i \in T : \A k \in T : i <= k
      <3>1. T \in SUBSET Nat
        BY <1>2, <1>3
      <3> QED  BY <1>5, <3>1, LeastNumber
    <2>2. i \in 1 .. n /\ Urgent(q[i])
      BY <1>3, <2>1
    <2>3. \A k \in 1 .. i - 1 : ~Urgent(q[k])
      <3>1. \A k \in 1 .. i - 1 : k \in 1 .. n /\ ~(i <= k)
        BY <1>2, <2>2
      <3> QED  BY <1>3, <2>1, <3>1
    <2> QED  BY <1>2, <2>2, <2>3 DEF First
  <1> QED  BY <1>4, <1>5

LEMMA TypeDevices ==
    ASSUME TypeOK, NEW d \in Devices, Speaks(d) \/ Person(d) \/ Restart(d)
    PROVE  TypeOK'
  <1>1. queue[d] \in Seq(Jobs) /\ saying[d] \in Jobs \cup {None} /\ policy[d] \in PolicySets
    BY DEF TypeOK
  <1>2. "cancelled" \in Outcomes /\ Refusals \cup {"spoken"} \cup (Faults \cap {"noEngine"}) \subseteq Outcomes
    BY DEF Outcomes
  <1>3. <<policy[d], minute>> \in Grants
    BY <1>1 DEF TypeOK, Grants
  <1>4. \A k : Intervene(d, k) => left' \in 0 .. Changes
    BY DeliveryAssumption DEF Intervene, TypeOK
  <1>5. <<>> \in Seq(Jobs)
    OBVIOUS
  <1>6. CASE Begin(d)
    <2>1. PICK i : i = First(queue[d])
      OBVIOUS
    <2>2. PICK j : j = queue[d][i]
      OBVIOUS
    <2>3. PICK v : v = Gate(d, j)
      OBVIOUS
    <2>4. i \in DOMAIN queue[d]
      <3>1. queue[d] # <<>>
        BY <1>6 DEF Begin
      <3> QED  BY <1>1, <2>1, <3>1, FirstIn
    <2>5. j \in Jobs
      BY <1>1, <2>2, <2>4, ElementOfSeq
    <2>6. v \in Refusals \cup {"speak"}
      BY <2>3, VerdictValues DEF Gate, Judgement
    <2>7. PICK q : q = RemoveAt(queue[d], i)
      OBVIOUS
    <2>8. q \in Seq(Jobs)
      BY <1>1, <2>4, <2>7, RemoveAtFacts
    <2>9. queue' = [queue EXCEPT ![d] = q]
      BY <1>6, <2>1, <2>7 DEF Begin
    <2>10. queue' \in [Devices -> Seq(Jobs)]
      BY <2>8, <2>9 DEF TypeOK
    <2>11. UNCHANGED <<calls, granted, paused, people, minute, heard, restarted>>
      BY <1>6 DEF Begin
    <2>12. CASE /\ saying' = [saying EXCEPT ![d] = j]
                /\ UNCHANGED <<host, reply, history, refused>>
      <3>1. saying' \in [Devices -> Jobs \cup {None}]
        BY <2>5, <2>12 DEF TypeOK
      <3> QED  BY <2>10, <2>11, <2>12, <3>1 DEF TypeOK, calls, people
    <2>13. CASE /\ v # "speak"
                /\ Ends(d, {j}, v)
                /\ refused' = [refused EXCEPT ![d] = @ \cup {<<j, v, <<policy[d], minute>>>>}]
                /\ UNCHANGED saying
      <3>1. v \in Refusals /\ v \in Outcomes
        BY <1>2, <2>6, <2>13
      <3>2. <<j, v, <<policy[d], minute>>>> \in Jobs \X Refusals \X Grants
        BY <1>3, <2>5, <3>1
      <3>3. refused' \in [Devices -> SUBSET (Jobs \X Refusals \X Grants)]
        BY <2>13, <3>2 DEF TypeOK
      <3>4. /\ history' \in [Devices -> Seq(Entries)] /\ \A e \in Devices : Len(history'[e]) <= Keep
            /\ host' \in [Legs -> Places]
            /\ \A l \in Legs : host'[l] = "cleared" => host[l] = "cleared"
            /\ reply' \in [Legs -> Answers \cup {None}]
            /\ \A l \in Legs : host'[l] = "refused" => reply'[l] \in Outcomes
        BY <2>13, <3>1, EndsTypes
      <3> QED  BY <2>10, <2>11, <2>13, <3>3, <3>4 DEF TypeOK, calls, people
    <2> QED  BY <1>6, <2>1, <2>2, <2>3, <2>12, <2>13 DEF Begin
  <1>7. CASE Finish(d)
    <2>1. PICK status \in {"spoken"} \cup (Faults \cap {"noEngine"}) :
          /\ Ends(d, {saying[d]}, status)
          /\ heard' = [heard EXCEPT ![d] =
                IF status = "spoken" THEN @ \cup {[id |-> saying[d].id, leg |-> saying[d].leg]}
                ELSE @]
      BY <1>7 DEF Finish
    <2>2. /\ history' \in [Devices -> Seq(Entries)] /\ \A e \in Devices : Len(history'[e]) <= Keep
          /\ host' \in [Legs -> Places]
          /\ \A l \in Legs : host'[l] = "cleared" => host[l] = "cleared"
          /\ reply' \in [Legs -> Answers \cup {None}]
          /\ \A l \in Legs : host'[l] = "refused" => reply'[l] \in Outcomes
      BY <1>2, <2>1, EndsTypes
    <2>3. saying[d] \in Jobs
      BY <1>1, <1>7 DEF Finish
    <2>4. [id |-> saying[d].id, leg |-> saying[d].leg] \in [id : Sends, leg : Legs \cup {None}]
      BY <2>3 DEF Jobs
    <2>5. heard' \in [Devices -> SUBSET [id : Sends, leg : Legs \cup {None}]]
      BY <2>1, <2>4 DEF TypeOK
    <2>6. /\ saying' = [saying EXCEPT ![d] = None]
          /\ UNCHANGED <<calls, granted, queue, paused, people, minute, refused, restarted>>
      BY <1>7 DEF Finish
    <2>7. saying' \in [Devices -> Jobs \cup {None}]
      BY <2>6 DEF TypeOK
    <2> QED  BY <2>2, <2>5, <2>6, <2>7 DEF TypeOK, calls, people
  <1>8. CASE \E id \in Sends : StopMessage(d, id)
    <2>1. PICK id \in Sends : StopMessage(d, id)
      BY <1>8
    <2>2. \E jobs : Ends(d, jobs, "cancelled")
      BY <2>1 DEF StopMessage
    <2>3. /\ history' \in [Devices -> Seq(Entries)] /\ \A e \in Devices : Len(history'[e]) <= Keep
          /\ host' \in [Legs -> Places]
          /\ \A l \in Legs : host'[l] = "cleared" => host[l] = "cleared"
          /\ reply' \in [Legs -> Answers \cup {None}]
          /\ \A l \in Legs : host'[l] = "refused" => reply'[l] \in Outcomes
      BY <1>2, <2>2, EndsTypes
    <2>4. \A i \in DOMAIN queue[d] : RemoveAt(queue[d], i) \in Seq(Jobs)
      BY <1>1, RemoveAtFacts
    <2>5. \/ saying' = [saying EXCEPT ![d] = None] /\ queue' = queue
          \/ \E q \in Seq(Jobs) : queue' = [queue EXCEPT ![d] = q] /\ saying' = saying
      BY <2>1, <2>4 DEF StopMessage
    <2>7. queue' \in [Devices -> Seq(Jobs)] /\ saying' \in [Devices -> Jobs \cup {None}]
      BY <2>5 DEF TypeOK
    <2>8. /\ left' \in 0 .. Changes
          /\ UNCHANGED <<calls, granted, paused, policy, minute, seen, restarted>>
      BY <1>4, <2>1 DEF StopMessage
    <2> QED  BY <2>3, <2>7, <2>8 DEF TypeOK, calls, seen
  <1>9. CASE StopAll(d)
    <2>1. \E jobs : Ends(d, jobs, "cancelled")
      BY <1>9 DEF StopAll
    <2>2. /\ history' \in [Devices -> Seq(Entries)] /\ \A e \in Devices : Len(history'[e]) <= Keep
          /\ host' \in [Legs -> Places]
          /\ \A l \in Legs : host'[l] = "cleared" => host[l] = "cleared"
          /\ reply' \in [Legs -> Answers \cup {None}]
          /\ \A l \in Legs : host'[l] = "refused" => reply'[l] \in Outcomes
      BY <1>2, <2>1, EndsTypes
    <2>3. queue' \in [Devices -> Seq(Jobs)] /\ saying' \in [Devices -> Jobs \cup {None}]
      BY <1>5, <1>9 DEF StopAll, TypeOK
    <2>4. /\ left' \in 0 .. Changes
          /\ UNCHANGED <<calls, granted, paused, policy, minute, seen, restarted>>
      BY <1>4, <1>9 DEF StopAll
    <2> QED  BY <2>2, <2>3, <2>4 DEF TypeOK, calls, seen
  <1>10. CASE Hold(d)
    <2>1. /\ left' \in 0 .. Changes
          /\ paused' \in [Devices -> BOOLEAN]
          /\ UNCHANGED <<calls, hosts, queue, saying, history, policy, minute, seen, restarted>>
      <3>1. \A b : (~b) \in BOOLEAN
        OBVIOUS
      <3>2. paused' = [paused EXCEPT ![d] = ~@]
        BY <1>10 DEF Hold
      <3>3. paused' \in [Devices -> BOOLEAN]
        BY <3>1, <3>2 DEF TypeOK
      <3> QED  BY <1>4, <1>10, <3>3 DEF Hold
    <2> QED  BY <2>1 DEF TypeOK, calls, hosts, seen
  <1>11. CASE \E id \in Sends : Replay(d, id)
    <2>1. PICK id \in Sends : Replay(d, id)
      BY <1>11
    <2>2. PICK j : j = Replayed(d, id)
      OBVIOUS
    <2>3. j \in Jobs
      BY <1>3, <2>2 DEF Replayed, Jobs, Priorities
    <2>4. queue' = [queue EXCEPT ![d] = Append(@, j)]
      BY <2>1, <2>2 DEF Replay
    <2>5. queue' \in [Devices -> Seq(Jobs)]
      BY <2>3, <2>4, AppendProperties DEF TypeOK
    <2>6. /\ left' \in 0 .. Changes
          /\ UNCHANGED <<calls, hosts, saying, paused, history, policy, minute, seen, restarted>>
      BY <1>4, <2>1 DEF Replay
    <2> QED  BY <2>5, <2>6 DEF TypeOK, calls, hosts, seen
  <1>12. CASE \E scope \in Spaces \cup {None} :
                 \/ \E on \in BOOLEAN : SetMute(d, scope, on)
                 \/ \E q \in Hours[d] \cup {NoWindow} : SetQuiet(d, scope, q)
    <2>1. PICK scope \in Spaces \cup {None} :
                 \/ \E on \in BOOLEAN : SetMute(d, scope, on)
                 \/ \E q \in Hours[d] \cup {NoWindow} : SetQuiet(d, scope, q)
      BY <1>12
    <2>2. Now(d, scope) \in Policies
      BY <1>1, <2>1 DEF Now, PolicySets
    <2>3. Hours[d] \cup {NoWindow} \subseteq Windows \cup {NoWindow}
      BY DeliveryAssumption
    <2>4. /\ \A on \in BOOLEAN : [Now(d, scope) EXCEPT !.muted = on] \in Policies
          /\ \A q \in Windows \cup {NoWindow} : [Now(d, scope) EXCEPT !.quiet = q] \in Policies
      BY <2>2 DEF Policies
    <2>5. \E p \in Policies : Edit(d, scope, p)
      BY <2>1, <2>3, <2>4 DEF SetMute, SetQuiet
    <2>6. policy' \in [Devices -> PolicySets]
      <3>1. PICK p \in Policies : Edit(d, scope, p)
        BY <2>5
      <3>2. PICK new : new = IF scope = None THEN [policy[d] EXCEPT !.device = p]
                             ELSE [policy[d] EXCEPT !.over[scope] = p]
        OBVIOUS
      <3>3. new \in PolicySets
        BY <1>1, <2>1, <3>1, <3>2 DEF PolicySets
      <3>4. policy' = [policy EXCEPT ![d] = new]
        BY <3>1, <3>2 DEF Edit
      <3> QED  BY <3>3, <3>4 DEF TypeOK
    <2>7. /\ left' \in 0 .. Changes
          /\ UNCHANGED <<calls, hosts, speech, history, minute, seen, restarted>>
      BY <1>4, <2>1 DEF SetMute, SetQuiet
    <2> QED  BY <2>6, <2>7 DEF TypeOK, calls, hosts, speech, seen
  <1>13. CASE Restart(d)
    <2>1. /\ queue' \in [Devices -> Seq(Jobs)] /\ saying' \in [Devices -> Jobs \cup {None}]
          /\ paused' \in [Devices -> BOOLEAN]
      BY <1>5, <1>13 DEF Restart, TypeOK
    <2>2. /\ host' \in [Legs -> Places]
          /\ \A l \in Legs : host'[l] \in {"cleared", "refused"} => host[l] = host'[l]
      BY <1>13 DEF Restart, TypeOK, Places
    <2>3. caller' \in [Legs -> {"no", "asking", "done"}]
      BY <1>13 DEF Restart, TypeOK
    <2>4. /\ left' \in 0 .. Changes /\ restarted' \subseteq Devices
          /\ UNCHANGED <<targets, answer, reply, granted, history, policy, minute, seen>>
      BY <1>4, <1>13 DEF Restart, TypeOK
    <2> QED  BY <2>1, <2>2, <2>3, <2>4 DEF TypeOK, seen
  <1> QED  BY <1>6, <1>7, <1>8, <1>9, <1>10, <1>11, <1>12, <1>13 DEF Speaks, Person

LEMMA TypeNext ==
    ASSUME TypeOK, [Next]_vars
    PROVE  TypeOK'
  <1>1. CASE \E m \in Sends : Speak(m)
    <2>1. PICK m \in Sends : Speak(m)
      BY <1>1
    <2>2. PICK T : T = Resolve(Cmd[m].from, Cmd[m].to)
      OBVIOUS
    <2>3. Cmd[m].from \in Devices /\ Cmd[m].to \in Seq(Elements)
      BY DeliveryAssumption
    <2>4. T \in Seq(Targets)
      BY <2>2, <2>3, ResolveFacts
    <2>5. /\ targets' = [targets EXCEPT ![m] = T]
          /\ caller' = [l \in Legs |-> IF l[1] = m /\ l[2] <= Len(T) THEN "asking" ELSE caller[l]]
          /\ UNCHANGED <<answer, hosts, speech, history, people, minute, seen, restarted>>
      BY <2>1, <2>2 DEF Speak
    <2>6. /\ targets' \in [Sends -> Seq(Targets) \cup {None}]
          /\ caller' \in [Legs -> {"no", "asking", "done"}]
      BY <2>4, <2>5 DEF TypeOK
    <2> QED  BY <2>5, <2>6 DEF TypeOK, hosts, speech, people, seen
  <1>2. CASE \E l \in Legs : Given(l) /\ (LegStep(l) \/ Lose(l))
    BY <1>2, TypeLegs
  <1>3. CASE \E d \in Devices : Speaks(d) \/ Person(d) \/ Restart(d)
    BY <1>3, TypeDevices
  <1>4. CASE Tick
    <2>1. minute' \in Minutes
      BY <1>4, PolicyAssumption DEF Tick, TypeOK, Minutes
    <2> QED  BY <1>4, <2>1 DEF Tick, TypeOK, calls, hosts, speech, people, seen
  <1>5. CASE UNCHANGED vars
    BY <1>5 DEF TypeOK, vars, calls, hosts, speech, people, seen
  <1> QED  BY <1>1, <1>2, <1>3, <1>4, <1>5 DEF Next

-----------------------------------------------------------------------------
(* The books are kept. *)

\* What a step leaves of a leg: its target, and that its outcome is open.
Stays(l) == Given(l) => Given(l)' /\ Dev(l)' = Dev(l)
Onward(l) ==
    /\ host[l] \in {"waiting", "replying", "over"} =>
          /\ host'[l] \in {"waiting", "replying", "over"}
          /\ reply'[l] \in Final => reply[l] \in Final
    /\ host[l] \in {"replying", "over"} => host'[l] \in {"replying", "over"}

\* w has some of what q has, each thing once.
Drawn(w, q, pos) ==
    /\ pos \in [DOMAIN w -> DOMAIN q]
    /\ \A k \in DOMAIN w : w[k] = q[pos[k]]
    /\ \A k, l \in DOMAIN w : pos[k] = pos[l] => k = l

LEMMA RemovedOne ==
    ASSUME NEW s \in Seq(Jobs), NEW i \in DOMAIN s
    PROVE  \A n \in DOMAIN s : s[n] = s[i] \/ \E k \in DOMAIN RemoveAt(s, i) : RemoveAt(s, i)[k] = s[n]
  <1>1. PICK r : r = RemoveAt(s, i)
    OBVIOUS
  <1>2. ToSet(s) = ToSet(r) \cup {s[i]}
    BY <1>1, RemoveAtSet
  <1>3. r \in Seq(Jobs)
    BY <1>1, RemoveAtFacts
  <1>4. \A x : x \in ToSet(r) => \E k \in DOMAIN r : r[k] = x
    BY <1>3, ToSetOf
  <1>5. \A n \in DOMAIN s : s[n] \in ToSet(s)
    BY ToSetOf
  <1> QED  BY <1>1, <1>2, <1>4, <1>5

LEMMA RemoveAtDrawn ==
    ASSUME NEW S, NEW s \in Seq(S), NEW i \in DOMAIN s
    PROVE  \E pos : Drawn(RemoveAt(s, i), s, pos) /\ \A k \in DOMAIN RemoveAt(s, i) : pos[k] # i
  <1>1. PICK n : n = Len(s)
    OBVIOUS
  <1>2. PICK r : r = RemoveAt(s, i)
    OBVIOUS
  <1>3. /\ n \in Nat /\ DOMAIN s = 1 .. n /\ DOMAIN r = 1 .. n - 1
        /\ \A k \in 1 .. n - 1 : r[k] = IF k < i THEN s[k] ELSE s[k + 1]
    <2>1. r \in Seq(S) /\ Len(r) = n - 1
      BY <1>1, <1>2, RemoveAtFacts
    <2>2. \A k \in 1 .. n - 1 : r[k] = IF k < i THEN s[k] ELSE s[k + 1]
      BY <1>1, <1>2, RemoveAtFacts
    <2>3. n \in Nat /\ DOMAIN s = 1 .. n
      BY <1>1, LenProperties
    <2>4. DOMAIN r = 1 .. n - 1
      BY <2>1, LenProperties
    <2> QED  BY <2>2, <2>3, <2>4
  <1>4. PICK pos : pos = [k \in 1 .. n - 1 |-> IF k < i THEN k ELSE k + 1]
    OBVIOUS
  <1>5. /\ pos \in [DOMAIN r -> DOMAIN s]
        /\ \A k \in DOMAIN r : r[k] = s[pos[k]] /\ pos[k] # i
    BY <1>3, <1>4
  <1>6. \A k, l \in DOMAIN r : pos[k] = pos[l] => k = l
    BY <1>3, <1>4
  <1> QED  BY <1>2, <1>5, <1>6 DEF Drawn

LEMMA SoundKept ==
    ASSUME NEW d, NEW j, Sound(d, j),
           ~j.asked => /\ Stays(j.leg) /\ Onward(j.leg)
                       /\ heard'[d] = heard[d]
    PROVE  Sound(d, j)'
  <1>1. CASE j.asked
    BY <1>1 DEF Sound
  <1>2. CASE ~j.asked
    <2>1. At(d, j.leg)'
      BY <1>2 DEF Sound, At, Stays
    <2>2. ~Heard(d, j.leg)'
      BY <1>2 DEF Sound, Heard
    <2> QED  BY <1>2, <2>1, <2>2 DEF Sound, Onward
  <1> QED  BY <1>1, <1>2

\* A step that leaves the queues alone, and takes legs onward.
LEMMA BooksKept ==
    ASSUME Booked, \A l \in Legs : Stays(l) /\ Onward(l),
           queue' = queue, saying' = saying, heard' = heard
    PROVE  Booked'
  <1> SUFFICES ASSUME NEW d \in Devices
               PROVE
        /\ \A i \in DOMAIN queue[d] : Sound(d, queue[d][i])'
        /\ saying[d] # None => Sound(d, saying[d])'
        /\ \A i, k \in DOMAIN queue[d] :
              queue[d][i].leg = queue[d][k].leg /\ ~queue[d][i].asked => i = k
        /\ \A i \in DOMAIN queue[d] :
              saying[d] # None /\ ~saying[d].asked => saying[d].leg # queue[d][i].leg
        /\ \A h \in heard[d] : h.leg # None =>
              /\ At(d, h.leg)' /\ h.id = h.leg[1]
              /\ host'[h.leg] \in {"replying", "over"}
    BY DEF Booked
  <1>1. ASSUME NEW j, Sound(d, j)
        PROVE  Sound(d, j)'
    <2>1. ~j.asked => j.leg \in Legs
      BY <1>1 DEF Sound, At
    <2> QED  BY <1>1, <2>1, SoundKept
  <1>2. /\ \A i \in DOMAIN queue[d] : Sound(d, queue[d][i])'
        /\ saying[d] # None => Sound(d, saying[d])'
    <2>1. \A i \in DOMAIN queue[d] : Sound(d, queue[d][i])
      BY DEF Booked
    <2>2. ASSUME NEW i \in DOMAIN queue[d]
          PROVE  Sound(d, queue[d][i])'
      <3>1. PICK j : j = queue[d][i]
        OBVIOUS
      <3>2. Sound(d, j)'
        BY <1>1, <2>1, <3>1
      <3> QED  BY <3>1, <3>2 DEF Sound, At, Heard
    <2>3. saying[d] # None => Sound(d, saying[d])'
      <3>1. PICK j : j = saying[d]
        OBVIOUS
      <3>2. j # None => Sound(d, j)'
        BY <1>1, <3>1 DEF Booked
      <3> QED  BY <3>1, <3>2 DEF Sound, At, Heard
    <2> QED  BY <2>2, <2>3
  <1>3. ASSUME NEW h \in heard[d], h.leg # None
        PROVE  /\ At(d, h.leg)' /\ h.id = h.leg[1]
               /\ host'[h.leg] \in {"replying", "over"}
    <2>1. At(d, h.leg) /\ h.id = h.leg[1] /\ host[h.leg] \in {"replying", "over"}
      BY <1>3 DEF Booked
    <2>2. h.leg \in Legs
      BY <2>1 DEF At
    <2> QED  BY <2>1, <2>2 DEF At, Stays, Onward
  <1>4. /\ \A i, k \in DOMAIN queue[d] :
              queue[d][i].leg = queue[d][k].leg /\ ~queue[d][i].asked => i = k
        /\ \A i \in DOMAIN queue[d] :
              saying[d] # None /\ ~saying[d].asked => saying[d].leg # queue[d][i].leg
    BY DEF Booked
  <1> QED  BY <1>2, <1>3, <1>4

\* What has been heard was a leg's that arrived.
HeardRight(d) ==
    \A h \in heard[d] : h.leg # None =>
        /\ At(d, h.leg) /\ h.id = h.leg[1]
        /\ host[h.leg] \in {"replying", "over"}

\* What waits at d and is spoken there, without its state.
LineRight(d) ==
    /\ \A i, k \in DOMAIN queue[d] :
          queue[d][i].leg = queue[d][k].leg /\ ~queue[d][i].asked => i = k
    /\ \A i \in DOMAIN queue[d] :
          saying[d] # None /\ ~saying[d].asked => saying[d].leg # queue[d][i].leg

LEMMA BookedIs ==
    Booked <=> \A d \in Devices : HeardRight(d) /\ LineRight(d) /\ \A j : Waits(d, j) => Sound(d, j)
  BY DEF Booked, HeardRight, LineRight, Waits

\* The end of some jobs: Ends, and what the end of speaking adds to what was heard.
Over(d, jobs, status) ==
    /\ Ends(d, jobs, status)
    /\ UNCHANGED <<targets, answer>>
    /\ \A e \in Devices \ {d} : heard'[e] = heard[e]
    /\ heard'[d] = heard[d] \cup
          {[id |-> j.id, leg |-> j.leg] : j \in IF status = "spoken" THEN jobs ELSE {}}

\* The legs of the jobs are answered for good; no other job is touched.
LEMMA OverBooks ==
    ASSUME LegInv, NEW d \in Devices, NEW jobs, \A j \in jobs : Sound(d, j),
           NEW status \in Outcomes, Over(d, jobs, status)
    PROVE  /\ Told' /\ \A e \in Devices : HeardRight(e)'
           /\ \A e \in Devices : \A j :
                 Sound(e, j) /\ (e = d => j.asked \/ \A k \in jobs : k.leg # j.leg) => Sound(e, j)'
  <1>1. PICK told : /\ told = {l \in {j.leg : j \in jobs} \cap Legs : host[l] = "waiting"}
                    /\ host' = [l \in Legs |-> IF l \in told THEN "replying" ELSE host[l]]
                    /\ reply' = [l \in Legs |-> IF l \in told THEN status ELSE reply[l]]
    BY DEF Over, Ends
  <1>2. \A l \in Legs : (Given(l)' <=> Given(l)) /\ Dev(l)' = Dev(l) /\ \A e : At(e, l)' <=> At(e, l)
    BY DEF Over, Given, Dev, Target, At
  <1>3. \A j \in jobs : /\ j.asked <=> j.leg = None
                        /\ j.leg # None => /\ At(d, j.leg) /\ j.leg \in Legs /\ j.id = j.leg[1]
                                           /\ host[j.leg] \in {"waiting", "replying", "over"}
                                           /\ reply[j.leg] \notin Final /\ ~Heard(d, j.leg)
    BY DEF Sound, At
  <1>4. \A l \in told : l \in Legs /\ At(d, l) /\ host[l] = "waiting" /\ ~Heard(d, l)
                        /\ l # None /\ \E j \in jobs : j.leg = l
    <2>1. None \notin Legs
      BY DeliveryAssumption
    <2> QED  BY <1>1, <1>3, <2>1
  <1>5. \A l \in Legs : /\ l \in told => host'[l] = "replying" /\ reply'[l] = status
                        /\ l \notin told => host'[l] = host[l] /\ reply'[l] = reply[l]
    BY <1>1
  <1>6. \A e \in Devices, l \in Legs :
            Heard(e, l)' <=> Heard(e, l) \/ (e = d /\ status = "spoken" /\ \E j \in jobs : j.leg = l)
    <2> SUFFICES ASSUME NEW e \in Devices, NEW l \in Legs
                 PROVE  Heard(e, l)' <=> Heard(e, l) \/ (e = d /\ status = "spoken" /\ \E j \in jobs : j.leg = l)
      OBVIOUS
    <2>1. CASE e # d
      BY <2>1 DEF Over, Heard
    <2>2. CASE e = d
      <3>1. CASE status = "spoken"
        <4>1. heard'[d] = heard[d] \cup {[id |-> j.id, leg |-> j.leg] : j \in jobs}
          BY <3>1 DEF Over
        <4>2. ASSUME NEW j \in jobs, j.leg = l
              PROVE  Heard(d, l)'
          <5>1. PICK h : h = [id |-> j.id, leg |-> j.leg]
            OBVIOUS
          <5>2. h \in heard'[d] /\ h.leg = l
            BY <4>1, <4>2, <5>1
          <5> QED  BY <5>2 DEF Heard
        <4>3. ASSUME NEW h \in heard'[d], h.leg = l, h \notin heard[d]
              PROVE  \E j \in jobs : j.leg = l
          <5>1. PICK j \in jobs : h = [id |-> j.id, leg |-> j.leg]
            BY <4>1, <4>3
          <5> QED  BY <4>3, <5>1
        <4>4. \A h \in heard[d] : h \in heard'[d]
          BY <4>1
        <4> QED  BY <2>2, <3>1, <4>2, <4>3, <4>4 DEF Heard
      <3>2. CASE status # "spoken"
        <4>1. heard'[d] = heard[d]
          BY <3>2 DEF Over
        <4> QED  BY <2>2, <3>2, <4>1 DEF Heard
      <3> QED  BY <3>1, <3>2
    <2> QED  BY <2>1, <2>2
  <1>7. ASSUME NEW e \in Devices, NEW j, Sound(e, j),
               e = d => j.asked \/ \A k \in jobs : k.leg # j.leg
        PROVE  Sound(e, j)'
    <2>1. CASE j.asked
      BY <1>7, <2>1 DEF Sound
    <2>2. CASE ~j.asked
      <3>1. /\ j.leg # None /\ At(e, j.leg) /\ j.leg \in Legs /\ j.id = j.leg[1]
            /\ host[j.leg] \in {"waiting", "replying", "over"} /\ reply[j.leg] \notin Final
            /\ ~Heard(e, j.leg)
        BY <1>7, <2>2 DEF Sound, At
      <3>2. j.leg \notin told
        <4>1. CASE e = d
          BY <1>4, <1>7, <2>2, <4>1
        <4>2. CASE e # d
          BY <1>4, <3>1, <4>2 DEF At
        <4> QED  BY <4>1, <4>2
      <3>3. host'[j.leg] = host[j.leg] /\ reply'[j.leg] = reply[j.leg]
        BY <1>5, <3>1, <3>2
      <3>4. ~Heard(e, j.leg)'
        BY <1>6, <1>7, <2>2, <3>1
      <3>5. At(e, j.leg)'
        BY <1>2, <3>1
      <3> QED  BY <2>2, <3>1, <3>3, <3>4, <3>5 DEF Sound
    <2> QED  BY <2>1, <2>2
  <1>8. ASSUME NEW e \in Devices, NEW h \in heard'[e], h.leg # None
        PROVE  At(e, h.leg)' /\ h.id = h.leg[1] /\ host'[h.leg] \in {"replying", "over"}
    <2>1. CASE h \in heard[e]
      <3>1. At(e, h.leg) /\ h.id = h.leg[1] /\ host[h.leg] \in {"replying", "over"} /\ h.leg \in Legs
        BY <1>8, <2>1 DEF LegInv, Booked, At
      <3> QED  BY <1>2, <1>5, <3>1
    <2>2. CASE h \notin heard[e]
      <3>1. e = d /\ status = "spoken" /\ \E j \in jobs : h = [id |-> j.id, leg |-> j.leg]
        <4>1. e = d
          BY <1>8, <2>2 DEF Over
        <4>2. h \in {[id |-> j.id, leg |-> j.leg] : j \in IF status = "spoken" THEN jobs ELSE {}}
          BY <1>8, <2>2, <4>1 DEF Over
        <4>3. status = "spoken"
          BY <4>2
        <4> QED  BY <4>1, <4>2, <4>3
      <3>2. PICK j \in jobs : h = [id |-> j.id, leg |-> j.leg]
        BY <3>1
      <3>3. h.leg = j.leg /\ h.id = j.id /\ j.leg # None
        BY <1>8, <3>2
      <3>4. /\ At(d, h.leg) /\ h.leg \in Legs /\ h.id = h.leg[1]
            /\ host[h.leg] \in {"waiting", "replying", "over"}
        BY <1>3, <3>3
      <3>5. host'[h.leg] \in {"replying", "over"}
        <4>1. CASE host[h.leg] = "waiting"
          <5>1. h.leg \in told
            BY <1>1, <3>3, <3>4, <4>1
          <5> QED  BY <1>5, <3>4, <5>1
        <4>2. CASE host[h.leg] # "waiting"
          BY <1>4, <1>5, <3>4, <4>2
        <4> QED  BY <4>1, <4>2
      <3> QED  BY <1>2, <3>1, <3>4, <3>5
    <2> QED  BY <2>1, <2>2
  <1>9. Told'
    <2> SUFFICES ASSUME NEW l \in Legs
                 PROVE  /\ host'[l] # "no" => Given(l)'
                        /\ reply'[l] # None => host'[l] \in {"refused", "replying", "over"}
                        /\ reply'[l] = "spoken" => LegHeard(l)'
                        /\ reply'[l] \in Final \ {"spoken"} => ~LegHeard(l)'
                        /\ answer'[l] \notin {None, "unreachable"} => host'[l] = "over" /\ reply'[l] = answer'[l]
      BY DEF Told
    <2>1. /\ host[l] # "no" => Given(l)
          /\ reply[l] # None => host[l] \in {"refused", "replying", "over"}
          /\ reply[l] = "spoken" => LegHeard(l)
          /\ reply[l] \in Final \ {"spoken"} => ~LegHeard(l)
          /\ answer[l] \notin {None, "unreachable"} => host[l] = "over" /\ reply[l] = answer[l]
      BY DEF LegInv, Told
    <2>2. Given(l) => Dev(l) \in Devices
      BY GivenIs DEF LegInv
    <2>3. \A e : (e = Dev(l)) => (LegHeard(l) <=> Heard(e, l)) /\ (LegHeard(l)' <=> Heard(e, l)')
      BY <1>2 DEF LegHeard, Heard
    <2>4. answer' = answer /\ None \notin Answers
      BY DeliveryAssumption DEF Over
    <2>5. "spoken" \in Answers
      BY DEF Answers, Outcomes
    <2>6. CASE l \in told
      <3>1. /\ At(d, l) /\ host[l] = "waiting" /\ ~Heard(d, l)
            /\ \E j \in jobs : j.leg = l
        BY <1>4, <2>6
      <3>2. Given(l) /\ Dev(l) = d
        BY <3>1 DEF At
      <3>3. host'[l] = "replying" /\ reply'[l] = status
        BY <1>5, <2>6
      <3>4. status = "spoken" => LegHeard(l)'
        BY <1>6, <2>3, <3>1, <3>2
      <3>5. status # "spoken" => ~LegHeard(l)'
        BY <1>6, <2>3, <3>1, <3>2
      <3>6. answer[l] \in {None, "unreachable"}
        BY <2>1, <3>1
      <3> QED  BY <1>2, <2>4, <3>2, <3>3, <3>4, <3>5, <3>6
    <2>7. CASE l \notin told
      <3>1. host'[l] = host[l] /\ reply'[l] = reply[l]
        BY <1>5, <2>7
      <3>2. reply[l] = "spoken" => LegHeard(l)'
        <4>1. reply[l] = "spoken" => Given(l)
          BY <2>1, <2>4, <2>5
        <4> QED  BY <1>6, <2>1, <2>2, <2>3, <4>1
      <3>3. reply[l] \in Final \ {"spoken"} => ~LegHeard(l)'
        <4> SUFFICES ASSUME reply[l] \in Final \ {"spoken"}
                     PROVE  ~LegHeard(l)'
          OBVIOUS
        <4>1. Final \subseteq Answers
          BY DEF Final, Answers, Outcomes
        <4>2. Given(l) /\ ~LegHeard(l)
          BY <2>1, <2>4, <4>1
        <4>3. ~\E j \in jobs : j.leg = l
          <5>1. l # None
            BY DeliveryAssumption
          <5> QED  BY <1>3, <5>1
        <4> QED  BY <1>6, <2>2, <2>3, <4>2, <4>3
      <3>4. /\ host'[l] # "no" => Given(l)'
            /\ reply'[l] # None => host'[l] \in {"refused", "replying", "over"}
            /\ answer[l] \notin {None, "unreachable"} => host'[l] = "over" /\ reply'[l] = answer[l]
        BY <1>2, <2>1, <3>1
      <3> QED  BY <2>4, <3>1, <3>2, <3>3, <3>4
    <2> QED  BY <2>6, <2>7
  <1>10. \A e \in Devices : HeardRight(e)'
    BY <1>8 DEF HeardRight
  <1>11. \A e \in Devices : \A j :
            Sound(e, j) /\ (e = d => j.asked \/ \A k \in jobs : k.leg # j.leg) => Sound(e, j)'
    BY <1>7
  <1> QED  BY <1>9, <1>10, <1>11

ToldOf(l) ==
    /\ host[l] # "no" => Given(l)
    /\ reply[l] # None => host[l] \in {"refused", "replying", "over"}
    /\ reply[l] = "spoken" => LegHeard(l)
    /\ reply[l] \in Final \ {"spoken"} => ~LegHeard(l)
    /\ answer[l] \notin {None, "unreachable"} => host[l] = "over" /\ reply[l] = answer[l]

LEMMA ToldIs == Told <=> \A l \in Legs : ToldOf(l)
  BY DEF Told, ToldOf

LEMMA LegInvInit ==
    ASSUME Init
    PROVE  LegInv
  <1>1. TypeOK
    BY TypeInit
  <1>2. Booked
    <2>1. \A d \in Devices : HeardRight(d) /\ LineRight(d) /\ \A j : ~Waits(d, j)
      BY DEF Init, HeardRight, LineRight, Waits
    <2> QED  BY <2>1, BookedIs
  <1>3. Told
    <2>1. None \notin Final
      BY DeliveryAssumption DEF Final, Answers, Outcomes
    <2>2. "spoken" \in Final
      BY DEF Final
    <2>3. \A l \in Legs : ToldOf(l)
      BY <2>1, <2>2 DEF Init, ToldOf
    <2> QED  BY <2>3, ToldIs
  <1> QED  BY <1>1, <1>2, <1>3 DEF LegInv

LEMMA LegInvSpeak ==
    ASSUME LegInv, NEW m \in Sends, Speak(m)
    PROVE  Booked' /\ Told'
  <1>1. PICK T : targets' = [targets EXCEPT ![m] = T]
    BY DEF Speak
  <1>2. targets[m] = None /\ UNCHANGED <<answer, hosts, speech, history, people, minute, seen, restarted>>
    BY DEF Speak
  <1>3. \A l \in Legs : Stays(l)
    <2> SUFFICES ASSUME NEW l \in Legs, Given(l)
                 PROVE  Given(l)' /\ Dev(l)' = Dev(l)
      BY DEF Stays
    <2>1. l[1] # m /\ l[1] \in Sends
      BY <1>2, GivenIs DEF Given, LegInv
    <2>2. targets'[l[1]] = targets[l[1]]
      BY <1>1, <2>1 DEF LegInv, TypeOK
    <2> QED  BY <2>2 DEF Given, Dev, Target
  <1>4. \A l \in Legs : Onward(l)
    BY <1>2 DEF Onward, hosts
  <1>5. Booked'
    BY <1>2, <1>3, <1>4, BooksKept DEF LegInv, speech, seen
  <1>6. ASSUME NEW l \in Legs
        PROVE  ToldOf(l)'
    <2>1. ToldOf(l)
      BY ToldIs DEF LegInv
    <2>2. Given(l) => Given(l)' /\ (LegHeard(l)' <=> LegHeard(l))
      BY <1>2, <1>3 DEF Stays, LegHeard, seen
    <2>3. None \notin Answers /\ Final \subseteq Answers /\ "spoken" \in Final
      BY DeliveryAssumption DEF Final, Answers, Outcomes
    <2>4. reply[l] \in Final => Given(l)
      BY <2>1, <2>3 DEF ToldOf
    <2> QED  BY <1>2, <2>1, <2>2, <2>3, <2>4 DEF ToldOf, hosts
  <1> QED  BY <1>5, <1>6 DEF Told, ToldOf

\* A step of one leg: what was heard stays, and only this leg is told something.
LEMMA ToldKept ==
    ASSUME LegInv, NEW l \in Legs, targets' = targets, heard' = heard,
           \A k \in Legs \ {l} : host'[k] = host[k] /\ reply'[k] = reply[k] /\ answer'[k] = answer[k],
           ToldOf(l)'
    PROVE  Told'
  <1>1. \A k \in Legs : (Given(k)' <=> Given(k)) /\ (LegHeard(k)' <=> LegHeard(k))
    BY DEF Given, LegHeard, Dev, Target
  <1>2. ASSUME NEW k \in Legs \ {l}
        PROVE  ToldOf(k)'
    <2>1. ToldOf(k)
      BY ToldIs DEF LegInv
    <2> QED  BY <1>1, <2>1 DEF ToldOf
  <1> QED  BY <1>2 DEF Told, ToldOf

LEMMA LegInvLegs ==
    ASSUME LegInv, NEW l \in Legs, Given(l), LegStep(l) \/ Lose(l)
    PROVE  Booked' /\ Told'
  <1>1. targets' = targets /\ heard' = heard
    BY DEF LegStep, Lose, Dead, Receive, Judge, Settle, Submit, Timeout, Answer, calls, seen
  <1>2. /\ \A k \in Legs : Stays(k) /\ (Given(k)' <=> Given(k)) /\ (LegHeard(k)' <=> LegHeard(k))
        /\ Dev(l)' = Dev(l)
    BY <1>1 DEF Stays, Given, LegHeard, Dev, Target
  <1>3. /\ ToldOf(l) /\ At(Dev(l), l) /\ Dev(l) \in Devices
        /\ host \in [Legs -> Places]
        /\ reply \in [Legs -> Answers \cup {None}] /\ answer \in [Legs -> Answers \cup {None}]
        /\ queue \in [Devices -> Seq(Jobs)]
    BY ToldIs, GivenIs DEF LegInv, TypeOK
  <1>4. None \notin Answers /\ Final \subseteq Answers /\ None \notin Final /\ "spoken" \in Final
        /\ "unreachable" \notin Final /\ "queued" \notin Final /\ "speaking" \notin Final
    BY DeliveryAssumption DEF Final, Answers, Outcomes, Refusals
  <1>5. LegHeard(l) => host[l] \in {"replying", "over"}
    <2> SUFFICES ASSUME LegHeard(l)
                 PROVE  host[l] \in {"replying", "over"}
      OBVIOUS
    <2>1. PICK h \in heard[Dev(l)] : h.leg = l
      BY DEF LegHeard
    <2>2. HeardRight(Dev(l))
      BY <1>3, BookedIs DEF LegInv
    <2>3. h.leg # None
      BY <2>1, DeliveryAssumption
    <2> QED  BY <2>1, <2>2, <2>3 DEF HeardRight
  <1>6. CASE Dead(l) \/ Lose(l)
    <2>1. UNCHANGED <<hosts, speech>> /\ answer' = [answer EXCEPT ![l] = "unreachable"]
      BY <1>6 DEF Dead, Lose, Report
    <2>2. \A k \in Legs : Onward(k)
      BY <2>1 DEF Onward, hosts
    <2>3. Booked'
      BY <1>1, <1>2, <2>1, <2>2, BooksKept DEF LegInv, speech
    <2>4. ToldOf(l)'
      BY <1>2, <1>3, <2>1 DEF ToldOf, hosts
    <2> QED  BY <1>1, <1>3, <2>1, <2>3, <2>4, ToldKept DEF hosts
  <1>7. CASE Receive(l) \/ Judge(l) \/ Settle(l) \/ Timeout(l) \/ Answer(l)
    <2>1. PICK p, r : Goes(l, p, r)
                      /\ \/ /\ host[l] \in {"no", "recorded"} /\ answer' = answer
                            /\ p \in {"recorded", "refused", "replying", "cleared"}
                            /\ r # None => p \in {"refused", "replying"} /\ r # "spoken"
                         \/ /\ host[l] = "refused" /\ p = "replying" /\ r = reply[l] /\ answer' = answer
                         \/ /\ host[l] = "waiting" /\ p = "replying" /\ r = "speaking" /\ answer' = answer
                         \/ /\ host[l] = "replying" /\ p = "over" /\ r = reply[l]
                            /\ answer' = answer \/ answer' = [answer EXCEPT ![l] = r]
      <3>1. CASE Receive(l)
        BY <1>4, <3>1 DEF Receive, calls
      <3>2. CASE Judge(l)
        <4>1. PICK v : v = Judgement(Dev(l), Target(l).space, Cmd[l[1]].priority, Len(queue[Dev(l)]))
          OBVIOUS
        <4>2. v \in Refusals \cup {"speak"}
          BY <4>1, VerdictValues DEF Judgement
        <4>3. /\ host[l] = "recorded" /\ answer' = answer
              /\ \/ Goes(l, "cleared", None)
                 \/ \E status \in Refusals \cup {"noEngine"} : Goes(l, "refused", status)
          BY <3>2, <4>1, <4>2 DEF Judge, calls
        <4>4. \A status \in Refusals \cup {"noEngine"} : status # "spoken"
          BY DEF Refusals
        <4> QED  BY <4>3, <4>4
      <3>3. CASE Timeout(l)
        BY <3>3 DEF Timeout, calls
      <3>4. CASE Answer(l)
        BY <3>4 DEF Answer, Report
      <3>5. CASE Settle(l)
        BY <3>5 DEF Settle, calls
      <3> QED  BY <1>7, <3>1, <3>2, <3>3, <3>4, <3>5
    <2>2. UNCHANGED speech
      BY <1>7 DEF Receive, Judge, Settle, Timeout, Answer
    <2>3. /\ host'[l] = p /\ reply'[l] = r
          /\ \A k \in Legs \ {l} : host'[k] = host[k] /\ reply'[k] = reply[k] /\ answer'[k] = answer[k]
          /\ answer'[l] = answer[l] \/ (answer'[l] = r /\ p = "over")
      BY <1>3, <2>1 DEF Goes
    <2>4. ASSUME NEW k \in Legs
          PROVE  Onward(k)
      <3>1. CASE k = l
        BY <1>4, <2>1, <2>3, <3>1 DEF Onward
      <3>2. CASE k # l
        BY <2>3, <3>2 DEF Onward
      <3> QED  BY <3>1, <3>2
    <2>5. Booked'
      BY <1>1, <1>2, <2>2, <2>4, BooksKept DEF LegInv, speech
    <2>6. ToldOf(l)'
      <3>1. CASE host[l] \in {"no", "recorded"}
        <4>1. ~LegHeard(l)'
          BY <1>2, <1>5, <3>1
        <4>2. answer'[l] \in {None, "unreachable"}
          BY <1>3, <2>1, <2>3, <3>1 DEF ToldOf
        <4>3. r # None => p \in {"refused", "replying"} /\ r # "spoken"
          BY <2>1, <3>1
        <4>4. Given(l)' /\ "spoken" \in Answers
          BY <1>2 DEF Answers, Outcomes
        <4> QED  BY <1>4, <2>3, <4>1, <4>2, <4>3, <4>4 DEF ToldOf
      <3>2. CASE host[l] = "waiting"
        <4>1. p = "replying" /\ r = "speaking" /\ answer'[l] \in {None, "unreachable"}
          BY <1>3, <2>1, <2>3, <3>2 DEF ToldOf
        <4> QED  BY <1>2, <1>4, <2>3, <4>1 DEF ToldOf
      <3>3. CASE host[l] = "replying"
        <4>1. p = "over" /\ r = reply[l] /\ answer[l] \in {None, "unreachable"}
          BY <1>3, <2>1, <3>3 DEF ToldOf
        <4> QED  BY <1>2, <1>3, <2>3, <4>1 DEF ToldOf
      <3>4. CASE host[l] = "refused"
        <4>1. p = "replying" /\ r = reply[l] /\ answer'[l] \in {None, "unreachable"}
          BY <1>3, <2>1, <2>3, <3>4 DEF ToldOf
        <4> QED  BY <1>2, <1>3, <2>3, <4>1 DEF ToldOf
      <3> QED  BY <2>1, <3>1, <3>2, <3>3, <3>4
    <2> QED  BY <1>1, <2>3, <2>6, <2>5, ToldKept
  <1>8. CASE Submit(l)
    <2>1. PICK p, r : /\ Goes(l, p, r) /\ p \in {"waiting", "replying"} /\ r \in {None, "queued"}
                      /\ r # None => p = "replying"
      BY <1>8 DEF Submit
    <2>2. /\ host[l] = "cleared" /\ answer' = answer /\ saying' = saying
          /\ queue' = [queue EXCEPT ![Dev(l)] = Append(@, Job(l))]
      BY <1>8 DEF Submit, calls
    <2>3. /\ host'[l] = p /\ reply'[l] = r
          /\ \A k \in Legs \ {l} : host'[k] = host[k] /\ reply'[k] = reply[k] /\ answer'[k] = answer[k]
      BY <1>3, <2>1, <2>2 DEF Goes
    <2>4. ~LegHeard(l)'
      BY <1>2, <1>5, <2>2
    <2>5. ToldOf(l)'
      <3>1. answer'[l] \in {None, "unreachable"}
        BY <1>3, <2>2 DEF ToldOf
      <3> QED  BY <1>2, <1>4, <2>1, <2>3, <2>4, <3>1 DEF ToldOf
    <2>6. Told'
      BY <1>1, <2>3, <2>5, ToldKept
    <2>7. \A k \in Legs : Onward(k)
      BY <2>2, <2>3 DEF Onward
    <2>8. \A e \in Devices : \A j : Sound(e, j) => Sound(e, j)' /\ (~j.asked => j.leg # l)
      <3> SUFFICES ASSUME NEW e \in Devices, NEW j, Sound(e, j)
                   PROVE  Sound(e, j)' /\ (~j.asked => j.leg # l)
        OBVIOUS
      <3>1. ~j.asked => j.leg \in Legs /\ j.leg # l
        BY <2>2 DEF Sound, At
      <3> QED  BY <1>1, <1>2, <2>7, <3>1, SoundKept
    <2>9. PICK d : d = Dev(l)
      OBVIOUS
    <2>10. PICK j : j = Job(l)
      OBVIOUS
    <2>11. j.leg = l /\ ~j.asked /\ j.id = l[1] /\ l # None
      BY <2>10, DeliveryAssumption DEF Job
    <2>12. Sound(d, j)'
      <3>1. At(d, l)' /\ ~Heard(d, l)'
        BY <1>1, <1>2, <1>3, <2>4, <2>9 DEF At, Heard, LegHeard
      <3>2. host'[l] \in {"waiting", "replying", "over"} /\ reply'[l] \notin Final
        BY <1>4, <2>1, <2>3
      <3> QED  BY <2>11, <3>1, <3>2 DEF Sound
    <2>13. PICK n : n = Len(queue[d])
      OBVIOUS
    <2>14. /\ d \in Devices /\ n \in Nat /\ DOMAIN queue[d] = 1 .. n /\ queue' = [queue EXCEPT ![d] = Append(@, j)]
           /\ DOMAIN queue'[d] = 1 .. n + 1
           /\ \A i \in 1 .. n : queue'[d][i] = queue[d][i]
           /\ queue'[d][n + 1] = j
           /\ \A e \in Devices \ {d} : queue'[e] = queue[e]
      <3>1. d \in Devices /\ queue[d] \in Seq(Jobs) /\ queue' = [queue EXCEPT ![d] = Append(@, j)]
        BY <1>3, <2>2, <2>9, <2>10
      <3>2. PICK q : q = Append(queue[d], j)
        OBVIOUS
      <3>3. /\ n \in Nat /\ DOMAIN queue[d] = 1 .. n /\ DOMAIN q = 1 .. n + 1
            /\ \A i \in 1 .. n : q[i] = queue[d][i]
            /\ q[n + 1] = j
        BY <2>13, <3>1, <3>2, AppendProperties, LenProperties
      <3>4. queue'[d] = q /\ \A e \in Devices \ {d} : queue'[e] = queue[e]
        BY <1>3, <3>1, <3>2
      <3> QED  BY <3>1, <3>3, <3>4
    <2>15. \A e \in Devices : \A k : Waits(e, k)' => Waits(e, k) \/ (e = d /\ k = j)
      <3> SUFFICES ASSUME NEW e \in Devices, NEW k, Waits(e, k)'
                   PROVE  Waits(e, k) \/ (e = d /\ k = j)
        OBVIOUS
      <3>1. CASE e # d
        BY <2>2, <2>14, <3>1 DEF Waits
      <3>2. CASE e = d
        <4>1. \A i \in 1 .. n + 1 : i \in 1 .. n \/ i = n + 1
          BY <2>14
        <4> QED  BY <2>2, <2>14, <3>2, <4>1 DEF Waits
      <3> QED  BY <3>1, <3>2
    <2>16. \A e \in Devices : \A k : Waits(e, k)' => Sound(e, k)'
      <3>1. \A e \in Devices : \A k : Waits(e, k) => Sound(e, k)
        BY BookedIs DEF LegInv
      <3> QED  BY <2>8, <2>12, <2>15, <3>1
    <2>17. ASSUME NEW e \in Devices
           PROVE  LineRight(e)'
      <3>1. LineRight(e) /\ \A k : Waits(e, k) => Sound(e, k)
        BY BookedIs DEF LegInv
      <3>2. CASE e # d
        BY <2>2, <2>14, <3>1, <3>2 DEF LineRight
      <3>3. CASE e = d
        <4>1. \A i \in 1 .. n : Sound(d, queue[d][i])
          BY <2>14, <3>1, <3>3 DEF Waits
        <4>2. \A i \in 1 .. n : queue[d][i].leg # l
          BY <2>8, <2>11, <2>14, <4>1 DEF Sound
        <4>3. saying[d] # None /\ ~saying[d].asked => saying[d].leg # l
          BY <2>8, <2>14, <3>1, <3>3 DEF Waits
        <4>4. \A i \in 1 .. n + 1 : i \in 1 .. n \/ i = n + 1
          BY <2>14
        <4>5. \A i, k \in 1 .. n + 1 :
                queue'[d][i].leg = queue'[d][k].leg /\ ~queue'[d][i].asked => i = k
          BY <2>11, <2>14, <3>1, <3>3, <4>2, <4>4 DEF LineRight
        <4>6. \A i \in 1 .. n + 1 :
                saying[d] # None /\ ~saying[d].asked => saying[d].leg # queue'[d][i].leg
          BY <2>11, <2>14, <3>1, <3>3, <4>3, <4>4 DEF LineRight
        <4> QED  BY <2>2, <2>14, <3>3, <4>5, <4>6 DEF LineRight
      <3> QED  BY <3>2, <3>3
    <2>18. ASSUME NEW e \in Devices
           PROVE  HeardRight(e)'
      <3>1. HeardRight(e)
        BY BookedIs DEF LegInv
      <3>2. \A k \in Legs : At(e, k) => At(e, k)'
        BY <1>2 DEF At, Stays
      <3>3. \A h \in heard[e] : h.leg # None => At(e, h.leg) /\ h.leg \in Legs
        BY <3>1 DEF HeardRight, At
      <3> QED  BY <1>1, <2>7, <3>1, <3>2, <3>3 DEF HeardRight, Onward
    <2>19. Booked'
      BY <2>16, <2>17, <2>18 DEF Booked, HeardRight, LineRight, Waits
    <2> QED  BY <2>6, <2>19
  <1> QED  BY <1>6, <1>7, <1>8 DEF LegStep

\* A step that touches no queue and no leg.
LEMMA BooksSame ==
    ASSUME LegInv, UNCHANGED <<targets, answer, host, reply, queue, saying, heard>>
    PROVE  Booked' /\ Told'
  <1>1. \A l \in Legs : (Given(l)' <=> Given(l)) /\ Dev(l)' = Dev(l)
    BY DEF Given, Dev, Target
  <1>2. \A l \in Legs : Stays(l) /\ Onward(l)
    BY <1>1 DEF Stays, Onward
  <1>3. Booked'
    BY <1>2, BooksKept DEF LegInv
  <1>4. Told'
    BY <1>1 DEF LegInv, Told, LegHeard
  <1> QED  BY <1>3, <1>4

\* Some of what waits at d goes, and nothing that stays has the leg of a job that ends.
Thins(d, jobs) ==
    /\ \A e \in Devices \ {d} : queue'[e] = queue[e] /\ saying'[e] = saying[e]
    /\ \E pos : Drawn(queue'[d], queue[d], pos)
    /\ saying'[d] \in {None, saying[d]}
    /\ \A j : Waits(d, j)' => j.asked \/ \A k \in jobs : k.leg # j.leg

LEMMA DrawnLine ==
    ASSUME NEW d \in Devices, LineRight(d), \E pos : Drawn(queue'[d], queue[d], pos),
           saying'[d] \in {None, saying[d]}
    PROVE  LineRight(d)' /\ \A j : Waits(d, j)' => Waits(d, j)
  <1>1. PICK pos : Drawn(queue'[d], queue[d], pos)
    OBVIOUS
  <1>2. \A k \in DOMAIN queue'[d] : pos[k] \in DOMAIN queue[d] /\ queue'[d][k] = queue[d][pos[k]]
    BY <1>1 DEF Drawn
  <1>3. LineRight(d)'
    <2>1. ASSUME NEW i \in DOMAIN queue'[d], NEW k \in DOMAIN queue'[d],
                 queue'[d][i].leg = queue'[d][k].leg, ~queue'[d][i].asked
          PROVE  i = k
      <3>1. pos[i] = pos[k]
        BY <1>2, <2>1 DEF LineRight
      <3> QED  BY <1>1, <3>1 DEF Drawn
    <2>2. ASSUME NEW i \in DOMAIN queue'[d], saying'[d] # None, ~saying'[d].asked
          PROVE  saying'[d].leg # queue'[d][i].leg
      BY <1>2, <2>2 DEF LineRight
    <2> QED  BY <2>1, <2>2 DEF LineRight
  <1>4. \A j : Waits(d, j)' => Waits(d, j)
    BY <1>2 DEF Waits
  <1> QED  BY <1>3, <1>4

LEMMA BooksOver ==
    ASSUME LegInv, NEW d \in Devices, NEW jobs, \A j \in jobs : Waits(d, j),
           NEW status \in Outcomes, Over(d, jobs, status), Thins(d, jobs)
    PROVE  Booked' /\ Told'
  <1>1. \A e \in Devices : HeardRight(e) /\ LineRight(e) /\ \A j : Waits(e, j) => Sound(e, j)
    BY BookedIs DEF LegInv
  <1>2. \A j \in jobs : Sound(d, j)
    BY <1>1
  <1>3. /\ Told' /\ \A e \in Devices : HeardRight(e)'
        /\ \A e \in Devices : \A j :
              Sound(e, j) /\ (e = d => j.asked \/ \A k \in jobs : k.leg # j.leg) => Sound(e, j)'
    BY <1>2, OverBooks
  <1>4. \A e \in Devices : LineRight(e)' /\ \A j : Waits(e, j)' => Waits(e, j)
    <2> SUFFICES ASSUME NEW e \in Devices
                 PROVE  LineRight(e)' /\ \A j : Waits(e, j)' => Waits(e, j)
      OBVIOUS
    <2>1. CASE e # d
      BY <1>1, <2>1 DEF Thins, LineRight, Waits
    <2>2. CASE e = d
      <3>1. LineRight(d) /\ (\E pos : Drawn(queue'[d], queue[d], pos)) /\ saying'[d] \in {None, saying[d]}
        BY <1>1 DEF Thins
      <3>2. LineRight(d)' /\ \A j : Waits(d, j)' => Waits(d, j)
        BY <3>1, DrawnLine
      <3> QED  BY <2>2, <3>2 DEF LineRight, Waits
    <2> QED  BY <2>1, <2>2
  <1>5. \A e \in Devices : \A j : Waits(e, j)' => Sound(e, j)'
    <2> SUFFICES ASSUME NEW e \in Devices, NEW j, Waits(e, j)'
                 PROVE  Sound(e, j)'
      OBVIOUS
    <2>1. Sound(e, j)
      BY <1>1, <1>4
    <2>2. e = d => j.asked \/ \A k \in jobs : k.leg # j.leg
      BY DEF Thins, Waits
    <2> QED  BY <1>3, <2>1, <2>2
  <1>6. Booked'
    BY <1>3, <1>4, <1>5 DEF Booked, HeardRight, LineRight, Waits
  <1> QED  BY <1>3, <1>6

\* Nothing else that waits has the leg of the message that is spoken.
LEMMA SayingAlone ==
    ASSUME LegInv, NEW d \in Devices, saying[d] # None,
           NEW i \in DOMAIN queue[d], ~queue[d][i].asked
    PROVE  saying[d].leg # queue[d][i].leg
  <1>1. LineRight(d) /\ \A j : Waits(d, j) => Sound(d, j)
    BY BookedIs DEF LegInv
  <1>2. Sound(d, saying[d]) /\ Sound(d, queue[d][i])
    BY <1>1 DEF Waits
  <1>3. CASE saying[d].asked
    BY <1>2, <1>3 DEF Sound
  <1>4. CASE ~saying[d].asked
    BY <1>1, <1>4 DEF LineRight
  <1> QED  BY <1>3, <1>4

LEMMA LegInvBegin ==
    ASSUME LegInv, NEW d \in Devices, Begin(d)
    PROVE  Booked' /\ Told'
  <1>1. PICK i : i = First(queue[d])
    OBVIOUS
  <1>2. PICK j : j = queue[d][i]
    OBVIOUS
  <1>3. PICK v : v = Gate(d, j)
    OBVIOUS
  <1>4. /\ queue \in [Devices -> Seq(Jobs)] /\ saying \in [Devices -> Jobs \cup {None}]
        /\ heard \in [Devices -> SUBSET [id : Sends, leg : Legs \cup {None}]]
        /\ queue[d] \in Seq(Jobs) /\ queue[d] # <<>> /\ saying[d] = None
    BY DEF Begin, LegInv, TypeOK
  <1>5. i \in DOMAIN queue[d]
    BY <1>1, <1>4, FirstIn
  <1>6. j \in Jobs /\ j # None
    BY <1>2, <1>4, <1>5, ElementOfSeq, DeliveryAssumption
  <1>7. PICK q : q = RemoveAt(queue[d], i)
    OBVIOUS
  <1>8. PICK pos : Drawn(q, queue[d], pos) /\ \A k \in DOMAIN q : pos[k] # i
    BY <1>4, <1>5, <1>7, RemoveAtDrawn
  <1>9. queue' = [queue EXCEPT ![d] = q] /\ targets' = targets /\ answer' = answer /\ heard' = heard
    BY <1>1, <1>7 DEF Begin, calls
  <1>10. queue'[d] = q /\ \A e \in Devices \ {d} : queue'[e] = queue[e]
    BY <1>4, <1>9
  <1>11. LineRight(d) /\ \A x : Waits(d, x) => Sound(d, x)
    BY BookedIs DEF LegInv
  <1>12. \A k \in DOMAIN q : q[k].asked \/ q[k].leg # j.leg
    BY <1>2, <1>5, <1>8, <1>11 DEF Drawn, LineRight
  <1>13. \/ v = "speak" /\ saying' = [saying EXCEPT ![d] = j] /\ UNCHANGED <<host, reply>>
         \/ v # "speak" /\ Ends(d, {j}, v) /\ saying' = saying
    BY <1>1, <1>2, <1>3 DEF Begin
  <1>14. CASE v # "speak" /\ Ends(d, {j}, v) /\ saying' = saying
    <2>1. v \in Outcomes /\ v # "spoken"
      <3>1. v \in Refusals \cup {"speak"}
        BY <1>3, VerdictValues DEF Gate, Judgement
      <3> QED  BY <1>14, <3>1 DEF Outcomes, Refusals
    <2>2. Over(d, {j}, v)
      BY <1>9, <1>14, <2>1 DEF Over
    <2>3. Thins(d, {j})
      <3>1. \A e \in Devices \ {d} : queue'[e] = queue[e] /\ saying'[e] = saying[e]
        BY <1>10, <1>14
      <3>2. \E p : Drawn(queue'[d], queue[d], p)
        BY <1>8, <1>10
      <3>3. saying'[d] = None
        BY <1>4, <1>14
      <3>4. \A x : Waits(d, x)' => x.asked \/ x.leg # j.leg
        BY <1>10, <1>12, <3>3 DEF Waits
      <3> QED  BY <3>1, <3>2, <3>3, <3>4 DEF Thins
    <2>4. Waits(d, j)
      BY <1>2, <1>5 DEF Waits
    <2> QED  BY <2>1, <2>2, <2>3, <2>4, BooksOver
  <1>15. CASE saying' = [saying EXCEPT ![d] = j] /\ UNCHANGED <<host, reply>>
    <2>1. /\ \A l \in Legs : Stays(l) /\ Onward(l) /\ (Given(l)' <=> Given(l)) /\ Dev(l)' = Dev(l)
          /\ saying'[d] = j /\ \A e \in Devices \ {d} : saying'[e] = saying[e]
      BY <1>4, <1>9, <1>15 DEF Stays, Onward, Given, Dev, Target
    <2>2. Told'
      BY <1>9, <1>15, <2>1 DEF LegInv, Told, LegHeard
    <2>3. \A e \in Devices : \A x : Waits(e, x)' => Waits(e, x)
      <3> SUFFICES ASSUME NEW e \in Devices, NEW x, Waits(e, x)'
                   PROVE  Waits(e, x)
        OBVIOUS
      <3>1. CASE e # d
        BY <1>10, <2>1, <3>1 DEF Waits
      <3>2. CASE e = d
        <4>1. Waits(d, j)
          BY <1>2, <1>5 DEF Waits
        <4>2. \A k \in DOMAIN q : Waits(d, q[k])
          BY <1>8 DEF Drawn, Waits
        <4> QED  BY <1>10, <2>1, <3>2, <4>1, <4>2 DEF Waits
      <3> QED  BY <3>1, <3>2
    <2>4. \A e \in Devices : \A x : Waits(e, x)' => Sound(e, x)'
      <3> SUFFICES ASSUME NEW e \in Devices, NEW x, Waits(e, x)'
                   PROVE  Sound(e, x)'
        OBVIOUS
      <3>1. Sound(e, x)
        BY <2>3, BookedIs DEF LegInv
      <3>2. ~x.asked => x.leg \in Legs
        BY <3>1 DEF Sound, At
      <3> QED  BY <1>9, <2>1, <3>1, <3>2, SoundKept
    <2>5. \A e \in Devices : LineRight(e)'
      <3> SUFFICES ASSUME NEW e \in Devices
                   PROVE  LineRight(e)'
        OBVIOUS
      <3>1. LineRight(e)
        BY BookedIs DEF LegInv
      <3>2. CASE e # d
        BY <1>10, <2>1, <3>1, <3>2 DEF LineRight
      <3>3. CASE e = d
        <4>1. ASSUME NEW a \in DOMAIN q, NEW b \in DOMAIN q, q[a].leg = q[b].leg, ~q[a].asked
              PROVE  a = b
          <5>1. pos[a] = pos[b]
            BY <1>8, <1>11, <4>1 DEF Drawn, LineRight
          <5> QED  BY <1>8, <5>1 DEF Drawn
        <4>2. ASSUME NEW a \in DOMAIN q, ~j.asked
              PROVE  j.leg # q[a].leg
          BY <1>2, <1>5, <1>8, <1>11, <4>2 DEF Drawn, LineRight
        <4> QED  BY <1>10, <2>1, <3>3, <4>1, <4>2 DEF LineRight
      <3> QED  BY <3>2, <3>3
    <2>6. \A e \in Devices : HeardRight(e)'
      <3> SUFFICES ASSUME NEW e \in Devices
                   PROVE  HeardRight(e)'
        OBVIOUS
      <3>1. HeardRight(e)
        BY BookedIs DEF LegInv
      <3>2. \A k \in Legs : At(e, k) => At(e, k)'
        BY <2>1 DEF At
      <3>3. \A h \in heard[e] : h.leg # None => At(e, h.leg) /\ h.leg \in Legs
        BY <3>1 DEF HeardRight, At
      <3> QED  BY <1>9, <1>15, <3>1, <3>2, <3>3 DEF HeardRight
    <2>7. Booked'
      BY <2>4, <2>5, <2>6 DEF Booked, HeardRight, LineRight, Waits
    <2> QED  BY <2>2, <2>7
  <1> QED  BY <1>13, <1>14, <1>15

LEMMA DrawnSelf ==
    ASSUME NEW q
    PROVE  \E pos : Drawn(q, q, pos)
  <1>1. PICK pos : pos = [k \in DOMAIN q |-> k]
    OBVIOUS
  <1>2. Drawn(q, q, pos)
    BY <1>1 DEF Drawn
  <1> QED  BY <1>2

\* The message that is spoken goes, and nothing else does.
LEMMA SayingGoes ==
    ASSUME LegInv, NEW d \in Devices, saying[d] # None,
           saying' = [saying EXCEPT ![d] = None], queue' = queue
    PROVE  Thins(d, {saying[d]}) /\ Waits(d, saying[d])
  <1>1. saying'[d] = None /\ \A e \in Devices \ {d} : saying'[e] = saying[e]
    BY DEF LegInv, TypeOK
  <1>2. \E pos : Drawn(queue'[d], queue[d], pos)
    BY DrawnSelf
  <1>3. \A j : Waits(d, j)' => j.asked \/ saying[d].leg # j.leg
    BY <1>1, SayingAlone DEF Waits
  <1> QED  BY <1>1, <1>2, <1>3 DEF Thins, Waits

LEMMA LegInvFinish ==
    ASSUME LegInv, NEW d \in Devices, Finish(d)
    PROVE  Booked' /\ Told'
  <1>1. PICK status \in {"spoken"} \cup (Faults \cap {"noEngine"}) :
          /\ Ends(d, {saying[d]}, status)
          /\ heard' = [heard EXCEPT ![d] =
                IF status = "spoken" THEN @ \cup {[id |-> saying[d].id, leg |-> saying[d].leg]}
                ELSE @]
    BY DEF Finish
  <1>2. /\ saying[d] # None /\ saying' = [saying EXCEPT ![d] = None]
        /\ UNCHANGED <<targets, answer, queue>>
    BY DEF Finish, calls
  <1>3. status \in Outcomes
    BY DEF Outcomes
  <1>4. Over(d, {saying[d]}, status)
    <2>1. /\ \A e \in Devices \ {d} : heard'[e] = heard[e]
          /\ heard'[d] = IF status = "spoken"
                         THEN heard[d] \cup {[id |-> saying[d].id, leg |-> saying[d].leg]} ELSE heard[d]
      BY <1>1 DEF LegInv, TypeOK
    <2>2. heard'[d] = heard[d] \cup
             {[id |-> j.id, leg |-> j.leg] : j \in IF status = "spoken" THEN {saying[d]} ELSE {}}
      BY <2>1
    <2> QED  BY <1>1, <1>2, <2>1, <2>2 DEF Over
  <1>5. Thins(d, {saying[d]}) /\ Waits(d, saying[d])
    BY <1>2, SayingGoes
  <1>6. \A j \in {saying[d]} : Waits(d, j)
    BY <1>5
  <1> QED  BY <1>3, <1>4, <1>5, <1>6, BooksOver

LEMMA LegInvStop ==
    ASSUME LegInv, NEW d \in Devices, NEW id \in Sends, StopMessage(d, id)
    PROVE  Booked' /\ Told'
  <1>1. UNCHANGED <<targets, answer, heard>> /\ "cancelled" \in Outcomes
    BY DEF StopMessage, calls, seen, Outcomes
  <1>2. \A jobs : Ends(d, jobs, "cancelled") => Over(d, jobs, "cancelled")
    BY <1>1 DEF Over
  <1>3. /\ queue \in [Devices -> Seq(Jobs)] /\ queue[d] \in Seq(Jobs)
        /\ LineRight(d) /\ \A x : Waits(d, x) => Sound(d, x)
    BY BookedIs DEF LegInv, TypeOK
  <1>4. CASE /\ saying[d] # None /\ saying[d].id = id
             /\ Ends(d, {saying[d]}, "cancelled")
             /\ saying' = [saying EXCEPT ![d] = None]
             /\ UNCHANGED queue
    <2>1. Thins(d, {saying[d]}) /\ Waits(d, saying[d])
      BY <1>4, SayingGoes
    <2>2. \A j \in {saying[d]} : Waits(d, j)
      BY <2>1
    <2>3. Over(d, {saying[d]}, "cancelled")
      BY <1>2, <1>4
    <2> QED  BY <1>1, <2>1, <2>2, <2>3, BooksOver
  <1>5. CASE /\ \E i \in DOMAIN queue[d] :
                   /\ Ends(d, {queue[d][i]}, "cancelled")
                   /\ queue' = [queue EXCEPT ![d] = RemoveAt(@, i)]
             /\ UNCHANGED saying
    <2>1. PICK i \in DOMAIN queue[d] :
             /\ Ends(d, {queue[d][i]}, "cancelled")
             /\ queue' = [queue EXCEPT ![d] = RemoveAt(@, i)]
      BY <1>5
    <2>2. PICK j : j = queue[d][i]
      OBVIOUS
    <2>3. PICK q : q = RemoveAt(queue[d], i)
      OBVIOUS
    <2>4. PICK pos : Drawn(q, queue[d], pos) /\ \A k \in DOMAIN q : pos[k] # i
      BY <1>3, <2>3, RemoveAtDrawn
    <2>5. queue'[d] = q /\ \A e \in Devices \ {d} : queue'[e] = queue[e] /\ saying'[e] = saying[e]
      BY <1>3, <1>5, <2>1, <2>3
    <2>6. \E p : Drawn(queue'[d], queue[d], p)
      BY <2>4, <2>5
    <2>7. ASSUME NEW x, Waits(d, x)', ~x.asked
          PROVE  j.leg # x.leg
      <3>1. CASE \E k \in DOMAIN q : q[k] = x
        <4>1. PICK k \in DOMAIN q : q[k] = x
          BY <3>1
        <4>2. pos[k] \in DOMAIN queue[d] /\ x = queue[d][pos[k]] /\ pos[k] # i
          BY <2>4, <4>1 DEF Drawn
        <4> QED  BY <1>3, <2>2, <2>7, <4>2 DEF LineRight
      <3>2. CASE x = saying[d] /\ x # None
        BY <1>3, <2>2, <2>7, <3>2 DEF LineRight
      <3> QED  BY <1>5, <2>5, <2>7, <3>1, <3>2 DEF Waits
    <2>8. Thins(d, {j})
      BY <1>5, <2>5, <2>6, <2>7 DEF Thins
    <2>9. Waits(d, j)
      BY <2>2 DEF Waits
    <2>10. Over(d, {j}, "cancelled")
      BY <1>2, <2>1, <2>2
    <2> QED  BY <1>1, <2>8, <2>9, <2>10, BooksOver
  <1>6. \/ /\ saying[d] # None /\ saying[d].id = id
           /\ Ends(d, {saying[d]}, "cancelled")
           /\ saying' = [saying EXCEPT ![d] = None]
           /\ UNCHANGED queue
        \/ /\ \E i \in DOMAIN queue[d] :
                 /\ Ends(d, {queue[d][i]}, "cancelled")
                 /\ queue' = [queue EXCEPT ![d] = RemoveAt(@, i)]
           /\ UNCHANGED saying
    BY DEF StopMessage
  <1> QED  BY <1>4, <1>5, <1>6

LEMMA LegInvStopAll ==
    ASSUME LegInv, NEW d \in Devices, StopAll(d)
    PROVE  Booked' /\ Told'
  <1>1. PICK jobs : jobs = ToSet(queue[d]) \cup ({saying[d]} \ {None})
    OBVIOUS
  <1>2. /\ UNCHANGED <<targets, answer, heard>> /\ "cancelled" \in Outcomes
        /\ Ends(d, jobs, "cancelled")
        /\ queue' = [queue EXCEPT ![d] = <<>>] /\ saying' = [saying EXCEPT ![d] = None]
    BY <1>1 DEF StopAll, calls, seen, Outcomes
  <1>3. Over(d, jobs, "cancelled")
    BY <1>2 DEF Over
  <1>4. /\ queue'[d] = <<>> /\ saying'[d] = None
        /\ \A e \in Devices \ {d} : queue'[e] = queue[e] /\ saying'[e] = saying[e]
    BY <1>2 DEF LegInv, TypeOK
  <1>5. Drawn(<<>>, queue[d], <<>>)
    BY DEF Drawn
  <1>6. Thins(d, jobs)
    <2>1. \E pos : Drawn(queue'[d], queue[d], pos)
      BY <1>4, <1>5
    <2>2. \A j : ~Waits(d, j)'
      BY <1>4 DEF Waits
    <2> QED  BY <1>4, <2>1, <2>2 DEF Thins
  <1>7. \A j \in jobs : Waits(d, j)
    <2>1. queue[d] \in Seq(Jobs)
      BY DEF LegInv, TypeOK
    <2>2. \A j \in ToSet(queue[d]) : \E n \in DOMAIN queue[d] : queue[d][n] = j
      BY <2>1, ToSetOf
    <2> QED  BY <1>1, <2>2 DEF Waits
  <1> QED  BY <1>2, <1>3, <1>6, <1>7, BooksOver

\* What is replayed has no leg.
LEMMA LegInvReplay ==
    ASSUME LegInv, NEW d \in Devices, NEW id \in Sends, Replay(d, id)
    PROVE  Booked' /\ Told'
  <1>1. PICK j : j = Replayed(d, id)
    OBVIOUS
  <1>2. j.leg = None /\ j.asked
    BY <1>1 DEF Replayed
  <1>3. /\ UNCHANGED <<targets, answer, host, reply, saying, heard>>
        /\ queue' = [queue EXCEPT ![d] = Append(@, j)]
    BY <1>1 DEF Replay, calls, hosts, seen
  <1>4. \A l \in Legs : Stays(l) /\ Onward(l) /\ (Given(l)' <=> Given(l)) /\ Dev(l)' = Dev(l)
    BY <1>3 DEF Stays, Onward, Given, Dev, Target
  <1>5. Told'
    BY <1>3, <1>4 DEF LegInv, Told, LegHeard
  <1>6. \A e \in Devices : HeardRight(e) /\ LineRight(e) /\ \A x : Waits(e, x) => Sound(e, x)
    BY BookedIs DEF LegInv
  <1>7. PICK n : n = Len(queue[d])
    OBVIOUS
  <1>8. /\ n \in Nat /\ DOMAIN queue[d] = 1 .. n /\ DOMAIN queue'[d] = 1 .. n + 1
        /\ \A i \in 1 .. n : queue'[d][i] = queue[d][i]
        /\ queue'[d][n + 1] = j
        /\ \A e \in Devices \ {d} : queue'[e] = queue[e]
    <2>1. queue \in [Devices -> Seq(Jobs)] /\ queue[d] \in Seq(Jobs)
      BY DEF LegInv, TypeOK
    <2>2. PICK q : q = Append(queue[d], j)
      OBVIOUS
    <2>3. PICK A : A = Jobs \cup {j}
      OBVIOUS
    <2>4. queue[d] \in Seq(A) /\ j \in A
      BY <2>1, <2>3
    <2>5. /\ n \in Nat /\ DOMAIN queue[d] = 1 .. n /\ DOMAIN q = 1 .. n + 1
          /\ \A i \in 1 .. n : q[i] = queue[d][i]
          /\ q[n + 1] = j
      BY <1>7, <2>2, <2>4, AppendProperties, LenProperties
    <2>6. queue'[d] = q /\ \A e \in Devices \ {d} : queue'[e] = queue[e]
      BY <1>3, <2>1, <2>2
    <2> QED  BY <2>5, <2>6
  <1>9. \A i \in 1 .. n + 1 : i \in 1 .. n \/ i = n + 1
    BY <1>8
  <1>10. \A e \in Devices : \A x : Waits(e, x)' => Sound(e, x)'
    <2> SUFFICES ASSUME NEW e \in Devices, NEW x, Waits(e, x)'
                 PROVE  Sound(e, x)'
      OBVIOUS
    <2>1. CASE x.asked /\ x.leg = None
      BY <2>1 DEF Sound
    <2>2. CASE ~(x.asked /\ x.leg = None)
      <3>1. Waits(e, x)
        <4>1. CASE e = d
          BY <1>2, <1>3, <1>8, <1>9, <2>2, <4>1 DEF Waits
        <4>2. CASE e # d
          BY <1>3, <1>8, <4>2 DEF Waits
        <4> QED  BY <4>1, <4>2
      <3>2. Sound(e, x) /\ (~x.asked => x.leg \in Legs)
        BY <1>6, <3>1 DEF Sound, At
      <3> QED  BY <1>3, <1>4, <3>2, SoundKept
    <2> QED  BY <2>1, <2>2
  <1>11. \A e \in Devices : LineRight(e)'
    <2> SUFFICES ASSUME NEW e \in Devices
                 PROVE  LineRight(e)'
      OBVIOUS
    <2>1. CASE e # d
      BY <1>3, <1>6, <1>8, <2>1 DEF LineRight
    <2>2. CASE e = d
      <3>1. \A i \in 1 .. n : ~queue[d][i].asked => queue[d][i].leg # None
        BY <1>6, <1>8 DEF Waits, Sound
      <3>2. saying[d] # None /\ ~saying[d].asked => saying[d].leg # None
        BY <1>6 DEF Waits, Sound
      <3>3. \A i, k \in 1 .. n + 1 :
               queue'[d][i].leg = queue'[d][k].leg /\ ~queue'[d][i].asked => i = k
        <4> SUFFICES ASSUME NEW i \in 1 .. n + 1, NEW k \in 1 .. n + 1,
                            queue'[d][i].leg = queue'[d][k].leg, ~queue'[d][i].asked
                     PROVE  i = k
          OBVIOUS
        <4>1. i \in 1 .. n
          BY <1>2, <1>8, <1>9
        <4>2. k \in 1 .. n
          BY <1>2, <1>8, <1>9, <3>1, <4>1
        <4>3. queue[d][i].leg = queue[d][k].leg /\ ~queue[d][i].asked
          BY <1>8, <4>1, <4>2
        <4> QED  BY <1>6, <1>8, <4>1, <4>2, <4>3 DEF LineRight
      <3>4. \A i \in 1 .. n + 1 :
               saying[d] # None /\ ~saying[d].asked => saying[d].leg # queue'[d][i].leg
        BY <1>2, <1>6, <1>8, <1>9, <3>2 DEF LineRight
      <3> QED  BY <1>3, <1>8, <2>2, <3>3, <3>4 DEF LineRight
    <2> QED  BY <2>1, <2>2
  <1>12. \A e \in Devices : HeardRight(e)'
    <2> SUFFICES ASSUME NEW e \in Devices
                 PROVE  HeardRight(e)'
      OBVIOUS
    <2>1. \A k \in Legs : At(e, k) => At(e, k)'
      BY <1>4 DEF At
    <2>2. \A h \in heard[e] : h.leg # None => At(e, h.leg) /\ h.leg \in Legs
      BY <1>6 DEF HeardRight, At
    <2> QED  BY <1>3, <1>6, <2>1, <2>2 DEF HeardRight
  <1>13. Booked'
    BY <1>10, <1>11, <1>12 DEF Booked, HeardRight, LineRight, Waits
  <1> QED  BY <1>5, <1>13

LEMMA LegInvRestart ==
    ASSUME LegInv, NEW d \in Devices, Restart(d)
    PROVE  Booked' /\ Told'
  <1>1. /\ UNCHANGED <<targets, answer, reply, heard>>
        /\ queue' = [queue EXCEPT ![d] = <<>>] /\ saying' = [saying EXCEPT ![d] = None]
        /\ host' = [l \in Legs |-> IF Given(l) /\ Dev(l) = d /\ host[l] # "no" THEN "over" ELSE host[l]]
    BY DEF Restart, seen
  <1>2. \A l \in Legs : (Given(l)' <=> Given(l)) /\ Dev(l)' = Dev(l)
    BY <1>1 DEF Given, Dev, Target
  <1>3. \A l \in Legs : host'[l] = host[l] \/ (host[l] # "no" /\ host'[l] = "over")
    BY <1>1
  <1>4. \A l \in Legs : Stays(l) /\ Onward(l)
    BY <1>1, <1>2, <1>3 DEF Stays, Onward
  <1>5. \A e \in Devices : HeardRight(e) /\ LineRight(e) /\ \A x : Waits(e, x) => Sound(e, x)
    BY BookedIs DEF LegInv
  <1>6. /\ queue'[d] = <<>> /\ saying'[d] = None
        /\ \A e \in Devices \ {d} : queue'[e] = queue[e] /\ saying'[e] = saying[e]
    BY <1>1 DEF LegInv, TypeOK
  <1>7. \A e \in Devices : \A x : Waits(e, x)' => Sound(e, x)'
    <2> SUFFICES ASSUME NEW e \in Devices, NEW x, Waits(e, x)'
                 PROVE  Sound(e, x)'
      OBVIOUS
    <2>1. Waits(e, x)
      BY <1>6 DEF Waits
    <2>2. Sound(e, x) /\ (~x.asked => x.leg \in Legs)
      BY <1>5, <2>1 DEF Sound, At
    <2> QED  BY <1>1, <1>4, <2>2, SoundKept
  <1>8. \A e \in Devices : LineRight(e)'
    BY <1>5, <1>6 DEF LineRight
  <1>9. \A e \in Devices : HeardRight(e)'
    <2> SUFFICES ASSUME NEW e \in Devices
                 PROVE  HeardRight(e)'
      OBVIOUS
    <2>1. \A k \in Legs : At(e, k) => At(e, k)'
      BY <1>2 DEF At
    <2>2. \A h \in heard[e] : h.leg # None => At(e, h.leg) /\ h.leg \in Legs
      BY <1>5 DEF HeardRight, At
    <2> QED  BY <1>1, <1>3, <1>5, <2>1, <2>2 DEF HeardRight
  <1>10. Booked'
    BY <1>7, <1>8, <1>9 DEF Booked, HeardRight, LineRight, Waits
  <1>11. ASSUME NEW l \in Legs
         PROVE  ToldOf(l)'
    <2>1. ToldOf(l)
      BY ToldIs DEF LegInv
    <2>2. LegHeard(l)' <=> LegHeard(l)
      BY <1>1, <1>2 DEF LegHeard
    <2> QED  BY <1>1, <1>2, <1>3, <2>1, <2>2 DEF ToldOf
  <1>12. Told'
    BY <1>11 DEF Told, ToldOf
  <1> QED  BY <1>10, <1>12

LEMMA LegInvNext ==
    ASSUME LegInv, [Next]_vars
    PROVE  LegInv'
  <1>1. TypeOK'
    BY TypeNext DEF LegInv
  <1>2. CASE \E m \in Sends : Speak(m)
    BY <1>1, <1>2, LegInvSpeak DEF LegInv
  <1>3. CASE \E l \in Legs : Given(l) /\ (LegStep(l) \/ Lose(l))
    BY <1>1, <1>3, LegInvLegs DEF LegInv
  <1>4. CASE \E d \in Devices : Speaks(d) \/ Person(d) \/ Restart(d)
    <2>1. PICK d \in Devices : Speaks(d) \/ Person(d) \/ Restart(d)
      BY <1>4
    <2>2. CASE Speaks(d)
      BY <1>1, <2>2, LegInvBegin, LegInvFinish DEF LegInv, Speaks
    <2>3. CASE Restart(d)
      BY <1>1, <2>3, LegInvRestart DEF LegInv
    <2>4. CASE Person(d)
      <3>1. CASE \E id \in Sends : StopMessage(d, id) \/ Replay(d, id)
        BY <1>1, <3>1, LegInvStop, LegInvReplay DEF LegInv
      <3>2. CASE StopAll(d)
        BY <1>1, <3>2, LegInvStopAll DEF LegInv
      <3>3. CASE \/ Hold(d)
                 \/ \E scope \in Spaces \cup {None} :
                       \/ \E on \in BOOLEAN : SetMute(d, scope, on)
                       \/ \E q \in Hours[d] \cup {NoWindow} : SetQuiet(d, scope, q)
        <4>1. UNCHANGED <<targets, answer, host, reply, queue, saying, heard>>
          BY <3>3 DEF Hold, SetMute, SetQuiet, calls, hosts, speech, seen
        <4> QED  BY <1>1, <4>1, BooksSame DEF LegInv
      <3> QED  BY <2>4, <3>1, <3>2, <3>3 DEF Person
    <2> QED  BY <2>1, <2>2, <2>3, <2>4
  <1>5. CASE Tick \/ UNCHANGED vars
    <2>1. UNCHANGED <<targets, answer, host, reply, queue, saying, heard>>
      BY <1>5 DEF Tick, vars, calls, hosts, speech, seen
    <2> QED  BY <1>1, <2>1, BooksSame DEF LegInv
  <1> QED  BY <1>2, <1>3, <1>4, <1>5 DEF Next

LEMMA LegInvAlways == Spec => []LegInv
  <1>1. Init => LegInv
    BY LegInvInit
  <1>2. LegInv /\ [Next]_vars => LegInv'
    BY LegInvNext
  <1> QED  BY <1>1, <1>2, PTL DEF Spec

-----------------------------------------------------------------------------
(* What is promised of any message. *)

\* The state is always one node.rs, history.rs and policy.rs can be in: a job in a
\* queue has the leg and the policy it was let through under, a history holds
\* HISTORY_LIMIT entries at most, and an entry has an outcome or is queued.
THEOREM DeliveryTypes == Spec => []TypeOK
  <1>1. LegInv => TypeOK
    BY DEF LegInv
  <1> QED  BY <1>1, LegInvAlways, PTL

\* A row of the report that `say` prints says "spoken" of what was heard and only of
\* that, and "muted", "cancelled", "rejected" and the like of what was not and never
\* is, whatever the caller's timeout, the connection, a stop, a replay or a restart do
\* to the message meanwhile.
THEOREM ReportsAreTrue == Spec => []AnswerIsTrue
  <1>1. LegInv => AnswerIsTrue
    <2> SUFFICES ASSUME LegInv, NEW l \in Legs, Given(l)
                 PROVE  /\ answer[l] = "spoken" => LegHeard(l)
                        /\ answer[l] \in Refusals \cup {"cancelled", "rejected", "noEngine"} => ~LegHeard(l)
      BY DEF AnswerIsTrue
    <2>1. ToldOf(l)
      BY ToldIs DEF LegInv
    <2>2. None \notin Answers /\ Final \subseteq Answers
      BY DeliveryAssumption DEF Final, Answers, Outcomes
    <2>3. "unreachable" \notin Final /\ "spoken" \in Final /\ "spoken" \notin Refusals
          /\ Refusals \cup {"cancelled", "rejected", "noEngine"} \subseteq Final \ {"spoken"}
      BY DEF Final, Refusals
    <2> QED  BY <2>1, <2>2, <2>3 DEF ToldOf
  <1> QED  BY <1>1, LegInvAlways, PTL

-----------------------------------------------------------------------------
(* What is promised of one command, one device and one space. *)

LEMMA SingleNext ==
    ASSUME LegInv, Single, [Next]_vars
    PROVE  Single'
  <1>1. CASE targets' = targets
    BY <1>1 DEF Single
  <1>2. CASE \E m \in Sends : Speak(m)
    <2>1. PICK m \in Sends : Speak(m)
      BY <1>2
    <2>2. PICK T : T = Resolve(Cmd[m].from, Cmd[m].to)
      OBVIOUS
    <2>3. Cmd[m].from \in Devices /\ Cmd[m].to \in Seq(Elements)
      BY DeliveryAssumption
    <2>4. IsInjective(T)
      BY <2>2, <2>3, ResolveFacts
    <2>5. targets' = [targets EXCEPT ![m] = T]
      BY <2>1, <2>2 DEF Speak
    <2>6. targets'[m] = T /\ \A n \in Sends \ {m} : targets'[n] = targets[n]
      BY <2>5 DEF LegInv, TypeOK
    <2> QED  BY <2>4, <2>6 DEF Single
  <1>3. ASSUME NEW l \in Legs, LegStep(l) \/ Lose(l)
        PROVE  targets' = targets
    BY <1>3 DEF LegStep, Lose, Dead, Receive, Judge, Settle, Submit, Timeout, Answer, calls
  <1>4. ASSUME NEW d \in Devices, Speaks(d) \/ Person(d) \/ Restart(d)
        PROVE  targets' = targets
    BY <1>4 DEF Speaks, Begin, Finish, Person, StopMessage, Replay, StopAll, Hold, SetMute, SetQuiet,
                Restart, calls
  <1>5. Tick \/ UNCHANGED vars => targets' = targets
    BY DEF Tick, vars, calls
  <1> QED  BY <1>1, <1>2, <1>3, <1>4, <1>5 DEF Next

\* One command has one leg to a device and a space.
LEMMA SameLeg ==
    ASSUME TypeOK, Single, NEW d, NEW a \in Legs, NEW b \in Legs, At(d, a), At(d, b), a[1] = b[1],
           Through(a) = Through(b)
    PROVE  a = b
  <1>1. /\ a[1] \in Sends /\ targets[a[1]] # None
        /\ a[2] \in DOMAIN targets[a[1]] /\ b[2] \in DOMAIN targets[a[1]]
        /\ Target(a) \in Targets /\ Target(b) \in Targets
    BY GivenIs DEF At, Given
  <1>2. Target(a) = Target(b)
    BY <1>1 DEF At, Dev, Through, Targets
  <1>3. a[2] = b[2]
    BY <1>1, <1>2 DEF Single, Target, IsInjective
  <1> QED  BY <1>3 DEF Legs

LEMMA OnceFollows ==
    ASSUME LegInv, Single
    PROVE  OncePerSpace
  <1> SUFFICES ASSUME NEW d \in Devices
               PROVE
        LET sent == {h \in heard[d] : h.leg # None}
            line == <<saying[d]>> \o queue[d]
            owed == {i \in DOMAIN line : line[i] # None /\ ~line[i].asked}
        IN  /\ \A g, h \in sent : g.id = h.id /\ Through(g.leg) = Through(h.leg) => g = h
            /\ \A i \in owed :
                  /\ \A h \in sent : h.id = line[i].id => Through(h.leg) # Through(line[i].leg)
                  /\ \A k \in owed : line[k].id = line[i].id /\ Through(line[k].leg) = Through(line[i].leg)
                                      => k = i
    BY DEF OncePerSpace
  <1>1. HeardRight(d) /\ LineRight(d) /\ \A j : Waits(d, j) => Sound(d, j)
    BY BookedIs DEF LegInv
  <1>2. PICK sent : sent = {h \in heard[d] : h.leg # None}
    OBVIOUS
  <1>3. \A h \in sent : /\ h \in [id : Sends, leg : Legs \cup {None}] /\ h \in heard[d]
                        /\ At(d, h.leg) /\ h.leg \in Legs /\ h.id = h.leg[1]
    BY <1>1, <1>2 DEF HeardRight, At, LegInv, TypeOK
  <1>4. ASSUME NEW g \in sent, NEW h \in sent, g.id = h.id, Through(g.leg) = Through(h.leg)
        PROVE  g = h
    <2>1. g.leg = h.leg
      BY <1>3, <1>4, SameLeg DEF LegInv
    <2> QED  BY <1>3, <1>4, <2>1
  <1>5. PICK n : n = Len(queue[d])
    OBVIOUS
  <1>6. PICK line : line = <<saying[d]>> \o queue[d]
    OBVIOUS
  <1>7. /\ n \in Nat /\ DOMAIN line = 1 .. n + 1 /\ line[1] = saying[d]
        /\ DOMAIN queue[d] = 1 .. n
        /\ \A i \in 2 .. n + 1 : line[i] = queue[d][i - 1] /\ i - 1 \in 1 .. n
    <2>1. PICK A : A = Jobs \cup {None}
      OBVIOUS
    <2>2. queue[d] \in Seq(A) /\ <<saying[d]>> \in Seq(A) /\ Len(<<saying[d]>>) = 1
      <3>1. queue[d] \in Seq(Jobs) /\ saying[d] \in A
        BY <2>1 DEF LegInv, TypeOK
      <3> QED  BY <2>1, <3>1
    <2>3. n \in Nat /\ DOMAIN queue[d] = 1 .. n
      BY <1>5, <2>2, LenProperties
    <2>4. Len(line) = 1 + n /\ DOMAIN line = 1 .. 1 + n
      BY <1>5, <1>6, <2>2, <2>3, ConcatProperties
    <2>5. \A i \in 1 .. 1 + n : line[i] = IF i <= 1 THEN saying[d] ELSE queue[d][i - 1]
      BY <1>5, <1>6, <2>2, <2>3, ConcatProperties
    <2> QED  BY <2>3, <2>4, <2>5
  <1>8. PICK owed : owed = {i \in DOMAIN line : line[i] # None /\ ~line[i].asked}
    OBVIOUS
  <1>9. \A i \in owed : /\ i \in 1 .. n + 1 /\ line[i] # None /\ ~line[i].asked
                        /\ i = 1 \/ i \in 2 .. n + 1
                        /\ Waits(d, line[i])
    BY <1>7, <1>8 DEF Waits
  <1>10. \A i \in owed : /\ At(d, line[i].leg) /\ line[i].leg \in Legs /\ line[i].id = line[i].leg[1]
                         /\ ~Heard(d, line[i].leg)
    BY <1>1, <1>9 DEF Sound, At
  <1>11. ASSUME NEW i \in owed, NEW h \in sent
         PROVE  h.id = line[i].id => Through(h.leg) # Through(line[i].leg)
    <2>1. h.id = line[i].id /\ Through(h.leg) = Through(line[i].leg) => h.leg = line[i].leg
      BY <1>3, <1>10, SameLeg DEF LegInv
    <2> QED  BY <1>3, <1>10, <2>1 DEF Heard
  <1>12. ASSUME NEW i \in owed, NEW k \in owed, line[k].id = line[i].id,
                Through(line[k].leg) = Through(line[i].leg)
         PROVE  k = i
    <2>1. line[k].leg = line[i].leg
      BY <1>10, <1>12, SameLeg DEF LegInv
    <2>2. CASE i = 1 /\ k = 1
      BY <2>2
    <2>3. CASE i = 1 /\ k \in 2 .. n + 1
      <3>1. k - 1 \in DOMAIN queue[d] /\ line[k] = queue[d][k - 1] /\ line[i] = saying[d]
        BY <1>7, <2>3
      <3> QED  BY <1>1, <1>9, <2>1, <3>1 DEF LineRight
    <2>4. CASE k = 1 /\ i \in 2 .. n + 1
      <3>1. i - 1 \in DOMAIN queue[d] /\ line[i] = queue[d][i - 1] /\ line[k] = saying[d]
        BY <1>7, <2>4
      <3> QED  BY <1>1, <1>9, <2>1, <3>1 DEF LineRight
    <2>5. CASE i \in 2 .. n + 1 /\ k \in 2 .. n + 1
      <3>1. /\ i - 1 \in DOMAIN queue[d] /\ line[i] = queue[d][i - 1]
            /\ k - 1 \in DOMAIN queue[d] /\ line[k] = queue[d][k - 1]
        BY <1>7, <2>5
      <3>2. i - 1 = k - 1
        BY <1>1, <1>9, <2>1, <3>1 DEF LineRight
      <3> QED  BY <1>7, <2>5, <3>2
    <2> QED  BY <1>9, <2>2, <2>3, <2>4, <2>5
  <1> QED  BY <1>2, <1>4, <1>6, <1>8, <1>11, <1>12

\* What push_target is for ("--to all,pixel should not make the phone say it twice"),
\* and more: of one command a device hears once what comes to it in one space, and
\* what was heard there does not wait to be heard again, over stops, restarts and
\* broken connections, and though devices share any spaces.  Two spaces that both
\* name a device are two targets, and push_target keeps both.
THEOREM HeardOncePerSpace == Spec => []OncePerSpace
  <1>1. Init => Single
    BY DEF Init, Single
  <1>2. LegInv /\ Single /\ [Next]_vars => Single'
    BY SingleNext
  <1>3. LegInv /\ Single => OncePerSpace
    BY OnceFollows
  <1> QED  BY <1>1, <1>2, <1>3, LegInvAlways, PTL DEF Spec

\* What is on its way stays so.
Keeps(d) == \A id \in Sends : Pending(d, id) => Pending(d, id)'

LEMMA LiveSame ==
    ASSUME LiveInv, \A d \in Devices \ restarted' : Keeps(d),
           history' = history, restarted \subseteq restarted'
    PROVE  Live'
  <1> SUFFICES ASSUME NEW d \in Devices \ restarted', NEW i \in DOMAIN history[d],
                      i \in Newest(history[d], history[d][i].id), history[d][i].status = "queued"
               PROVE  Pending(d, history[d][i].id)'
    BY DEF Live
  <1>1. history[d] \in Seq(Entries)
    BY DEF LiveInv, LegInv, TypeOK
  <1>2. PICK id : id = history[d][i].id
    OBVIOUS
  <1>3. id \in Sends
    <2>1. history[d][i] \in Entries
      BY <1>1, ElementOfSeq
    <2> QED  BY <1>2, <2>1 DEF Entries
  <1>4. Pending(d, id)
    BY <1>2 DEF LiveInv, Live
  <1>5. Pending(d, id)'
    BY <1>3, <1>4 DEF Keeps
  <1> QED  BY <1>2, <1>5 DEF Pending

\* When the outcome of some messages is written down, in the newest entry of each.
LEMMA LiveSettled ==
    ASSUME LiveInv, NEW d \in Devices, NEW ids, NEW status \in Outcomes,
           history' = [history EXCEPT ![d] = SetStatus(@, ids, status)],
           \A e \in Devices : \A id \in Sends :
               Pending(e, id) /\ (e = d => id \notin ids) => Pending(e, id)',
           restarted' = restarted
    PROVE  Live'
  <1>1. PICK h : h = history[d]
    OBVIOUS
  <1>2. PICK r : r = SetStatus(h, ids, status)
    OBVIOUS
  <1>3. history'[d] = r /\ \A e \in Devices \ {d} : history'[e] = history[e]
    BY <1>1, <1>2 DEF LiveInv, LegInv, TypeOK
  <1>4. h \in Seq(Entries) /\ \A e \in Devices : history[e] \in Seq(Entries)
    BY <1>1 DEF LiveInv, LegInv, TypeOK
  <1>5. /\ DOMAIN r = DOMAIN h
        /\ \A i \in DOMAIN h :
              /\ r[i].id = h[i].id /\ r[i].leg = h[i].leg
              /\ (\E id \in ids : i \in Newest(h, id)) => r[i].status = status
              /\ r[i].status # status => r[i] = h[i]
    BY <1>2, <1>4, SetStatusFacts
  <1>6. \A id : Newest(r, id) = Newest(h, id)
    BY <1>5 DEF Newest
  <1>7. ASSUME NEW e \in Devices \ restarted, NEW i \in DOMAIN history'[e], NEW id,
               id = history'[e][i].id, i \in Newest(history'[e], id), history'[e][i].status = "queued"
        PROVE  Pending(e, id)'
    <2>1. /\ i \in DOMAIN history[e] /\ history[e][i].id = id /\ history[e][i].status = "queued"
          /\ i \in Newest(history[e], id)
          /\ e = d => id \notin ids
      <3>1. CASE e = d
        <4>1. "queued" \notin Outcomes
          BY DEF Outcomes, Refusals
        <4>2. i \in DOMAIN h /\ r[i].status = "queued" /\ r[i].status # status /\ i \in Newest(h, id)
          BY <1>3, <1>5, <1>6, <1>7, <3>1, <4>1
        <4>3. r[i] = h[i] /\ h[i].id = id
          BY <1>3, <1>5, <1>7, <3>1, <4>2
        <4>4. id \notin ids
          BY <1>5, <4>2
        <4> QED  BY <1>1, <3>1, <4>2, <4>3, <4>4
      <3>2. CASE e # d
        BY <1>3, <1>7, <3>2
      <3> QED  BY <3>1, <3>2
    <2>2. id \in Sends
      <3>1. history[e] \in Seq(Entries) /\ i \in DOMAIN history[e]
        BY <1>4, <2>1
      <3>2. history[e][i] \in Entries
        BY <3>1, ElementOfSeq
      <3> QED  BY <2>1, <3>2 DEF Entries
    <2>3. Pending(e, id)
      BY <2>1 DEF LiveInv, Live
    <2> QED  BY <2>1, <2>2, <2>3
  <1>8. ASSUME NEW e \in Devices \ restarted, NEW i \in DOMAIN history'[e],
               i \in Newest(history'[e], history'[e][i].id), history'[e][i].status = "queued"
        PROVE  Pending(e, history[e][i].id)'
    <2>1. PICK id : id = history'[e][i].id
      OBVIOUS
    <2>2. Pending(e, id)'
      BY <1>7, <1>8, <2>1
    <2> QED  BY <2>1, <2>2 DEF Pending
  <1> QED  BY <1>8 DEF Live, Newest

\* Pending is kept when legs on their way and the lines are.
LEMMA PendingKept ==
    ASSUME NEW d \in Devices, NEW id \in Sends, Pending(d, id), \A l \in Legs : Stays(l),
           \A l \in Legs : At(d, l) /\ l[1] = id /\ host[l] \in {"recorded", "refused", "cleared"}
                              => host'[l] \in {"recorded", "refused", "cleared"} \/ \E j : Waits(d, j)' /\ j.id = id,
           \A j : Waits(d, j) /\ j.id = id => Waits(d, j)'
    PROVE  Pending(d, id)'
  <1>1. CASE \E l \in Legs : At(d, l) /\ l[1] = id /\ host[l] \in {"recorded", "refused", "cleared"}
    <2>1. PICK l \in Legs : At(d, l) /\ l[1] = id /\ host[l] \in {"recorded", "refused", "cleared"}
      BY <1>1
    <2>2. At(d, l)'
      BY <2>1 DEF At, Stays
    <2> QED  BY <2>1, <2>2 DEF Pending
  <1>2. CASE \E j : Waits(d, j) /\ j.id = id
    BY <1>2 DEF Pending
  <1> QED  BY <1>1, <1>2 DEF Pending

LEMMA EndsLegs ==
    ASSUME TypeOK, NEW d, NEW jobs, NEW status, Ends(d, jobs, status)
    PROVE  \A l \in Legs : host[l] \in {"recorded", "refused", "cleared"} => host'[l] = host[l]
  BY DEF Ends

LEMMA AllStay ==
    ASSUME LegInv, [Next]_vars
    PROVE  \A l \in Legs : Stays(l)
  <1>1. targets' = targets => \A l \in Legs : Stays(l)
    BY DEF Stays, Given, Dev, Target
  <1>2. CASE \E m \in Sends : Speak(m)
    <2>1. PICK m \in Sends : Speak(m)
      BY <1>2
    <2>2. PICK T : targets' = [targets EXCEPT ![m] = T]
      BY <2>1 DEF Speak
    <2>3. targets[m] = None
      BY <2>1 DEF Speak
    <2>4. ASSUME NEW l \in Legs, Given(l)
          PROVE  Given(l)' /\ Dev(l)' = Dev(l)
      <3>1. l[1] # m /\ l[1] \in Sends
        BY <2>3, <2>4, GivenIs DEF Given, LegInv
      <3>2. targets'[l[1]] = targets[l[1]]
        BY <2>2, <3>1 DEF LegInv, TypeOK
      <3> QED  BY <2>4, <3>2 DEF Given, Dev, Target
    <2> QED  BY <2>4 DEF Stays
  <1>3. ASSUME NEW l \in Legs, LegStep(l) \/ Lose(l)
        PROVE  targets' = targets
    BY <1>3 DEF LegStep, Lose, Dead, Receive, Judge, Settle, Submit, Timeout, Answer, calls
  <1>4. ASSUME NEW d \in Devices, Speaks(d) \/ Person(d) \/ Restart(d)
        PROVE  targets' = targets
    BY <1>4 DEF Speaks, Begin, Finish, Person, StopMessage, Replay, StopAll, Hold, SetMute, SetQuiet,
                Restart, calls
  <1>5. Tick \/ UNCHANGED vars => targets' = targets
    BY DEF Tick, vars, calls
  <1> QED  BY <1>1, <1>2, <1>3, <1>4, <1>5 DEF Next

LEMMA LiveLegs ==
    ASSUME LiveInv, NEW l \in Legs, Given(l), LegStep(l) \/ Lose(l)
    PROVE  Live'
  <1>1. \A k \in Legs : Stays(k)
    BY AllStay DEF LiveInv, Next
  <1>2. restarted' = restarted /\ targets' = targets
    BY DEF LegStep, Lose, Dead, Receive, Judge, Settle, Submit, Timeout, Answer, calls
  <1>3. /\ At(Dev(l), l) /\ Dev(l) \in Devices /\ l[1] \in Sends
        /\ host \in [Legs -> Places]
        /\ history \in [Devices -> Seq(Entries)] /\ queue \in [Devices -> Seq(Jobs)]
    BY GivenIs DEF LiveInv, LegInv, TypeOK
  <1>4. CASE UNCHANGED <<queue, saying>> /\ \/ host' = host
                                            \/ \E p : /\ host' = [host EXCEPT ![l] = p]
                                                      /\ host[l] \in {"recorded", "refused", "cleared"} => p \in {"refused", "cleared"}
    <2>1. \A k \in Legs : host[k] \in {"recorded", "refused", "cleared"} => host'[k] \in {"recorded", "refused", "cleared"}
      BY <1>3, <1>4
    <2>2. \A d \in Devices : Keeps(d)
      <3> SUFFICES ASSUME NEW d \in Devices, NEW id \in Sends, Pending(d, id)
                   PROVE  Pending(d, id)'
        BY DEF Keeps
      <3>1. \A j : Waits(d, j) => Waits(d, j)'
        BY <1>4 DEF Waits
      <3> QED  BY <1>1, <2>1, <3>1, PendingKept
    <2>3. CASE history' = history
      BY <1>2, <2>2, <2>3, LiveSame
    <2>4. CASE Receive(l) /\ history' # history
      <3>1. PICK d : d = Dev(l)
        OBVIOUS
      <3>2. PICK e : e = [id |-> l[1], leg |-> l, status |-> "queued"]
        OBVIOUS
      <3>3. PICK r : r = Record(history[d], e)
        OBVIOUS
      <3>4. history' = [history EXCEPT ![d] = r] /\ host' = [host EXCEPT ![l] = "recorded"]
            /\ host[l] = "no"
        BY <2>4, <3>1, <3>2, <3>3 DEF Receive, Goes
      <3>5. d \in Devices /\ e \in Entries /\ history[d] \in Seq(Entries) /\ Len(history[d]) <= Keep
        BY <1>3, <3>1, <3>2 DEF Entries, LiveInv, LegInv, TypeOK
      <3>6. PICK off \in {0, 1} :
               /\ Len(history[d]) - off + 1 = Len(r)
               /\ r[Len(history[d]) - off + 1] = e
               /\ \A i \in 1 .. Len(history[d]) - off :
                     i + off \in DOMAIN history[d] /\ r[i] = history[d][i + off]
        <4>1. Follows(r, history[d], e)
          BY <3>3, <3>5, RecordFacts
        <4> QED  BY <4>1 DEF Follows
      <3>7. r \in Seq(Entries)
        BY <3>3, <3>5, RecordFacts
      <3>8. PICK n : n = Len(history[d]) - off
        OBVIOUS
      <3>9. /\ n \in Int /\ DOMAIN r = 1 .. n + 1 /\ r[n + 1] = e
            /\ \A i \in 1 .. n : i + off \in DOMAIN history[d] /\ r[i] = history[d][i + off]
            /\ \A i \in 1 .. n + 1 : i \in 1 .. n \/ i = n + 1
        <4>1. Len(history[d]) \in Nat /\ DOMAIN r = 1 .. Len(r)
          BY <3>5, <3>7, LenProperties
        <4>2. n \in Int /\ Len(r) = n + 1
          BY <3>6, <3>8, <4>1
        <4>3. DOMAIN r = 1 .. n + 1 /\ \A i \in 1 .. n + 1 : i \in 1 .. n \/ i = n + 1
          BY <4>1, <4>2
        <4>4. r[n + 1] = e /\ \A i \in 1 .. n : i + off \in DOMAIN history[d] /\ r[i] = history[d][i + off]
          BY <3>6, <3>8
        <4> QED  BY <4>2, <4>3, <4>4
      <3>10. history'[d] = r /\ \A x \in Devices \ {d} : history'[x] = history[x]
        BY <1>3, <3>4, <3>5
      <3>11. At(d, l)' /\ host'[l] = "recorded"
        BY <1>1, <1>3, <3>1, <3>4 DEF At, Stays
      <3>12. n + off = Len(history[d]) /\ DOMAIN history[d] = 1 .. n + off /\ off \in {0, 1}
        <4>1. Len(history[d]) \in Nat /\ DOMAIN history[d] = 1 .. Len(history[d])
          BY <3>5, LenProperties
        <4> QED  BY <3>6, <3>8, <4>1
      <3>13. ASSUME NEW i \in 1 .. n, NEW id, i \in Newest(r, id)
             PROVE  i + off \in Newest(history[d], id)
        <4>1. i + off \in DOMAIN history[d] /\ history[d][i + off].id = id
          BY <3>9, <3>13 DEF Newest
        <4>2. ASSUME NEW k \in DOMAIN history[d], history[d][k].id = id, k > i + off
              PROVE  FALSE
          <5>1. k \in 1 .. n + off /\ k > i + off /\ i \in 1 .. n /\ n \in Int /\ off \in {0, 1}
            BY <3>9, <3>12, <3>13, <4>2
          <5>2. k - off \in 1 .. n /\ k - off \in 1 .. n + 1 /\ k - off > i /\ (k - off) + off = k
            BY <5>1
          <5>3. k - off \in 1 .. n /\ k - off \in DOMAIN r /\ k - off > i /\ (k - off) + off = k
            BY <3>9, <5>2
          <5>4. r[k - off].id = id
            BY <3>9, <4>2, <5>3
          <5>5. k - off <= i
            BY <3>13, <5>3, <5>4 DEF Newest
          <5> QED  BY <3>9, <3>12, <5>3, <5>5
        <4>3. \A k \in DOMAIN history[d] : k \in Int /\ i + off \in Int
          BY <3>9, <3>12
        <4> QED  BY <4>1, <4>2, <4>3 DEF Newest
      <3>14. ASSUME NEW x \in Devices \ restarted, NEW i \in DOMAIN history'[x], NEW id,
                    id = history'[x][i].id, i \in Newest(history'[x], id),
                    history'[x][i].status = "queued"
             PROVE  Pending(x, id)'
        <4>1. CASE x = d /\ i = n + 1
          <5>1. id = l[1]
            BY <3>2, <3>9, <3>10, <3>14, <4>1
          <5> QED  BY <3>11, <4>1, <5>1 DEF Pending, At
        <4>2. CASE \E k \in DOMAIN history[x] :
                      history[x][k] = history'[x][i] /\ k \in Newest(history[x], id)
          <5>1. PICK k \in DOMAIN history[x] :
                    history[x][k].id = id /\ history[x][k].status = "queued" /\ k \in Newest(history[x], id)
            BY <3>14, <4>2
          <5>2. id \in Sends
            <6>1. history[x][k] \in Entries
              BY <1>3, ElementOfSeq
            <6> QED  BY <5>1, <6>1 DEF Entries
          <5>3. Pending(x, id)
            BY <5>1 DEF LiveInv, Live
          <5> QED  BY <2>2, <5>2, <5>3 DEF Keeps
        <4>3. CASE x = d /\ i \in 1 .. n
          <5>1. i + off \in DOMAIN history[d] /\ r[i] = history[d][i + off]
            BY <3>9, <4>3
          <5>2. i + off \in Newest(history[d], id)
            BY <3>10, <3>13, <3>14, <4>3
          <5> QED  BY <3>10, <4>2, <4>3, <5>1, <5>2
        <4>4. CASE x # d
          <5>1. i \in DOMAIN history[x] /\ history[x][i] = history'[x][i] /\ i \in Newest(history[x], id)
            BY <3>10, <3>14, <4>4
          <5> QED  BY <4>2, <5>1
        <4> QED  BY <3>9, <3>10, <4>1, <4>3, <4>4
      <3>15. Live'
        <4> SUFFICES ASSUME NEW x \in Devices \ restarted, NEW i \in DOMAIN history'[x],
                            i \in Newest(history'[x], history'[x][i].id), history'[x][i].status = "queued"
                     PROVE  Pending(x, history[x][i].id)'
          BY <1>2 DEF Live, Newest
        <4>1. PICK id : id = history'[x][i].id
          OBVIOUS
        <4>2. Pending(x, id)'
          BY <3>14, <4>1
        <4> QED  BY <4>1, <4>2 DEF Pending
      <3> QED  BY <3>15
    <2>5. CASE ~Receive(l) /\ history' # history
      <3>1. Settle(l)
        BY <2>5 DEF LegStep, Lose, Dead, Judge, Submit, Timeout, Answer
      <3>2. host[l] = "refused" /\ host'[l] = "replying"
        BY <1>3, <3>1 DEF Settle, Goes, Places
      <3> QED  BY <2>1, <3>2
    <2> QED  BY <2>3, <2>4, <2>5
  <1>5. CASE Settle(l)
    <2>3. PICK status \in Outcomes :
            /\ history' = [history EXCEPT ![Dev(l)] = SetStatus(@, {l[1]}, status)]
            /\ Goes(l, "replying", status)
      BY <1>5 DEF Settle, LiveInv, LegInv, TypeOK
    <2>4. UNCHANGED <<queue, saying>>
      BY <1>5 DEF Settle, speech
    <2>5. PICK d : d = Dev(l)
      OBVIOUS
    <2>6. \A e \in Devices : \A id \in Sends :
               Pending(e, id) /\ (e = d => id \notin {l[1]}) => Pending(e, id)'
      <3> SUFFICES ASSUME NEW e \in Devices, NEW id \in Sends, Pending(e, id), e = d => id # l[1]
                   PROVE  Pending(e, id)'
        OBVIOUS
      <3>1. \A j : Waits(e, j) => Waits(e, j)'
        BY <2>4 DEF Waits
      <3>2. ASSUME NEW k \in Legs, At(e, k), k[1] = id, host[k] \in {"recorded", "refused", "cleared"}
            PROVE  host'[k] \in {"recorded", "refused", "cleared"}
        <4>1. k # l
          BY <2>5, <3>2 DEF At
        <4> QED  BY <1>3, <2>3, <3>2, <4>1 DEF Goes
      <3> QED  BY <1>1, <3>1, <3>2, PendingKept
    <2>7. /\ d \in Devices
          /\ history' = [history EXCEPT ![d] = SetStatus(@, {l[1]}, status)]
      BY <1>3, <2>3, <2>5
    <2> QED  BY <1>2, <2>6, <2>7, LiveSettled
  <1>6. CASE Submit(l)
    <2>1. history' = history /\ saying' = saying
      BY <1>6 DEF Submit
    <2>2. PICK d : d = Dev(l)
      OBVIOUS
    <2>3. PICK j : j = Job(l)
      OBVIOUS
    <2>4. queue' = [queue EXCEPT ![d] = Append(@, j)] /\ j.id = l[1]
      BY <1>6, <2>2, <2>3 DEF Submit, Job
    <2>5. \E p : host' = [host EXCEPT ![l] = p]
      BY <1>6 DEF Submit, Goes
    <2>6. Waits(d, j)' /\ \A e \in Devices : \A x : Waits(e, x) => Waits(e, x)'
      <3>1. PICK q : q = Append(queue[d], j)
        OBVIOUS
      <3>2. queue'[d] = q /\ \A e \in Devices \ {d} : queue'[e] = queue[e]
        BY <1>3, <2>2, <2>4, <3>1
      <3>3. PICK A : A = Jobs \cup {j}
        OBVIOUS
      <3>4. queue[d] \in Seq(A) /\ j \in A
        BY <1>3, <2>2, <3>3
      <3>5. PICK n : n = Len(queue[d])
        OBVIOUS
      <3>6. /\ n \in Nat /\ DOMAIN queue[d] = 1 .. n /\ DOMAIN q = 1 .. n + 1
            /\ \A i \in 1 .. n : q[i] = queue[d][i]
            /\ q[n + 1] = j
        BY <3>1, <3>4, <3>5, AppendProperties, LenProperties
      <3>7. n + 1 \in DOMAIN q /\ \A i \in DOMAIN queue[d] : i \in DOMAIN q /\ q[i] = queue[d][i]
        BY <3>6
      <3>8. Waits(d, j)'
        BY <3>2, <3>6, <3>7 DEF Waits
      <3>9. ASSUME NEW e \in Devices, NEW x, Waits(e, x)
            PROVE  Waits(e, x)'
        <4>1. CASE e = d
          BY <2>1, <3>2, <3>7, <3>9, <4>1 DEF Waits
        <4>2. CASE e # d
          BY <2>1, <3>2, <3>9, <4>2 DEF Waits
        <4> QED  BY <4>1, <4>2
      <3> QED  BY <3>8, <3>9
    <2>7. \A e \in Devices : Keeps(e)
      <3> SUFFICES ASSUME NEW e \in Devices, NEW id \in Sends, Pending(e, id)
                   PROVE  Pending(e, id)'
        BY DEF Keeps
      <3>1. ASSUME NEW k \in Legs, At(e, k), k[1] = id, host[k] \in {"recorded", "refused", "cleared"}
            PROVE  host'[k] \in {"recorded", "refused", "cleared"} \/ \E x : Waits(e, x)' /\ x.id = id
        <4>1. CASE k = l
          <5>1. e = d
            BY <2>2, <3>1, <4>1 DEF At
          <5> QED  BY <2>4, <2>6, <3>1, <4>1, <5>1
        <4>2. CASE k # l
          BY <1>3, <2>5, <3>1, <4>2
        <4> QED  BY <4>1, <4>2
      <3> QED  BY <1>1, <2>6, <3>1, PendingKept
    <2> QED  BY <1>2, <2>1, <2>7, LiveSame
  <1>7. \/ Submit(l)
        \/ Settle(l)
        \/ UNCHANGED <<queue, saying>> /\ \/ host' = host
                                          \/ \E p : /\ host' = [host EXCEPT ![l] = p]
                                                    /\ host[l] \in {"recorded", "refused", "cleared"} => p \in {"refused", "cleared"}
    <2>1. CASE Dead(l) \/ Lose(l)
      BY <2>1 DEF Dead, Lose, hosts, speech
    <2>2. CASE Receive(l) \/ Timeout(l) \/ Answer(l)
      BY <2>2 DEF Receive, Timeout, Answer, Goes, speech
    <2>3. CASE Judge(l)
      BY <2>3 DEF Judge, Goes, speech
    <2> QED  BY <2>1, <2>2, <2>3 DEF LegStep
  <1> QED  BY <1>4, <1>5, <1>6, <1>7

\* Messages that end: their entries say how, and the others wait on.
LEMMA LiveOver ==
    ASSUME LiveInv, NEW d \in Devices, NEW jobs, NEW status \in Outcomes, Ends(d, jobs, status),
           \A l \in Legs : Stays(l), restarted' = restarted,
           \A e \in Devices \ {d} : queue'[e] = queue[e] /\ saying'[e] = saying[e],
           \A x : Waits(d, x) /\ (\A j \in jobs : j.id # x.id) => Waits(d, x)'
    PROVE  Live'
  <1>1. \A l \in Legs : host[l] \in {"recorded", "refused", "cleared"} => host'[l] = host[l]
    BY EndsLegs DEF LiveInv, LegInv
  <1>2. PICK ids : ids = {j.id : j \in jobs}
    OBVIOUS
  <1>3. history' = [history EXCEPT ![d] = SetStatus(@, ids, status)]
    BY <1>2 DEF Ends
  <1>4. \A e \in Devices : \A id \in Sends :
               Pending(e, id) /\ (e = d => id \notin ids) => Pending(e, id)'
    <2> SUFFICES ASSUME NEW e \in Devices, NEW id \in Sends, Pending(e, id), e = d => id \notin ids
                 PROVE  Pending(e, id)'
      OBVIOUS
    <2>1. \A x : Waits(e, x) /\ x.id = id => Waits(e, x)'
      BY <1>2 DEF Waits
    <2> QED  BY <1>1, <2>1, PendingKept
  <1> QED  BY <1>3, <1>4, LiveSettled

LEMMA LiveDevices ==
    ASSUME LiveInv, NEW d \in Devices, Speaks(d) \/ Person(d) \/ Restart(d)
    PROVE  Live'
  <1>1. \A l \in Legs : Stays(l)
    BY AllStay DEF LiveInv, Next
  <1>2. /\ queue \in [Devices -> Seq(Jobs)] /\ saying \in [Devices -> Jobs \cup {None}]
        /\ queue[d] \in Seq(Jobs)
    BY DEF LiveInv, LegInv, TypeOK
  <1>3. ASSUME UNCHANGED <<host, history, restarted>>,
               \A e \in Devices : \A x : Waits(e, x) => Waits(e, x)'
        PROVE  Live'
    <2>1. \A e \in Devices : Keeps(e)
      BY <1>1, <1>3, PendingKept DEF Keeps
    <2> QED  BY <1>3, <2>1, LiveSame
  <1>4. CASE Begin(d)
    <2>1. PICK i : i = First(queue[d])
      OBVIOUS
    <2>2. PICK j : j = queue[d][i]
      OBVIOUS
    <2>3. PICK v : v = Gate(d, j)
      OBVIOUS
    <2>4. queue[d] # <<>> /\ saying[d] = None
      BY <1>4 DEF Begin
    <2>5. i \in DOMAIN queue[d]
      BY <1>2, <2>1, <2>4, FirstIn
    <2>6. PICK q : q = RemoveAt(queue[d], i)
      OBVIOUS
    <2>7. queue' = [queue EXCEPT ![d] = q] /\ restarted' = restarted
      BY <1>4, <2>1, <2>6 DEF Begin
    <2>8. queue'[d] = q /\ \A e \in Devices \ {d} : queue'[e] = queue[e]
      BY <1>2, <2>7
    <2>9. \A n \in DOMAIN queue[d] : queue[d][n] = j \/ \E k \in DOMAIN q : q[k] = queue[d][n]
      BY <1>2, <2>2, <2>5, <2>6, RemovedOne
    <2>10. CASE saying' = [saying EXCEPT ![d] = j] /\ UNCHANGED <<host, history>>
      <3>1. saying'[d] = j /\ \A e \in Devices \ {d} : saying'[e] = saying[e]
        BY <1>2, <2>10
      <3>2. j # None
        BY <1>2, <2>2, <2>5, ElementOfSeq, DeliveryAssumption
      <3>3. \A e \in Devices : \A x : Waits(e, x) => Waits(e, x)'
        BY <2>4, <2>8, <2>9, <3>1, <3>2 DEF Waits
      <3> QED  BY <1>3, <2>7, <2>10, <3>3
    <2>11. CASE v # "speak" /\ Ends(d, {j}, v) /\ saying' = saying
      <3>1. v \in Outcomes
        <4>1. v \in Refusals \cup {"speak"}
          BY <2>3, VerdictValues DEF Gate, Judgement
        <4> QED  BY <2>11, <4>1 DEF Outcomes
      <3>2. \A x : Waits(d, x) /\ (\A k \in {j} : k.id # x.id) => Waits(d, x)'
        BY <2>4, <2>8, <2>9, <2>11 DEF Waits
      <3>3. \A e \in Devices \ {d} : queue'[e] = queue[e] /\ saying'[e] = saying[e]
        BY <2>8, <2>11
      <3> QED  BY <1>1, <2>7, <2>11, <3>1, <3>2, <3>3, LiveOver
    <2> QED  BY <1>4, <2>1, <2>2, <2>3, <2>10, <2>11 DEF Begin
  <1>5. ASSUME saying[d] # None, saying' = [saying EXCEPT ![d] = None], queue' = queue,
               restarted' = restarted, NEW status \in Outcomes, Ends(d, {saying[d]}, status)
        PROVE  Live'
    <2>1. saying'[d] = None /\ \A e \in Devices \ {d} : queue'[e] = queue[e] /\ saying'[e] = saying[e]
      BY <1>2, <1>5
    <2>2. \A x : Waits(d, x) /\ (\A k \in {saying[d]} : k.id # x.id) => Waits(d, x)'
      BY <1>5, <2>1 DEF Waits
    <2> QED  BY <1>1, <1>5, <2>1, <2>2, LiveOver
  <1>6. CASE Finish(d)
    <2>1. PICK status \in Outcomes : Ends(d, {saying[d]}, status)
      BY <1>6 DEF Finish, Outcomes
    <2>2. saying[d] # None /\ saying' = [saying EXCEPT ![d] = None] /\ queue' = queue /\ restarted' = restarted
      BY <1>6 DEF Finish
    <2> QED  BY <1>5, <2>1, <2>2
  <1>7. CASE \E id \in Sends : StopMessage(d, id)
    <2>1. PICK id \in Sends : StopMessage(d, id)
      BY <1>7
    <2>2. restarted' = restarted /\ "cancelled" \in Outcomes
      BY <2>1 DEF StopMessage, Outcomes
    <2>3. CASE /\ saying[d] # None /\ Ends(d, {saying[d]}, "cancelled")
               /\ saying' = [saying EXCEPT ![d] = None] /\ UNCHANGED queue
      BY <1>5, <2>2, <2>3
    <2>4. CASE /\ \E i \in DOMAIN queue[d] :
                     /\ Ends(d, {queue[d][i]}, "cancelled")
                     /\ queue' = [queue EXCEPT ![d] = RemoveAt(@, i)]
               /\ UNCHANGED saying
      <3>1. PICK i \in DOMAIN queue[d] :
               /\ Ends(d, {queue[d][i]}, "cancelled")
               /\ queue' = [queue EXCEPT ![d] = RemoveAt(@, i)]
        BY <2>4
      <3>2. PICK j : j = queue[d][i]
        OBVIOUS
      <3>3. PICK q : q = RemoveAt(queue[d], i)
        OBVIOUS
      <3>4. \A n \in DOMAIN queue[d] : queue[d][n] = j \/ \E k \in DOMAIN q : q[k] = queue[d][n]
        BY <1>2, <3>2, <3>3, RemovedOne
      <3>5. queue'[d] = q /\ \A e \in Devices \ {d} : queue'[e] = queue[e] /\ saying'[e] = saying[e]
        BY <1>2, <2>4, <3>1, <3>3
      <3>6. \A x : Waits(d, x) /\ (\A k \in {j} : k.id # x.id) => Waits(d, x)'
        BY <2>4, <3>4, <3>5 DEF Waits
      <3>7. Ends(d, {j}, "cancelled")
        BY <3>1, <3>2
      <3> QED  BY <1>1, <2>2, <3>5, <3>6, <3>7, LiveOver
    <2>5. \/ /\ saying[d] # None /\ Ends(d, {saying[d]}, "cancelled")
             /\ saying' = [saying EXCEPT ![d] = None] /\ UNCHANGED queue
          \/ /\ \E i \in DOMAIN queue[d] :
                   /\ Ends(d, {queue[d][i]}, "cancelled")
                   /\ queue' = [queue EXCEPT ![d] = RemoveAt(@, i)]
             /\ UNCHANGED saying
      BY <2>1 DEF StopMessage
    <2> QED  BY <2>3, <2>4, <2>5
  <1>8. CASE StopAll(d)
    <2>1. PICK jobs : jobs = ToSet(queue[d]) \cup ({saying[d]} \ {None})
      OBVIOUS
    <2>2. Ends(d, jobs, "cancelled") /\ restarted' = restarted /\ "cancelled" \in Outcomes
      BY <1>8, <2>1 DEF StopAll, Outcomes
    <2>3. \A e \in Devices \ {d} : queue'[e] = queue[e] /\ saying'[e] = saying[e]
      BY <1>2, <1>8 DEF StopAll
    <2>4. \A x : Waits(d, x) => x \in jobs
      <3>1. \A n \in DOMAIN queue[d] : queue[d][n] \in ToSet(queue[d])
        BY <1>2, ToSetOf
      <3> QED  BY <2>1, <3>1 DEF Waits
    <2>5. \A x : Waits(d, x) /\ (\A j \in jobs : j.id # x.id) => Waits(d, x)'
      BY <2>4
    <2> QED  BY <1>1, <2>2, <2>3, <2>5, LiveOver
  <1>9. CASE \E id \in Sends : Replay(d, id)
    <2>1. PICK id \in Sends : Replay(d, id)
      BY <1>9
    <2>2. PICK j : j = Replayed(d, id)
      OBVIOUS
    <2>3. PICK q : q = Append(queue[d], j)
      OBVIOUS
    <2>4. UNCHANGED <<host, history, restarted, saying>> /\ queue' = [queue EXCEPT ![d] = q]
      BY <2>1, <2>2, <2>3 DEF Replay, hosts
    <2>5. queue'[d] = q /\ \A e \in Devices \ {d} : queue'[e] = queue[e]
      BY <1>2, <2>4
    <2>6. \A i \in DOMAIN queue[d] : i \in DOMAIN q /\ q[i] = queue[d][i]
      <3>1. PICK A : A = Jobs \cup {j}
        OBVIOUS
      <3>2. queue[d] \in Seq(A) /\ j \in A
        BY <1>2, <3>1
      <3>3. PICK n : n = Len(queue[d])
        OBVIOUS
      <3>4. /\ n \in Nat /\ DOMAIN queue[d] = 1 .. n /\ DOMAIN q = 1 .. n + 1
            /\ \A i \in 1 .. n : q[i] = queue[d][i]
        BY <2>3, <3>2, <3>3, AppendProperties, LenProperties
      <3> QED  BY <3>4
    <2>7. \A e \in Devices : \A x : Waits(e, x) => Waits(e, x)'
      BY <2>4, <2>5, <2>6 DEF Waits
    <2> QED  BY <1>3, <2>4, <2>7
  <1>10. CASE \/ Hold(d)
              \/ \E scope \in Spaces \cup {None} :
                    \/ \E on \in BOOLEAN : SetMute(d, scope, on)
                    \/ \E q \in Hours[d] \cup {NoWindow} : SetQuiet(d, scope, q)
    <2>1. UNCHANGED <<host, history, restarted, queue, saying>>
      BY <1>10 DEF Hold, SetMute, SetQuiet, hosts, speech
    <2>2. \A e \in Devices : \A x : Waits(e, x) => Waits(e, x)'
      BY <2>1 DEF Waits
    <2> QED  BY <1>3, <2>1, <2>2
  <1>11. CASE Restart(d)
    <2>1. /\ restarted' = restarted \cup {d} /\ history' = history
          /\ queue' = [queue EXCEPT ![d] = <<>>] /\ saying' = [saying EXCEPT ![d] = None]
          /\ host' = [l \in Legs |-> IF Given(l) /\ Dev(l) = d /\ host[l] # "no" THEN "over" ELSE host[l]]
      BY <1>11 DEF Restart
    <2>2. \A e \in Devices \ restarted' : Keeps(e)
      <3> SUFFICES ASSUME NEW e \in Devices \ restarted', NEW id \in Sends, Pending(e, id)
                   PROVE  Pending(e, id)'
        BY DEF Keeps
      <3>1. e # d /\ e \in Devices
        BY <2>1
      <3>2. \A x : Waits(e, x) => Waits(e, x)'
        BY <1>2, <2>1, <3>1 DEF Waits
      <3>3. \A l \in Legs : At(e, l) => host'[l] = host[l]
        BY <2>1, <3>1 DEF At
      <3> QED  BY <1>1, <3>1, <3>2, <3>3, PendingKept
    <2>3. restarted \subseteq restarted'
      BY <2>1
    <2> QED  BY <2>1, <2>2, <2>3, LiveSame
  <1> QED  BY <1>4, <1>6, <1>7, <1>8, <1>9, <1>10, <1>11 DEF Speaks, Person

LEMMA LiveNext ==
    ASSUME LiveInv, [Next]_vars
    PROVE  LiveInv'
  <1>1. LegInv'
    BY LegInvNext DEF LiveInv
  <1>2. \A l \in Legs : Stays(l)
    BY AllStay DEF LiveInv
  <1>3. CASE UNCHANGED <<host, history, restarted, queue, saying>>
    <2>1. \A d \in Devices : Keeps(d)
      <3> SUFFICES ASSUME NEW d \in Devices, NEW id \in Sends, Pending(d, id)
                   PROVE  Pending(d, id)'
        BY DEF Keeps
      <3>1. \A x : Waits(d, x) => Waits(d, x)'
        BY <1>3 DEF Waits
      <3> QED  BY <1>2, <1>3, <3>1, PendingKept
    <2>2. Live'
      BY <1>3, <2>1, LiveSame
    <2> QED  BY <1>1, <2>2 DEF LiveInv
  <1>4. CASE \E l \in Legs : Given(l) /\ (LegStep(l) \/ Lose(l))
    BY <1>1, <1>4, LiveLegs DEF LiveInv
  <1>5. CASE \E d \in Devices : Speaks(d) \/ Person(d) \/ Restart(d)
    BY <1>1, <1>5, LiveDevices DEF LiveInv
  <1>6. (\E m \in Sends : Speak(m)) \/ Tick \/ UNCHANGED vars
            => UNCHANGED <<host, history, restarted, queue, saying>>
    BY DEF Speak, Tick, vars, hosts, speech
  <1> QED  BY <1>3, <1>4, <1>5, <1>6 DEF Next

\* The newest entry of a message says "queued" only while a leg of it is still on its
\* way through the device: each refusal and each end is written into the newest entry
\* of its message, though verdict and settling are under two locks, and no message
\* leaves a queue without.  What `history` of a device whose process never died says
\* last of a message can be believed.
THEOREM HistoryIsSettled == Spec => []NewestIsLive
  <1>1. Init => LiveInv
    <2> SUFFICES ASSUME Init
                 PROVE  LiveInv
      OBVIOUS
    <2>1. \A d \in Devices : history[d] = <<>>
      BY DEF Init
    <2>2. Live
      BY <2>1 DEF Live
    <2> QED  BY <2>2, LegInvInit DEF LiveInv
  <1>2. LiveInv /\ [Next]_vars => LiveInv'
    BY LiveNext
  <1>3. LiveInv => NewestIsLive
    <2> SUFFICES ASSUME LiveInv, NEW d \in Devices \ restarted, NEW i \in DOMAIN history[d],
                        i \in Newest(history[d], history[d][i].id), history[d][i].status = "queued"
                 PROVE  InHand(d, history[d][i].id)
      BY DEF NewestIsLive
    <2>1. Pending(d, history[d][i].id)
      BY DEF LiveInv, Live
    <2>2. queue[d] \in Seq(Jobs)
      BY DEF LiveInv, LegInv, TypeOK
    <2>3. \A x : Waits(d, x) => x \in ToSet(queue[d]) \cup ({saying[d]} \ {None})
      BY <2>2, ToSetOf DEF Waits
    <2> QED  BY <2>1, <2>3 DEF Pending, InHand, At
  <1> QED  BY <1>1, <1>2, <1>3, PTL DEF Spec

-----------------------------------------------------------------------------
(* The two checks. *)

\* A deeper queue refuses no less.
LEMMA DepthOnlyRefuses ==
    ASSUME NEW p, NEW o, NEW priority, NEW m, NEW depth \in Nat,
           Verdicts(p, o, priority, m, depth) = "speak"
    PROVE  Verdicts(p, o, priority, m, 0) = "speak"
  <1>1. DeepQueue \in Nat
    BY PolicyAssumption
  <1>2. \A x : Verdict(x, priority, m, depth) = "speak" => Verdict(x, priority, m, 0) = "speak"
    <2> SUFFICES ASSUME NEW x, Verdict(x, priority, m, depth) = "speak"
                 PROVE  Verdict(x, priority, m, 0) = "speak"
      OBVIOUS
    <2>1. ~x.muted /\ ~Quiet(x, priority, m) /\ ~(priority = "low" /\ depth >= DeepQueue)
      BY DEF Verdict
    <2>2. 0 >= DeepQueue => depth >= DeepQueue
      BY <1>1
    <2> QED  BY <2>1, <2>2 DEF Verdict
  <1>3. Verdict(p, priority, m, depth) = "speak" /\ Verdict(o, priority, m, depth) = "speak"
    BY DEF Verdicts
  <1> QED  BY <1>2, <1>3 DEF Verdicts

\* The second check asks what the first one asked, of the policy and the time it finds.
LEMMA GateAsks ==
    ASSUME NEW d, NEW j, ~j.asked
    PROVE  Gate(d, j) = "speak" <=> Would(<<policy[d], minute>>, j.space, j.priority)
  BY DEF Gate, Judgement, OverFor, Would

\* A step that clears no leg and adds no message that was sent.
LEMMA LetThroughKept ==
    ASSUME LetThrough, \A l \in Legs : Given(l) => Given(l)' /\ Target(l)' = Target(l),
           \A l \in Legs : host'[l] = "cleared" => host[l] = "cleared" /\ granted'[l] = granted[l],
           \A d \in Devices : \A i \in DOMAIN queue'[d] :
               queue'[d][i].asked \/ \E k \in DOMAIN queue[d] : queue'[d][i] = queue[d][k]
    PROVE  LetThrough'
  <1>1. ASSUME NEW l \in Legs, host'[l] = "cleared"
        PROVE  Given(l)' /\ Would(granted[l], Target(l).space, Cmd[l[1]].priority)'
    <2>1. Given(l) /\ Would(granted[l], Target(l).space, Cmd[l[1]].priority)
      BY <1>1 DEF LetThrough
    <2> QED  BY <1>1, <2>1 DEF Would
  <1>2. ASSUME NEW d \in Devices, NEW i \in DOMAIN queue'[d], ~queue'[d][i].asked
        PROVE  Would(queue[d][i].then, queue[d][i].space, queue[d][i].priority)'
    <2>1. PICK k \in DOMAIN queue[d] : queue'[d][i] = queue[d][k]
      BY <1>2
    <2>2. Would(queue[d][k].then, queue[d][k].space, queue[d][k].priority)
      BY <1>2, <2>1 DEF LetThrough
    <2> QED  BY <2>1, <2>2 DEF Would
  <1> QED  BY <1>1, <1>2 DEF LetThrough

LEMMA PassLegs ==
    ASSUME PassInv, NEW l \in Legs, Given(l), LegStep(l) \/ Lose(l)
    PROVE  LetThrough' /\ RefusedForCause'
  <1>1. targets' = targets /\ refused' = refused
    BY DEF LegStep, Lose, Dead, Receive, Judge, Settle, Submit, Timeout, Answer, calls, seen
  <1>2. RefusedForCause'
    BY <1>1 DEF PassInv, RefusedForCause
  <1>3. \A k \in Legs : (Given(k)' <=> Given(k)) /\ Target(k)' = Target(k)
    BY <1>1 DEF Given, Target
  <1>4. /\ host \in [Legs -> Places]
        /\ granted \in [Legs -> Grants \cup {None}] /\ queue \in [Devices -> Seq(Jobs)]
        /\ Dev(l) \in Devices
    BY GivenIs DEF PassInv, TypeOK
  <1>5. CASE UNCHANGED <<granted, queue>> /\ \/ host' = host
                                             \/ \E p : p # "cleared" /\ host' = [host EXCEPT ![l] = p]
    <2>1. \A k \in Legs : host'[k] = "cleared" => host[k] = "cleared" /\ granted'[k] = granted[k]
      BY <1>4, <1>5
    <2>2. \A d \in Devices : \A i \in DOMAIN queue'[d] : \E k \in DOMAIN queue[d] : queue'[d][i] = queue[d][k]
      BY <1>5
    <2> QED  BY <1>2, <1>3, <2>1, <2>2, LetThroughKept DEF PassInv
  <1>6. CASE Judge(l) /\ UNCHANGED queue /\ host' = [host EXCEPT ![l] = "cleared"]
    <2>1. PICK d : d = Dev(l)
      OBVIOUS
    <2>2. PICK v : v = Judgement(d, Target(l).space, Cmd[l[1]].priority, Len(queue[d]))
      OBVIOUS
    <2>3. host'[l] = "cleared" /\ \A k \in Legs \ {l} : host'[k] = host[k]
      BY <1>4, <1>6
    <2>4. v = "speak" /\ granted' = [granted EXCEPT ![l] = <<policy[d], minute>>]
      <3>1. \/ v = "speak" /\ granted' = [granted EXCEPT ![l] = <<policy[d], minute>>]
            \/ \E status : Goes(l, "refused", status)
        BY <1>6, <2>1, <2>2 DEF Judge
      <3>2. ASSUME NEW status, Goes(l, "refused", status)
            PROVE  FALSE
        <4>1. host'[l] = "refused"
          BY <1>4, <3>2 DEF Goes
        <4> QED  BY <2>3, <4>1
      <3> QED  BY <3>1, <3>2
    <2>5. Would(<<policy[d], minute>>, Target(l).space, Cmd[l[1]].priority)
      <3>1. Len(queue[d]) \in Nat
        BY <1>4, <2>1, LenProperties
      <3>2. Verdicts(policy[d].device, OverFor(d, Target(l).space), Cmd[l[1]].priority, minute, Len(queue[d])) = "speak"
        BY <2>2, <2>4 DEF Judgement
      <3>3. Verdicts(policy[d].device, OverFor(d, Target(l).space), Cmd[l[1]].priority, minute, 0) = "speak"
        BY <3>1, <3>2, DepthOnlyRefuses
      <3> QED  BY <3>3 DEF Would, OverFor
    <2>6. granted'[l] = <<policy[d], minute>> /\ \A k \in Legs \ {l} : granted'[k] = granted[k]
      BY <1>4, <2>4
    <2>7. ASSUME NEW k \in Legs, host'[k] = "cleared"
          PROVE  Given(k)' /\ Would(granted[k], Target(k).space, Cmd[k[1]].priority)'
      <3>1. CASE k = l
        BY <1>3, <2>5, <2>6, <3>1 DEF Would
      <3>2. CASE k # l
        <4>1. Given(k) /\ Would(granted[k], Target(k).space, Cmd[k[1]].priority)
          BY <2>3, <2>7, <3>2 DEF PassInv, LetThrough
        <4> QED  BY <1>3, <2>6, <3>2, <4>1 DEF Would
      <3> QED  BY <3>1, <3>2
    <2>8. \A e \in Devices : \A i \in DOMAIN queue[e] :
             ~queue[e][i].asked => Would(queue[e][i].then, queue[e][i].space, queue[e][i].priority)
      BY DEF PassInv, LetThrough
    <2>9. LetThrough'
      BY <1>6, <2>7, <2>8 DEF LetThrough, Would
    <2> QED  BY <1>2, <2>9
  <1>7. CASE Submit(l)
    <2>1. PICK d : d = Dev(l)
      OBVIOUS
    <2>2. PICK j : j = Job(l)
      OBVIOUS
    <2>3. host[l] = "cleared" /\ queue' = [queue EXCEPT ![d] = Append(@, j)] /\ granted' = granted
      BY <1>7, <2>1, <2>2 DEF Submit
    <2>4. Would(j.then, j.space, j.priority)
      BY <2>2, <2>3 DEF PassInv, LetThrough, Job
    <2>5. PICK n : n = Len(queue[d])
      OBVIOUS
    <2>6. /\ DOMAIN queue[d] = 1 .. n /\ DOMAIN queue'[d] = 1 .. n + 1 /\ n \in Nat
          /\ \A i \in 1 .. n : queue'[d][i] = queue[d][i]
          /\ queue'[d][n + 1] = j
          /\ \A e \in Devices \ {d} : queue'[e] = queue[e]
      <3>1. PICK q : q = Append(queue[d], j)
        OBVIOUS
      <3>2. PICK A : A = Jobs \cup {j}
        OBVIOUS
      <3>3. queue[d] \in Seq(A) /\ j \in A
        BY <1>4, <2>1, <3>2
      <3>4. /\ n \in Nat /\ DOMAIN queue[d] = 1 .. n /\ DOMAIN q = 1 .. n + 1
            /\ \A i \in 1 .. n : q[i] = queue[d][i]
            /\ q[n + 1] = j
        BY <2>5, <3>1, <3>3, AppendProperties, LenProperties
      <3>5. queue'[d] = q /\ \A e \in Devices \ {d} : queue'[e] = queue[e]
        BY <1>4, <2>1, <2>3, <3>1
      <3> QED  BY <3>4, <3>5
    <2>7. \A e \in Devices : \A i \in DOMAIN queue[e] :
             ~queue[e][i].asked => Would(queue[e][i].then, queue[e][i].space, queue[e][i].priority)
      BY DEF PassInv, LetThrough
    <2>8. ASSUME NEW e \in Devices, NEW i \in DOMAIN queue'[e], NEW x, x = queue'[e][i], ~x.asked
          PROVE  Would(x.then, x.space, x.priority)
      <3>1. CASE e # d
        BY <2>6, <2>7, <2>8, <3>1
      <3>2. CASE e = d /\ i \in 1 .. n
        BY <1>4, <2>1, <2>6, <2>7, <2>8, <3>2
      <3>3. CASE e = d /\ i = n + 1
        BY <2>4, <2>6, <2>8, <3>3
      <3> QED  BY <2>6, <2>8, <3>1, <3>2, <3>3
    <2>9. ASSUME NEW k \in Legs, host'[k] = "cleared"
          PROVE  Given(k)' /\ Would(granted[k], Target(k).space, Cmd[k[1]].priority)'
      <3>1. host[k] = "cleared"
        <4>1. \E p : p # "cleared" /\ host' = [host EXCEPT ![l] = p]
          BY <1>7 DEF Submit, Goes
        <4> QED  BY <1>4, <2>9, <4>1
      <3>2. Given(k) /\ Would(granted[k], Target(k).space, Cmd[k[1]].priority)
        BY <3>1 DEF PassInv, LetThrough
      <3> QED  BY <1>3, <2>3, <3>2 DEF Would
    <2>10. ASSUME NEW e \in Devices, NEW i \in DOMAIN queue'[e], ~queue'[e][i].asked
           PROVE  Would(queue[e][i].then, queue[e][i].space, queue[e][i].priority)'
      <3>1. PICK x : x = queue'[e][i]
        OBVIOUS
      <3>2. Would(x.then, x.space, x.priority)
        BY <2>8, <2>10, <3>1
      <3> QED  BY <3>1, <3>2 DEF Would
    <2>11. LetThrough'
      BY <2>9, <2>10 DEF LetThrough
    <2> QED  BY <1>2, <2>11
  <1>8. \/ Submit(l)
        \/ Judge(l) /\ UNCHANGED queue /\ host' = [host EXCEPT ![l] = "cleared"]
        \/ UNCHANGED <<granted, queue>> /\ \/ host' = host
                                           \/ \E p : p # "cleared" /\ host' = [host EXCEPT ![l] = p]
    <2>1. CASE Dead(l) \/ Lose(l)
      BY <2>1 DEF Dead, Lose, hosts, speech
    <2>2. CASE Receive(l) \/ Settle(l) \/ Timeout(l) \/ Answer(l)
      BY <2>2 DEF Receive, Settle, Timeout, Answer, Goes, speech
    <2>3. CASE Judge(l)
      BY <2>3 DEF Judge, Goes, speech
    <2> QED  BY <2>1, <2>2, <2>3 DEF LegStep
  <1> QED  BY <1>5, <1>6, <1>7, <1>8

LEMMA PassDevices ==
    ASSUME PassInv, NEW d \in Devices, Speaks(d) \/ Person(d) \/ Restart(d)
    PROVE  LetThrough' /\ RefusedForCause'
  <1>1. /\ queue \in [Devices -> Seq(Jobs)] /\ queue[d] \in Seq(Jobs)
        /\ refused \in [Devices -> SUBSET (Jobs \X Refusals \X Grants)]
    BY DEF PassInv, TypeOK
  <1>2. targets' = targets /\ granted' = granted
    BY DEF Speaks, Begin, Finish, Person, StopMessage, Replay, StopAll, Hold, SetMute, SetQuiet,
           Restart, calls, hosts
  <1>3. \A k \in Legs : Given(k) => Given(k)' /\ Target(k)' = Target(k)
    BY <1>2 DEF Given, Target
  <1>4. \A l \in Legs : host'[l] = "cleared" => host[l] = "cleared" /\ granted'[l] = granted[l]
    <2>1. CASE Restart(d)
      BY <1>2, <2>1 DEF Restart
    <2>2. CASE Speaks(d) \/ Person(d)
      <3>1. host' = host \/ \E jobs, status : Ends(d, jobs, status)
        BY <2>2 DEF Speaks, Begin, Finish, Person, StopMessage, Replay, StopAll, Hold, SetMute, SetQuiet,
                    hosts
      <3>2. ASSUME NEW jobs, NEW status, Ends(d, jobs, status)
            PROVE  \A l \in Legs : host'[l] = "cleared" => host[l] = "cleared"
        BY <3>2 DEF Ends
      <3> QED  BY <1>2, <3>1, <3>2
    <2> QED  BY <2>1, <2>2
  <1>5. ASSUME NEW q, queue' = queue \/ queue' = [queue EXCEPT ![d] = q],
               \A i \in DOMAIN q : q[i].asked \/ \E k \in DOMAIN queue[d] : q[i] = queue[d][k]
        PROVE  LetThrough'
    <2>1. \A e \in Devices : \A i \in DOMAIN queue'[e] :
               queue'[e][i].asked \/ \E k \in DOMAIN queue[e] : queue'[e][i] = queue[e][k]
      <3> SUFFICES ASSUME NEW e \in Devices, NEW i \in DOMAIN queue'[e]
                   PROVE  queue'[e][i].asked \/ \E k \in DOMAIN queue[e] : queue'[e][i] = queue[e][k]
        OBVIOUS
      <3>1. CASE queue'[e] = queue[e]
        BY <3>1
      <3>2. CASE e = d /\ queue'[d] = q
        BY <1>5, <3>2
      <3>3. queue'[e] = queue[e] \/ (e = d /\ queue'[d] = q)
        BY <1>1, <1>5
      <3> QED  BY <3>1, <3>2, <3>3
    <2> QED  BY <1>3, <1>4, <2>1, LetThroughKept DEF PassInv
  <1>6. CASE Begin(d)
    <2>1. PICK i : i = First(queue[d])
      OBVIOUS
    <2>2. PICK j : j = queue[d][i]
      OBVIOUS
    <2>3. PICK q : q = RemoveAt(queue[d], i)
      OBVIOUS
    <2>4. i \in DOMAIN queue[d]
      BY <1>1, <1>6, <2>1, FirstIn DEF Begin
    <2>5. \A k \in DOMAIN q : \E n \in DOMAIN queue[d] : q[k] = queue[d][n]
      BY <1>1, <2>3, <2>4, RemoveAtElements
    <2>6. queue' = [queue EXCEPT ![d] = q]
      BY <1>6, <2>1, <2>3 DEF Begin
    <2>7. LetThrough'
      BY <1>5, <2>5, <2>6
    <2>8. CASE refused' = refused
      BY <2>7, <2>8 DEF PassInv, RefusedForCause
    <2>9. CASE /\ Gate(d, j) # "speak"
               /\ refused' = [refused EXCEPT ![d] = @ \cup {<<j, Gate(d, j), <<policy[d], minute>>>>}]
      <3>1. ~j.asked
        BY <2>9 DEF Gate
      <3>2. ~Would(<<policy[d], minute>>, j.space, j.priority)
        BY <2>9, <3>1, GateAsks
      <3>3. Would(j.then, j.space, j.priority)
        BY <2>2, <2>4, <3>1 DEF PassInv, LetThrough
      <3>4. j.then # <<policy[d], minute>>
        BY <3>2, <3>3
      <3>5. PICK new : new = <<j, Gate(d, j), <<policy[d], minute>>>>
        OBVIOUS
      <3>6. ~new[1].asked /\ new[1].then # new[3]
        BY <3>1, <3>4, <3>5
      <3>7. refused'[d] = refused[d] \cup {new} /\ \A e \in Devices \ {d} : refused'[e] = refused[e]
        BY <1>1, <2>9, <3>5
      <3>8. RefusedForCause'
        BY <3>6, <3>7 DEF PassInv, RefusedForCause
      <3> QED  BY <2>7, <3>8
    <2> QED  BY <1>6, <2>1, <2>2, <2>8, <2>9 DEF Begin
  <1>7. CASE Finish(d) \/ Person(d) \/ Restart(d)
    <2>1. refused' = refused
      BY <1>7 DEF Finish, Person, StopMessage, Replay, StopAll, Hold, SetMute, SetQuiet, Restart, seen
    <2>2. RefusedForCause'
      BY <2>1 DEF PassInv, RefusedForCause
    <2>3. CASE \E id \in Sends : StopMessage(d, id)
      <3>1. PICK id \in Sends : StopMessage(d, id)
        BY <2>3
      <3>2. \/ queue' = queue
            \/ \E i \in DOMAIN queue[d] : queue' = [queue EXCEPT ![d] = RemoveAt(@, i)]
        BY <3>1 DEF StopMessage
      <3>3. CASE \E i \in DOMAIN queue[d] : queue' = [queue EXCEPT ![d] = RemoveAt(@, i)]
        <4>1. PICK i \in DOMAIN queue[d] : queue' = [queue EXCEPT ![d] = RemoveAt(@, i)]
          BY <3>3
        <4>2. PICK q : q = RemoveAt(queue[d], i)
          OBVIOUS
        <4>3. \A k \in DOMAIN q : \E n \in DOMAIN queue[d] : q[k] = queue[d][n]
          BY <1>1, <4>2, RemoveAtElements
        <4>4. queue' = [queue EXCEPT ![d] = q]
          BY <4>1, <4>2
        <4>5. LetThrough'
          BY <1>5, <4>3, <4>4
        <4> QED  BY <2>2, <4>5
      <3>4. CASE queue' = queue
        <4>1. LetThrough'
          <5>1. \A i \in DOMAIN <<>> : <<>>[i].asked \/ \E k \in DOMAIN queue[d] : <<>>[i] = queue[d][k]
            OBVIOUS
          <5> QED  BY <1>5, <3>4, <5>1
        <4> QED  BY <2>2, <4>1
      <3> QED  BY <3>2, <3>3, <3>4
    <2>4. CASE \E id \in Sends : Replay(d, id)
      <3>1. PICK id \in Sends : Replay(d, id)
        BY <2>4
      <3>2. PICK j : j = Replayed(d, id)
        OBVIOUS
      <3>3. PICK q : q = Append(queue[d], j)
        OBVIOUS
      <3>4. queue' = [queue EXCEPT ![d] = q] /\ j.asked
        BY <3>1, <3>2, <3>3 DEF Replay, Replayed
      <3>5. \A k \in DOMAIN q : q[k].asked \/ \E n \in DOMAIN queue[d] : q[k] = queue[d][n]
        <4>1. PICK A : A = Jobs \cup {j}
          OBVIOUS
        <4>2. queue[d] \in Seq(A) /\ j \in A
          BY <1>1, <4>1
        <4>3. PICK n : n = Len(queue[d])
          OBVIOUS
        <4>4. /\ n \in Nat /\ DOMAIN queue[d] = 1 .. n /\ DOMAIN q = 1 .. n + 1
              /\ \A i \in 1 .. n : q[i] = queue[d][i]
              /\ q[n + 1] = j
          BY <3>3, <4>2, <4>3, AppendProperties, LenProperties
        <4>5. \A i \in 1 .. n + 1 : i \in 1 .. n \/ i = n + 1
          BY <4>4
        <4> QED  BY <3>4, <4>4, <4>5
      <3> QED  BY <1>5, <2>2, <3>4, <3>5
    <2>5. CASE StopAll(d) \/ Restart(d)
      <3>1. queue' = [queue EXCEPT ![d] = <<>>]
        BY <2>5 DEF StopAll, Restart
      <3>2. \A i \in DOMAIN <<>> : <<>>[i].asked \/ \E k \in DOMAIN queue[d] : <<>>[i] = queue[d][k]
        OBVIOUS
      <3> QED  BY <1>5, <2>2, <3>1, <3>2
    <2>6. CASE queue' = queue
      BY <1>5, <2>2, <2>6
    <2>7. \/ \E id \in Sends : StopMessage(d, id)
          \/ \E id \in Sends : Replay(d, id)
          \/ StopAll(d) \/ Restart(d)
          \/ queue' = queue
      BY <1>7 DEF Finish, Person, Hold, SetMute, SetQuiet, speech
    <2> QED  BY <2>3, <2>4, <2>5, <2>6, <2>7
  <1> QED  BY <1>6, <1>7 DEF Speaks

\* What is refused at the moment of speaking, after it was accepted, is refused because
\* somebody changed the policy or the clock went on: on_start asks the same question of
\* the same message as enqueue_inner did, and the depth of the queue, which only the
\* first one asks about, can only have refused more.  What was asked for here is never
\* refused there.
THEOREM SecondCheckHasCause == Spec => []RefusedForCause
  <1>1. Init => PassInv
    <2> SUFFICES ASSUME Init
                 PROVE  PassInv
      OBVIOUS
    <2>1. /\ \A l \in Legs : host[l] # "cleared"
          /\ \A d \in Devices : queue[d] = <<>> /\ refused[d] = {}
      BY DEF Init
    <2> QED  BY <2>1, TypeInit DEF PassInv, LetThrough, RefusedForCause
  <1>2. PassInv /\ [Next]_vars => PassInv'
    <2> SUFFICES ASSUME PassInv, [Next]_vars
                 PROVE  PassInv'
      OBVIOUS
    <2>1. TypeOK'
      BY TypeNext DEF PassInv
    <2>2. CASE \E m \in Sends : Speak(m)
      <3>1. PICK m \in Sends : Speak(m)
        BY <2>2
      <3>2. PICK T : targets' = [targets EXCEPT ![m] = T]
        BY <3>1 DEF Speak
      <3>3. targets[m] = None /\ UNCHANGED <<host, granted, queue, refused>>
        BY <3>1 DEF Speak, hosts, speech, seen
      <3>4. ASSUME NEW l \in Legs, Given(l)
            PROVE  Given(l)' /\ Target(l)' = Target(l)
        <4>1. l[1] # m /\ l[1] \in Sends
          BY <3>3, <3>4, GivenIs DEF Given, PassInv
        <4>2. targets'[l[1]] = targets[l[1]]
          BY <3>2, <4>1 DEF PassInv, TypeOK
        <4> QED  BY <3>4, <4>2 DEF Given, Target
      <3>5. LetThrough'
        BY <3>3, <3>4, LetThroughKept DEF PassInv
      <3>6. RefusedForCause'
        BY <3>3 DEF PassInv, RefusedForCause
      <3> QED  BY <2>1, <3>5, <3>6 DEF PassInv
    <2>3. CASE \E l \in Legs : Given(l) /\ (LegStep(l) \/ Lose(l))
      BY <2>1, <2>3, PassLegs DEF PassInv
    <2>4. CASE \E d \in Devices : Speaks(d) \/ Person(d) \/ Restart(d)
      BY <2>1, <2>4, PassDevices DEF PassInv
    <2>5. CASE Tick \/ UNCHANGED vars
      <3>1. UNCHANGED <<targets, host, granted, queue, refused>>
        BY <2>5 DEF Tick, vars, calls, hosts, speech, seen
      <3>2. \A k \in Legs : Given(k) => Given(k)' /\ Target(k)' = Target(k)
        BY <3>1 DEF Given, Target
      <3>3. LetThrough'
        BY <3>1, <3>2, LetThroughKept DEF PassInv
      <3>4. RefusedForCause'
        BY <3>1 DEF PassInv, RefusedForCause
      <3> QED  BY <2>1, <3>3, <3>4 DEF PassInv
    <2> QED  BY <2>2, <2>3, <2>4, <2>5 DEF Next
  <1>3. PassInv => RefusedForCause
    BY DEF PassInv
  <1> QED  BY <1>1, <1>2, <1>3, PTL DEF Spec

-----------------------------------------------------------------------------
(* The rules of a policy.                                                  *)

LEMMA DayOnce ==
    ASSUME NEW d \in Nat, 0 < d, NEW x \in Nat, x < 2 * d
    PROVE  x % d = IF x < d THEN x ELSE x - d
  <1>1. CASE x < d
    BY <1>1
  <1>2. CASE x >= d
    BY <1>2
  <1> QED BY <1>1, <1>2

\* A quiet window, of a day of any length, is the minutes counted on from its start
\* until its end, also across midnight, and none if they are the same
\* (QuietHours::contains compares and never counts).
THEOREM WindowsAreRight == WindowsRight
  <1> SUFFICES ASSUME NEW q \in Windows, NEW moment \in Minutes
               PROVE  Within(q, moment) <=> moment \in Span(q)
    BY DEF WindowsRight
  <1>1. PICK f, t : f = q.from /\ t = q.to
    OBVIOUS
  <1>2. /\ Day \in Nat /\ 0 < Day /\ f \in Nat /\ f < Day /\ t \in Nat /\ t < Day
        /\ moment \in Nat /\ moment < Day
    BY <1>1, PolicyAssumption DEF Windows, Minutes
  <1>3. PICK n : n = (t + Day - f) % Day
    OBVIOUS
  <1>4. n = IF f <= t THEN t - f ELSE t + Day - f
    <2>1. t + Day - f \in Nat /\ t + Day - f < 2 * Day
      BY <1>2
    <2>2. (t + Day - f) % Day = IF t + Day - f < Day THEN t + Day - f ELSE t + Day - f - Day
      BY <1>2, <2>1, DayOnce
    <2> QED  BY <1>2, <1>3, <2>2
  <1>5. ASSUME NEW k \in 0 .. n - 1
        PROVE  (f + k) % Day = IF f + k < Day THEN f + k ELSE f + k - Day
    <2>1. f + k \in Nat /\ f + k < 2 * Day
      BY <1>2, <1>4
    <2> QED  BY <1>2, <2>1, DayOnce
  <1>6. moment \in Span(q) <=> \E k \in 0 .. n - 1 : moment = (f + k) % Day
    BY <1>1, <1>3 DEF Span
  <1>7. ASSUME Within(q, moment)
        PROVE  moment \in Span(q)
    <2>1. PICK k : k = IF f <= moment THEN moment - f ELSE moment + Day - f
      OBVIOUS
    <2>2. k \in 0 .. n - 1
      BY <1>1, <1>2, <1>4, <1>7, <2>1 DEF Within
    <2>3. moment = (f + k) % Day
      BY <1>2, <1>5, <2>1, <2>2
    <2> QED  BY <1>6, <2>2, <2>3
  <1>8. ASSUME moment \in Span(q)
        PROVE  Within(q, moment)
    <2>1. PICK k \in 0 .. n - 1 : moment = (f + k) % Day
      BY <1>6, <1>8
    <2> QED  BY <1>1, <1>2, <1>4, <1>5, <2>1 DEF Within
  <1> QED  BY <1>7, <1>8

\* What the device refuses, no space's policy allows, and the other way round
\* (Policies::verdict).
THEOREM SpacesOnlyQuieten == FloorHolds
  BY DEF FloorHolds, Verdicts, Verdict
=============================================================================
