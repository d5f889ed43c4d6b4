----------------------------- MODULE SpeakerProofs -----------------------------
(***************************************************************************)
(* What holds of the speaking queue for any jobs, callers and engine, and  *)
(* that each of its steps is one that Messages allows, or none.            *)
(***************************************************************************)
EXTENDS SpeakerMessages, SequenceTheorems, TLAPS

\* What the thread has in its hand at each position.
Hand ==
    /\ wpc \in Mid \cup {"putback", "report"} => job # None
    /\ wpc \in {"take", "asleep", "gone"} => job = None
    /\ verdict # "none" => wpc \in {"restore", "leave", "report"} /\ job # None
    /\ wpc \in {"restore", "leave", "report"} /\ job # None => verdict # "none"
    /\ wpc = "restore" => restore # None

\* Only urgent messages wait in the urgent queue.
UrgentOnly == \A i \in DOMAIN urgent : Urgent(urgent[i])

\* A cut that cancels was aimed at the message it will reach.
CutAims == cut \in {"skip", "clear"} /\ wpc \in Mid => doomed[job] # "no"

\* What a call has abandoned, it aimed at.
TodoAimed == \A c \in Clients : \A i \in DOMAIN todo[c] : doomed[todo[c][i]] # "no"

Shape == TypeOK /\ Hand /\ SpeakingMatches

-----------------------------------------------------------------------------
(* Facts about the sequence operators that the queues are built from.      *)

\* Removing position i leaves the others: those before it where they are,
\* those behind it one position forward (VecDeque::remove).
LEMMA RemoveAtFacts ==
    ASSUME NEW S, NEW s \in Seq(S), NEW i \in DOMAIN s
    PROVE  /\ RemoveAt(s, i) \in Seq(S)
           /\ Len(RemoveAt(s, i)) = Len(s) - 1
           /\ \A k \in 1 .. Len(s) - 1 :
                RemoveAt(s, i)[k] = IF k < i THEN s[k] ELSE s[k + 1]
  <1>1. PICK n, l, r : n = Len(s) /\ l = SubSeq(s, 1, i - 1) /\ r = SubSeq(s, i + 1, Len(s))
    OBVIOUS
  <1>2. n \in Nat /\ i \in 1 .. n /\ DOMAIN s = 1 .. n
    BY <1>1
  <1>3. l \in Seq(S) /\ Len(l) = i - 1 /\ \A k \in 1 .. i - 1 : l[k] = s[k]
    BY <1>1, <1>2
  <1>4. r \in Seq(S) /\ Len(r) = n - i /\ \A k \in 1 .. n - i : r[k] = s[i + k]
    BY <1>1, <1>2
  <1>5. /\ l \o r \in Seq(S) /\ Len(l \o r) = n - 1
        /\ \A k \in 1 .. n - 1 : (l \o r)[k] = IF k < i THEN l[k] ELSE r[k - i + 1]
    BY <1>2, <1>3, <1>4
  <1>6. RemoveAt(s, i) = l \o r
    BY <1>1 DEF RemoveAt
  <1>7. ASSUME NEW k \in 1 .. n - 1
        PROVE  (l \o r)[k] = IF k < i THEN s[k] ELSE s[k + 1]
    <2>1. k < i => l[k] = s[k]
      BY <1>2, <1>3
    <2>2. ~(k < i) => r[k - i + 1] = s[k + 1]
      <3>1. ~(k < i) => k - i + 1 \in 1 .. n - i /\ i + (k - i + 1) = k + 1
        BY <1>2
      <3> QED  BY <1>4, <3>1
    <2> QED  BY <1>5, <2>1, <2>2
  <1> QED  BY <1>1, <1>5, <1>6, <1>7

\* What is left after a removal was there before it.
LEMMA RemoveAtElements ==
    ASSUME NEW S, NEW s \in Seq(S), NEW i \in DOMAIN s
    PROVE  \A k \in DOMAIN RemoveAt(s, i) :
              \E n \in DOMAIN s : n # i /\ RemoveAt(s, i)[k] = s[n]
  <1> SUFFICES ASSUME NEW k \in 1 .. Len(s) - 1
               PROVE  \E n \in DOMAIN s : n # i /\ RemoveAt(s, i)[k] = s[n]
    BY RemoveAtFacts, LenProperties
  <1>0. RemoveAt(s, i)[k] = IF k < i THEN s[k] ELSE s[k + 1]
    BY RemoveAtFacts
  <1>1. k < i => RemoveAt(s, i)[k] = s[k] /\ k \in DOMAIN s
    BY <1>0
  <1>2. ~(k < i) => RemoveAt(s, i)[k] = s[k + 1] /\ k + 1 \in DOMAIN s /\ k + 1 # i
    BY <1>0
  <1> QED  BY <1>1, <1>2

\* The elements of a sequence, as a set.
LEMMA ToSetOf ==
    ASSUME NEW S, NEW s \in Seq(S)
    PROVE  /\ ToSet(s) \subseteq S
           /\ \A x : x \in ToSet(s) <=> \E n \in DOMAIN s : s[n] = x
  BY DEF ToSet

\* Every element of a concatenation is one of the two sequences'.
LEMMA ConcatElements ==
    ASSUME NEW S, NEW s \in Seq(S), NEW t \in Seq(S)
    PROVE  /\ s \o t \in Seq(S)
           /\ \A n \in DOMAIN (s \o t) :
                \/ \E k \in DOMAIN s : (s \o t)[n] = s[k]
                \/ \E k \in DOMAIN t : (s \o t)[n] = t[k]
  OBVIOUS

\* Sequences in which nothing occurs twice.

\* VecDeque::push_back of something new.
LEMMA AppendInjectiveSeq ==
    ASSUME NEW S, NEW s \in Seq(S), NEW x \in S
    PROVE  /\ ToSet(Append(s, x)) = ToSet(s) \cup {x}
           /\ IsInjective(s) /\ x \notin ToSet(s) => IsInjective(Append(s, x))
  BY DEF ToSet, IsInjective

\* VecDeque::pop_front.
LEMMA TailInjective ==
    ASSUME NEW S, NEW s \in Seq(S), s # <<>>
    PROVE  /\ Head(s) \in ToSet(s)
           /\ ToSet(Tail(s)) \subseteq ToSet(s)
           /\ IsInjective(s) => IsInjective(Tail(s)) /\ Head(s) \notin ToSet(Tail(s))
  BY DEF IsInjective, ToSet

\* VecDeque::remove.
LEMMA RemoveAtInjective ==
    ASSUME NEW S, NEW s \in Seq(S), NEW i \in DOMAIN s
    PROVE  /\ ToSet(RemoveAt(s, i)) \subseteq ToSet(s)
           /\ IsInjective(s) => IsInjective(RemoveAt(s, i)) /\ s[i] \notin ToSet(RemoveAt(s, i))
  <1>1. /\ DOMAIN s = 1 .. Len(s) /\ Len(s) \in Nat /\ i \in 1 .. Len(s)
        /\ DOMAIN RemoveAt(s, i) = 1 .. Len(s) - 1
        /\ \A k \in 1 .. Len(s) - 1 : RemoveAt(s, i)[k] = IF k < i THEN s[k] ELSE s[k + 1]
    BY RemoveAtFacts, LenProperties
  <1>2. ToSet(RemoveAt(s, i)) \subseteq ToSet(s)
    BY RemoveAtElements DEF ToSet
  <1>3. ASSUME IsInjective(s)
        PROVE  IsInjective(RemoveAt(s, i))
    BY SMTT(30), <1>1, <1>3 DEF IsInjective
  <1>4. ASSUME IsInjective(s)
        PROVE  s[i] \notin ToSet(RemoveAt(s, i))
    BY <1>4, RemoveAtElements DEF IsInjective, ToSet
  <1> QED  BY <1>2, <1>3, <1>4

\* Two sequences that share nothing, one after the other.
LEMMA ConcatInjective ==
    ASSUME NEW S, NEW s \in Seq(S), NEW t \in Seq(S)
    PROVE  /\ ToSet(s \o t) \subseteq ToSet(s) \cup ToSet(t)
           /\ IsInjective(s) /\ IsInjective(t) /\ ToSet(s) \cap ToSet(t) = {}
                => IsInjective(s \o t)
  <1>1. /\ DOMAIN s = 1 .. Len(s) /\ Len(s) \in Nat
        /\ DOMAIN t = 1 .. Len(t) /\ Len(t) \in Nat
        /\ DOMAIN (s \o t) = 1 .. Len(s) + Len(t)
        /\ \A k \in 1 .. Len(s) + Len(t) :
             (s \o t)[k] = IF k <= Len(s) THEN s[k] ELSE t[k - Len(s)]
    BY ConcatProperties, LenProperties
  <1>2. ToSet(s \o t) \subseteq ToSet(s) \cup ToSet(t)
    BY ConcatElements DEF ToSet
  <1>3. ASSUME IsInjective(s), IsInjective(t), ToSet(s) \cap ToSet(t) = {},
               NEW k \in DOMAIN (s \o t), NEW n \in DOMAIN (s \o t),
               (s \o t)[k] = (s \o t)[n]
        PROVE  k = n
    <2>1. k \in 1 .. Len(s) + Len(t) /\ n \in 1 .. Len(s) + Len(t)
      BY <1>1
    <2>2. CASE k <= Len(s) /\ n <= Len(s)
      BY <1>1, <1>3, <2>1, <2>2 DEF IsInjective
    <2>3. CASE ~(k <= Len(s)) /\ ~(n <= Len(s))
      <3>1. k - Len(s) \in DOMAIN t /\ n - Len(s) \in DOMAIN t
        BY <1>1, <2>1, <2>3
      <3>2. t[k - Len(s)] = t[n - Len(s)]
        BY <1>1, <1>3, <2>1, <2>3
      <3>3. k - Len(s) = n - Len(s)
        BY <1>3, <3>1, <3>2 DEF IsInjective
      <3> QED  BY <1>1, <2>1, <3>3
    <2>4. CASE k <= Len(s) /\ ~(n <= Len(s))
      <3>1. k \in DOMAIN s /\ n - Len(s) \in DOMAIN t /\ s[k] = t[n - Len(s)]
        BY <1>1, <1>3, <2>1, <2>4
      <3> QED  BY <1>3, <3>1 DEF ToSet
    <2>5. CASE ~(k <= Len(s)) /\ n <= Len(s)
      <3>1. n \in DOMAIN s /\ k - Len(s) \in DOMAIN t /\ s[n] = t[k - Len(s)]
        BY <1>1, <1>3, <2>1, <2>5
      <3> QED  BY <1>3, <3>1 DEF ToSet
    <2> QED  BY <2>2, <2>3, <2>4, <2>5
  <1> QED  BY <1>2, <1>3 DEF IsInjective

\* A sequence has the elements of its head and its tail (VecDeque::pop_front).
LEMMA TailSet ==
    ASSUME NEW S, NEW s \in Seq(S), s # <<>>
    PROVE  ToSet(s) = ToSet(Tail(s)) \cup {Head(s)}
  <1>1. ASSUME NEW n \in DOMAIN s, n # 1
        PROVE  \E k \in DOMAIN Tail(s) : Tail(s)[k] = s[n]
    <2>1. n - 1 \in DOMAIN Tail(s) /\ Tail(s)[n - 1] = s[n]
      BY <1>1
    <2> QED  BY <2>1
  <1> QED  BY <1>1, TailInjective DEF ToSet

\* A sequence has the elements that are left and the one that was removed.
LEMMA RemoveAtSet ==
    ASSUME NEW S, NEW s \in Seq(S), NEW i \in DOMAIN s
    PROVE  ToSet(s) = ToSet(RemoveAt(s, i)) \cup {s[i]}
  <1>1. PICK r : r = RemoveAt(s, i)
    OBVIOUS
  <1>2. /\ DOMAIN r = 1 .. Len(s) - 1 /\ DOMAIN s = 1 .. Len(s) /\ Len(s) \in Nat
        /\ \A k \in 1 .. Len(s) - 1 : r[k] = IF k < i THEN s[k] ELSE s[k + 1]
    BY <1>1, RemoveAtFacts, LenProperties
  <1>3. ASSUME NEW n \in 1 .. Len(s), n # i
        PROVE  \E k \in 1 .. Len(s) - 1 : r[k] = s[n]
    <2>1. CASE n < i
      BY <1>2, <2>1
    <2>2. CASE ~(n < i)
      <3>1. n - 1 \in 1 .. Len(s) - 1 /\ r[n - 1] = s[n]
        BY <1>2, <1>3, <2>2
      <3> QED  BY <3>1
    <2> QED  BY <2>1, <2>2
  <1>4. \A k \in DOMAIN r : \E n \in DOMAIN s : r[k] = s[n]
    BY <1>1, RemoveAtElements
  <1>5. ToSet(s) \subseteq ToSet(r) \cup {s[i]}
    BY SMTT(30), <1>2, <1>3 DEF ToSet
  <1>6. ToSet(r) \cup {s[i]} \subseteq ToSet(s)
    BY <1>4 DEF ToSet
  <1> QED  BY <1>1, <1>5, <1>6

\* A concatenation has the elements of both sequences.
LEMMA ConcatSet ==
    ASSUME NEW S, NEW s \in Seq(S), NEW t \in Seq(S)
    PROVE  ToSet(s \o t) = ToSet(s) \cup ToSet(t)
  <1>1. /\ DOMAIN s = 1 .. Len(s) /\ Len(s) \in Nat
        /\ DOMAIN t = 1 .. Len(t) /\ Len(t) \in Nat
        /\ DOMAIN (s \o t) = 1 .. Len(s) + Len(t)
        /\ \A k \in 1 .. Len(s) + Len(t) :
             (s \o t)[k] = IF k <= Len(s) THEN s[k] ELSE t[k - Len(s)]
    BY ConcatProperties, LenProperties
  <1>2. ASSUME NEW n \in DOMAIN s
        PROVE  s[n] \in ToSet(s \o t)
    <2>1. n \in DOMAIN (s \o t) /\ (s \o t)[n] = s[n]
      BY <1>1
    <2> QED  BY <2>1 DEF ToSet
  <1>3. ASSUME NEW n \in DOMAIN t
        PROVE  t[n] \in ToSet(s \o t)
    <2>1. Len(s) + n \in 1 .. Len(s) + Len(t) /\ ~(Len(s) + n <= Len(s)) /\ Len(s) + n - Len(s) = n
      BY <1>1
    <2>2. Len(s) + n \in DOMAIN (s \o t) /\ (s \o t)[Len(s) + n] = t[n]
      BY <1>1, <2>1
    <2> QED  BY <2>2 DEF ToSet
  <1>4. ToSet(s) \subseteq ToSet(s \o t)
    BY <1>2 DEF ToSet
  <1>5. ToSet(t) \subseteq ToSet(s \o t)
    BY <1>3 DEF ToSet
  <1>6. ToSet(s \o t) \subseteq ToSet(s) \cup ToSet(t)
    BY ConcatInjective
  <1> QED  BY <1>4, <1>5, <1>6

-----------------------------------------------------------------------------
LEMMA ShapeInit == Init => Shape
  <1> SUFFICES ASSUME Init PROVE Shape
    OBVIOUS
  <1>1. TypeOK
    <2>1. <<>> \in Seq(Jobs)
      OBVIOUS
    <2>2. todo \in [Clients -> Seq(Jobs)]
      BY <2>1 DEF Init
    <2> QED  BY <2>1, <2>2 DEF Init, TypeOK, Talking, Mid, Outcomes
  <1>2. Hand /\ SpeakingMatches
    BY DEF Init, Hand, SpeakingMatches, Talking, Mid
  <1> QED  BY <1>1, <1>2 DEF Shape

LEMMA ShapeStep == Shape /\ [Next]_vars => Shape'
  <1> SUFFICES ASSUME Shape, [Next]_vars PROVE Shape'
    OBVIOUS
  <1> USE SpeakerAssumption
  <1>1. CASE Take
    <2>1. PICK j \in Jobs : NextJob(j) /\ job' = j /\ index' = at[j] /\ speaking' = IdOf[j]
      BY <1>1 DEF Take
    <2>2. urgent' \in Seq(Jobs) /\ normal' \in Seq(Jobs) /\ resume' \in Jobs \cup {None}
      <3>1. CASE urgent # <<>> /\ urgent' = Tail(urgent) /\ UNCHANGED <<resume, normal>>
        BY <3>1, HeadTailProperties DEF Shape, TypeOK
      <3>2. CASE resume' = None /\ UNCHANGED <<urgent, normal>>
        BY <3>2 DEF Shape, TypeOK
      <3>3. CASE normal # <<>> /\ normal' = Tail(normal) /\ UNCHANGED <<urgent, resume>>
        BY <3>3, HeadTailProperties DEF Shape, TypeOK
      <3> QED  BY <2>1, <3>1, <3>2, <3>3 DEF NextJob
    <2>3. TypeOK'
      BY <1>1, <2>1, <2>2 DEF Take, DropStaleCut, Shape, TypeOK, Talking, Mid, books
    <2>4. Hand' /\ SpeakingMatches'
      BY <1>1, <2>1 DEF Take, DropStaleCut, Shape, TypeOK, Hand, SpeakingMatches, Talking, Mid
    <2> QED  BY <2>3, <2>4 DEF Shape
  <1>2. CASE Sleep
    BY <1>2 DEF Sleep, Shape, TypeOK, Hand, SpeakingMatches, Mid, Talking,
         queue, hand, books
  <1>3. CASE Ask
    BY <1>3 DEF Ask, Shape, TypeOK, Hand, SpeakingMatches, Mid, Talking,
         Outcomes, AllFaults, queue, hand, books
  <1>4. CASE StartChunk
    BY <1>4 DEF StartChunk, Shape, TypeOK, Hand, SpeakingMatches, Mid,
         Talking, AllFaults, queue, hand, books
  <1>5. CASE EndChunk
    BY ZenonT(60), <1>5 DEF EndChunk, Shape, TypeOK, Hand, SpeakingMatches, Mid,
         Talking, AllFaults, queue, hand, books
  <1>6. CASE AllSpoken
    BY <1>6 DEF AllSpoken, Finish, Shape, TypeOK, Hand, SpeakingMatches,
         Mid, Talking, Outcomes, queue, hand, books
  <1>7. CASE Check
    BY <1>7 DEF Check, Finish, Shape, TypeOK, Hand, SpeakingMatches, Mid,
         Talking, Outcomes, AllFaults, queue, hand, books
  <1>8. CASE PutBack
    BY <1>8 DEF PutBack, Finish, OwesRest, Shape, TypeOK, Hand,
         SpeakingMatches, Mid, Talking, queue, hand, books
  <1>9. CASE RestoreVoice
    BY <1>9 DEF RestoreVoice, Shape, TypeOK, Hand, SpeakingMatches, Mid,
         Talking, queue, hand, books
  <1>10. CASE Leave
    BY <1>10 DEF Leave, Silent, Shape, TypeOK, Hand, SpeakingMatches, Mid,
         Talking, queue, hand, books
  <1>11. CASE Report
    BY <1>11 DEF Report, Shape, TypeOK, Hand, SpeakingMatches, Mid,
         Talking, Outcomes, queue, hand, books
  <1>12. ASSUME NEW c \in Clients, NEW j \in Jobs, Submit(c, j)
        PROVE  Shape'
    <2>1. /\ Append(urgent, j) \in Seq(Jobs) /\ Append(normal, j) \in Seq(Jobs)
          /\ Append(accepted, j) \in Seq(Jobs)
      BY AppendProperties DEF Shape, TypeOK
    <2>2. urgent' \in Seq(Jobs) /\ normal' \in Seq(Jobs) /\ accepted' \in Seq(Jobs)
      <3>1. urgent \in Seq(Jobs) /\ normal \in Seq(Jobs)
        BY DEF Shape, TypeOK
      <3> QED  BY <1>12, <2>1, <3>1 DEF Submit
    <2>3. cut' \in {"none", "resume", "skip", "clear"}
      BY <1>12 DEF Submit, Interrupt, Shape, TypeOK
    <2>4. wpc' \in Talking \cup {"take", "asleep", "report", "gone"}
      BY <1>12 DEF Submit, Notify, Shape, TypeOK
    <2>5. cpc' \in [Clients -> {"idle", "skip", "stop", "tell", "tellAll"}]
      BY ZenonT(60), <1>12 DEF Submit, Goes, Shape, TypeOK
    <2>6. TypeOK'
      BY SMTT(30), <1>12, <2>2, <2>3, <2>4, <2>5 DEF Submit, Shape, TypeOK, hand
    <2>7. Hand' /\ SpeakingMatches'
      BY <1>12 DEF Submit, Notify, Shape, Hand, SpeakingMatches, Talking, Mid, hand
    <2> QED  BY <2>6, <2>7 DEF Shape
  <1>13. ASSUME NEW c \in Clients, SkipHeld(c)
        PROVE  Shape'
    BY <1>13 DEF SkipHeld, Calls, Goes, Owes, Doom, Shape, TypeOK, Hand,
         SpeakingMatches, Mid, Talking, queue, hand, books
  <1>14. ASSUME NEW c \in Clients, SkipPlaying(c)
        PROVE  Shape'
    BY <1>14 DEF SkipPlaying, Calls, Goes, Shape, TypeOK, Hand,
         SpeakingMatches, Mid, Talking, queue, hand, books
  <1>15. ASSUME NEW c \in Clients, NEW m \in MsgIds, StopPlaying(c, m)
        PROVE  Shape'
    BY SMTT(30), <1>15 DEF StopPlaying, Calls, Goes, Notify, Doom, Aimed, Shape,
         TypeOK, Hand, SpeakingMatches, Mid, Talking, queue, hand, books
  <1>16. ASSUME NEW c \in Clients, NEW m \in MsgIds, StopWaiting(c, m)
        PROVE  Shape'
    <2>1. PICK k \in Jobs : todo' = [todo EXCEPT ![c] = <<k>>]
      BY <1>16 DEF StopWaiting, Owes
    <2>2. todo' \in [Clients -> Seq(Jobs)]
      BY <2>1 DEF Shape, TypeOK
    <2>3. urgent' \in Seq(Jobs) /\ normal' \in Seq(Jobs) /\ resume' \in Jobs \cup {None}
      BY <1>16, RemoveAtFacts DEF StopWaiting, FirstAt, Shape, TypeOK
    <2>4. doomed' \in [Jobs -> {"no", "skip", "stop", "clear"}]
      BY <1>16 DEF StopWaiting, Doom, Shape, TypeOK
    <2>5. cpc' \in [Clients -> {"idle", "skip", "stop", "tell", "tellAll"}]
      BY <1>16 DEF StopWaiting, Goes, Shape, TypeOK
    <2>6. TypeOK'
      BY SMTT(30), <1>16, <2>2, <2>3, <2>4, <2>5 DEF StopWaiting, Shape, TypeOK, hand
    <2>7. Hand' /\ SpeakingMatches'
      BY <1>16 DEF StopWaiting, Shape, Hand, SpeakingMatches, hand
    <2> QED  BY <2>6, <2>7 DEF Shape
  <1>17. ASSUME NEW c \in Clients, Clear(c)
        PROVE  Shape'
    <2>1. urgent \o (IF resume # None THEN <<resume>> ELSE <<>>) \o normal \in Seq(Jobs)
      <3>1. (IF resume # None THEN <<resume>> ELSE <<>>) \in Seq(Jobs)
        BY DEF Shape, TypeOK
      <3> QED  BY <3>1, ConcatProperties DEF Shape, TypeOK
    <2>2. todo' \in [Clients -> Seq(Jobs)] /\ doomed' \in [Jobs -> {"no", "skip", "stop", "clear"}]
      BY <1>17, <2>1 DEF Clear, Owes, Doom, Shape, TypeOK
    <2>3. cpc' \in [Clients -> {"idle", "skip", "stop", "tell", "tellAll"}]
      BY <1>17 DEF Clear, Goes, Shape, TypeOK
    <2>4. wpc' \in Talking \cup {"take", "asleep", "report", "gone"}
      BY <1>17 DEF Clear, Notify, Shape, TypeOK
    <2>5. TypeOK'
      BY EmptySeq, <1>17, <2>2, <2>3, <2>4 DEF Clear, Drain, Shape, TypeOK, hand
    <2>6. Hand' /\ SpeakingMatches'
      BY <1>17 DEF Clear, Notify, Shape, Hand, SpeakingMatches, Talking, Mid, hand
    <2> QED  BY <2>5, <2>6 DEF Shape
  <1>18. ASSUME NEW c \in Clients, Pause(c)
        PROVE  Shape'
    BY <1>18 DEF Pause, Calls, Goes, Interrupt, Notify, Shape, TypeOK,
         Hand, SpeakingMatches, Mid, Talking, queue, hand, books
  <1>19. ASSUME NEW c \in Clients, Unpause(c)
        PROVE  Shape'
    <2>1. wpc' \in Talking \cup {"take", "asleep", "report", "gone"}
      BY <1>19 DEF Unpause, Notify, Shape, TypeOK
    <2>2. TypeOK'
      <3>1. TypeOK
        BY DEF Shape
      <3> QED  BY ZenonT(60), <1>19, <2>1, <3>1 DEF Unpause, TypeOK, queue, hand, books
    <2>3. Hand' /\ SpeakingMatches'
      BY <1>19 DEF Unpause, Notify, Shape, Hand, SpeakingMatches, Talking, Mid, hand
    <2> QED  BY <2>2, <2>3 DEF Shape
  <1>20. ASSUME NEW c \in Clients, Shutdown(c)
        PROVE  Shape'
    BY <1>20 DEF Shutdown, Calls, Notify, Shape, TypeOK, Hand,
         SpeakingMatches, Mid, Talking, queue, hand, books
  <1>21. ASSUME NEW c \in Clients, NEW on \in BOOLEAN, SetMute(c, on)
        PROVE  Shape'
    BY <1>21 DEF SetMute, Calls, Goes, Shape, TypeOK, Hand,
         SpeakingMatches, Mid, Talking, queue, hand, books
  <1>22. ASSUME NEW c \in Clients, NEW v \in Voices, ChooseVoice(c, v)
        PROVE  Shape'
    BY <1>22 DEF ChooseVoice, Calls, Shape, TypeOK, Hand, SpeakingMatches,
         Mid, Talking, queue, hand, books
  <1>23. ASSUME NEW c \in Clients, SkipCut(c)
        PROVE  Shape'
    BY <1>23 DEF SkipCut, Goes, Notify, Doom, Aimed, Shape, TypeOK, Hand,
         SpeakingMatches, Mid, Talking, queue, hand, books
  <1>24. ASSUME NEW c \in Clients, Tell(c)
        PROVE  Shape'
    <2>1. todo' \in [Clients -> Seq(Jobs)] /\ told' \in [Jobs -> Outcomes \cup {"untold"}]
      <3>1. CASE todo[c] # <<>>
        <4>1. Head(todo[c]) \in Jobs /\ Tail(todo[c]) \in Seq(Jobs)
          BY <3>1, HeadTailProperties DEF Shape, TypeOK
        <4>2. todo' \in [Clients -> Seq(Jobs)]
          BY ZenonT(60), <1>24, <3>1, <4>1 DEF Tell, Owes, Shape, TypeOK
        <4>3. told' \in [Jobs -> Outcomes \cup {"untold"}]
          BY <1>24, <3>1, <4>1 DEF Tell, Shape, TypeOK, Outcomes
        <4> QED  BY <4>2, <4>3
      <3>2. CASE todo[c] = <<>>
        BY <1>24, <3>2 DEF Tell, Shape, TypeOK
      <3> QED  BY <3>1, <3>2
    <2>2. cpc' \in [Clients -> {"idle", "skip", "stop", "tell", "tellAll"}]
      BY <1>24 DEF Tell, Goes, Shape, TypeOK
    <2>3. TypeOK'
      <3>1. urgent' \in Seq(Jobs) /\ normal' \in Seq(Jobs) /\ resume' \in Jobs \cup {None}
        BY <1>24 DEF Tell, Shape, TypeOK, queue
      <3>2. UNCHANGED <<cut, paused, speaking, shutdown, at, wpc, hand, voice, muted>>
        BY <1>24 DEF Tell
      <3>3. UNCHANGED <<accepted, doomed, clipped, chosen>>
        BY <1>24 DEF Tell
      <3> QED  BY SMTT(30), <2>1, <2>2, <3>1, <3>2, <3>3 DEF Shape, TypeOK, hand
    <2>4. Hand' /\ SpeakingMatches'
      BY <1>24 DEF Tell, Shape, Hand, SpeakingMatches, hand
    <2> QED  BY <2>3, <2>4 DEF Shape
  <1>25. ASSUME NEW c \in Clients, EngineStop(c)
        PROVE  Shape'
    BY <1>25 DEF EngineStop, Goes, Shape, TypeOK, Hand, SpeakingMatches,
         Mid, Talking, queue, hand, books
  <1>26. CASE UNCHANGED vars
    BY <1>26 DEF vars, Shape, TypeOK, Hand, SpeakingMatches, queue, hand, books
  <1> QED  BY <1>1, <1>2, <1>3, <1>4, <1>5, <1>6, <1>7, <1>8, <1>9, <1>10,
           <1>11, <1>12, <1>13, <1>14, <1>15, <1>16, <1>17, <1>18, <1>19,
           <1>20, <1>21, <1>22, <1>23, <1>24, <1>25, <1>26 DEF Next,
           Worker, Call, Proceed

-----------------------------------------------------------------------------
(* A pause is never lost. *)

LEMMA PauseStep ==
    ASSUME Shape, PauseHolds, [Next]_vars
    PROVE  PauseHolds'
  <1> USE DEF PauseHolds, Mid
  <1>1. CASE Worker
    <2>1. CASE Take
      BY <2>1 DEF Take
    <2>2. CASE StartChunk \/ EndChunk \/ Ask
      BY <2>2 DEF StartChunk, EndChunk, Ask
    <2>3. CASE Check
      BY <2>3 DEF Check, Finish
    <2>4. CASE Sleep \/ AllSpoken \/ PutBack \/ RestoreVoice \/ Leave \/ Report
      BY <2>4 DEF Sleep, AllSpoken, PutBack, RestoreVoice, Leave, Report, Finish
    <2> QED  BY <1>1, <2>1, <2>2, <2>3, <2>4 DEF Worker
  <1>2. ASSUME NEW c \in Clients, Pause(c)
        PROVE  PauseHolds'
    BY <1>2 DEF Pause, Interrupt, Notify, Shape, SpeakingMatches, Talking
  <1>3. ASSUME NEW c \in Clients, NEW j \in Jobs, Submit(c, j)
        PROVE  PauseHolds'
    BY <1>3 DEF Submit, Interrupt, Notify
  <1>4. ASSUME NEW c \in Clients, NEW m \in MsgIds, StopPlaying(c, m) \/ StopWaiting(c, m)
        PROVE  PauseHolds'
    BY <1>4 DEF StopPlaying, StopWaiting, Notify
  <1>5. ASSUME NEW c \in Clients, SkipHeld(c) \/ SkipPlaying(c) \/ SkipCut(c) \/ Clear(c)
        PROVE  PauseHolds'
    BY <1>5 DEF SkipHeld, SkipPlaying, SkipCut, Clear, Notify
  <1>6. ASSUME NEW c \in Clients, Unpause(c) \/ Shutdown(c) \/ Tell(c) \/ EngineStop(c)
        PROVE  PauseHolds'
    BY <1>6 DEF Unpause, Shutdown, Tell, EngineStop, Notify
  <1>7. ASSUME NEW c \in Clients,
               (\E on \in BOOLEAN : SetMute(c, on)) \/ (\E v \in Voices : ChooseVoice(c, v))
        PROVE  PauseHolds'
    BY <1>7 DEF SetMute, ChooseVoice
  <1>8. CASE UNCHANGED vars
    BY <1>8 DEF vars
  <1> QED  BY <1>1, <1>2, <1>3, <1>4, <1>5, <1>6, <1>7, <1>8 DEF Next, Call, Proceed

-----------------------------------------------------------------------------
(* An urgent message interrupts. *)

LEMMA UrgentStep ==
    ASSUME Shape, UrgentOnly, UrgentInterrupts, [Next]_vars
    PROVE  UrgentOnly' /\ UrgentInterrupts'
  <1> USE DEF UrgentOnly, UrgentInterrupts, Mid
  <1>1. CASE Take
    <2>1. PICK j \in Jobs : NextJob(j) /\ job' = j
      BY <1>1 DEF Take
    <2>2. CASE urgent # <<>> /\ j = Head(urgent) /\ urgent' = Tail(urgent)
      <3>1. urgent \in Seq(Jobs)
        BY DEF Shape, TypeOK
      <3>2. Urgent(j)
        BY <2>2, <3>1
      <3>3. UrgentOnly'
        BY <2>2, <3>1, HeadTailProperties, LenProperties DEF Urgent
      <3> QED  BY <2>1, <3>2, <3>3 DEF Urgent
    <2>3. CASE urgent = <<>> /\ UNCHANGED urgent
      BY <2>3
    <2> QED  BY <2>1, <2>2, <2>3 DEF NextJob
  <1>2. CASE Sleep \/ Ask \/ StartChunk \/ EndChunk \/ AllSpoken \/ Check
    BY <1>2 DEF Sleep, Ask, StartChunk, EndChunk, AllSpoken, Check, Finish, queue
  <1>3. CASE PutBack \/ RestoreVoice \/ Leave \/ Report
    BY <1>3 DEF PutBack, RestoreVoice, Leave, Report, Finish, queue, hand
  <1>4. ASSUME NEW c \in Clients, NEW j \in Jobs, Submit(c, j)
        PROVE  UrgentOnly' /\ UrgentInterrupts'
    <2>1. CASE Urgent(j)
      <3>1. urgent \in Seq(Jobs) /\ urgent' = Append(urgent, j)
        BY <1>4, <2>1 DEF Submit, Shape, TypeOK
      <3>2. UrgentOnly'
        BY <2>1, <3>1, AppendProperties, LenProperties DEF Urgent
      <3>3. UrgentInterrupts'
        BY <1>4, <2>1 DEF Submit, Interrupt, Notify, Shape, SpeakingMatches, Talking, hand
      <3> QED  BY <3>2, <3>3
    <2>2. CASE ~Urgent(j)
      BY <1>4, <2>2 DEF Submit, Notify, hand
    <2> QED  BY <2>1, <2>2
  <1>5. ASSUME NEW c \in Clients, NEW m \in MsgIds, StopWaiting(c, m)
        PROVE  UrgentOnly' /\ UrgentInterrupts'
    <2>1. CASE \E i \in DOMAIN urgent : urgent' = RemoveAt(urgent, i)
      <3>1. urgent \in Seq(Jobs)
        BY DEF Shape, TypeOK
      <3>2. UrgentOnly'
        BY <2>1, <3>1, RemoveAtElements DEF Urgent
      <3>3. urgent # <<>>
        BY <2>1
      <3>4. UrgentInterrupts'
        BY <1>5, <3>3 DEF StopWaiting, hand
      <3> QED  BY <3>2, <3>4
    <2>2. CASE UNCHANGED urgent
      BY <1>5, <2>2 DEF StopWaiting, hand
    <2> QED  BY <1>5, <2>1, <2>2 DEF StopWaiting
  <1>6. ASSUME NEW c \in Clients, NEW m \in MsgIds, StopPlaying(c, m)
        PROVE  UrgentOnly' /\ UrgentInterrupts'
    BY <1>6 DEF StopPlaying, Notify, queue, hand
  <1>7. ASSUME NEW c \in Clients, Clear(c)
        PROVE  UrgentOnly' /\ UrgentInterrupts'
    BY <1>7 DEF Clear, Drain
  <1>8. ASSUME NEW c \in Clients, SkipHeld(c) \/ SkipPlaying(c) \/ SkipCut(c)
        PROVE  UrgentOnly' /\ UrgentInterrupts'
    BY <1>8 DEF SkipHeld, SkipPlaying, SkipCut, Notify, queue, hand
  <1>9. ASSUME NEW c \in Clients, Pause(c) \/ Unpause(c) \/ Shutdown(c)
        PROVE  UrgentOnly' /\ UrgentInterrupts'
    BY <1>9 DEF Pause, Unpause, Shutdown, Interrupt, Notify, queue, hand
  <1>10. ASSUME NEW c \in Clients, Tell(c) \/ EngineStop(c)
         PROVE  UrgentOnly' /\ UrgentInterrupts'
    BY <1>10 DEF Tell, EngineStop, queue, hand
  <1>11. ASSUME NEW c \in Clients,
                (\E on \in BOOLEAN : SetMute(c, on)) \/ (\E v \in Voices : ChooseVoice(c, v))
         PROVE  UrgentOnly' /\ UrgentInterrupts'
    BY <1>11 DEF SetMute, ChooseVoice, queue, hand
  <1>12. CASE UNCHANGED vars
    BY <1>12 DEF vars, queue, hand
  <1> QED  BY <1>1, <1>2, <1>3, <1>4, <1>5, <1>6, <1>7, <1>8, <1>9, <1>10, <1>11, <1>12
           DEF Next, Worker, Call, Proceed

-----------------------------------------------------------------------------
(* Only what was aimed at is cancelled. *)

CutInv == CutAims /\ TodoAimed /\ NoStrayCut

\* A job that was aimed at stays aimed at.
LEMMA DoomKeeps ==
    ASSUME NEW S, NEW kind \in {"skip", "stop", "clear"}, S \subseteq Jobs, Doom(S, kind)
    PROVE  /\ \A j \in Jobs : doomed[j] # "no" => doomed'[j] # "no"
           /\ \A j \in S : doomed'[j] # "no"
  BY DEF Doom

\* A call that abandons only jobs that were aimed at keeps TodoAimed.
LEMMA TodoStep ==
    ASSUME todo \in [Clients -> Seq(Jobs)], TodoAimed,
           NEW c \in Clients, NEW q, todo' = [todo EXCEPT ![c] = q],
           \A n \in DOMAIN q : doomed'[q[n]] # "no",
           \A j \in Jobs : doomed[j] # "no" => doomed'[j] # "no"
    PROVE  TodoAimed'
  <1> SUFFICES ASSUME NEW d \in Clients, NEW i \in DOMAIN todo'[d]
               PROVE  doomed'[todo'[d][i]] # "no"
    BY DEF TodoAimed
  <1>1. CASE d = c
    BY <1>1
  <1>2. CASE d # c
    <2>1. todo'[d] = todo[d] /\ todo[d] \in Seq(Jobs)
      BY <1>2
    <2>2. todo[d][i] \in Jobs
      BY <2>1, ElementOfSeq, LenProperties
    <2> QED  BY <2>1, <2>2 DEF TodoAimed
  <1> QED  BY <1>1, <1>2

LEMMA CutStep ==
    ASSUME Shape, CutInv, [Next]_vars
    PROVE  CutInv'
  <1> USE SpeakerAssumption
  <1>0. /\ todo \in [Clients -> Seq(Jobs)]
        /\ told \in [Jobs -> Outcomes \cup {"untold"}]
        /\ job \in Jobs \cup {None}
        /\ resume \in Jobs \cup {None}
        /\ urgent \in Seq(Jobs) /\ normal \in Seq(Jobs)
    BY DEF Shape, TypeOK
  <1>1. CASE Take
    <2>1. verdict = "none"
      BY <1>1 DEF Take, Shape, Hand
    <2> QED  BY <1>1, <2>1 DEF Take, DropStaleCut, CutInv, CutAims, TodoAimed,
                NoStrayCut, books
  <1>2. CASE Sleep \/ StartChunk \/ EndChunk \/ RestoreVoice \/ Leave
    BY <1>2 DEF Sleep, StartChunk, EndChunk, RestoreVoice, Leave, CutInv, CutAims,
       TodoAimed, NoStrayCut, hand, books, Mid
  <1>3. CASE Ask \/ AllSpoken
    BY <1>3 DEF Ask, AllSpoken, Finish, CutInv, CutAims, TodoAimed, NoStrayCut, books, Mid
  <1>4. CASE Check
    <2>1. job \in Jobs
      BY <1>4 DEF Check, Shape, Hand, SpeakingMatches, Mid, TypeOK
    <2>2. verdict' = "cancelled" => verdict = "cancelled" \/ doomed[job] # "no"
      BY <1>4 DEF Check, CutInv, CutAims, Mid
    <2>3. NoStrayCut'
      BY <1>4, <2>1, <2>2 DEF Check, CutInv, NoStrayCut
    <2>4. CutAims' /\ TodoAimed'
      BY <1>4 DEF Check, CutInv, CutAims, TodoAimed
    <2> QED  BY <2>3, <2>4 DEF CutInv
  <1>5. CASE PutBack
    BY <1>5 DEF PutBack, Finish, CutInv, CutAims, TodoAimed, NoStrayCut, books, Mid
  <1>6. CASE Report
    <2>1. job \in Jobs
      BY <1>6 DEF Report, Shape, Hand, TypeOK
    <2>2. NoStrayCut'
      BY <1>0, <1>6, <2>1 DEF Report, CutInv, NoStrayCut
    <2> QED  BY <1>6, <2>2 DEF Report, CutInv, CutAims, TodoAimed, Mid
  <1>7. ASSUME NEW c \in Clients, NEW j \in Jobs, Submit(c, j)
        PROVE  CutInv'
    BY <1>7 DEF Submit, Interrupt, Notify, CutInv, CutAims, TodoAimed, NoStrayCut, hand, Mid
  <1>8. ASSUME NEW c \in Clients, SkipHeld(c)
        PROVE  CutInv'
    <2>1. resume \in Jobs /\ Doom({resume}, "skip") /\ todo' = [todo EXCEPT ![c] = <<resume>>]
      BY <1>0, <1>8 DEF SkipHeld, Owes
    <2>2. (\A j \in Jobs : doomed[j] # "no" => doomed'[j] # "no") /\ doomed'[resume] # "no"
      BY <2>1, DoomKeeps
    <2>3. TodoAimed'
      <3>1. \A n \in DOMAIN <<resume>> : doomed'[<<resume>>[n]] # "no"
        BY <2>2
      <3> QED  BY <1>0, <2>1, <2>2, <3>1, TodoStep DEF CutInv
    <2>4. CutAims' /\ NoStrayCut'
      BY <1>0, <1>8, <2>2 DEF SkipHeld, CutInv, CutAims, NoStrayCut, hand, Mid, Shape, SpeakingMatches
    <2> QED  BY <2>3, <2>4 DEF CutInv
  <1>9. ASSUME NEW c \in Clients,
               \/ SkipCut(c)
               \/ \E m \in MsgIds : StopPlaying(c, m)
        PROVE  CutInv'
    <2>1. Aimed \subseteq Jobs
      BY <1>0 DEF Aimed
    <2>2. Doom(Aimed, "skip") \/ Doom(Aimed, "stop")
      BY <1>9 DEF SkipCut, StopPlaying
    <2>3. /\ \A j \in Jobs : doomed[j] # "no" => doomed'[j] # "no"
          /\ \A j \in Aimed : doomed'[j] # "no"
      BY <2>1, <2>2, DoomKeeps
    <2>4. UNCHANGED <<hand, told, todo>>
      BY <1>9 DEF SkipCut, StopPlaying
    <2>5. TodoAimed' /\ NoStrayCut'
      BY <1>0, <2>3, <2>4, ElementOfSeq DEF CutInv, TodoAimed, NoStrayCut, hand
    <2>6. wpc' \in Mid => wpc \in Mid
      BY <1>9 DEF SkipCut, StopPlaying, Notify, Mid
    <2>7. CutAims'
      BY <2>3, <2>4, <2>6 DEF CutAims, Aimed, hand, Shape, SpeakingMatches
    <2> QED  BY <2>5, <2>7 DEF CutInv
  <1>10. ASSUME NEW c \in Clients, NEW m \in MsgIds, StopWaiting(c, m)
         PROVE  CutInv'
    <2>1. PICK k \in Jobs : Doom({k}, "stop") /\ todo' = [todo EXCEPT ![c] = <<k>>]
      BY <1>10 DEF StopWaiting, Owes
    <2>2. (\A j \in Jobs : doomed[j] # "no" => doomed'[j] # "no") /\ doomed'[k] # "no"
      BY <2>1, DoomKeeps
    <2>3. TodoAimed'
      <3>1. \A n \in DOMAIN <<k>> : doomed'[<<k>>[n]] # "no"
        BY <2>2
      <3> QED  BY <1>0, <2>1, <2>2, <3>1, TodoStep DEF CutInv
    <2>4. CutAims' /\ NoStrayCut'
      BY <1>0, <1>10, <2>2 DEF StopWaiting, CutInv, CutAims, NoStrayCut, hand, Mid, Shape, SpeakingMatches
    <2> QED  BY <2>3, <2>4 DEF CutInv
  <1>11. ASSUME NEW c \in Clients, Clear(c)
         PROVE  CutInv'
    <2>1. Waiting \cup Aimed \subseteq Jobs
      BY <1>0, ToSetOf DEF Waiting, Aimed
    <2>2. Doom(Waiting \cup Aimed, "clear")
      BY <1>11 DEF Clear
    <2>3. /\ \A j \in Jobs : doomed[j] # "no" => doomed'[j] # "no"
          /\ \A j \in Waiting \cup Aimed : doomed'[j] # "no"
      BY <2>1, <2>2, DoomKeeps
    <2>4. PICK mid : mid = IF resume # None THEN <<resume>> ELSE <<>>
      OBVIOUS
    <2>5. /\ mid \in Seq(Jobs) /\ \A n \in DOMAIN mid : mid[n] \in Waiting
          /\ \A n \in DOMAIN urgent : urgent[n] \in Waiting
          /\ \A n \in DOMAIN normal : normal[n] \in Waiting
      <3>1. mid \in Seq(Jobs)
        BY <1>0, <2>4
      <3>2. \A n \in DOMAIN mid : mid[n] \in Waiting
        BY <1>0, <2>4 DEF Waiting
      <3>3. (\A n \in DOMAIN urgent : urgent[n] \in Waiting) /\ (\A n \in DOMAIN normal : normal[n] \in Waiting)
        BY <1>0, ToSetOf DEF Waiting
      <3> QED  BY <3>1, <3>2, <3>3
    <2>6. todo' = [todo EXCEPT ![c] = urgent \o mid \o normal]
      BY <1>11, <2>4 DEF Clear, Owes
    <2>7. \A n \in DOMAIN (urgent \o mid \o normal) : (urgent \o mid \o normal)[n] \in Waiting
      BY SMTT(30), <1>0, <2>5, ConcatElements
    <2>8. TodoAimed'
      BY <1>0, <2>3, <2>6, <2>7, TodoStep DEF CutInv
    <2>9. UNCHANGED <<hand, told>>
      BY <1>11 DEF Clear
    <2>10. wpc' \in Mid => wpc \in Mid
      BY <1>11 DEF Clear, Notify, Mid
    <2>11. CutAims'
      BY <2>3, <2>9, <2>10 DEF CutAims, Aimed, hand, Shape, SpeakingMatches
    <2>12. NoStrayCut'
      BY <1>0, <2>3, <2>9 DEF CutInv, NoStrayCut, hand
    <2> QED  BY <2>8, <2>11, <2>12 DEF CutInv
  <1>12. ASSUME NEW c \in Clients, SkipPlaying(c) \/ Pause(c) \/ Unpause(c) \/ Shutdown(c)
         PROVE  CutInv'
    BY <1>12 DEF SkipPlaying, Pause, Unpause, Shutdown, Interrupt, Notify, CutInv, CutAims,
       TodoAimed, NoStrayCut, hand, books, Mid
  <1>13. ASSUME NEW c \in Clients,
                (\E on \in BOOLEAN : SetMute(c, on)) \/ (\E v \in Voices : ChooseVoice(c, v))
         PROVE  CutInv'
    BY <1>13 DEF SetMute, ChooseVoice, CutInv, CutAims, TodoAimed, NoStrayCut, hand, books
  <1>14. ASSUME NEW c \in Clients, Tell(c)
         PROVE  CutInv'
    <2>1. CASE todo[c] # <<>>
      <3>1. /\ Head(todo[c]) \in Jobs /\ Tail(todo[c]) \in Seq(Jobs)
            /\ \A n \in DOMAIN Tail(todo[c]) : \E k \in DOMAIN todo[c] : Tail(todo[c])[n] = todo[c][k]
            /\ Head(todo[c]) = todo[c][1] /\ 1 \in DOMAIN todo[c]
        BY <1>0, <2>1, HeadTailProperties, LenProperties
      <3>2. /\ told' = [told EXCEPT ![Head(todo[c])] = "cancelled"]
            /\ todo' = [todo EXCEPT ![c] = Tail(todo[c])]
            /\ UNCHANGED <<cut, wpc, hand, doomed>>
        BY <1>14, <2>1 DEF Tell, Owes
      <3>3. TodoAimed'
        <4>1. \A n \in DOMAIN Tail(todo[c]) : doomed'[Tail(todo[c])[n]] # "no"
          BY <3>1, <3>2 DEF CutInv, TodoAimed
        <4> QED  BY <1>0, <3>2, <4>1, TodoStep DEF CutInv
      <3>4. NoStrayCut'
        BY <1>0, <3>1, <3>2 DEF CutInv, NoStrayCut, TodoAimed, hand
      <3> QED  BY <3>2, <3>3, <3>4 DEF CutInv, CutAims, hand
    <2>2. CASE todo[c] = <<>>
      BY <1>14, <2>2 DEF Tell, CutInv, CutAims, TodoAimed, NoStrayCut, hand
    <2> QED  BY <2>1, <2>2
  <1>15. ASSUME NEW c \in Clients, EngineStop(c)
         PROVE  CutInv'
    BY <1>15 DEF EngineStop, CutInv, CutAims, TodoAimed, NoStrayCut, hand, books, Mid
  <1>16. CASE UNCHANGED vars
    BY <1>16 DEF vars, CutInv, CutAims, TodoAimed, NoStrayCut, hand, books
  <1> QED  BY <1>1, <1>2, <1>3, <1>4, <1>5, <1>6, <1>7, <1>8, <1>9, <1>10, <1>11, <1>12,
              <1>13, <1>14, <1>15, <1>16 DEF Next, Worker, Call, Proceed

-----------------------------------------------------------------------------
(* The voice that a message switched away from.                            *)

\* What is to be put back is what the person chose, and nothing is to be put
\* back unless a message is between its first chunk and its end.
VoiceInv ==
    /\ VoiceRestored
    /\ restore # None => /\ restore = chosen
                         /\ wpc \in {"speak", "sounding", "killed", "check", "putback", "restore"}

LEMMA VoiceStep ==
    ASSUME "voice" \notin Controls, Shape, VoiceInv, [Next]_vars
    PROVE  VoiceInv'
  <1> USE SpeakerAssumption DEF VoiceInv, VoiceRestored
  <1>1. CASE Take \/ Sleep \/ StartChunk \/ EndChunk \/ AllSpoken
    BY <1>1 DEF Take, Sleep, StartChunk, EndChunk, AllSpoken, Finish, hand, books
  <1>2. CASE Ask
    BY <1>2 DEF Ask, books, Shape, TypeOK
  <1>3. CASE Check \/ PutBack \/ Leave \/ Report
    BY <1>3 DEF Check, PutBack, Leave, Report, Finish, hand, books
  <1>4. CASE RestoreVoice
    BY <1>4 DEF RestoreVoice, books, Shape, Hand
  <1>5. ASSUME NEW c \in Clients, Call(c)
        PROVE  UNCHANGED <<restore, voice, chosen>> /\ (wpc' = wpc \/ wpc = "asleep")
    <2>1. ASSUME NEW j \in Jobs, Submit(c, j)
          PROVE  UNCHANGED <<restore, voice, chosen>> /\ (wpc' = wpc \/ wpc = "asleep")
      BY <2>1 DEF Submit, Notify, hand
    <2>2. ASSUME NEW m \in MsgIds, StopPlaying(c, m) \/ StopWaiting(c, m)
          PROVE  UNCHANGED <<restore, voice, chosen>> /\ (wpc' = wpc \/ wpc = "asleep")
      BY <2>2 DEF StopPlaying, StopWaiting, Notify, hand
    <2>3. ASSUME SkipHeld(c) \/ SkipPlaying(c) \/ Clear(c) \/ Pause(c) \/ Unpause(c) \/ Shutdown(c)
          PROVE  UNCHANGED <<restore, voice, chosen>> /\ (wpc' = wpc \/ wpc = "asleep")
      BY <2>3 DEF SkipHeld, SkipPlaying, Clear, Pause, Unpause, Shutdown, Notify, hand, books
    <2>4. ASSUME NEW on \in BOOLEAN, SetMute(c, on)
          PROVE  UNCHANGED <<restore, voice, chosen>> /\ (wpc' = wpc \/ wpc = "asleep")
      BY <2>4 DEF SetMute, hand, books
    <2>5. ASSUME NEW v \in Voices, ChooseVoice(c, v)
          PROVE  FALSE
      BY <2>5 DEF ChooseVoice, Calls
    <2> QED  BY <1>5, <2>1, <2>2, <2>3, <2>4, <2>5 DEF Call
  <1>6. ASSUME NEW c \in Clients, Call(c)
        PROVE  VoiceInv'
    BY <1>5, <1>6
  <1>7. ASSUME NEW c \in Clients, Proceed(c)
        PROVE  VoiceInv'
    BY <1>7 DEF Proceed, SkipCut, Tell, EngineStop, Notify, hand, books
  <1>8. CASE UNCHANGED vars
    BY <1>8 DEF vars, hand, books
  <1> QED  BY <1>1, <1>2, <1>3, <1>4, <1>6, <1>7, <1>8 DEF Next, Worker

-----------------------------------------------------------------------------
(* Theorems about every behaviour.                                         *)

\* Every variable keeps its type, whatever the jobs, the callers and the
\* engine's faults, and the hand of the thread fits its position.
THEOREM ShapeAlways == Spec => []Shape
  <1>1. Init => Shape
    BY ShapeInit
  <1>2. Shape /\ [Next]_vars => Shape'
    BY ShapeStep
  <1> QED  BY <1>1, <1>2, PTL DEF Spec

THEOREM TypeCorrect == Spec => []TypeOK
  <1>1. Shape => TypeOK
    BY DEF Shape
  <1> QED  BY <1>1, ShapeAlways, PTL

\* What the snapshot calls playing (Inner::speaking) is what the thread has
\* taken, until it has let go of it.
THEOREM SnapshotIsRight == Spec => []SpeakingMatches
  <1>1. Shape => SpeakingMatches
    BY DEF Shape
  <1> QED  BY <1>1, ShapeAlways, PTL

\* A pause is never lost (Speaker::pause against run and speak_job): while it
\* lasts, a message that is still being spoken has a cut waiting for it.
THEOREM PauseIsKept == Spec => []PauseHolds
  <1>1. Init => PauseHolds
    BY DEF Init, PauseHolds, Mid
  <1>2. Shape /\ PauseHolds /\ [Next]_vars => PauseHolds'
    BY PauseStep
  <1> QED  BY <1>1, <1>2, ShapeAlways, PTL DEF Spec

\* An urgent message that waits has cut the one that is not urgent
\* (Speaker::submit against speak_job).
THEOREM UrgentIsNext == Spec => []UrgentInterrupts
  <1>1. Init => UrgentOnly /\ UrgentInterrupts
    BY DEF Init, UrgentOnly, UrgentInterrupts, Mid
  <1>2. Shape /\ UrgentOnly /\ UrgentInterrupts /\ [Next]_vars => (UrgentOnly /\ UrgentInterrupts)'
    BY UrgentStep
  <1> QED  BY <1>1, <1>2, ShapeAlways, PTL DEF Spec

\* Nothing is cancelled that no call aimed at (Speaker::cut, stop_message and
\* clear against speak_job): a cut left over never ends the next message.
THEOREM NothingElseIsCancelled == Spec => []NoStrayCut
  <1>1. Init => CutInv
    BY DEF Init, CutInv, CutAims, TodoAimed, NoStrayCut
  <1>2. Shape /\ CutInv /\ [Next]_vars => CutInv'
    BY CutStep
  <1>3. CutInv => NoStrayCut
    BY DEF CutInv
  <1> QED  BY <1>1, <1>2, <1>3, ShapeAlways, PTL DEF Spec

\* Where nobody chooses a voice while a message is spoken, the voice that a
\* message asked for goes with the message (speak_job).
THEOREM VoiceGoesWithMessage ==
    ASSUME "voice" \notin Controls
    PROVE  Spec => []VoiceRestored
  <1>1. Init => VoiceInv
    BY DEF Init, VoiceInv, VoiceRestored
  <1>2. Shape /\ VoiceInv /\ [Next]_vars => VoiceInv'
    BY VoiceStep
  <1>3. VoiceInv => VoiceRestored
    BY DEF VoiceInv
  <1> QED  BY <1>1, <1>2, <1>3, ShapeAlways, PTL DEF Spec

-----------------------------------------------------------------------------
(* A job is in one place at most, whatever callers and the thread do; from  *)
(* that, an outcome is told once, the backlog keeps its order, and a job    *)
(* that was accepted is never in no place.                                  *)

Places == Spots \cup Clients

\* What is anywhere was accepted.
Known == \A j \in Jobs, p \in Places : Has(p, j) => j \in ToSet(accepted)

PlaceInv == OnePlace /\ Known

\* What is in one place is in no other.
LEMMA Alone ==
    ASSUME PlaceInv, NEW j \in Jobs, NEW p \in Places, Has(p, j)
    PROVE  /\ p # "urgent" => j \notin ToSet(urgent)
           /\ p # "normal" => j \notin ToSet(normal)
           /\ p # "resume" => j # resume
           /\ p # "thread" => j # job
           /\ p # "told" => told[j] = "untold"
           /\ \A c \in Clients : p # c => j \notin ToSet(todo[c])
           /\ j \in ToSet(accepted)
  <1>1. \A q \in Places : Has(q, j) => p = q
    BY DEF PlaceInv, OnePlace, Places
  <1>2. {"urgent", "normal", "resume", "thread", "told"} \subseteq Places /\ Clients \subseteq Places
    BY DEF Places, Spots
  <1>3. \A c \in Clients : j \in ToSet(todo[c]) => p = c
    BY <1>1, <1>2 DEF Has
  <1>4. j \in ToSet(accepted)
    BY DEF PlaceInv, Known
  <1> QED  BY <1>1, <1>2, <1>3, <1>4 DEF Has

\* A step after which the jobs of M are at d at most, and every other job
\* where it was at most.
Moves(M, d) ==
    /\ IsInjective(urgent') /\ IsInjective(normal') /\ \A c \in Clients : IsInjective(todo'[c])
    /\ \A k \in Jobs :
        /\ k \in ToSet(urgent') => IF k \in M THEN d = "urgent" ELSE k \in ToSet(urgent)
        /\ k \in ToSet(normal') => IF k \in M THEN d = "normal" ELSE k \in ToSet(normal)
        /\ k = resume' => IF k \in M THEN d = "resume" ELSE k = resume
        /\ k = job' => IF k \in M THEN d = "thread" ELSE k = job
        /\ told'[k] # "untold" => IF k \in M THEN d = "told" ELSE told[k] # "untold"
        /\ \A c \in Clients : k \in ToSet(todo'[c]) => IF k \in M THEN d = c ELSE k \in ToSet(todo[c])
    /\ M \subseteq ToSet(accepted') /\ ToSet(accepted) \subseteq ToSet(accepted')

LEMMA MoveStep ==
    ASSUME PlaceInv, NEW M, NEW d \in Places, Moves(M, d)
    PROVE  PlaceInv'
  <1>1. ASSUME NEW k \in Jobs, NEW p \in Places, Has(p, k)'
        PROVE  IF k \in M THEN p = d ELSE Has(p, k)
    <2>1. CASE p \in Clients
      <3>1. k \in ToSet(todo'[p])
        BY <1>1, <2>1, SpeakerAssumption DEF Has, Spots
      <3> QED  BY <2>1, <3>1 DEF Has, Moves
    <2>2. CASE p \in Spots
      BY <1>1, <2>2, SpeakerAssumption DEF Has, Spots, Moves
    <2> QED  BY <2>1, <2>2 DEF Places
  <1>2. \A j \in Jobs : \A p, q \in Places : Has(p, j)' /\ Has(q, j)' => p = q
    BY <1>1 DEF PlaceInv, OnePlace, Places
  <1>3. Known'
    BY <1>1 DEF Known, PlaceInv, Places, Moves
  <1> QED  BY <1>2, <1>3 DEF PlaceInv, OnePlace, Places, Moves

LEMMA PlaceStep ==
    ASSUME Shape, PlaceInv, [Next]_vars
    PROVE  PlaceInv'
  <1> USE SpeakerAssumption
  <1>0. /\ todo \in [Clients -> Seq(Jobs)]
        /\ told \in [Jobs -> Outcomes \cup {"untold"}]
        /\ job \in Jobs \cup {None} /\ resume \in Jobs \cup {None}
        /\ urgent \in Seq(Jobs) /\ normal \in Seq(Jobs) /\ accepted \in Seq(Jobs)
        /\ None \notin Jobs
    BY DEF Shape, TypeOK
  <1>00. /\ IsInjective(urgent) /\ IsInjective(normal)
         /\ \A c \in Clients : IsInjective(todo[c])
    BY DEF PlaceInv, OnePlace
  <1>000. /\ {"urgent", "normal", "resume", "thread", "told"} \subseteq Places
          /\ Clients \subseteq Places
    BY DEF Places, Spots
  <1>1. CASE UNCHANGED <<queue, job, told, todo, accepted>>
    BY <1>1 DEF PlaceInv, OnePlace, Known, Has, queue, Places
  <1>2. CASE Take
    <2>1. PICK j \in Jobs : NextJob(j) /\ job' = j
      BY <1>2 DEF Take
    <2>2. /\ UNCHANGED <<told, todo, accepted>> /\ job = None
      BY <1>2 DEF Take, books, Shape, Hand
    <2>3. CASE urgent # <<>> /\ j = Head(urgent) /\ urgent' = Tail(urgent) /\ UNCHANGED <<resume, normal>>
      <3>1. /\ IsInjective(urgent') /\ j \in ToSet(urgent) /\ j \notin ToSet(urgent')
            /\ ToSet(urgent') \subseteq ToSet(urgent)
        BY <1>0, <1>00, <2>3, TailInjective
      <3>2. Has("urgent", j)
        BY <3>1 DEF Has
      <3>a. /\ j \notin ToSet(normal) /\ j # resume /\ j # job /\ told[j] = "untold"
           /\ j \in ToSet(accepted)
        BY <1>000, <2>1, <2>2, <2>3, <3>1, <3>2, Alone
      <3>b. \A d \in Clients : j \notin ToSet(todo[d])
        <4> SUFFICES ASSUME NEW d \in Clients PROVE j \notin ToSet(todo[d])
          OBVIOUS
        <4>1. d # "urgent"
          BY DEF Spots
        <4> QED  BY <1>000, <2>1, <2>2, <2>3, <3>1, <3>2, <4>1, Alone
      <3>m. Moves({j}, "thread")
        BY <1>0, <1>00, <1>000, <2>1, <2>2, <2>3, <3>1, <3>2, <3>a, <3>b DEF Moves
      <3> QED  BY <1>000, <3>m, MoveStep
    <2>4. CASE resume # None /\ j = resume /\ resume' = None /\ UNCHANGED <<urgent, normal>>
      <3>1. Has("resume", j)
        BY <2>4 DEF Has
      <3>a. /\ j \notin ToSet(urgent) /\ j \notin ToSet(normal) /\ j # job /\ told[j] = "untold"
           /\ j \in ToSet(accepted)
        BY <1>000, <2>1, <2>2, <2>4, <3>1, Alone
      <3>b. \A d \in Clients : j \notin ToSet(todo[d])
        <4> SUFFICES ASSUME NEW d \in Clients PROVE j \notin ToSet(todo[d])
          OBVIOUS
        <4>1. d # "resume"
          BY DEF Spots
        <4> QED  BY <1>000, <2>1, <2>2, <2>4, <3>1, <4>1, Alone
      <3>m. Moves({j}, "thread")
        BY <1>0, <1>00, <1>000, <2>1, <2>2, <2>4, <3>1, <3>a, <3>b DEF Moves
      <3> QED  BY <1>000, <3>m, MoveStep
    <2>5. CASE normal # <<>> /\ j = Head(normal) /\ normal' = Tail(normal) /\ UNCHANGED <<urgent, resume>>
      <3>1. /\ IsInjective(normal') /\ j \in ToSet(normal) /\ j \notin ToSet(normal')
            /\ ToSet(normal') \subseteq ToSet(normal)
        BY <1>0, <1>00, <2>5, TailInjective
      <3>2. Has("normal", j)
        BY <3>1 DEF Has
      <3>a. /\ j \notin ToSet(urgent) /\ j # resume /\ j # job /\ told[j] = "untold"
           /\ j \in ToSet(accepted)
        BY <1>000, <2>1, <2>2, <2>5, <3>1, <3>2, Alone
      <3>b. \A d \in Clients : j \notin ToSet(todo[d])
        <4> SUFFICES ASSUME NEW d \in Clients PROVE j \notin ToSet(todo[d])
          OBVIOUS
        <4>1. d # "normal"
          BY DEF Spots
        <4> QED  BY <1>000, <2>1, <2>2, <2>5, <3>1, <3>2, <4>1, Alone
      <3>m. Moves({j}, "thread")
        BY <1>0, <1>00, <1>000, <2>1, <2>2, <2>5, <3>1, <3>2, <3>a, <3>b DEF Moves
      <3> QED  BY <1>000, <3>m, MoveStep
    <2> QED  BY <2>1, <2>3, <2>4, <2>5 DEF NextJob
  <1>3. CASE PutBack
    <2>1. job \in Jobs /\ resume' = job /\ job' = None /\ UNCHANGED <<urgent, normal, told, todo, accepted>>
      BY <1>0, <1>3 DEF PutBack, OwesRest, Shape, Hand, books
    <2>2. Has("thread", job)
      BY DEF Has
    <2>a. /\ job \notin ToSet(urgent) /\ job \notin ToSet(normal) /\ job # resume /\ told[job] = "untold"
         /\ job \in ToSet(accepted)
      BY <1>000, <2>1, <2>2, Alone
    <2>b. \A d \in Clients : job \notin ToSet(todo[d])
      <3> SUFFICES ASSUME NEW d \in Clients PROVE job \notin ToSet(todo[d])
        OBVIOUS
      <3>1. d # "thread"
        BY DEF Spots
      <3> QED  BY <1>000, <2>1, <2>2, <3>1, Alone
    <2>m. Moves({job}, "resume")
      BY <1>0, <1>00, <1>000, <2>1, <2>2, <2>a, <2>b DEF Moves
    <2> QED  BY <1>000, <2>m, MoveStep
  <1>4. CASE Report
    <2>1. /\ job \in Jobs /\ told' = [told EXCEPT ![job] = verdict] /\ job' = None
          /\ UNCHANGED <<urgent, normal, resume, todo, accepted>>
      BY <1>0, <1>4 DEF Report, Shape, Hand, queue
    <2>2. Has("thread", job)
      BY DEF Has
    <2>a. /\ job \notin ToSet(urgent) /\ job \notin ToSet(normal) /\ job # resume /\ told[job] = "untold"
         /\ job \in ToSet(accepted)
      BY <1>000, <2>1, <2>2, Alone
    <2>b. \A d \in Clients : job \notin ToSet(todo[d])
      <3> SUFFICES ASSUME NEW d \in Clients PROVE job \notin ToSet(todo[d])
        OBVIOUS
      <3>1. d # "thread"
        BY DEF Spots
      <3> QED  BY <1>000, <2>1, <2>2, <3>1, Alone
    <2>m. Moves({job}, "told")
      BY <1>0, <1>00, <1>000, <2>1, <2>2, <2>a, <2>b DEF Moves
    <2> QED  BY <1>000, <2>m, MoveStep
  <1>5. ASSUME NEW c \in Clients, NEW j \in Jobs, Submit(c, j)
        PROVE  PlaceInv'
    <2>1. /\ j \notin ToSet(accepted) /\ ToSet(accepted') = ToSet(accepted) \cup {j}
          /\ UNCHANGED <<resume, job, told, todo>>
      BY <1>0, <1>5, AppendInjectiveSeq DEF Submit, hand
    <2>2. j \notin ToSet(urgent) /\ j \notin ToSet(normal)
      <3>1. ~Has("urgent", j) /\ ~Has("normal", j)
        BY <1>000, <2>1 DEF PlaceInv, Known
      <3> QED  BY <3>1 DEF Has
    <2>3. CASE Urgent(j)
      <3>1. /\ urgent' = Append(urgent, j) /\ UNCHANGED normal
        BY <1>5, <2>3 DEF Submit
      <3>2. IsInjective(urgent') /\ ToSet(urgent') = ToSet(urgent) \cup {j}
        BY <1>0, <1>00, <2>2, <3>1, AppendInjectiveSeq
      <3>3. ~Has("normal", j) /\ ~Has("resume", j) /\ ~Has("thread", j) /\ ~Has("told", j)
        BY <1>000, <2>1 DEF PlaceInv, Known
      <3>4. \A d \in Clients : ~Has(d, j)
        BY <1>000, <2>1 DEF PlaceInv, Known
      <3>5. \A d \in Clients : j \notin ToSet(todo[d])
        BY <3>4 DEF Has
      <3>6. j \notin ToSet(normal) /\ j # resume /\ j # job /\ told[j] = "untold"
        BY <3>3 DEF Has
      <3>m. Moves({j}, "urgent")
        BY <1>0, <1>00, <1>000, <2>1, <3>1, <3>2, <3>5, <3>6 DEF Moves
      <3> QED  BY <1>000, <3>m, MoveStep
    <2>4. CASE ~Urgent(j)
      <3>1. /\ normal' = Append(normal, j) /\ UNCHANGED urgent
        BY <1>5, <2>4 DEF Submit
      <3>2. IsInjective(normal') /\ ToSet(normal') = ToSet(normal) \cup {j}
        BY <1>0, <1>00, <2>2, <3>1, AppendInjectiveSeq
      <3>3. ~Has("urgent", j) /\ ~Has("resume", j) /\ ~Has("thread", j) /\ ~Has("told", j)
        BY <1>000, <2>1 DEF PlaceInv, Known
      <3>4. \A d \in Clients : ~Has(d, j)
        BY <1>000, <2>1 DEF PlaceInv, Known
      <3>5. \A d \in Clients : j \notin ToSet(todo[d])
        BY <3>4 DEF Has
      <3>6. j \notin ToSet(urgent) /\ j # resume /\ j # job /\ told[j] = "untold"
        BY <3>3 DEF Has
      <3>m. Moves({j}, "normal")
        BY <1>0, <1>00, <1>000, <2>1, <3>1, <3>2, <3>5, <3>6 DEF Moves
      <3> QED  BY <1>000, <3>m, MoveStep
    <2> QED  BY <2>3, <2>4
  <1>6. ASSUME NEW c \in Clients, SkipHeld(c)
        PROVE  PlaceInv'
    <2>1. /\ resume \in Jobs /\ resume' = None /\ todo' = [todo EXCEPT ![c] = <<resume>>]
          /\ UNCHANGED <<urgent, normal, job, told, accepted>>
      BY <1>0, <1>6 DEF SkipHeld, Owes, hand
    <2>2. IsInjective(<<resume>>) /\ ToSet(<<resume>>) = {resume}
      BY DEF IsInjective, ToSet
    <2>3. Has("resume", resume)
      BY DEF Has
    <2>a. /\ resume \notin ToSet(urgent) /\ resume \notin ToSet(normal) /\ resume # job /\ told[resume] = "untold"
         /\ resume \in ToSet(accepted)
      BY <1>000, <2>1, <2>2, <2>3, Alone
    <2>b. \A d \in Clients : resume \notin ToSet(todo[d])
      <3> SUFFICES ASSUME NEW d \in Clients PROVE resume \notin ToSet(todo[d])
        OBVIOUS
      <3>1. d # "resume"
        BY DEF Spots
      <3> QED  BY <1>000, <2>1, <2>2, <2>3, <3>1, Alone
    <2>m. Moves({resume}, c)
      <3>1. \A d \in Clients : todo'[d] = IF d = c THEN <<resume>> ELSE todo[d]
        BY <1>0, <2>1
      <3>2. \A d \in Clients : IsInjective(todo'[d])
        BY <1>00, <2>2, <3>1
      <3>3. \A k \in Jobs, d \in Clients :
               k \in ToSet(todo'[d]) => IF k \in {resume} THEN d = c ELSE k \in ToSet(todo[d])
        BY <2>2, <2>b, <3>1
      <3> QED  BY <1>0, <1>00, <2>1, <2>a, <3>2, <3>3 DEF Moves
    <2> QED  BY <1>000, <2>m, MoveStep
  <1>7. ASSUME NEW c \in Clients, NEW m \in MsgIds, StopWaiting(c, m)
        PROVE  PlaceInv'
    <2>1. UNCHANGED <<job, told, accepted>>
      BY <1>7 DEF StopWaiting, hand
    <2>2. ASSUME NEW j \in Jobs
          PROVE  IsInjective(<<j>>) /\ ToSet(<<j>>) = {j}
      BY DEF IsInjective, ToSet
    <2>3. ASSUME NEW i \in DOMAIN urgent, urgent' = RemoveAt(urgent, i),
                 UNCHANGED <<resume, normal>>, todo' = [todo EXCEPT ![c] = <<urgent[i]>>]
          PROVE  PlaceInv'
      <3>1. urgent[i] \in Jobs /\ urgent[i] \in ToSet(urgent)
        BY <1>0, ElementOfSeq, LenProperties DEF ToSet
      <3>2. /\ IsInjective(urgent') /\ urgent[i] \notin ToSet(urgent')
            /\ ToSet(urgent') \subseteq ToSet(urgent)
        BY <1>0, <1>00, <2>3, RemoveAtInjective
      <3>3. Has("urgent", urgent[i])
        BY <3>1 DEF Has
      <3>a. /\ urgent[i] \notin ToSet(normal) /\ urgent[i] # resume /\ urgent[i] # job /\ told[urgent[i]] = "untold"
           /\ urgent[i] \in ToSet(accepted)
        BY <1>000, <2>1, <2>2, <2>3, <3>1, <3>2, <3>3, Alone
      <3>b. \A d \in Clients : urgent[i] \notin ToSet(todo[d])
        <4> SUFFICES ASSUME NEW d \in Clients PROVE urgent[i] \notin ToSet(todo[d])
          OBVIOUS
        <4>1. d # "urgent"
          BY DEF Spots
        <4> QED  BY <1>000, <2>1, <2>2, <2>3, <3>1, <3>2, <3>3, <4>1, Alone
      <3>m. Moves({urgent[i]}, c)
        BY <1>0, <1>00, <1>000, <2>1, <2>2, <2>3, <3>1, <3>2, <3>3, <3>a, <3>b DEF Moves
      <3> QED  BY <1>000, <3>m, MoveStep
    <2>4. ASSUME resume # None, resume' = None,
                 UNCHANGED <<urgent, normal>>, todo' = [todo EXCEPT ![c] = <<resume>>]
          PROVE  PlaceInv'
      <3>1. resume \in Jobs /\ Has("resume", resume)
        BY <1>0, <2>4 DEF Has
      <3>a. /\ resume \notin ToSet(urgent) /\ resume \notin ToSet(normal) /\ resume # job /\ told[resume] = "untold"
           /\ resume \in ToSet(accepted)
        BY <1>000, <2>1, <2>2, <2>4, <3>1, Alone
      <3>b. \A d \in Clients : resume \notin ToSet(todo[d])
        <4> SUFFICES ASSUME NEW d \in Clients PROVE resume \notin ToSet(todo[d])
          OBVIOUS
        <4>1. d # "resume"
          BY DEF Spots
        <4> QED  BY <1>000, <2>1, <2>2, <2>4, <3>1, <4>1, Alone
      <3>m. Moves({resume}, c)
        BY <1>0, <1>00, <1>000, <2>1, <2>2, <2>4, <3>1, <3>a, <3>b DEF Moves
      <3> QED  BY <1>000, <3>m, MoveStep
    <2>5. ASSUME NEW i \in DOMAIN normal, normal' = RemoveAt(normal, i),
                 UNCHANGED <<resume, urgent>>, todo' = [todo EXCEPT ![c] = <<normal[i]>>]
          PROVE  PlaceInv'
      <3>1. normal[i] \in Jobs /\ normal[i] \in ToSet(normal)
        BY <1>0, ElementOfSeq, LenProperties DEF ToSet
      <3>2. /\ IsInjective(normal') /\ normal[i] \notin ToSet(normal')
            /\ ToSet(normal') \subseteq ToSet(normal)
        BY <1>0, <1>00, <2>5, RemoveAtInjective
      <3>3. Has("normal", normal[i])
        BY <3>1 DEF Has
      <3>a. /\ normal[i] \notin ToSet(urgent) /\ normal[i] # resume /\ normal[i] # job /\ told[normal[i]] = "untold"
           /\ normal[i] \in ToSet(accepted)
        BY <1>000, <2>1, <2>2, <2>5, <3>1, <3>2, <3>3, Alone
      <3>b. \A d \in Clients : normal[i] \notin ToSet(todo[d])
        <4> SUFFICES ASSUME NEW d \in Clients PROVE normal[i] \notin ToSet(todo[d])
          OBVIOUS
        <4>1. d # "normal"
          BY DEF Spots
        <4> QED  BY <1>000, <2>1, <2>2, <2>5, <3>1, <3>2, <3>3, <4>1, Alone
      <3>m. Moves({normal[i]}, c)
        BY <1>0, <1>00, <1>000, <2>1, <2>2, <2>5, <3>1, <3>2, <3>3, <3>a, <3>b DEF Moves
      <3> QED  BY <1>000, <3>m, MoveStep
    <2> QED  BY <1>7, <2>3, <2>4, <2>5 DEF StopWaiting, Owes, FirstAt
  <1>8. ASSUME NEW c \in Clients, Clear(c)
        PROVE  PlaceInv'
    <2>1. PICK mid : mid = IF resume # None THEN <<resume>> ELSE <<>>
      OBVIOUS
    <2>2. /\ urgent' = <<>> /\ resume' = None /\ normal' = <<>>
          /\ todo' = [todo EXCEPT ![c] = urgent \o mid \o normal]
          /\ UNCHANGED <<job, told, accepted>>
      BY <1>8, <2>1 DEF Clear, Drain, Owes, hand
    <2>3. /\ mid \in Seq(Jobs) /\ IsInjective(mid)
          /\ \A k \in ToSet(mid) : k = resume /\ k \in Jobs
      BY <1>0, <2>1 DEF IsInjective, ToSet
    <2>4. \A k \in ToSet(urgent) : k \in Jobs /\ Has("urgent", k)
      BY <1>0, ToSetOf DEF Has
    <2>5. \A k \in ToSet(normal) : k \in Jobs /\ Has("normal", k)
      BY <1>0, ToSetOf DEF Has
    <2>6. \A k \in ToSet(mid) : k \in Jobs /\ Has("resume", k)
      BY <2>3 DEF Has
    <2>7. /\ ToSet(urgent) \cap ToSet(mid) = {}
          /\ ToSet(urgent) \cap ToSet(normal) = {}
          /\ ToSet(mid) \cap ToSet(normal) = {}
      BY <1>000, <2>4, <2>5, <2>6 DEF PlaceInv, OnePlace, Places
    <2>8. /\ urgent \o mid \in Seq(Jobs) /\ IsInjective(urgent \o mid)
          /\ ToSet(urgent \o mid) \subseteq ToSet(urgent) \cup ToSet(mid)
      BY <1>0, <1>00, <2>3, <2>7, ConcatInjective, ConcatProperties
    <2>9. /\ IsInjective(urgent \o mid \o normal)
          /\ ToSet(urgent \o mid \o normal) \subseteq ToSet(urgent) \cup ToSet(mid) \cup ToSet(normal)
      <3>1. ToSet(urgent \o mid) \cap ToSet(normal) = {}
        BY <2>7, <2>8
      <3>2. /\ IsInjective((urgent \o mid) \o normal)
            /\ ToSet((urgent \o mid) \o normal) \subseteq ToSet(urgent \o mid) \cup ToSet(normal)
        BY <1>0, <1>00, <2>8, <3>1, ConcatInjective
      <3> QED  BY <2>8, <3>2
    <2>10. PICK M : M = ToSet(urgent) \cup ToSet(mid) \cup ToSet(normal)
      OBVIOUS
    <2>11. \A k \in M : /\ k \in Jobs /\ k # job /\ told[k] = "untold" /\ k \in ToSet(accepted)
      BY <1>000, <2>4, <2>5, <2>6, <2>10, Alone
    <2>12. \A k \in M, d \in Clients : k \notin ToSet(todo[d])
      <3> SUFFICES ASSUME NEW k \in M, NEW d \in Clients, k \in ToSet(todo[d])
                   PROVE  FALSE
        OBVIOUS
      <3>1. d \notin {"urgent", "normal", "resume"}
        BY DEF Spots
      <3> QED  BY <1>000, <2>4, <2>5, <2>6, <2>10, <3>1, Alone
    <2>13. /\ IsInjective(<<>>) /\ ToSet(<<>>) = {}
      BY DEF IsInjective, ToSet
    <2>14. \A k \in Jobs, d \in Clients :
               k \in ToSet(todo'[d]) => IF k \in M THEN d = c ELSE k \in ToSet(todo[d])
      <3> SUFFICES ASSUME NEW k \in Jobs, NEW d \in Clients, k \in ToSet(todo'[d])
                   PROVE  IF k \in M THEN d = c ELSE k \in ToSet(todo[d])
        OBVIOUS
      <3>1. CASE d = c
        BY <1>0, <2>2, <2>9, <2>10, <3>1
      <3>2. CASE d # c
        BY <1>0, <2>2, <2>12, <3>2
      <3> QED  BY <3>1, <3>2
    <2>15. \A d \in Clients : IsInjective(todo'[d])
      BY <1>0, <1>00, <2>2, <2>9
    <2>m. Moves(M, c)
      BY <1>000, <2>2, <2>11, <2>13, <2>14, <2>15, <1>0 DEF Moves
    <2> QED  BY <1>000, <2>m, MoveStep
  <1>9. ASSUME NEW c \in Clients, Tell(c)
        PROVE  PlaceInv'
    <2>1. CASE todo[c] # <<>>
      <3>1. PICK j : j = Head(todo[c])
        OBVIOUS
      <3>2. /\ told' = [told EXCEPT ![j] = "cancelled"]
            /\ todo' = [todo EXCEPT ![c] = Tail(todo[c])]
            /\ UNCHANGED <<urgent, normal, resume, job, accepted>>
        BY <1>9, <2>1, <3>1 DEF Tell, Owes, queue, hand
      <3>3. /\ IsInjective(Tail(todo[c])) /\ j \in ToSet(todo[c]) /\ j \notin ToSet(Tail(todo[c]))
            /\ ToSet(Tail(todo[c])) \subseteq ToSet(todo[c])
        BY <1>0, <1>00, <2>1, <3>1, TailInjective
      <3>4. j \in Jobs /\ Has(c, j)
        BY <1>0, <3>3, ToSetOf DEF Has
      <3>5. /\ j \notin ToSet(urgent) /\ j \notin ToSet(normal) /\ j # resume /\ j # job
            /\ \A d \in Clients : d # c => j \notin ToSet(todo[d])
            /\ j \in ToSet(accepted)
        BY <1>000, <3>4, Alone DEF Spots
      <3>6. \A d \in Clients : IsInjective(todo'[d])
        BY <1>0, <1>00, <3>2, <3>3
      <3>7. \A k \in Jobs, d \in Clients :
                k \in ToSet(todo'[d]) => k # j /\ k \in ToSet(todo[d])
        BY <1>0, <3>2, <3>3, <3>5
      <3>m. Moves({j}, "told")
        BY <1>0, <1>00, <1>000, <3>2, <3>4, <3>5, <3>6, <3>7 DEF Moves
      <3> QED  BY <1>000, <3>m, MoveStep
    <2>2. CASE todo[c] = <<>>
      <3>1. UNCHANGED <<queue, job, told, todo, accepted>>
        BY <1>9, <2>2 DEF Tell, hand
      <3> QED  BY <1>1, <3>1
    <2> QED  BY <2>1, <2>2
  <1>10. ASSUME NEW c \in Clients, NEW m \in MsgIds, StopPlaying(c, m)
         PROVE  UNCHANGED <<queue, job, told, todo, accepted>>
    BY <1>10 DEF StopPlaying, hand
  <1>11. ASSUME NEW c \in Clients,
                \/ SkipPlaying(c) \/ SkipCut(c) \/ EngineStop(c)
                \/ Pause(c) \/ Unpause(c) \/ Shutdown(c)
         PROVE  UNCHANGED <<queue, job, told, todo, accepted>>
    BY <1>11 DEF SkipPlaying, SkipCut, EngineStop, Pause, Unpause, Shutdown, hand, books
  <1>12. ASSUME NEW c \in Clients,
                (\E on \in BOOLEAN : SetMute(c, on)) \/ (\E v \in Voices : ChooseVoice(c, v))
         PROVE  UNCHANGED <<queue, job, told, todo, accepted>>
    BY <1>12 DEF SetMute, ChooseVoice, hand, books
  <1>13. CASE \/ Sleep \/ Ask \/ StartChunk \/ EndChunk \/ AllSpoken
              \/ Check \/ RestoreVoice \/ Leave \/ UNCHANGED vars
    <2>1. UNCHANGED <<queue, job, told, todo, accepted>>
      BY <1>13 DEF Sleep, Ask, StartChunk, EndChunk, AllSpoken, Check, RestoreVoice, Leave,
         vars, hand, books
    <2> QED  BY <1>1, <2>1
  <1> QED  BY <1>1, <1>2, <1>3, <1>4, <1>5, <1>6, <1>7, <1>8, <1>9, <1>10, <1>11, <1>12, <1>13
           DEF Next, Worker, Call, Proceed

-----------------------------------------------------------------------------
\* The inductive form: what is in a place was accepted, so that a job handed
\* over is in no place yet (Speaker::submit takes the job by value).
THEOREM PlaceAlways == Spec => []PlaceInv
  <1>1. Init => PlaceInv
    <2> SUFFICES ASSUME Init PROVE PlaceInv
      OBVIOUS
    <2>1. IsInjective(<<>>) /\ ToSet(<<>>) = {}
      BY DEF IsInjective, ToSet
    <2>2. \A j \in Jobs, p \in Places : ~Has(p, j)
      BY <2>1, SpeakerAssumption DEF Init, Has
    <2>3. IsInjective(urgent) /\ IsInjective(normal) /\ \A c \in Clients : IsInjective(todo[c])
      BY <2>1 DEF Init
    <2> QED  BY <2>2, <2>3 DEF PlaceInv, OnePlace, Known, Places
  <1>2. Shape /\ PlaceInv /\ [Next]_vars => PlaceInv'
    BY PlaceStep
  <1> QED  BY <1>1, <1>2, ShapeAlways, PTL DEF Spec

\* A message is in one place at most: the queues, the resume slot, the thread
\* and the calls that abandon messages pass it on, and never share it
\* (Inner, Speaker::run, skip, stop_message, clear).
THEOREM InOnePlace == Spec => []OnePlace
  <1>1. PlaceInv => OnePlace
    BY DEF PlaceInv
  <1> QED  BY <1>1, PlaceAlways, PTL

\* Only a job that is in the hand of the one who tells it is told.
LEMMA ToldStep ==
    ASSUME Shape, PlaceInv, [Next]_vars, NEW j \in Jobs, told[j] # "untold"
    PROVE  told'[j] = told[j]
  <1> USE SpeakerAssumption
  <1>0. /\ todo \in [Clients -> Seq(Jobs)]
        /\ told \in [Jobs -> Outcomes \cup {"untold"}]
        /\ Clients \subseteq Places /\ "thread" \in Places
    BY DEF Shape, TypeOK, Places, Spots
  <1>1. CASE Report
    <2>1. job \in Jobs /\ told' = [told EXCEPT ![job] = verdict]
      BY <1>1 DEF Report, Shape, Hand, TypeOK
    <2>2. told[job] = "untold"
      <3>1. Has("thread", job)
        BY DEF Has
      <3> QED  BY <1>0, <2>1, <3>1, Alone
    <2> QED  BY <1>0, <2>1, <2>2
  <1>2. ASSUME NEW c \in Clients, Tell(c), todo[c] # <<>>
        PROVE  told'[j] = told[j]
    <2>1. Head(todo[c]) \in ToSet(todo[c]) /\ Head(todo[c]) \in Jobs
      BY <1>0, <1>2, TailInjective, HeadTailProperties
    <2>2. told[Head(todo[c])] = "untold"
      <3>1. Has(c, Head(todo[c])) /\ c # "told"
        BY <2>1 DEF Has, Spots
      <3> QED  BY <1>0, <2>1, <3>1, Alone
    <2> QED  BY <1>0, <1>2, <2>1, <2>2 DEF Tell
  <1>3. ASSUME NEW c \in Clients, Tell(c), todo[c] = <<>>
        PROVE  told'[j] = told[j]
    BY <1>3 DEF Tell
  <1>4. CASE Worker /\ ~Report
    BY <1>4 DEF Worker, Take, Sleep, Ask, StartChunk, EndChunk, AllSpoken, Check, PutBack,
       RestoreVoice, Leave, books
  <1>5. ASSUME NEW c \in Clients, Call(c) \/ SkipCut(c) \/ EngineStop(c)
        PROVE  told'[j] = told[j]
    <2>1. ASSUME NEW k \in Jobs, Submit(c, k)
          PROVE  told' = told
      BY <2>1 DEF Submit
    <2>2. ASSUME NEW m \in MsgIds, StopPlaying(c, m) \/ StopWaiting(c, m)
          PROVE  told' = told
      BY <2>2 DEF StopPlaying, StopWaiting
    <2>3. ASSUME \/ SkipHeld(c) \/ SkipPlaying(c) \/ SkipCut(c) \/ EngineStop(c)
                 \/ Clear(c) \/ Pause(c) \/ Unpause(c) \/ Shutdown(c)
          PROVE  told' = told
      BY <2>3 DEF SkipHeld, SkipPlaying, SkipCut, EngineStop, Clear, Pause, Unpause,
         Shutdown, books
    <2>4. ASSUME (\E on \in BOOLEAN : SetMute(c, on)) \/ (\E v \in Voices : ChooseVoice(c, v))
          PROVE  told' = told
      BY <2>4 DEF SetMute, ChooseVoice, books
    <2> QED  BY <1>5, <2>1, <2>2, <2>3, <2>4 DEF Call
  <1>6. CASE UNCHANGED vars
    BY <1>6 DEF vars, books
  <1> QED  BY <1>1, <1>2, <1>3, <1>4, <1>5, <1>6 DEF Next, Proceed

\* An outcome is told once: Job::finish consumes the job, and no other call or
\* thread has it (Speaker::run, skip, stop_message, clear).
THEOREM OutcomeToldOnce == Spec => ToldOnce
  <1>1. Shape /\ PlaceInv /\ [Next]_vars
            => [\A j \in Jobs : told[j] # "untold" => told'[j] = told[j]]_vars
    BY ToldStep
  <1> QED  BY <1>1, ShapeAlways, PlaceAlways, PTL DEF Spec, ToldOnce
-----------------------------------------------------------------------------
(* The order of the backlog.                                               *)

\* j was accepted before k.
Before(j, k) == \E i, n \in DOMAIN accepted : i < n /\ accepted[i] = j /\ accepted[n] = k

\* What is spoken or interrupted, unless it is urgent, was accepted before all
\* of the backlog, and while such a message is spoken nothing is interrupted.
OrderInv ==
    /\ IsInjective(accepted)
    /\ \A i, n \in DOMAIN normal : i < n => Before(normal[i], normal[n])
    /\ \A j \in {job, resume} \cap Jobs :
          ~Urgent(j) => \A n \in DOMAIN normal : Before(j, normal[n])
    /\ job \in Jobs /\ ~Urgent(job) => resume = None

\* t has some of the elements of s, in their order.
Thins(t, s) ==
    \A i, n \in DOMAIN t :
        i <= n => \E x, y \in DOMAIN s : x <= y /\ (i < n => x < y) /\ t[i] = s[x] /\ t[n] = s[y]

\* A step that takes messages away keeps the order of those it leaves.
LEMMA FewerInOrder ==
    ASSUME OrderInv, UNCHANGED accepted, job' \in {job, None}, resume' \in {resume, None},
           Thins(normal', normal), normal' \in Seq(Jobs), None \notin Jobs
    PROVE  OrderInv'
  <1>1. \A j, k : Before(j, k) => Before(j, k)'
    BY DEF Before
  <1>2. DOMAIN normal' \subseteq Nat
    BY LenProperties
  <1>3. \A i \in DOMAIN normal' : \E x \in DOMAIN normal : normal'[i] = normal[x]
    BY <1>2 DEF Thins
  <1>4. ASSUME NEW i \in DOMAIN normal', NEW n \in DOMAIN normal', i < n
        PROVE  Before(normal[i], normal[n])'
    <2>1. PICK x \in DOMAIN normal, y \in DOMAIN normal :
             x < y /\ normal'[i] = normal[x] /\ normal'[n] = normal[y]
      BY <1>2, <1>4 DEF Thins
    <2> QED  BY <1>1, <2>1 DEF OrderInv, Before
  <1>5. ASSUME NEW j \in {job', resume'} \cap Jobs, ~Urgent(j), NEW n \in DOMAIN normal'
        PROVE  Before(j, normal[n])'
    <2>1. j \in {job, resume} \cap Jobs
      BY <1>5
    <2> QED  BY <1>3, <1>5, <2>1 DEF OrderInv, Before
  <1>6. IsInjective(accepted')
    BY DEF OrderInv
  <1>7. job' \in Jobs /\ ~Urgent(job') => resume' = None
    BY DEF OrderInv
  <1> QED  BY <1>4, <1>5, <1>6, <1>7 DEF OrderInv, Urgent

LEMMA OrderStep ==
    ASSUME Shape, PlaceInv, UrgentOnly, OrderInv, [Next]_vars
    PROVE  OrderInv'
  <1> USE SpeakerAssumption
  <1>0. /\ job \in Jobs \cup {None} /\ resume \in Jobs \cup {None} /\ None \notin Jobs
        /\ normal \in Seq(Jobs) /\ accepted \in Seq(Jobs) /\ normal' \in Seq(Jobs)
    BY ShapeStep DEF Shape, TypeOK
  <1>1. DOMAIN normal = 1 .. Len(normal) /\ Len(normal) \in Nat
    BY <1>0, LenProperties
  <1>2. ASSUME UNCHANGED <<queue, job, accepted>>
        PROVE  OrderInv'
    BY <1>2 DEF OrderInv, Before, queue
  <1>3. CASE Take
    <2>1. PICK j \in Jobs : NextJob(j) /\ job' = j /\ UNCHANGED accepted
      BY <1>3 DEF Take, books
    <2>2. CASE urgent # <<>> /\ j = Head(urgent) /\ UNCHANGED <<resume, normal>>
      <3>1. Urgent(j)
        <4>1. urgent \in Seq(Jobs)
          BY DEF Shape, TypeOK
        <4> QED  BY <2>2, <4>1, HeadTailProperties, LenProperties DEF UrgentOnly
      <3> QED  BY <1>0, <2>1, <2>2, <3>1 DEF OrderInv, Before, Urgent
    <2>3. CASE resume # None /\ j = resume /\ resume' = None /\ UNCHANGED normal
      BY <1>0, <2>1, <2>3 DEF OrderInv, Before, Urgent
    <2>4. CASE resume = None /\ normal # <<>> /\ j = Head(normal) /\ normal' = Tail(normal) /\ UNCHANGED resume
      <3>1. /\ DOMAIN normal' = 1 .. Len(normal) - 1
            /\ \A i \in 1 .. Len(normal) - 1 : normal'[i] = normal[i + 1]
            /\ j = normal[1]
        BY <1>0, <2>4, HeadTailProperties, LenProperties
      <3>2. ASSUME NEW i \in DOMAIN normal', NEW n \in DOMAIN normal', i < n
            PROVE  Before(normal[i], normal[n])'
        <4>1. i + 1 \in DOMAIN normal /\ n + 1 \in DOMAIN normal /\ i + 1 < n + 1
          BY <1>1, <3>1, <3>2
        <4>2. Before(normal[i + 1], normal[n + 1])
          BY <4>1 DEF OrderInv
        <4>3. normal'[i] = normal[i + 1] /\ normal'[n] = normal[n + 1]
          BY <3>1, <3>2
        <4> QED  BY <2>1, <4>2, <4>3 DEF Before
      <3>3. ASSUME NEW n \in DOMAIN normal'
            PROVE  Before(j, normal[n])'
        <4>1. 1 \in DOMAIN normal /\ n + 1 \in DOMAIN normal /\ 1 < n + 1
          BY <1>1, <3>1
        <4>2. Before(normal[1], normal[n + 1])
          BY <4>1 DEF OrderInv
        <4>3. normal'[n] = normal[n + 1]
          BY <3>1
        <4> QED  BY <2>1, <3>1, <4>2, <4>3 DEF Before
      <3> QED  BY SMTT(30), <1>0, <2>1, <2>4, <3>2, <3>3 DEF OrderInv, Before, Urgent
    <2> QED  BY <2>1, <2>2, <2>3, <2>4 DEF NextJob
  <1>4. CASE PutBack
    BY <1>0, <1>4 DEF PutBack, OwesRest, OrderInv, Before, Urgent, books
  <1>5. ASSUME NEW c \in Clients, NEW j \in Jobs, Submit(c, j)
        PROVE  OrderInv'
    <2>1. /\ j \notin ToSet(accepted) /\ accepted' = Append(accepted, j)
          /\ UNCHANGED <<resume, job>>
      BY <1>5 DEF Submit, hand
    <2>2. /\ DOMAIN accepted = 1 .. Len(accepted) /\ Len(accepted) \in Nat
          /\ DOMAIN accepted' = 1 .. Len(accepted) + 1
          /\ \A i \in 1 .. Len(accepted) : accepted'[i] = accepted[i]
          /\ accepted'[Len(accepted) + 1] = j
      BY <1>0, <2>1, AppendProperties, LenProperties
    <2>3. IsInjective(accepted')
      BY <1>0, <2>1, AppendInjectiveSeq DEF OrderInv
    <2>4. \A k, l : Before(k, l) => Before(k, l)'
      BY <2>2 DEF Before
    <2>5. ASSUME NEW k \in Jobs, k \in ToSet(accepted)
          PROVE  Before(k, j)'
      <3>1. PICK i \in DOMAIN accepted : accepted[i] = k
        BY <1>0, <2>5, ToSetOf
      <3>2. i < Len(accepted) + 1 /\ i \in DOMAIN accepted' /\ Len(accepted) + 1 \in DOMAIN accepted'
        BY <2>2
      <3> QED  BY <2>2, <3>1, <3>2 DEF Before
    <2>6. CASE UNCHANGED normal
      BY <2>1, <2>3, <2>4, <2>6 DEF OrderInv
    <2>7. CASE normal' = Append(normal, j)
      <3>1. /\ DOMAIN normal' = 1 .. Len(normal) + 1
            /\ \A i \in 1 .. Len(normal) : normal'[i] = normal[i]
            /\ normal'[Len(normal) + 1] = j
        BY <1>0, <2>7, AppendProperties, LenProperties
      <3>2. \A i \in DOMAIN normal : normal[i] \in Jobs /\ normal[i] \in ToSet(accepted)
        <4>1. \A i \in DOMAIN normal : normal[i] \in Jobs /\ Has("normal", normal[i])
          BY <1>0, <1>1, ElementOfSeq, ToSetOf DEF Has
        <4> QED  BY <4>1 DEF PlaceInv, Known, Places, Spots
      <3>3. \A k \in {job, resume} \cap Jobs : k \in ToSet(accepted)
        BY DEF PlaceInv, Known, Places, Spots, Has
      <3>4. ASSUME NEW i \in DOMAIN normal', NEW n \in DOMAIN normal', i < n
            PROVE  Before(normal[i], normal[n])'
        <4>1. i \in DOMAIN normal /\ normal'[i] = normal[i]
          BY <1>1, <3>1, <3>4
        <4>2. CASE n = Len(normal) + 1
          <5>1. Before(normal[i], j)'
            BY <2>5, <3>2, <4>1
          <5> QED  BY <3>1, <4>1, <4>2, <5>1 DEF Before
        <4>3. CASE n # Len(normal) + 1
          <5>1. n \in DOMAIN normal /\ normal'[n] = normal[n]
            BY <1>1, <3>1, <4>3
          <5>2. Before(normal[i], normal[n])
            BY <3>4, <4>1, <5>1 DEF OrderInv
          <5> QED  BY <2>2, <4>1, <5>1, <5>2 DEF Before
        <4> QED  BY <4>2, <4>3
      <3>5. ASSUME NEW k \in {job', resume'} \cap Jobs, ~Urgent(k), NEW n \in DOMAIN normal'
            PROVE  Before(k, normal[n])'
        <4>1. k \in {job, resume} \cap Jobs
          BY <2>1, <3>5
        <4>2. CASE n = Len(normal) + 1
          <5>1. Before(k, j)'
            BY <2>5, <3>3, <4>1
          <5> QED  BY <3>1, <4>2, <5>1 DEF Before
        <4>3. CASE n # Len(normal) + 1
          <5>1. n \in DOMAIN normal /\ normal'[n] = normal[n]
            BY <1>1, <3>1, <4>3
          <5>2. Before(k, normal[n])
            BY <3>5, <4>1, <5>1 DEF OrderInv
          <5> QED  BY <2>2, <5>1, <5>2 DEF Before
        <4> QED  BY <4>2, <4>3
      <3> QED  BY <2>1, <2>3, <3>4, <3>5 DEF OrderInv, Urgent
    <2> QED  BY <1>5, <2>6, <2>7 DEF Submit
  <1>6. ASSUME NEW c \in Clients, NEW m \in MsgIds, StopWaiting(c, m)
        PROVE  OrderInv'
    <2>1. UNCHANGED <<job, accepted>> /\ resume' \in {resume, None}
      BY <1>6 DEF StopWaiting, hand
    <2>2. CASE UNCHANGED normal
      BY <1>0, <1>1, <2>1, <2>2, FewerInOrder DEF Thins
    <2>3. CASE \E i \in DOMAIN normal : normal' = RemoveAt(normal, i)
      <3>1. PICK i \in DOMAIN normal : normal' = RemoveAt(normal, i)
        BY <2>3
      <3>2. /\ DOMAIN normal' = 1 .. Len(normal) - 1
            /\ \A k \in 1 .. Len(normal) - 1 : normal'[k] = IF k < i THEN normal[k] ELSE normal[k + 1]
        <4>1. normal \in Seq(Jobs) /\ normal' \in Seq(Jobs)
          BY <1>0
        <4>2. PICK q : q = RemoveAt(normal, i)
          OBVIOUS
        <4>3. /\ Len(q) = Len(normal) - 1
              /\ \A k \in 1 .. Len(normal) - 1 : q[k] = IF k < i THEN normal[k] ELSE normal[k + 1]
          <5>1. /\ Len(RemoveAt(normal, i)) = Len(normal) - 1
                /\ \A k \in 1 .. Len(normal) - 1 :
                      RemoveAt(normal, i)[k] = IF k < i THEN normal[k] ELSE normal[k + 1]
            BY <4>1, RemoveAtFacts
          <5> QED  BY <4>2, <5>1
        <4>4. normal' = q
          BY <3>1, <4>2
        <4>5. DOMAIN normal' = 1 .. Len(normal')
          BY <4>1, LenProperties
        <4> QED  BY <4>3, <4>4, <4>5
      <3>3. Thins(normal', normal)
        <4> SUFFICES ASSUME NEW k \in DOMAIN normal', NEW n \in DOMAIN normal', k <= n
                     PROVE  \E x, y \in DOMAIN normal :
                                /\ x <= y /\ (k < n => x < y)
                                /\ normal'[k] = normal[x] /\ normal'[n] = normal[y]
          BY DEF Thins
        <4>1. PICK x : x = IF k < i THEN k ELSE k + 1
          OBVIOUS
        <4>2. PICK y : y = IF n < i THEN n ELSE n + 1
          OBVIOUS
        <4>3. x \in DOMAIN normal /\ y \in DOMAIN normal /\ x <= y /\ (k < n => x < y)
          BY <1>1, <3>1, <3>2, <4>1, <4>2
        <4> QED  BY <3>2, <4>1, <4>2, <4>3
      <3> QED  BY <1>0, <2>1, <3>3, FewerInOrder
    <2> QED  BY <1>6, <2>2, <2>3 DEF StopWaiting
  <1>7. ASSUME NEW c \in Clients, SkipHeld(c) \/ Clear(c)
        PROVE  OrderInv'
    <2>1. /\ UNCHANGED <<job, accepted>> /\ resume' = None
          /\ normal' = normal \/ normal' = <<>>
      BY <1>7 DEF SkipHeld, Clear, Drain, hand
    <2>2. Thins(normal', normal)
      <3>1. CASE normal' = normal
        BY <1>1, <3>1 DEF Thins
      <3>2. CASE normal' = <<>>
        <4>1. DOMAIN normal' = {}
          BY <3>2
        <4> QED  BY <4>1 DEF Thins
      <3> QED  BY <2>1, <3>1, <3>2
    <2> QED  BY <1>0, <2>1, <2>2, FewerInOrder
  <1>8. CASE Report
    <2>1. UNCHANGED <<normal, resume, accepted>> /\ job' = None
      BY <1>8 DEF Report, queue
    <2>2. Thins(normal', normal)
      BY <1>1, <2>1 DEF Thins
    <2> QED  BY <1>0, <2>1, <2>2, FewerInOrder
  <1>9. ASSUME NEW c \in Clients, NEW m \in MsgIds, StopPlaying(c, m)
        PROVE  OrderInv'
    BY <1>2, <1>9 DEF StopPlaying, hand
  <1>10. ASSUME NEW c \in Clients,
                \/ SkipPlaying(c) \/ SkipCut(c) \/ Tell(c) \/ EngineStop(c)
                \/ Pause(c) \/ Unpause(c) \/ Shutdown(c)
         PROVE  OrderInv'
    <2>1. UNCHANGED <<queue, job, accepted>>
      BY <1>10 DEF SkipPlaying, SkipCut, Tell, EngineStop, Pause, Unpause, Shutdown, hand, books
    <2> QED  BY <1>2, <2>1
  <1>11. ASSUME NEW c \in Clients,
                (\E on \in BOOLEAN : SetMute(c, on)) \/ (\E v \in Voices : ChooseVoice(c, v))
         PROVE  OrderInv'
    BY <1>2, <1>11 DEF SetMute, ChooseVoice, hand, books
  <1>12. CASE \/ Sleep \/ Ask \/ StartChunk \/ EndChunk \/ AllSpoken
              \/ Check \/ RestoreVoice \/ Leave \/ UNCHANGED vars
    <2>1. UNCHANGED <<queue, job, accepted>>
      BY <1>12 DEF Sleep, Ask, StartChunk, EndChunk, AllSpoken, Check, RestoreVoice, Leave,
         vars, hand, books
    <2> QED  BY <1>2, <2>1
  <1> QED  BY <1>3, <1>4, <1>5, <1>6, <1>7, <1>8, <1>9, <1>10, <1>11, <1>12
           DEF Next, Worker, Call, Proceed

\* The inductive form of it.
THEOREM OrderAlways == Spec => [](OrderInv /\ UrgentOnly)
  <1>1. Init => OrderInv /\ UrgentOnly /\ UrgentInterrupts
    <2> SUFFICES ASSUME Init PROVE OrderInv /\ UrgentOnly /\ UrgentInterrupts
      OBVIOUS
    <2>1. IsInjective(<<>>)
      BY DEF IsInjective
    <2> QED  BY <2>1, SpeakerAssumption DEF Init, OrderInv, UrgentOnly, UrgentInterrupts, Mid
  <1>2. Shape /\ PlaceInv /\ OrderInv /\ UrgentOnly /\ UrgentInterrupts /\ [Next]_vars
            => (OrderInv /\ UrgentOnly /\ UrgentInterrupts)'
    BY OrderStep, UrgentStep
  <1> QED  BY <1>1, <1>2, ShapeAlways, PlaceAlways, PTL DEF Spec

\* The backlog is spoken in the order it was accepted, with interruptions, stops
\* and clears in between (Inner::next: urgent, then resume, then normal).
THEOREM BacklogKeepsOrder == Spec => []BacklogInOrder
  <1>1. Shape /\ OrderInv /\ UrgentOnly => BacklogInOrder
    <2> SUFFICES ASSUME Shape, OrderInv, UrgentOnly,
                        NEW i \in DOMAIN accepted, NEW k \in DOMAIN accepted, i < k,
                        ~Urgent(accepted[i]), ~Urgent(accepted[k]), job = accepted[k],
                        accepted[i] \in Waiting
                 PROVE  FALSE
      BY DEF BacklogInOrder
    <2>1. /\ accepted \in Seq(Jobs) /\ urgent \in Seq(Jobs) /\ normal \in Seq(Jobs)
          /\ DOMAIN accepted \subseteq Nat
      BY LenProperties DEF Shape, TypeOK
    <2>2. accepted[i] \in Jobs /\ job \in Jobs
      BY <2>1, ElementOfSeq
    <2>3. accepted[i] \notin ToSet(urgent)
      BY <2>1, ToSetOf DEF UrgentOnly
    <2>4. resume = None
      BY <2>2 DEF OrderInv
    <2>5. PICK n \in DOMAIN normal : normal[n] = accepted[i]
      BY <2>1, <2>3, <2>4, ToSetOf DEF Waiting
    <2>6. PICK x \in DOMAIN accepted, y \in DOMAIN accepted :
             x < y /\ accepted[x] = job /\ accepted[y] = normal[n]
      BY <2>2 DEF OrderInv, Before
    <2>7. x = k /\ y = i
      BY <2>5, <2>6 DEF OrderInv, IsInjective
    <2> QED  BY <2>1, <2>6, <2>7
  <1> QED  BY <1>1, ShapeAlways, OrderAlways, PTL

-----------------------------------------------------------------------------
(* Nothing is lost.                                                        *)

\* A call that is not telling has nobody to tell, so that the next one forgets
\* nobody.
OwesOnlyTelling == \A c \in Clients : cpc[c] \notin {"tell", "tellAll"} => todo[c] = <<>>

LEMMA OwesStep ==
    ASSUME Shape, OwesOnlyTelling, [Next]_vars
    PROVE  OwesOnlyTelling'
  <1>0. /\ cpc \in [Clients -> {"idle", "skip", "stop", "tell", "tellAll"}]
        /\ todo \in [Clients -> Seq(Jobs)]
    BY DEF Shape, TypeOK
  <1>1. CASE Worker
    <2>1. UNCHANGED <<cpc, todo>>
      BY <1>1 DEF Worker, Take, Sleep, Ask, StartChunk, EndChunk, AllSpoken, Check, PutBack,
         RestoreVoice, Leave, Report
    <2> QED  BY <2>1 DEF OwesOnlyTelling
  <1>2. ASSUME NEW c \in Clients, NEW pc \in {"idle", "skip", "stop"},
               cpc[c] \notin {"tell", "tellAll"}, cpc' = [cpc EXCEPT ![c] = pc], todo' = todo
        PROVE  OwesOnlyTelling'
    BY <1>0, <1>2 DEF OwesOnlyTelling
  <1>3. ASSUME NEW c \in Clients, NEW j \in Jobs, Submit(c, j)
        PROVE  OwesOnlyTelling'
    <2>1. todo' = todo /\ (cpc' = cpc \/ (cpc' = [cpc EXCEPT ![c] = "stop"] /\ cpc[c] = "idle"))
      BY <1>3 DEF Submit, Goes
    <2> QED  BY <1>0, <2>1 DEF OwesOnlyTelling
  <1>4. ASSUME NEW c \in Clients, NEW m \in MsgIds, StopPlaying(c, m)
        PROVE  OwesOnlyTelling'
    BY <1>2, <1>4 DEF StopPlaying, Calls, Goes
  <1>5. ASSUME NEW c \in Clients, NEW q, NEW pc \in {"tell", "tellAll"},
               todo' = [todo EXCEPT ![c] = q], cpc' = [cpc EXCEPT ![c] = pc]
        PROVE  OwesOnlyTelling'
    BY <1>0, <1>5 DEF OwesOnlyTelling
  <1>6. ASSUME NEW c \in Clients, NEW m \in MsgIds, StopWaiting(c, m)
        PROVE  OwesOnlyTelling'
    BY <1>5, <1>6 DEF StopWaiting, Owes, Goes
  <1>7. ASSUME NEW c \in Clients, SkipHeld(c) \/ Clear(c)
        PROVE  OwesOnlyTelling'
    BY <1>5, <1>7 DEF SkipHeld, Clear, Owes, Goes
  <1>8. ASSUME NEW c \in Clients, SkipPlaying(c) \/ SkipCut(c) \/ Pause(c) \/ EngineStop(c)
        PROVE  OwesOnlyTelling'
    BY <1>2, <1>8 DEF SkipPlaying, SkipCut, Pause, EngineStop, Calls, Goes
  <1>9. ASSUME NEW c \in Clients,
               \/ Unpause(c) \/ Shutdown(c) \/ \E v \in Voices : ChooseVoice(c, v)
        PROVE  OwesOnlyTelling'
    BY <1>9 DEF Unpause, Shutdown, ChooseVoice, OwesOnlyTelling
  <1>10. ASSUME NEW c \in Clients, NEW on \in BOOLEAN, SetMute(c, on)
         PROVE  OwesOnlyTelling'
    BY <1>2, <1>10 DEF SetMute, Calls, Goes
  <1>11. ASSUME NEW c \in Clients, Tell(c)
         PROVE  OwesOnlyTelling'
    <2>1. CASE todo[c] # <<>>
      BY <1>0, <1>11, <2>1 DEF Tell, Owes, OwesOnlyTelling
    <2>2. CASE todo[c] = <<>>
      BY <1>0, <1>11, <2>2 DEF Tell, Goes, OwesOnlyTelling
    <2> QED  BY <2>1, <2>2
  <1>12. CASE UNCHANGED vars
    BY <1>12 DEF OwesOnlyTelling, vars
  <1> QED  BY <1>1, <1>3, <1>4, <1>6, <1>7, <1>8, <1>9, <1>10, <1>11, <1>12
           DEF Next, Call, Proceed

\* A step after which the jobs of M are at d, and every other job is where it was.
Leaves(M, d) ==
    /\ \A k \in M : Has(d, k)'
    /\ ToSet(accepted') \subseteq ToSet(accepted) \cup M
    /\ \A k \in Jobs \ M : \A p \in Places : Has(p, k) => Has(p, k)'

\* A message is in one of the places a job can be at.
Somewhere(k) == \E p \in Places : Has(p, k)

\* No message is lost in this step, but one in the resume slot for another, urgent
\* one that was interrupted in its turn.
LossIsOverwriting ==
    \A k \in ToSet(accepted') :
        \/ Somewhere(k)'
        \/ k \in ToSet(accepted) /\ ~Somewhere(k)
        \/ wpc = "putback" /\ Urgent(job) /\ resume = k

LEMMA LeavesNobodyOut ==
    ASSUME Shape, NEW M, NEW d \in Places, Leaves(M, d)
    PROVE  LossIsOverwriting
  <1>1. ToSet(accepted) \subseteq Jobs
    BY ToSetOf DEF Shape, TypeOK
  <1>2. ASSUME NEW k \in ToSet(accepted')
        PROVE  Somewhere(k)' \/ (k \in ToSet(accepted) /\ ~Somewhere(k))
    <2>1. CASE k \in M
      BY <2>1 DEF Leaves, Somewhere
    <2>2. CASE k \notin M
      BY <1>1, <1>2, <2>2 DEF Leaves, Somewhere
    <2> QED  BY <2>1, <2>2
  <1> QED  BY <1>2 DEF LossIsOverwriting

LEMMA LossStep ==
    ASSUME Shape, OrderInv, OwesOnlyTelling, [Next]_vars
    PROVE  LossIsOverwriting
  <1> USE SpeakerAssumption
  <1>0. /\ todo \in [Clients -> Seq(Jobs)]
        /\ cpc \in [Clients -> {"idle", "skip", "stop", "tell", "tellAll"}]
        /\ told \in [Jobs -> Outcomes \cup {"untold"}]
        /\ job \in Jobs \cup {None} /\ resume \in Jobs \cup {None} /\ None \notin Jobs
        /\ urgent \in Seq(Jobs) /\ normal \in Seq(Jobs) /\ accepted \in Seq(Jobs)
    BY DEF Shape, TypeOK
  <1>00. /\ {"urgent", "normal", "resume", "thread", "told"} \subseteq Places
         /\ Clients \subseteq Places /\ Places = Spots \cup Clients
    BY DEF Places, Spots
  <1>1. ASSUME UNCHANGED <<queue, job, told, todo, accepted>>
        PROVE  LossIsOverwriting
    BY <1>1 DEF LossIsOverwriting, Somewhere, Has, queue
  <1>2. CASE Take
    <2>1. PICK j \in Jobs : NextJob(j) /\ job' = j
      BY <1>2 DEF Take
    <2>2. UNCHANGED <<told, todo, accepted>> /\ job = None
      BY <1>2 DEF Take, books, Shape, Hand
    <2>3. /\ ToSet(urgent) \subseteq ToSet(urgent') \cup {j}
          /\ ToSet(normal) \subseteq ToSet(normal') \cup {j}
          /\ resume = resume' \/ resume = j
      BY <1>0, <2>1, TailSet DEF NextJob
    <2>4. Leaves({j}, "thread")
      BY <1>0, <2>1, <2>2, <2>3 DEF Leaves, Has
    <2> QED  BY <1>00, <2>4, LeavesNobodyOut
  <1>3. CASE PutBack
    <2>1. /\ job \in Jobs /\ resume' = job /\ wpc = "putback"
          /\ UNCHANGED <<urgent, normal, told, todo, accepted>>
      BY <1>0, <1>3 DEF PutBack, OwesRest, Shape, Hand, books
    <2>2. CASE resume = None
      <3>1. Leaves({job}, "resume")
        BY <1>0, <2>1, <2>2 DEF Leaves, Has
      <3> QED  BY <1>00, <3>1, LeavesNobodyOut
    <2>3. CASE resume # None
      <3>1. Urgent(job)
        BY <2>1, <2>3 DEF OrderInv
      <3>2. ASSUME NEW k \in Jobs, k = job
            PROVE  Has("resume", k)'
        BY <2>1, <3>2 DEF Has
      <3>3. ASSUME NEW k \in Jobs \ {job, resume}, NEW p \in Places, Has(p, k)
            PROVE  Has(p, k)'
        BY <2>1, <3>3 DEF Has
      <3>4. ToSet(accepted') = ToSet(accepted) /\ ToSet(accepted) \subseteq Jobs
        BY <1>0, <2>1, ToSetOf
      <3>5. ASSUME NEW k \in ToSet(accepted'), k # resume
            PROVE  Somewhere(k)' \/ (k \in ToSet(accepted) /\ ~Somewhere(k))
        <4>1. CASE k = job
          BY <1>00, <2>1, <3>2, <4>1 DEF Somewhere
        <4>2. CASE k # job
          BY <3>3, <3>4, <3>5, <4>2 DEF Somewhere
        <4> QED  BY <4>1, <4>2
      <3> QED  BY <2>1, <3>1, <3>5 DEF LossIsOverwriting
    <2> QED  BY <2>2, <2>3
  <1>4. CASE Report
    <2>1. /\ job \in Jobs /\ told' = [told EXCEPT ![job] = verdict]
          /\ verdict \in Outcomes /\ UNCHANGED <<urgent, normal, resume, todo, accepted>>
      BY <1>0, <1>4 DEF Report, Shape, TypeOK, Hand, queue
    <2>2. verdict # "untold"
      BY <2>1 DEF Outcomes
    <2>3. Leaves({job}, "told")
      BY <1>0, <2>1, <2>2 DEF Leaves, Has
    <2> QED  BY <1>00, <2>3, LeavesNobodyOut
  <1>5. ASSUME NEW c \in Clients, NEW j \in Jobs, Submit(c, j)
        PROVE  LossIsOverwriting
    <2>1. /\ ToSet(accepted') = ToSet(accepted) \cup {j}
          /\ UNCHANGED <<resume, job, told, todo>>
      BY <1>0, <1>5, AppendInjectiveSeq DEF Submit, hand
    <2>2. CASE Urgent(j)
      <3>1. urgent' = Append(urgent, j) /\ UNCHANGED normal
        BY <1>5, <2>2 DEF Submit
      <3>2. ToSet(urgent') = ToSet(urgent) \cup {j}
        BY <1>0, <3>1, AppendInjectiveSeq
      <3>3. Leaves({j}, "urgent")
        BY <2>1, <3>1, <3>2 DEF Leaves, Has
      <3> QED  BY <1>00, <3>3, LeavesNobodyOut
    <2>3. CASE ~Urgent(j)
      <3>1. normal' = Append(normal, j) /\ UNCHANGED urgent
        BY <1>5, <2>3 DEF Submit
      <3>2. ToSet(normal') = ToSet(normal) \cup {j}
        BY <1>0, <3>1, AppendInjectiveSeq
      <3>3. Leaves({j}, "normal")
        BY <2>1, <3>1, <3>2 DEF Leaves, Has
      <3> QED  BY <1>00, <3>3, LeavesNobodyOut
    <2> QED  BY <2>2, <2>3
  <1>6. ASSUME NEW c \in Clients, NEW q \in Seq(Jobs), cpc[c] = "idle",
               todo' = [todo EXCEPT ![c] = q], UNCHANGED <<job, told, accepted>>,
               ToSet(urgent) \subseteq ToSet(urgent') \cup ToSet(q),
               ToSet(normal) \subseteq ToSet(normal') \cup ToSet(q),
               resume \in {resume', None} \cup ToSet(q)
        PROVE  LossIsOverwriting
    <2>1. todo[c] = <<>> /\ todo'[c] = q
      BY <1>0, <1>6 DEF OwesOnlyTelling
    <2>2. ToSet(<<>>) = {}
      BY DEF ToSet
    <2>3. \A d \in Clients : ToSet(todo[d]) \subseteq ToSet(todo'[d])
      BY <1>0, <1>6, <2>1, <2>2
    <2>4. Leaves(ToSet(q), c)
      BY <1>0, <1>6, <2>1, <2>3 DEF Leaves, Has, Spots
    <2> QED  BY <1>00, <2>4, LeavesNobodyOut
  <1>7. ASSUME NEW j \in Jobs
        PROVE  <<j>> \in Seq(Jobs) /\ ToSet(<<j>>) = {j}
    BY DEF ToSet
  <1>8. ASSUME NEW c \in Clients, SkipHeld(c)
        PROVE  LossIsOverwriting
    <2>1. /\ resume \in Jobs /\ cpc[c] = "idle" /\ todo' = [todo EXCEPT ![c] = <<resume>>]
          /\ UNCHANGED <<urgent, normal, job, told, accepted>>
      BY <1>0, <1>8 DEF SkipHeld, Calls, Owes, hand
    <2> QED  BY <1>6, <1>7, <2>1
  <1>9. ASSUME NEW c \in Clients, NEW m \in MsgIds, StopWaiting(c, m)
        PROVE  LossIsOverwriting
    <2>1. cpc[c] = "idle" /\ UNCHANGED <<job, told, accepted>>
      BY <1>9 DEF StopWaiting, Calls, hand
    <2>2. PICK j \in Jobs :
             /\ todo' = [todo EXCEPT ![c] = <<j>>]
             /\ \/ /\ \E i \in DOMAIN urgent : j = urgent[i] /\ urgent' = RemoveAt(urgent, i)
                   /\ UNCHANGED <<resume, normal>>
                \/ j = resume /\ UNCHANGED <<urgent, normal>>
                \/ /\ \E i \in DOMAIN normal : j = normal[i] /\ normal' = RemoveAt(normal, i)
                   /\ UNCHANGED <<urgent, resume>>
      BY <1>9 DEF StopWaiting, Owes
    <2>3. /\ ToSet(urgent) \subseteq ToSet(urgent') \cup {j}
          /\ ToSet(normal) \subseteq ToSet(normal') \cup {j}
          /\ resume \in {resume', j}
      BY <1>0, <2>2, RemoveAtSet
    <2> QED  BY <1>6, <1>7, <2>1, <2>2, <2>3
  <1>10. ASSUME NEW c \in Clients, Clear(c)
         PROVE  LossIsOverwriting
    <2>1. PICK mid : mid = IF resume # None THEN <<resume>> ELSE <<>>
      OBVIOUS
    <2>2. PICK l : l = urgent \o mid
      OBVIOUS
    <2>3. /\ cpc[c] = "idle" /\ todo' = [todo EXCEPT ![c] = l \o normal]
          /\ UNCHANGED <<job, told, accepted>>
      BY <1>10, <2>1, <2>2 DEF Clear, Calls, Owes, hand
    <2>4. mid \in Seq(Jobs) /\ (resume = None \/ resume \in ToSet(mid))
      BY <1>0, <1>7, <2>1
    <2>5. l \in Seq(Jobs) /\ ToSet(l) = ToSet(urgent) \cup ToSet(mid)
      BY <1>0, <2>2, <2>4, ConcatSet, ConcatProperties
    <2>6. l \o normal \in Seq(Jobs) /\ ToSet(l \o normal) = ToSet(l) \cup ToSet(normal)
      BY <1>0, <2>5, ConcatSet, ConcatProperties
    <2> QED  BY <1>6, <2>3, <2>4, <2>5, <2>6
  <1>11. ASSUME NEW c \in Clients, Tell(c)
         PROVE  LossIsOverwriting
    <2>1. CASE todo[c] # <<>>
      <3>1. PICK j : j = Head(todo[c])
        OBVIOUS
      <3>2. j \in Jobs /\ ToSet(todo[c]) = ToSet(Tail(todo[c])) \cup {j}
        BY <1>0, <2>1, <3>1, TailSet, HeadTailProperties
      <3>3. /\ told' = [told EXCEPT ![j] = "cancelled"]
            /\ todo' = [todo EXCEPT ![c] = Tail(todo[c])]
            /\ UNCHANGED <<urgent, normal, resume, job, accepted>>
        BY <1>11, <2>1, <3>1 DEF Tell, Owes, queue, hand
      <3>4. \A d \in Clients : ToSet(todo[d]) \subseteq ToSet(todo'[d]) \cup {j}
        BY <1>0, <3>2, <3>3
      <3>5. Leaves({j}, "told")
        BY <1>0, <3>2, <3>3, <3>4 DEF Leaves, Has, Places, Spots
      <3> QED  BY <1>00, <3>5, LeavesNobodyOut
    <2>2. CASE todo[c] = <<>>
      BY <1>1, <1>11, <2>2 DEF Tell, hand
    <2> QED  BY <2>1, <2>2
  <1>12. ASSUME NEW c \in Clients, NEW m \in MsgIds, StopPlaying(c, m)
         PROVE  LossIsOverwriting
    BY <1>1, <1>12 DEF StopPlaying, hand
  <1>13. ASSUME NEW c \in Clients,
                \/ SkipPlaying(c) \/ SkipCut(c) \/ EngineStop(c)
                \/ Pause(c) \/ Unpause(c) \/ Shutdown(c)
         PROVE  LossIsOverwriting
    <2>1. UNCHANGED <<queue, job, told, todo, accepted>>
      BY <1>13 DEF SkipPlaying, SkipCut, EngineStop, Pause, Unpause, Shutdown, hand, books
    <2> QED  BY <1>1, <2>1
  <1>14. ASSUME NEW c \in Clients,
                (\E on \in BOOLEAN : SetMute(c, on)) \/ (\E v \in Voices : ChooseVoice(c, v))
         PROVE  LossIsOverwriting
    BY <1>1, <1>14 DEF SetMute, ChooseVoice, hand, books
  <1>15. CASE \/ Sleep \/ Ask \/ StartChunk \/ EndChunk \/ AllSpoken
              \/ Check \/ RestoreVoice \/ Leave \/ UNCHANGED vars
    <2>1. UNCHANGED <<queue, job, told, todo, accepted>>
      BY <1>15 DEF Sleep, Ask, StartChunk, EndChunk, AllSpoken, Check, RestoreVoice, Leave,
         vars, hand, books
    <2> QED  BY <1>1, <2>1
  <1> QED  BY <1>2, <1>3, <1>4, <1>5, <1>8, <1>9, <1>10, <1>11, <1>12, <1>13, <1>14, <1>15
           DEF Next, Worker, Call, Proceed

\* A message that was accepted is somewhere until its end is told, whatever calls,
\* pauses and urgent messages cross; it is lost in one way only, in which an urgent
\* message, interrupted itself, takes the resume slot from it (speak_job, run).
THEOREM LostOnlyInTheSlot == Spec => [][LossIsOverwriting]_vars
  <1>1. Init => OwesOnlyTelling
    BY DEF Init, OwesOnlyTelling
  <1>2. Shape /\ OwesOnlyTelling /\ [Next]_vars => OwesOnlyTelling'
    BY OwesStep
  <1>3. Shape /\ OrderInv /\ OwesOnlyTelling /\ [Next]_vars => LossIsOverwriting
    BY LossStep
  <1> QED  BY <1>1, <1>2, <1>3, ShapeAlways, OrderAlways, PTL DEF Spec

-----------------------------------------------------------------------------
(* The queue implements Messages.                                          *)

\* The thread stays within the chunks of its job, and is at the end of one
\* that it calls spoken.
ChunkInv ==
    /\ \A j \in Jobs : at[j] <= Chunks[j]
    /\ job # None => index <= Chunks[job]
    /\ wpc \in {"sounding", "killed", "check"} => index < Chunks[job]
    /\ verdict = "spoken" => index = Chunks[job]

LEMMA ChunkStep ==
    ASSUME Shape, ChunkInv, [Next]_vars
    PROVE  ChunkInv'
  <1> USE SpeakerAssumption
  <1>0. /\ at \in [Jobs -> Nat] /\ index \in Nat /\ job \in Jobs \cup {None}
        /\ Chunks \in [Jobs -> Nat] /\ None \notin Jobs
    BY DEF Shape, TypeOK
  <1>1. CASE Take
    <2>1. PICK j \in Jobs : job' = j /\ index' = at[j]
      BY <1>1 DEF Take
    <2>2. verdict = "none"
      BY <1>1 DEF Take, Shape, Hand
    <2> QED  BY <1>0, <1>1, <2>1, <2>2 DEF Take, ChunkInv
  <1>2. CASE Sleep \/ Ask \/ EndChunk \/ RestoreVoice
    BY <1>0, <1>2 DEF Sleep, Ask, EndChunk, RestoreVoice, ChunkInv, hand
  <1>3. CASE StartChunk \/ AllSpoken
    <2>1. job \in Jobs
      BY <1>0, <1>3 DEF StartChunk, AllSpoken, Shape, Hand, Mid
    <2> QED  BY <1>0, <1>3, <2>1 DEF StartChunk, AllSpoken, Finish, ChunkInv, Shape, Hand
  <1>4. CASE Check
    <2>1. job \in Jobs /\ index + 1 <= Chunks[job] /\ verdict # "spoken"
      BY <1>0, <1>4 DEF Check, Shape, Hand, Mid, ChunkInv
    <2> QED  BY <1>0, <1>4, <2>1 DEF Check, Finish, ChunkInv
  <1>5. CASE PutBack
    <2>1. job \in Jobs /\ index <= Chunks[job] /\ verdict # "spoken"
      BY <1>0, <1>5 DEF PutBack, Shape, Hand, ChunkInv
    <2>2. at' = [at EXCEPT ![job] = index] /\ job' = None /\ verdict' = verdict
      BY <1>5 DEF PutBack, OwesRest
    <2>3. wpc' \in {"restore", "leave"}
      BY <1>5 DEF PutBack, Finish
    <2> QED  BY <1>0, <2>1, <2>2, <2>3 DEF ChunkInv
  <1>6. CASE Leave \/ Report
    BY <1>0, <1>6 DEF Leave, Report, ChunkInv, hand
  <1>7. ASSUME NEW c \in Clients, Call(c) \/ Proceed(c)
        PROVE  ChunkInv'
    <2>1. UNCHANGED <<at, hand>>
      BY <1>7 DEF Call, Proceed, Submit, SkipHeld, SkipPlaying, StopPlaying, StopWaiting,
         Clear, Pause, Unpause, Shutdown, SetMute, ChooseVoice, SkipCut, Tell, EngineStop
    <2>2. wpc' = wpc \/ wpc' = "take" \/ (wpc = "sounding" /\ wpc' = "killed")
      BY <1>7 DEF Call, Proceed, Submit, SkipHeld, SkipPlaying, StopPlaying, StopWaiting,
         Clear, Pause, Unpause, Shutdown, SetMute, ChooseVoice, SkipCut, Tell, EngineStop,
         Notify
    <2> QED  BY <2>1, <2>2 DEF ChunkInv, hand
  <1>8. CASE UNCHANGED vars
    BY <1>8 DEF ChunkInv, vars, hand
  <1> QED  BY <1>1, <1>2, <1>3, <1>4, <1>5, <1>6, <1>7, <1>8 DEF Next, Worker

-----------------------------------------------------------------------------
(* What a step does to the phases. *)

Queued == ToSet(urgent) \cup ToSet(normal)
InTodo == {k \in Jobs : \E c \in Clients : k \in ToSet(todo[c])}

\* A job that is where it was is in the phase it was in.
LEMMA SamePhase ==
    ASSUME NEW k \in Jobs,
           told'[k] = "untold" <=> told[k] = "untold",
           k = job' <=> k = job,
           k = resume' <=> k = resume,
           k \in Queued' <=> k \in Queued,
           k \in InTodo' <=> k \in InTodo,
           k \in ToSet(accepted') <=> k \in ToSet(accepted)
    PROVE  PhaseOf(k)' = PhaseOf(k)
  BY DEF PhaseOf, Queued, InTodo

\* If one job changes its phase, that is a step of Phase.
LEMMA OneMoves ==
    ASSUME NEW j \in Jobs, NEW p, PhaseOf(j)' = p,
           \A k \in Jobs : k # j => PhaseOf(k)' = PhaseOf(k)
    PROVE  Phase' = [Phase EXCEPT ![j] = p]
  BY DEF Phase

\* The phase of a job that is in one place.
LEMMA PhaseAt ==
    ASSUME Shape, PlaceInv, NEW j \in Jobs
    PROVE  /\ j = job => PhaseOf(j) = "speaking" /\ told[j] = "untold"
           /\ j = resume => PhaseOf(j) = "interrupted" /\ told[j] = "untold" /\ j # job
           /\ j \in Queued => /\ PhaseOf(j) = "waiting" /\ told[j] = "untold"
                              /\ j # job /\ j # resume
           /\ j \in InTodo => /\ PhaseOf(j) = "abandoned" /\ told[j] = "untold"
                              /\ j # job /\ j # resume /\ j \notin Queued
           /\ j \notin ToSet(accepted) => /\ PhaseOf(j) = "new" /\ told[j] = "untold"
                                          /\ j # job /\ j # resume
                                          /\ j \notin Queued /\ j \notin InTodo
           /\ j \in Queued \cup InTodo \cup {job, resume} => j \in ToSet(accepted)
  <1> USE SpeakerAssumption
  <1>0. /\ {"urgent", "normal", "resume", "thread", "told"} \subseteq Places
        /\ Clients \subseteq Places
        /\ \A c \in Clients : c \notin {"urgent", "normal", "resume", "thread", "told"}
    BY DEF Places, Spots
  <1>1. ASSUME j = job
        PROVE  PhaseOf(j) = "speaking" /\ told[j] = "untold" /\ j \in ToSet(accepted)
    <2>1. Has("thread", j)
      BY <1>1 DEF Has
    <2>2. told[j] = "untold" /\ j \in ToSet(accepted)
      BY <1>0, <2>1, Alone
    <2> QED  BY <1>1, <2>2 DEF PhaseOf
  <1>2. ASSUME j = resume
        PROVE  /\ PhaseOf(j) = "interrupted" /\ told[j] = "untold" /\ j # job
               /\ j \in ToSet(accepted)
    <2>1. Has("resume", j)
      BY <1>2 DEF Has
    <2>2. told[j] = "untold" /\ j # job /\ j \in ToSet(accepted)
      BY <1>0, <2>1, Alone
    <2> QED  BY <1>2, <2>2 DEF PhaseOf
  <1>3. ASSUME j \in Queued
        PROVE  /\ PhaseOf(j) = "waiting" /\ told[j] = "untold"
               /\ j # job /\ j # resume /\ j \in ToSet(accepted)
    <2>1. Has("urgent", j) \/ Has("normal", j)
      BY <1>3 DEF Has, Queued
    <2>2. told[j] = "untold" /\ j # job /\ j # resume /\ j \in ToSet(accepted)
      BY <1>0, <2>1, Alone
    <2> QED  BY <1>3, <2>2 DEF PhaseOf, Queued
  <1>4. ASSUME j \in InTodo
        PROVE  /\ PhaseOf(j) = "abandoned" /\ told[j] = "untold"
               /\ j # job /\ j # resume /\ j \notin Queued /\ j \in ToSet(accepted)
    <2>1. PICK c \in Clients : j \in ToSet(todo[c])
      BY <1>4 DEF InTodo
    <2>2. Has(c, j)
      BY <2>1 DEF Has
    <2>3. /\ told[j] = "untold" /\ j # job /\ j # resume /\ j \notin Queued
          /\ j \in ToSet(accepted)
      BY <1>0, <2>2, Alone DEF Queued
    <2> QED  BY <2>1, <2>3 DEF PhaseOf, Queued
  <1>5. ASSUME j \notin ToSet(accepted)
        PROVE  /\ PhaseOf(j) = "new" /\ told[j] = "untold" /\ j # job /\ j # resume
               /\ j \notin Queued /\ j \notin InTodo
    <2>1. \A p \in Places : ~Has(p, j)
      BY <1>5 DEF PlaceInv, Known
    <2>2. ~Has("told", j)
      BY <1>0, <2>1
    <2>3. told[j] = "untold"
      BY <2>2 DEF Has
    <2>4. j # job /\ j # resume /\ j \notin Queued /\ j \notin InTodo
      BY <1>1, <1>2, <1>3, <1>4, <1>5
    <2> QED  BY <1>5, <2>3, <2>4 DEF PhaseOf, Queued, InTodo
  <1> QED  BY <1>1, <1>2, <1>3, <1>4, <1>5

-----------------------------------------------------------------------------
(* Each step is one of Messages, or none. *)

Sound == Shape /\ PlaceInv /\ ChunkInv /\ CutInv /\ OwesOnlyTelling

LEMMA TakeBegins ==
    ASSUME Sound, Take
    PROVE  Abstract!Next
  <1> USE SpeakerAssumption
  <1>1. PICK j \in Jobs : NextJob(j) /\ job' = j /\ index' = at[j]
    BY DEF Take
  <1>2. /\ job = None /\ job' # None /\ None \notin Jobs
        /\ UNCHANGED <<at, told, todo, accepted, doomed>>
    BY <1>1 DEF Take, Sound, Shape, Hand, books
  <1>3. /\ urgent \in Seq(Jobs) /\ normal \in Seq(Jobs)
        /\ IsInjective(urgent) /\ IsInjective(normal)
    BY DEF Sound, Shape, TypeOK, PlaceInv, OnePlace
  <1>4. j \in Queued \/ j = resume
    <2>1. urgent # <<>> => Head(urgent) \in ToSet(urgent)
      BY <1>3, TailInjective
    <2>2. normal # <<>> => Head(normal) \in ToSet(normal)
      BY <1>3, TailInjective
    <2> QED  BY <1>1, <2>1, <2>2 DEF NextJob, Queued
  <1>5. \A k \in Jobs : k # j => (k \in Queued' <=> k \in Queued) /\ (k = resume' <=> k = resume)
    <2>1. CASE urgent # <<>> /\ j = Head(urgent) /\ urgent' = Tail(urgent) /\ UNCHANGED <<resume, normal>>
      <3>1. ToSet(urgent) = ToSet(urgent') \cup {j}
        BY <1>3, <2>1, TailSet
      <3> QED  BY <2>1, <3>1 DEF Queued
    <2>2. CASE j = resume /\ resume' = None /\ UNCHANGED <<urgent, normal>>
      BY <1>2, <2>2 DEF Queued
    <2>3. CASE normal # <<>> /\ j = Head(normal) /\ normal' = Tail(normal) /\ UNCHANGED <<urgent, resume>>
      <3>1. ToSet(normal) = ToSet(normal') \cup {j}
        BY <1>3, <2>3, TailSet
      <3> QED  BY <2>3, <3>1 DEF Queued
    <2> QED  BY <1>1, <2>1, <2>2, <2>3 DEF NextJob
  <1>6. /\ told[j] = "untold"
        /\ PhaseOf(j) \in {"waiting", "interrupted"}
    BY <1>4, PhaseAt DEF Sound
  <1>7. PhaseOf(j)' = "speaking"
    BY <1>1, <1>2, <1>6 DEF PhaseOf
  <1>8. ASSUME NEW k \in Jobs, k # j
        PROVE  PhaseOf(k)' = PhaseOf(k)
    BY <1>1, <1>2, <1>5, <1>8, SamePhase DEF InTodo
  <1>9. Phase' = [Phase EXCEPT ![j] = "speaking"] /\ Phase[j] \in {"waiting", "interrupted"}
    BY <1>6, <1>7, <1>8, OneMoves DEF Phase
  <1>10. Abstract!In("speaking") = {}
    <2>1. \A k \in Jobs : PhaseOf(k) # "speaking"
      BY <1>2 DEF PhaseOf
    <2> QED  BY <2>1 DEF Abstract!In, Phase
  <1>11. Left' = Left
    <2>1. \A k \in Jobs : LeftOf(k)' = LeftOf(k)
      BY <1>1, <1>2 DEF LeftOf
    <2> QED  BY <2>1 DEF Left
  <1>12. AimedAt' = AimedAt
    BY <1>2 DEF AimedAt
  <1>13. Abstract!Begin(j)
    BY <1>2, <1>9, <1>10, <1>11, <1>12 DEF Abstract!Begin
  <1> QED  BY <1>13 DEF Abstract!Next

LEMMA PutBackInterrupts ==
    ASSUME Sound, PutBack
    PROVE  Abstract!Next
  <1> USE SpeakerAssumption
  <1>0. PICK j \in Jobs : j = job
    BY DEF PutBack, Sound, Shape, Hand, TypeOK
  <1>1. None \notin Jobs /\ at \in [Jobs -> Nat]
    BY DEF Sound, Shape, TypeOK
  <1>2. /\ resume' = j /\ job' = None /\ at' = [at EXCEPT ![j] = index]
        /\ UNCHANGED <<urgent, normal, todo, accepted, told, doomed>>
    BY <1>0 DEF PutBack, OwesRest, books
  <1>3. PhaseOf(j) = "speaking" /\ told[j] = "untold"
    BY <1>0, PhaseAt DEF Sound
  <1>4. PhaseOf(j)' = "interrupted"
    BY <1>1, <1>2, <1>3 DEF PhaseOf
  <1>5. ASSUME NEW k \in Jobs, k # j
        PROVE  PhaseOf(k)' = IF PhaseOf(k) = "interrupted" THEN "lost" ELSE PhaseOf(k)
    <2>1. CASE k = resume
      <3>1. /\ PhaseOf(k) = "interrupted" /\ told[k] = "untold"
            /\ k \notin Queued /\ k \notin InTodo /\ k \in ToSet(accepted)
        BY <2>1, PhaseAt DEF Sound
      <3>2. PhaseOf(k)' = "lost"
        BY <1>1, <1>2, <1>5, <3>1 DEF PhaseOf, Queued, InTodo
      <3> QED  BY <3>1, <3>2
    <2>2. CASE k # resume
      <3>1. PhaseOf(k)' = PhaseOf(k)
        BY <1>0, <1>1, <1>2, <1>5, <2>2, SamePhase DEF Queued, InTodo
      <3>2. PhaseOf(k) # "interrupted"
        BY <2>2 DEF PhaseOf
      <3> QED  BY <3>1, <3>2
    <2> QED  BY <2>1, <2>2
  <1>6. Phase' = [k \in Jobs |-> IF k = j THEN "interrupted"
                                 ELSE IF Phase[k] = "interrupted" THEN "lost"
                                 ELSE Phase[k]]
    BY <1>4, <1>5 DEF Phase
  <1>7. Left' = Left
    <2>1. \A k \in Jobs : LeftOf(k)' = LeftOf(k)
      BY <1>0, <1>1, <1>2 DEF LeftOf
    <2> QED  BY <2>1 DEF Left
  <1>8. AimedAt' = AimedAt
    BY <1>2 DEF AimedAt
  <1>9. Phase[j] = "speaking"
    BY <1>3 DEF Phase
  <1>10. Abstract!Interrupt(j)
    BY <1>2, <1>6, <1>7, <1>8, <1>9 DEF Abstract!Interrupt
  <1> QED  BY <1>10 DEF Abstract!Next

\* A job is told its end, and nothing happens to the others.
LEMMA EndOf ==
    ASSUME NEW j \in Jobs, NEW o, o # "untold", told \in [Jobs -> Outcomes \cup {"untold"}],
           told' = [told EXCEPT ![j] = o], UNCHANGED doomed,
           \A k \in Jobs : k # j => PhaseOf(k)' = PhaseOf(k) /\ LeftOf(k)' = LeftOf(k)
    PROVE  Abstract!Ends(j, o)
  <1>1. PhaseOf(j)' = "ended" /\ LeftOf(j)' = 0
    BY DEF PhaseOf, LeftOf
  <1>2. Phase' = [Phase EXCEPT ![j] = "ended"]
    BY <1>1, OneMoves
  <1>3. Left' = [Left EXCEPT ![j] = 0]
    BY <1>1 DEF Left
  <1>4. AimedAt' = AimedAt
    BY DEF AimedAt
  <1> QED  BY <1>2, <1>3, <1>4 DEF Abstract!Ends

LEMMA ReportEnds ==
    ASSUME Sound, Report
    PROVE  Abstract!Next
  <1> USE SpeakerAssumption
  <1>0. PICK j \in Jobs, o \in Outcomes : j = job /\ o = verdict
    BY DEF Report, Sound, Shape, Hand, TypeOK
  <1>1. None \notin Jobs /\ told \in [Jobs -> Outcomes \cup {"untold"}]
    BY DEF Sound, Shape, TypeOK
  <1>2. /\ told' = [told EXCEPT ![j] = o] /\ job' = None
        /\ UNCHANGED <<urgent, resume, normal, at, todo, accepted, doomed>>
    BY <1>0 DEF Report, queue
  <1>3. PhaseOf(j) = "speaking" /\ told[j] = "untold"
    BY <1>0, PhaseAt DEF Sound
  <1>4. ASSUME NEW k \in Jobs, k # j
        PROVE  PhaseOf(k)' = PhaseOf(k) /\ LeftOf(k)' = LeftOf(k)
    <2>1. PhaseOf(k)' = PhaseOf(k)
      BY <1>0, <1>1, <1>2, <1>4, SamePhase DEF Queued, InTodo
    <2>2. LeftOf(k)' = LeftOf(k)
      BY <1>0, <1>1, <1>2, <1>4 DEF LeftOf
    <2> QED  BY <2>1, <2>2
  <1>5. o # "untold"
    BY <1>0 DEF Outcomes
  <1>6. Abstract!Ends(j, o)
    BY <1>1, <1>2, <1>4, <1>5, EndOf
  <1>7. o = "spoken" => Left[j] = 0
    <2>1. o = "spoken" => LeftOf(j) = Chunks[j] - Chunks[j]
      BY <1>0, <1>3 DEF Sound, ChunkInv, LeftOf
    <2> QED  BY <2>1 DEF Left
  <1>8. o = "cancelled" => j \in AimedAt
    BY <1>0 DEF Sound, CutInv, NoStrayCut, AimedAt
  <1>9. Phase[j] = "speaking"
    BY <1>3 DEF Phase
  <1>10. Abstract!End(j)
    BY <1>0, <1>6, <1>7, <1>8, <1>9 DEF Abstract!End, Outcomes
  <1> QED  BY <1>10 DEF Abstract!Next

LEMMA TellEnds ==
    ASSUME Sound, NEW c \in Clients, Tell(c)
    PROVE  Abstract!Next \/ UNCHANGED Abstract!vars
  <1> USE SpeakerAssumption
  <1>1. CASE todo[c] = <<>>
    <2>1. UNCHANGED <<queue, job, index, at, told, todo, accepted, doomed>>
      BY <1>1 DEF Tell, hand
    <2> QED  BY <2>1 DEF Abstract!vars, Phase, PhaseOf, Left, LeftOf, AimedAt, queue
  <1>2. CASE todo[c] # <<>>
    <2>1. PICK j : j = Head(todo[c])
      OBVIOUS
    <2>2. /\ told' = [told EXCEPT ![j] = "cancelled"]
          /\ todo' = [todo EXCEPT ![c] = Tail(todo[c])]
          /\ UNCHANGED <<urgent, normal, resume, job, at, index, accepted, doomed>>
      BY <1>2, <2>1 DEF Tell, Owes, queue, hand
    <2>3. /\ todo \in [Clients -> Seq(Jobs)] /\ told \in [Jobs -> Outcomes \cup {"untold"}]
      BY DEF Sound, Shape, TypeOK
    <2>4. ToSet(todo[c]) = ToSet(Tail(todo[c])) \cup {j}
      BY <1>2, <2>1, <2>3, TailSet
    <2>5. j \in Jobs /\ j \in ToSet(todo[c])
      BY <2>3, <2>4, ToSetOf
    <2>6. j \in InTodo
      BY <2>5 DEF InTodo
    <2>7. PhaseOf(j) = "abandoned" /\ j # job
      BY <2>5, <2>6, PhaseAt DEF Sound
    <2>8. ASSUME NEW k \in Jobs, k # j
          PROVE  PhaseOf(k)' = PhaseOf(k) /\ LeftOf(k)' = LeftOf(k)
      <3>1. \A d \in Clients : k \in ToSet(todo'[d]) <=> k \in ToSet(todo[d])
        BY <2>2, <2>3, <2>4, <2>8
      <3>2. told'[k] = told[k]
        BY <2>2, <2>3, <2>8
      <3>3. PhaseOf(k)' = PhaseOf(k)
        BY <2>2, <3>1, <3>2, SamePhase DEF Queued, InTodo
      <3>4. LeftOf(k)' = LeftOf(k)
        BY <2>2, <3>2 DEF LeftOf
      <3> QED  BY <3>3, <3>4
    <2>13. Abstract!Ends(j, "cancelled")
      BY <2>2, <2>3, <2>5, <2>8, EndOf
    <2>14. Phase[j] = "abandoned"
      BY <2>5, <2>7 DEF Phase
    <2>15. Abstract!Tell(j)
      BY <2>13, <2>14 DEF Abstract!Tell
    <2> QED  BY <2>5, <2>15 DEF Abstract!Next
  <1> QED  BY <1>1, <1>2

LEMMA SubmitAccepts ==
    ASSUME Sound, NEW c \in Clients, NEW j \in Jobs, Submit(c, j)
    PROVE  Abstract!Next
  <1>1. /\ j \notin ToSet(accepted)
        /\ UNCHANGED <<resume, job, index, at, told, todo, doomed>>
    BY DEF Submit, hand
  <1>2. /\ ToSet(accepted') = ToSet(accepted) \cup {j}
        /\ Queued' = Queued \cup {j}
    <2>1. urgent \in Seq(Jobs) /\ normal \in Seq(Jobs) /\ accepted \in Seq(Jobs)
      BY DEF Sound, Shape, TypeOK
    <2>2. /\ ToSet(Append(urgent, j)) = ToSet(urgent) \cup {j}
          /\ ToSet(Append(normal, j)) = ToSet(normal) \cup {j}
          /\ ToSet(Append(accepted, j)) = ToSet(accepted) \cup {j}
      BY <2>1, AppendInjectiveSeq
    <2> QED  BY <2>2 DEF Submit, Queued
  <1>3. /\ PhaseOf(j) = "new" /\ told[j] = "untold"
        /\ j # job /\ j # resume
    BY <1>1, PhaseAt DEF Sound
  <1>4. PhaseOf(j)' = "waiting"
    BY <1>1, <1>2, <1>3 DEF PhaseOf, Queued
  <1>5. ASSUME NEW k \in Jobs, k # j
        PROVE  PhaseOf(k)' = PhaseOf(k)
    BY <1>1, <1>2, <1>5, SamePhase DEF InTodo
  <1>6. Phase' = [Phase EXCEPT ![j] = "waiting"] /\ Phase[j] = "new"
    BY <1>3, <1>4, <1>5, OneMoves DEF Phase
  <1>7. Left' = Left /\ AimedAt' = AimedAt
    BY <1>1 DEF Left, LeftOf, AimedAt
  <1>8. Abstract!Accept(j)
    BY <1>1, <1>6, <1>7 DEF Abstract!Accept
  <1> QED  BY <1>8 DEF Abstract!Next

LEMMA CheckSays ==
    ASSUME Sound, Check
    PROVE  Abstract!Next \/ UNCHANGED Abstract!vars
  <1> USE SpeakerAssumption
  <1>0. PICK j \in Jobs : j = job
    BY DEF Check, Sound, Shape, Hand, Mid, TypeOK
  <1>1. UNCHANGED <<queue, job, at, told, todo, accepted, doomed>>
    BY DEF Check
  <1>2. Phase' = Phase /\ AimedAt' = AimedAt
    BY <1>1 DEF Phase, PhaseOf, AimedAt, queue
  <1>3. CASE index' = index
    <2>1. Left' = Left
      BY <1>1, <1>3 DEF Left, LeftOf
    <2> QED  BY <1>1, <1>2, <2>1 DEF Abstract!vars
  <1>4. CASE index' = index + 1
    <2>1. PhaseOf(j) = "speaking" /\ told[j] = "untold"
      BY <1>0, PhaseAt DEF Sound
    <2>2. index < Chunks[j] /\ index \in Nat /\ Chunks[j] \in Nat
      BY <1>0 DEF Check, Sound, ChunkInv, Shape, TypeOK
    <2>3. LeftOf(j) = Chunks[j] - index /\ LeftOf(j)' = Chunks[j] - (index + 1)
      BY <1>0, <1>1, <1>4, <2>1 DEF LeftOf
    <2>4. LeftOf(j) > 0 /\ LeftOf(j)' = LeftOf(j) - 1
      BY <2>2, <2>3
    <2>5. \A k \in Jobs : k # j => LeftOf(k)' = LeftOf(k)
      BY <1>0, <1>1 DEF LeftOf
    <2>6. Left' = [Left EXCEPT ![j] = @ - 1] /\ Left[j] > 0 /\ Phase[j] = "speaking"
      BY <2>1, <2>4, <2>5 DEF Left, Phase
    <2>7. Abstract!Say(j)
      BY <1>1, <1>2, <2>6 DEF Abstract!Say
    <2> QED  BY <2>7 DEF Abstract!Next
  <1> QED  BY <1>3, <1>4 DEF Check

\* A call aims at what is spoken or interrupted.
LEMMA AimedPhase ==
    ASSUME Sound
    PROVE  /\ Aimed \subseteq Jobs
           /\ Aimed \subseteq Abstract!In("speaking") \cup Abstract!In("interrupted")
  <1> USE SpeakerAssumption
  <1>1. Aimed \subseteq {job, resume} /\ Aimed \subseteq Jobs
    BY DEF Aimed, Sound, Shape, TypeOK
  <1>2. \A k \in Aimed : PhaseOf(k) \in {"speaking", "interrupted"}
    BY <1>1, PhaseAt DEF Sound
  <1> QED  BY <1>1, <1>2 DEF Abstract!In, Phase

\* A call that abandons the jobs M, which wait, and aims at T.
LEMMA CallAims ==
    ASSUME Sound, NEW M \in SUBSET Jobs, NEW T \in SUBSET Jobs,
           NEW kind \in {"skip", "stop", "clear"}, Doom(M \cup T, kind),
           T \subseteq Abstract!In("speaking") \cup Abstract!In("interrupted"),
           M \subseteq Waiting,
           UNCHANGED <<job, index, at, told, accepted>>,
           \A k \in Jobs : k = resume' <=> k = resume /\ k \notin M,
           Queued' = Queued \ M,
           \A k \in Jobs : k \in InTodo' <=> k \in InTodo \/ k \in M
    PROVE  Abstract!Next
  <1> USE SpeakerAssumption
  <1>1. \A k \in M : k \in Queued \/ k = resume
    BY DEF Waiting, Queued
  <1>2. \A k \in M : PhaseOf(k) \in {"waiting", "interrupted"} /\ told[k] = "untold" /\ k # job
    BY <1>1, PhaseAt DEF Sound
  <1>3. ASSUME NEW k \in M
        PROVE  PhaseOf(k)' = "abandoned"
    <2>1. told[k] = "untold" /\ k # job
      BY <1>2
    <2>2. k # resume' /\ k \notin Queued' /\ k \in InTodo'
      OBVIOUS
    <2> QED  BY <2>1, <2>2 DEF PhaseOf, Queued, InTodo
  <1>4. \A k \in Jobs : k \notin M => PhaseOf(k)' = PhaseOf(k)
    BY SamePhase
  <1>5. Phase' = [k \in Jobs |-> IF k \in M THEN "abandoned" ELSE Phase[k]]
    BY <1>3, <1>4 DEF Phase
  <1>6. M \subseteq Abstract!In("waiting") \cup Abstract!In("interrupted")
    BY <1>2 DEF Abstract!In, Phase
  <1>7. AimedAt' = AimedAt \cup M \cup T
    BY DEF AimedAt, Doom
  <1>8. Left' = Left
    BY DEF Left, LeftOf
  <1>9. Abstract!Aim(M, T)
    BY <1>5, <1>6, <1>7, <1>8 DEF Abstract!Aim
  <1> QED  BY <1>9 DEF Abstract!Next

\* A call that has nobody to tell yet takes on the jobs of q.
LEMMA TakesOn ==
    ASSUME Sound, NEW c \in Clients, cpc[c] = "idle", NEW q, NEW M \in SUBSET Jobs, ToSet(q) = M,
           todo' = [todo EXCEPT ![c] = q]
    PROVE  \A k \in Jobs : k \in InTodo' <=> k \in InTodo \/ k \in M
  <1>0. ToSet(<<>>) = {}
    BY DEF ToSet
  <1>1. todo \in [Clients -> Seq(Jobs)] /\ todo[c] = <<>>
    BY DEF Sound, Shape, TypeOK, OwesOnlyTelling
  <1>2. ToSet(todo[c]) = {} /\ ToSet(todo'[c]) = M
    BY <1>0, <1>1
  <1>3. \A d \in Clients : d # c => todo'[d] = todo[d]
    BY <1>1
  <1> QED  BY <1>2, <1>3 DEF InTodo

LEMMA SkipAims ==
    ASSUME Sound, NEW c \in Clients, SkipHeld(c)
    PROVE  Abstract!Next
  <1> USE SpeakerAssumption
  <1>1. PICK j \in Jobs : j = resume
    BY DEF SkipHeld, Sound, Shape, TypeOK
  <1>2. /\ resume' = None /\ todo' = [todo EXCEPT ![c] = <<j>>] /\ Doom({j}, "skip")
        /\ UNCHANGED <<urgent, normal, job, index, at, told, accepted>>
        /\ cpc[c] = "idle" /\ None \notin Jobs
    BY <1>1 DEF SkipHeld, Owes, hand, Calls
  <1>3. PICK M \in SUBSET Jobs, T \in SUBSET Jobs : M = {j} /\ T = {}
    OBVIOUS
  <1>4. Doom(M \cup T, "skip") /\ M \subseteq Waiting
    BY <1>1, <1>2, <1>3 DEF Waiting
  <1>5. \A k \in Jobs : k \in InTodo' <=> k \in InTodo \/ k \in M
    <2>1. ToSet(<<j>>) = M
      BY <1>3 DEF ToSet
    <2> QED  BY <1>2, <2>1, TakesOn
  <1>6. j \notin Queued
    <2>1. j \in Queued => j # resume
      BY PhaseAt DEF Sound
    <2> QED  BY <1>1, <2>1
  <1>7. Queued' = Queued \ M
    BY <1>2, <1>3, <1>6 DEF Queued
  <1>8. \A k \in Jobs : k = resume' <=> k = resume /\ k \notin M
    BY <1>1, <1>2, <1>3
  <1> QED  BY <1>2, <1>3, <1>4, <1>5, <1>7, <1>8, CallAims

LEMMA StopAims ==
    ASSUME Sound, NEW c \in Clients, NEW m \in MsgIds, StopWaiting(c, m)
    PROVE  Abstract!Next
  <1> USE SpeakerAssumption
  <1>1. /\ urgent \in Seq(Jobs) /\ normal \in Seq(Jobs) /\ None \notin Jobs
        /\ IsInjective(urgent) /\ IsInjective(normal)
        /\ resume \in Jobs \cup {None}
    BY DEF Sound, Shape, TypeOK, PlaceInv, OnePlace
  <1>2. PICK j \in Jobs :
            /\ todo' = [todo EXCEPT ![c] = <<j>>] /\ Doom({j}, "stop")
            /\ \/ /\ \E i \in DOMAIN urgent : j = urgent[i] /\ urgent' = RemoveAt(urgent, i)
                  /\ UNCHANGED <<resume, normal>>
               \/ j = resume /\ resume' = None /\ UNCHANGED <<urgent, normal>>
               \/ /\ \E i \in DOMAIN normal : j = normal[i] /\ normal' = RemoveAt(normal, i)
                  /\ UNCHANGED <<urgent, resume>>
    BY DEF StopWaiting, Owes, FirstAt
  <1>3. cpc[c] = "idle" /\ UNCHANGED <<job, index, at, told, accepted>>
    BY DEF StopWaiting, Calls, hand
  <1>4. PICK M \in SUBSET Jobs, T \in SUBSET Jobs : M = {j} /\ T = {}
    OBVIOUS
  <1>5. \A k \in Jobs : k \in InTodo' <=> k \in InTodo \/ k \in M
    <2>1. ToSet(<<j>>) = M
      BY <1>4 DEF ToSet
    <2> QED  BY <1>2, <1>3, <2>1, TakesOn
  <1>6. /\ ~(j \in ToSet(urgent) /\ j \in ToSet(normal))
        /\ ~(j = resume /\ j \in Queued)
    <2>1. j \in ToSet(urgent) => Has("urgent", j)
      BY DEF Has
    <2>2. {"urgent"} \subseteq Places
      BY DEF Places, Spots
    <2>3. j \in ToSet(urgent) => j \notin ToSet(normal)
      BY <2>1, <2>2, Alone DEF Sound
    <2>4. j \in Queued => j # resume
      BY PhaseAt DEF Sound
    <2> QED  BY <2>3, <2>4
  <1>7. /\ j \in Queued \/ j = resume
        /\ Queued' = Queued \ {j}
        /\ \A k \in Jobs : k = resume' <=> k = resume /\ k # j
    <2>1. ASSUME NEW i \in DOMAIN urgent, j = urgent[i], urgent' = RemoveAt(urgent, i),
                 UNCHANGED <<resume, normal>>
          PROVE  <1>7!:
      <3>1. ToSet(urgent) = ToSet(urgent') \cup {j} /\ j \notin ToSet(urgent')
        BY <1>1, <2>1, RemoveAtSet, RemoveAtInjective
      <3> QED  BY <1>6, <2>1, <3>1 DEF Queued
    <2>2. CASE j = resume /\ resume' = None /\ UNCHANGED <<urgent, normal>>
      BY <1>1, <1>6, <2>2 DEF Queued
    <2>3. ASSUME NEW i \in DOMAIN normal, j = normal[i], normal' = RemoveAt(normal, i),
                 UNCHANGED <<urgent, resume>>
          PROVE  <1>7!:
      <3>1. ToSet(normal) = ToSet(normal') \cup {j} /\ j \notin ToSet(normal')
        BY <1>1, <2>3, RemoveAtSet, RemoveAtInjective
      <3> QED  BY <1>6, <2>3, <3>1 DEF Queued
    <2> QED  BY <1>2, <2>1, <2>2, <2>3
  <1>8. M \subseteq Waiting /\ Doom(M \cup T, "stop")
    BY <1>2, <1>4, <1>7 DEF Waiting, Queued
  <1>9. Queued' = Queued \ M /\ \A k \in Jobs : k = resume' <=> k = resume /\ k \notin M
    BY <1>4, <1>7
  <1> QED  BY <1>3, <1>4, <1>5, <1>8, <1>9, CallAims

LEMMA ClearAims ==
    ASSUME Sound, NEW c \in Clients, Clear(c)
    PROVE  Abstract!Next
  <1> USE SpeakerAssumption
  <1>1. /\ urgent \in Seq(Jobs) /\ normal \in Seq(Jobs) /\ resume \in Jobs \cup {None}
        /\ None \notin Jobs
    BY DEF Sound, Shape, TypeOK
  <1>2. PICK mid : mid = IF resume # None THEN <<resume>> ELSE <<>>
    OBVIOUS
  <1>3. /\ urgent' = <<>> /\ resume' = None /\ normal' = <<>>
        /\ todo' = [todo EXCEPT ![c] = urgent \o mid \o normal]
        /\ Doom(Waiting \cup Aimed, "clear") /\ cpc[c] = "idle"
        /\ UNCHANGED <<job, index, at, told, accepted>>
    BY <1>2 DEF Clear, Drain, Owes, Calls, hand
  <1>4. mid \in Seq(Jobs) /\ ToSet(mid) = {resume} \ {None}
    BY <1>1, <1>2 DEF ToSet
  <1>5. ToSet(urgent \o mid \o normal) = Waiting
    <2>0. urgent \o mid \in Seq(Jobs)
      BY <1>1, <1>4, ConcatProperties
    <2>1. PICK p \in Seq(Jobs) : p = urgent \o mid
      BY <2>0
    <2>a. ToSet(urgent \o mid) = ToSet(urgent) \cup ToSet(mid)
      BY <1>1, <1>4, ConcatSet
    <2>2. ToSet(p \o normal) = ToSet(p) \cup ToSet(normal)
      BY <1>1, ConcatSet
    <2> QED  BY <1>4, <2>1, <2>a, <2>2 DEF Waiting
  <1>6. Waiting \subseteq Jobs
    BY <1>1, ToSetOf DEF Waiting
  <1>7. PICK M \in SUBSET Jobs, T \in SUBSET Jobs : M = Waiting /\ T = Aimed
    BY <1>6, AimedPhase
  <1>8. \A k \in Jobs : k \in InTodo' <=> k \in InTodo \/ k \in M
    <2>1. PICK q : q = urgent \o mid \o normal
      OBVIOUS
    <2>2. ToSet(q) = M /\ todo' = [todo EXCEPT ![c] = q] /\ cpc[c] = "idle"
      BY <1>3, <1>5, <1>7, <2>1
    <2> QED  BY <2>2, TakesOn
  <1>9. Queued' = Queued \ M
    <2>1. ToSet(<<>>) = {}
      BY DEF ToSet
    <2> QED  BY <1>3, <1>7, <2>1 DEF Queued, Waiting
  <1>10. \A k \in Jobs : k = resume' <=> k = resume /\ k \notin M
    BY <1>1, <1>3, <1>7 DEF Waiting
  <1>11. T \subseteq Abstract!In("speaking") \cup Abstract!In("interrupted")
    BY <1>7, AimedPhase
  <1> QED  BY <1>3, <1>7, <1>8, <1>9, <1>10, <1>11, CallAims

LEMMA CutAimsAt ==
    ASSUME Sound, NEW c \in Clients, NEW kind \in {"skip", "stop"}, Doom(Aimed, kind),
           UNCHANGED <<queue, job, index, at, told, todo, accepted>>
    PROVE  Abstract!Next
  <1>1. PICK M \in SUBSET Jobs, T \in SUBSET Jobs : M = {} /\ T = Aimed
    BY AimedPhase
  <1>2. T \subseteq Abstract!In("speaking") \cup Abstract!In("interrupted")
    BY <1>1, AimedPhase
  <1>3. Doom(M \cup T, kind)
    BY <1>1 DEF Doom
  <1> QED  BY <1>1, <1>2, <1>3, CallAims DEF Queued, InTodo, queue

-----------------------------------------------------------------------------
LEMMA StepIsAbstract ==
    ASSUME Sound, [Next]_vars
    PROVE  Abstract!Next \/ UNCHANGED Abstract!vars
  <1>1. ASSUME UNCHANGED <<queue, job, index, at, told, todo, accepted, doomed>>
        PROVE  UNCHANGED Abstract!vars
    BY <1>1 DEF Abstract!vars, Phase, PhaseOf, Left, LeftOf, AimedAt, queue
  <1>2. CASE \/ Sleep \/ Ask \/ StartChunk \/ EndChunk \/ AllSpoken \/ RestoreVoice \/ Leave
             \/ UNCHANGED vars
    BY <1>1, <1>2 DEF Sleep, Ask, StartChunk, EndChunk, AllSpoken, RestoreVoice, Leave,
       vars, hand, books
  <1>3. CASE Take \/ PutBack \/ Report \/ Check
    BY <1>3, TakeBegins, PutBackInterrupts, ReportEnds, CheckSays
  <1>4. ASSUME NEW c \in Clients,
               \/ \E j \in Jobs : Submit(c, j)
               \/ SkipHeld(c) \/ Clear(c) \/ \E m \in MsgIds : StopWaiting(c, m)
        PROVE  Abstract!Next
    BY <1>4, SubmitAccepts, SkipAims, ClearAims, StopAims
  <1>5. ASSUME NEW c \in Clients, SkipCut(c) \/ \E m \in MsgIds : StopPlaying(c, m)
        PROVE  Abstract!Next
    <2>1. CASE SkipCut(c)
      BY <2>1, CutAimsAt DEF SkipCut, hand
    <2>2. ASSUME NEW m \in MsgIds, StopPlaying(c, m)
          PROVE  Abstract!Next
      BY <2>2, CutAimsAt DEF StopPlaying, hand
    <2> QED  BY <1>5, <2>1, <2>2
  <1>6. ASSUME NEW c \in Clients, Tell(c)
        PROVE  Abstract!Next \/ UNCHANGED Abstract!vars
    BY <1>6, TellEnds
  <1>7. ASSUME NEW c \in Clients,
               \/ SkipPlaying(c) \/ EngineStop(c) \/ Pause(c) \/ Unpause(c) \/ Shutdown(c)
               \/ (\E on \in BOOLEAN : SetMute(c, on)) \/ \E v \in Voices : ChooseVoice(c, v)
        PROVE  UNCHANGED Abstract!vars
    BY <1>1, <1>7 DEF SkipPlaying, EngineStop, Pause, Unpause, Shutdown, SetMute, ChooseVoice,
       hand, books
  <1> QED  BY <1>2, <1>3, <1>4, <1>5, <1>6, <1>7 DEF Next, Worker, Call, Proceed

LEMMA InitIsAbstract == Init => Abstract!Init /\ ChunkInv /\ OwesOnlyTelling
  <1> SUFFICES ASSUME Init PROVE Abstract!Init /\ ChunkInv /\ OwesOnlyTelling
    OBVIOUS
  <1> USE SpeakerAssumption
  <1>1. ToSet(<<>>) = {}
    BY DEF ToSet
  <1>2. \A j \in Jobs : PhaseOf(j) = "new" /\ LeftOf(j) = Chunks[j]
    BY <1>1 DEF Init, PhaseOf, LeftOf
  <1>3. Left = Chunks
    BY <1>2 DEF Left
  <1>4. Abstract!Init
    BY <1>2, <1>3 DEF Init, Abstract!Init, Phase, AimedAt
  <1> QED  BY <1>4 DEF Init, ChunkInv, OwesOnlyTelling

\* The queue keeps what Messages promises: one message at a time, every chunk
\* of it in order and from where it was interrupted, cancelled only when aimed
\* at, ended once, and lost only when a second is interrupted (queue.rs).
THEOREM QueueImplementsMessages == Spec => ImplementsMessages
  <1>1. Spec => []CutInv
    <2>1. Init => CutInv
      BY DEF Init, CutInv, CutAims, TodoAimed, NoStrayCut, Mid
    <2>2. Shape /\ CutInv /\ [Next]_vars => CutInv'
      BY CutStep
    <2> QED  BY <2>1, <2>2, ShapeAlways, PTL DEF Spec
  <1>2. Spec => []ChunkInv /\ []OwesOnlyTelling
    <2>1. Init => ChunkInv /\ OwesOnlyTelling
      BY InitIsAbstract
    <2>2. Shape /\ ChunkInv /\ OwesOnlyTelling /\ [Next]_vars => ChunkInv' /\ OwesOnlyTelling'
      BY ChunkStep, OwesStep
    <2> QED  BY <2>1, <2>2, ShapeAlways, PTL DEF Spec
  <1>3. Init => Abstract!Init
    BY InitIsAbstract
  <1>4. Shape /\ PlaceInv /\ ChunkInv /\ CutInv /\ OwesOnlyTelling /\ [Next]_vars
            => [Abstract!Next]_Abstract!vars
    BY StepIsAbstract DEF Sound
  <1> QED  BY <1>1, <1>2, <1>3, <1>4, ShapeAlways, PlaceAlways, PTL
           DEF Spec, ImplementsMessages, Abstract!Spec

=============================================================================
