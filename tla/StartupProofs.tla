----------------------------- MODULE StartupProofs -----------------------------
(***************************************************************************)
(* What holds of starts for any number of processes, that start and die    *)
(* whenever they like.                                                     *)
(***************************************************************************)
EXTENDS Startup, FiniteSetTheorems, TLAPS

Alive == Starting \cup {"up"}
Places == Starting \cup {"off", "up", "dead"}
CallsOf == [to : Nodes, token : Nodes \cup {None}]

\* Who puts a key into a store, or marks that it is there, has one.
Handed == \A n \in Nodes : at[n] \in {"store", "forget", "mark"} => secret[n] # None
TypeInv == TypeOK /\ Handed

-----------------------------------------------------------------------------
(* The socket. *)

\* Whose claim was not crossed claims alone, and what it installs stays.
Settled ==
    \A n \in Nodes \ crossed :
        /\ at[n] \in Claiming \cup {"up"} => \A m \in Nodes \ {n} : at[m] \notin Claiming
        /\ at[n] \in {"bind", "taken", "reclaim", "up"} => token = n
        /\ at[n] = "up" => socket = n

\* Who asks has connected to a node that was up, and has read its token.
Asked ==
    \A n \in Nodes : call[n] # None =>
        /\ at[n] \in {"look", "probe"} /\ at[call[n].to] \in {"up", "dead"}
        /\ call[n].token # None /\ at[call[n].to] = "up" /\ call[n].to \notin crossed
              => call[n].token = call[n].to

SocketInv == TypeInv /\ Settled /\ Asked

-----------------------------------------------------------------------------
(* Files and keys. *)

Unstuck == "stuck" \notin lapse

\* Whoever has passed a file of the old directory has left none there.
Moved ==
    Unstuck => \A n \in Nodes :
        /\ at[n] \in Alive \ {"move"} => old.key = None
        /\ at[n] \in Alive \ {"move", "next"} => old.mark = None
        /\ at[n] \in Alive \ {"move", "next", "last"} => old.data = None

Knows(data) == data # None /\ earlier \in data
Kept == {ring, oldRing, cur.key, old.key} \ {None}

\* With the key of before there is what that version knew; it is not in the old
\* directory any more once somebody has read the new one; and all who have read it
\* know what it says.
Carried ==
    Unstuck =>
        /\ earlier \in Kept \/ (\E n \in Nodes : secret[n] = earlier)
              => Knows(old.data) \/ Knows(cur.data)
        /\ old.data # None => Knows(old.data)
        /\ \A n \in Nodes : at[n] \in Online \ {"load"} => (Knows(cur.data) <=> earlier \in mind[n])

DataInv == TypeInv /\ Moved /\ Carried

\* There is one key wherever there is one, and what was used is still there.
Sole == (\A a, b \in Kept : a = b) /\ used \subseteq Kept

\* A key that is on its way between the stores is in one of them.
InHand ==
    \A n \in Nodes :
        /\ at[n] \in {"store", "forget", "mark"} => secret[n] \in Kept
        /\ at[n] = "forget" => ring # None

\* One process at a time has found no key, and there is none when it makes one.
Bare ==
    \A n \in Nodes :
        /\ at[n] \in {"doubt", "mint"} =>
              cur.key = None /\ \A m \in Nodes \ {n} : at[m] \notin {"doubt", "mint"}
        /\ at[n] = "mint" => Kept = {}

KeyInv == TypeInv /\ Moved /\ (lapse = {} => Sole /\ InHand /\ Bare)

-----------------------------------------------------------------------------
(* Types. *)

Dir(dir) ==
    /\ DOMAIN dir = Files
    /\ dir.key \in Keys \cup {None} /\ dir.mark \in {"set", None}
    /\ dir.data = None \/ dir.data \subseteq Keys

\* What belongs to a process, and what all share.
Own ==
    /\ at \in [Nodes -> Places]
    /\ secret \in [Nodes -> Keys \cup {None}]
    /\ call \in [Nodes -> CallsOf \cup {None}]
    /\ mind \in [Nodes -> SUBSET Keys]
    /\ why \in [Nodes -> Reasons \cup {None}]
Shared ==
    /\ Dir(cur) /\ Dir(old) /\ Dir(aside)
    /\ ring \in Keys \cup {None} /\ oldRing \in Keys \cup {None} /\ unlocked \in BOOLEAN
    /\ socket \in Nodes \cup {None} /\ token \in Nodes \cup {None}
    /\ used \subseteq Keys /\ crossed \subseteq Nodes /\ lapse \subseteq Lapses

LEMMA TypesAre == TypeOK <=> Own /\ Shared
  <1>1. TypeOK <=>
          /\ Own
          /\ Dir(cur) /\ Dir(old) /\ Dir(aside)
          /\ {ring, oldRing} \subseteq Keys \cup {None} /\ unlocked \in BOOLEAN
          /\ {socket, token} \subseteq Nodes \cup {None}
          /\ used \subseteq Keys /\ crossed \subseteq Nodes /\ lapse \subseteq Lapses
    BY DEF TypeOK, Own, Dir, Places, CallsOf
  <1> QED  BY <1>1 DEF Shared

\* A process that ends: of all that is its own it keeps the reason.
LEMMA EndsIs ==
    ASSUME NEW n \in Nodes, Own, Ends(n)
    PROVE  /\ at' = [at EXCEPT ![n] = "dead"] /\ at' \in [Nodes -> Places]
           /\ call' = [call EXCEPT ![n] = None] /\ call' \in [Nodes -> CallsOf \cup {None}]
           /\ secret' = [secret EXCEPT ![n] = None] /\ secret' \in [Nodes -> Keys \cup {None}]
           /\ mind' = [mind EXCEPT ![n] = {}] /\ mind' \in [Nodes -> SUBSET Keys]
  BY DEF Own, Ends, Go, Places

\* One that goes on.
LEMMA GoIs ==
    ASSUME NEW n \in Nodes, NEW p \in Places, Own, Go(n, p)
    PROVE  at' = [at EXCEPT ![n] = p] /\ at' \in [Nodes -> Places]
  BY DEF Own, Go

LEMMA HoldsKeyIs ==
    ASSUME NEW n \in Nodes, NEW k \in Keys, Own, HoldsKey(n, k)
    PROVE  /\ at' = [at EXCEPT ![n] = "load"] /\ at' \in [Nodes -> Places]
           /\ secret' = [secret EXCEPT ![n] = k] /\ secret' \in [Nodes -> Keys \cup {None}]
           /\ used' = used \cup {k}
  BY DEF Own, HoldsKey, Go, Places, Starting

\* What a start makes of the answer about the socket.
LEMMA VerdictIs ==
    ASSUME NEW n \in Nodes, NEW place \in {"look", "probe"},
           NEW answer \in {"nothing", "running", "stranger", "silent"}, Own, Verdict(n, place, answer)
    PROVE  /\ Own'
           /\ call' = [call EXCEPT ![n] = None]
           /\ \/ /\ answer # "nothing" /\ Ends(n) /\ why' = [why EXCEPT ![n] = answer]
              \/ /\ place = "look" /\ at' = [at EXCEPT ![n] = "ask"] /\ UNCHANGED <<secret, mind, why>>
              \/ /\ place = "probe" /\ answer = "nothing" /\ at' = [at EXCEPT ![n] = "token"]
                 /\ UNCHANGED <<secret, mind, why>>
  <1>1. CASE answer = "running" \/ (answer # "nothing" /\ place = "probe")
    <2>1. Ends(n) /\ why' = [why EXCEPT ![n] = answer] /\ answer # "nothing"
      BY <1>1 DEF Verdict, GiveUp
    <2>2. why' \in [Nodes -> Reasons \cup {None}]
      BY <2>1 DEF Own, Reasons
    <2> QED  BY <2>1, <2>2, EndsIs DEF Own
  <1>2. CASE ~(answer = "running" \/ (answer # "nothing" /\ place = "probe"))
    <2>1. /\ Go(n, IF place = "look" THEN "ask" ELSE "token")
          /\ call' = [call EXCEPT ![n] = None] /\ UNCHANGED <<secret, mind, why>>
      BY <1>2 DEF Verdict
    <2>2. {"ask", "token"} \subseteq Places
      BY DEF Places, Starting, Claiming
    <2>3. at' = [at EXCEPT ![n] = IF place = "look" THEN "ask" ELSE "token"]
          /\ at' \in [Nodes -> Places]
      BY <2>1, <2>2, GoIs
    <2>4. call' \in [Nodes -> CallsOf \cup {None}]
      BY <2>1 DEF Own
    <2>5. Own'
      BY <2>1, <2>3, <2>4 DEF Own
    <2> QED  BY <1>2, <2>1, <2>3, <2>5
  <1> QED  BY <1>1, <1>2

\* A file of a directory that is written.
LEMMA WriteFile ==
    ASSUME NEW dir, Dir(dir)
    PROVE  /\ \A k \in Keys \cup {None} : Dir([dir EXCEPT !.key = k])
           /\ \A k \in {"set", None} : Dir([dir EXCEPT !.mark = k])
           /\ \A k \in (SUBSET Keys) \cup {None} : Dir([dir EXCEPT !.data = k])
  <1>1. DOMAIN dir = Files /\ {"key", "mark", "data"} \subseteq Files
    BY DEF Dir, Files
  <1> QED  BY <1>1 DEF Dir

\* Which file a place moves.
LEMMA MovesAre ==
    /\ DOMAIN Moves = {"move", "next", "last"}
    /\ Moves["move"] = "key" /\ Moves["next"] = "mark" /\ Moves["last"] = "data"
  BY DEF Moves

LEMMA AfterIs ==
    ASSUME NEW n \in Nodes
    PROVE  /\ After(n, "move") = "next" /\ After(n, "next") = "last"
           /\ After(n, "last") \in {"look", "ask"}
  BY DEF After

\* What Move does, file by file: the file goes over, or nothing does, or the
\* process goes on with what it has.
LEMMA MoveIs ==
    ASSUME NEW n \in Nodes, NEW place \in DOMAIN Moves, Move(n, place), TypeOK
    PROVE  /\ at[n] = place
           /\ at' = [at EXCEPT ![n] = After(n, place)] \/ at' = [at EXCEPT ![n] = After(n, "last")]
           /\ UNCHANGED <<secret, call, mind, why, rings, socket, token, used, crossed>>
           /\ Dir(cur') /\ Dir(old') /\ Dir(aside')
           /\ lapse' \in {lapse, lapse \cup {"stuck"}}
           /\ "stuck" \notin lapse' =>
                /\ lapse' = lapse
                /\ at' = [at EXCEPT ![n] = After(n, place)]
                /\ old'[Moves[place]] = None
                /\ cur'[Moves[place]] = IF old[Moves[place]] # None THEN old[Moves[place]]
                                        ELSE cur[Moves[place]]
                /\ \A f \in Files \ {Moves[place]} : cur'[f] = cur[f] /\ old'[f] = old[f]
  <1>1. Dir(cur) /\ Dir(old) /\ Dir(aside)
    BY TypesAre DEF Shared
  <1>2. PICK f : f = Moves[place]
    OBVIOUS
  <1>3. f \in Files /\ f \in {"key", "mark", "data"}
    BY <1>2, MovesAre DEF Files
  <1>4. /\ at[n] = place
        /\ at' = [at EXCEPT ![n] = After(n, place)] \/ at' = [at EXCEPT ![n] = After(n, "last")]
        /\ UNCHANGED <<secret, call, mind, why, rings, socket, token, used, crossed>>
        /\ lapse' \in {lapse, lapse \cup {"stuck"}}
    BY DEF Move, Go
  <1>5. ASSUME NEW dir \in {cur, old, aside}, NEW v \in {None, old[f], cur[f], aside[f]}
        PROVE  Dir([dir EXCEPT ![f] = v])
    <2>1. Dir(dir)
      BY <1>1
    <2>2. CASE f = "key"
      BY <1>1, <2>1, <2>2, <1>5, WriteFile DEF Dir
    <2>3. CASE f = "mark"
      BY <1>1, <2>1, <2>3, <1>5, WriteFile DEF Dir
    <2>4. CASE f = "data"
      <3>1. v \in (SUBSET Keys) \cup {None}
        BY <1>1, <2>4, <1>5 DEF Dir
      <3> QED  BY <2>1, <2>4, <3>1, WriteFile
    <2> QED  BY <1>3, <2>2, <2>3, <2>4
  <1>6. Dir(cur') /\ Dir(old') /\ Dir(aside')
    <2>1. cur' \in {cur, [cur EXCEPT ![f] = None], [cur EXCEPT ![f] = old[f]]}
      BY <1>2 DEF Move, dirs
    <2>2. old' \in {old, [old EXCEPT ![f] = None]}
      BY <1>2 DEF Move, dirs
    <2>3. aside' \in {aside, [aside EXCEPT ![f] = cur[f]], [aside EXCEPT ![f] = aside[f]]}
      BY <1>2 DEF Move, dirs
    <2>4. Dir(cur')
      BY <1>1, <1>5, <2>1
    <2>5. Dir(old')
      BY <1>1, <1>5, <2>2
    <2>6. Dir(aside')
      BY <1>1, <1>5, <2>3
    <2> QED  BY <2>4, <2>5, <2>6
  <1>7. ASSUME "stuck" \notin lapse'
        PROVE  /\ lapse' = lapse
               /\ at' = [at EXCEPT ![n] = After(n, place)]
               /\ old'[f] = None
               /\ cur'[f] = IF old[f] # None THEN old[f] ELSE cur[f]
               /\ \A g \in Files \ {f} : cur'[g] = cur[g] /\ old'[g] = old[g]
    <2>1. DOMAIN cur = Files /\ DOMAIN old = Files
      BY <1>1 DEF Dir
    <2>2. CASE old[f] = None
      <3>1. UNCHANGED dirs /\ at' = [at EXCEPT ![n] = After(n, place)] /\ lapse' = lapse
        BY <1>2, <1>7, <2>2 DEF Move, Go
      <3> QED  BY <2>2, <3>1 DEF dirs
    <2>3. CASE old[f] # None
      <3>1. /\ cur' = [cur EXCEPT ![f] = old[f]] /\ old' = [old EXCEPT ![f] = None]
            /\ at' = [at EXCEPT ![n] = After(n, place)] /\ lapse' = lapse
        BY <1>2, <1>7, <2>3 DEF Move, Go
      <3> QED  BY <1>3, <2>1, <2>3, <3>1
    <2> QED  BY <2>2, <2>3
  <1> QED  BY <1>2, <1>4, <1>6, <1>7

LEMMA OwnStep ==
    ASSUME TypeOK, Next
    PROVE  Own'
  <1> USE StartupAssumption
  <1>0. Own /\ Shared
    BY TypesAre
  <1>1. /\ Starting \cup {"off", "up", "dead"} = Places
        /\ {"move", "next", "last", "look", "ask", "adopt", "store", "forget", "mark", "decide", "doubt",
            "mint", "load", "probe", "token", "bind", "taken", "reclaim"} \subseteq Starting
        /\ {"running", "stranger", "held", "keyless", "silent"} \subseteq Reasons
        /\ Nodes \subseteq Keys
    BY DEF Starting, Claiming, Reasons, Keys, Places
  <1>2. ASSUME NEW n \in Nodes, NEW p \in Places, Go(n, p), UNCHANGED <<secret, call, mind, why>>
        PROVE  Own'
    BY <1>0, <1>2, GoIs DEF Own
  <1>3. ASSUME NEW n \in Nodes, NEW r \in Reasons, GiveUp(n, r)
        PROVE  Own'
    <2>1. why' \in [Nodes -> Reasons \cup {None}]
      BY <1>0, <1>3 DEF Own, GiveUp
    <2> QED  BY <1>0, <1>3, <2>1, EndsIs DEF Own, GiveUp
  <1>4. ASSUME NEW n \in Nodes, NEW p \in Places, NEW k \in Keys \cup {None},
               Go(n, p), secret' = [secret EXCEPT ![n] = k], UNCHANGED <<call, mind, why>>
        PROVE  Own'
    <2>1. secret' \in [Nodes -> Keys \cup {None}]
      BY <1>0, <1>4 DEF Own
    <2> QED  BY <1>0, <1>4, <2>1, GoIs DEF Own
  <1>5. ASSUME NEW n \in Nodes, NEW k \in Keys, HoldsKey(n, k), UNCHANGED <<call, mind, why>>
        PROVE  Own'
    BY <1>0, <1>5, HoldsKeyIs DEF Own
  <1>6. ASSUME UNCHANGED <<at, secret, call, mind, why>>
        PROVE  Own'
    BY <1>0, <1>6 DEF Own
  <1>7. ASSUME NEW n \in Nodes, Start(n) \/ InstallToken(n) \/ Bind(n) \/ Reclaim(n) \/ Forget(n)
        PROVE  Own'
    <2>1. \E p \in Places : Go(n, p) /\ UNCHANGED <<secret, call, mind, why>>
      BY <1>1, <1>7 DEF Start, InstallToken, Bind, Reclaim, Forget, Places
    <2> QED  BY <1>2, <2>1
  <1>8. ASSUME NEW n \in Nodes, NEW place \in DOMAIN Moves, Move(n, place)
        PROVE  Own'
    <2>1. After(n, place) \in Places /\ After(n, "last") \in Places
      BY <1>1, MovesAre, AfterIs
    <2>2. \E p \in Places : Go(n, p) /\ UNCHANGED <<secret, call, mind, why>>
      BY <1>8, <2>1, MoveIs DEF Go
    <2> QED  BY <1>2, <2>2
  <1>9. ASSUME NEW n \in Nodes, Ask(n) \/ Adopt(n) \/ Store(n)
        PROVE  Own'
    <2>1. /\ UNCHANGED <<call, mind, why>>
          /\ \E p \in Places : Go(n, p) /\ \/ UNCHANGED secret
                                           \/ \E k \in Keys \cup {None} : secret' = [secret EXCEPT ![n] = k]
      BY <1>0, <1>1, <1>9 DEF Ask, Adopt, Store, Shared
    <2> QED  BY <1>2, <1>4, <2>1
  <1>10. ASSUME NEW n \in Nodes, MarkKey(n)
         PROVE  Own'
    <2>1. secret[n] \in Keys \/ secret[n] = None
      BY <1>0 DEF Own
    <2>2. HoldsKey(n, secret[n]) /\ UNCHANGED <<call, mind, why>>
      BY <1>10 DEF MarkKey
    <2>3. Go(n, "load") /\ secret' = [secret EXCEPT ![n] = secret[n]]
      BY <2>2 DEF HoldsKey
    <2> QED  BY <1>1, <1>4, <2>1, <2>2, <2>3
  <1>11. ASSUME NEW n \in Nodes, Decide(n)
         PROVE  Own'
    <2>1. cur.key \in Keys \/ cur.key = None
      BY <1>0 DEF Shared, Dir
    <2>2. \/ cur.key # None /\ HoldsKey(n, cur.key) /\ UNCHANGED <<call, mind, why>>
          \/ Go(n, "doubt") /\ UNCHANGED <<secret, call, mind, why>>
      BY <1>11 DEF Decide
    <2> QED  BY <1>1, <1>2, <1>5, <2>1, <2>2
  <1>12. ASSUME NEW n \in Nodes, Doubt(n)
         PROVE  Own'
    <2>1. CASE cur.mark # None
      <3>1. GiveUp(n, "keyless")
        BY <1>12, <2>1 DEF Doubt
      <3> QED  BY <1>1, <1>3, <3>1
    <2>2. CASE cur.mark = None
      <3>1. Go(n, "mint") /\ UNCHANGED <<secret, call, mind, why>>
        BY <1>12, <2>2 DEF Doubt
      <3> QED  BY <1>1, <1>2, <3>1
    <2> QED  BY <2>1, <2>2
  <1>13. ASSUME NEW n \in Nodes, Mint(n)
         PROVE  Own'
    <2>1. /\ UNCHANGED <<call, mind, why>>
          /\ \/ Go(n, "mark") /\ secret' = [secret EXCEPT ![n] = n]
             \/ HoldsKey(n, n)
      BY <1>13 DEF Mint
    <2> QED  BY <1>1, <1>4, <1>5, <2>1
  <1>14. ASSUME NEW n \in Nodes, Load(n)
         PROVE  Own'
    <2>1. /\ mind' = [mind EXCEPT ![n] = IF cur.data = None THEN {} ELSE cur.data]
          /\ Go(n, "probe") /\ UNCHANGED <<secret, call, why>>
      BY <1>14 DEF Load
    <2>2. PICK d \in SUBSET Keys : d = IF cur.data = None THEN {} ELSE cur.data
      BY <1>0 DEF Shared, Dir
    <2>3. mind' \in [Nodes -> SUBSET Keys]
      BY <1>0, <2>1, <2>2 DEF Own
    <2> QED  BY <1>0, <1>1, <2>1, <2>3, GoIs DEF Own
  <1>15. ASSUME NEW n \in Nodes, NEW place \in {"look", "probe"}, Connect(n, place) \/ Prove(n, place)
         PROVE  Own'
    <2>1. CASE \E answer \in {"nothing", "running", "stranger", "silent"} : Verdict(n, place, answer)
      BY <1>0, <2>1, VerdictIs
    <2>2. CASE Connect(n, place) /\ Answers
      <3>1. /\ call' = [call EXCEPT ![n] = [to |-> socket, token |-> None]]
            /\ UNCHANGED <<at, secret, mind, why>>
        BY <2>2 DEF Connect
      <3>2. socket \in Nodes
        BY <1>0, <2>2 DEF Shared, Answers
      <3>3. call' \in [Nodes -> CallsOf \cup {None}]
        BY <1>0, <3>1, <3>2 DEF Own, CallsOf
      <3> QED  BY <1>0, <3>1, <3>3 DEF Own
    <2> QED  BY <1>15, <2>1, <2>2 DEF Connect, Prove
  <1>16. ASSUME NEW n \in Nodes, ReadToken(n)
         PROVE  Own'
    <2>1. /\ call[n] # None /\ call' = [call EXCEPT ![n].token = token]
          /\ UNCHANGED <<at, secret, mind, why>>
      BY <1>16 DEF ReadToken
    <2>2. call[n] \in CallsOf
      BY <1>0, <2>1 DEF Own
    <2>3. [call[n] EXCEPT !.token = token] \in CallsOf
      BY <1>0, <2>2 DEF CallsOf, Shared
    <2>4. call' = [call EXCEPT ![n] = [call[n] EXCEPT !.token = token]]
      BY <1>0, <2>1 DEF Own
    <2>5. call' \in [Nodes -> CallsOf \cup {None}]
      BY <1>0, <2>3, <2>4 DEF Own
    <2> QED  BY <1>0, <2>1, <2>5 DEF Own
  <1>17. ASSUME NEW n \in Nodes, Taken(n)
         PROVE  Own'
    <2>1. CASE Answers
      <3>1. GiveUp(n, "held")
        BY <1>17, <2>1 DEF Taken
      <3> QED  BY <1>1, <1>3, <3>1
    <2>2. CASE ~Answers
      <3>1. Go(n, "reclaim") /\ UNCHANGED <<secret, call, mind, why>>
        BY <1>17, <2>2 DEF Taken
      <3> QED  BY <1>1, <1>2, <3>1
    <2> QED  BY <2>1, <2>2
  <1>18. ASSUME NEW n \in Nodes, Save(n)
         PROVE  Own'
    <2>1. mind' = [mind EXCEPT ![n] = mind[n] \cup {n}] /\ UNCHANGED <<at, secret, call, why>>
      BY <1>18 DEF Save
    <2>2. mind' \in [Nodes -> SUBSET Keys]
      BY <1>0, <1>1, <2>1 DEF Own
    <2> QED  BY <1>0, <2>1, <2>2 DEF Own
  <1>19. ASSUME NEW n \in Nodes, Die(n)
         PROVE  Own'
    BY <1>0, <1>19, EndsIs DEF Die, Own
  <1>20. CASE Turn
    BY <1>6, <1>20 DEF Turn
  <1> QED
    BY <1>7, <1>8, <1>9, <1>10, <1>11, <1>12, <1>13, <1>14, <1>15, <1>16, <1>17, <1>18, <1>19, <1>20
    DEF Next, KeyStep, SocketStep

LEMMA SharedStep ==
    ASSUME TypeInv, Next
    PROVE  Shared'
  <1> USE StartupAssumption
  <1>0. Own /\ Shared
    BY TypesAre DEF TypeInv
  <1>1. /\ \A k \in Keys \cup {None} : Dir([cur EXCEPT !.key = k])
        /\ \A k \in (SUBSET Keys) \cup {None} : Dir([cur EXCEPT !.data = k])
        /\ \A dir \in Marked : Dir(dir)
        /\ Nodes \subseteq Keys /\ None \notin Nodes
        /\ {"stuck", "together", "unmarked"} \subseteq Lapses
    <2>1. Dir(cur)
      BY <1>0 DEF Shared
    <2>2. Dir([cur EXCEPT !.mark = "set"])
      BY <2>1, WriteFile
    <2>3. /\ \A k \in Keys \cup {None} : Dir([cur EXCEPT !.key = k])
          /\ \A k \in (SUBSET Keys) \cup {None} : Dir([cur EXCEPT !.data = k])
      BY <2>1, WriteFile
    <2>4. \A dir \in Marked : Dir(dir)
      BY <2>1, <2>2 DEF Marked
    <2> QED  BY <2>3, <2>4 DEF Keys, Lapses
  <1>2. ASSUME UNCHANGED <<dirs, rings, used, lapse>>, socket' \in Nodes \cup {None},
               token' \in Nodes \cup {None}, crossed' \subseteq Nodes
        PROVE  Shared'
    BY <1>0, <1>2 DEF Shared, dirs, rings
  <1>3. ASSUME NEW n \in Nodes,
               Start(n) \/ InstallToken(n) \/ Bind(n) \/ Reclaim(n) \/ ReadToken(n) \/ Taken(n) \/ Die(n)
        PROVE  Shared'
    <2>1. UNCHANGED <<dirs, rings, story>> /\ socket' \in {socket, n} /\ token' \in {token, n}
      BY <1>3 DEF Start, InstallToken, Bind, Reclaim, ReadToken, Taken, Die
    <2> QED  BY <1>0, <1>2, <2>1 DEF Shared, story
  <1>4. ASSUME NEW n \in Nodes, NEW place \in {"look", "probe"}, Connect(n, place) \/ Prove(n, place)
        PROVE  Shared'
    <2>1. /\ UNCHANGED <<dirs, rings, socket, token, used, lapse>>
          /\ crossed' = crossed \/ crossed' = crossed \cup (Rivals(n) \cup {n}) \/ crossed' = crossed \cup {}
      BY <1>4 DEF Connect, Prove, story
    <2>2. Rivals(n) \subseteq Nodes
      BY DEF Rivals
    <2> QED  BY <1>0, <1>2, <2>1, <2>2 DEF Shared
  <1>5. ASSUME NEW n \in Nodes, NEW place \in DOMAIN Moves, Move(n, place)
        PROVE  Shared'
    <2>1. /\ UNCHANGED <<rings, socket, token, used, crossed>>
          /\ Dir(cur') /\ Dir(old') /\ Dir(aside') /\ lapse' \in {lapse, lapse \cup {"stuck"}}
      BY <1>5, MoveIs DEF TypeInv
    <2> QED  BY <1>0, <1>1, <2>1 DEF Shared, rings
  <1>6. ASSUME NEW n \in Nodes, Ask(n) \/ Adopt(n) \/ Store(n) \/ Forget(n)
        PROVE  Shared'
    <2>1. /\ UNCHANGED <<dirs, unlocked, socket, token, story>>
          /\ ring' \in {ring, secret[n]} /\ oldRing' \in {oldRing, None}
      BY <1>6 DEF Ask, Adopt, Store, Forget, rings
    <2>2. secret[n] \in Keys \cup {None}
      BY <1>0 DEF Own
    <2> QED  BY <1>0, <2>1, <2>2 DEF Shared, dirs, story
  <1>7. ASSUME NEW n \in Nodes, MarkKey(n)
        PROVE  Shared'
    <2>1. /\ UNCHANGED <<old, aside, rings, socket, token, crossed, lapse>>
          /\ cur' \in Marked /\ used' = used \cup {secret[n]} /\ secret' = [secret EXCEPT ![n] = secret[n]]
      BY <1>7 DEF MarkKey, HoldsKey
    <2>2. secret[n] \in Keys
      BY <1>0, <1>7 DEF Own, MarkKey, TypeInv, Handed
    <2> QED  BY <1>0, <1>1, <2>1, <2>2 DEF Shared, rings
  <1>8. ASSUME NEW n \in Nodes, Decide(n)
        PROVE  Shared'
    <2>1. /\ UNCHANGED <<dirs, rings, socket, token, crossed>>
          /\ lapse' = lapse \/ lapse' = lapse \cup {"together"} \/ lapse' = lapse \cup {}
          /\ used' = used \/ (cur.key # None /\ used' = used \cup {cur.key})
      BY <1>8 DEF Decide, HoldsKey
    <2>2. cur.key # None => cur.key \in Keys
      BY <1>0 DEF Shared, Dir
    <2> QED  BY <1>0, <1>1, <2>1, <2>2 DEF Shared, dirs, rings
  <1>9. ASSUME NEW n \in Nodes, Doubt(n)
        PROVE  Shared'
    <2>1. /\ UNCHANGED <<dirs, rings, socket, token, used, crossed>>
          /\ lapse' = lapse \/ lapse' = lapse \cup {"unmarked"} \/ lapse' = lapse \cup {}
      BY <1>9 DEF Doubt
    <2> QED  BY <1>0, <1>1, <2>1 DEF Shared, dirs, rings
  <1>10. ASSUME NEW n \in Nodes, Mint(n)
         PROVE  Shared'
    <2>1. /\ UNCHANGED <<old, aside, oldRing, unlocked, socket, token, crossed, lapse>>
          /\ ring' \in {ring, n} /\ used' \in {used, used \cup {n}}
          /\ cur' \in {cur, [cur EXCEPT !.key = n]}
      BY <1>10 DEF Mint, HoldsKey
    <2> QED  BY <1>0, <1>1, <2>1 DEF Shared
  <1>11. ASSUME NEW n \in Nodes, Load(n)
         PROVE  Shared'
    <2>1. /\ UNCHANGED <<old, aside, rings, socket, token, story>>
          /\ cur' = [cur EXCEPT !.data = IF cur.data = None THEN {} ELSE cur.data]
      BY <1>11 DEF Load
    <2>2. PICK d \in SUBSET Keys : d = IF cur.data = None THEN {} ELSE cur.data
      BY <1>0 DEF Shared, Dir
    <2>3. Dir(cur')
      BY <1>1, <2>1, <2>2
    <2> QED  BY <1>0, <2>1, <2>3 DEF Shared, rings, story
  <1>12. ASSUME NEW n \in Nodes, Save(n)
         PROVE  Shared'
    <2>1. /\ UNCHANGED <<old, aside, rings, socket, token, story>>
          /\ mind' = [mind EXCEPT ![n] = mind[n] \cup {n}] /\ cur' = [cur EXCEPT !.data = mind'[n]]
      BY <1>12 DEF Save
    <2>2. mind'[n] = mind[n] \cup {n} /\ mind'[n] \in SUBSET Keys
      BY <1>0, <1>1, <2>1 DEF Own
    <2>3. Dir(cur')
      BY <1>1, <2>1, <2>2
    <2> QED  BY <1>0, <2>1, <2>3 DEF Shared, rings, story
  <1>13. CASE Turn
    BY <1>0, <1>13 DEF Turn, Shared, dirs, story
  <1> QED
    BY <1>3, <1>4, <1>5, <1>6, <1>7, <1>8, <1>9, <1>10, <1>11, <1>12, <1>13
    DEF Next, KeyStep, SocketStep

\* A step of one process leaves what belongs to the others alone.
Acts(n) ==
    \/ Start(n) \/ (\E place \in DOMAIN Moves : Move(n, place)) \/ KeyStep(n)
    \/ Load(n) \/ SocketStep(n) \/ Save(n) \/ Die(n)

LEMMA OthersStay ==
    ASSUME Own, NEW n \in Nodes, Acts(n)
    PROVE  \A m \in Nodes \ {n} :
              /\ at'[m] = at[m] /\ secret'[m] = secret[m] /\ call'[m] = call[m]
              /\ mind'[m] = mind[m] /\ why'[m] = why[m]
  <1>1. CASE Start(n) \/ (\E place \in DOMAIN Moves : Move(n, place)) \/ Load(n) \/ Save(n) \/ Die(n)
    BY <1>1 DEF Own, Start, Move, Load, Save, Die, Ends, Go
  <1>2. CASE KeyStep(n)
    BY <1>2 DEF Own, KeyStep, Ask, Adopt, Store, Forget, MarkKey, Decide, Doubt, Mint, HoldsKey,
       GiveUp, Ends, Go
  <1>3. CASE SocketStep(n)
    BY <1>3 DEF Own, SocketStep, Connect, ReadToken, Prove, Verdict, InstallToken, Bind, Taken,
       Reclaim, GiveUp, Ends, Go
  <1> QED  BY <1>1, <1>2, <1>3 DEF Acts

LEMMA TypeStep ==
    ASSUME TypeInv, [Next]_vars
    PROVE  TypeInv'
  <1> USE StartupAssumption
  <1>0. Own /\ Shared
    BY TypesAre DEF TypeInv
  <1>1. CASE UNCHANGED vars
    BY <1>1 DEF vars, dirs, rings, story, TypeInv, TypeOK, Handed
  <1>2. ASSUME Next
        PROVE  TypeOK'
    <2>1. Own' /\ Shared'
      BY <1>2, OwnStep, SharedStep DEF TypeInv
    <2>2. TypeOK' <=> Own' /\ Shared'
      BY TypesAre, PTL
    <2> QED  BY <2>1, <2>2
  <1>3. ASSUME NEW n \in Nodes, Acts(n), at'[n] \in {"store", "forget", "mark"}
        PROVE  secret'[n] # None
    <2>1. CASE KeyStep(n)
      BY <1>0, <1>3, <2>1 DEF Own, Shared, TypeInv, Handed, KeyStep, Ask, Adopt, Store, Forget, MarkKey,
         Decide, Doubt, Mint, HoldsKey, GiveUp, Ends, Go
    <2>2. CASE Start(n) \/ Load(n) \/ Save(n) \/ Die(n)
      BY <1>0, <1>3, <2>2 DEF Own, TypeInv, Handed, Start, Load, Save, Die, Ends, Go
    <2>3. ASSUME NEW place \in DOMAIN Moves, Move(n, place)
          PROVE  FALSE
      <3>1. at' = [at EXCEPT ![n] = After(n, place)] \/ at' = [at EXCEPT ![n] = After(n, "last")]
        BY <2>3, MoveIs DEF TypeInv
      <3> QED  BY <1>0, <1>3, <3>1, MovesAre, AfterIs DEF Own
    <2>4. CASE SocketStep(n)
      BY <1>0, <1>3, <2>4 DEF Own, TypeInv, Handed, SocketStep, Connect, ReadToken, Prove, Verdict,
         InstallToken, Bind, Taken, Reclaim, GiveUp, Ends, Go
    <2> QED  BY <1>3, <2>1, <2>2, <2>3, <2>4 DEF Acts
  <1>4. ASSUME NEW n \in Nodes, Acts(n)
        PROVE  Handed'
    BY <1>0, <1>3, <1>4, OthersStay DEF TypeInv, Handed
  <1>5. CASE Turn
    <2>1. UNCHANGED <<at, secret>>
      BY <1>5 DEF Turn
    <2>2. Handed'
      BY <2>1 DEF TypeInv, Handed
    <2> QED  BY <1>2, <1>5, <2>2 DEF Next, TypeInv
  <1>6. Next => Turn \/ \E n \in Nodes : Acts(n)
    BY DEF Next, Acts
  <1> QED  BY <1>1, <1>2, <1>4, <1>5, <1>6 DEF TypeInv
LEMMA StartupTypesInit == Init => TypeInv
  <1> SUFFICES ASSUME Init PROVE TypeInv
    OBVIOUS
  <1>1. Dir(Empty)
    BY DEF Dir, Empty, Files
  <1>2. Dir([Empty EXCEPT !.data = {earlier}])
    BY <1>1, WriteFile DEF Keys
  <1>3. Dir([Empty EXCEPT !.key = earlier, !.data = {earlier}])
    BY DEF Dir, Empty, Files, Keys
  <1>4. Dir([Empty EXCEPT !.mark = "set", !.data = {earlier}])
    BY DEF Dir, Empty, Files, Keys
  <1>5. Dir(cur) /\ Dir(old) /\ Dir(aside)
    BY <1>1, <1>2, <1>3, <1>4 DEF Init
  <1>6. {ring, oldRing} \subseteq Keys \cup {None}
    BY DEF Init, Keys
  <1>7. Shared
    BY <1>5, <1>6 DEF Init, Shared
  <1>8. Own /\ Handed
    BY DEF Init, Own, Places, Handed
  <1> QED  BY <1>7, <1>8, TypesAre DEF TypeInv

\* Every variable keeps its type.
THEOREM StartupTypes == Spec => []TypeOK
  <1>1. TypeInv => TypeOK
    BY DEF TypeInv
  <1> QED  BY <1>1, StartupTypesInit, TypeStep, PTL DEF Spec

-----------------------------------------------------------------------------
(* Who listens. *)

\* A step that claims nothing.
LEMMA NoClaim ==
    ASSUME Settled, UNCHANGED <<socket, token>>, crossed \subseteq crossed',
           \A m \in Nodes : at'[m] \in Claiming \cup {"up"} => at'[m] = at[m]
    PROVE  Settled'
  BY DEF Settled, Claiming

LEMMA SettledStep ==
    ASSUME SocketInv, [Next]_vars
    PROVE  Settled'
  <1>0. Own /\ Shared /\ Settled
    BY TypesAre DEF SocketInv, TypeInv
  <1>1. CASE Turn \/ UNCHANGED vars
    BY <1>0, <1>1, NoClaim DEF Turn, vars, story
  <1>2. ASSUME NEW n \in Nodes, Acts(n), UNCHANGED <<socket, token>>, crossed \subseteq crossed',
               at'[n] \in Claiming \cup {"up"} => at'[n] = at[n]
        PROVE  Settled'
    BY <1>0, <1>2, OthersStay, NoClaim
  <1>3. ASSUME NEW n \in Nodes, Start(n) \/ Load(n) \/ Save(n) \/ Die(n) \/ ReadToken(n)
        PROVE  Settled'
    <2>1. UNCHANGED <<socket, token, crossed>>
      BY <1>3 DEF Start, Load, Save, Die, ReadToken, story
    <2>2. at'[n] \in Claiming \cup {"up"} => at'[n] = at[n]
      BY <1>0, <1>3 DEF Own, Start, Load, Save, Die, ReadToken, Ends, Go, Claiming
    <2> QED  BY <1>2, <1>3, <2>1, <2>2 DEF Acts, SocketStep
  <1>4. ASSUME NEW n \in Nodes, NEW place \in DOMAIN Moves, Move(n, place)
        PROVE  Settled'
    <2>1. UNCHANGED <<socket, token, crossed>>
      BY <1>4 DEF Move
    <2>2. at' = [at EXCEPT ![n] = After(n, place)] \/ at' = [at EXCEPT ![n] = After(n, "last")]
      BY <1>4, MoveIs DEF SocketInv, TypeInv
    <2>3. at'[n] \notin Claiming \cup {"up"}
      BY <1>0, <2>2, MovesAre, AfterIs DEF Own, Claiming
    <2> QED  BY <1>2, <1>4, <2>1, <2>3 DEF Acts
  <1>5. ASSUME NEW n \in Nodes, KeyStep(n)
        PROVE  Settled'
    <2>1. UNCHANGED <<socket, token, crossed>>
      BY <1>5 DEF KeyStep, Ask, Adopt, Store, Forget, MarkKey, Decide, Doubt, Mint, story
    <2>2. at'[n] \notin Claiming \cup {"up"}
      BY <1>0, <1>5 DEF Own, KeyStep, Ask, Adopt, Store, Forget, MarkKey, Decide, Doubt, Mint, HoldsKey,
         GiveUp, Ends, Go, Claiming
    <2> QED  BY <1>2, <1>5, <2>1, <2>2 DEF Acts
  <1>6. ASSUME NEW n \in Nodes, NEW place \in {"look", "probe"}, Prove(n, place)
        PROVE  Settled'
    <2>1. UNCHANGED <<socket, token, crossed>>
      BY <1>6 DEF Prove, story
    <2>2. PICK answer \in {"running", "stranger", "silent"} : Verdict(n, place, answer)
      BY <1>6 DEF Prove
    <2>3. at'[n] \notin Claiming \cup {"up"}
      BY <1>0, <2>2, VerdictIs DEF Own, Ends, Go, Claiming
    <2> QED  BY <1>2, <1>6, <2>1, <2>3 DEF Acts, SocketStep
  \* Connecting claims the socket if nobody answers before the bind: then no node of whom
  \* Settled speaks is up, and those that claim it are crossed.
  <1>7. ASSUME NEW n \in Nodes, NEW place \in {"look", "probe"}, Connect(n, place)
        PROVE  Settled'
    <2>1. /\ UNCHANGED <<socket, token>> /\ at[n] = place
          /\ crossed' = crossed \/ crossed' = crossed \cup (Rivals(n) \cup {n}) \/ crossed' = crossed \cup {}
      BY <1>7 DEF Connect
    <2>2. CASE Answers \/ place = "look"
      <3>1. at'[n] \notin Claiming \cup {"up"}
        <4>1. CASE Answers
          BY <1>7, <2>1, <4>1 DEF Connect, Claiming
        <4>2. CASE ~Answers
          <5>1. Verdict(n, "look", "nothing")
            BY <1>7, <2>2, <4>2 DEF Connect
          <5> QED  BY <1>0, <5>1, VerdictIs DEF Own, Claiming
        <4> QED  BY <4>1, <4>2
      <3> QED  BY <1>2, <1>7, <2>1, <3>1 DEF Acts, SocketStep
    <2>3. CASE ~Answers /\ place = "probe"
      <3>1. Verdict(n, "probe", "nothing")
        BY <1>7, <2>3 DEF Connect
      <3>2. at' = [at EXCEPT ![n] = "token"]
        BY <1>0, <3>1, VerdictIs
      <3>3. \A m \in Nodes \ crossed : at[m] # "up"
        BY <1>0, <2>3, StartupAssumption DEF Settled, Answers
      <3>4. Rivals(n) # {} => Rivals(n) \subseteq crossed' /\ n \in crossed'
        BY <1>7, <2>3 DEF Connect
      <3>5. \A m \in Nodes \ {n} : at'[m] = at[m] /\ (at[m] \in Claiming => m \in Rivals(n))
        BY <1>0, <3>2 DEF Own, Rivals
      <3>6. crossed \subseteq crossed'
        BY <2>1
      <3>7. at'[n] = "token" /\ at'[n] \in Claiming
        BY <1>0, <3>2 DEF Own, Claiming
      <3>8. ASSUME NEW m \in Nodes \ crossed', m # n
            PROVE  at'[m] \notin Claiming \cup {"up"}
        BY <3>3, <3>4, <3>5, <3>6, <3>8
      <3>9. n \notin crossed' => \A m \in Nodes \ {n} : at'[m] \notin Claiming
        BY <3>4, <3>5
      <3> QED  BY <3>7, <3>8, <3>9 DEF Settled, Claiming
    <2> QED  BY <2>2, <2>3
  <1>8. ASSUME NEW n \in Nodes, InstallToken(n) \/ Bind(n) \/ Taken(n) \/ Reclaim(n)
        PROVE  Settled'
    <2>1. /\ at[n] \in Claiming /\ at'[n] \in Claiming \cup {"up", "dead"} /\ crossed' = crossed
          /\ socket' = IF at'[n] = "up" THEN n ELSE socket
          /\ token' = IF at[n] = "token" THEN n ELSE token
          /\ at'[n] # "token"
      <3>1. CASE InstallToken(n)
        BY <1>0, <3>1 DEF Own, InstallToken, Go, Claiming, story
      <3>2. CASE Bind(n)
        BY <1>0, <3>2 DEF Own, Bind, Go, Claiming, story
      <3>3. CASE Taken(n)
        BY <1>0, <3>3 DEF Own, Taken, GiveUp, Ends, Go, Claiming, story
      <3>4. CASE Reclaim(n)
        BY <1>0, <3>4 DEF Own, Reclaim, Go, Claiming, story
      <3> QED  BY <1>8, <3>1, <3>2, <3>3, <3>4
    <2>2. \A m \in Nodes \ {n} : at'[m] = at[m]
      BY <1>0, <1>8, OthersStay DEF Acts, SocketStep
    <2>3. \A m \in Nodes \ {n} : m \notin crossed => at[m] \notin Claiming \cup {"up"}
      BY <1>0, <2>1 DEF Settled
    <2>4. ASSUME n \notin crossed
          PROVE  /\ \A m \in Nodes \ {n} : at'[m] \notin Claiming
                 /\ at'[n] \in {"bind", "taken", "reclaim", "up"} => token' = n
                 /\ at'[n] = "up" => socket' = n
      BY <1>0, <2>1, <2>2, <2>4 DEF Settled, Claiming
    <2> QED  BY <2>1, <2>2, <2>3, <2>4 DEF Settled, Claiming
  <1> QED
    BY <1>1, <1>3, <1>4, <1>5, <1>6, <1>7, <1>8 DEF Next, SocketStep

LEMMA AskedStep ==
    ASSUME SocketInv, [Next]_vars
    PROVE  Asked'
  <1>0. Own /\ Shared /\ Settled /\ Asked /\ None \notin Nodes
    BY TypesAre, StartupAssumption DEF SocketInv, TypeInv
  <1>1. CASE Turn \/ UNCHANGED vars
    BY <1>0, <1>1 DEF Turn, vars, story, Asked
  <1>2. crossed \subseteq crossed'
    BY ZenonT(60) DEF Next, Start, Move, KeyStep, Ask, Adopt, Store, Forget, MarkKey, Decide, Doubt, Mint, Load,
       SocketStep, Connect, ReadToken, Prove, InstallToken, Bind, Taken, Reclaim, Save, Die, Turn, vars,
       story
  \* Who was up or dead is so after the step; who asks after it asked before it, or begins.
  <1>3. ASSUME NEW n \in Nodes, Acts(n)
        PROVE  at[n] \in {"up", "dead"} => at'[n] = at[n] \/ at'[n] = "dead"
    <2>1. CASE Start(n) \/ Load(n) \/ Save(n) \/ Die(n)
      BY <1>0, <2>1 DEF Own, Start, Load, Save, Die, Ends, Go
    <2>2. CASE \E place \in DOMAIN Moves : Move(n, place)
      BY <2>2, MoveIs, MovesAre DEF SocketInv, TypeInv
    <2>3. CASE KeyStep(n)
      BY <2>3 DEF KeyStep, Ask, Adopt, Store, Forget, MarkKey, Decide, Doubt, Mint
    <2>4. CASE SocketStep(n)
      BY <1>0, <2>4 DEF Asked, SocketStep, Connect, ReadToken, Prove, InstallToken, Bind, Taken, Reclaim
    <2> QED  BY <1>3, <2>1, <2>2, <2>3, <2>4 DEF Acts
  <1>4. ASSUME NEW n \in Nodes, Acts(n), call'[n] = None \/ (call'[n] = call[n] /\ at'[n] = at[n])
        PROVE  Asked'
    <2>1. ASSUME NEW m \in Nodes, call'[m] # None
          PROVE  call'[m] = call[m] /\ at'[m] = at[m]
      BY <1>0, <1>4, <2>1, OthersStay
    <2>2. ASSUME NEW m \in Nodes, at[m] \in {"up", "dead"}
          PROVE  at'[m] = at[m] \/ at'[m] = "dead"
      BY <1>0, <1>3, <1>4, <2>2, OthersStay
    <2>3. \A m \in Nodes : call[m] # None => call[m].to \in Nodes
      BY <1>0 DEF Own, CallsOf
    <2> QED  BY <1>0, <1>2, <2>1, <2>2, <2>3 DEF Asked
  <1>5. ASSUME NEW n \in Nodes, Start(n) \/ Load(n) \/ Save(n) \/ Die(n)
        PROVE  Asked'
    <2>1. call'[n] = None \/ (call'[n] = call[n] /\ at'[n] = at[n])
      BY <1>0, <1>5 DEF Own, Asked, Start, Load, Save, Die, Ends
    <2> QED  BY <1>4, <1>5, <2>1 DEF Acts
  <1>6. ASSUME NEW n \in Nodes, NEW place \in DOMAIN Moves, Move(n, place)
        PROVE  Asked'
    <2>1. call' = call /\ at[n] \in {"move", "next", "last"}
      BY <1>6, MoveIs, MovesAre DEF SocketInv, TypeInv
    <2> QED  BY <1>0, <1>4, <1>6, <2>1 DEF Acts, Asked
  <1>7. ASSUME NEW n \in Nodes, KeyStep(n)
        PROVE  Asked'
    <2>1. call[n] = None
      BY <1>0, <1>7 DEF Asked, KeyStep, Ask, Adopt, Store, Forget, MarkKey, Decide, Doubt, Mint
    <2>2. call'[n] = None
      BY <1>0, <1>7, <2>1 DEF Own, KeyStep, Ask, Adopt, Store, Forget, MarkKey, Decide, Doubt, Mint, GiveUp, Ends
    <2> QED  BY <1>4, <1>7, <2>2 DEF Acts
  <1>8. ASSUME NEW n \in Nodes, InstallToken(n) \/ Bind(n) \/ Taken(n) \/ Reclaim(n)
        PROVE  Asked'
    <2>1. call[n] = None
      BY <1>0, <1>8 DEF Asked, InstallToken, Bind, Taken, Reclaim
    <2>2. call'[n] = None
      BY <1>0, <1>8, <2>1 DEF Own, InstallToken, Bind, Taken, Reclaim, GiveUp, Ends
    <2> QED  BY <1>4, <1>8, <2>2 DEF Acts, SocketStep
  <1>9. ASSUME NEW n \in Nodes, NEW place \in {"look", "probe"}, Connect(n, place) \/ Prove(n, place)
        PROVE  Asked'
    <2>1. CASE \E answer \in {"nothing", "running", "stranger", "silent"} : Verdict(n, place, answer)
      <3>1. call'[n] = None
        BY <1>0, <2>1, VerdictIs DEF Own
      <3> QED  BY <1>4, <1>9, <3>1 DEF Acts, SocketStep
    <2>2. CASE Connect(n, place) /\ Answers
      <3>1. /\ call' = [call EXCEPT ![n] = [to |-> socket, token |-> None]] /\ at[n] = place
            /\ UNCHANGED at /\ socket \in Nodes /\ at[socket] = "up"
        BY <1>0, <2>2 DEF Connect, Answers, Shared
      <3>2. call'[n].to = socket /\ call'[n].token = None /\ \A m \in Nodes \ {n} : call'[m] = call[m]
        BY <1>0, <3>1 DEF Own
      <3> QED  BY <1>0, <1>2, <3>1, <3>2 DEF Asked
    <2> QED  BY <1>9, <2>1, <2>2 DEF Connect, Prove
  \* The token that is read is that of the node, unless its claim was crossed.
  <1>10. ASSUME NEW n \in Nodes, ReadToken(n)
         PROVE  Asked'
    <2>1. /\ call[n] \in CallsOf /\ call' = [call EXCEPT ![n].token = token]
          /\ UNCHANGED <<at, token, crossed>> /\ call[n] # None
      BY <1>0, <1>10 DEF ReadToken, Own, story
    <2>2. call'[n].to = call[n].to /\ call'[n].token = token /\ call[n].to \in Nodes
      BY <1>0, <2>1 DEF Own, CallsOf
    <2>3. \A m \in Nodes \ {n} : call'[m] = call[m]
      BY <1>0, <2>1 DEF Own
    <2>4. at[call[n].to] = "up" /\ call[n].to \notin crossed => token = call[n].to
      BY <1>0, <2>2 DEF Settled
    <2> QED  BY <1>0, <2>1, <2>2, <2>3, <2>4 DEF Asked
  <1> QED
    BY <1>1, <1>5, <1>6, <1>7, <1>8, <1>9, <1>10 DEF Next, SocketStep

LEMMA SocketInit == Init => SocketInv
  <1> SUFFICES ASSUME Init PROVE SocketInv
    OBVIOUS
  <1>1. \A n \in Nodes : at[n] = "off" /\ call[n] = None
    BY DEF Init
  <1> QED  BY <1>1, StartupTypesInit DEF SocketInv, Settled, Asked, Claiming

LEMMA SocketKept == SocketInv /\ [Next]_vars => SocketInv'
  BY TypeStep, SettledStep, AskedStep DEF SocketInv

\* A node that is up can be spoken to, for any number of processes that start and die
\* whenever they like: unless its claim crossed another's, the socket's name is its own
\* and its token is the one that callers read.
THEOREM ServingIsDrivable == Spec => []Drivable
  <1>1. SocketInv => Drivable
    BY DEF SocketInv, Settled, Drivable
  <1> QED  BY <1>1, SocketInit, SocketKept, PTL DEF Spec

\* A start that gives up for the socket's sake is right about it, for any number of
\* processes, though who_is_listening connects, reads the token and asks for the proof
\* one after another: there is a node, or there was one and it died meanwhile, unless
\* that node's claim crossed another's or it did not answer in time.
THEOREM GivingUpIsRight == Spec => NoFalseAlarm
  <1> DEFINE A == \A n \in Nodes : why[n] = None =>
                    /\ why'[n] \in {"running", "held"} => \E m \in Nodes \ {n} : at[m] = "up"
                    /\ why'[n] = "stranger" => at[call[n].to] = "dead" \/ call[n].to \in crossed
  <1>1. SocketInv /\ [Next]_vars => [A]_vars
    <2> SUFFICES ASSUME SocketInv, Next, NEW n \in Nodes, why[n] = None,
                        why'[n] \in {"running", "held", "stranger"}
                 PROVE  /\ why'[n] \in {"running", "held"} => \E m \in Nodes \ {n} : at[m] = "up"
                        /\ why'[n] = "stranger" => at[call[n].to] = "dead" \/ call[n].to \in crossed
      OBVIOUS
    <2>0. Own /\ Shared /\ Asked /\ None \notin Nodes /\ why'[n] # why[n]
      BY TypesAre, StartupAssumption DEF SocketInv, TypeInv, Reasons
    <2>1. ASSUME NEW m \in Nodes, Acts(m)
          PROVE  m = n
      BY <2>0, <2>1, OthersStay
    <2>2. CASE Start(n) \/ (\E place \in DOMAIN Moves : Move(n, place)) \/ Load(n) \/ Save(n) \/ Die(n) \/ Turn
      BY <2>0, <2>2 DEF Start, Move, Load, Save, Die, Turn
    <2>3. CASE KeyStep(n)
      <3>1. why' = why \/ why' = [why EXCEPT ![n] = "keyless"]
        BY <2>3 DEF KeyStep, Ask, Adopt, Store, Forget, MarkKey, Decide, Doubt, Mint, GiveUp
      <3> QED  BY <2>0, <3>1 DEF Own
    <2>4. CASE InstallToken(n) \/ Bind(n) \/ Reclaim(n) \/ ReadToken(n)
      BY <2>0, <2>4 DEF InstallToken, Bind, Reclaim, ReadToken
    <2>5. CASE Taken(n)
      <3>1. CASE Answers
        <4>1. why' = [why EXCEPT ![n] = "held"] /\ at[n] = "taken"
          BY <2>5, <3>1 DEF Taken, GiveUp
        <4>2. socket \in Nodes \ {n} /\ at[socket] = "up" /\ why'[n] = "held"
          BY <2>0, <3>1, <4>1 DEF Own, Shared, Answers
        <4> QED  BY <4>2
      <3>2. CASE ~Answers
        BY <2>0, <2>5, <3>2 DEF Taken
      <3> QED  BY <3>1, <3>2
    <2>6. ASSUME NEW place \in {"look", "probe"}, Connect(n, place)
          PROVE  FALSE
      <3>1. CASE Answers
        BY <2>0, <2>6, <3>1 DEF Connect
      <3>2. CASE ~Answers
        <4>1. Verdict(n, place, "nothing")
          BY <2>6, <3>2 DEF Connect
        <4> QED  BY <2>0, <4>1, VerdictIs
      <3> QED  BY <3>1, <3>2
    <2>7. ASSUME NEW place \in {"look", "probe"}, Prove(n, place)
          PROVE  /\ why'[n] \in {"running", "held"} => \E m \in Nodes \ {n} : at[m] = "up"
                 /\ why'[n] = "stranger" => at[call[n].to] = "dead" \/ call[n].to \in crossed
      <3>1. /\ at[n] = place /\ call[n] # None /\ call[n].token # None
            /\ call[n].to \in Nodes \ {n} /\ at[call[n].to] \in {"up", "dead"}
        BY <2>0, <2>7 DEF Prove, Own, CallsOf, Asked
      <3>2. ASSUME NEW answer \in {"running", "stranger", "silent"}, Verdict(n, place, answer)
            PROVE  why'[n] = answer
        BY <2>0, <3>2, VerdictIs DEF Own
      <3>3. CASE at[call[n].to] = "up" /\ call[n].token = call[n].to /\ Verdict(n, place, "running")
        BY <3>1, <3>2, <3>3
      <3>4. CASE (at[call[n].to] # "up" \/ call[n].token # call[n].to) /\ Verdict(n, place, "stranger")
        BY <2>0, <3>1, <3>2, <3>4 DEF Asked
      <3>5. CASE Verdict(n, place, "silent")
        BY <3>2, <3>5
      <3> QED  BY <2>7, <3>3, <3>4, <3>5 DEF Prove
    <2> QED  BY <2>1, <2>2, <2>3, <2>4, <2>5, <2>6, <2>7 DEF Next, Acts, SocketStep
  <1> HIDE DEF A
  <1>2. Spec => [][A]_vars
    BY <1>1, SocketInit, SocketKept, PTL DEF Spec
  <1> QED  BY <1>2 DEF A, NoFalseAlarm

-----------------------------------------------------------------------------
(* What the files and the keyring hold. *)

LEMMA MovedInit == Init => Moved
  BY DEF Init, Moved, Alive, Starting, Claiming

\* What a step does not forget has been gone wrong before it, too.
LEMMA LapsesStay ==
    ASSUME Next
    PROVE  lapse \subseteq lapse'
  <1>1. ASSUME NEW n \in Nodes,
               Start(n) \/ (\E place \in DOMAIN Moves : Move(n, place)) \/ Load(n) \/ Save(n) \/ Die(n) \/ Turn
        PROVE  lapse \subseteq lapse'
    BY <1>1 DEF Start, Move, Load, Save, Die, Turn, story
  <1>2. ASSUME NEW n \in Nodes, KeyStep(n)
        PROVE  lapse \subseteq lapse'
    BY <1>2 DEF KeyStep, Ask, Adopt, Store, Forget, MarkKey, Decide, Doubt, Mint, story
  <1>3. ASSUME NEW n \in Nodes, SocketStep(n)
        PROVE  lapse \subseteq lapse'
    BY <1>3 DEF SocketStep, Connect, ReadToken, Prove, InstallToken, Bind, Taken, Reclaim, story
  <1>4. CASE Turn
    BY <1>4 DEF Turn, story
  <1> QED  BY <1>1, <1>2, <1>3, <1>4 DEF Next

\* A step that writes nothing into the old directory.
LEMMA NotMoved ==
    ASSUME Moved, Unstuck, UNCHANGED old,
           \A m \in Nodes : at'[m] \in Alive => at'[m] = at[m] \/ at'[m] = "move"
                                             \/ at[m] \in Alive \ {"move", "next", "last"}
    PROVE  Moved'
  BY DEF Moved, Alive

LEMMA MovedStep ==
    ASSUME TypeInv, Moved, [Next]_vars
    PROVE  Moved'
  <1> SUFFICES ASSUME Next, "stuck" \notin lapse' PROVE Moved'
    BY DEF Moved, Unstuck, vars, dirs, story
  <1>0. Own /\ Shared /\ Unstuck /\ Files = {"key", "mark", "data"}
    BY TypesAre, LapsesStay DEF TypeInv, Files, Unstuck
  <1>1. ASSUME NEW n \in Nodes, NEW place \in DOMAIN Moves, Move(n, place)
        PROVE  Moved'
    <2>1. /\ at[n] = place /\ at' = [at EXCEPT ![n] = After(n, place)]
          /\ old'[Moves[place]] = None
          /\ \A f \in Files \ {Moves[place]} : old'[f] = old[f]
      BY <1>1, MoveIs DEF TypeInv
    <2>2. \A f \in Files : old[f] = None => old'[f] = None
      BY <2>1
    <2>3. /\ old.key = None => old'.key = None
          /\ old.mark = None => old'.mark = None
          /\ old.data = None => old'.data = None
      BY <1>0, <2>2
    <2>4. ASSUME NEW m \in Nodes, m # n
          PROVE  /\ at'[m] \in Alive \ {"move"} => old'.key = None
                 /\ at'[m] \in Alive \ {"move", "next"} => old'.mark = None
                 /\ at'[m] \in Alive \ {"move", "next", "last"} => old'.data = None
      <3>1. at'[m] = at[m]
        BY <1>0, <2>1, <2>4 DEF Own
      <3> QED  BY <1>0, <2>3, <3>1 DEF Moved
    <2>5. /\ at'[n] \in Alive \ {"move"} => old'.key = None
          /\ at'[n] \in Alive \ {"move", "next"} => old'.mark = None
          /\ at'[n] \in Alive \ {"move", "next", "last"} => old'.data = None
      <3>0. at'[n] = After(n, place)
        BY <1>0, <2>1 DEF Own
      <3>1. CASE place = "move"
        BY <2>1, <3>0, <3>1, MovesAre, AfterIs
      <3>2. CASE place = "next"
        BY <1>0, <2>1, <2>3, <3>0, <3>2, MovesAre, AfterIs DEF Moved, Alive, Starting
      <3>3. CASE place = "last"
        BY <1>0, <2>1, <2>3, <3>0, <3>3, MovesAre, AfterIs DEF Moved, Alive, Starting
      <3> QED  BY <3>1, <3>2, <3>3, MovesAre
    <2> QED  BY <2>4, <2>5 DEF Moved
  <1>2. ASSUME NEW n \in Nodes, Acts(n), UNCHANGED old,
               at'[n] \in Alive => at'[n] = at[n] \/ at'[n] = "move" \/ at[n] \in Alive \ {"move", "next", "last"}
        PROVE  Moved'
    BY <1>0, <1>2, OthersStay, NotMoved
  <1>3. ASSUME NEW n \in Nodes, Start(n) \/ Load(n) \/ Save(n) \/ Die(n)
        PROVE  Moved'
    <2>1. UNCHANGED old
      BY <1>3 DEF Start, Load, Save, Die, dirs
    <2>2. at'[n] \in Alive => at'[n] = at[n] \/ at'[n] = "move" \/ at[n] \in Alive \ {"move", "next", "last"}
      BY <1>0, <1>3 DEF Own, Start, Load, Save, Die, Ends, Go, Alive, Starting, Claiming
    <2> QED  BY <1>2, <1>3, <2>1, <2>2 DEF Acts
  <1>4. ASSUME NEW n \in Nodes, KeyStep(n)
        PROVE  Moved'
    <2>1. UNCHANGED old
      BY <1>4 DEF KeyStep, Ask, Adopt, Store, Forget, MarkKey, Decide, Doubt, Mint, dirs
    <2>2. at[n] \in Alive \ {"move", "next", "last"}
      BY <1>4 DEF KeyStep, Ask, Adopt, Store, Forget, MarkKey, Decide, Doubt, Mint, Alive, Starting
    <2> QED  BY <1>2, <1>4, <2>1, <2>2 DEF Acts
  <1>5. ASSUME NEW n \in Nodes, SocketStep(n)
        PROVE  Moved'
    <2>1. UNCHANGED old
      BY <1>5 DEF SocketStep, Connect, ReadToken, Prove, InstallToken, Bind, Taken, Reclaim, dirs
    <2>2. UNCHANGED at \/ at[n] \in Alive \ {"move", "next", "last"}
      BY <1>5 DEF SocketStep, Connect, ReadToken, Prove, InstallToken, Bind, Taken, Reclaim, Alive, Starting, Claiming
    <2> QED  BY <1>2, <1>5, <2>1, <2>2 DEF Acts
  <1>6. CASE Turn
    BY <1>0, <1>6, NotMoved DEF Turn, dirs
  <1> QED  BY <1>1, <1>3, <1>4, <1>5, <1>6 DEF Next

-----------------------------------------------------------------------------
(* The data. *)

LEMMA CarriedInit == Init => Carried
  <1> SUFFICES ASSUME Init PROVE Carried
    OBVIOUS
  <1> USE StartupAssumption
  <1>1. /\ earlier \notin Kept => Knows(old.data) \/ old.data = None
        /\ earlier \in Kept => Knows(old.data) \/ Knows(cur.data)
        /\ old.data # None => Knows(old.data)
    <2>1. PICK left \in Before :
            /\ old = CASE left = "file" -> [Empty EXCEPT !.key = earlier, !.data = {earlier}]
                       [] left = "ring" -> [Empty EXCEPT !.mark = "set", !.data = {earlier}]
                       [] OTHER -> Empty
            /\ cur = IF left = "unmarked" THEN [Empty EXCEPT !.data = {earlier}] ELSE Empty
            /\ ring = IF left = "unmarked" THEN earlier ELSE None
            /\ oldRing = IF left = "ring" THEN earlier ELSE None
      BY DEF Init
    <2>2. None # {earlier}
      OBVIOUS
    <2>3. /\ Empty.key = None /\ Empty.mark = None /\ Empty.data = None
          /\ DOMAIN Empty = {"key", "mark", "data"}
      BY DEF Empty, Files
    <2>4. CASE left = "file"
      BY <2>1, <2>2, <2>3, <2>4 DEF Knows
    <2>5. CASE left = "ring"
      BY <2>1, <2>2, <2>3, <2>5 DEF Knows
    <2>6. CASE left = "unmarked"
      BY <2>1, <2>2, <2>3, <2>6 DEF Knows
    <2>7. CASE left \notin {"file", "ring", "unmarked"}
      BY <2>1, <2>2, <2>3, <2>7 DEF Knows, Kept
    <2> QED  BY <2>4, <2>5, <2>6, <2>7
  <1> QED  BY <1>1 DEF Init, Carried, Online, Claiming, Unstuck

\* A step that writes no data, and gives nobody a key that was not there.
LEMMA SameData ==
    ASSUME Carried, Unstuck, UNCHANGED mind, cur'.data = cur.data, old'.data = old.data,
           earlier \in Kept' => earlier \in Kept \/ \E n \in Nodes : secret[n] = earlier,
           \A n \in Nodes : secret'[n] = earlier => earlier \in Kept \/ secret[n] = earlier,
           \A n \in Nodes : at'[n] \in Online \ {"load"} => at[n] \in Online \ {"load"}
    PROVE  Carried'
  BY DEF Carried, Knows

LEMMA CarriedStep ==
    ASSUME DataInv, [Next]_vars
    PROVE  Carried'
  <1> USE StartupAssumption
  <1> SUFFICES ASSUME Next, "stuck" \notin lapse' PROVE Carried'
    BY DEF DataInv, Carried, Unstuck, vars, dirs, rings, story, Kept
  <1>0. /\ Own /\ Shared /\ Unstuck
        /\ DOMAIN cur = Files /\ DOMAIN old = Files /\ {"key", "mark", "data"} = Files
        /\ None \notin SUBSET Keys
    BY TypesAre, LapsesStay DEF DataInv, TypeInv, Shared, Dir, Files, Unstuck, Keys
  <1>2. ASSUME NEW n \in Nodes, NEW place \in DOMAIN Moves, Move(n, place)
        PROVE  Carried'
    <2>1. /\ at[n] = place /\ at' = [at EXCEPT ![n] = After(n, place)]
          /\ UNCHANGED <<secret, mind, rings>>
          /\ old'[Moves[place]] = None
          /\ cur'[Moves[place]] = IF old[Moves[place]] # None THEN old[Moves[place]]
                                  ELSE cur[Moves[place]]
          /\ \A f \in Files \ {Moves[place]} : cur'[f] = cur[f] /\ old'[f] = old[f]
      BY <1>2, MoveIs DEF DataInv, TypeInv
    <2>2. \A m \in Nodes : at'[m] \in Online \ {"load"} => at[m] \in Online \ {"load"} /\ m # n
      BY <1>0, <2>1, MovesAre, AfterIs DEF Own, Online, Claiming
    <2>3. earlier \in Kept' => earlier \in Kept
      <3>1. {cur'.key, old'.key} \subseteq {cur.key, old.key, None}
        BY <1>0, <2>1, MovesAre
      <3> QED  BY <2>1, <3>1 DEF Kept, rings
    <2>4. CASE place \in {"move", "next"}
      <3>1. cur'.data = cur.data /\ old'.data = old.data
        BY <1>0, <2>1, <2>4, MovesAre
      <3> QED  BY <1>0, <2>1, <2>2, <2>3, <3>1, SameData DEF DataInv
    <2>5. CASE place = "last"
      <3>1. /\ old'.data = None
            /\ cur'.data = IF old.data # None THEN old.data ELSE cur.data
        BY <2>1, <2>5, MovesAre
      <3>2. CASE old.data = None
        <4>1. cur'.data = cur.data /\ old'.data = old.data
          BY <3>1, <3>2
        <4> QED  BY <1>0, <2>1, <2>2, <2>3, <4>1, SameData DEF DataInv
      <3>3. CASE old.data # None
        <4>1. Knows(cur'.data) /\ ~Knows(old'.data)
          BY <1>0, <3>1, <3>3 DEF DataInv, Carried, Knows
        <4>2. \A m \in Nodes : at'[m] \notin Online \ {"load"}
          <5>1. \A m \in Nodes : at[m] \in Online => old.data = None
            BY <1>0 DEF DataInv, Moved, Online, Alive, Starting, Claiming
          <5> QED  BY <2>2, <3>3, <5>1
        <4> QED  BY <2>1, <3>1, <4>1, <4>2 DEF Carried, Knows
      <3> QED  BY <3>2, <3>3
    <2> QED  BY <2>4, <2>5, MovesAre
  \* A step of one process that writes no data: what it takes in hand or puts into a
  \* store was in one or in its hand.
  <1>3. ASSUME NEW n \in Nodes, Acts(n), UNCHANGED mind, cur'.data = cur.data, old'.data = old.data,
               earlier \in Kept' => earlier \in Kept \/ secret[n] = earlier,
               secret'[n] = earlier => earlier \in Kept \/ secret[n] = earlier,
               at'[n] \in Online \ {"load"} => at[n] \in Online \ {"load"}
        PROVE  Carried'
    <2>1. \A m \in Nodes \ {n} : at'[m] = at[m] /\ secret'[m] = secret[m]
      BY <1>0, <1>3, OthersStay
    <2> QED  BY <1>0, <1>3, <2>1, SameData DEF DataInv
  <1>4. \A dir \in Marked : dir.data = cur.data /\ dir.key = cur.key
    BY <1>0 DEF Marked
  <1>5. ASSUME NEW n \in Nodes, KeyStep(n)
        PROVE  Carried'
    <2>1. /\ UNCHANGED <<old, aside>>
          /\ at'[n] \in Online \ {"load"} => at[n] \in Online \ {"load"}
      BY <1>0, <1>5 DEF Own, KeyStep, Ask, Adopt, Store, Forget, MarkKey, Decide, Doubt, Mint, HoldsKey,
         GiveUp, Ends, Go, Online, Claiming, dirs
    <2>2. CASE Ask(n) \/ Adopt(n) \/ Store(n) \/ Forget(n)
      <3>1. /\ UNCHANGED <<mind, dirs>> /\ ring' \in {ring, secret[n]} /\ oldRing' \in {oldRing, None}
            /\ secret'[n] \in {secret[n], ring, oldRing, None}
        BY <1>0, <2>2 DEF Own, Ask, Adopt, Store, Forget, rings
      <3>2. earlier \in Kept' => earlier \in Kept \/ secret[n] = earlier
        BY <3>1 DEF Kept, dirs
      <3>3. secret'[n] = earlier => earlier \in Kept \/ secret[n] = earlier
        BY <3>1 DEF Kept
      <3> QED  BY <1>3, <1>5, <2>1, <3>1, <3>2, <3>3 DEF Acts, dirs
    <2>3. CASE MarkKey(n)
      <3>1. /\ UNCHANGED <<mind, old, rings>> /\ cur'.data = cur.data /\ cur'.key = cur.key
            /\ secret'[n] = secret[n]
        BY <1>0, <1>4, <2>3 DEF Own, MarkKey, HoldsKey
      <3>2. Kept' = Kept
        BY <3>1 DEF Kept, rings
      <3> QED  BY <1>3, <1>5, <2>1, <3>1, <3>2 DEF Acts
    <2>4. CASE Decide(n)
      <3>1. UNCHANGED <<mind, dirs, rings>> /\ secret'[n] \in {secret[n], cur.key}
        BY <1>0, <2>4 DEF Own, Decide, HoldsKey
      <3>2. Kept' = Kept /\ (secret'[n] = earlier => earlier \in Kept \/ secret[n] = earlier)
        BY <3>1 DEF Kept, rings, dirs
      <3> QED  BY <1>3, <1>5, <2>1, <3>1, <3>2 DEF Acts, dirs
    <2>5. CASE Doubt(n)
      <3>1. UNCHANGED <<dirs, rings>> /\ at[n] = "doubt"
        BY <2>5 DEF Doubt
      <3>2. CASE cur.mark # None
        <4>1. Ends(n)
          BY <2>5, <3>2 DEF Doubt, GiveUp
        <4>2. /\ secret' = [secret EXCEPT ![n] = None] /\ mind' = [mind EXCEPT ![n] = {}]
              /\ at' = [at EXCEPT ![n] = "dead"]
          BY <1>0, <4>1, EndsIs
        <4>3. \A m \in Nodes : at'[m] \in Online \ {"load"} => at[m] = at'[m] /\ m # n
          BY <1>0, <4>2 DEF Own, Online, Claiming
        <4>4. \A m \in Nodes : (secret'[m] = earlier => secret[m] = earlier) /\ (m # n => mind'[m] = mind[m])
          BY <1>0, <4>2 DEF Own
        <4>5. Kept' = Kept /\ cur'.data = cur.data /\ old'.data = old.data
          BY <3>1 DEF Kept, dirs, rings
        <4> QED  BY <1>0, <4>3, <4>4, <4>5 DEF DataInv, Carried, Knows
      <3>3. CASE cur.mark = None
        <4>1. UNCHANGED <<secret, mind>>
          BY <2>5, <3>3 DEF Doubt
        <4>2. Kept' = Kept
          BY <3>1 DEF Kept, dirs, rings
        <4> QED  BY <1>3, <1>5, <2>1, <3>1, <4>1, <4>2 DEF Acts, dirs
      <3> QED  BY <3>2, <3>3
    <2>6. CASE Mint(n)
      <3>0. n \in Keys /\ n # earlier
        BY DEF Keys
      <3>1. /\ UNCHANGED <<mind, oldRing>> /\ ring' \in {ring, n} /\ secret'[n] = n
            /\ cur'.data = cur.data /\ cur'.key \in {cur.key, n}
        BY <1>0, <2>6 DEF Own, Mint, HoldsKey
      <3>2. earlier \in Kept' => earlier \in Kept
        BY <2>1, <3>0, <3>1 DEF Kept
      <3> QED  BY <1>3, <1>5, <2>1, <3>0, <3>1, <3>2 DEF Acts
    <2> QED  BY <1>5, <2>2, <2>3, <2>4, <2>5, <2>6 DEF KeyStep
  <1>8. ASSUME NEW n \in Nodes, Load(n)
        PROVE  Carried'
    <2>1. /\ mind' = [mind EXCEPT ![n] = IF cur.data = None THEN {} ELSE cur.data]
          /\ cur' = [cur EXCEPT !.data = IF cur.data = None THEN {} ELSE cur.data]
          /\ at' = [at EXCEPT ![n] = "probe"]
          /\ UNCHANGED <<secret, old, rings>>
      BY <1>8 DEF Load, Go
    <2>2. PICK d : d = IF cur.data = None THEN {} ELSE cur.data
      OBVIOUS
    <2>3. Knows(d) <=> Knows(cur.data)
      BY <2>2 DEF Knows
    <2>4. cur'.data = d /\ cur'.key = cur.key /\ mind'[n] = d /\ d # None
      BY <1>0, <2>1, <2>2 DEF Own
    <2>5. \A m \in Nodes \ {n} : mind'[m] = mind[m] /\ at'[m] = at[m]
      BY <1>0, <2>1 DEF Own
    <2>6. (Knows(cur'.data) <=> Knows(cur.data)) /\ (Knows(cur'.data) <=> earlier \in mind'[n])
      BY <2>3, <2>4 DEF Knows
    <2>7. Kept' = Kept /\ old'.data = old.data
      BY <2>1, <2>4 DEF Kept, rings
    <2> QED  BY <1>0, <2>1, <2>5, <2>6, <2>7 DEF DataInv, Carried, Knows
  <1>9. ASSUME NEW n \in Nodes, Save(n)
        PROVE  Carried'
    <2>1. /\ mind' = [mind EXCEPT ![n] = mind[n] \cup {n}] /\ cur' = [cur EXCEPT !.data = mind'[n]]
          /\ UNCHANGED <<at, secret, old, rings>> /\ at[n] \in Online \ {"load"}
      BY <1>9 DEF Save, Online
    <2>2. /\ mind'[n] = mind[n] \cup {n} /\ cur'.data = mind[n] \cup {n} /\ cur'.key = cur.key
          /\ \A m \in Nodes \ {n} : mind'[m] = mind[m]
          /\ mind[n] \cup {n} # None
      <3>1. mind[n] \cup {n} \in SUBSET Keys
        BY <1>0 DEF Keys, Own
      <3> QED  BY <1>0, <2>1, <3>1 DEF Own
    <2>3. \A m \in Nodes : earlier \in mind'[m] <=> earlier \in mind[m]
      BY <2>2
    <2>4. Knows(cur'.data) <=> Knows(cur.data)
      BY <1>0, <2>1, <2>2 DEF DataInv, Carried, Knows
    <2>5. Kept' = Kept
      BY <2>1, <2>2 DEF Kept, rings
    <2> QED  BY <1>0, <2>1, <2>3, <2>4, <2>5 DEF DataInv, Carried, Knows
  \* A step that may end a process, and writes no file.
  <1>10. ASSUME NEW n \in Nodes, Acts(n), UNCHANGED <<dirs, ring, oldRing>>,
                secret'[n] \in {secret[n], None},
                at'[n] \in Online \ {"load"} => at[n] \in Online \ {"load"} /\ mind'[n] = mind[n]
         PROVE  Carried'
    <2>1. \A m \in Nodes \ {n} : at'[m] = at[m] /\ secret'[m] = secret[m] /\ mind'[m] = mind[m]
      BY <1>0, <1>10, OthersStay
    <2>2. Kept' = Kept /\ cur'.data = cur.data /\ old'.data = old.data
      BY <1>10 DEF Kept, dirs
    <2> QED  BY <1>0, <1>10, <2>1, <2>2 DEF DataInv, Carried, Knows
  <1>11. ASSUME NEW n \in Nodes, Start(n) \/ Die(n)
         PROVE  Carried'
    <2>1. /\ UNCHANGED <<dirs, ring, oldRing>> /\ secret'[n] \in {secret[n], None}
          /\ at'[n] \notin Online \ {"load"}
      BY <1>0, <1>11 DEF Own, Start, Die, Ends, Go, Online, Claiming, rings
    <2> QED  BY <1>10, <1>11, <2>1 DEF Acts
  <1>12. ASSUME NEW n \in Nodes, InstallToken(n) \/ Bind(n) \/ Taken(n) \/ Reclaim(n) \/ ReadToken(n)
         PROVE  Carried'
    <2>1. UNCHANGED <<dirs, ring, oldRing>>
      BY <1>12 DEF InstallToken, Bind, Taken, Reclaim, ReadToken, rings
    <2>2. /\ secret'[n] \in {secret[n], None}
          /\ at'[n] \in Online \ {"load"} => at[n] \in Online \ {"load"} /\ mind'[n] = mind[n]
      BY <1>0, <1>12 DEF Own, InstallToken, Bind, Taken, Reclaim, ReadToken, GiveUp, Ends, Go, Online, Claiming
    <2> QED  BY <1>10, <1>12, <2>1, <2>2 DEF Acts, SocketStep
  <1>13. ASSUME NEW n \in Nodes, NEW place \in {"look", "probe"}, Connect(n, place) \/ Prove(n, place)
         PROVE  Carried'
    <2>1. UNCHANGED <<dirs, ring, oldRing>> /\ at[n] = place
      BY <1>13 DEF Connect, Prove, rings
    <2>2. CASE \E answer \in {"nothing", "running", "stranger", "silent"} : Verdict(n, place, answer)
      <3>1. /\ secret'[n] \in {secret[n], None}
            /\ at'[n] \in Online \ {"load"} => at[n] \in Online \ {"load"} /\ mind'[n] = mind[n]
        BY <1>0, <2>1, <2>2, VerdictIs DEF Own, Ends, Go, Online, Claiming
      <3> QED  BY <1>10, <1>13, <2>1, <3>1 DEF Acts, SocketStep
    <2>3. CASE Connect(n, place) /\ Answers
      <3>1. UNCHANGED <<at, secret, mind>>
        BY <2>3 DEF Connect
      <3> QED  BY <1>10, <1>13, <2>1, <3>1 DEF Acts, SocketStep
    <2> QED  BY <1>13, <2>2, <2>3 DEF Connect, Prove
  <1>14. CASE Turn
    <2>1. UNCHANGED <<at, secret, mind, dirs, ring, oldRing>>
      BY <1>14 DEF Turn
    <2>2. Kept' = Kept /\ cur'.data = cur.data /\ old'.data = old.data
      BY <2>1 DEF Kept, dirs
    <2> QED  BY <1>0, <2>1, <2>2, SameData DEF DataInv
  <1> QED
    BY <1>2, <1>5, <1>8, <1>9, <1>11, <1>12, <1>13, <1>14 DEF Next, SocketStep

LEMMA DataInit == Init => DataInv
  BY StartupTypesInit, MovedInit, CarriedInit DEF DataInv

LEMMA DataKept == DataInv /\ [Next]_vars => DataInv'
  BY TypeStep, MovedStep, CarriedStep DEF DataInv

\* A node on the network with the address of before knows the devices that were
\* paired with it, whatever died while the files were moved and however many start
\* at once, unless a move failed half-way: migrate_between moves the key first and the
\* pairings last, and load comes after.
THEOREM UpgradeKeepsPairings == Spec => []PairingsCarried
  <1>1. DataInv => PairingsCarried
    BY DEF DataInv, Moved, Carried, PairingsCarried, Online, Alive, Starting, Claiming, Knows, Unstuck
  <1> QED  BY <1>1, DataInit, DataKept, PTL DEF Spec

\* Nor is what an earlier version knew ever lost from the disk, unless a move failed
\* half-way: then the second start that moves the file loses what the first set aside.
THEOREM PairingsStayOnDisk == Spec => []("stuck" \notin lapse => NothingOverwritten)
  <1>1. DataInv => ("stuck" \notin lapse => NothingOverwritten)
    BY DEF DataInv, Carried, NothingOverwritten, Knows, Unstuck
  <1> QED  BY <1>1, DataInit, DataKept, PTL DEF Spec

-----------------------------------------------------------------------------
(* The key. *)

LEMMA KeyInit == Init => KeyInv
  <1> SUFFICES ASSUME Init PROVE KeyInv
    OBVIOUS
  <1> USE StartupAssumption
  <1>1. TypeInv /\ Moved
    BY StartupTypesInit, MovedInit
  <1>2. PICK left \in Before :
          /\ old = CASE left = "file" -> [Empty EXCEPT !.key = earlier, !.data = {earlier}]
                     [] left = "ring" -> [Empty EXCEPT !.mark = "set", !.data = {earlier}]
                     [] OTHER -> Empty
          /\ cur = IF left = "unmarked" THEN [Empty EXCEPT !.data = {earlier}] ELSE Empty
          /\ ring = IF left = "unmarked" THEN earlier ELSE None
          /\ oldRing = IF left = "ring" THEN earlier ELSE None
    BY DEF Init
  <1>3. /\ Empty.key = None /\ DOMAIN Empty = {"key", "mark", "data"}
    BY DEF Empty, Files
  <1>4. cur.key = None /\ old.key \in {None, earlier}
    BY <1>2, <1>3
  <1>5. \A a \in Kept : a = earlier
    BY <1>2, <1>4 DEF Kept
  <1>6. used = {} /\ \A n \in Nodes : at[n] = "off"
    BY DEF Init
  <1> QED  BY <1>1, <1>5, <1>6 DEF KeyInv, Sole, InHand, Bare

\* A step that changes no key: nobody takes one in hand that is in no store, and
\* nobody begins to make one.
LEMMA SameKeys ==
    ASSUME Sole, InHand, Bare, Kept' = Kept, used' \subseteq Kept, ring # None => ring' # None, cur'.key = cur.key,
           \A m \in Nodes : at'[m] \in {"store", "forget", "mark"} =>
               /\ secret'[m] \in Kept
               /\ at'[m] = "forget" => ring' # None,
           \A m \in Nodes : at'[m] \in {"doubt", "mint"} => at'[m] = at[m]
    PROVE  Sole' /\ InHand' /\ Bare'
  BY DEF Sole, InHand, Bare

LEMMA KeyKept ==
    ASSUME KeyInv, [Next]_vars
    PROVE  KeyInv'
  <1> USE StartupAssumption
  <1>1. TypeInv' /\ Moved'
    BY TypeStep, MovedStep DEF KeyInv
  <1>2. CASE UNCHANGED vars
    BY <1>1, <1>2 DEF vars, dirs, rings, story, KeyInv, Sole, InHand, Bare, Kept
  <1> SUFFICES ASSUME Next, lapse' = {} PROVE Sole' /\ InHand' /\ Bare'
    BY <1>1, <1>2 DEF KeyInv
  <1>0. /\ Own /\ Shared /\ lapse = {} /\ Unstuck /\ Sole /\ InHand /\ Bare
        /\ DOMAIN cur = Files /\ DOMAIN old = Files /\ {"key", "mark", "data"} = Files
    BY TypesAre, LapsesStay DEF KeyInv, TypeInv, Shared, Dir, Files, Unstuck
  \* A step of one process that changes no key.
  <1>3. ASSUME NEW n \in Nodes, Acts(n), ring' = ring, oldRing' = oldRing, cur'.key = cur.key,
               old'.key = old.key, used' \subseteq Kept,
               at'[n] \in {"store", "forget", "mark"} => secret'[n] \in Kept /\ (at'[n] = "forget" => ring # None),
               at'[n] \in {"doubt", "mint"} => at'[n] = at[n]
        PROVE  Sole' /\ InHand' /\ Bare'
    <2>1. Kept' = Kept
      BY <1>3 DEF Kept
    <2>2. \A m \in Nodes \ {n} : at'[m] = at[m] /\ secret'[m] = secret[m]
      BY <1>0, <1>3, OthersStay
    <2>3. \A m \in Nodes : at'[m] \in {"store", "forget", "mark"} =>
             secret'[m] \in Kept /\ (at'[m] = "forget" => ring' # None)
      BY <1>0, <1>3, <2>2 DEF InHand
    <2>4. \A m \in Nodes : at'[m] \in {"doubt", "mint"} => at'[m] = at[m]
      BY <1>3, <2>2
    <2> QED  BY <1>0, <1>3, <2>1, <2>3, <2>4, SameKeys
  <1>4. ASSUME NEW n \in Nodes, Start(n) \/ Load(n) \/ Save(n) \/ Die(n)
        PROVE  Sole' /\ InHand' /\ Bare'
    <2>1. UNCHANGED <<ring, oldRing, used, old>>
      BY <1>4 DEF Start, Load, Save, Die, dirs, rings, story
    <2>2. cur'.key = cur.key
      BY <1>0, <1>4 DEF Start, Load, Save, Die, dirs
    <2>3. at'[n] \notin {"store", "forget", "mark", "doubt", "mint"}
      BY <1>0, <1>4 DEF Own, Start, Load, Save, Die, Ends, Go
    <2> QED  BY <1>0, <1>3, <1>4, <2>1, <2>2, <2>3 DEF Acts, Sole
  <1>5. ASSUME NEW n \in Nodes, SocketStep(n)
        PROVE  Sole' /\ InHand' /\ Bare'
    <2>1. UNCHANGED <<ring, oldRing, used, old, cur>>
      BY <1>5 DEF SocketStep, Connect, ReadToken, Prove, InstallToken, Bind, Taken, Reclaim, dirs, rings, story
    <2>2. CASE at' = at /\ secret' = secret
      BY <1>0, <1>3, <1>5, <2>1, <2>2 DEF Acts, Sole, InHand
    <2>3. CASE at'[n] \notin {"store", "forget", "mark", "doubt", "mint"}
      BY <1>0, <1>3, <1>5, <2>1, <2>3 DEF Acts, Sole
    <2>4. ASSUME NEW place \in {"look", "probe"}, NEW answer \in {"nothing", "running", "stranger", "silent"},
                 Verdict(n, place, answer)
          PROVE  at'[n] \notin {"store", "forget", "mark", "doubt", "mint"}
      BY <1>0, <2>4, VerdictIs DEF Own, Ends, Go
    <2>5. ASSUME NEW place \in {"look", "probe"}, Connect(n, place) \/ Prove(n, place)
          PROVE  (at' = at /\ secret' = secret) \/ at'[n] \notin {"store", "forget", "mark", "doubt", "mint"}
      <3>1. CASE \E answer \in {"nothing", "running", "stranger", "silent"} : Verdict(n, place, answer)
        BY <2>4, <3>1
      <3>2. CASE Connect(n, place) /\ Answers
        BY <3>2 DEF Connect
      <3> QED  BY <2>5, <3>1, <3>2 DEF Connect, Prove
    <2>6. CASE ReadToken(n)
      BY <2>2, <2>6 DEF ReadToken
    <2>7. CASE InstallToken(n) \/ Bind(n) \/ Taken(n) \/ Reclaim(n)
      <3>1. at'[n] \notin {"store", "forget", "mark", "doubt", "mint"}
        BY <1>0, <2>7 DEF Own, InstallToken, Bind, Taken, Reclaim, GiveUp, Ends, Go
      <3> QED  BY <2>3, <3>1
    <2> QED  BY <1>5, <2>2, <2>3, <2>5, <2>6, <2>7 DEF SocketStep
  <1>6. CASE Turn
    <2>1. UNCHANGED <<at, secret, cur, old, ring, oldRing, used>>
      BY <1>6 DEF Turn, dirs, story
    <2>2. Kept' = Kept
      BY <2>1 DEF Kept
    <2> QED  BY <1>0, <2>1, <2>2, SameKeys DEF Sole, InHand
  <1>7. ASSUME NEW n \in Nodes, NEW place \in DOMAIN Moves, Move(n, place)
        PROVE  Sole' /\ InHand' /\ Bare'
    <2>1. /\ at[n] = place /\ at' = [at EXCEPT ![n] = After(n, place)]
          /\ UNCHANGED <<used, rings, secret>>
          /\ old'[Moves[place]] = None
          /\ cur'[Moves[place]] = IF old[Moves[place]] # None THEN old[Moves[place]]
                                  ELSE cur[Moves[place]]
          /\ \A f \in Files \ {Moves[place]} : cur'[f] = cur[f] /\ old'[f] = old[f]
      BY <1>0, <1>7, MoveIs DEF KeyInv, TypeInv
    <2>2. /\ at'[n] \notin {"store", "forget", "mark", "doubt", "mint"}
          /\ \A m \in Nodes \ {n} : at'[m] = at[m]
      BY <1>0, <2>1, MovesAre, AfterIs DEF Own
    <2>3. CASE place = "move" /\ old.key # None
      \* Then nobody has found no key: whoever looks for one has passed this file.
      <3>1. old'.key = None /\ cur'.key = old.key /\ (cur.key # None => cur.key = old.key)
        BY <1>0, <2>1, <2>3, MovesAre DEF Sole, Kept
      <3>2. Kept' = Kept
        BY <2>1, <3>1 DEF Kept, rings
      <3>3. \A m \in Nodes : at[m] \notin {"doubt", "mint"}
        BY <1>0, <2>3 DEF KeyInv, Moved, Alive, Starting
      <3>4. \A m \in Nodes : at'[m] \notin {"doubt", "mint"}
        BY <2>2, <3>3
      <3>5. Sole' /\ Bare'
        BY <1>0, <2>1, <3>2, <3>4 DEF Sole, Bare
      <3>6. InHand'
        BY <1>0, <2>1, <2>2, <3>2 DEF InHand, rings
      <3> QED  BY <3>5, <3>6
    <2>4. CASE ~(place = "move" /\ old.key # None)
      <3>1. cur'.key = cur.key /\ old'.key = old.key
        BY <1>0, <2>1, <2>4, MovesAre
      <3> QED  BY <1>0, <1>3, <1>7, <2>1, <2>2, <3>1 DEF Acts, rings, Sole
    <2> QED  BY <2>3, <2>4
  <1>8. ASSUME NEW n \in Nodes, Ask(n) \/ Adopt(n)
        PROVE  Sole' /\ InHand' /\ Bare'
    <2>1. UNCHANGED <<ring, oldRing, used, old, cur>>
      BY <1>8 DEF Ask, Adopt, dirs, rings, story
    <2>2. /\ at'[n] \in {"store", "forget", "mark"} => secret'[n] \in Kept /\ at'[n] # "forget"
          /\ at'[n] \notin {"doubt", "mint"}
      BY <1>0, <1>8 DEF Own, Ask, Adopt, Go, Kept
    <2> QED  BY <1>0, <1>3, <1>8, <2>1, <2>2 DEF Acts, KeyStep, Sole
  \* What is stored is the key there is.
  <1>9. ASSUME NEW n \in Nodes, Store(n)
        PROVE  Sole' /\ InHand' /\ Bare'
    <2>1. UNCHANGED <<oldRing, used, old, cur>> /\ at[n] = "store" /\ secret[n] \in Kept
      BY <1>0, <1>9 DEF Store, dirs, story, InHand
    <2>2. CASE unlocked /\ ring' = secret[n] /\ Go(n, "forget") /\ UNCHANGED secret
      <3>1. Kept' = Kept
        <4>1. ring # None => ring = secret[n]
          BY <1>0, <2>1 DEF Sole, Kept
        <4>2. secret[n] # None /\ \A k \in Kept : k = secret[n]
          BY <1>0, <2>1 DEF Sole, Kept
        <4>3. \A k \in Kept' : k = secret[n]
          BY <2>1, <2>2, <4>2 DEF Kept
        <4>4. secret[n] \in Kept'
          BY <2>2, <4>2 DEF Kept
        <4> QED  BY <2>1, <4>2, <4>3, <4>4
      <3>2. ring' # None /\ at' = [at EXCEPT ![n] = "forget"]
        BY <2>1, <2>2 DEF Go, Kept
      <3>3. \A m \in Nodes : at'[m] \in {"store", "forget", "mark"} => secret'[m] \in Kept
        BY <1>0, <2>1, <2>2, <3>2 DEF Own, InHand
      <3>4. \A m \in Nodes : at'[m] \in {"doubt", "mint"} => at'[m] = at[m]
        BY <1>0, <3>2 DEF Own
      <3> QED  BY <1>0, <2>1, <3>1, <3>2, <3>3, <3>4, SameKeys DEF Sole
    <2>3. CASE ~unlocked /\ Go(n, "decide") /\ UNCHANGED ring
      <3>1. at'[n] = "decide"
        BY <1>0, <2>3 DEF Own, Go
      <3> QED  BY <1>0, <1>3, <1>9, <2>1, <2>3, <3>1 DEF Acts, KeyStep, Sole
    <2> QED  BY <1>9, <2>2, <2>3 DEF Store
  \* What is deleted is in the keyring under the new name.
  <1>10. ASSUME NEW n \in Nodes, Forget(n)
         PROVE  Sole' /\ InHand' /\ Bare'
    <2>1. /\ UNCHANGED <<ring, used, old, cur, secret>> /\ at[n] = "forget" /\ oldRing' \in {oldRing, None}
          /\ at' = [at EXCEPT ![n] = "mark"]
      BY <1>10 DEF Forget, Go, dirs, story
    <2>2. ring # None /\ ring \in Kept /\ \A k \in Kept : k = ring
      BY <1>0, <2>1 DEF InHand, Sole, Kept
    <2>3. Kept' = Kept
      <3>1. \A k \in Kept' : k \in Kept
        BY <2>1 DEF Kept
      <3>2. ring \in Kept'
        BY <2>1, <2>2 DEF Kept
      <3> QED  BY <2>2, <3>1, <3>2
    <2>4. \A m \in Nodes : at'[m] \in {"store", "forget", "mark"} =>
             secret'[m] \in Kept /\ (at'[m] = "forget" => ring' # None)
      BY <1>0, <2>1, <2>2 DEF Own, InHand
    <2>5. \A m \in Nodes : at'[m] \in {"doubt", "mint"} => at'[m] = at[m]
      BY <1>0, <2>1 DEF Own
    <2> QED  BY <1>0, <2>1, <2>3, <2>4, <2>5, SameKeys DEF Sole
  <1>11. ASSUME NEW n \in Nodes, MarkKey(n)
         PROVE  Sole' /\ InHand' /\ Bare'
    <2>1. /\ UNCHANGED <<ring, oldRing, old>> /\ cur'.key = cur.key /\ at[n] = "mark"
          /\ used' = used \cup {secret[n]} /\ at' = [at EXCEPT ![n] = "load"]
      BY <1>0, <1>11 DEF MarkKey, Marked, HoldsKey, Go, rings
    <2>2. used' \subseteq Kept /\ at'[n] = "load"
      BY <1>0, <2>1 DEF Own, InHand, Sole
    <2> QED  BY <1>3, <1>11, <2>1, <2>2 DEF Acts, KeyStep
  \* Whoever finds no key is alone with that, or it is a lapse.
  <1>12. ASSUME NEW n \in Nodes, Decide(n)
         PROVE  Sole' /\ InHand' /\ Bare'
    <2>1. UNCHANGED <<ring, oldRing, old, cur>> /\ at[n] = "decide"
      BY <1>12 DEF Decide, dirs, rings
    <2>2. CASE cur.key # None /\ HoldsKey(n, cur.key)
      <3>1. used' = used \cup {cur.key} /\ at'[n] = "load" /\ cur.key \in Kept
        BY <1>0, <2>2 DEF Own, HoldsKey, Go, Kept
      <3> QED  BY <1>0, <1>3, <1>12, <2>1, <3>1 DEF Acts, KeyStep, Sole
    <2>3. CASE /\ cur.key = None /\ Go(n, "doubt") /\ UNCHANGED <<secret, used>>
               /\ lapse' = lapse \cup (IF \E m \in Nodes \ {n} : at[m] \in {"doubt", "mint"}
                                          THEN {"together"} ELSE {})
      <3>1. \A m \in Nodes \ {n} : at[m] \notin {"doubt", "mint"}
        BY <2>3
      <3>2. at' = [at EXCEPT ![n] = "doubt"]
        BY <2>3 DEF Go
      <3>3. Kept' = Kept
        BY <2>1 DEF Kept
      <3>4. \A m \in Nodes : at'[m] \in {"doubt", "mint"} <=> m = n
        BY <1>0, <3>1, <3>2 DEF Own
      <3>5. at'[n] = "doubt" /\ \A m \in Nodes \ {n} : at'[m] = at[m]
        BY <1>0, <3>2 DEF Own
      <3>6. Bare'
        BY <2>1, <2>3, <3>4, <3>5 DEF Bare
      <3>7. Sole' /\ InHand'
        BY <1>0, <2>1, <2>3, <3>3, <3>5 DEF Sole, InHand
      <3> QED  BY <3>6, <3>7
    <2> QED  BY <1>12, <2>2, <2>3 DEF Decide
  \* Without a marker nor a file there is no key, or it is a lapse.
  <1>13. ASSUME NEW n \in Nodes, Doubt(n)
         PROVE  Sole' /\ InHand' /\ Bare'
    <2>1. UNCHANGED <<ring, oldRing, old, cur, used>> /\ at[n] = "doubt"
      BY <1>13 DEF Doubt, dirs, rings
    <2>2. CASE cur.mark # None
      <3>1. at'[n] = "dead"
        BY <1>0, <1>13, <2>2 DEF Own, Doubt, GiveUp, Ends, Go
      <3> QED  BY <1>0, <1>3, <1>13, <2>1, <3>1 DEF Acts, KeyStep, Sole
    <2>3. CASE cur.mark = None
      <3>1. /\ at' = [at EXCEPT ![n] = "mint"] /\ UNCHANGED secret
            /\ lapse' = lapse \cup (IF Unmarked THEN {"unmarked"} ELSE {})
        BY <1>13, <2>3 DEF Doubt, Go
      <3>2. ~Unmarked
        BY <3>1
      <3>3. old.key = None /\ old.mark = None /\ cur.key = None
        BY <1>0, <2>1 DEF KeyInv, Moved, Bare, Alive, Starting
      <3>4. Kept = {} /\ Kept' = {}
        BY <2>1, <2>3, <3>2, <3>3 DEF Unmarked, Kept
      <3>5. at'[n] = "mint" /\ \A m \in Nodes \ {n} : at'[m] = at[m]
        BY <1>0, <3>1 DEF Own
      <3>6. Sole' /\ InHand'
        BY <1>0, <2>1, <3>1, <3>4, <3>5 DEF Sole, InHand
      <3>7. Bare'
        BY <1>0, <2>1, <3>4, <3>5 DEF Bare
      <3> QED  BY <3>6, <3>7
    <2> QED  BY <2>2, <2>3
  <1>14. ASSUME NEW n \in Nodes, Mint(n)
         PROVE  Sole' /\ InHand' /\ Bare'
    <2>1. /\ at[n] = "mint" /\ UNCHANGED <<old, oldRing>> /\ Kept = {} /\ used = {}
          /\ \A m \in Nodes \ {n} : at[m] \notin {"doubt", "mint", "store", "forget", "mark"}
      BY <1>0, <1>14 DEF Mint, Bare, InHand, Sole
    <2>2. \A m \in Nodes \ {n} : at'[m] = at[m]
      BY <1>0, <1>14, OthersStay DEF Acts, KeyStep
    <2>3. ring = None /\ oldRing = None /\ cur.key = None /\ old.key = None
      BY <2>1 DEF Kept
    <2>4. Kept' = {n} /\ used' \subseteq {n} /\ secret'[n] = n /\ at'[n] \in {"mark", "load"}
      <3>1. CASE ring' = n /\ secret' = [secret EXCEPT ![n] = n] /\ Go(n, "mark") /\ UNCHANGED <<cur, used>>
        BY <1>0, <2>1, <2>3, <3>1 DEF Own, Go, Kept
      <3>2. CASE cur' = [cur EXCEPT !.key = n] /\ HoldsKey(n, n) /\ UNCHANGED ring
        BY <1>0, <2>1, <2>3, <3>2 DEF Own, HoldsKey, Go, Kept
      <3> QED  BY <1>14, <3>1, <3>2 DEF Mint
    <2> QED  BY <2>1, <2>2, <2>4 DEF Sole, InHand, Bare
  <1> QED
    BY <1>4, <1>5, <1>6, <1>7, <1>8, <1>9, <1>10, <1>11, <1>12, <1>13, <1>14 DEF Next, KeyStep

\* A device keeps its address, for any number of processes that start and die
\* whenever they like, and whether the keyring answers or not: unless a process made a
\* key while a keyring that was locked held one without its marker, two had found no
\* key at the same time, or a file could not be moved.
THEOREM AddressIsKept == Spec => []OneKey
  <1>1. KeyInv => OneKey
    <2> SUFFICES ASSUME KeyInv, lapse = {}
                 PROVE  /\ Cardinality(used) <= 1
                        /\ earlier \in {ring, oldRing, cur.key, old.key} => used \subseteq {earlier}
      BY DEF OneKey
    <2>1. \A a, b \in used : a = b
      BY DEF KeyInv, Sole
    <2>2. Cardinality(used) <= 1
      <3>1. CASE used = {}
        BY <3>1, FS_EmptySet
      <3>2. CASE used # {}
        <4>1. PICK k : used = {k}
          BY <2>1, <3>2
        <4> QED  BY <4>1, FS_Singleton
      <3> QED  BY <3>1, <3>2
    <2>3. earlier \in {ring, oldRing, cur.key, old.key} => used \subseteq {earlier}
      BY StartupAssumption DEF KeyInv, Sole, Kept
    <2> QED  BY <2>2, <2>3
  <1> QED  BY <1>1, KeyInit, KeyKept, PTL DEF Spec
=============================================================================
