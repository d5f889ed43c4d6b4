------------------------------ MODULE Startup ------------------------------
(***************************************************************************)
(* Processes of one user on one machine, each of which wants to be this    *)
(* device: the app and the daemon.  A start moves what an older version    *)
(* left (core/identity.rs), finds or makes the key (keystore/lib.rs), goes *)
(* on the network, and then claims the local socket and publishes the      *)
(* secret that callers must know (core/node.rs, core/ipc.rs).  What they   *)
(* share is files, the keyring and the name of the socket; an action is    *)
(* one access to one of these.                                             *)
(***************************************************************************)
EXTENDS Naturals, FiniteSets

CONSTANTS Nodes,        \* processes; each starts once, and its key and its token
                        \* are named after it
          App,          \* those that are the app; the others are the daemon
          Before,       \* what an earlier version may have left
          Crowd,        \* bound: processes that run at the same time
          Faults,       \* "marker": it cannot be written; "move": nor a file moved
          earlier,      \* the key of before, and what that version knew
          None

Leavings == {"nothing", "file", "ring", "unmarked"}
Reasons == {"running", "stranger", "silent", "held", "keyless"}
ASSUME StartupAssumption ==
    /\ App \subseteq Nodes /\ Crowd \in Nat
    /\ Before \subseteq Leavings /\ Faults \subseteq {"marker", "move"}
    /\ earlier \notin Nodes /\ None \notin Nodes \cup Reasons \cup {earlier, "set"}
    /\ \A known \in SUBSET (Nodes \cup {earlier}) : known # None

Keys == Nodes \cup {earlier}
Files == {"key", "mark", "data"}

VARIABLES
    at,             \* where each process is
    secret,         \* the key it has in hand
    call,           \* whom it has connected to, and the token it has read since
    mind,           \* whose changes the spaces in its memory contain
    why,            \* why it gave up
    cur, old, aside,\* files of this directory, of the old one, and *.superseded
    ring, oldRing,  \* the keyring's entry, and the one under the old name
    unlocked,       \* whether the keyring answers
    socket,         \* whose listener the name stands for, alive or not
    token,          \* the secret in ipc-token
    used,           \* history: the keys that were on the network
    crossed,        \* history: who claimed the socket while another did
    lapse           \* history: what has gone wrong on the way to a key

story == <<used, crossed, lapse>>
dirs == <<cur, old, aside>>
rings == <<ring, oldRing, unlocked>>
vars == <<at, secret, call, mind, why, dirs, rings, socket, token, story>>

Claiming == {"token", "bind", "taken", "reclaim"}
Starting == {"move", "next", "last", "look", "ask", "adopt", "store", "forget", "mark",
             "decide", "doubt", "mint", "load", "probe"} \cup Claiming
Online == {"load", "probe", "up"} \cup Claiming
Lapses == {"unmarked", "together", "stuck"}

TypeOK ==
    /\ at \in [Nodes -> Starting \cup {"off", "up", "dead"}]
    /\ secret \in [Nodes -> Keys \cup {None}]
    /\ call \in [Nodes -> [to : Nodes, token : Nodes \cup {None}] \cup {None}]
    /\ mind \in [Nodes -> SUBSET Keys]
    /\ why \in [Nodes -> Reasons \cup {None}]
    /\ \A dir \in {cur, old, aside} :
          /\ DOMAIN dir = Files
          /\ dir.key \in Keys \cup {None} /\ dir.mark \in {"set", None}
          /\ dir.data = None \/ dir.data \subseteq Keys
    /\ {ring, oldRing} \subseteq Keys \cup {None}
    /\ unlocked \in BOOLEAN
    /\ {socket, token} \subseteq Nodes \cup {None}
    /\ used \subseteq Keys /\ crossed \subseteq Nodes /\ lapse \subseteq Lapses

Empty == [f \in Files |-> None]

\* A first start; a key in a file or in the keyring under the name of before; a key
\* in the keyring from when there was no marker.
Init ==
    /\ at = [n \in Nodes |-> "off"]
    /\ secret = [n \in Nodes |-> None] /\ call = [n \in Nodes |-> None]
    /\ mind = [n \in Nodes |-> {}] /\ why = [n \in Nodes |-> None]
    /\ \E left \in Before :
          /\ old = CASE left = "file" -> [Empty EXCEPT !.key = earlier, !.data = {earlier}]
                     [] left = "ring" -> [Empty EXCEPT !.mark = "set", !.data = {earlier}]
                     [] OTHER -> Empty
          /\ cur = IF left = "unmarked" THEN [Empty EXCEPT !.data = {earlier}] ELSE Empty
          /\ ring = IF left = "unmarked" THEN earlier ELSE None
          /\ oldRing = IF left = "ring" THEN earlier ELSE None
    /\ aside = Empty
    /\ unlocked \in BOOLEAN
    /\ socket = None /\ token = None
    /\ used = {} /\ crossed = {} /\ lapse = {}

Go(n, place) == at' = [at EXCEPT ![n] = place]

\* With a process its memory is gone.
Ends(n) ==
    /\ Go(n, "dead")
    /\ secret' = [secret EXCEPT ![n] = None] /\ call' = [call EXCEPT ![n] = None]
    /\ mind' = [mind EXCEPT ![n] = {}]
GiveUp(n, reason) == Ends(n) /\ why' = [why EXCEPT ![n] = reason]

\* No lock is taken: processes start whenever they like (bound: Crowd at once).
Start(n) ==
    /\ at[n] = "off"
    /\ Cardinality({m \in Nodes : at[m] \in Starting \cup {"up"}}) < Crowd
    /\ Go(n, "move")
    /\ UNCHANGED <<secret, call, mind, why, dirs, rings, socket, token, story>>

-----------------------------------------------------------------------------
(* migrate_between: file by file, and a failure ends it. *)

Moves == [move |-> "key", next |-> "mark", last |-> "data"]
\* Mutant: the list of files lacks the data.
AfterNoData(n, place) ==
    IF place = "move" THEN "next" ELSE IF n \in App THEN "look" ELSE "ask"

After(n, place) ==
    CASE place = "move" -> "next"
      [] place = "next" -> "last"
      [] place = "last" -> IF n \in App THEN "look" ELSE "ask"

Move(n, place) ==
    /\ at[n] = place
    /\ LET f == Moves[place] IN
       \/ /\ old[f] = None
          /\ Go(n, After(n, place))
          /\ UNCHANGED <<dirs, lapse>>
       \/ /\ old[f] # None
          /\ aside' = [aside EXCEPT ![f] = IF cur[f] # None THEN cur[f] ELSE @]
          /\ cur' = [cur EXCEPT ![f] = old[f]]
          /\ old' = [old EXCEPT ![f] = None]
          /\ Go(n, After(n, place))
          /\ UNCHANGED lapse
       \/ /\ "move" \in Faults /\ old[f] # None
          /\ aside' = [aside EXCEPT ![f] = IF cur[f] # None THEN cur[f] ELSE @]
          /\ cur' \in {[cur EXCEPT ![f] = None], [cur EXCEPT ![f] = old[f]]}
          /\ Go(n, After(n, "last"))
          /\ lapse' = lapse \cup {"stuck"}
          /\ UNCHANGED old
    /\ UNCHANGED <<secret, call, mind, why, rings, socket, token, used, crossed>>

-----------------------------------------------------------------------------
(* The key: DesktopKeyStore and load_or_create.  Each step reads or writes one     *)
(* store.  A key that is no key, or a key file that cannot be read, ends the       *)
(* start, as Die does.                                                             *)

HoldsKey(n, key) ==
    /\ secret' = [secret EXCEPT ![n] = key]
    /\ used' = used \cup {key}
    /\ Go(n, "load")
Marked == {[cur EXCEPT !.mark = "set"]} \cup (IF "marker" \in Faults THEN {cur} ELSE {})

\* probe: a keyring that does not answer holds nothing for us, for now.
Ask(n) ==
    /\ at[n] = "ask"
    /\ \/ ~unlocked /\ Go(n, "decide") /\ UNCHANGED secret
       \/ unlocked /\ ring = None /\ Go(n, "adopt") /\ UNCHANGED secret
       \/ /\ unlocked /\ ring # None
          /\ secret' = [secret EXCEPT ![n] = ring] /\ Go(n, "mark")
    /\ UNCHANGED <<call, mind, why, dirs, rings, socket, token, story>>

\* adopt_previous: what is under the name of before is read, stored under this one,
\* and only then deleted, if that is possible.
Adopt(n) ==
    /\ at[n] = "adopt"
    /\ IF unlocked /\ oldRing # None
           THEN secret' = [secret EXCEPT ![n] = oldRing] /\ Go(n, "store")
           ELSE Go(n, "decide") /\ UNCHANGED secret
    /\ UNCHANGED <<call, mind, why, dirs, rings, socket, token, story>>

Store(n) ==
    /\ at[n] = "store"
    /\ \/ unlocked /\ ring' = secret[n] /\ Go(n, "forget") /\ UNCHANGED secret
       \/ /\ ~unlocked /\ Go(n, "decide") /\ secret' = [secret EXCEPT ![n] = None]
          /\ UNCHANGED ring
    /\ UNCHANGED <<call, mind, why, dirs, oldRing, unlocked, socket, token, story>>

Forget(n) ==
    /\ at[n] = "forget"
    /\ oldRing' \in {oldRing} \cup (IF unlocked THEN {None} ELSE {})
    /\ Go(n, "mark")
    /\ UNCHANGED <<secret, call, mind, why, dirs, ring, unlocked, socket, token, story>>

\* mark_keyring_used, for a key that was found and for one that was made: it need
\* not succeed.
MarkKey(n) ==
    /\ at[n] = "mark"
    /\ cur' \in Marked
    /\ HoldsKey(n, secret[n])
    /\ UNCHANGED <<call, mind, why, old, aside, rings, socket, token, crossed, lapse>>

\* decide: the file, if there is one ...
Decide(n) ==
    /\ at[n] = "decide"
    /\ \/ cur.key # None /\ HoldsKey(n, cur.key) /\ UNCHANGED lapse
       \/ /\ cur.key = None /\ Go(n, "doubt")
          /\ lapse' = lapse \cup (IF \E m \in Nodes \ {n} : at[m] \in {"doubt", "mint"}
                                     THEN {"together"} ELSE {})
          /\ UNCHANGED <<secret, used>>
    /\ UNCHANGED <<call, mind, why, dirs, rings, socket, token, crossed>>

\* A key in the keyring of which no file tells.
Unmarked == (ring # None \/ oldRing # None) /\ cur.mark = None /\ old.mark = None

\* Mutant: a keyring without an entry for us means a first start.
DoubtNot(n) ==
    /\ at[n] = "doubt"
    /\ Go(n, "mint") /\ lapse' = lapse \cup (IF Unmarked THEN {"unmarked"} ELSE {})
    /\ UNCHANGED <<secret, call, mind, why, dirs, rings, socket, token, used, crossed>>

\* ... or nothing at all, but not if the keyring once had a key.
Doubt(n) ==
    /\ at[n] = "doubt"
    /\ IF cur.mark # None THEN GiveUp(n, "keyless") /\ UNCHANGED lapse
       ELSE /\ Go(n, "mint")
            /\ lapse' = lapse \cup (IF Unmarked THEN {"unmarked"} ELSE {})
            /\ UNCHANGED <<secret, call, mind, why>>
    /\ UNCHANGED <<dirs, rings, socket, token, used, crossed>>

\* save: into the keyring if it takes it, else into a file.
Mint(n) ==
    /\ at[n] = "mint"
    /\ \/ /\ unlocked /\ ring' = n
          /\ secret' = [secret EXCEPT ![n] = n] /\ Go(n, "mark") /\ UNCHANGED <<cur, used>>
       \/ ~unlocked /\ cur' = [cur EXCEPT !.key = n] /\ HoldsKey(n, n) /\ UNCHANGED ring
    /\ UNCHANGED <<call, mind, why, old, aside, oldRing, unlocked, socket, token, crossed,
                   lapse>>

\* Node::new_in: spaces.cbor, or a space of its own, which it saves.
Load(n) ==
    /\ at[n] = "load"
    /\ mind' = [mind EXCEPT ![n] = IF cur.data = None THEN {} ELSE cur.data]
    /\ cur' = [cur EXCEPT !.data = IF @ = None THEN {} ELSE @]
    /\ Go(n, "probe")
    /\ UNCHANGED <<secret, call, why, old, aside, rings, socket, token, story>>

-----------------------------------------------------------------------------
(* The socket: who_is_listening, serve and bind_ipc. *)

Answers == socket # None /\ at[socket] = "up"

\* What the start makes of the answer: serve gives up unless there is nobody; the app,
\* which asks before anything else, only if one of our nodes has proved itself.
Verdict(n, place, answer) ==
    IF answer = "running" \/ (answer # "nothing" /\ place = "probe")
        THEN GiveUp(n, answer)
        ELSE /\ Go(n, IF place = "look" THEN "ask" ELSE "token")
             /\ call' = [call EXCEPT ![n] = None]
             /\ UNCHANGED <<secret, mind, why>>

\* Those that claim the socket when n has found it free.
Rivals(n) == {m \in Nodes \ {n} : at[m] \in Claiming}

\* Mutant: binding will show whether somebody listens.
ConnectNever(n, place) ==
    /\ at[n] = place /\ call[n] = None
    /\ Verdict(n, place, "nothing")
    /\ crossed' = crossed \cup (IF place = "probe" /\ Rivals(n) # {}
                                   THEN Rivals(n) \cup {n} ELSE {})
    /\ UNCHANGED <<dirs, rings, socket, token, used, lapse>>
\* Mutant: the new token is written before anybody is asked.
ConnectLate(n, place) ==
    /\ at[n] = place /\ call[n] = None
    /\ IF Answers
           THEN /\ call' = [call EXCEPT ![n] = [to |-> socket, token |-> None]]
                /\ UNCHANGED <<at, secret, mind, why, crossed>>
           ELSE /\ Verdict(n, place, "nothing")
                /\ crossed' = crossed \cup (IF place = "probe" /\ Rivals(n) # {}
                                               THEN Rivals(n) \cup {n} ELSE {})
    /\ token' = IF place = "probe" THEN n ELSE token
    /\ UNCHANGED <<dirs, rings, socket, used, lapse>>

\* A listener that is gone refuses the connection.
Connect(n, place) ==
    /\ at[n] = place /\ call[n] = None
    /\ IF Answers
           THEN /\ call' = [call EXCEPT ![n] = [to |-> socket, token |-> None]]
                /\ UNCHANGED <<at, secret, mind, why, crossed>>
           ELSE /\ Verdict(n, place, "nothing")
                /\ crossed' = crossed \cup (IF place = "probe" /\ Rivals(n) # {}
                                               THEN Rivals(n) \cup {n} ELSE {})
    /\ UNCHANGED <<dirs, rings, socket, token, used, lapse>>

\* read_token: whoever listens has installed one before.
ReadToken(n) ==
    /\ call[n] # None /\ call[n].token = None
    /\ call' = [call EXCEPT ![n].token = token]
    /\ UNCHANGED <<at, secret, mind, why, dirs, rings, socket, token, story>>

\* The handshake under PROBE_TIMEOUT: a proof, none (the node has another secret, or has
\* ended since), or no answer within a second.
Prove(n, place) ==
    /\ at[n] = place /\ call[n] # None /\ call[n].token # None
    /\ \/ /\ at[call[n].to] = "up" /\ call[n].token = call[n].to
          /\ Verdict(n, place, "running")
       \/ /\ at[call[n].to] # "up" \/ call[n].token # call[n].to
          /\ Verdict(n, place, "stranger")
       \/ at[call[n].to] = "up" /\ Verdict(n, place, "silent")
    /\ UNCHANGED <<dirs, rings, socket, token, story>>

InstallToken(n) ==
    /\ at[n] = "token"
    /\ token' = n
    /\ Go(n, "bind")
    /\ UNCHANGED <<secret, call, mind, why, dirs, rings, socket, story>>

\* A name that is taken is connected to: only a refusal shows that its node is gone.
Bind(n) ==
    /\ at[n] = "bind"
    /\ \/ socket = None /\ socket' = n /\ Go(n, "up")
       \/ socket # None /\ Go(n, "taken") /\ UNCHANGED socket
    /\ UNCHANGED <<secret, call, mind, why, dirs, rings, token, story>>

Taken(n) ==
    /\ at[n] = "taken"
    /\ IF Answers THEN GiveUp(n, "held")
       ELSE Go(n, "reclaim") /\ UNCHANGED <<secret, call, mind, why>>
    /\ UNCHANGED <<dirs, rings, socket, token, story>>

Reclaim(n) ==
    /\ at[n] = "reclaim"
    /\ socket' = n
    /\ Go(n, "up")
    /\ UNCHANGED <<secret, call, mind, why, dirs, rings, token, story>>

\* The spaces change and are saved.
Save(n) ==
    /\ at[n] = "up"
    /\ mind' = [mind EXCEPT ![n] = @ \cup {n}]
    /\ cur' = [cur EXCEPT !.data = mind'[n]]
    /\ UNCHANGED <<at, secret, call, why, old, aside, rings, socket, token, story>>

\* Killed, or told to quit, at any point: the name stays behind.
Die(n) ==
    /\ at[n] \in Starting \cup {"up"}
    /\ Ends(n)
    /\ UNCHANGED <<why, dirs, rings, socket, token, story>>

\* The keyring is locked and unlocked by its own rules.
Turn ==
    /\ unlocked' = ~unlocked
    /\ UNCHANGED <<at, secret, call, mind, why, dirs, ring, oldRing, socket, token, story>>

-----------------------------------------------------------------------------
KeyStep(n) ==
    \/ Ask(n) \/ Adopt(n) \/ Store(n) \/ Forget(n) \/ MarkKey(n)
    \/ Decide(n) \/ Doubt(n) \/ Mint(n)
SocketStep(n) ==
    \/ \E place \in {"look", "probe"} : Connect(n, place) \/ Prove(n, place)
    \/ ReadToken(n) \/ InstallToken(n) \/ Bind(n) \/ Taken(n) \/ Reclaim(n)

Next ==
    \/ \E n \in Nodes :
          \/ Start(n) \/ \E place \in DOMAIN Moves : Move(n, place)
          \/ KeyStep(n) \/ Load(n) \/ SocketStep(n) \/ Save(n) \/ Die(n)
    \/ Turn

Spec == Init /\ [][Next]_vars

-----------------------------------------------------------------------------
(* Properties. *)

\* A node that serves can be spoken to, whatever died, was refused or was told to
\* wait: the socket's name is its own and a caller that reads the token can prove
\* itself.  Except if its claim crossed another's: serve asks, installs its token and
\* binds without a lock.
Drivable ==
    \A n \in Nodes : at[n] = "up" /\ n \notin crossed => socket = n /\ token = n

\* The device keeps its address: no start shows the network another key than the
\* starts before it, nor than an earlier version had, wherever they die and whether the
\* keyring answers or not.  Except if one made a key while a keyring that was locked
\* held one without its marker, if two have found no key file at the same time, or if a
\* file could not be moved.
OneKey ==
    lapse = {} =>
        /\ Cardinality(used) <= 1
        /\ earlier \in {ring, oldRing, cur.key, old.key} => used \subseteq {earlier}

\* A start after an upgrade knows the devices it was paired with, though an earlier
\* one died while it moved the files, unless a move failed half-way.
PairingsCarried ==
    \A n \in Nodes : at[n] \in Online \ {"load"} /\ "stuck" \notin lapse =>
        (secret[n] = earlier => earlier \in mind[n])

\* A start is told of a stranger (and not of silence) only by a node that ended as it was
\* asked or whose claim crossed another's; what it is told otherwise is true: a node of
\* this user serves.
NoFalseAlarm ==
    [][\A n \in Nodes : why[n] = None =>
           /\ why'[n] \in {"running", "held"} => \E m \in Nodes \ {n} : at[m] = "up"
           /\ why'[n] = "stranger" =>
                 at[call[n].to] = "dead" \/ call[n].to \in crossed]_vars

\* What the user had is never lost while it is moved ("renamed aside rather than
\* overwritten").
NothingOverwritten ==
    (\E n \in Nodes : secret[n] = earlier) =>
        \E dir \in {cur, old, aside} : dir.data # None /\ earlier \in dir.data

\* What the code says of itself, without the exceptions.  "Silently mints a new
\* identity" is what the marker is to prevent;
AlwaysOneKey == Cardinality(used) <= 1
\* a start that is told of a stranger has not met "a clispeak node this user started";
StrangerIsStrange ==
    [][\A n \in Nodes : why[n] = None /\ why'[n] \in {"stranger", "silent"}
           => at[call[n].to] # "up"]_vars
\* and there is "never a socket accepting connections with no secret to check them".
AlwaysDrivable == \A n \in Nodes : at[n] = "up" => socket = n /\ token = n
=============================================================================
