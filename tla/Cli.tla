-------------------------------- MODULE Cli --------------------------------
(***************************************************************************)
(* Invocations of the command line tool (cli/main.rs): those that edit     *)
(* config.toml, which all of them share (cli/config.rs, cli/prefs.rs), and *)
(* those that put a request to the node and wait for so long as they have  *)
(* patience (send_with, and handle_cli at the other end).  A step is one   *)
(* access to the file, its lock or the socket.                             *)
(***************************************************************************)
EXTENDS Integers, Sequences, SequencesExt, FiniteSetsExt

CONSTANTS Invocations,
          Jobs,         \* [do, what]: what each of them may be asked to do
          States,       \* of the node: "down", "up", "wedged", "other" (not this user's)
          Faults,       \* "die": an invocation is killed anywhere; "remove": the lock
                        \* file cannot be removed
          None

ASSUME CliAssumption ==
    /\ DOMAIN Jobs = Invocations
    /\ \A i \in Invocations : \A wish \in Jobs[i] :
          wish.do \in {"add", "remove", "output", "reset", "set", "rm", "send"}
    /\ States \subseteq {"down", "up", "wedged", "other"}
    /\ Faults \subseteq {"die", "remove"}
    /\ None \notin Invocations

VARIABLES
    job,            \* of each invocation
    at, exit,       \* where it is, and its exit code
    loaded,         \* the groups in the file it loaded first
    edited,         \* the file it is about to write
    doc,            \* config.toml
    lock, stale,    \* config.toml.lock: who made it, and whether it is old by now
    node,           \* what holds the socket
    told,           \* what an invocation that gave up has said of the node
    ideal           \* history: the file, had the edits been made one after the other

locks == <<lock, stale>>
vars == <<job, at, exit, loaded, edited, doc, locks, node, told, ideal>>

OK == 0
USAGE == 1
NO_TARGET == 2
PARTIAL == 3
ALL_FAILED == 4
NO_NODE == 5
REJECTED == 6

Wishes == UNION {Jobs[i] : i \in Invocations}
Terms == {"brief", "kept", "phones"} \cup
         {wish.what : wish \in {w \in Wishes : w.do \in {"add", "output", "set", "rm"}}}
Files == [agent : [rules : Seq(Terms), output : Terms], groups : SUBSET Terms]
Blank == [agent |-> [rules |-> <<>>, output |-> "brief"], groups |-> {}]

TypeOK ==
    /\ job \in [Invocations -> Wishes \cup {None}]
    /\ \A i \in Invocations : at[i] # "off" => job[i] \in Jobs[i]
    /\ at \in [Invocations -> {"off", "load", "try", "break", "read", "write", "unlock",
                               "check", "connect", "greet", "send", "writing", "wait",
                               "exit", "dead"}]
    /\ exit \in [Invocations -> (OK .. REJECTED) \cup {None}]
    /\ loaded \in [Invocations -> SUBSET Terms] /\ edited \in [Invocations -> Files]
    /\ doc \in Files /\ ideal \in Files
    /\ \A file \in {doc, ideal} \cup {edited[i] : i \in Invocations} :
          IsInjective(file.agent.rules)
    /\ lock \in Invocations \cup {None} /\ stale \in BOOLEAN
    /\ lock = None => ~stale
    /\ node \in States
    /\ told \in [Invocations -> {"none", "no node", "stranger", "stopped", "silent"}]

Init ==
    /\ job = [i \in Invocations |-> None]
    /\ at = [i \in Invocations |-> "off"]
    /\ exit = [i \in Invocations |-> None]
    /\ loaded = [i \in Invocations |-> {}] /\ edited = [i \in Invocations |-> Blank]
    /\ doc \in {Blank, [agent |-> [rules |-> <<"kept">>, output |-> "brief"],
                        groups |-> {"phones"}]}
    /\ ideal = doc
    /\ lock = None /\ stale = FALSE
    /\ node \in States
    /\ told = [i \in Invocations |-> "none"]

Go(i, place) == at' = [at EXCEPT ![i] = place]
End(i, code) == Go(i, "exit") /\ exit' = [exit EXCEPT ![i] = code]
Edits(i) == job[i].do # "send"
Shared == <<doc, ideal>>

-----------------------------------------------------------------------------
(* run: config::load, then what the command asks for. *)

Start(i) ==
    /\ at[i] = "off"
    /\ \E wish \in Jobs[i] : job' = [job EXCEPT ![i] = wish]
    /\ Go(i, "load")
    /\ UNCHANGED <<exit, loaded, edited, doc, locks, node, told, ideal>>

\* A group that is not there is refused by what was loaded.
Load(i) ==
    /\ at[i] = "load"
    /\ loaded' = [loaded EXCEPT ![i] = IF job[i].do \in {"set", "rm"} THEN doc.groups ELSE @]
    /\ IF job[i].do = "rm" /\ job[i].what \notin doc.groups THEN End(i, USAGE)
       ELSE Go(i, IF Edits(i) THEN "try" ELSE "check") /\ UNCHANGED exit
    /\ UNCHANGED <<job, edited, Shared, locks, node, told>>

-----------------------------------------------------------------------------
(* config::amend under Lock. *)

\* Mutant: the lock file is made whether it is there or not.
TryAny(i) ==
    /\ at[i] = "try"
    /\ lock' = i /\ stale' = FALSE
    /\ Go(i, "read") /\ UNCHANGED exit
    /\ UNCHANGED <<job, loaded, edited, Shared, node, told>>

\* create_new; a lock that has become old is removed first, and patience ends.
Try(i) ==
    /\ at[i] = "try"
    /\ \/ /\ lock = None
          /\ lock' = i /\ stale' = FALSE
          /\ Go(i, "read") /\ UNCHANGED exit
       \/ /\ lock # None /\ stale
          /\ Go(i, "break") /\ UNCHANGED <<lock, stale, exit>>
       \/ /\ lock # None /\ ~stale
          /\ End(i, USAGE) /\ UNCHANGED <<lock, stale>>
    /\ UNCHANGED <<job, loaded, edited, Shared, node, told>>

\* remove_file: it fails unseen.
Unlink ==
    \/ lock' = None /\ stale' = FALSE
    \/ "remove" \in Faults /\ UNCHANGED locks

\* Whether it is gone or not, the loop goes on without a look at the deadline.
Break(i) ==
    /\ at[i] = "break"
    /\ Unlink
    /\ Go(i, "try")
    /\ UNCHANGED <<job, exit, loaded, edited, Shared, node, told>>

\* What the edit makes of a file, if it is possible.
Possible(wish, file) ==
    CASE wish.do = "add" -> ~Contains(file.agent.rules, wish.what)
      [] wish.do = "remove" -> wish.what \in 1 .. Len(file.agent.rules)
      [] OTHER -> TRUE
Edited(wish, file) ==
    CASE wish.do = "add" -> [file EXCEPT !.agent.rules = Append(@, wish.what)]
      [] wish.do = "remove" -> [file EXCEPT !.agent.rules = RemoveAt(@, wish.what)]
      [] wish.do = "output" -> [file EXCEPT !.agent.output = wish.what]
      [] wish.do = "reset" -> [file EXCEPT !.agent = Blank.agent]
      [] wish.do = "set" -> [file EXCEPT !.groups = @ \cup {wish.what}]
      [] wish.do = "rm" -> [file EXCEPT !.groups = @ \ {wish.what}]

\* The groups are written as they were loaded; the agreement as it is read now.
Change(i, now) ==
    IF job[i].do \in {"set", "rm"}
        THEN [now EXCEPT !.groups = Edited(job[i], [now EXCEPT !.groups = loaded[i]]).groups]
        ELSE Edited(job[i], now)

Read(i) ==
    /\ at[i] = "read"
    /\ IF Possible(job[i], doc)
           THEN edited' = [edited EXCEPT ![i] = Change(i, doc)] /\ Go(i, "write")
                /\ UNCHANGED exit
           ELSE Go(i, "unlock") /\ exit' = [exit EXCEPT ![i] = USAGE] /\ UNCHANGED edited
    /\ UNCHANGED <<job, loaded, Shared, locks, node, told>>

\* A temporary file of its own, and rename.
Write(i) ==
    /\ at[i] = "write"
    /\ doc' = edited[i] /\ edited' = [edited EXCEPT ![i] = Blank]
    /\ ideal' = IF Possible(job[i], ideal) THEN Edited(job[i], ideal) ELSE ideal
    /\ exit' = [exit EXCEPT ![i] = OK]
    /\ Go(i, "unlock")
    /\ UNCHANGED <<job, loaded, locks, node, told>>

\* Drop removes the lock file, whoever made it.
Unlock(i) ==
    /\ at[i] = "unlock"
    /\ Unlink
    /\ Go(i, "exit")
    /\ UNCHANGED <<job, exit, loaded, edited, Shared, node, told>>

-----------------------------------------------------------------------------
(* build_speak, send_with and patience. *)

PEER_CONNECT == 90
MARGIN == 15
ORDINARY == 10
MAX_WAIT == 3600

\* What a device does with a request for it: it is here, or it answers a dial at
\* once, or only after it has woken, or never.
Dial == [here |-> 0, warm |-> 2, cold |-> 58, off |-> PEER_CONNECT]
Dials == {"speak", "stop", "join"}

Patience(req) ==
    IF req.kind = "speak" /\ req.wait
        THEN MARGIN + (IF req.timeout = None \/ req.timeout > MAX_WAIT THEN MAX_WAIT ELSE req.timeout)
        ELSE IF req.kind \in Dials THEN PEER_CONNECT + MARGIN ELSE ORDINARY

\* speak_here, on this device or that one: until it is spoken, at most as long as
\* asked for or as long as an estimate allows.
Speaking(req) == IF ~req.wait \/ ~req.long THEN 0
                 ELSE IF req.timeout = None THEN MAX_WAIT ELSE req.timeout
Leg(req, device) ==
    Dial[device] + (IF req.kind = "speak" /\ device # "off" THEN Speaking(req) ELSE 0)

\* deliver and control go to all devices at once, leave to one after the other.
NodeTime(req) ==
    CASE req.kind \in Dials -> Max({0} \cup {Leg(req, d) : d \in ToSet(req.to)})
      [] req.kind = "leave" -> FoldSeq(LAMBDA d, sum : Dial[d] + sum, 0, req.to)
      [] OTHER -> 0

\* The text is read well aloud or not; the agreement is read again.
Check(i) ==
    /\ at[i] = "check"
    /\ IF job[i].what.kind # "speak" \/ job[i].what.raw THEN Go(i, "connect") /\ UNCHANGED exit
       ELSE \/ End(i, REJECTED)
            \/ IF doc.agent.output = "terminal" THEN End(i, ALL_FAILED)
               ELSE Go(i, "connect") /\ UNCHANGED exit
    /\ UNCHANGED <<job, loaded, edited, Shared, locks, node, told>>

Connect(i) ==
    /\ at[i] = "connect"
    /\ IF node = "down" THEN End(i, NO_NODE) /\ told' = [told EXCEPT ![i] = "no node"]
                        ELSE Go(i, "greet") /\ UNCHANGED <<exit, told>>
    /\ UNCHANGED <<job, loaded, edited, Shared, locks, node>>

\* Mutant: the node may take as long as it likes to prove what it is.
GreetUntimed(i) ==
    /\ at[i] = "greet" /\ node # "wedged"
    /\ \/ node = "up" /\ Go(i, "send") /\ UNCHANGED <<exit, told>>
       \/ End(i, NO_NODE) /\ told' = [told EXCEPT ![i] = "stranger"]
    /\ UNCHANGED <<job, loaded, edited, Shared, locks, node>>

\* read_token and offer_handshake: only a node of this user that is up can prove
\* what it is, and even that may take longer than HANDSHAKE_TIMEOUT.
Greet(i) ==
    /\ at[i] = "greet"
    /\ \/ node = "up" /\ Go(i, "send") /\ UNCHANGED <<exit, told>>
       \/ End(i, NO_NODE) /\ told' = [told EXCEPT ![i] = "stranger"]
    /\ UNCHANGED <<job, loaded, edited, Shared, locks, node>>

\* write_frame, which nothing limits: what the socket can hold is written, what is
\* longer than that has to be read by the node.
Send(i) ==
    /\ at[i] = "send" /\ node # "down"
    /\ \/ Go(i, "wait")
       \/ node = "wedged" /\ job[i].what.long /\ Go(i, "writing")
    /\ UNCHANGED <<job, exit, loaded, edited, Shared, locks, node, told>>

\* The answer, if it comes in time: of a report the exit code tells how many of the
\* devices took the message.
Answered(i) ==
    /\ at[i] = "wait" /\ node = "up"
    /\ NodeTime(job[i].what) < Patience(job[i].what)
    /\ LET n == Len(job[i].what.to)
           least == IF \E k \in 1 .. n : job[i].what.to[k] # "off" THEN 0 ELSE n
       IN \/ /\ job[i].what.kind \in {"speak", "stop"}
             /\ \E missed \in least .. n :
                   End(i, IF missed = 0 THEN OK ELSE IF missed < n THEN PARTIAL ELSE ALL_FAILED)
          \/ job[i].what.kind \notin {"speak", "stop"} /\ End(i, OK)
          \/ End(i, USAGE)
          \/ job[i].what.kind \in {"speak", "stop"} /\ End(i, NO_TARGET)
    /\ UNCHANGED <<job, loaded, edited, Shared, locks, node, told>>

GivesUp(i) ==
    /\ \/ /\ at[i] \in {"send", "writing", "wait"} /\ node = "down"
          /\ told' = [told EXCEPT ![i] = "stopped"]
       \/ /\ at[i] = "wait" /\ node # "down"
          /\ node = "wedged" \/ NodeTime(job[i].what) >= Patience(job[i].what)
          /\ told' = [told EXCEPT ![i] = "silent"]
    /\ End(i, NO_NODE)
    /\ UNCHANGED <<job, loaded, edited, Shared, locks, node>>

-----------------------------------------------------------------------------
(* What happens to them. *)

Die(i) ==
    /\ "die" \in Faults
    /\ at[i] \notin {"off", "exit", "dead"}
    /\ Go(i, "dead")
    /\ UNCHANGED <<job, exit, loaded, edited, Shared, locks, node, told>>

\* Ten seconds are longer than an edit takes: only a dead one's lock grows old.
Age ==
    /\ lock # None /\ ~stale /\ at[lock] \in {"dead", "exit"}
    /\ stale' = TRUE
    /\ UNCHANGED <<job, at, exit, loaded, edited, Shared, lock, node, told>>

NodeEnds ==
    /\ \/ node = "up" /\ node' \in States \cap {"down", "wedged"}
       \/ node = "wedged" /\ node' \in States \cap {"down"}
    /\ UNCHANGED <<job, at, exit, loaded, edited, Shared, locks, told>>

Step(i) ==
    \/ Load(i) \/ Try(i) \/ Break(i) \/ Read(i) \/ Write(i) \/ Unlock(i)
    \/ Check(i) \/ Connect(i) \/ Greet(i) \/ Send(i) \/ Answered(i) \/ GivesUp(i)

Next ==
    \/ \E i \in Invocations : Start(i) \/ Step(i) \/ Die(i)
    \/ Age \/ NodeEnds

Spec == Init /\ [][Next]_vars
FairSpec == Spec /\ \A i \in Invocations : WF_at(Step(i))

-----------------------------------------------------------------------------
(* Properties. *)

\* However edits cross and die, the agreement is what they make of it one after the
\* other: no rule that was acknowledged is lost to another edit.
AgreementSerial == doc.agent = ideal.agent

\* The same of the groups ("would otherwise lose one").
GroupsSerial == doc.groups = ideal.groups

\* Every invocation comes to an end, whatever the node and other invocations do and
\* whoever dies, but for one that writes a long message to a node that hangs and one
\* that finds an old lock file which nobody can remove.
EveryCallEnds ==
    \A i \in Invocations : at[i] = "load" ~>
        \/ at[i] \in {"exit", "dead"}
        \/ [](at[i] = "writing" /\ node = "wedged")
        \/ []stale

-----------------------------------------------------------------------------
(* What the code says of itself, and does not keep. *)

\* Without the two exceptions.
AlwaysEnds == \A i \in Invocations : at[i] = "load" ~> at[i] \in {"exit", "dead"}

\* "reaching here really does mean the node itself stopped answering".
NodeRightlyBlamed == \A i \in Invocations : told[i] = "silent" => node # "up"

\* "Either it belongs to a different node [...] or something else on this machine has
\* taken the socket name."
StrangerIsAnother == \A i \in Invocations : told[i] = "stranger" => node = "other"

=============================================================================
