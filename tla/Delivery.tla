------------------------------ MODULE Delivery ------------------------------
(***************************************************************************)
(* A message from the command that sends it to the outcome in a history:   *)
(* the speaking half of core/node.rs with core/history.rs.  A command is   *)
(* resolved to targets, and each target is a leg of its own; a leg to a    *)
(* peer is one exchange over a connection that may break at any time.  The *)
(* speaking queue is abstract here (Speaker has its insides): it begins    *)
(* urgent messages first, asks the policy once more, and ends each message *)
(* unless it is paused or the process dies.                                *)
(***************************************************************************)
EXTENDS Policy, Sequences, SequencesExt

CONSTANTS Devices, Spaces, Names,
          View,         \* View[d][s]: the members d knows in space s, {} if not held
          DefaultOf,    \* DefaultOf[d]: the space bare names resolve in
          NameOf,       \* what a device is called
          Sends,        \* the commands, each given once
          Cmd,          \* Cmd[m]: [from, to, priority, wait]
          Keep,         \* entries a history holds
          Hours,        \* Hours[d]: the quiet windows set there
          Controls,     \* Controls[d]: what is done there, of {"stop", "clear",
                        \* "pause", "replay", "mute", "quiet", "restart"}
          Faults,       \* of {"lost", "noEngine"}
          Changes,      \* how often, in all (bound)
          None

Refusals == {"muted", "quiet", "dropped"}
Outcomes == Refusals \cup {"spoken", "cancelled", "noEngine"}
Answers == Outcomes \cup {"queued", "speaking", "rejected", "unreachable"}
\* Where a target is with a leg: refused ones are answered once that is written down.
Places == {"no", "recorded", "refused", "cleared", "waiting", "replying", "over"}
Elements == [scope : Spaces \cup {None}, name : Names \cup {"all", "here"}]
Targets == [dev : Devices, space : Spaces \cup {None}]

MaxTargets == (Cardinality(Devices) - 1) * Cardinality(Spaces) + 1
Legs == Sends \X (1 .. MaxTargets)

\* The policies of a device, and a minute they are asked at.
PolicySets == [device : Policies, over : [Spaces -> Policies]]
Grants == PolicySets \X Minutes

\* What a queue holds, and what a history does; a replayed job has no leg.
Jobs == [id : Sends, leg : Legs \cup {None}, space : Spaces \cup {None}, asked : BOOLEAN,
         priority : Priorities, then : Grants]
Entries == [id : Sends, leg : Legs, status : Outcomes \cup {"queued"}]

ASSUME DeliveryAssumption ==
    /\ IsFiniteSet(Devices) /\ IsFiniteSet(Spaces)
    /\ View \in [Devices -> [Spaces -> SUBSET Devices]]
    /\ \A d \in Devices, s \in Spaces : View[d][s] # {} => d \in View[d][s]
    /\ DefaultOf \in [Devices -> Spaces] /\ \A d \in Devices : View[d][DefaultOf[d]] # {}
    /\ NameOf \in [Devices -> Names]
    /\ Cmd \in [Sends -> [from : Devices, to : Seq(Elements), priority : Priorities, wait : BOOLEAN]]
    /\ Hours \in [Devices -> SUBSET Windows]
    /\ Keep \in Nat \ {0} /\ Changes \in Nat
    /\ None \notin Legs /\ None \notin Spaces /\ None \notin Answers
    /\ None \notin Seq(Targets) /\ None \notin Jobs

-----------------------------------------------------------------------------
(* resolve: from a selector to targets. *)

Known(d) == {[dev |-> e, space |-> s] : e \in Devices \ {d}, s \in Spaces}
Knows(d) == {k \in Known(d) : k.dev \in View[d][k.space]}
Here(d) == [dev |-> d, space |-> None]

\* `all` is this device and one space; a device's own name is the device; the
\* default space wins over the others.
Scoped(d, e) == IF e.scope = None THEN DefaultOf[d] ELSE e.scope
Everyone(d, s) ==
    IF View[d][s] = {} THEN <<>>
    ELSE <<Here(d)>> \o SetToSeq({k \in Knows(d) : k.space = s})
Called(d, e) ==
    LET all  == {k \in Knows(d) : NameOf[k.dev] = e.name}
        near == {k \in all : k.space = DefaultOf[d]}
    IN  IF e.scope # None THEN {k \in all : k.space = e.scope}
        ELSE IF near # {} THEN near ELSE all
Means(d, e) ==
    IF e.name = "all" THEN Everyone(d, Scoped(d, e))
    ELSE IF e.scope = None /\ e.name \in {"here", NameOf[d]} THEN <<Here(d)>>
    ELSE IF Cardinality(Called(d, e)) = 1 THEN SetToSeq(Called(d, e))
    ELSE <<>>

\* Mutant: a target is pushed however often it is named.
PushAlways(targets, t) == Append(targets, t)

\* push_target: a target that is there already is not pushed again.
Push(targets, t) == IF t \in ToSet(targets) THEN targets ELSE Append(targets, t)
PushAll(targets, ts) == FoldLeft(Push, targets, ts)

\* One element that means nothing, or two things, refuses the whole command.
Resolve(d, selector) ==
    IF \E i \in DOMAIN selector : Means(d, selector[i]) = <<>> THEN <<>>
    ELSE FoldLeft(PushAll, <<>>, [i \in DOMAIN selector |-> Means(d, selector[i])])

-----------------------------------------------------------------------------
VARIABLES
    targets,    \* what each command was resolved to; None before
    caller,     \* caller[l]: "no", "asking", "done"
    answer,     \* what the row of the report says
    host,       \* host[l]: where the target is with it
    reply,      \* what it will answer
    granted,    \* the policy and the minute it was let through under
    queue,      \* the messages waiting at each device
    saying,     \* the one it speaks
    paused,
    history,    \* Shared.history, newest last
    policy,     \* Shared.policy: the device's, and one for each space
    minute,     \* local time (the same everywhere)
    left        \* how often somebody still intervenes

VARIABLES       \* history
    heard,      \* heard[d]: jobs spoken to the end at d
    refused,    \* refused[d]: jobs the check before speaking refused
    restarted   \* devices whose process died

calls == <<targets, caller, answer>>
hosts == <<host, reply, granted>>
speech == <<queue, saying, paused>>
people == <<policy, left>>
seen == <<heard, refused>>
vars == <<calls, hosts, speech, history, people, minute, seen, restarted>>

Target(l) == targets[l[1]][l[2]]
Dev(l) == Target(l).dev
Local(l) == Target(l).dev = Cmd[l[1]].from /\ Target(l).space = None
Given(l) == targets[l[1]] # None /\ l[2] <= Len(targets[l[1]])

\* A job as the queue has it; `then` is the policy and the time it was accepted
\* under, for RefusedForCause.
Job(l) ==
    [id |-> l[1], leg |-> l, space |-> Target(l).space, asked |-> FALSE,
     priority |-> Cmd[l[1]].priority, then |-> granted[l]]
Replayed(d, id) ==
    [id |-> id, leg |-> None, space |-> None, asked |-> TRUE,
     priority |-> "normal", then |-> <<policy[d], minute>>]

OverFor(d, space) == IF space = None THEN Open ELSE policy[d].over[space]
Judgement(d, space, priority, depth) ==
    Verdicts(policy[d].device, OverFor(d, space), priority, minute, depth)

TypeOK ==
    /\ targets \in [Sends -> Seq(Targets) \cup {None}]
    /\ caller \in [Legs -> {"no", "asking", "done"}]
    /\ answer \in [Legs -> Answers \cup {None}]
    /\ host \in [Legs -> Places]
    /\ reply \in [Legs -> Answers \cup {None}]
    /\ granted \in [Legs -> Grants \cup {None}]
    /\ \A l \in Legs : /\ host[l] = "cleared" => granted[l] \in Grants
                       /\ host[l] = "refused" => reply[l] \in Outcomes
    /\ queue \in [Devices -> Seq(Jobs)] /\ saying \in [Devices -> Jobs \cup {None}]
    /\ paused \in [Devices -> BOOLEAN]
    /\ history \in [Devices -> Seq(Entries)] /\ \A d \in Devices : Len(history[d]) <= Keep
    /\ policy \in [Devices -> PolicySets]
    /\ minute \in Minutes /\ left \in 0 .. Changes
    /\ heard \in [Devices -> SUBSET [id : Sends, leg : Legs \cup {None}]]
    /\ refused \in [Devices -> SUBSET (Jobs \X Refusals \X Grants)]
    /\ restarted \subseteq Devices

Init ==
    /\ targets = [m \in Sends |-> None]
    /\ caller = [l \in Legs |-> "no"] /\ answer = [l \in Legs |-> None]
    /\ host = [l \in Legs |-> "no"] /\ reply = [l \in Legs |-> None]
    /\ granted = [l \in Legs |-> None]
    /\ queue = [d \in Devices |-> <<>>] /\ saying = [d \in Devices |-> None]
    /\ paused = [d \in Devices |-> FALSE]
    /\ history = [d \in Devices |-> <<>>]
    /\ \E w \in [Devices -> Windows \cup {NoWindow}] :
          /\ \A d \in Devices : w[d] \in Hours[d] \cup {NoWindow}
          /\ policy = [d \in Devices |-> [device |-> [Open EXCEPT !.quiet = w[d]],
                                         over |-> [s \in Spaces |-> Open]]]
    /\ minute = 0 /\ left = Changes
    /\ heard = [d \in Devices |-> {}] /\ refused = [d \in Devices |-> {}]
    /\ restarted = {}

-----------------------------------------------------------------------------
(* core/history.rs *)

Record(h, e) == IF Len(h) = Keep THEN Append(Tail(h), e) ELSE Append(h, e)

\* The newest entry with this id, if it has not fallen off.
Newest(h, id) == {i \in DOMAIN h : h[i].id = id /\ \A k \in DOMAIN h : h[k].id = id => k <= i}
SetStatus(h, ids, status) ==
    [i \in DOMAIN h |-> IF \E id \in ids : i \in Newest(h, id)
                       THEN [h[i] EXCEPT !.status = status] ELSE h[i]]

-----------------------------------------------------------------------------
(* The sending device. *)

\* speak: an unknown or ambiguous name is an error for the whole command.
Speak(m) ==
    /\ targets[m] = None
    /\ LET T == Resolve(Cmd[m].from, Cmd[m].to) IN
       /\ targets' = [targets EXCEPT ![m] = T]
       /\ caller' = [l \in Legs |->
            IF l[1] = m /\ l[2] <= Len(T) THEN "asking" ELSE caller[l]]
    /\ UNCHANGED <<answer, hosts, speech, history, people, minute, seen, restarted>>

Report(l, status) ==
    /\ caller' = [caller EXCEPT ![l] = "done"]
    /\ answer' = [answer EXCEPT ![l] = status]

\* The connection cannot be made, or breaks; the peer goes on with what it has.
Lose(l) ==
    /\ "lost" \in Faults /\ caller[l] = "asking" /\ ~Local(l)
    /\ Report(l, "unreachable")
    /\ UNCHANGED <<targets, hosts, speech, history, people, minute, seen, restarted>>

\* The process at the other end is gone.
Dead(l) ==
    /\ caller[l] = "asking" /\ host[l] = "over"
    /\ Report(l, "unreachable")
    /\ UNCHANGED <<targets, hosts, speech, history, people, minute, seen, restarted>>

-----------------------------------------------------------------------------
(* The device that is to speak: handle_peer and speak_here. *)

Goes(l, place, status) ==
    /\ host' = [host EXCEPT ![l] = place]
    /\ reply' = [reply EXCEPT ![l] = status]

\* handle_peer refuses what is over the limit, or sent in a space it does not share
\* with the sender; what each device thinks of the members is in Space, and here
\* either may be.  What is taken is recorded before anything is decided about it.
Receive(l) ==
    /\ caller[l] = "asking" /\ host[l] = "no"
    /\ \/ /\ history' = [history EXCEPT ![Dev(l)] =
                Record(@, [id |-> l[1], leg |-> l, status |-> "queued"])]
          /\ Goes(l, "recorded", None)
       \/ /\ ~Local(l)
          /\ Goes(l, "replying", "rejected")
          /\ UNCHANGED history
    /\ UNCHANGED <<calls, granted, speech, people, minute, seen, restarted>>

\* enqueue_inner: the policy, then the engine.
Judge(l) ==
    /\ host[l] = "recorded"
    /\ LET d == Dev(l)
           v == Judgement(d, Target(l).space, Cmd[l[1]].priority, Len(queue[d]))
       IN
       \/ /\ v = "speak"
          /\ Goes(l, "cleared", None)
          /\ granted' = [granted EXCEPT ![l] = <<policy[d], minute>>]
       \/ \E status \in IF v # "speak" THEN {v} ELSE Faults \cap {"noEngine"} :
             /\ Goes(l, "refused", status)
             /\ UNCHANGED granted
    /\ UNCHANGED <<calls, speech, history, people, minute, seen, restarted>>

\* Mutant: a refusal is answered and not written down.
SettleUnwritten(l) ==
    /\ host[l] = "refused"
    /\ Goes(l, "replying", reply[l])
    /\ UNCHANGED <<calls, granted, speech, history, people, minute, seen, restarted>>

\* settle, under another lock than the verdict: the refusal is written down, in the
\* newest entry with this id there is by now.
Settle(l) ==
    /\ host[l] = "refused"
    /\ history' = [history EXCEPT ![Dev(l)] = SetStatus(@, {l[1]}, reply[l])]
    /\ Goes(l, "replying", reply[l])
    /\ UNCHANGED <<calls, granted, speech, people, minute, seen, restarted>>

Submit(l) ==
    /\ host[l] = "cleared"
    /\ queue' = [queue EXCEPT ![Dev(l)] = Append(@, Job(l))]
    /\ IF Cmd[l[1]].wait THEN Goes(l, "waiting", None) ELSE Goes(l, "replying", "queued")
    /\ UNCHANGED <<calls, granted, saying, paused, history, people, minute, seen, restarted>>

\* Mutants: a caller that gave up is told that the message was cancelled; or it
\* never gives up.
TimeoutAsCancelled(l) ==
    /\ host[l] = "waiting"
    /\ Goes(l, "replying", "cancelled")
    /\ UNCHANGED <<calls, granted, speech, history, people, minute, seen, restarted>>
TimeoutNever(l) == FALSE /\ UNCHANGED vars

\* "still speaking; --timeout to wait longer".
Timeout(l) ==
    /\ host[l] = "waiting"
    /\ Goes(l, "replying", "speaking")
    /\ UNCHANGED <<calls, granted, speech, history, people, minute, seen, restarted>>

\* The report arrives, unless nobody waits for it any more.
Answer(l) ==
    /\ host[l] = "replying"
    /\ Goes(l, "over", reply[l])
    /\ IF caller[l] = "asking" THEN Report(l, reply[l]) ELSE UNCHANGED <<caller, answer>>
    /\ UNCHANGED <<targets, granted, speech, history, people, minute, seen, restarted>>

-----------------------------------------------------------------------------
(* The queue, and what it reports. *)

\* on_finish for the history, then the channel of a caller that still waits.
Ends(d, jobs, status) ==
    /\ history' = [history EXCEPT ![d] = SetStatus(@, {j.id : j \in jobs}, status)]
    /\ LET told == {l \in {j.leg : j \in jobs} \cap Legs : host[l] = "waiting"} IN
       /\ host' = [l \in Legs |-> IF l \in told THEN "replying" ELSE host[l]]
       /\ reply' = [l \in Legs |-> IF l \in told THEN status ELSE reply[l]]

Urgent(j) == ~j.asked /\ j.priority = "high"
First(q) ==
    IF \E i \in DOMAIN q : Urgent(q[i])
    THEN CHOOSE i \in DOMAIN q : Urgent(q[i]) /\ \A k \in 1 .. i - 1 : ~Urgent(q[k])
    ELSE 1

\* Mutant: what was asked for here is judged like what was sent.
GateReplays(d, j) == Judgement(d, j.space, j.priority, 0)

\* The policy again, at the moment of speaking, for all that was not asked for
\* here; the depth has had its say.
Gate(d, j) == IF j.asked THEN "speak" ELSE Judgement(d, j.space, j.priority, 0)

Begin(d) ==
    /\ saying[d] = None /\ ~paused[d] /\ queue[d] # <<>>
    /\ LET i == First(queue[d])
           j == queue[d][i]
           v == Gate(d, j)
       IN
       /\ queue' = [queue EXCEPT ![d] = RemoveAt(@, i)]
       /\ \/ /\ v = "speak"
             /\ saying' = [saying EXCEPT ![d] = j]
             /\ UNCHANGED <<host, reply, history, refused>>
          \/ /\ v # "speak"
             /\ Ends(d, {j}, v)
             /\ refused' = [refused EXCEPT ![d] = @ \cup {<<j, v, <<policy[d], minute>>>>}]
             /\ UNCHANGED saying
    /\ UNCHANGED <<calls, granted, paused, people, minute, heard, restarted>>

Finish(d) ==
    /\ saying[d] # None /\ ~paused[d]
    /\ \E status \in {"spoken"} \cup (Faults \cap {"noEngine"}) :
          /\ Ends(d, {saying[d]}, status)
          /\ heard' = [heard EXCEPT ![d] =
                IF status = "spoken" THEN @ \cup {[id |-> saying[d].id, leg |-> saying[d].leg]}
                ELSE @]
    /\ saying' = [saying EXCEPT ![d] = None]
    /\ UNCHANGED <<calls, granted, queue, paused, people, minute, refused, restarted>>

-----------------------------------------------------------------------------
(* What people do at a device, or from another one that may: apply_control. *)

Intervene(d, kind) == kind \in Controls[d] /\ left > 0 /\ left' = left - 1

\* The first place that has a message with this id, the urgent ones before the rest.
Found(q, id, i) ==
    /\ q[i].id = id
    /\ \A k \in DOMAIN q \ {i} : q[k].id = id =>
          IF Urgent(q[k]) THEN Urgent(q[i]) /\ i < k ELSE Urgent(q[i]) \/ i < k

\* stop --id: the one being spoken, or else one that waits under that id.
StopMessage(d, id) ==
    /\ Intervene(d, "stop")
    /\ \/ /\ saying[d] # None /\ saying[d].id = id
          /\ Ends(d, {saying[d]}, "cancelled")
          /\ saying' = [saying EXCEPT ![d] = None]
          /\ UNCHANGED queue
       \/ /\ ~(saying[d] # None /\ saying[d].id = id)
          /\ \E i \in DOMAIN queue[d] :
                /\ Found(queue[d], id, i)
                /\ Ends(d, {queue[d][i]}, "cancelled")
                /\ queue' = [queue EXCEPT ![d] = RemoveAt(@, i)]
          /\ UNCHANGED saying
    /\ UNCHANGED <<calls, granted, paused, policy, minute, seen, restarted>>

StopAll(d) ==
    /\ Intervene(d, "clear")
    /\ Ends(d, ToSet(queue[d]) \cup ({saying[d]} \ {None}), "cancelled")
    /\ queue' = [queue EXCEPT ![d] = <<>>]
    /\ saying' = [saying EXCEPT ![d] = None]
    /\ UNCHANGED <<calls, granted, paused, policy, minute, seen, restarted>>

Hold(d) ==
    /\ Intervene(d, "pause")
    /\ paused' = [paused EXCEPT ![d] = ~@]
    /\ UNCHANGED <<calls, hosts, queue, saying, history, policy, minute, seen, restarted>>

\* replay: the newest entry with that id, under the same id and with no caller.
Replay(d, id) ==
    /\ Intervene(d, "replay")
    /\ Newest(history[d], id) # {}
    /\ queue' = [queue EXCEPT ![d] = Append(@, Replayed(d, id))]
    /\ UNCHANGED <<calls, hosts, saying, paused, history, policy, minute, seen, restarted>>

Edit(d, scope, p) ==
    policy' = [policy EXCEPT ![d] =
        IF scope = None THEN [@ EXCEPT !.device = p] ELSE [@ EXCEPT !.over[scope] = p]]
Now(d, scope) == IF scope = None THEN policy[d].device ELSE policy[d].over[scope]

\* set_mute; that it also stops the engine is in Speaker.
SetMute(d, scope, on) ==
    /\ Intervene(d, "mute")
    /\ Edit(d, scope, [Now(d, scope) EXCEPT !.muted = on])
    /\ UNCHANGED <<calls, hosts, speech, history, minute, seen, restarted>>

SetQuiet(d, scope, q) ==
    /\ Intervene(d, "quiet")
    /\ Edit(d, scope, [Now(d, scope) EXCEPT !.quiet = q])
    /\ UNCHANGED <<calls, hosts, speech, history, minute, seen, restarted>>

Tick ==
    /\ minute' = (minute + 1) % Day
    /\ UNCHANGED <<calls, hosts, speech, history, people, seen, restarted>>

\* The process dies: its queue and its calls go, its history is on disk.
Restart(d) ==
    /\ Intervene(d, "restart")
    /\ restarted' = restarted \cup {d}
    /\ queue' = [queue EXCEPT ![d] = <<>>]
    /\ saying' = [saying EXCEPT ![d] = None]
    /\ paused' = [paused EXCEPT ![d] = FALSE]
    /\ host' = [l \in Legs |-> IF Given(l) /\ Dev(l) = d /\ host[l] # "no" THEN "over" ELSE host[l]]
    /\ caller' = [l \in Legs |-> IF Cmd[l[1]].from = d /\ caller[l] = "asking" THEN "done" ELSE caller[l]]
    /\ UNCHANGED <<targets, answer, reply, granted, history, policy, minute, seen>>

-----------------------------------------------------------------------------
LegStep(l) ==
    \/ Dead(l) \/ Receive(l) \/ Judge(l) \/ Settle(l)
    \/ Submit(l) \/ Timeout(l) \/ Answer(l)
Speaks(d) == Begin(d) \/ Finish(d)
Person(d) ==
    \/ \E id \in Sends : StopMessage(d, id) \/ Replay(d, id)
    \/ StopAll(d) \/ Hold(d)
    \/ \E scope \in Spaces \cup {None} :
          \/ \E on \in BOOLEAN : SetMute(d, scope, on)
          \/ \E q \in Hours[d] \cup {NoWindow} : SetQuiet(d, scope, q)

Next ==
    \/ \E m \in Sends : Speak(m)
    \/ \E l \in Legs : Given(l) /\ (LegStep(l) \/ Lose(l))
    \/ \E d \in Devices : Speaks(d) \/ Person(d) \/ Restart(d)
    \/ Tick

Spec == Init /\ [][Next]_vars

\* Tasks run, and each has finitely many steps, so one condition for all is enough.
\* The speaking thread is owed nothing: an engine may never return.
FairSpec == Spec /\ WF_<<caller, host>>(\E l \in Legs : Given(l) /\ LegStep(l))

-----------------------------------------------------------------------------
(* Properties. *)

\* An entry says "queued" only while its message is still on its way through this
\* device: every refusal and every end is written down, in the entry of the message
\* it is about.  A process that dies in between leaves the entry as it is.
InHand(d, id) ==
    \/ \E l \in Legs : /\ Given(l) /\ l[1] = id /\ Dev(l) = d
                       /\ host[l] \in {"recorded", "refused", "cleared"}
    \/ \E j \in ToSet(queue[d]) \cup ({saying[d]} \ {None}) : j.id = id
QueuedIsLive ==
    \A d \in Devices \ restarted, i \in 1 .. Keep :
        i \in DOMAIN history[d] /\ history[d][i].status = "queued"
            => InHand(d, history[d][i].id)

\* The report does not contradict what is heard, whatever timed out, was refused at
\* either check, or was cancelled meanwhile: "spoken" was heard, and a refusal or a
\* cancellation was not and never is.
LegHeard(l) == \E h \in heard[Dev(l)] : h.leg = l
AnswerIsTrue ==
    \A l \in Legs : Given(l) =>
        /\ answer[l] = "spoken" => LegHeard(l)
        /\ answer[l] \in Refusals \cup {"cancelled", "rejected", "noEngine"} => ~LegHeard(l)

\* One command is heard once at each device it names, however many names reach it
\* ("--to all,pixel should not make the phone say it twice"): what has been heard
\* there is not waiting to be heard again, and nothing waits or is spoken twice.
Once ==
    \A d \in Devices :
        LET sent == {h \in heard[d] : h.leg # None}
            line == <<saying[d]>> \o queue[d]
            owed == {i \in DOMAIN line : line[i] # None /\ ~line[i].asked}
        IN  /\ \A g, h \in sent : g.id = h.id => g = h
            /\ \A i \in owed : /\ \A h \in sent : h.id # line[i].id
                             /\ \A k \in owed : line[k].id = line[i].id => k = i

\* What is refused at the moment of speaking was let through under another policy or
\* at another time: the two checks ask the same question of the same message.
RefusedForCause ==
    \A d \in Devices : \A r \in refused[d] : ~r[1].asked /\ r[1].then # r[3]

\* Every row of every report is filled in, though devices are paused, engines hang,
\* connections break and processes die.
EveryRowAnswered == <>[](\A l \in Legs : caller[l] # "asking")

=============================================================================
