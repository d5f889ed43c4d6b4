------------------------------ MODULE Discovery -----------------------------
(***************************************************************************)
(* Which engine a device speaks with: the best of those there are when the *)
(* app or the daemon starts, or an engine that only says why it cannot     *)
(* speak, or, where somebody may yet install Piper, one that keeps looking *)
(* for it (rediscovering.rs).  Whoever calls it looks: the speech thread,  *)
(* and the threads that answer for the device.                             *)
(***************************************************************************)
EXTENDS Engine

CONSTANTS Systems, Equipment, Arriving

Things == {"piper", "voice", "stream", "file", "espeak", "synthesiser"}

ASSUME DiscoveryAssumption ==
    /\ Systems \subseteq {"linux", "unix", "apple", "windows", "android"}
    /\ Equipment \subseteq SUBSET Things
    /\ Arriving \subseteq {"piper", "voice"}

VARIABLES
    has,        \* what is installed
    wrapped,    \* the engine is a Rediscovering
    slot,       \* found: which PiperEngine it holds, 0 for none
    mine,       \* the one the speech thread is calling
    via,        \* the one each stop is calling
    due,        \* next_try has passed
    probing,    \* another thread is looking
    tuned       \* the engines that were told which voice the person chose

finding == <<has, wrapped, slot, mine, via, due, probing, tuned>>

\* PiperEngine::discover: a binary that starts, a voice and a player, of which
\* those that stream come first.
Discover(things) ==
    IF {"piper", "voice"} \subseteq things
    THEN IF "stream" \in things THEN "pipe"
         ELSE IF "file" \in things THEN "file" ELSE None
    ELSE None

\* speech_engine.
Native == [apple |-> "main", windows |-> "sapi", android |-> "latch"]
Chosen(system, things) ==
    IF system \in DOMAIN Native
    THEN IF "synthesiser" \in things THEN Native[system] ELSE None
    ELSE IF Discover(things) # None THEN Discover(things)
    ELSE IF system = "linux" /\ "espeak" \in things THEN "one" ELSE None

\* Only Piper may appear later.
KeepsLooking(system, things) == Chosen(system, things) = None /\ system \notin DOMAIN Native

\* Node::new_in applies the remembered voice to the engine there is.
DiscoveryInit ==
    /\ \E system \in Systems, things \in Equipment :
        /\ has = things
        /\ kind = Chosen(system, things)
        /\ wrapped = KeepsLooking(system, things)
    /\ slot = IF kind = None THEN 0 ELSE 1
    /\ tuned = IF kind = None THEN {} ELSE {1}
    /\ mine = slot /\ via = [s \in Stoppers |-> slot]
    /\ due = TRUE /\ probing = FALSE

DiscoveryTypeOK ==
    /\ has \subseteq Things
    /\ wrapped \in BOOLEAN /\ due \in BOOLEAN /\ probing \in BOOLEAN
    /\ slot \in Nat /\ mine \in Nat /\ tuned \subseteq Nat /\ via \in [Stoppers -> Nat]

Install ==
    /\ wrapped
    /\ \E thing \in Arriving \ has : has' = has \cup {thing}
    /\ UNCHANGED <<shared, wrapped, slot, mine, via, due, probing, tuned>>

\* RETRY has passed since somebody looked; they may be looking still.
RetryPasses ==
    /\ wrapped /\ ~due /\ slot = 0
    /\ due' = TRUE
    /\ UNCHANGED <<shared, has, wrapped, slot, mine, via, probing, tuned>>

\* Nothing yet: the reason is what speak returns.
NothingYet ==
    /\ kind = None /\ ~(wrapped /\ due)
    /\ Called
    /\ Return("failed") /\ Fault
    /\ Answered /\ UNCHANGED <<kind, sound, stopAt, touched>>
    /\ UNCHANGED finding

\* engine: who finds nothing and may look, looks, holding no lock.
Look ==
    /\ wrapped /\ slot = 0 /\ due
    /\ Called
    /\ Goto("probe") /\ due' = FALSE
    /\ UNCHANGED <<kind, sound, stopAt, touched, asked, faulted>>
    /\ UNCHANGED <<has, wrapped, slot, mine, via, probing, tuned>>

\* What a probe finds takes the place of what was found meanwhile.
Found == slot' = slot + 1 /\ kind' = Discover(has)

Probed ==
    /\ at = "probe"
    /\ \/ /\ Discover(has) # None
          /\ Found /\ mine' = slot + 1
          /\ Goto("found") /\ UNCHANGED faulted
       \/ /\ Discover(has) = None
          /\ Return("failed") /\ Fault
          /\ UNCHANGED <<kind, slot, mine>>
    /\ Answered /\ UNCHANGED <<sound, stopAt, overtaken, touched>>
    /\ UNCHANGED <<has, wrapped, via, due, probing, tuned>>

\* ready, voices and current_voice, which a status, a message that arrives or
\* the choice of a voice calls.
LookElsewhere ==
    /\ wrapped /\ slot = 0 /\ due /\ ~probing
    /\ probing' = TRUE /\ due' = FALSE
    /\ UNCHANGED <<shared, has, wrapped, slot, mine, via, tuned>>

ProbedElsewhere ==
    /\ probing
    /\ probing' = FALSE
    /\ IF Discover(has) # None THEN Found ELSE UNCHANGED <<slot, kind>>
    /\ UNCHANGED <<call, sound, stopAt, memory>>
    /\ UNCHANGED <<has, wrapped, mine, via, due, tuned>>

SpeakNotFound == NothingYet \/ Look \/ Probed

\* The engine that speak goes to: what it has just found, or what there is.
Calls == mine' = IF at = "idle" THEN slot ELSE mine

\* stop goes to what was found, if anything: that is not what speaks, if it
\* took the place of it, and there it finds nothing.
Reaches(s) == CASE stopAt[s] = "before" -> slot # 0 /\ (InCall => mine = slot)
                [] stopAt[s] = "take"   -> via[s] = mine
                [] OTHER                -> TRUE
StopCalls(s) == via' = IF stopAt[s] = "before" THEN [via EXCEPT ![s] = slot] ELSE via

StopMisses(s) ==
    /\ ~Reaches(s)
    /\ \/ StopCalled(s, "done", FALSE)
       \/ stopAt[s] = "take" /\ StopGoes(s, "done") /\ UNCHANGED memory
    /\ UNCHANGED <<kind, call, sound>>
    /\ UNCHANGED finding

=============================================================================
