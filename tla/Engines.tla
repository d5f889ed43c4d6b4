------------------------------ MODULE Engines -------------------------------
(***************************************************************************)
(* The engines together: which one a device has is chosen at the start, or *)
(* found later, and one speech thread and some stopping threads use it.    *)
(***************************************************************************)
EXTENDS Spawned, Platform, Discovery

CONSTANT Spared     \* bound: who does not stop an engine that is found late

ASSUME EnginesAssumption ==
    None \notin Nat \cup Spawning \cup OnSystem \cup {"ok", "failed"}

vars == <<shared, spawned, platform, finding>>

TypeOK ==
    /\ kind \in Spawning \cup OnSystem \cup {None}
    /\ EngineTypeOK /\ SpawnedTypeOK /\ PlatformTypeOK /\ DiscoveryTypeOK

Init ==
    /\ DiscoveryInit /\ EngineInit(IF wrapped THEN Spared ELSE {})
    /\ SpawnedInit /\ PlatformInit

Speak ==
    \/ /\ (SpeakSpawned /\ UNCHANGED platform) \/ (SpeakPlatform /\ UNCHANGED spawned)
       /\ Calls /\ UNCHANGED <<has, wrapped, slot, via, due, probing, tuned>>
    \/ SpeakNotFound /\ UNCHANGED <<spawned, platform>>

Stop(s) ==
    \/ /\ Reaches(s)
       /\ (StopSpawned(s) /\ UNCHANGED platform) \/ (StopPlatform(s) /\ UNCHANGED spawned)
       /\ StopCalls(s) /\ UNCHANGED <<has, wrapped, slot, mine, due, probing, tuned>>
    \/ StopMisses(s) /\ UNCHANGED <<spawned, platform>>

Listener == Notify /\ UNCHANGED <<spawned, finding>>

Next ==
    \/ Speak
    \/ \E s \in Stoppers : Stop(s)
    \/ Listener
    \/ System /\ UNCHANGED <<platform, finding>>
    \/ Synthesiser /\ UNCHANGED <<spawned, finding>>
    \/ /\ Install \/ RetryPasses \/ LookElsewhere \/ ProbedElsewhere
       /\ UNCHANGED <<spawned, platform>>

\* The speech thread runs, a stop that has begun goes on, and a callback is
\* delivered.  Nothing makes a sound end by itself: a chunk may be as long as
\* it likes.
Fairness ==
    /\ WF_at(Speak)
    /\ \A s \in Stoppers : WF_stopAt(Stop(s) /\ Under(s))
    /\ WF_notices(Listener)

Spec == Init /\ [][Next]_vars /\ Fairness

-----------------------------------------------------------------------------
(* Properties.                                                             *)

Untouched(c) == c \notin touched \cup overtaken

\* What speak returned is true (EngineError::Failed: "an engine was present,
\* ran, and failed. Nothing was heard").  With no stop about, Ok means that
\* the chunk was heard to its end, and an error that it was not.  A stop is
\* not reported as a fault by the engines that call it none, child.rs and the
\* polling ones.  Three answers are known to be generous: a synthesiser that is
\* polled and has not begun within START_GRACE is taken to have spoken, a SAPI voice
\* that does not answer is said to have failed though it may go on, and Android's
\* onError releases the latch like onDone.
Honest ==
    \A c \in Chunks : result[c] # None =>
        /\ (Untouched(c) /\ result[c] = "ok") =>
              sound[c] = "whole" \/ (kind \in OnSystem /\ c \in faulted)
        /\ (Untouched(c) /\ result[c] = "failed") => sound[c] # "whole" \/ kind = "sapi"
        /\ result[c] = "failed" => c \in faulted \/ kind \in {"pipe", "latch"}

\* A chunk whose speak has returned makes no sound behind the next one's and
\* leaves no rendered file, unless a stop is just about to silence it: nothing
\* is left once the stops have returned.  On Android this is said of the calls that
\* did not begin while a stop was under way, and where the synthesiser is polled of
\* those it began in time and of which it did not cease to answer.
Quiet ==
    \A c \in Chunks : result[c] # None /\ (sound[c] \in Audible \/ c \in scratch) =>
        \/ \E s \in Stoppers : Under(s)
        \/ kind = "latch" /\ c \in overtaken
        \/ kind \in Polled /\ c \in faulted

\* "Stop immediately, mid-sentence": speak returns after a stop that could
\* find the chunk, however long the chunk would have sounded.
StopEnds == \A c \in Chunks : c \in asked ~> result[c] # None

\* Claims that hold of some engines only (Engines_claims.cfg).

\* Quiet with no exception: a stop that is under way when a call of Android's
\* speak begins releases a latch it was not meant for, and speak says "spoken"
\* while the chunk plays; a SAPI voice or Apple's that begins late plays on.
AlwaysQuiet ==
    \A c \in Chunks : result[c] # None /\ sound[c] \in Audible =>
        \E s \in Stoppers : Under(s)

\* "A caller that waited is told the truth" (Speech.kt): a chunk that the
\* engine reported an error for is not reported spoken.
SpokenWasHeard ==
    \A c \in Chunks : (Untouched(c) /\ result[c] = "ok") => sound[c] = "whole"

\* "Apply a remembered voice before anything can be spoken with the wrong one"
\* (node.rs): what Rediscovering finds has never been told.
RightVoice == \A c \in Chunks : c = chunk /\ sound[c] = "sounding" => mine \in tuned

\* A stop called while a chunk sounds ends it, whichever engine was found last.
StopReaches == \A c \in Chunks : c = chunk /\ c \in touched /\ sound[c] = "sounding" => mine = slot

\* "Without this every interrupt would be reported as the player having
\* crashed" (child.rs): Piper, whose pipe breaks when the player is killed, is
\* not yet marked as killed itself.
StopIsNoFault ==
    \A c \in Chunks : result[c] = "failed" => c \in faulted

=============================================================================
