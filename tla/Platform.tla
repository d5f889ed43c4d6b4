------------------------------ MODULE Platform ------------------------------
(***************************************************************************)
(* The engines that hand the text to the system's synthesiser: SAPI on     *)
(* Windows, whose voice belongs to one worker thread ("sapi"); Apple's,    *)
(* which is only touched on the main thread ("main"); Android's, which     *)
(* calls a listener back and whose caller waits on a latch ("latch").      *)
(*                                                                         *)
(* The synthesiser is external: it begins what it queued, one utterance at *)
(* a time and as late as it likes, and finishes it, or drops it.  Sound on *)
(* Android lasts less than five minutes.                                   *)
(***************************************************************************)
EXTENDS Engine

VARIABLES
    stopping,   \* sapi: set by stop, cleared by speak
    started,    \* sapi, main: the poll has seen it speak
    generation, \* latch: stopGeneration
    seenGen,    \* latch: the generation speak read
    waiting,    \* latch: the map of latches
    down,       \* latch: the chunks whose latch was counted down
    notices     \* latch: callbacks not yet delivered

latches == <<generation, seenGen, waiting, down, notices>>
polls   == <<stopping, started>>
platform == <<polls, latches>>

Polled   == {"sapi", "main"}
OnSystem == Polled \cup {"latch"}

PlatformInit ==
    /\ stopping = FALSE /\ started = FALSE
    /\ generation = 0 /\ seenGen = 0
    /\ waiting = {} /\ down = {} /\ notices = {}

PlatformTypeOK ==
    /\ stopping \in BOOLEAN /\ started \in BOOLEAN
    /\ generation \in Nat /\ seenGen \in Nat
    /\ waiting \subseteq Chunks /\ down \subseteq Chunks /\ notices \subseteq Chunks

-----------------------------------------------------------------------------
(* The synthesiser.                                                        *)

Tell(c) == notices' = IF kind = "latch" THEN notices \cup {c} ELSE notices

Synthesiser ==
    /\ kind \in OnSystem
    /\ \E c \in Chunks :
        \/ /\ sound[c] = "waiting"
           /\ \A d \in Chunks : sound[d] # "sounding" /\ (d < c => sound[d] # "waiting")
           /\ Sounds(c, "sounding") /\ UNCHANGED <<notices, faulted>>
        \/ sound[c] = "sounding" /\ Sounds(c, "whole") /\ Tell(c) /\ UNCHANGED faulted
        \* onError, which says so
        \/ /\ kind = "latch" /\ sound[c] \in Audible
           /\ Sounds(c, "cut") /\ Tell(c) /\ faulted' = faulted \cup {c}
        \* dropped without a word
        \/ /\ sound[c] = "waiting"
           /\ Sounds(c, "lost") /\ faulted' = faulted \cup {c}
           /\ UNCHANGED notices
    /\ UNCHANGED <<kind, call, stopAt, overtaken, touched, asked, polls,
                   generation, seenGen, waiting, down>>

\* onDone, onError and onStop do the same.
Notify ==
    /\ \E c \in notices :
        /\ notices' = notices \ {c}
        /\ down' = IF c \in waiting THEN down \cup {c} ELSE down
        /\ waiting' = waiting \ {c}
    /\ UNCHANGED <<shared, polls, generation, seenGen>>

-----------------------------------------------------------------------------
(* sapi and main.                                                          *)

\* WindowsEngine::speak clears the flag before it asks the worker.
Ask ==
    /\ kind = "sapi" /\ Called
    /\ stopping' = FALSE
    /\ Goto("worker")
    /\ UNCHANGED <<faulted, sound, started>>

\* speak_one on the worker, which purges what SAPI has queued and can be refused;
\* AppleEngine::speak on the main thread, where it is queued behind what is late.
Utter ==
    /\ \/ at = "worker" /\ UNCHANGED overtaken
       \/ kind = "main" /\ Called
    /\ \/ /\ kind = "sapi" /\ Goto("poll")
          /\ sound' = [Silenced EXCEPT ![chunk] = "waiting"] /\ UNCHANGED faulted
       \/ /\ kind = "main" /\ Goto("poll")
          /\ Sounds(chunk, "waiting")
          /\ IF \E c \in Chunks : sound[c] \in Audible THEN Fault ELSE UNCHANGED faulted
       \/ kind = "sapi" /\ Return("failed") /\ Fault /\ UNCHANGED sound
    /\ started' = FALSE
    /\ UNCHANGED stopping

\* isSpeaking and dwRunningState are of the voice, not of one utterance.
Speaking == \E c \in Chunks : sound[c] = "sounding"

\* One turn of the loop: a stop first, then a voice that does not answer, then
\* whether it speaks.  When START_GRACE is over it is taken to have spoken, though
\* it may yet begin.
Poll ==
    /\ at = "poll"
    /\ \/ /\ kind = "sapi" /\ stopping
          /\ sound' = Silenced /\ Return("ok") /\ UNCHANGED <<started, faulted>>
       \/ /\ ~(kind = "sapi" /\ stopping)
          /\ \/ kind = "sapi" /\ Return("failed") /\ Fault /\ UNCHANGED started
             \/ Speaking /\ ~started /\ started' = TRUE /\ UNCHANGED <<call, faulted>>
             \/ /\ ~Speaking /\ (started \/ sound[chunk] # "waiting")
                /\ Return("ok") /\ UNCHANGED <<started, faulted>>
             \/ /\ ~Speaking /\ ~started /\ sound[chunk] = "waiting"
                /\ Return("ok") /\ Fault /\ UNCHANGED started
          /\ UNCHANGED sound
    /\ UNCHANGED <<overtaken, stopping>>

\* One store, or one call on the main thread.
StopPolled(s) ==
    /\ kind \in Polled
    /\ StopCalled(s, "done", at # "worker" \/ kind = "sapi")
    /\ \/ kind = "sapi" /\ stopping' = TRUE /\ UNCHANGED sound
       \/ kind = "main" /\ sound' = Silenced /\ UNCHANGED stopping
    /\ UNCHANGED <<kind, call, started, latches>>

-----------------------------------------------------------------------------
(* latch.                                                                  *)

\* Not ready, or the generation is read.
ReadGeneration ==
    /\ kind = "latch" /\ Called
    /\ \/ Return("failed") /\ Fault /\ UNCHANGED seenGen
       \/ Goto("latch") /\ seenGen' = generation /\ UNCHANGED faulted
    /\ UNCHANGED <<sound, generation, waiting, down, notices>>

PutLatch ==
    /\ at = "latch"
    /\ waiting' = waiting \cup {chunk}
    /\ Goto("queue")
    /\ UNCHANGED <<overtaken, faulted, sound, generation, seenGen, down, notices>>

Queue ==
    /\ at = "queue"
    /\ \/ Goto("again") /\ Sounds(chunk, "waiting") /\ UNCHANGED <<faulted, waiting>>
       \/ /\ Return("failed") /\ Fault /\ UNCHANGED sound
          /\ waiting' = waiting \ {chunk}
    /\ UNCHANGED <<overtaken, generation, seenGen, down, notices>>

\* tts.stop: onStop follows for what it cut.
TtsStop ==
    /\ sound' = Silenced
    /\ notices' = notices \cup {c \in Chunks : sound[c] \in Audible}

\* Mutant (#61): nobody looks whether a stop came.
AgainBlind ==
    /\ at = "again"
    /\ Goto("await")
    /\ UNCHANGED <<overtaken, faulted, sound, waiting, notices, generation,
                   seenGen, down>>

\* The stop that came while the text was queued.
Again ==
    /\ at = "again"
    /\ \/ seenGen = generation /\ Goto("await") /\ UNCHANGED <<sound, waiting, notices>>
       \/ /\ seenGen # generation
          /\ TtsStop /\ waiting' = waiting \ {chunk} /\ Return("failed")
    /\ UNCHANGED <<overtaken, faulted, generation, seenGen, down>>

\* The latch, or five minutes, in which all sound has ended and been told.
Await ==
    /\ at = "await"
    /\ \/ chunk \in down /\ Return("ok")
       \/ /\ chunk \notin down /\ sound[chunk] \notin Audible
          /\ chunk \notin notices
          /\ Return("failed")
    /\ waiting' = waiting \ {chunk}
    /\ UNCHANGED <<overtaken, faulted, sound, generation, seenGen, down, notices>>

Bump(s) ==
    /\ kind = "latch"
    /\ StopCalled(s, "tts", TRUE)
    /\ generation' = generation + 1
    /\ UNCHANGED <<sound, waiting, down, notices>>

Silence(s) ==
    /\ stopAt[s] = "tts" /\ StopGoes(s, "release")
    /\ TtsStop
    /\ UNCHANGED <<generation, waiting, down, memory>>

Release(s) ==
    /\ stopAt[s] = "release" /\ StopGoes(s, "forget")
    /\ down' = down \cup waiting
    /\ UNCHANGED <<sound, generation, waiting, notices, memory>>

ClearMap(s) ==
    /\ stopAt[s] = "forget" /\ StopGoes(s, "done")
    /\ waiting' = {}
    /\ UNCHANGED <<sound, generation, down, notices, memory>>

StopLatch(s) ==
    /\ Bump(s) \/ Silence(s) \/ Release(s) \/ ClearMap(s)
    /\ UNCHANGED <<kind, call, seenGen, polls>>

-----------------------------------------------------------------------------
SpeakPlatform ==
    /\ \/ (Ask \/ Utter \/ Poll) /\ UNCHANGED latches
       \/ /\ ReadGeneration \/ PutLatch \/ Queue \/ Again \/ Await
          /\ UNCHANGED polls
    /\ Answered /\ UNCHANGED <<kind, stopAt, touched>>

StopPlatform(s) == StopPolled(s) \/ StopLatch(s)

=============================================================================
