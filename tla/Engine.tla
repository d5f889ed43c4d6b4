------------------------------- MODULE Engine -------------------------------
(***************************************************************************)
(* What every speech engine shares: the speech thread, which speaks one    *)
(* chunk after another through SpeechEngine::speak, the threads that call  *)
(* SpeechEngine::stop, and the sound a chunk makes.                        *)
(*                                                                         *)
(* Spawned has the engines that run a process and Platform those that ask  *)
(* the system's synthesiser; Engines puts them together and states what    *)
(* is asked of all of them.                                                *)
(***************************************************************************)
EXTENDS Naturals

CONSTANTS Last, Stoppers, None

ASSUME EngineAssumption == Last \in Nat \ {0} /\ Stoppers \subseteq Nat

VARIABLES
    kind,       \* the engine in use
    chunk,      \* the chunk the speech thread is on
    at,         \* where its call of speak is
    result,     \* what speak returned for each chunk
    sound,      \* what has become of the sound of each chunk
    stopAt,     \* where each stop is
    \* history
    overtaken,  \* chunks whose call began while a stop was under way
    touched,    \* chunks during whose call a stop began
    asked,      \* of those, the ones the stop could find, until they are over
    faulted     \* chunks something other than a stop went wrong with

call == <<chunk, at, result>>
memory == <<overtaken, touched, asked, faulted>>
shared == <<kind, chunk, at, result, sound, stopAt, memory>>

Chunks  == 1 .. Last
Audible == {"waiting", "sounding"}

\* A stop that has begun and not returned.
Under(s) == stopAt[s] \notin {"before", "done"}

InCall == at # "idle"

EngineTypeOK ==
    /\ chunk \in 1 .. Last + 1
    /\ result \in [Chunks -> {"ok", "failed", None}]
    /\ sound \in [Chunks -> Audible \cup {"none", "whole", "cut", "lost"}]
    /\ overtaken \in SUBSET Chunks /\ touched \in SUBSET Chunks
    /\ asked \in SUBSET touched /\ faulted \in SUBSET Chunks

\* Bound: those spared do not stop anything.
EngineInit(spared) ==
    /\ chunk = 1 /\ at = "idle"
    /\ result = [c \in Chunks |-> None]
    /\ sound = [c \in Chunks |-> "none"]
    /\ stopAt = [s \in Stoppers |-> IF s \in spared THEN "done" ELSE "before"]
    /\ overtaken = {} /\ touched = {} /\ asked = {} /\ faulted = {}

\* speak is called, or the engine that was found for it is.
Called ==
    /\ at \in {"idle", "found"} /\ chunk \in Chunks
    /\ overtaken' = IF \E s \in Stoppers : Under(s)
                    THEN overtaken \cup {chunk} ELSE overtaken

\* speak returns, and the thread goes on to the next chunk.
Return(r) ==
    /\ at' = "idle" /\ chunk' = chunk + 1
    /\ result' = [result EXCEPT ![chunk] = r]

\* A stop has had its effect when the chunk is over.
Answered == asked' = IF chunk' = chunk THEN asked ELSE asked \ {chunk}

Goto(a) == at' = a /\ UNCHANGED <<chunk, result>>

Fault == faulted' = faulted \cup {chunk}

Sounds(c, v) == sound' = [sound EXCEPT ![c] = v]

\* tts.stop and its kin: what is queued is dropped, what sounds is cut off.
Silenced == [c \in Chunks |-> IF sound[c] \in Audible THEN "cut" ELSE sound[c]]

StopGoes(s, a) == stopAt' = [stopAt EXCEPT ![s] = a]

\* stop is called, by threads that are alike and numbered in the order in which
\* they call it; found is whether it can reach the chunk being spoken.
StopCalled(s, a, found) ==
    /\ stopAt[s] = "before" /\ \A r \in Stoppers : r < s => stopAt[r] # "before"
    /\ StopGoes(s, a)
    /\ touched' = IF InCall THEN touched \cup {chunk} ELSE touched
    /\ asked' = IF InCall /\ found THEN asked \cup {chunk} ELSE asked
    /\ UNCHANGED <<overtaken, faulted>>

=============================================================================
