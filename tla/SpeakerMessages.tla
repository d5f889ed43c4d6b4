--------------------------- MODULE SpeakerMessages ---------------------------
(***************************************************************************)
(* The queue and its thread, as Speaker has them, implement Messages.      *)
(***************************************************************************)
EXTENDS Speaker

\* Where a job is, for one who only knows messages.
PhaseOf(j) ==
    IF told[j] # "untold" THEN "ended"
    ELSE IF job = j THEN "speaking"
    ELSE IF resume = j THEN "interrupted"
    ELSE IF j \in ToSet(urgent) \cup ToSet(normal) THEN "waiting"
    ELSE IF \E c \in Clients : j \in ToSet(todo[c]) THEN "abandoned"
    ELSE IF j \in ToSet(accepted) THEN "lost"
    ELSE "new"

\* What is left of a job.
LeftOf(j) ==
    IF told[j] # "untold" THEN 0
    ELSE Chunks[j] - (IF job = j THEN index ELSE at[j])

Phase == [j \in Jobs |-> PhaseOf(j)]
Left  == [j \in Jobs |-> LeftOf(j)]

\* The jobs that a call has aimed at.
AimedAt == {j \in Jobs : doomed[j] # "no"}

Abstract == INSTANCE Messages WITH
    phase <- Phase, left <- Left, aimed <- AimedAt, outcome <- told

\* Every step of the queue, its thread and its callers is a step that Messages
\* allows, or none: no chunk is left out or spoken again but the one that was
\* cut, and a message is lost only when another is interrupted (speak_job).
ImplementsMessages == Abstract!Spec
=============================================================================
