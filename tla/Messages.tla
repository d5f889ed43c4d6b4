------------------------------ MODULE Messages ------------------------------
(***************************************************************************)
(* What the speaking queue of a device promises of the messages handed to  *)
(* it, whatever callers it has and however it orders them: one message is  *)
(* spoken at a time, from its first chunk to its last, an interrupted one  *)
(* goes on where it was, only what was aimed at is cancelled, and every    *)
(* message ends once.  There is room for one interrupted message: a second *)
(* takes the place of the first, which is lost.                            *)
(***************************************************************************)
EXTENDS Naturals

CONSTANTS
    Jobs,       \* the messages that may be handed over
    Chunks      \* how many chunks a message has

VARIABLES
    phase,      \* how far each message has come
    left,       \* how many of its chunks have yet to be spoken
    aimed,      \* the messages that a call has asked to cancel
    outcome     \* how each message ended

vars == <<phase, left, aimed, outcome>>

In(s) == {j \in Jobs : phase[j] = s}

Init ==
    /\ phase = [j \in Jobs |-> "new"]
    /\ left = Chunks
    /\ aimed = {}
    /\ outcome = [j \in Jobs |-> "untold"]

Accept(j) ==
    /\ phase[j] = "new"
    /\ phase' = [phase EXCEPT ![j] = "waiting"]
    /\ UNCHANGED <<left, aimed, outcome>>

Begin(j) ==
    /\ In("speaking") = {}
    /\ phase[j] \in {"waiting", "interrupted"}
    /\ phase' = [phase EXCEPT ![j] = "speaking"]
    /\ UNCHANGED <<left, aimed, outcome>>

\* A chunk is spoken to its end.
Say(j) ==
    /\ phase[j] = "speaking"
    /\ left[j] > 0
    /\ left' = [left EXCEPT ![j] = @ - 1]
    /\ UNCHANGED <<phase, aimed, outcome>>

Interrupt(j) ==
    /\ phase[j] = "speaking"
    /\ phase' = [k \in Jobs |-> IF k = j THEN "interrupted"
                                ELSE IF phase[k] = "interrupted" THEN "lost"
                                ELSE phase[k]]
    /\ UNCHANGED <<left, aimed, outcome>>

\* A call abandons the messages S, and aims at T.
Aim(S, T) ==
    /\ S \subseteq In("waiting") \cup In("interrupted")
    /\ T \subseteq In("speaking") \cup In("interrupted")
    /\ phase' = [j \in Jobs |-> IF j \in S THEN "abandoned" ELSE phase[j]]
    /\ aimed' = aimed \cup S \cup T
    /\ UNCHANGED <<left, outcome>>

\* Nothing is left of a message that has ended, and its end is told.
Ends(j, o) ==
    /\ phase' = [phase EXCEPT ![j] = "ended"]
    /\ left' = [left EXCEPT ![j] = 0]
    /\ outcome' = [outcome EXCEPT ![j] = o]
    /\ UNCHANGED aimed

End(j) ==
    /\ phase[j] = "speaking"
    /\ \/ left[j] = 0 /\ Ends(j, "spoken")
       \/ j \in aimed /\ Ends(j, "cancelled")
       \/ \E o \in {"muted", "noEngine", "unreachable"} : Ends(j, o)

Tell(j) ==
    /\ phase[j] = "abandoned"
    /\ Ends(j, "cancelled")

Next ==
    \/ \E j \in Jobs : Accept(j) \/ Begin(j) \/ Say(j) \/ Interrupt(j) \/ End(j) \/ Tell(j)
    \/ \E S, T \in SUBSET Jobs : Aim(S, T)

Spec == Init /\ [][Next]_vars
=============================================================================
