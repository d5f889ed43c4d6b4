------------------------------- MODULE Policy -------------------------------
(***************************************************************************)
(* Whether a device may speak a message: core/policy.rs.  A policy is a    *)
(* switch and perhaps a daily window; a device has one for itself and      *)
(* others for some of its spaces, and each of them can only refuse.        *)
(***************************************************************************)
EXTENDS Naturals, FiniteSets

CONSTANTS Day,          \* minutes in a day
          DeepQueue,    \* from this depth on, low priority is dropped
          NoWindow

ASSUME PolicyAssumption == Day \in Nat \ {0} /\ DeepQueue \in Nat

Minutes == 0 .. Day - 1
Priorities == {"low", "normal", "high"}
Windows == [from : Minutes, to : Minutes, breaks : BOOLEAN]
Policies == [muted : BOOLEAN, quiet : Windows \cup {NoWindow}]
Open == [muted |-> FALSE, quiet |-> NoWindow]

\* QuietHours::contains; `from` after `to` crosses midnight.
Within(q, minute) ==
    \/ q.from < q.to /\ q.from <= minute /\ minute < q.to
    \/ q.from > q.to /\ (q.from <= minute \/ minute < q.to)

Quiet(p, priority, minute) ==
    /\ p.quiet # NoWindow
    /\ Within(p.quiet, minute)
    /\ ~(priority = "high" /\ p.quiet.breaks)

\* Policy::verdict: the first reason that applies.
Verdict(p, priority, minute, depth) ==
    CASE p.muted -> "muted"
      [] ~p.muted /\ Quiet(p, priority, minute) -> "quiet"
      [] ~p.muted /\ ~Quiet(p, priority, minute)
            /\ priority = "low" /\ depth >= DeepQueue -> "dropped"
      [] OTHER -> "speak"

\* Policies::verdict: the device first, then the space, which may be none.
Verdicts(device, over, priority, minute, depth) ==
    LET own == Verdict(device, priority, minute, depth) IN
    IF own # "speak" THEN own ELSE Verdict(over, priority, minute, depth)

-----------------------------------------------------------------------------
\* What a window is meant to be: the minutes counted on from its start until its
\* end, none when they are the same ("a window whose ends are equal is empty").
Span(q) == {(q.from + k) % Day : k \in 0 .. ((q.to + Day - q.from) % Day) - 1}
WindowsRight == \A q \in Windows, minute \in Minutes : Within(q, minute) <=> minute \in Span(q)

\* A space can only make a device quieter: what the device refuses stays refused.
FloorHolds ==
    \A p, o \in Policies, priority \in Priorities,
       minute \in Minutes, depth \in {0, DeepQueue} :
        Verdicts(p, o, priority, minute, depth) = "speak"
            => /\ Verdict(p, priority, minute, depth) = "speak"
               /\ Verdict(o, priority, minute, depth) = "speak"
=============================================================================
