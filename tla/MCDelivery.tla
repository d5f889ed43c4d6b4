----------------------------- MODULE MCDelivery -----------------------------
(***************************************************************************)
(* Instances of Delivery for TLC: a desk and a phone that share a space or *)
(* two, and a day of two minutes with a quiet window in the second.        *)
(***************************************************************************)
EXTENDS Delivery, TLC

CONSTANTS desk, phone,      \* devices
          home, work,       \* spaces
          m, n              \* commands

Two == {desk, phone}
OneSpace  == [d \in Devices |-> [s \in Spaces |-> IF s = home THEN Two ELSE {}]]
BothSpaces == [d \in Devices |-> [s \in Spaces |-> Two]]
Stale == [d \in Devices |-> [s \in Spaces |->
            IF d = desk THEN Two ELSE IF s = home THEN Two ELSE {phone}]]
AllHome == [d \in Devices |-> home]
Names2 == [d \in Devices |-> IF d = desk THEN "desk" ELSE "phone"]

E(s, x) == [scope |-> s, name |-> x]
\* The desk tells itself, naming itself twice; the phone tells the desk and waits,
\* naming it in two ways.
Commands == [c \in Sends |->
    IF c = m THEN [from |-> desk, to |-> <<E(None, "here"), E(None, "desk")>>,
                   priority |-> "high", wait |-> FALSE]
    ELSE [from |-> phone, to |-> <<E(home, "desk"), E(None, "desk")>>,
          priority |-> "low", wait |-> TRUE]]
Everywhere == [c \in Sends |->
    [from |-> desk, to |-> <<E(home, "all"), E(work, "all")>>,
     priority |-> "normal", wait |-> FALSE]]
All == {"stop", "clear", "pause", "replay", "mute", "quiet", "restart"}
AtDesk == [d \in Devices |-> IF d = desk THEN All ELSE {"restart"}]
Night == [d \in Devices |-> IF d = desk THEN {[from |-> 1, to |-> 0, breaks |-> TRUE]} ELSE {}]

\* The rules of a policy on a longer day, in which windows begin and end at other
\* times than midnight: a window is the minutes it is meant to be, and what a
\* device refuses no space of it allows.
LongDay == INSTANCE Policy WITH Day <- 7
ASSUME PolicyRight == LongDay!WindowsRight /\ LongDay!FloorHolds
=============================================================================
