------------------------------- MODULE MCHome -------------------------------
(***************************************************************************)
(* Instances of Home for TLC: two or three spaces founded here, one        *)
(* founded elsewhere, two invites, two connections of the CLI.             *)
(***************************************************************************)
EXTENDS Home, TLC

CONSTANTS s1, s2, s3, s4, f1,       \* spaces
          main, work, slash, pad, num,   \* labels
          p1, p2,                   \* other devices
          t1, t2,                   \* tickets
          c1, c2                    \* clients

\* " work" is read as "work"; "a/b" is not a name.
TrimOf == [l \in Labels |-> IF l = pad THEN work ELSE l]

Do(f) == [c \in Clients |-> f[c]]
Sequential == Do(c1 :> Departing \cup {"join", "new", "mute", "rename"} @@ c2 :> {"invite", "revoke", "default"})
LeaveTwice == Do(c1 :> {"leave"} @@ c2 :> {"leave"})
NewOnly    == Do(c1 :> {"new"} @@ c2 :> {})
Inviting   == Do(c1 :> {"invite"} @@ c2 :> {"invite"})
Muting     == Do(c1 :> {"leave", "mute"} @@ c2 :> {"mute"})
Of11 == [c \in Clients |-> 1]
Of22 == [c \in Clients |-> 2]
Of32 == Do(c1 :> 3 @@ c2 :> 2)
Of12 == Do(c1 :> 1 @@ c2 :> 2)
Of21 == Do(c1 :> 2 @@ c2 :> 1)
Of31 == Do(c1 :> 3 @@ c2 :> 1)
Alike == Permutations(Own) \cup Permutations({main, work}) \cup Permutations(Tickets)
=============================================================================
