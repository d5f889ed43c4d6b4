-------------------------------- MODULE Roster --------------------------------
(***************************************************************************)
(* The membership of one space as one device knows it                      *)
(* (clispeak-core/src/roster.rs): a record for each member, a tombstone    *)
(* for each device that was removed, and the rules by which two rosters    *)
(* become one.  Stamps are seconds of the clock of the device that wrote   *)
(* them.  Every device signs what it says, so the only check of            *)
(* verify_at that can fail here is the one on the date.                    *)
(***************************************************************************)
EXTENDS Naturals

CONSTANTS
    Devices,    \* endpoint ids
    Names,      \* labels of devices
    None,       \* Option::None
    MaxSkew     \* how far ahead of the reader's clock a stamp may be

\* What is signed is the join stamp; the label and its stamp are not.
Record == [joined : Nat, name : Names, renamed : Nat]

\* A tombstone of 0 is none: no clock shows 0.
Rosters == [members : [Devices -> Record \cup {None}],
            revoked : [Devices -> Nat]]

ASSUME RosterAssumption ==
    None \notin Names /\ None \notin Record /\ None \notin Rosters /\ MaxSkew \in Nat

Later(s, t)   == IF s > t THEN s ELSE t
Earlier(s, t) == IF s < t THEN s ELSE t

\* Roster::is_current, holds and allows.
Current(r, d) == r.members[d] # None /\ ~(r.revoked[d] > r.members[d].joined)

Members(r) == {d \in Devices : Current(r, d)}

\* Roster::invite (insert_self_signed): a record signed at t, and the
\* tombstone it beats is spent.
InviteOnly(r, d, n, t) ==
    [r EXCEPT !.members[d] = [joined |-> t, name |-> n, renamed |-> t]]
Invite(r, d, n, t) ==
    [members |-> [r.members EXCEPT ![d] = [joined |-> t, name |-> n, renamed |-> t]],
     revoked |-> [r.revoked EXCEPT ![d] = 0]]

\* Roster::revoke, a decision that travels, and forget, a guess that does not.
Revoke(r, d, t) == [members |-> [r.members EXCEPT ![d] = None],
                    revoked |-> [r.revoked EXCEPT ![d] = t]]
Forget(r, d)    == [r EXCEPT !.members[d] = None]

\* Roster::rename: a new label is never stamped like the one it replaces.
Rename(r, d, n, t) ==
    IF r.members[d] # None /\ r.members[d].name # n
    THEN [r EXCEPT !.members[d].name = n,
                   !.members[d].renamed = Later(t, r.members[d].renamed + 1)]
    ELSE r

\* What a device sends: its current members and all its tombstones.
MembersOnly(r) == [r EXCEPT !.revoked = [d \in Devices |-> 0]]
Snapshot(r) == [members |-> [d \in Devices |-> IF Current(r, d) THEN r.members[d] ELSE None],
                revoked |-> r.revoked]

\* verify_at: a record dated further ahead than clocks drift is refused.
Verified(m, t) == m # None /\ m.joined <= t + MaxSkew

\* Roster::adopt: the records of a snapshot that verify, and no tombstones.
Adopt(s, t) ==
    [members |-> [d \in Devices |-> IF Verified(s.members[d], t) THEN s.members[d] ELSE None],
     revoked |-> [d \in Devices |-> 0]]

\* A label dated further ahead than that is read as no rename at all.
Plausible(m, t) == IF m.renamed > t + MaxSkew THEN [m EXCEPT !.renamed = m.joined] ELSE m

\* Which of two records for a device survives a merge: the newer membership,
\* and otherwise the newer label -- with all of its record.
KeptTheirs(mine, theirs, t) == IF Verified(theirs, t) THEN Plausible(theirs, t) ELSE mine
Kept(mine, theirs, t) ==
    IF ~Verified(theirs, t) THEN mine
    ELSE IF /\ mine # None
            /\ mine.joined >= theirs.joined
            /\ Plausible(theirs, t).renamed <= mine.renamed
         THEN mine
         ELSE Plausible(theirs, t)

\* The tombstone there is after hearing of theirs, which is clamped to now.
StoneAsDated(r, s, d, t) == Later(r.revoked[d], s.revoked[d])
StoneTheirs(r, s, d, t) == IF s.revoked[d] # 0 THEN Earlier(s.revoked[d], t) ELSE r.revoked[d]
Stone(r, s, d, t) == Later(r.revoked[d], Earlier(s.revoked[d], t))

\* What is left of a member, unless a tombstone beats it, and of a tombstone,
\* unless a member does.
Survivor(r, s, d, t) ==
    LET m == Kept(r.members[d], s.members[d], t)
    IN IF m # None /\ Stone(r, s, d, t) > m.joined THEN None ELSE m

Standing(r, s, d, t) ==
    LET m == Kept(r.members[d], s.members[d], t)
    IN IF m # None /\ m.joined >= Stone(r, s, d, t) THEN 0 ELSE Stone(r, s, d, t)

\* Roster::merge_at.
Merge(r, s, t) ==
    [members |-> [d \in Devices |-> Survivor(r, s, d, t)],
     revoked |-> [d \in Devices |-> Standing(r, s, d, t)]]

\* No device is a member and removed at once.
Consistent(r) == \A d \in Devices : r.members[d] = None \/ r.revoked[d] = 0
=============================================================================
