------------------------------ MODULE SpaceProofs ------------------------------
(***************************************************************************)
(* What holds of a space for any devices, clocks, labels, invites and any  *)
(* number of exchanges in flight.                                          *)
(***************************************************************************)
EXTENDS Space, TLAPS

-----------------------------------------------------------------------------
(* What the operations of a roster keep, for any devices, labels and        *)
(* clocks.                                                                  *)

\* Roster r may follow the roster old of the same device: what has been
\* removed stays so, unless by a record as new as the removal.
Keeps(old, r) ==
    \A e \in Devices :
        /\ r.members[e] = None => r.revoked[e] >= old.revoked[e]
        /\ r.members[e] # None => r.members[e].joined >= old.revoked[e]

\* Every device r holds a tombstone against is in D.
Blames(r, D) == \A e \in Devices : r.revoked[e] # 0 => e \in D

\* No tombstone of r is dated after t.
NotAfter(r, t) == \A e \in Devices : r.revoked[e] <= t

-----------------------------------------------------------------------------
LEMMA RosterParts ==
    ASSUME NEW r \in Rosters, NEW d \in Devices
    PROVE  /\ r.revoked[d] \in Nat
           /\ r.members[d] # None => r.members[d] \in Record
           /\ r.members[d] # None =>
                /\ r.members[d].joined \in Nat
                /\ r.members[d].renamed \in Nat
                /\ r.members[d].name \in Names
  BY DEF Rosters, Record

LEMMA InviteKeeps ==
    ASSUME NEW r \in Rosters, NEW d \in Devices, NEW n \in Names, NEW t \in Nat
    PROVE  /\ Invite(r, d, n, t) \in Rosters
           /\ Consistent(r) => Consistent(Invite(r, d, n, t))
           /\ \A D : Blames(r, D) => Blames(Invite(r, d, n, t), D)
           /\ NotAfter(r, t) => NotAfter(Invite(r, d, n, t), t)
           /\ Consistent(r) /\ NotAfter(r, t) => Keeps(r, Invite(r, d, n, t))
  <1>q. PICK q : q = Invite(r, d, n, t)
    OBVIOUS
  <1>0. \A e \in Devices : r.revoked[e] \in Nat /\ (r.members[e] # None => r.members[e].joined \in Nat)
    BY RosterParts
  <1>1. [joined |-> t, name |-> n, renamed |-> t] \in Record
    BY DEF Record
  <1>2. q \in Rosters
    BY <1>q, <1>1 DEF Invite, Rosters
  <1>3. \A e \in Devices \ {d} : q.members[e] = r.members[e] /\ q.revoked[e] = r.revoked[e]
    BY <1>q DEF Invite, Rosters
  <1>4. q.members[d] = [joined |-> t, name |-> n, renamed |-> t] /\ q.revoked[d] = 0
    BY <1>q DEF Invite, Rosters
  <1>5. q.members[d] # None /\ q.members[d].joined = t
    BY <1>1, <1>4, RosterAssumption
  <1>6. Consistent(r) => Consistent(q)
    BY <1>3, <1>4 DEF Consistent
  <1>7. \A D : Blames(r, D) => Blames(q, D)
    BY <1>3, <1>4 DEF Blames
  <1>8. ASSUME NotAfter(r, t), NEW e \in Devices PROVE q.revoked[e] <= t
    BY <1>8, <1>3, <1>4 DEF NotAfter
  <1>9. ASSUME Consistent(r), NotAfter(r, t) PROVE Keeps(r, q)
    <2> SUFFICES ASSUME NEW e \in Devices
                 PROVE  /\ q.members[e] = None => q.revoked[e] >= r.revoked[e]
                        /\ q.members[e] # None => q.members[e].joined >= r.revoked[e]
      BY DEF Keeps
    <2> QED  BY <1>3, <1>4, <1>5, <1>9, <1>0 DEF Consistent, NotAfter
  <1> QED  BY <1>q, <1>2, <1>6, <1>7, <1>8, <1>9 DEF NotAfter

LEMMA RevokeKeeps ==
    ASSUME NEW r \in Rosters, NEW d \in Devices, NEW t \in Nat
    PROVE  /\ Revoke(r, d, t) \in Rosters
           /\ Consistent(r) => Consistent(Revoke(r, d, t))
           /\ \A D : Blames(r, D) => Blames(Revoke(r, d, t), D \cup {d})
           /\ NotAfter(r, t) => NotAfter(Revoke(r, d, t), t)
           /\ Consistent(r) /\ NotAfter(r, t) => Keeps(r, Revoke(r, d, t))
  <1>q. PICK q : q = Revoke(r, d, t)
    OBVIOUS
  <1>0. \A e \in Devices : r.revoked[e] \in Nat /\ (r.members[e] # None => r.members[e].joined \in Nat)
    BY RosterParts
  <1>1. q \in Rosters
    BY <1>q DEF Revoke, Rosters
  <1>2. \A e \in Devices \ {d} : q.members[e] = r.members[e] /\ q.revoked[e] = r.revoked[e]
    BY <1>q DEF Revoke, Rosters
  <1>3. q.members[d] = None /\ q.revoked[d] = t
    BY <1>q DEF Revoke, Rosters
  <1>4. Consistent(r) => Consistent(q)
    BY <1>2, <1>3 DEF Consistent
  <1>5. \A D : Blames(r, D) => Blames(q, D \cup {d})
    BY <1>2, <1>3 DEF Blames
  <1>6. ASSUME NotAfter(r, t), NEW e \in Devices PROVE q.revoked[e] <= t
    BY <1>6, <1>0, <1>2, <1>3 DEF NotAfter
  <1>7. ASSUME Consistent(r), NotAfter(r, t) PROVE Keeps(r, q)
    <2> SUFFICES ASSUME NEW e \in Devices
                 PROVE  /\ q.members[e] = None => q.revoked[e] >= r.revoked[e]
                        /\ q.members[e] # None => q.members[e].joined >= r.revoked[e]
      BY DEF Keeps
    <2> QED  BY <1>0, <1>2, <1>3, <1>7 DEF Consistent, NotAfter
  <1> QED  BY <1>q, <1>1, <1>4, <1>5, <1>6, <1>7 DEF NotAfter

LEMMA ForgetKeeps ==
    ASSUME NEW r \in Rosters, NEW d \in Devices
    PROVE  /\ Forget(r, d) \in Rosters
           /\ Consistent(r) => Consistent(Forget(r, d))
           /\ \A D : Blames(r, D) => Blames(Forget(r, d), D)
           /\ \A t : NotAfter(r, t) => NotAfter(Forget(r, d), t)
           /\ Consistent(r) => Keeps(r, Forget(r, d))
  <1>q. PICK q : q = Forget(r, d)
    OBVIOUS
  <1>0. \A e \in Devices : r.revoked[e] \in Nat /\ (r.members[e] # None => r.members[e].joined \in Nat)
    BY RosterParts
  <1>1. q \in Rosters
    BY <1>q DEF Forget, Rosters
  <1>2. \A e \in Devices \ {d} : q.members[e] = r.members[e]
    BY <1>q DEF Forget, Rosters
  <1>3. q.members[d] = None /\ q.revoked = r.revoked
    BY <1>q DEF Forget, Rosters
  <1>4. Consistent(r) => Consistent(q)
    BY <1>2, <1>3 DEF Consistent
  <1>5. \A D : Blames(r, D) => Blames(q, D)
    BY <1>3 DEF Blames
  <1>6. \A t : NotAfter(r, t) => NotAfter(q, t)
    BY <1>3 DEF NotAfter
  <1>7. ASSUME Consistent(r) PROVE Keeps(r, q)
    <2> SUFFICES ASSUME NEW e \in Devices
                 PROVE  /\ q.members[e] = None => q.revoked[e] >= r.revoked[e]
                        /\ q.members[e] # None => q.members[e].joined >= r.revoked[e]
      BY DEF Keeps
    <2> QED  BY <1>0, <1>2, <1>3, <1>7 DEF Consistent
  <1> QED  BY <1>q, <1>1, <1>4, <1>5, <1>6, <1>7 DEF NotAfter

\* A rename changes labels only.
LEMMA RenameKeeps ==
    ASSUME NEW r \in Rosters, NEW d \in Devices, NEW n \in Names, NEW t \in Nat
    PROVE  /\ Rename(r, d, n, t) \in Rosters
           /\ Rename(r, d, n, t).revoked = r.revoked
           /\ \A e \in Devices :
                LET m == Rename(r, d, n, t).members[e] IN
                /\ m = None <=> r.members[e] = None
                /\ m # None => m.joined = r.members[e].joined
  <1> DEFINE q == Rename(r, d, n, t)
             m == [r.members[d] EXCEPT !.name = n,
                                       !.renamed = Later(t, r.members[d].renamed + 1)]
  <1>1. CASE ~(r.members[d] # None /\ r.members[d].name # n)
    BY <1>1 DEF Rename
  <1>2. CASE r.members[d] # None /\ r.members[d].name # n
    <2>1. m \in Record /\ m.joined = r.members[d].joined
      <3>1. r.members[d] \in Record
        BY <1>2, RosterParts
      <3>2. Later(t, r.members[d].renamed + 1) \in Nat
        BY <3>1 DEF Record, Later
      <3> QED  BY <3>1, <3>2 DEF Record
    <2>2. m # None
      BY <2>1, RosterAssumption
    <2>3. q.members = [r.members EXCEPT ![d] = m] /\ q.revoked = r.revoked
      BY <1>2 DEF Rename, Rosters
    <2>4. q \in [members : [Devices -> Record \cup {None}], revoked : [Devices -> Nat]]
      <3>1. q = [r EXCEPT !.members = [r.members EXCEPT ![d] = m]]
        BY <1>2 DEF Rename, Rosters
      <3>2. [r.members EXCEPT ![d] = m] \in [Devices -> Record \cup {None}]
        BY <2>1 DEF Rosters
      <3> HIDE DEF q, m
      <3> QED  BY <3>1, <3>2 DEF Rosters
    <2> HIDE DEF q, m
    <2>5. \A e \in Devices : q.members[e] = IF e = d THEN m ELSE r.members[e]
      BY <2>3 DEF Rosters
    <2> QED  BY <1>2, <2>1, <2>2, <2>3, <2>4, <2>5 DEF Rosters, q
  <1> QED  BY <1>1, <1>2

\* What a device sends is as good as what it holds.
LEMMA SnapshotKeeps ==
    ASSUME NEW r \in Rosters
    PROVE  /\ Snapshot(r) \in Rosters
           /\ Consistent(r) => Consistent(Snapshot(r))
           /\ \A D : Blames(r, D) => Blames(Snapshot(r), D)
  <1>1. Snapshot(r) \in Rosters
    BY DEF Snapshot, Rosters
  <1>2. \A e \in Devices : \/ Snapshot(r).members[e] = None
                           \/ Snapshot(r).members[e] = r.members[e]
    BY DEF Snapshot
  <1>3. Snapshot(r).revoked = r.revoked
    BY DEF Snapshot
  <1> QED  BY <1>1, <1>2, <1>3 DEF Consistent, Blames

LEMMA AdoptKeeps ==
    ASSUME NEW s \in Rosters, NEW t \in Nat
    PROVE  /\ Adopt(s, t) \in Rosters
           /\ \A e \in Devices : Adopt(s, t).revoked[e] = 0
  BY DEF Adopt, Rosters

LEMMA KeptType ==
    ASSUME NEW r \in Rosters, NEW s \in Rosters, NEW d \in Devices, NEW t \in Nat
    PROVE  Kept(r.members[d], s.members[d], t) \in Record \cup {None}
  <1>1. ASSUME s.members[d] # None PROVE Plausible(s.members[d], t) \in Record
    BY <1>1, RosterParts DEF Plausible, Record
  <1>2. Verified(s.members[d], t) => s.members[d] # None
    BY DEF Verified
  <1> QED  BY <1>1, <1>2, RosterParts DEF Kept

\* Merging: nothing is a member and removed, no tombstone comes from nowhere or
\* from the future, and those that were there still count.
LEMMA MergeKeeps ==
    ASSUME NEW r \in Rosters, NEW s \in Rosters, NEW t \in Nat
    PROVE  /\ Merge(r, s, t) \in Rosters
           /\ Consistent(Merge(r, s, t))
           /\ \A D : Blames(r, D) /\ Blames(s, D) => Blames(Merge(r, s, t), D)
           /\ NotAfter(r, t) => NotAfter(Merge(r, s, t), t)
           /\ Keeps(r, Merge(r, s, t))
           /\ NotAfter(s, t) => Keeps(s, Merge(r, s, t))
  <1>q. PICK q : q = Merge(r, s, t)
    OBVIOUS
  <1>1. \A e \in Devices : q.members[e] = Survivor(r, s, e, t) /\ q.revoked[e] = Standing(r, s, e, t)
    BY <1>q DEF Merge
  <1>2. ASSUME NEW e \in Devices
        PROVE  /\ Survivor(r, s, e, t) \in Record \cup {None}
               /\ Standing(r, s, e, t) \in Nat
               /\ Survivor(r, s, e, t) # None =>
                    /\ Standing(r, s, e, t) = 0
                    /\ Survivor(r, s, e, t).joined >= Stone(r, s, e, t)
               /\ Survivor(r, s, e, t) = None => Standing(r, s, e, t) = Stone(r, s, e, t)
               /\ Standing(r, s, e, t) \in {0, Stone(r, s, e, t)}
    <2> DEFINE m == Kept(r.members[e], s.members[e], t)
               k == Stone(r, s, e, t)
    <2>1. k \in Nat
      BY RosterParts DEF Stone, Later, Earlier
    <2>2. m \in Record \cup {None}
      BY KeptType
    <2>3. m # None => m \in Record /\ m.joined \in Nat
      BY <2>2 DEF Record
    <2>4. Survivor(r, s, e, t) = IF m # None /\ k > m.joined THEN None ELSE m
      BY DEF Survivor
    <2>5. Standing(r, s, e, t) = IF m # None /\ m.joined >= k THEN 0 ELSE k
      BY DEF Standing
    <2> HIDE DEF m, k
    <2> QED  BY <2>1, <2>2, <2>3, <2>4, <2>5 DEF k
  <1>3. q \in Rosters
    BY <1>q, <1>2 DEF Merge, Rosters
  <1>4. ASSUME NEW e \in Devices
        PROVE  /\ Stone(r, s, e, t) >= r.revoked[e]
               /\ Stone(r, s, e, t) # 0 => r.revoked[e] # 0 \/ s.revoked[e] # 0
               /\ r.revoked[e] <= t => Stone(r, s, e, t) <= t
               /\ s.revoked[e] <= t => Stone(r, s, e, t) >= s.revoked[e]
               /\ Stone(r, s, e, t) \in Nat
    BY RosterParts DEF Stone, Later, Earlier
  <1>5. Consistent(q)
    BY <1>1, <1>2 DEF Consistent
  <1>6. \A D : Blames(r, D) /\ Blames(s, D) => Blames(q, D)
    BY <1>1, <1>2, <1>4 DEF Blames
  <1>7. ASSUME NotAfter(r, t), NEW e \in Devices PROVE q.revoked[e] <= t
    BY <1>7, <1>1, <1>2, <1>4 DEF NotAfter
  <1>8. ASSUME NEW o \in Rosters, \A e \in Devices : Stone(r, s, e, t) >= o.revoked[e]
        PROVE  Keeps(o, q)
    <2> SUFFICES ASSUME NEW e \in Devices
                 PROVE  /\ q.members[e] = None => q.revoked[e] >= o.revoked[e]
                        /\ q.members[e] # None => q.members[e].joined >= o.revoked[e]
      BY DEF Keeps
    <2>1. o.revoked[e] \in Nat
      BY RosterParts
    <2>2. q.members[e] # None => q.members[e].joined \in Nat
      BY <1>1, <1>2 DEF Record
    <2> QED  BY <1>1, <1>2, <1>4, <1>8, <2>1, <2>2
  <1>9. Keeps(r, q)
    BY <1>4, <1>8
  <1>10. NotAfter(s, t) => Keeps(s, q)
    BY <1>4, <1>8 DEF NotAfter
  <1> QED  BY <1>3, <1>5, <1>6, <1>7, <1>9, <1>10, <1>q DEF NotAfter

-----------------------------------------------------------------------------
(* The spaces that hold the rosters.                                        *)

\* A message in flight, and what is true of it at each step.
Letter == [step : Steps, parts : Rosters \cup {None}, token : Nat,
           name : Names \cup {None}]

Proper(l, w) ==
    /\ w.step = "answered" => w.parts # None
    /\ l[3] # "join" /\ w.step \in {"asked", "admitted"} => w.parts # None
    /\ l[3] = "join" /\ w.step \in {"asked", "admitted"} => w.name # None
    /\ w.parts # None => Consistent(w.parts) /\ Blames(w.parts, decided)

Bye == [parts : Rosters, peers : SUBSET Devices]

\* What is kept, what is announced and what is in flight.
KeptInv ==
    /\ roster \in [Devices -> Rosters \cup {None}]
    /\ knows \in [Devices -> [Devices -> Nat]]
    /\ \A d \in Devices :
        roster[d] # None =>
            /\ Consistent(roster[d])
            /\ Blames(roster[d], decided)
            /\ NotAfter(roster[d], Clock(d))
            /\ \A e \in Devices : knows[d][e] = roster[d].revoked[e]
    /\ \A d, e \in Devices : roster[d] = None => knows[d][e] = 0

ByeInv ==
    /\ farewell \in [Devices -> Bye \cup {None}]
    /\ \A d \in Devices :
        farewell[d] # None => Consistent(farewell[d].parts) /\ Blames(farewell[d].parts, decided)

WireInv ==
    /\ wire \in [Line -> Letter]
    /\ \A l \in Line : Proper(l, wire[l])

RestInv ==
    /\ now \in Nat
    /\ name \in [Devices -> Names]
    /\ mid \in [Devices -> BOOLEAN]
    /\ minted \in [Devices -> Seq(Nat)]
    /\ pending \in [Devices -> Nat]
    /\ \A d \in Devices : pending[d] <= Len(minted[d])
    /\ plan \in [Devices -> SUBSET Devices]
    /\ decided \in SUBSET Devices
    /\ gone \in SUBSET (Devices \X Devices)
    /\ again \in [Devices -> Nat]

SpaceInv == RestInv /\ KeptInv /\ ByeInv /\ WireInv

-----------------------------------------------------------------------------
LEMMA Clocks ==
    ASSUME RestInv, NEW d \in Devices
    PROVE  Clock(d) \in Nat
  BY SpaceAssumption DEF RestInv, Clock

LEMMA Lines ==
    ASSUME NEW l \in Line
    PROVE  l[1] \in Devices /\ l[2] \in Devices /\ l[3] \in Exchanges
  BY DEF Line

\* The ways a message moves on.
LEMMA AdvanceKeeps ==
    ASSUME WireInv, NEW l \in Line, NEW step \in Steps, Advance(l, step),
           decided' = decided,
           step = "answered" => FALSE,
           step = "asked" => FALSE,
           step = "admitted" => At(l, "asked")
    PROVE  WireInv'
  <1>1. wire[l] \in Letter
    BY DEF WireInv
  <1>2. PICK w : w = [wire[l] EXCEPT !.step = step]
    OBVIOUS
  <1>3. w \in Letter /\ w.step = step /\ w.parts = wire[l].parts /\ w.name = wire[l].name
    BY <1>1, <1>2 DEF Letter
  <1>4. wire' = [wire EXCEPT ![l] = w]
    BY <1>2 DEF Advance, WireInv
  <1>5. Proper(l, w)'
    BY <1>3 DEF WireInv, Proper, At
  <1> QED  BY <1>3, <1>4, <1>5 DEF WireInv, Proper

LEMMA CarryKeeps ==
    ASSUME WireInv, NEW l \in Line, NEW step \in {"asked", "answered"},
           NEW s \in Rosters, Carry(l, step, s),
           decided' = decided,
           l[3] # "join" \/ step = "answered",
           Consistent(s), Blames(s, decided)
    PROVE  WireInv'
  <1>1. wire[l] \in Letter
    BY DEF WireInv
  <1>2. PICK w : w = [[wire[l] EXCEPT !.step = step] EXCEPT !.parts = s]
    OBVIOUS
  <1>3. w \in Letter /\ w.step = step /\ w.parts = s
    BY <1>1, <1>2 DEF Letter, Steps
  <1>4. wire' = [wire EXCEPT ![l] = w]
    BY <1>2 DEF Carry, WireInv
  <1>5. Proper(l, w)'
    BY <1>3, RosterAssumption DEF Proper
  <1> QED  BY <1>3, <1>4, <1>5 DEF WireInv, Proper

LEMMA IdleProper ==
    ASSUME NEW l
    PROVE  Idle \in Letter /\ Proper(l, Idle) /\ Proper(l, Idle)'
  BY DEF Idle, Letter, Steps, Proper

LEMMA CloseKeeps ==
    ASSUME WireInv, NEW l \in Line, Close(l), decided' = decided
    PROVE  WireInv'
  BY IdleProper DEF WireInv, Close, Proper

\* The wire is undisturbed, while more is decided.
LEMMA WireRests ==
    ASSUME WireInv, wire' = wire, decided \subseteq decided'
    PROVE  WireInv'
  BY DEF WireInv, Proper, Blames

LEMMA ByeRests ==
    ASSUME ByeInv, farewell' = farewell, decided \subseteq decided'
    PROVE  ByeInv'
  BY DEF ByeInv, Blames

LEMMA KeptRests ==
    ASSUME KeptInv, RestInv, UNCHANGED known, decided \subseteq decided', now' \in Nat, now' >= now
    PROVE  KeptInv'
  <1>1. roster' = roster /\ knows' = knows
    BY DEF known
  <1>2. ASSUME NEW d \in Devices, NEW e \in Devices, roster[d] # None
        PROVE  roster[d].revoked[e] <= Clock(d)'
    <2>1. roster[d].revoked[e] \in Nat /\ Clock(d) \in Nat /\ roster[d].revoked[e] <= Clock(d)
      BY <1>2, RosterParts, Clocks DEF KeptInv, NotAfter
    <2>2. Clock(d) = now + Ahead[d] /\ Clock(d)' = now' + Ahead[d] /\ Ahead[d] \in Nat
      BY SpaceAssumption DEF Clock
    <2> QED  BY SMTT(30), <2>1, <2>2 DEF RestInv
  <1>3. ASSUME NEW d \in Devices, roster[d] # None
        PROVE  NotAfter(roster[d], Clock(d)')
    BY <1>2, <1>3 DEF NotAfter
  <1>4. ASSUME NEW d \in Devices, roster[d] # None PROVE Blames(roster[d], decided')
    BY <1>4 DEF KeptInv, Blames
  <1> QED  BY <1>1, <1>3, <1>4 DEF KeptInv

LEMMA KeptStays ==
    ASSUME KeptInv, RestInv, UNCHANGED known, decided \subseteq decided', now' = now
    PROVE  KeptInv'
  <1>1. now' \in Nat /\ now' >= now
    BY DEF RestInv
  <1> QED  BY <1>1, KeptRests

\* A device takes r for its roster: r must be as good as the invariant asks,
\* and keep what its former roster knew of removals.
Heir(d, r, D) ==
    /\ r \in Rosters
    /\ Consistent(r)
    /\ Blames(r, D)
    /\ NotAfter(r, Clock(d))
    /\ roster[d] # None => Keeps(roster[d], r)

LEMMA HoldsKeeps ==
    ASSUME KeptInv, RestInv, NEW d \in Devices, NEW r, Holds(d, r),
           r # None => Heir(d, r, decided'),
           r = None \/ r \in Rosters,
           now' = now, decided \subseteq decided'
    PROVE  KeptInv'
  <1>1. roster' = [roster EXCEPT ![d] = r]
    BY DEF Holds
  <1>2. roster' \in [Devices -> Rosters \cup {None}]
    BY <1>1 DEF KeptInv
  <1>3. knows' = [knows EXCEPT ![d] = [e \in Devices |-> Known(r, e, knows[d][e])]]
    BY DEF Holds, KeptInv
  <1>4. ASSUME NEW e \in Devices
        PROVE  /\ r = None => Known(r, e, knows[d][e]) = 0
               /\ r # None => Known(r, e, knows[d][e]) = r.revoked[e]
    <2>1. CASE r = None
      BY <2>1 DEF Known
    <2>2. CASE r # None
      <3>1. r \in Rosters /\ r.revoked[e] \in Nat
            /\ (r.members[e] # None => r.members[e].joined \in Nat)
        BY <2>2, RosterParts DEF Heir
      <3>2. r.members[e] # None => r.revoked[e] = 0
        BY <2>2 DEF Heir, Consistent
      <3>3. knows[d][e] \in Nat
        BY DEF KeptInv
      <3>4. /\ r.members[e] = None => r.revoked[e] >= knows[d][e]
            /\ r.members[e] # None => r.members[e].joined >= knows[d][e]
        <4>1. CASE roster[d] = None
          BY <4>1, <3>1 DEF KeptInv
        <4>2. CASE roster[d] # None
          BY <4>2, <2>2 DEF KeptInv, Heir, Keeps
        <4> QED  BY <4>1, <4>2
      <3> QED  BY <2>2, <3>1, <3>2, <3>3, <3>4 DEF Known, Current, Later
    <2> QED  BY <2>1, <2>2
  <1>5. \A e \in Devices : Known(r, e, knows[d][e]) \in Nat
    <2>1. r # None => \A e \in Devices : r.revoked[e] \in Nat
      BY RosterParts DEF Heir
    <2> QED  BY <1>4, <2>1
  <1>6. knows' \in [Devices -> [Devices -> Nat]]
    BY <1>3, <1>5 DEF KeptInv
  <1>7. ASSUME NEW c \in Devices, roster'[c] # None
        PROVE  /\ Consistent(roster'[c])
               /\ Blames(roster'[c], decided')
               /\ NotAfter(roster'[c], Clock(c)')
               /\ \A e \in Devices : knows'[c][e] = roster'[c].revoked[e]
    <2>1. Clock(c)' = Clock(c)
      BY DEF Clock
    <2>2. CASE c = d
      BY <2>1, <2>2, <1>1, <1>3, <1>4, <1>7 DEF KeptInv, Heir
    <2>3. CASE c # d
      BY <2>1, <2>3, <1>1, <1>3, <1>7 DEF KeptInv, Blames
    <2> QED  BY <2>2, <2>3
  <1>8. ASSUME NEW c \in Devices, NEW e \in Devices, roster'[c] = None PROVE knows'[c][e] = 0
    BY <1>8, <1>1, <1>3, <1>4 DEF KeptInv
  <1> QED  BY <1>2, <1>6, <1>7, <1>8 DEF KeptInv

\* A merge, and the label that is set after it, make an heir.
LEMMA MergeHeir ==
    ASSUME KeptInv, RestInv, NEW d \in Devices, roster[d] # None,
           NEW s \in Rosters, Blames(s, decided)
    PROVE  Heir(d, MergeFromPeer(roster[d], s, d), decided)
  <1>1. roster[d] \in Rosters /\ Clock(d) \in Nat /\ name[d] \in Names
    BY Clocks DEF KeptInv, RestInv
  <1>2. PICK q : q = Merge(roster[d], s, Clock(d))
    OBVIOUS
  <1>3. /\ q \in Rosters /\ Consistent(q) /\ Blames(q, decided)
        /\ NotAfter(q, Clock(d)) /\ Keeps(roster[d], q)
    BY <1>1, <1>2, MergeKeeps DEF KeptInv
  <1>4. PICK p : p = Rename(q, d, name[d], Clock(d))
    OBVIOUS
  <1>5. /\ p \in Rosters /\ p.revoked = q.revoked
        /\ \A e \in Devices : /\ p.members[e] = None <=> q.members[e] = None
                              /\ p.members[e] # None => p.members[e].joined = q.members[e].joined
    BY <1>1, <1>3, <1>4, RenameKeeps
  <1>6. Heir(d, p, decided)
    BY <1>3, <1>5 DEF Heir, Consistent, Blames, NotAfter, Keeps
  <1> QED  BY <1>2, <1>4, <1>6 DEF MergeFromPeer

LEMMA RenameHeir ==
    ASSUME KeptInv, RestInv, NEW d \in Devices, roster[d] # None
    PROVE  Heir(d, Rename(roster[d], d, name[d], Clock(d)), decided)
  <1>1. roster[d] \in Rosters /\ Clock(d) \in Nat /\ name[d] \in Names
    BY Clocks DEF KeptInv, RestInv
  <1>2. PICK q : q = roster[d]
    OBVIOUS
  <1>3. PICK p : p = Rename(q, d, name[d], Clock(d))
    OBVIOUS
  <1>4. /\ p \in Rosters /\ p.revoked = q.revoked
        /\ \A e \in Devices : /\ p.members[e] = None <=> q.members[e] = None
                              /\ p.members[e] # None => p.members[e].joined = q.members[e].joined
    BY <1>1, <1>2, <1>3, RenameKeeps
  <1>5. Consistent(q) /\ Blames(q, decided) /\ NotAfter(q, Clock(d))
    BY <1>2 DEF KeptInv
  <1>6. \A e \in Devices : q.revoked[e] \in Nat /\ (q.members[e] # None => q.members[e].joined \in Nat)
    BY <1>1, <1>2, RosterParts
  <1>7. Keeps(q, p)
    <2> SUFFICES ASSUME NEW e \in Devices
                 PROVE  /\ p.members[e] = None => p.revoked[e] >= q.revoked[e]
                        /\ p.members[e] # None => p.members[e].joined >= q.revoked[e]
      BY DEF Keeps
    <2> QED  BY <1>4, <1>5, <1>6 DEF Consistent
  <1>8. Heir(d, p, decided)
    BY <1>2, <1>4, <1>5, <1>7 DEF Heir, Consistent, Blames, NotAfter
  <1> QED  BY <1>2, <1>3, <1>8

\* What a device that joined takes over is an heir to what it held.
LEMMA JoinHeir ==
    ASSUME KeptInv, RestInv, NEW d \in Devices, NEW s \in Rosters
    PROVE  Heir(d, TakeOver(roster[d], Adopt(s, Clock(d)), Clock(d)), decided)
  <1>1. Clock(d) \in Nat
    BY Clocks
  <1>2. PICK a : a = Adopt(s, Clock(d))
    OBVIOUS
  <1>3. a \in Rosters /\ \A e \in Devices : a.revoked[e] = 0
    BY <1>1, <1>2, AdoptKeeps
  <1>4. Consistent(a) /\ Blames(a, decided) /\ NotAfter(a, Clock(d))
    BY <1>1, <1>3 DEF Consistent, Blames, NotAfter
  <1>5. CASE roster[d] = None
    BY <1>2, <1>3, <1>4, <1>5 DEF Heir, TakeOver
  <1>6. CASE roster[d] # None
    <2>1. PICK q : q = Merge(a, roster[d], Clock(d))
      OBVIOUS
    <2>2. roster[d] \in Rosters /\ Blames(roster[d], decided) /\ NotAfter(roster[d], Clock(d))
      BY <1>6 DEF KeptInv
    <2>3. /\ q \in Rosters /\ Consistent(q) /\ Blames(q, decided)
          /\ NotAfter(q, Clock(d)) /\ Keeps(roster[d], q)
      BY <1>1, <1>3, <1>4, <2>1, <2>2, MergeKeeps
    <2> QED  BY <1>2, <1>6, <2>1, <2>3 DEF Heir, TakeOver
  <1> QED  BY <1>5, <1>6

-----------------------------------------------------------------------------
LEMMA SpaceInit == Init => SpaceInv
  <1> SUFFICES ASSUME Init PROVE SpaceInv
    OBVIOUS
  <1> USE SpaceAssumption
  <1>1. RestInv
    <2>1. <<>> \in Seq(Nat) /\ Len(<<>>) = 0
      OBVIOUS
    <2> QED  BY <2>1 DEF Init, RestInv
  <1>2. KeptInv
    <2>1. ASSUME NEW d \in Devices
          PROVE  /\ roster[d] \in Rosters \cup {None}
                 /\ roster[d] # None => \A e \in Devices : roster[d].revoked[e] = 0
      <3>1. \A e \in Devices : [joined |-> 1, name |-> OwnName[e], renamed |-> 1] \in Record
        BY DEF Record
      <3> QED  BY <3>1 DEF Init, Rosters
    <2>2. ASSUME NEW d \in Devices PROVE 0 <= Clock(d)
      BY DEF Init, Clock
    <2>3. ASSUME NEW d \in Devices, roster[d] # None
          PROVE  Consistent(roster[d]) /\ Blames(roster[d], decided) /\ NotAfter(roster[d], Clock(d))
      BY <2>1, <2>2, <2>3 DEF Consistent, Blames, NotAfter
    <2>4. roster \in [Devices -> Rosters \cup {None}]
      BY <2>1 DEF Init
    <2>5. knows = [d \in Devices |-> [e \in Devices |-> 0]]
      BY DEF Init
    <2> QED  BY <2>1, <2>3, <2>4, <2>5 DEF KeptInv
  <1>3. ByeInv
    BY DEF Init, ByeInv
  <1>4. WireInv
    BY IdleProper DEF Init, WireInv
  <1> QED  BY <1>1, <1>2, <1>3, <1>4 DEF SpaceInv

-----------------------------------------------------------------------------
(* One lemma for each group of actions: pairing, exchanging rosters, and   *)
(* what a person does.                                                     *)

LEMMA RestCancels ==
    ASSUME RestInv, NEW d \in Devices, minted' = minted,
           pending' = pending \/ pending' = [pending EXCEPT ![d] = 0]
    PROVE  /\ pending' \in [Devices -> Nat]
           /\ \A c \in Devices : pending'[c] <= Len(minted[c])
  <1>1. pending \in [Devices -> Nat]
    BY DEF RestInv
  <1>2. pending' \in [Devices -> Nat]
    BY <1>1
  <1>3. ASSUME NEW c \in Devices PROVE pending'[c] <= Len(minted[c])
    <2>1. minted[c] \in Seq(Nat) /\ pending[c] <= Len(minted[c])
      BY DEF RestInv
    <2>2. pending'[c] = pending[c] \/ pending'[c] = 0
      BY <1>1
    <2> QED  BY <2>1, <2>2
  <1> QED  BY <1>2, <1>3

LEMMA PairingStep ==
    ASSUME SpaceInv,
           \/ \E h \in Devices : MintInvite(h)
           \/ \E p \in Pairs : Pairing(p[1], p[2])
    PROVE  SpaceInv'
  <1> USE SpaceAssumption DEF books, SpaceInv
  <1>1. CASE \E h \in Devices : MintInvite(h)
    <2>1. PICK h \in Devices : MintInvite(h)
      BY <1>1
    <2>2. RestInv'
      <3>1. Clock(h) + TTL \in Nat
        BY Clocks
      <3>2. minted[h] \in Seq(Nat) /\ Len(minted[h]) \in Nat
        BY DEF RestInv
      <3>3. /\ Append(minted[h], Clock(h) + TTL) \in Seq(Nat)
            /\ Len(Append(minted[h], Clock(h) + TTL)) = Len(minted[h]) + 1
        BY <3>1, <3>2
      <3>4. minted' = [minted EXCEPT ![h] = Append(minted[h], Clock(h) + TTL)]
            /\ pending' = [pending EXCEPT ![h] = Len(minted[h]) + 1]
        BY <2>1 DEF MintInvite
      <3>5. \A d \in Devices : pending'[d] <= Len(minted'[d])
        BY <3>2, <3>3, <3>4 DEF RestInv
      <3>6. minted' \in [Devices -> Seq(Nat)] /\ pending' \in [Devices -> Nat]
        BY <3>2, <3>3, <3>4 DEF RestInv
      <3> HIDE DEF SpaceInv
      <3> QED  BY <2>1, <3>5, <3>6 DEF MintInvite, RestInv, SpaceInv
    <2> QED  BY <2>1, <2>2, WireRests, ByeRests, KeptStays DEF MintInvite, RestInv
  <1>2. CASE \E p \in Pairs : Pairing(p[1], p[2])
    <2>1. PICK e \in Devices, h \in Devices : Pairing(e, h) /\ e # h
      BY <1>2 DEF Pairs
    <2>2. PICK l \in Line : l = <<e, h, "join">>
      BY <2>1 DEF Line, Exchanges
    <2>3. l[1] = e /\ l[2] = h /\ l[3] = "join" /\ wire[l] \in Letter /\ Proper(l, wire[l])
      BY <2>2 DEF WireInv
    <2>4. CASE \E k \in DOMAIN minted[h] : AskToJoin(e, h, k)
      <3>1. PICK k \in DOMAIN minted[h] : AskToJoin(e, h, k)
        BY <2>4
      <3>2. PICK w : w = [step |-> "asked", parts |-> None, token |-> k, name |-> name[e]]
        OBVIOUS
      <3>3. w \in Letter /\ w.step = "asked" /\ w.parts = None /\ w.name = name[e]
        BY SMTT(30), <3>2 DEF Letter, Steps, RestInv
      <3>4. wire' = [wire EXCEPT ![l] = w]
        BY <2>2, <3>1, <3>2 DEF AskToJoin
      <3>5. decided' = decided
        BY <3>1 DEF AskToJoin
      <3>6. Proper(l, w)'
        BY <2>3, <3>3, RosterAssumption DEF Proper, RestInv
      <3>7. WireInv'
        BY <3>3, <3>4, <3>5, <3>6 DEF WireInv, Proper
      <3>8. RestInv'
        BY <3>1 DEF AskToJoin, RestInv
      <3> QED  BY <3>1, <3>7, <3>8, ByeRests, KeptStays DEF AskToJoin, RestInv
    <2>5. CASE ConsumeInvite(l)
      <3>1. WireInv'
        BY <2>5, AdvanceKeeps DEF ConsumeInvite, Steps
      <3>2. RestInv'
        <4>1. pending' = pending \/ pending' = [pending EXCEPT ![h] = 0]
          BY <2>3, <2>5 DEF ConsumeInvite
        <4> QED  BY <2>5, <4>1, RestCancels DEF ConsumeInvite, RestInv
      <3> QED  BY <2>5, <3>1, <3>2, ByeRests, KeptStays DEF ConsumeInvite, RestInv
    <2>6. CASE AdmitJoiner(l)
      <3>1. decided' = decided /\ now' = now /\ UNCHANGED <<name, mid, pending, minted, plan, farewell>>
        BY <2>6 DEF AdmitJoiner
      <3>2. CASE roster[h] = None
        <4>1. Advance(l, "refused") /\ UNCHANGED <<known, gone, again>>
          BY <2>3, <2>6, <3>2 DEF AdmitJoiner
        <4>2. WireInv'
          BY <3>1, <4>1, AdvanceKeeps DEF Steps
        <4>3. RestInv'
          BY <3>1, <4>1 DEF RestInv
        <4> QED  BY <3>1, <4>1, <4>2, <4>3, ByeRests, KeptStays DEF RestInv
      <3>3. CASE roster[h] # None
        <4>1. PICK r : r = Invite(roster[h], e, wire[l].name, Clock(h))
          OBVIOUS
        <4>2. /\ Holds(h, r) /\ Carry(l, "answered", Snapshot(r))
              /\ gone' = {p \in gone : p[2] # e}
              /\ again' = [again EXCEPT ![e] = IF e \in decided THEN Clock(h) ELSE 0]
          BY <2>3, <2>6, <3>3, <4>1 DEF AdmitJoiner
        <4>3. /\ roster[h] \in Rosters /\ wire[l].name \in Names /\ Clock(h) \in Nat
              /\ Consistent(roster[h]) /\ Blames(roster[h], decided) /\ NotAfter(roster[h], Clock(h))
          BY <2>3, <2>6, <3>3, Clocks DEF KeptInv, AdmitJoiner, Proper, At, Letter
        <4>4. Heir(h, r, decided)
          BY <4>1, <4>3, InviteKeeps DEF Heir
        <4>5. KeptInv'
          BY <3>1, <4>2, <4>4, HoldsKeeps DEF Heir
        <4>6. Snapshot(r) \in Rosters /\ Consistent(Snapshot(r)) /\ Blames(Snapshot(r), decided)
          BY <4>4, SnapshotKeeps DEF Heir
        <4>7. WireInv'
          BY <2>3, <3>1, <4>2, <4>6, CarryKeeps
        <4>8. RestInv'
          BY <3>1, <4>2, <4>3 DEF RestInv
        <4> QED  BY <3>1, <4>5, <4>7, <4>8, ByeRests
      <3> QED  BY <3>2, <3>3
    <2>7. CASE Joined(l)
      <3>1. /\ UNCHANGED <<now, name, mid, pending, minted, plan, farewell, books>>
            /\ Close(l) /\ At(l, "answered")
        BY <2>7 DEF Joined
      <3>2. wire[l].parts \in Rosters
        BY <2>3, <3>1 DEF Proper, At, Letter
      <3>3. KeptInv'
        <4>1. PICK r : r = TakeOver(roster[e], Adopt(wire[l].parts, Clock(e)), Clock(e))
          OBVIOUS
        <4>2. Holds(e, r) \/ UNCHANGED known
          BY <2>3, <2>7, <4>1 DEF Joined
        <4>3. Heir(e, r, decided)
          BY <3>2, <4>1, JoinHeir
        <4> QED  BY <3>1, <4>2, <4>3, HoldsKeeps, KeptStays DEF Heir, RestInv
      <3>4. WireInv'
        BY <3>1, CloseKeeps
      <3>5. RestInv'
        BY <3>1 DEF RestInv
      <3> QED  BY <3>1, <3>3, <3>4, <3>5, ByeRests
    <2>8. CASE JoinRefused(l)
      <3>1. WireInv'
        BY <2>8, CloseKeeps DEF JoinRefused
      <3>2. RestInv'
        BY <2>8 DEF JoinRefused, RestInv
      <3> QED  BY <2>8, <3>1, <3>2, ByeRests, KeptStays DEF JoinRefused, RestInv
    <2> QED  BY <2>1, <2>2, <2>4, <2>5, <2>6, <2>7, <2>8 DEF Pairing
  <1> QED  BY <1>1, <1>2

LEMMA ExchangeStep ==
    ASSUME SpaceInv, NEW d \in Devices, NEW e \in Devices, d # e,
           Contact(d, e) \/ SendTo(d, e) \/ SayGoodbye(d, e)
    PROVE  SpaceInv'
  <1> USE SpaceAssumption DEF books, SpaceInv
  <1>1. <<d, e, "sync">> \in Line /\ <<d, e, "bye">> \in Line
    BY DEF Line, Exchanges
  <1>2. CASE CheckOn(d, e)
    <2>1. PICK l \in Line : l = <<d, e, "sync">>
      BY <1>1
    <2>2. WireInv'
      BY <1>2, <2>1, AdvanceKeeps DEF CheckOn, Steps
    <2>3. RestInv'
      BY <1>2 DEF CheckOn, RestInv
    <2> QED  BY <1>2, <2>2, <2>3, ByeRests, KeptStays DEF CheckOn
  <1>3. CASE SendTo(d, e)
    <2>1. PICK l \in Line : l = <<d, e, "sync">>
      BY <1>1
    <2>2. WireInv'
      BY <1>3, <2>1, AdvanceKeeps DEF SendTo, Steps
    <2>3. RestInv'
      BY <1>3 DEF SendTo, RestInv
    <2> QED  BY <1>3, <2>2, <2>3, ByeRests, KeptStays DEF SendTo
  <1>4. CASE SayGoodbye(d, e)
    <2>1. PICK l \in Line : l = <<d, e, "bye">> /\ l[3] # "join"
      BY <1>1
    <2>2. farewell[d] # None /\ farewell[d] \in Bye /\ farewell[d].parts \in Rosters
      BY <1>4 DEF SayGoodbye, ByeInv, Bye
    <2>3. WireInv'
      BY <1>4, <2>1, <2>2, CarryKeeps DEF SayGoodbye, ByeInv
    <2>4. ByeInv'
      <3>1. PICK b : b = [farewell[d] EXCEPT !.peers = farewell[d].peers \ {e}]
        OBVIOUS
      <3>2. b \in Bye /\ b.parts = farewell[d].parts
        BY <2>2, <3>1 DEF Bye
      <3>3. farewell' = [farewell EXCEPT ![d] = b] /\ decided' = decided
        BY <1>4, <3>1 DEF SayGoodbye, ByeInv
      <3> QED  BY <2>2, <3>2, <3>3 DEF ByeInv
    <2>5. RestInv'
      BY <1>4 DEF SayGoodbye, RestInv
    <2> QED  BY <1>4, <2>3, <2>4, <2>5, KeptStays DEF SayGoodbye
  <1>5. ASSUME NEW l \in Line, l[3] = "sync", Sync(l) PROVE SpaceInv'
    <2>1. UNCHANGED <<now, known, name, mid, pending, minted, plan, farewell, books>>
      BY <1>5 DEF Sync
    <2>2. WireInv'
      <3>1. l[1] \in Devices
        BY Lines
      <3>2. CASE roster[l[1]] = None
        BY <1>5, <2>1, <3>2, CloseKeeps DEF Sync
      <3>3. CASE roster[l[1]] # None
        <4>1. PICK s : s = Snapshot(roster[l[1]])
          OBVIOUS
        <4>2. s \in Rosters /\ Consistent(s) /\ Blames(s, decided)
          BY <3>1, <3>3, <4>1, SnapshotKeeps DEF KeptInv
        <4> QED  BY <1>5, <2>1, <3>3, <4>1, <4>2, CarryKeeps DEF Sync
      <3> QED  BY <3>2, <3>3
    <2>3. RestInv'
      BY <2>1 DEF RestInv
    <2> QED  BY <2>1, <2>2, <2>3, ByeRests, KeptStays
  <1>6. ASSUME NEW l \in Line, Admit(l) PROVE SpaceInv'
    <2>1. WireInv'
      BY <1>6, AdvanceKeeps DEF Admit, Steps
    <2>2. RestInv'
      BY <1>6 DEF Admit, RestInv
    <2> QED  BY <1>6, <2>1, <2>2, ByeRests, KeptStays DEF Admit
  <1>7. ASSUME NEW l \in Line, Merged(l) PROVE SpaceInv'
    <2>1. UNCHANGED <<now, name, mid, pending, minted, plan, farewell, books>>
      BY <1>7 DEF Merged
    <2>2. l[2] \in Devices /\ wire[l] \in Letter /\ Proper(l, wire[l])
      BY Lines DEF WireInv
    <2>3. wire[l].parts \in Rosters /\ Blames(wire[l].parts, decided)
      BY <1>7, <2>2 DEF Merged, Proper, At, Letter
    <2>4. KeptInv'
      <3>1. CASE roster[l[2]] = None
        BY <1>7, <2>1, <3>1, KeptStays DEF Merged
      <3>2. CASE roster[l[2]] # None
        <4>1. PICK r : r = MergeFromPeer(roster[l[2]], wire[l].parts, l[2])
          OBVIOUS
        <4>2. Holds(l[2], r)
          BY <1>7, <3>2, <4>1 DEF Merged
        <4>3. Heir(l[2], r, decided)
          BY <2>2, <2>3, <3>2, <4>1, MergeHeir
        <4> QED  BY <2>1, <2>2, <4>2, <4>3, HoldsKeeps DEF Heir
      <3> QED  BY <3>1, <3>2
    <2>5. WireInv'
      BY <1>7, <2>1, AdvanceKeeps DEF Merged, Steps
    <2>6. RestInv'
      BY <2>1 DEF RestInv
    <2> QED  BY <2>1, <2>4, <2>5, <2>6, ByeRests
  <1>8. ASSUME NEW l \in Line, Answer(l) PROVE SpaceInv'
    <2>1. UNCHANGED <<now, known, name, mid, pending, minted, plan, farewell, books>>
      BY <1>8 DEF Answer
    <2>2. WireInv'
      <3>1. l[2] \in Devices
        BY Lines
      <3>2. CASE ~(l[3] = "sync" /\ roster[l[2]] # None)
        BY <1>8, <2>1, <3>2, CloseKeeps DEF Answer
      <3>3. CASE l[3] = "sync" /\ roster[l[2]] # None
        <4>1. PICK s : s = Snapshot(roster[l[2]])
          OBVIOUS
        <4>2. s \in Rosters /\ Consistent(s) /\ Blames(s, decided)
          BY <3>1, <3>3, <4>1, SnapshotKeeps DEF KeptInv
        <4> QED  BY <1>8, <2>1, <3>3, <4>1, <4>2, CarryKeeps DEF Answer
      <3> QED  BY <3>2, <3>3
    <2>3. RestInv'
      BY <2>1 DEF RestInv
    <2> QED  BY <2>1, <2>2, <2>3, ByeRests, KeptStays
  <1>9. ASSUME NEW l \in Line, Hear(l) PROVE SpaceInv'
    <2>1. UNCHANGED <<now, name, mid, pending, minted, plan, farewell, books>>
      BY <1>9 DEF Hear
    <2>2. l[1] \in Devices /\ wire[l] \in Letter /\ Proper(l, wire[l])
      BY Lines DEF WireInv
    <2>3. wire[l].parts \in Rosters /\ Blames(wire[l].parts, decided)
      BY <1>9, <2>2 DEF Hear, Proper, At, Letter
    <2>4. KeptInv'
      <3>1. CASE roster[l[1]] = None
        BY <1>9, <2>1, <3>1, KeptStays DEF Hear
      <3>2. CASE roster[l[1]] # None
        <4>1. PICK r : r = MergeFromPeer(roster[l[1]], wire[l].parts, l[1])
          OBVIOUS
        <4>2. Holds(l[1], r)
          BY <1>9, <3>2, <4>1 DEF Hear
        <4>3. Heir(l[1], r, decided)
          BY <2>2, <2>3, <3>2, <4>1, MergeHeir
        <4> QED  BY <2>1, <2>2, <4>2, <4>3, HoldsKeeps DEF Heir
      <3> QED  BY <3>1, <3>2
    <2>5. WireInv'
      BY <1>9, <2>1, CloseKeeps DEF Hear
    <2>6. RestInv'
      BY <2>1 DEF RestInv
    <2> QED  BY <2>1, <2>4, <2>5, <2>6, ByeRests
  <1>10. ASSUME NEW l \in Line, HearRefusal(l) PROVE SpaceInv'
    <2>1. UNCHANGED <<now, name, mid, pending, minted, plan, farewell, books>> /\ Close(l)
      BY <1>10 DEF HearRefusal
    <2>2. l[1] \in Devices /\ l[2] \in Devices
      BY Lines
    <2>3. KeptInv'
      <3>1. CASE UNCHANGED known
        BY <2>1, <3>1, KeptStays
      <3>2. CASE ~UNCHANGED known
        <4>1. PICK r : r = Forget(roster[l[1]], l[2])
          OBVIOUS
        <4>2. Holds(l[1], r) /\ roster[l[1]] # None
          BY <1>10, <3>2, <4>1 DEF HearRefusal, DropHere
        <4>3. Heir(l[1], r, decided)
          BY <2>2, <4>1, <4>2, ForgetKeeps DEF Heir, KeptInv
        <4> QED  BY <2>1, <2>2, <4>2, <4>3, HoldsKeeps DEF Heir
      <3> QED  BY <3>1, <3>2
    <2>4. WireInv'
      BY <2>1, CloseKeeps
    <2>5. RestInv'
      BY <2>1 DEF RestInv
    <2> QED  BY <2>1, <2>3, <2>4, <2>5, ByeRests
  <1> QED  BY <1>1, <1>2, <1>3, <1>4, <1>5, <1>6, <1>7, <1>8, <1>9, <1>10 DEF Contact

LEMMA PersonStep ==
    ASSUME SpaceInv, NEW d \in Devices, BeginRound(d) \/ Person(d)
    PROVE  SpaceInv'
  <1> USE SpaceAssumption DEF books, SpaceInv
  <1>1. CASE BeginRound(d)
    <2>1. RestInv'
      BY <1>1 DEF BeginRound, RestInv, Members
    <2> QED  BY <1>1, <2>1, WireRests, ByeRests, KeptStays DEF BeginRound
  <1>2. CASE MintInvite(d)
    BY <1>2, PairingStep
  <1>3. CASE \E n \in Names : NameDevice(d, n)
    <2>1. PICK n \in Names : NameDevice(d, n)
      BY <1>3
    <2>2. RestInv'
      BY <2>1 DEF NameDevice, RestInv
    <2> QED  BY <2>1, <2>2, WireRests, ByeRests, KeptStays DEF NameDevice
  <1>4. CASE RenameEntry(d)
    <2>1. UNCHANGED <<now, name, pending, minted, plan, farewell, wire, books>>
      BY <1>4 DEF RenameEntry
    <2>2. KeptInv'
      <3>1. CASE roster[d] = None
        BY <1>4, <2>1, <3>1, KeptStays DEF RenameEntry
      <3>2. CASE roster[d] # None
        <4>1. PICK r : r = Rename(roster[d], d, name[d], Clock(d))
          OBVIOUS
        <4>2. Holds(d, r) /\ Heir(d, r, decided)
          BY <1>4, <3>2, <4>1, RenameHeir DEF RenameEntry
        <4> QED  BY <2>1, <4>2, HoldsKeeps DEF Heir
      <3> QED  BY <3>1, <3>2
    <2>3. RestInv'
      BY <1>4, <2>1 DEF RestInv, RenameEntry
    <2> QED  BY <2>1, <2>2, <2>3, WireRests, ByeRests
  <1>5. CASE \E e \in Devices : RemoveDevice(d, e)
    <2>1. PICK e \in Devices : RemoveDevice(d, e)
      BY <1>5
    <2>2. /\ UNCHANGED <<now, name, mid, pending, minted, plan, farewell, wire>>
          /\ decided' = decided \cup {e}
          /\ gone' = gone \cup {<<d, e>>}
          /\ again' = [again EXCEPT ![e] = 0]
      BY <2>1 DEF RemoveDevice
    <2>3. PICK r : r = Revoke(roster[d], e, Clock(d))
      OBVIOUS
    <2>4. roster[d] # None /\ Holds(d, r) /\ Clock(d) \in Nat
      BY <2>1, <2>3, Clocks DEF RemoveDevice
    <2>5. Heir(d, r, decided')
      BY <2>2, <2>3, <2>4, RevokeKeeps DEF Heir, KeptInv
    <2>6. KeptInv'
      BY <2>2, <2>4, <2>5, HoldsKeeps DEF Heir
    <2>7. RestInv'
      BY <2>2 DEF RestInv
    <2> QED  BY <2>2, <2>6, <2>7, WireRests, ByeRests
  <1>6. CASE BeginLeave(d)
    <2>1. /\ UNCHANGED <<now, known, name, mid, minted, plan, wire, gone>>
          /\ decided' = decided \cup {d}
          /\ again' = [again EXCEPT ![d] = 0]
          /\ pending' = [pending EXCEPT ![d] = 0]
      BY <1>6 DEF BeginLeave
    <2>2. ByeInv'
      <3>1. PICK r : r = Revoke(roster[d], d, Clock(d))
        OBVIOUS
      <3>2. roster[d] \in Rosters /\ Clock(d) \in Nat /\ Consistent(roster[d]) /\ Blames(roster[d], decided)
        BY <1>6, Clocks DEF BeginLeave, KeptInv
      <3>3. r \in Rosters /\ Consistent(r) /\ Blames(r, decided')
        BY <2>1, <3>1, <3>2, RevokeKeeps
      <3>4. PICK b : b = [parts |-> Snapshot(r), peers |-> Members(roster[d]) \ {d}]
        OBVIOUS
      <3>5. b \in Bye /\ Consistent(b.parts) /\ Blames(b.parts, decided')
        BY <3>3, <3>4, SnapshotKeeps DEF Bye, Members
      <3>6. farewell' = [farewell EXCEPT ![d] = b]
        BY <1>6, <3>1, <3>4 DEF BeginLeave
      <3>7. \A c \in Devices : farewell[c] # None => Blames(farewell[c].parts, decided')
        BY <2>1 DEF ByeInv, Blames
      <3> QED  BY <3>5, <3>6, <3>7 DEF ByeInv
    <2>3. RestInv'
      BY <2>1, RestCancels DEF RestInv
    <2> QED  BY <2>1, <2>2, <2>3, WireRests, KeptStays
  <1>7. CASE EndLeave(d)
    <2>1. /\ UNCHANGED <<now, name, mid, pending, minted, plan, wire, decided, again>>
          /\ Holds(d, None) /\ gone' = {p \in gone : p[1] # d}
          /\ farewell' = [farewell EXCEPT ![d] = None]
      BY <1>7 DEF EndLeave, Lacks
    <2>2. KeptInv'
      BY <2>1, HoldsKeeps
    <2>3. ByeInv'
      BY <2>1 DEF ByeInv
    <2>4. RestInv'
      BY <2>1 DEF RestInv
    <2> QED  BY <2>1, <2>2, <2>3, <2>4, WireRests
  <1>8. CASE Abandon(d)
    <2>1. /\ UNCHANGED <<now, name, mid, minted, plan, farewell, wire, decided, again>>
          /\ Holds(d, None) /\ gone' = {p \in gone : p[1] # d}
          /\ pending' = [pending EXCEPT ![d] = 0]
      BY <1>8 DEF Abandon, Lacks
    <2>2. KeptInv'
      BY <2>1, HoldsKeeps
    <2>3. RestInv'
      BY <2>1, RestCancels DEF RestInv
    <2> QED  BY <2>1, <2>2, <2>3, WireRests, ByeRests
  <1>9. CASE Restart(d)
    <2>1. UNCHANGED <<now, name, minted, books>>
      BY <1>9 DEF Restart
    <2>2. KeptInv'
      <3>1. CASE roster[d] = None
        BY <1>9, <2>1, <3>1, KeptStays DEF Restart
      <3>2. CASE roster[d] # None
        <4>1. PICK r : r = Rename(roster[d], d, name[d], Clock(d))
          OBVIOUS
        <4>2. Holds(d, r) /\ Heir(d, r, decided)
          BY <1>9, <3>2, <4>1, RenameHeir DEF Restart
        <4> QED  BY <2>1, <4>2, HoldsKeeps DEF Heir
      <3> QED  BY <3>1, <3>2
    <2>3. ByeInv'
      BY <1>9, <2>1 DEF Restart, ByeInv
    <2>4. WireInv'
      BY <1>9, <2>1, IdleProper DEF Restart, WireInv, Proper
    <2>5. RestInv'
      <3>1. pending' = pending \/ pending' = [pending EXCEPT ![d] = 0]
        BY <1>9 DEF Restart, RestInv
      <3> QED  BY <1>9, <2>1, <3>1, RestCancels DEF Restart, RestInv
    <2> QED  BY <2>2, <2>3, <2>4, <2>5
  <1> QED  BY <1>1, <1>2, <1>3, <1>4, <1>5, <1>6, <1>7, <1>8, <1>9 DEF Person

LEMMA SpaceStep == SpaceInv /\ [Next]_vars => SpaceInv'
  <1> SUFFICES ASSUME SpaceInv, [Next]_vars PROVE SpaceInv'
    OBVIOUS
  <1> USE DEF books
  <1>1. CASE Tick
    <2>1. now \in Nat /\ now' = now + 1
      BY <1>1 DEF Tick, SpaceInv, RestInv
    <2>2. RestInv'
      BY <1>1, <2>1 DEF Tick, SpaceInv, RestInv
    <2>3. now' \in Nat /\ now' >= now
      BY <2>1
    <2>4. KeptInv'
      BY <1>1, <2>3, KeptRests DEF Tick, SpaceInv
    <2> QED  BY <1>1, <2>2, <2>4, WireRests, ByeRests DEF Tick, SpaceInv
  <1>2. CASE \E d \in Devices : BeginRound(d) \/ Person(d)
    BY <1>2, PersonStep
  <1>3. CASE \E p \in Pairs : Pairing(p[1], p[2])
    BY <1>3, PairingStep
  <1>4. CASE \E p \in Pairs : Contact(p[1], p[2]) \/ SendTo(p[1], p[2]) \/ SayGoodbye(p[1], p[2])
    BY <1>4, ExchangeStep DEF Pairs
  <1>5. CASE \E l \in Line : Lose(l)
    <2>1. PICK l \in Line : Lose(l)
      BY <1>5
    <2>2. WireInv'
      BY <2>1, CloseKeeps DEF Lose, SpaceInv
    <2>3. RestInv'
      BY <2>1 DEF Lose, RestInv, SpaceInv
    <2> QED  BY <2>1, <2>2, <2>3, ByeRests, KeptStays DEF Lose, SpaceInv
  <1>6. CASE UNCHANGED vars
    <2>1. RestInv'
      BY <1>6 DEF vars, SpaceInv, RestInv
    <2> QED  BY <1>6, <2>1, WireRests, ByeRests, KeptStays DEF vars, SpaceInv
  <1> QED  BY <1>1, <1>2, <1>3, <1>4, <1>5, <1>6 DEF Next

THEOREM SpaceInvariant == Spec => []SpaceInv
  BY SpaceInit, SpaceStep, PTL DEF Spec

\* Every variable keeps its type.
THEOREM SpaceTypes == Spec => []TypeOK
  <1>1. SpaceInv => TypeOK
    BY DEF SpaceInv, RestInv, KeptInv, ByeInv, WireInv, Letter, Bye, Proper, TypeOK
  <1> QED  BY <1>1, SpaceInvariant, PTL

\* No roster that is kept, announced or in flight says of a device that it is
\* a member and removed (Roster::merge_at, Roster::invite).
THEOREM NeverBoth == Spec => []NotBoth
  <1>1. SpaceInv => NotBoth
    BY DEF SpaceInv, KeptInv, ByeInv, WireInv, Proper, NotBoth
  <1> QED  BY <1>1, SpaceInvariant, PTL

\* No roster holds a tombstone from the future of its device: what lets
\* Roster::invite remove the tombstone of the device it signs for unseen.
THEOREM TombstonesPast == Spec => []StonesPast
  <1>1. SpaceInv => StonesPast
    BY DEF SpaceInv, KeptInv, NotAfter, StonesPast
  <1> QED  BY <1>1, SpaceInvariant, PTL

\* A refused exchange removes a device on no other: every tombstone, wherever
\* it got to, goes back to a decision (sync_roster, Roster::forget).
THEOREM TombstonesAreDecisions == Spec => []GuessStaysLocal
  <1>1. SpaceInv => GuessStaysLocal
    BY DEF SpaceInv, KeptInv, Blames, GuessStaysLocal
  <1> QED  BY <1>1, SpaceInvariant, PTL

\* A removal that a device has heard of is undone there only by a record as
\* new as the removal, whatever the clocks and the traffic.
THEOREM RemovedNotRevived == Spec => []NoResurrection
  <1>1. SpaceInv => NoResurrection
    <2> SUFFICES ASSUME SpaceInv, NEW d \in Devices, NEW e \in Devices,
                        roster[d] # None, Current(roster[d], e)
                 PROVE  knows[d][e] = 0
      BY DEF NoResurrection
    <2>1. roster[d].members[e] # None /\ knows[d][e] = roster[d].revoked[e]
      BY DEF SpaceInv, KeptInv, Current
    <2> QED  BY <2>1 DEF SpaceInv, KeptInv, Consistent
  <1> QED  BY <1>1, SpaceInvariant, PTL

-----------------------------------------------------------------------------
(* What changes a roster, and how far a record or a membership may go back. *)
(* Nothing is assumed of clocks or labels.                                 *)

\* The next roster of d comes from an admission, a pairing, an exchange, a
\* removal, a refusal or a new label.
Admits(d, e)  == /\ AdmitJoiner(<<e, d, "join">>)
                 /\ \E n \in Names : roster'[d] = Invite(roster[d], e, n, Clock(d))
PairsUp(d)    == \E s \in Rosters :
                     roster'[d] = TakeOver(roster[d], Adopt(s, Clock(d)), Clock(d))
Exchanged(d)  == \E l \in Line : /\ wire[l].parts \in Rosters
                                 /\ roster'[d] = MergeFromPeer(roster[d], wire[l].parts, d)
Removes(d, e) == RemoveDevice(d, e) /\ roster'[d] = Revoke(roster[d], e, Clock(d))
Refused(d)    == \E e \in Devices : roster'[d] = Forget(roster[d], e)
Labels(d)     == roster'[d] = Rename(roster[d], d, name[d], Clock(d))

Changes(d) ==
    \/ PairsUp(d)
    \/ roster[d] # None /\ \E e \in Devices : Admits(d, e) \/ Removes(d, e)
    \/ roster[d] # None /\ (Exchanged(d) \/ Refused(d) \/ Labels(d))

\* ... or there is none, or it is the same.
Goes(d) == roster'[d] = roster[d] \/ roster'[d] = None \/ Changes(d)

LEMMA OthersRest ==
    ASSUME SpaceInv, NEW d \in Devices, NEW c \in Devices, NEW r, Holds(d, r),
           c = d => r = None \/ (roster'[c] = r => Goes(c))
    PROVE  Goes(c)
  <1>1. roster \in [Devices -> Rosters \cup {None}] /\ roster' = [roster EXCEPT ![d] = r]
    BY DEF SpaceInv, KeptInv, Holds
  <1>2. CASE c = d
    BY <1>1, <1>2 DEF Goes
  <1>3. CASE c # d
    BY <1>1, <1>3 DEF Goes
  <1> QED  BY <1>2, <1>3

LEMMA KnownRests ==
    ASSUME UNCHANGED known, NEW c \in Devices
    PROVE  Goes(c)
  BY DEF known, Goes

LEMMA PairingGoes ==
    ASSUME SpaceInv, NEW e \in Devices, NEW h \in Devices, e # h, Pairing(e, h), NEW c \in Devices
    PROVE  Goes(c)
  <1>1. PICK l \in Line : l = <<e, h, "join">>
    BY DEF Line, Exchanges
  <1>2. l[1] = e /\ l[2] = h /\ l[3] = "join" /\ wire[l] \in Letter /\ Proper(l, wire[l])
    BY <1>1 DEF SpaceInv, WireInv
  <1>3. CASE \/ \E k \in DOMAIN minted[h] : AskToJoin(e, h, k)
             \/ ConsumeInvite(l) \/ JoinRefused(l)
    BY <1>3, KnownRests DEF AskToJoin, ConsumeInvite, JoinRefused
  <1>4. CASE AdmitJoiner(l)
    <2>1. CASE roster[h] = None
      <3>1. UNCHANGED known
        BY <1>2, <1>4, <2>1 DEF AdmitJoiner
      <3> QED  BY <3>1, KnownRests
    <2>2. CASE roster[h] # None
      <3>1. PICK r : r = Invite(roster[h], e, wire[l].name, Clock(h))
        OBVIOUS
      <3>2. Holds(h, r)
        BY <1>2, <1>4, <2>2, <3>1 DEF AdmitJoiner
      <3>3. wire[l].name \in Names
        BY <1>2, <1>4 DEF AdmitJoiner, Proper, At, Letter
      <3>4. ASSUME c = h, roster'[c] = r PROVE Goes(c)
        <4>1. Admits(h, e)
          BY <1>1, <1>4, <3>1, <3>3, <3>4 DEF Admits
        <4> QED  BY <2>2, <3>4, <4>1 DEF Goes, Changes
      <3> QED  BY <3>2, <3>4, OthersRest
    <2> QED  BY <2>1, <2>2
  <1>5. CASE Joined(l)
    <2>1. wire[l].parts \in Rosters
      BY <1>2, <1>5 DEF Joined, Proper, At, Letter
    <2>2. PICK r : r = TakeOver(roster[e], Adopt(wire[l].parts, Clock(e)), Clock(e))
      OBVIOUS
    <2>3. UNCHANGED known \/ Holds(e, r)
      BY <1>2, <1>5, <2>2 DEF Joined
    <2>4. ASSUME c = e, roster'[c] = r PROVE Goes(c)
      BY <2>1, <2>2, <2>4 DEF Goes, Changes, PairsUp
    <2> QED  BY <2>3, <2>4, OthersRest, KnownRests
  <1> QED  BY <1>1, <1>3, <1>4, <1>5 DEF Pairing

LEMMA MergingGoes ==
    ASSUME SpaceInv, NEW l \in Line, NEW d \in Devices, wire[l].parts \in Rosters, roster[d] # None,
           Holds(d, MergeFromPeer(roster[d], wire[l].parts, d)), NEW c \in Devices
    PROVE  Goes(c)
  <1>1. PICK r : r = MergeFromPeer(roster[d], wire[l].parts, d)
    OBVIOUS
  <1>2. ASSUME c = d, roster'[c] = r PROVE Goes(c)
    BY <1>1, <1>2 DEF Goes, Changes, Exchanged
  <1> QED  BY <1>1, <1>2, OthersRest

LEMMA ContactGoes ==
    ASSUME SpaceInv, NEW d \in Devices, NEW e \in Devices, d # e,
           Contact(d, e) \/ SendTo(d, e) \/ SayGoodbye(d, e), NEW c \in Devices
    PROVE  Goes(c)
  <1>1. <<d, e, "sync">> \in Line /\ <<d, e, "bye">> \in Line
    BY DEF Line, Exchanges
  <1>2. CASE CheckOn(d, e) \/ SendTo(d, e) \/ SayGoodbye(d, e)
    BY <1>2, KnownRests DEF CheckOn, SendTo, SayGoodbye
  <1>3. ASSUME NEW l \in Line, Sync(l) \/ Admit(l) \/ Answer(l) PROVE Goes(c)
    BY <1>3, KnownRests DEF Sync, Admit, Answer
  <1>4. ASSUME NEW l \in Line, Merged(l) PROVE Goes(c)
    <2>1. l[2] \in Devices /\ wire[l] \in Letter /\ Proper(l, wire[l])
      BY Lines DEF SpaceInv, WireInv
    <2>2. wire[l].parts \in Rosters
      BY <1>4, <2>1 DEF Merged, Proper, At, Letter
    <2>3. UNCHANGED known \/ (roster[l[2]] # None /\ Holds(l[2], MergeFromPeer(roster[l[2]], wire[l].parts, l[2])))
      BY <1>4 DEF Merged
    <2> QED  BY <2>1, <2>2, <2>3, MergingGoes, KnownRests
  <1>5. ASSUME NEW l \in Line, Hear(l) PROVE Goes(c)
    <2>1. l[1] \in Devices /\ wire[l] \in Letter /\ Proper(l, wire[l])
      BY Lines DEF SpaceInv, WireInv
    <2>2. wire[l].parts \in Rosters
      BY <1>5, <2>1 DEF Hear, Proper, At, Letter
    <2>3. UNCHANGED known \/ (roster[l[1]] # None /\ Holds(l[1], MergeFromPeer(roster[l[1]], wire[l].parts, l[1])))
      BY <1>5 DEF Hear
    <2> QED  BY <2>1, <2>2, <2>3, MergingGoes, KnownRests
  <1>6. ASSUME NEW l \in Line, HearRefusal(l) PROVE Goes(c)
    <2>1. l[1] \in Devices /\ l[2] \in Devices
      BY Lines
    <2>2. PICK r : r = Forget(roster[l[1]], l[2])
      OBVIOUS
    <2>3. UNCHANGED known \/ (roster[l[1]] # None /\ Holds(l[1], r))
      BY <1>6, <2>2 DEF HearRefusal, DropHere
    <2>4. ASSUME c = l[1], roster[c] # None, roster'[c] = r PROVE Goes(c)
      BY <2>1, <2>2, <2>4 DEF Goes, Changes, Refused
    <2> QED  BY <2>1, <2>3, <2>4, OthersRest, KnownRests
  <1> QED  BY <1>1, <1>2, <1>3, <1>4, <1>5, <1>6 DEF Contact

LEMMA PersonGoes ==
    ASSUME SpaceInv, NEW d \in Devices, BeginRound(d) \/ Person(d), NEW c \in Devices
    PROVE  Goes(c)
  <1>1. CASE \/ BeginRound(d) \/ MintInvite(d) \/ BeginLeave(d)
             \/ \E n \in Names : NameDevice(d, n)
    BY <1>1, KnownRests DEF BeginRound, MintInvite, BeginLeave, NameDevice
  <1>2. CASE RenameEntry(d) \/ Restart(d)
    <2>1. PICK r : r = Rename(roster[d], d, name[d], Clock(d))
      OBVIOUS
    <2>2. UNCHANGED known \/ (roster[d] # None /\ Holds(d, r))
      BY <1>2, <2>1 DEF RenameEntry, Restart
    <2>3. ASSUME c = d, roster[c] # None, roster'[c] = r PROVE Goes(c)
      BY <2>1, <2>3 DEF Goes, Changes, Labels
    <2> QED  BY <2>2, <2>3, OthersRest, KnownRests
  <1>3. CASE \E e \in Devices : RemoveDevice(d, e)
    <2>1. PICK e \in Devices : RemoveDevice(d, e)
      BY <1>3
    <2>2. PICK r : r = Revoke(roster[d], e, Clock(d))
      OBVIOUS
    <2>3. roster[d] # None /\ Holds(d, r)
      BY <2>1, <2>2 DEF RemoveDevice
    <2>4. ASSUME c = d, roster'[c] = r PROVE Goes(c)
      BY <2>1, <2>2, <2>3, <2>4 DEF Goes, Changes, Removes
    <2> QED  BY <2>3, <2>4, OthersRest
  <1>4. CASE EndLeave(d) \/ Abandon(d)
    <2>1. Holds(d, None)
      BY <1>4 DEF EndLeave, Abandon, Lacks
    <2> QED  BY <2>1, OthersRest
  <1> QED  BY <1>1, <1>2, <1>3, <1>4 DEF Person

LEMMA EveryChange ==
    ASSUME SpaceInv, [Next]_vars, NEW c \in Devices
    PROVE  Goes(c)
  <1>1. CASE Tick \/ (\E l \in Line : Lose(l)) \/ UNCHANGED vars
    BY <1>1, KnownRests DEF Tick, Lose, vars
  <1>2. CASE \E d \in Devices : BeginRound(d) \/ Person(d)
    BY <1>2, PersonGoes
  <1>3. CASE \E p \in Pairs : Pairing(p[1], p[2])
    BY <1>3, PairingGoes DEF Pairs
  <1>4. CASE \E p \in Pairs : Contact(p[1], p[2]) \/ SendTo(p[1], p[2]) \/ SayGoodbye(p[1], p[2])
    BY <1>4, ContactGoes DEF Pairs
  <1> QED  BY <1>1, <1>2, <1>3, <1>4 DEF Next

\* A new label is stamped after the one it replaces.
LEMMA RenameLater ==
    ASSUME NEW r \in Rosters, NEW d \in Devices, NEW n \in Names, NEW t \in Nat, NEW e \in Devices,
           r.members[e] # None
    PROVE  Rename(r, d, n, t).members[e].renamed >= r.members[e].renamed
  <1>1. r.members[e].renamed \in Nat
    BY RosterParts
  <1>2. CASE Rename(r, d, n, t) = r
    BY <1>1, <1>2
  <1>3. CASE Rename(r, d, n, t) # r
    <2>1. PICK k : k = Later(t, r.members[d].renamed + 1)
      OBVIOUS
    <2>2. PICK q : q = [r EXCEPT !.members[d].name = n, !.members[d].renamed = k]
      OBVIOUS
    <2>3. Rename(r, d, n, t) = q /\ r.members[d] # None
      BY <1>3, <2>1, <2>2 DEF Rename
    <2>4. r.members[d] \in Record /\ r.members[d].renamed \in Nat
      BY <2>3, RosterParts
    <2>5. k \in Nat /\ k > r.members[d].renamed
      BY <2>1, <2>4 DEF Later
    <2>6. q.members[d].renamed = k /\ (e # d => q.members[e] = r.members[e])
      BY <2>2, <2>4 DEF Rosters, Record
    <2> QED  BY <1>1, <2>3, <2>4, <2>5, <2>6
  <1> QED  BY <1>2, <1>3

\* Of two records for a device the one kept is not the older membership, unless
\* its label is the newer one, and never one dated too far ahead.
OlderForItsLabel(m, n) ==
    /\ m # None /\ m.joined < n.joined
    /\ m.renamed > n.renamed

LEMMA KeptGoesOn ==
    ASSUME NEW r \in Rosters, NEW s \in Rosters, NEW e \in Devices, NEW t \in Nat,
           NEW m, m = Kept(r.members[e], s.members[e], t)
    PROVE  /\ m = None \/ m \in Record
           /\ r.members[e] # None =>
                /\ m # None
                /\ m.joined < r.members[e].joined =>
                        /\ OlderForItsLabel(m, r.members[e])
                        /\ OlderForItsLabel(s.members[e], r.members[e])
           /\ s.members[e] # None /\ s.members[e].joined <= t + MaxSkew =>
                m # None /\ m.joined >= s.members[e].joined
           /\ m # None /\ (r.members[e] # None => r.members[e].joined <= t + MaxSkew) =>
                m.joined <= t + MaxSkew
  <1>1. PICK x : x = r.members[e]
    OBVIOUS
  <1>2. PICK y : y = s.members[e]
    OBVIOUS
  <1>3. PICK z : z = Plausible(y, t)
    OBVIOUS
  <1>4. /\ x # None => x \in Record /\ x.joined \in Nat /\ x.renamed \in Nat
        /\ y # None => y \in Record /\ y.joined \in Nat /\ y.renamed \in Nat
    BY <1>1, <1>2, RosterParts
  <1>5. y # None => /\ z \in Record /\ z.joined = y.joined /\ z.renamed \in Nat
                    /\ z.renamed = y.renamed \/ (y.renamed > t + MaxSkew /\ z.renamed = y.joined)
    BY <1>3, <1>4 DEF Plausible, Record
  <1>6. z # None \/ y = None
    BY <1>5, RosterAssumption
  <1>7. \/ m = x /\ (y = None \/ y.joined > t + MaxSkew)
        \/ m = x /\ x # None /\ x.joined >= y.joined /\ z.renamed <= x.renamed
        \/ /\ m = z /\ y # None /\ y.joined <= t + MaxSkew
           /\ x = None \/ ~(x.joined >= y.joined /\ z.renamed <= x.renamed)
    <2>1. m = IF ~Verified(y, t) THEN x
              ELSE IF x # None /\ x.joined >= y.joined /\ z.renamed <= x.renamed THEN x ELSE z
      BY <1>1, <1>2, <1>3 DEF Kept
    <2>2. ~Verified(y, t) => y = None \/ y.joined > t + MaxSkew
      BY <1>4, RosterAssumption DEF Verified
    <2>3. Verified(y, t) => y # None /\ y.joined <= t + MaxSkew
      BY DEF Verified
    <2> QED  BY <2>1, <2>2, <2>3
  <1>8. m = None \/ m \in Record
    BY <1>4, <1>5, <1>7
  <1>9. ASSUME x # None
        PROVE  m # None /\ (m.joined < x.joined => OlderForItsLabel(m, x) /\ OlderForItsLabel(y, x))
    <2>1. CASE m = x
      BY <1>4, <1>9, <2>1
    <2>2. CASE m # x
      <3>1. /\ m = z /\ y # None /\ y.joined <= t + MaxSkew
            /\ ~(x.joined >= y.joined /\ z.renamed <= x.renamed)
        BY <1>7, <1>9, <2>2
      <3>2. ASSUME z.joined < x.joined PROVE z.renamed > x.renamed /\ y.renamed > x.renamed /\ y.joined < x.joined
        BY <1>4, <1>5, <1>9, <3>1, <3>2, RosterAssumption
      <3> QED  BY <1>6, <3>1, <3>2 DEF OlderForItsLabel
    <2> QED  BY <2>1, <2>2
  <1>10. ASSUME y # None, y.joined <= t + MaxSkew PROVE m # None /\ m.joined >= y.joined
    BY <1>4, <1>5, <1>6, <1>7, <1>10, RosterAssumption
  <1>11. ASSUME m # None, x # None => x.joined <= t + MaxSkew PROVE m.joined <= t + MaxSkew
    BY <1>5, <1>7, <1>11
  <1> QED  BY <1>1, <1>2, <1>8, <1>9, <1>10, <1>11

LEMMA MergeLeaves ==
    ASSUME NEW r \in Rosters, NEW s \in Rosters, NEW e \in Devices, NEW t \in Nat,
           NEW q, q = Merge(r, s, t), NEW m, m = Kept(r.members[e], s.members[e], t)
    PROVE  /\ q.members[e] = None \/ q.members[e] = m
           /\ q.revoked[e] = 0 \/ q.revoked[e] = Stone(r, s, e, t)
           /\ q.revoked[e] # 0 => m = None \/ m.joined < q.revoked[e]
  <1>1. q.members[e] = Survivor(r, s, e, t) /\ q.revoked[e] = Standing(r, s, e, t)
    BY DEF Merge
  <1>2. PICK k : k = Stone(r, s, e, t)
    OBVIOUS
  <1>3. k \in Nat
    BY <1>2, RosterParts DEF Stone, Later, Earlier
  <1>4. m = None \/ (m \in Record /\ m.joined \in Nat)
    BY KeptGoesOn DEF Record
  <1>5. q.members[e] = IF m # None /\ k > m.joined THEN None ELSE m
    BY <1>1, <1>2 DEF Survivor
  <1>6. q.revoked[e] = IF m # None /\ m.joined >= k THEN 0 ELSE k
    BY <1>1, <1>2 DEF Standing
  <1> QED  BY <1>2, <1>3, <1>4, <1>5, <1>6

\* No device holds a record dated further ahead of its clock than it takes.
Dated == \A d, e \in Devices :
            roster[d] # None /\ roster[d].members[e] # None =>
                roster[d].members[e].joined <= Clock(d) + MaxSkew

LEMMA DatedInit == Init => Dated
  <1> SUFFICES ASSUME Init, NEW d \in Devices, NEW e \in Devices,
                      roster[d] # None, roster[d].members[e] # None
               PROVE  roster[d].members[e].joined <= Clock(d) + MaxSkew
    BY DEF Dated
  <1>1. roster[d].members[e] = [joined |-> 1, name |-> OwnName[e], renamed |-> 1]
    BY DEF Init
  <1>2. Clock(d) \in Nat /\ Clock(d) >= 2
    BY SpaceAssumption DEF Init, Clock
  <1> QED  BY <1>1, <1>2, RosterAssumption

\* Clocks do not go back.
LEMMA ClockGoes ==
    ASSUME SpaceInv, [Next]_vars, NEW d \in Devices
    PROVE  Clock(d) \in Nat /\ Clock(d)' \in Nat /\ Clock(d)' >= Clock(d)
  <1>1. now \in Nat /\ now' \in Nat
    <2>1. SpaceInv'
      BY SpaceStep
    <2> QED  BY <2>1 DEF SpaceInv, RestInv
  <1>2. now' = now \/ now' = now + 1
    BY ZenonT(60) DEF Next, vars, Tick, BeginRound, Person, Contact, SendTo, Pairing, SayGoodbye, Lose,
           CheckOn, Sync, Admit, Merged, Answer, HearRefusal, Hear, AskToJoin, ConsumeInvite,
           AdmitJoiner, Joined, JoinRefused, MintInvite, NameDevice, RenameEntry, RemoveDevice,
           BeginLeave, EndLeave, Abandon, Restart
  <1> QED  BY <1>1, <1>2, SpaceAssumption DEF Clock

\* What an exchange leaves of a member e of d: the record is not older than the
\* one before it, or has the newer label; a tombstone is later than it.
LEMMA ExchangeLeaves ==
    ASSUME SpaceInv, NEW d \in Devices, NEW e \in Devices, roster[d] # None,
           NEW s \in Rosters, NEW p, p = MergeFromPeer(roster[d], s, d)
    PROVE  /\ Dated /\ p.members[e] # None => p.members[e].joined <= Clock(d) + MaxSkew
           /\ roster[d].members[e] # None /\ p.members[e] # None
              /\ p.members[e].joined < roster[d].members[e].joined
              => p.members[e].renamed > roster[d].members[e].renamed
           /\ roster[d].members[e] # None /\ p.revoked[e] # 0 =>
                \/ p.revoked[e] > roster[d].members[e].joined
                \/ OlderForItsLabel(s.members[e], roster[d].members[e])
  <1>1. PICK r : r = roster[d]
    OBVIOUS
  <1>2. PICK t : t = Clock(d)
    OBVIOUS
  <1>3. PICK q : q = Merge(r, s, t)
    OBVIOUS
  <1>4. PICK m : m = Kept(r.members[e], s.members[e], t)
    OBVIOUS
  <1>5. r \in Rosters /\ t \in Nat /\ name[d] \in Names
    BY <1>1, <1>2, Clocks DEF SpaceInv, KeptInv, RestInv
  <1>6. q \in Rosters /\ p = Rename(q, d, name[d], t)
    BY <1>1, <1>2, <1>3, <1>5, MergeKeeps DEF MergeFromPeer
  <1>7. /\ p.revoked = q.revoked
        /\ p.members[e] = None <=> q.members[e] = None
        /\ p.members[e] # None => /\ p.members[e].joined = q.members[e].joined
                                  /\ p.members[e].renamed >= q.members[e].renamed
    <2>1. /\ p.revoked = q.revoked /\ p \in Rosters
          /\ p.members[e] = None <=> q.members[e] = None
          /\ p.members[e] # None => p.members[e].joined = q.members[e].joined
      BY <1>5, <1>6, RenameKeeps
    <2>2. q.members[e] # None => p.members[e].renamed >= q.members[e].renamed
      BY <1>5, <1>6, RenameLater
    <2> QED  BY <2>1, <2>2
  <1>8. /\ m = None \/ m \in Record
        /\ r.members[e] # None =>
             /\ m # None
             /\ m.joined < r.members[e].joined =>
                     /\ OlderForItsLabel(m, r.members[e])
                     /\ OlderForItsLabel(s.members[e], r.members[e])
        /\ m # None /\ (r.members[e] # None => r.members[e].joined <= t + MaxSkew) =>
             m.joined <= t + MaxSkew
    BY <1>4, <1>5, KeptGoesOn
  <1>9. /\ q.members[e] = None \/ q.members[e] = m
        /\ q.revoked[e] # 0 => m = None \/ m.joined < q.revoked[e]
    BY <1>3, <1>4, <1>5, MergeLeaves
  <1>10. /\ q.revoked[e] \in Nat
         /\ r.members[e] # None => r.members[e].joined \in Nat /\ r.members[e].renamed \in Nat
         /\ m # None => m.joined \in Nat /\ m.renamed \in Nat
         /\ p.members[e] # None => p.members[e].renamed \in Nat
    <2>1. p \in Rosters
      BY <1>5, <1>6, RenameKeeps
    <2>2. m # None => m.joined \in Nat /\ m.renamed \in Nat
      BY <1>8 DEF Record
    <2> QED  BY <1>5, <1>6, <2>1, <2>2, RosterParts
  <1>11. ASSUME Dated, p.members[e] # None PROVE p.members[e].joined <= Clock(d) + MaxSkew
    <2>1. r.members[e] # None => r.members[e].joined <= t + MaxSkew
      BY <1>1, <1>2, <1>11 DEF Dated
    <2> QED  BY <1>2, <1>7, <1>8, <1>9, <1>11, <2>1
  <1>12. ASSUME r.members[e] # None, p.members[e] # None, p.members[e].joined < r.members[e].joined
         PROVE  p.members[e].renamed > r.members[e].renamed
    <2>1. q.members[e] = m /\ m # None /\ m.joined < r.members[e].joined
      BY <1>7, <1>9, <1>12
    <2>2. m.renamed > r.members[e].renamed
      BY <1>8, <1>12, <2>1 DEF OlderForItsLabel
    <2> QED  BY <1>7, <1>10, <1>12, <2>1, <2>2
  <1>13. ASSUME r.members[e] # None, p.revoked[e] # 0
         PROVE  p.revoked[e] > r.members[e].joined \/ OlderForItsLabel(s.members[e], r.members[e])
    <2>1. m # None /\ m.joined < q.revoked[e]
      BY <1>7, <1>8, <1>9, <1>13
    <2>2. CASE m.joined < r.members[e].joined
      BY <1>8, <1>13, <2>2
    <2>3. CASE m.joined >= r.members[e].joined
      BY <1>7, <1>10, <1>13, <2>1, <2>3
    <2> QED  BY <1>10, <1>13, <2>1, <2>2, <2>3
  <1> QED  BY <1>1, <1>11, <1>12, <1>13

\* What pairing anew leaves of a member: nothing older, and no tombstone.
LEMMA PairingLeaves ==
    ASSUME SpaceInv, NEW d \in Devices, NEW e \in Devices, NEW s \in Rosters,
           NEW q, q = TakeOver(roster[d], Adopt(s, Clock(d)), Clock(d))
    PROVE  /\ q.members[e] # None => q.members[e].joined <= Clock(d) + MaxSkew
           /\ roster[d] # None /\ roster[d].members[e] # None =>
                /\ q.revoked[e] = 0
                /\ Dated /\ q.members[e] # None => q.members[e].joined >= roster[d].members[e].joined
  <1>1. PICK t : t = Clock(d)
    OBVIOUS
  <1>2. PICK a : a = Adopt(s, t)
    OBVIOUS
  <1>3. PICK r : r = roster[d]
    OBVIOUS
  <1>4. t \in Nat
    BY <1>1, Clocks DEF SpaceInv
  <1>5. a \in Rosters /\ a.revoked[e] = 0
    BY <1>2, <1>4, AdoptKeeps
  <1>6. a.members[e] # None => a.members[e].joined <= t + MaxSkew
    BY <1>2 DEF Adopt, Verified
  <1>7. CASE r = None
    BY <1>1, <1>2, <1>3, <1>6, <1>7 DEF TakeOver
  <1>8. CASE r # None
    <2>1. q = Merge(a, r, t) /\ r \in Rosters
      BY <1>1, <1>2, <1>3, <1>8 DEF TakeOver, SpaceInv, KeptInv
    <2>2. PICK m : m = Kept(a.members[e], r.members[e], t)
      OBVIOUS
    <2>3. /\ q.members[e] = None \/ q.members[e] = m
          /\ q.revoked[e] = 0 \/ q.revoked[e] = Stone(a, r, e, t)
      BY <1>4, <1>5, <2>1, <2>2, MergeLeaves
    <2>4. /\ r.members[e] # None /\ r.members[e].joined <= t + MaxSkew =>
                m.joined >= r.members[e].joined
          /\ m # None => m.joined <= t + MaxSkew
      BY <1>4, <1>5, <1>6, <2>1, <2>2, KeptGoesOn
    <2>5. ASSUME r.members[e] # None PROVE q.revoked[e] = 0
      <3>1. r.revoked[e] = 0
        BY <1>3, <1>8, <2>5 DEF SpaceInv, KeptInv, Consistent
      <3>2. Stone(a, r, e, t) = 0
        BY <1>4, <1>5, <3>1 DEF Stone, Later, Earlier
      <3> QED  BY <2>3, <3>2
    <2>6. ASSUME r.members[e] # None, Dated, q.members[e] # None
          PROVE  q.members[e].joined >= r.members[e].joined
      <3>1. r.members[e].joined <= t + MaxSkew
        BY <1>1, <1>3, <1>8, <2>6 DEF Dated
      <3> QED  BY <2>3, <2>4, <2>6, <3>1
    <2> QED  BY <1>1, <1>3, <2>3, <2>4, <2>5, <2>6
  <1> QED  BY <1>7, <1>8

\* What the other ways leave of a member: the membership there was, except of
\* the device that is admitted or removed.
LEMMA OthersLeave ==
    ASSUME SpaceInv, NEW d \in Devices, NEW e \in Devices, roster[d] # None, NEW p,
           \/ \E c \in Devices, n \in Names : c # e /\ p = Invite(roster[d], c, n, Clock(d))
           \/ \E c \in Devices : c # e /\ p = Revoke(roster[d], c, Clock(d))
           \/ \E c \in Devices : p = Forget(roster[d], c)
           \/ p = Rename(roster[d], d, name[d], Clock(d))
    PROVE  /\ p.revoked[e] = roster[d].revoked[e]
           /\ p.members[e] # None =>
                roster[d].members[e] # None /\ p.members[e].joined = roster[d].members[e].joined
  <1>1. PICK r : r = roster[d] /\ r \in Rosters
    BY DEF SpaceInv, KeptInv
  <1>2. Clock(d) \in Nat /\ name[d] \in Names
    BY Clocks DEF SpaceInv, RestInv
  <1>3. CASE \E c \in Devices, n \in Names : c # e /\ p = Invite(r, c, n, Clock(d))
    BY <1>1, <1>3 DEF Invite, Rosters
  <1>4. CASE \E c \in Devices : c # e /\ p = Revoke(r, c, Clock(d))
    BY <1>1, <1>4 DEF Revoke, Rosters
  <1>5. CASE \E c \in Devices : p = Forget(r, c)
    BY <1>1, <1>5 DEF Forget, Rosters
  <1>6. CASE p = Rename(r, d, name[d], Clock(d))
    BY <1>1, <1>2, <1>6, RenameKeeps
  <1> QED  BY <1>1, <1>3, <1>4, <1>5, <1>6

\* How a membership goes back, and how one ends.
OlderOnlyByName ==
    \A d, e \in Devices :
        /\ roster[d] # None /\ roster'[d] # None
        /\ Current(roster[d], e) /\ Current(roster'[d], e)
        /\ roster'[d].members[e].joined < roster[d].members[e].joined
        => \/ AdmitJoiner(<<e, d, "join">>)
           \/ roster'[d].members[e].renamed > roster[d].members[e].renamed

EndsByLaterStone ==
    \A d, e \in Devices :
        /\ roster[d] # None /\ roster'[d] # None
        /\ Current(roster[d], e) /\ roster'[d].revoked[e] # 0
        => \/ RemoveDevice(d, e)
           \/ roster'[d].revoked[e] > roster[d].members[e].joined
           \/ \E l \in Line : /\ wire[l].parts # None
                              /\ OlderForItsLabel(wire[l].parts.members[e], roster[d].members[e])

LEMMA ChangeIsFair ==
    ASSUME SpaceInv, Dated, NEW d \in Devices, NEW e \in Devices, Changes(d), roster'[d] # None
    PROVE  /\ roster'[d].members[e] # None => roster'[d].members[e].joined <= Clock(d) + MaxSkew
           /\ roster[d] # None /\ Current(roster[d], e) =>
                /\ /\ Current(roster'[d], e)
                   /\ roster'[d].members[e].joined < roster[d].members[e].joined
                   => \/ AdmitJoiner(<<e, d, "join">>)
                      \/ roster'[d].members[e].renamed > roster[d].members[e].renamed
                /\ roster'[d].revoked[e] # 0
                   => \/ RemoveDevice(d, e)
                      \/ roster'[d].revoked[e] > roster[d].members[e].joined
                      \/ \E l \in Line :
                            /\ wire[l].parts # None
                            /\ OlderForItsLabel(wire[l].parts.members[e], roster[d].members[e])
  <1>1. Clock(d) \in Nat
    BY Clocks DEF SpaceInv
  <1>2. ASSUME roster[d] # None, Current(roster[d], e)
        PROVE  /\ roster[d].members[e] # None /\ roster[d].revoked[e] = 0
               /\ roster[d].members[e].joined \in Nat
    <2>1. roster[d] \in Rosters /\ roster[d].members[e] # None /\ roster[d].revoked[e] = 0
      BY <1>2 DEF SpaceInv, KeptInv, Consistent, Current
    <2> QED  BY <2>1, RosterParts
  <1>3. CASE PairsUp(d)
    <2>1. PICK s \in Rosters : roster'[d] = TakeOver(roster[d], Adopt(s, Clock(d)), Clock(d))
      BY <1>3 DEF PairsUp
    <2>2. PICK q : q = roster'[d]
      OBVIOUS
    <2>3. /\ q.members[e] # None => q.members[e].joined <= Clock(d) + MaxSkew
          /\ roster[d] # None /\ roster[d].members[e] # None =>
                /\ q.revoked[e] = 0
                /\ q.members[e] # None => q.members[e].joined >= roster[d].members[e].joined
      BY <2>1, <2>2, PairingLeaves
    <2>4. ASSUME Current(q, e), q \in Rosters PROVE q.members[e] # None /\ q.members[e].joined \in Nat
      BY <2>4, RosterParts DEF Current
    <2>5. q \in Rosters
      <3>1. Heir(d, q, decided)
        BY <2>1, <2>2, JoinHeir DEF SpaceInv
      <3> QED  BY <3>1 DEF Heir
    <2> QED  BY <1>2, <2>2, <2>3, <2>4, <2>5
  <1>4. CASE roster[d] # None /\ Exchanged(d)
    <2>1. PICK l \in Line : /\ wire[l].parts \in Rosters
                            /\ roster'[d] = MergeFromPeer(roster[d], wire[l].parts, d)
      BY <1>4 DEF Exchanged
    <2>2. PICK s \in Rosters : s = wire[l].parts
      BY <2>1
    <2>3. PICK p : p = roster'[d]
      OBVIOUS
    <2>4. /\ p.members[e] # None => p.members[e].joined <= Clock(d) + MaxSkew
          /\ roster[d].members[e] # None /\ p.members[e] # None
             /\ p.members[e].joined < roster[d].members[e].joined
             => p.members[e].renamed > roster[d].members[e].renamed
          /\ roster[d].members[e] # None /\ p.revoked[e] # 0 =>
               \/ p.revoked[e] > roster[d].members[e].joined
               \/ OlderForItsLabel(s.members[e], roster[d].members[e])
      BY <1>4, <2>1, <2>2, <2>3, ExchangeLeaves
    <2>5. s # None
      BY RosterAssumption
    <2> QED  BY <1>2, <2>2, <2>3, <2>4, <2>5 DEF Current
  <1>5. CASE roster[d] # None /\ \E c \in Devices : Admits(d, c)
    <2>1. PICK c \in Devices, n \in Names :
            AdmitJoiner(<<c, d, "join">>) /\ roster'[d] = Invite(roster[d], c, n, Clock(d))
      BY <1>5 DEF Admits
    <2>2. CASE c = e
      <3>1. roster[d] \in Rosters
        BY <1>5 DEF SpaceInv, KeptInv
      <3>2. roster'[d].members[e].joined = Clock(d) /\ roster'[d].revoked[e] = 0
        BY <2>1, <2>2, <3>1 DEF Invite, Rosters
      <3> QED  BY <1>1, <2>1, <2>2, <3>2, RosterAssumption
    <2>3. CASE c # e
      <3>1. PICK p : p = roster'[d]
        OBVIOUS
      <3>2. /\ p.revoked[e] = roster[d].revoked[e]
            /\ p.members[e] # None =>
                 roster[d].members[e] # None /\ p.members[e].joined = roster[d].members[e].joined
        BY <1>5, <2>1, <2>3, <3>1, OthersLeave
      <3> QED  BY <1>2, <1>5, <3>1, <3>2 DEF Dated, Current
    <2> QED  BY <2>2, <2>3
  <1>6. CASE roster[d] # None /\ \E c \in Devices : Removes(d, c)
    <2>1. PICK c \in Devices : RemoveDevice(d, c) /\ roster'[d] = Revoke(roster[d], c, Clock(d))
      BY <1>6 DEF Removes
    <2>2. CASE c = e
      <3>1. roster[d] \in Rosters
        BY <1>6 DEF SpaceInv, KeptInv
      <3>2. roster'[d].members[e] = None
        BY <2>1, <2>2, <3>1 DEF Revoke, Rosters
      <3> QED  BY <2>1, <2>2, <3>2 DEF Current
    <2>3. CASE c # e
      <3>1. PICK p : p = roster'[d]
        OBVIOUS
      <3>2. /\ p.revoked[e] = roster[d].revoked[e]
            /\ p.members[e] # None =>
                 roster[d].members[e] # None /\ p.members[e].joined = roster[d].members[e].joined
        BY <1>6, <2>1, <2>3, <3>1, OthersLeave
      <3> QED  BY <1>2, <1>6, <3>1, <3>2 DEF Dated, Current
    <2> QED  BY <2>2, <2>3
  <1>7. CASE roster[d] # None /\ (Refused(d) \/ Labels(d))
    <2>1. PICK p : p = roster'[d]
      OBVIOUS
    <2>2. /\ p.revoked[e] = roster[d].revoked[e]
          /\ p.members[e] # None =>
               roster[d].members[e] # None /\ p.members[e].joined = roster[d].members[e].joined
      BY <1>7, <2>1, OthersLeave DEF Refused, Labels
    <2> QED  BY <1>2, <1>7, <2>1, <2>2 DEF Dated, Current
  <1> QED  BY <1>3, <1>4, <1>5, <1>6, <1>7 DEF Changes

LEMMA DatedStep ==
    ASSUME SpaceInv, Dated, [Next]_vars
    PROVE  Dated' /\ OlderOnlyByName /\ EndsByLaterStone
  <1>1. ASSUME NEW d \in Devices, NEW e \in Devices, roster[d] # None, Current(roster[d], e)
        PROVE  /\ roster[d].members[e] # None /\ roster[d].revoked[e] = 0
               /\ roster[d].members[e].joined \in Nat
    <2>1. roster[d] \in Rosters /\ roster[d].members[e] # None /\ roster[d].revoked[e] = 0
      BY <1>1 DEF SpaceInv, KeptInv, Consistent, Current
    <2> QED  BY <2>1, RosterParts
  <1>2. ASSUME NEW d \in Devices, NEW e \in Devices, roster'[d] # None, roster'[d].members[e] # None
        PROVE  roster'[d].members[e].joined <= Clock(d)' + MaxSkew
    <2>1. Clock(d) \in Nat /\ Clock(d)' \in Nat /\ Clock(d)' >= Clock(d)
      BY ClockGoes
    <2>2. roster'[d].members[e].joined <= Clock(d) + MaxSkew
      <3>1. CASE roster'[d] = roster[d]
        BY <1>2, <3>1 DEF Dated
      <3>2. CASE Changes(d)
        BY <1>2, <3>2, ChangeIsFair
      <3> QED  BY <1>2, <3>1, <3>2, EveryChange DEF Goes
    <2>3. roster'[d].members[e].joined \in Nat
      <3>1. SpaceInv'
        BY SpaceStep
      <3>2. roster'[d] \in Rosters
        BY <1>2, <3>1 DEF SpaceInv, KeptInv
      <3> QED  BY <1>2, <3>2, RosterParts
    <2> QED  BY <2>1, <2>2, <2>3, RosterAssumption
  <1>3. Dated'
    BY <1>2 DEF Dated
  <1>4. OlderOnlyByName
    <2> SUFFICES ASSUME NEW d \in Devices, NEW e \in Devices,
                        roster[d] # None, roster'[d] # None,
                        Current(roster[d], e), Current(roster'[d], e),
                        roster'[d].members[e].joined < roster[d].members[e].joined
                 PROVE  \/ AdmitJoiner(<<e, d, "join">>)
                        \/ roster'[d].members[e].renamed > roster[d].members[e].renamed
      BY DEF OlderOnlyByName
    <2>1. roster'[d] # roster[d]
      BY <1>1
    <2>2. Changes(d)
      BY <2>1, EveryChange DEF Goes
    <2> QED  BY <2>2, ChangeIsFair
  <1>5. EndsByLaterStone
    <2> SUFFICES ASSUME NEW d \in Devices, NEW e \in Devices,
                        roster[d] # None, roster'[d] # None,
                        Current(roster[d], e), roster'[d].revoked[e] # 0
                 PROVE  \/ RemoveDevice(d, e)
                        \/ roster'[d].revoked[e] > roster[d].members[e].joined
                        \/ \E l \in Line :
                              /\ wire[l].parts # None
                              /\ OlderForItsLabel(wire[l].parts.members[e], roster[d].members[e])
      BY DEF EndsByLaterStone
    <2>1. roster'[d] # roster[d]
      BY <1>1
    <2>2. Changes(d)
      BY <2>1, EveryChange DEF Goes
    <2> QED  BY <2>2, ChangeIsFair
  <1> QED  BY <1>3, <1>4, <1>5

LEMMA DatedAlways == Spec => []Dated /\ [][OlderOnlyByName /\ EndsByLaterStone]_vars
  BY SpaceInvariant, DatedInit, DatedStep, PTL DEF Spec

\* A device's record is replaced by one for an older membership only if that
\* has the newer label, or if the device is just being admitted by a clock that
\* is behind: the ways Kept and Invite leave open, and no others, whatever the
\* clocks, the renames and the traffic (merge_at, do_join, invite).
THEOREM RecordsGoBackByNameOnly == Spec => [][OlderOnlyByName]_vars
  BY DatedAlways, PTL

\* A membership that a device knows of ends there with a tombstone only if the
\* device removes the member itself, or the tombstone is later than the
\* membership, or an older record with a newer label is on its way: an old
\* tombstone does nothing to a member who was invited again (merge_at, do_join).
THEOREM MembersEndByLaterStone == Spec => [][EndsByLaterStone]_vars
  BY DatedAlways, PTL
=============================================================================
