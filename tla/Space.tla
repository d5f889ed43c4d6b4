-------------------------------- MODULE Space --------------------------------
(***************************************************************************)
(* One space held by several devices (clispeak-core/src/node.rs with       *)
(* roster.rs and ticket.rs): pairing with an invite, renaming, removing,   *)
(* leaving, and the exchange of rosters on contact that is to make all     *)
(* devices agree.  Every action is one critical section of a device's      *)
(* `spaces` or `pending` lock, or a message that is sent or lost: nothing  *)
(* orders the exchanges between two devices, and any of them may end       *)
(* half-way.                                                               *)
(***************************************************************************)
EXTENDS Roster, FiniteSets, Sequences

CONSTANTS
    Paired,     \* devices that are in the space at the start
    OwnName,    \* what each device calls itself at the start
    Ahead,      \* by how much the clock of each device is ahead
    TTL,        \* how long an invite is good for
    May,        \* what happens at each device
    Moments,    \* bound: the seconds that pass
    Invites,    \* bound: invites minted on one device
    Traffic     \* bound: exchanges in flight

Verbs == {"invite", "join", "rename", "revoke", "leave", "abandon", "restart",
          "check", "send", "offline"}

ASSUME SpaceAssumption ==
    /\ Paired \subseteq Devices
    /\ OwnName \in [Devices -> Names]
    /\ Ahead \in [Devices -> Nat]
    /\ TTL \in Nat
    /\ May \in [Devices -> SUBSET Verbs]
    /\ Moments \in Nat /\ Invites \in Nat /\ Traffic \in Nat

VARIABLES
    now,        \* the true time
    roster,     \* each device's roster of this space, None without one
    name,       \* Shared::name
    mid,        \* between the two halves of a rename
    pending,    \* Shared::pending: the number of the open invite, 0 for none
    minted,     \* when each invite a device has minted expires
    plan,       \* peers a device has yet to contact in this round of checks
    farewell,   \* what a leaving device announces, and to whom it has yet to
    wire,       \* exchanges in flight
    \* history: devices that someone decided to remove, who removed whom and
    \* nobody invited since, the stamp of the invite that brought a removed
    \* device back, and the latest tombstone a roster has ever held
    decided, gone, again, knows

books == <<decided, gone, again>>
known == <<roster, knows>>
vars  == <<now, known, name, mid, pending, minted, plan, farewell, wire, books>>

Clock(d) == now + Ahead[d]

\* An exchange is named by who began it, with whom, and what it is for: at
\* most one of each is in flight.
Exchanges == {"sync", "bye", "join"}
Steps == {"idle", "dialled", "asked", "admitted", "merged", "answered", "refused"}
Line  == {l \in Devices \X Devices \X Exchanges : l[1] # l[2]}

Idle == [step |-> "idle", parts |-> None, token |-> 0, name |-> None]
At(l, step) == wire[l].step = step

Advance(l, step)      == wire' = [wire EXCEPT ![l].step = step]
Carry(l, step, parts) == wire' = [wire EXCEPT ![l].step = step, ![l].parts = parts]
Close(l)              == wire' = [wire EXCEPT ![l] = Idle]

Room == Cardinality({l \in Line : ~At(l, "idle")}) < Traffic

\* A removal is known from when it is heard of until a record as new is seen.
Known(r, e, k) ==
    IF r = None \/ (Current(r, e) /\ r.members[e].joined >= Later(k, r.revoked[e]))
    THEN 0 ELSE Later(k, r.revoked[e])

\* The roster of d is r from now on.
Holds(d, r) ==
    \E q \in {r} :
        /\ roster' = [roster EXCEPT ![d] = q]
        /\ knows' = [knows EXCEPT ![d] = [e \in Devices |-> Known(q, e, @[e])]]

Does(d, verb) == verb \in May[d]

-----------------------------------------------------------------------------
Init ==
    /\ now = 2
    /\ name = OwnName
    /\ roster = [d \in Devices |->
        IF d \in Paired
        THEN [members |-> [e \in Devices |->
                 IF e \in Paired THEN [joined |-> 1, name |-> OwnName[e], renamed |-> 1]
                 ELSE None],
              revoked |-> [e \in Devices |-> 0]]
        ELSE None]
    /\ mid = [d \in Devices |-> FALSE]
    /\ pending = [d \in Devices |-> 0]
    /\ minted = [d \in Devices |-> <<>>]
    /\ plan = [d \in Devices |-> {}]
    /\ farewell = [d \in Devices |-> None]
    /\ wire = [l \in Line |-> Idle]
    /\ decided = {} /\ gone = {}
    /\ again = [d \in Devices |-> 0]
    /\ knows = [d \in Devices |-> [e \in Devices |-> 0]]

\* Bound: time stands still at the last moment.
Tick ==
    /\ now < Moments
    /\ now' = now + 1
    /\ UNCHANGED <<known, name, mid, pending, minted, plan, farewell, wire, books>>

-----------------------------------------------------------------------------
(* Pairing.                                                                *)

\* invite: a new ticket replaces the one that was open.
MintInvite(h) ==
    /\ Does(h, "invite") /\ Len(minted[h]) < Invites
    /\ roster[h] # None
    /\ minted' = [minted EXCEPT ![h] = Append(@, Clock(h) + TTL)]
    /\ pending' = [pending EXCEPT ![h] = Len(minted[h]) + 1]
    /\ UNCHANGED <<now, known, name, mid, plan, farewell, wire, books>>

\* join, do_join: a ticket that was read and is neither expired nor longer
\* than any ticket is sent to the device that minted it.
AskToJoin(e, h, k) ==
    LET l == <<e, h, "join">> IN
    /\ Does(e, "join")
    /\ At(l, "idle") /\ Room
    /\ Clock(e) <= minted[h][k] /\ minted[h][k] <= Clock(e) + TTL
    /\ wire' = [wire EXCEPT ![l] = [step |-> "asked", parts |-> None,
                                    token |-> k, name |-> name[e]]]
    /\ UNCHANGED <<now, known, name, mid, pending, minted, plan, farewell, books>>

\* accept_join, first critical section: the open invite is consumed, or is
\* found expired, or is not the one.
ConsumeInvite(l) ==
    LET h == l[2]
        k == pending[h]
    IN  /\ l[3] = "join" /\ At(l, "asked")
        /\ IF k # 0 /\ Clock(h) <= minted[h][k] /\ k # wire[l].token
           THEN UNCHANGED pending
           ELSE pending' = [pending EXCEPT ![h] = 0]
        /\ Advance(l, IF k # 0 /\ Clock(h) <= minted[h][k] /\ k = wire[l].token
                      THEN "admitted" ELSE "refused")
        /\ UNCHANGED <<now, known, name, mid, minted, plan, farewell, books>>

\* ... second: a record is signed, kept, and sent with those of all members.
AdmitJoiner(l) ==
    LET e == l[1]
        h == l[2]
        r == Invite(roster[h], e, wire[l].name, Clock(h))
    IN  /\ l[3] = "join" /\ At(l, "admitted")
        /\ IF roster[h] = None
           THEN Advance(l, "refused") /\ UNCHANGED <<known, gone, again>>
           ELSE /\ Holds(h, r)
                /\ Carry(l, "answered", Snapshot(r))
                /\ gone' = {p \in gone : p[2] # e}
                /\ again' = [again EXCEPT ![e] = IF e \in decided THEN Clock(h) ELSE 0]
        /\ UNCHANGED <<now, name, mid, pending, minted, plan, farewell, decided>>

\* do_join: what arrived is taken over, and what was already known is merged
\* into it.
TakeWholesale(old, new, t) == new
TakeOver(old, new, t)      == IF old = None THEN new ELSE Merge(new, old, t)

Joined(l) ==
    LET e == l[1]
        r == Adopt(wire[l].parts, Clock(e))
    IN  /\ l[3] = "join" /\ At(l, "answered")
        /\ IF Current(r, e)
           THEN Holds(e, TakeOver(roster[e], r, Clock(e)))
           ELSE UNCHANGED known
        /\ Close(l)
        /\ UNCHANGED <<now, name, mid, pending, minted, plan, farewell, books>>

\* A join that was refused changes nothing here.
JoinRefused(l) ==
    /\ l[3] = "join" /\ At(l, "refused")
    /\ Close(l)
    /\ UNCHANGED <<now, known, name, mid, pending, minted, plan, farewell, books>>

-----------------------------------------------------------------------------
(* Exchanging rosters.                                                     *)

\* start_presence_checks: a round contacts, one after another, every member
\* there was when the round began.
BeginRound(d) ==
    /\ Does(d, "check")
    /\ roster[d] # None /\ plan[d] = {}
    /\ plan' = [plan EXCEPT ![d] = Members(roster[d]) \ {d}]
    /\ UNCHANGED <<now, known, name, mid, pending, minted, farewell, wire, books>>

CheckOn(d, e) ==
    LET l == <<d, e, "sync">> IN
    /\ e \in plan[d]
    /\ \A o \in Devices \ {d} : At(<<d, o, "sync">>, "idle")
    /\ Room
    /\ plan' = [plan EXCEPT ![d] = @ \ {e}]
    /\ Advance(l, "dialled")
    /\ UNCHANGED <<now, known, name, mid, pending, minted, farewell, books>>

\* send_to_peer: a message to a member is preceded by an exchange of rosters.
SendTo(d, e) ==
    LET l == <<d, e, "sync">> IN
    /\ Does(d, "send")
    /\ roster[d] # None /\ Current(roster[d], e)
    /\ At(l, "idle") /\ Room
    /\ Advance(l, "dialled")
    /\ UNCHANGED <<now, known, name, mid, pending, minted, plan, farewell, books>>

\* sync_roster, once connected: what we know by then.
Sync(l) ==
    LET d == l[1] IN
    /\ At(l, "dialled")
    /\ IF roster[d] = None THEN Close(l) ELSE Carry(l, "asked", Snapshot(roster[d]))
    /\ UNCHANGED <<now, known, name, mid, pending, minted, plan, farewell, books>>

\* handle_peer: only a member may change our roster.
Admit(l) ==
    LET d == l[1]
        e == l[2]
    IN  /\ l[3] # "join" /\ At(l, "asked")
        /\ Advance(l, IF roster[e] # None /\ Current(roster[e], d)
                      THEN "admitted" ELSE "refused")
        /\ UNCHANGED <<now, known, name, mid, pending, minted, plan, farewell, books>>

\* merge_from_peer, under a lock of its own: then our own label is set again.
MergeFromPeer(r, s, d) == Rename(Merge(r, s, Clock(d)), d, name[d], Clock(d))

Merged(l) ==
    LET e == l[2] IN
    /\ l[3] # "join" /\ At(l, "admitted")
    /\ IF roster[e] = None THEN UNCHANGED known
       ELSE Holds(e, MergeFromPeer(roster[e], wire[l].parts, e))
    /\ Advance(l, "merged")
    /\ UNCHANGED <<now, name, mid, pending, minted, plan, farewell, books>>

\* The reply; nobody reads the one to a farewell.
Answer(l) ==
    LET e == l[2] IN
    /\ At(l, "merged")
    /\ IF l[3] = "sync" /\ roster[e] # None
       THEN Carry(l, "answered", Snapshot(roster[e]))
       ELSE Close(l)
    /\ UNCHANGED <<now, known, name, mid, pending, minted, plan, farewell, books>>

\* sync_roster, with the reply.
Hear(l) ==
    LET d == l[1] IN
    /\ l[3] = "sync" /\ At(l, "answered")
    /\ IF roster[d] = None THEN UNCHANGED known
       ELSE Holds(d, MergeFromPeer(roster[d], wire[l].parts, d))
    /\ Close(l)
    /\ UNCHANGED <<now, name, mid, pending, minted, plan, farewell, books>>

\* ... and with a refusal: the peer is dropped here.
DropForAll(r, e, t) == Revoke(r, e, t)
DropHere(r, e, t)   == Forget(r, e)

HearRefusal(l) ==
    LET d == l[1]
        e == l[2]
    IN  /\ l[3] # "join" /\ At(l, "refused")
        /\ IF l[3] = "sync" /\ roster[d] # None /\ Current(roster[d], e)
           THEN Holds(d, DropHere(roster[d], e, Clock(d)))
           ELSE UNCHANGED known
        /\ Close(l)
        /\ UNCHANGED <<now, name, mid, pending, minted, plan, farewell, books>>

\* The connection breaks, when one of its ends goes out of reach.
Lose(l) ==
    /\ Does(l[1], "offline") \/ Does(l[2], "offline")
    /\ ~At(l, "idle")
    /\ Close(l)
    /\ UNCHANGED <<now, known, name, mid, pending, minted, plan, farewell, books>>

-----------------------------------------------------------------------------
(* What a person does to the space.                                        *)

\* rename: the name file and the copy in memory, and then every roster.
\* Bound: no rename past the last moment.
NameDevice(d, n) ==
    /\ Does(d, "rename") /\ ~mid[d] /\ name[d] # n
    /\ roster[d] # None => roster[d].members[d] # None /\ roster[d].members[d].renamed < Moments
    /\ name' = [name EXCEPT ![d] = n]
    /\ mid' = [mid EXCEPT ![d] = TRUE]
    /\ UNCHANGED <<now, known, pending, minted, plan, farewell, wire, books>>

RenameEntry(d) ==
    /\ mid[d]
    /\ mid' = [mid EXCEPT ![d] = FALSE]
    /\ IF roster[d] = None THEN UNCHANGED known
       ELSE Holds(d, Rename(roster[d], d, name[d], Clock(d)))
    /\ UNCHANGED <<now, name, pending, minted, plan, farewell, wire, books>>

\* revoke: another member is removed, and whoever syncs is to hear of it.
RemoveDevice(d, e) ==
    /\ Does(d, "revoke") /\ d # e
    /\ roster[d] # None /\ Current(roster[d], e)
    /\ Holds(d, Revoke(roster[d], e, Clock(d)))
    /\ decided' = decided \cup {e}
    /\ gone' = gone \cup {<<d, e>>}
    /\ again' = [again EXCEPT ![e] = 0]
    /\ UNCHANGED <<now, name, mid, pending, minted, plan, farewell, wire>>

Lacks(d) ==
    /\ Holds(d, None)
    /\ gone' = {p \in gone : p[1] # d}

\* leave: the invite is cancelled, the roster to say goodbye with is made,
BeginLeave(d) ==
    /\ Does(d, "leave") /\ farewell[d] = None
    /\ roster[d] # None
    /\ pending' = [pending EXCEPT ![d] = 0]
    /\ farewell' = [farewell EXCEPT ![d] =
            [parts |-> Snapshot(Revoke(roster[d], d, Clock(d))),
             peers |-> Members(roster[d]) \ {d}]]
    /\ decided' = decided \cup {d}
    /\ again' = [again EXCEPT ![d] = 0]
    /\ UNCHANGED <<now, known, name, mid, minted, plan, wire, gone>>

\* ... sent to each peer in turn, without waiting for what becomes of it,
SayGoodbye(d, e) ==
    LET l == <<d, e, "bye">> IN
    /\ farewell[d] # None /\ e \in farewell[d].peers
    /\ At(l, "idle") /\ Room
    /\ Carry(l, "asked", farewell[d].parts)
    /\ farewell' = [farewell EXCEPT ![d].peers = @ \ {e}]
    /\ UNCHANGED <<now, known, name, mid, pending, minted, plan, books>>

\* ... and the space is dropped here, or refounded under another id.
EndLeave(d) ==
    /\ farewell[d] # None /\ farewell[d].peers = {}
    /\ farewell' = [farewell EXCEPT ![d] = None]
    /\ Lacks(d)
    /\ UNCHANGED <<now, name, mid, pending, minted, plan, wire, decided, again>>

\* rotate and leave_space: the space is gone here, and nobody is told.
Abandon(d) ==
    /\ Does(d, "abandon")
    /\ roster[d] # None
    /\ pending' = [pending EXCEPT ![d] = 0]
    /\ Lacks(d)
    /\ UNCHANGED <<now, name, mid, minted, plan, farewell, wire, decided, again>>

\* The node ends, however it ends, and starts again with what it had saved:
\* rosters, the open invite and the name.  Starting brings the entry for this
\* device into line with the name (adopt_own_name).
Restart(d) ==
    /\ Does(d, "restart")
    /\ IF roster[d] = None THEN UNCHANGED known
       ELSE Holds(d, Rename(roster[d], d, name[d], Clock(d)))
    /\ pending' = [pending EXCEPT ![d] =
                    IF @ # 0 /\ Clock(d) <= minted[d][@] THEN @ ELSE 0]
    /\ mid' = [mid EXCEPT ![d] = FALSE]
    /\ plan' = [plan EXCEPT ![d] = {}]
    /\ farewell' = [farewell EXCEPT ![d] = None]
    /\ wire' = [l \in Line |-> IF d \in {l[1], l[2]} THEN Idle ELSE wire[l]]
    /\ UNCHANGED <<now, name, minted, books>>

-----------------------------------------------------------------------------
\* Steps the devices take by themselves.
Contact(d, e) ==
    LET sync == <<d, e, "sync">>
        bye  == <<d, e, "bye">>
    IN  \/ CheckOn(d, e) \/ Sync(sync)
        \/ \E l \in {sync, bye} : Admit(l) \/ Merged(l) \/ Answer(l) \/ HearRefusal(l)
        \/ Hear(sync)

Pairs == {p \in Devices \X Devices : p[1] # p[2]}

Pairing(e, h) ==
    LET l == <<e, h, "join">> IN
    \/ \E k \in DOMAIN minted[h] : AskToJoin(e, h, k)
    \/ ConsumeInvite(l) \/ AdmitJoiner(l) \/ Joined(l) \/ JoinRefused(l)

Person(d) ==
    \/ MintInvite(d)
    \/ \E n \in Names : NameDevice(d, n)
    \/ RenameEntry(d)
    \/ \E e \in Devices : RemoveDevice(d, e)
    \/ BeginLeave(d) \/ EndLeave(d) \/ Abandon(d) \/ Restart(d)

Next ==
    \/ Tick
    \/ \E d \in Devices : BeginRound(d) \/ Person(d)
    \/ \E p \in Pairs : Contact(p[1], p[2]) \/ SendTo(p[1], p[2])
    \/ \E p \in Pairs : Pairing(p[1], p[2]) \/ SayGoodbye(p[1], p[2])
    \/ \E l \in Line : Lose(l)

Spec == Init /\ [][Next]_vars

\* What a device does by itself: its round of checks, with the exchanges the
\* round begins, and the second half of what a person asked for.
Rounds(d)   == BeginRound(d) \/ \E e \in Devices \ {d} : Contact(d, e)
Finishes(d) == RenameEntry(d) \/ EndLeave(d) \/ \E e \in Devices \ {d} : SayGoodbye(d, e)

\* Devices check on each other every minute, an exchange that is not lost ends,
\* and so does a call.  Nobody is obliged to pair, rename or remove anything.
\* (The subscripts are what such a step always changes, if it changes anything.)
FairSpec == Spec /\ \A d \in Devices : /\ WF_<<plan, wire>>(Rounds(d))
                                       /\ WF_<<mid, farewell, wire>>(Finishes(d))

-----------------------------------------------------------------------------
(* Properties.                                                             *)

\* Every variable keeps its type.
TypeOK ==
    /\ now \in Nat
    /\ roster \in [Devices -> Rosters \cup {None}]
    /\ name \in [Devices -> Names]
    /\ mid \in [Devices -> BOOLEAN]
    /\ minted \in [Devices -> Seq(Nat)]
    /\ pending \in [Devices -> Nat]
    /\ \A d \in Devices : pending[d] <= Len(minted[d])
    /\ plan \in [Devices -> SUBSET Devices]
    /\ farewell \in [Devices -> [parts : Rosters, peers : SUBSET Devices] \cup {None}]
    /\ wire \in [Line -> [step : Steps, parts : Rosters \cup {None}, token : Nat,
                          name : Names \cup {None}]]
    /\ \A l \in Line : wire[l].step = "answered" => wire[l].parts # None
    /\ \A l \in Line : l[3] # "join" /\ wire[l].step \in {"asked", "admitted"}
            => wire[l].parts # None
    /\ \A l \in Line : l[3] = "join" /\ wire[l].step \in {"asked", "admitted"}
            => wire[l].name # None
    /\ decided \in SUBSET Devices
    /\ gone \in SUBSET (Devices \X Devices)
    /\ again \in [Devices -> Nat]
    /\ knows \in [Devices -> [Devices -> Nat]]

\* No roster, kept or sent, says of a device that it is a member and removed:
\* whichever way devices pair, rename, remove and sync, the contradiction that
\* a later merge can read either way does not come about (#166).
NotBoth ==
    /\ \A d \in Devices : roster[d] # None => Consistent(roster[d])
    /\ \A d \in Devices : farewell[d] # None => Consistent(farewell[d].parts)
    /\ \A l \in Line : wire[l].parts # None => Consistent(wire[l].parts)

\* A roster holds no tombstone from the future of its device, so a record that
\* the device signs now beats whatever tombstone it holds: Roster::invite
\* removes it without a look.
StonesPast ==
    \A d, e \in Devices : roster[d] # None => roster[d].revoked[e] <= Clock(d)

\* A tombstone is a decision: no roster holds one against a device that nobody
\* removed and that did not leave, whatever refusals devices got (#166).
GuessStaysLocal ==
    \A d, e \in Devices :
        roster[d] # None /\ roster[d].revoked[e] # 0 => e \in decided

\* A device whose removal another has heard of is not brought back there by an
\* old record, still held by a third that has not heard: only a record as new
\* as the removal does that (merge_at, do_join #76).
NoResurrection ==
    \A d, e \in Devices :
        roster[d] # None /\ Current(roster[d], e) => knows[d][e] = 0

\* A member's record is never replaced by one for an older membership, which
\* an old tombstone could beat: what a merge takes from an older record is its
\* label at most.
JoinNeverBack ==
    [][ \A d, e \in Devices :
            /\ roster[d] # None /\ roster'[d] # None
            /\ Current(roster[d], e) /\ Current(roster'[d], e)
            => roster'[d].members[e].joined >= roster[d].members[e].joined ]_vars

\* A device that was removed and then invited again stays: where its new
\* record is held, no tombstone from before takes it away.
ReinviteSticks ==
    [][ \A d, e \in Devices :
            /\ again[e] # 0 /\ again'[e] = again[e]
            /\ roster[d] # None /\ roster'[d] # None
            /\ Current(roster[d], e) /\ roster[d].members[e].joined = again[e]
            => roster'[d].revoked[e] = 0 ]_vars

\* A device that removed another does not list it while nobody invites it.
RemovedStaysOut ==
    \A p \in gone : roster[p[1]] # None => ~Current(roster[p[1]], p[2])

\* Of two devices that sync, it does not matter which one merges: either way
\* the roster is the same.
OrderFree ==
    \A r, s \in {roster[d] : d \in Devices} \ {None} :
        Merge(r, Snapshot(s), now) = Merge(s, Snapshot(r), now)

\* A removal reaches every member: when nobody is invited, a device that was
\* removed is in the end, and for good, listed by none that is still wanted.
RevocationSpreads ==
    <>[](\A e \in decided : \A d \in Devices \ decided :
            roster[d] = None \/ ~Current(roster[d], e))

\* A device that left a space is in the end listed by none of the others.
LeaverForgotten ==
    \A e \in Devices :
        roster[e] = None ~> \/ roster[e] # None
                            \/ \A d \in Devices : roster[d] = None \/ ~Current(roster[d], e)

\* In the end all members call every member by the name it has given itself.
NamesSettle ==
    <>[](\A d, e \in Devices :
            /\ roster[d] # None /\ roster[e] # None
            /\ Current(roster[d], e) /\ Current(roster[e], d)
            => roster[d].members[e].name = name[e])
=============================================================================
