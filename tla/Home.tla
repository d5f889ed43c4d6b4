-------------------------------- MODULE Home --------------------------------
(***************************************************************************)
(* The spaces one device belongs to, the one invite it has open, and what  *)
(* of both is on disk: core/spaces.rs, core/ticket.rs and the handlers of  *)
(* core/node.rs that change them.  Each request of the CLI or the app is   *)
(* served by a task of its own, so a handler that takes a lock twice meets *)
(* the others in between.  An action is one critical section (of `spaces`, *)
(* of `pending`), or one step on the ticket's file, which no lock guards.  *)
(***************************************************************************)
EXTENDS Naturals, FiniteSets

CONSTANTS Own,          \* ids of spaces this device may found
          Foreign,      \* ids of spaces other devices founded
          Labels,       \* what a person may call a space
          Legal,        \* those that set_label takes
          Counter,      \* space-2, space-3, ...
          Trim,         \* a label without the blanks around it
          Peers,        \* other devices
          Tickets,      \* tokens of invites (bounds the invites)
          Clients,      \* connections of the CLI and the app
          May,          \* the requests each of them makes
          Most,         \* and how many (bounds the requests)
          Faults,       \* "save": spaces.cbor, "unlink": invite.json is not removed
          None

Ids == Own \cup Foreign
Requests == {"new", "default", "rename", "join", "invite", "revoke", "mute",
             "leave", "rotate", "drop"}
Departing == {"leave", "rotate", "drop"}

ASSUME HomeAssumption ==
    /\ Own \cap Foreign = {} /\ Own # {}
    /\ Legal \subseteq Labels /\ Counter \subseteq Legal
    /\ Trim \in [Labels -> Labels] /\ \A l \in Legal : Trim[l] = l
    /\ May \in [Clients -> SUBSET Requests] /\ Most \in [Clients -> Nat]
    /\ Faults \subseteq {"save", "unlink"}
    /\ None \notin Ids \cup Labels \cup Tickets \cup Peers

VARIABLES
    spaces,     \* Shared.spaces: what is held, its labels, members, the default
    disk,       \* spaces.cbor
    over,       \* the spaces that are muted, None for the device (policy.json)
    pending,    \* Shared.pending: the open invite
    tmp, file,  \* invite.json.tmp and invite.json
    task,       \* what each client's handler is doing
    left,       \* how many requests each client still makes
    knock,      \* what each peer's attempt to join is doing
    names,      \* the space each minted ticket names, None before that
    expired     \* tickets past their lifetime

VARIABLES       \* history
    admitted,   \* [ticket, peer, space]: who got in with what
    unsaved     \* the last change of `spaces` was answered with an error

node == <<spaces, disk, over, pending, tmp, file>>
world == <<names, expired, admitted, unsaved>>
vars == <<node, task, left, knock, world>>

(***************************************************************************)
(* core/spaces.rs                                                          *)
(***************************************************************************)
Held(S) == DOMAIN S.label
Free(S, l, i) == \A j \in Held(S) : S.label[j] = l => j = i
Sound(S) ==
    /\ S.def \in Held(S)
    /\ \A i, j \in Held(S) : S.label[i] = S.label[j] => i = j

Put(f, i, v) == [j \in DOMAIN f \cup {i} |-> IF j = i THEN v ELSE f[j]]
Drop(f, i) == [j \in DOMAIN f \ {i} |-> f[j]]

Insert(S, i, l, P) ==
    [S EXCEPT !.label = Put(@, i, l), !.peers = Put(@, i, P)]

Replace(S, i, n, P) ==
    [label |-> Put(Drop(S.label, i), n, S.label[i]),
     peers |-> Put(Drop(S.peers, i), n, P),
     def   |-> IF S.def = i THEN n ELSE S.def]

\* The first key that is left, in an order that says nothing.
Remove(S, i) ==
    {[label |-> Drop(S.label, i), peers |-> Drop(S.peers, i), def |-> d] :
        d \in IF S.def = i THEN Held(S) \ {i} ELSE {S.def}}

Settable(S, i, l) == Trim[l] \in Legal /\ Free(S, Trim[l], i) /\ i \in Held(S)
SetLabel(S, i, l) == IF Settable(S, i, l) THEN [S EXCEPT !.label[i] = Trim[l]] ELSE S

Unshared(S) == S.peers[S.def] = {}

\* Mutant: a label that another space bears is as good as any.
UsableTaken(S, i, l) == l # None /\ Trim[l] \in Legal

\* pick_space_label: the person's choice, what the host calls it, a number.
Usable(S, i, l) == l # None /\ Trim[l] \in Legal /\ Free(S, Trim[l], i)
LabelFor(S, i, wanted, theirs) ==
    IF Usable(S, i, wanted) THEN {Trim[wanted]}
    ELSE IF Usable(S, i, theirs) THEN {Trim[theirs]}
    ELSE {l \in Counter : \A j \in Held(S) : S.label[j] # l}

-----------------------------------------------------------------------------
Spaces == [label : UNION {[D -> Labels] : D \in SUBSET Ids},
           peers : UNION {[D -> SUBSET Peers] : D \in SUBSET Ids},
           def   : Ids]
Idle == [at |-> "idle", req |-> None, arg |-> None, space |-> None, ticket |-> None]
Places == {"idle", "take", "unlink", "resolve", "write", "rename", "open",
           "farewell", "finish", "joining"}

TypeOK ==
    /\ spaces \in Spaces /\ disk \in Spaces
    /\ over \subseteq Ids \cup {None}
    /\ {pending, tmp, file} \subseteq Tickets \cup {None}
    /\ task \in [Clients -> [at : Places, req : Requests \cup {None},
                             arg : Labels \cup {None}, space : Ids \cup {None},
                             ticket : Tickets \cup {None}]]
    /\ knock \in [Peers -> [ticket : Tickets, space : Ids] \cup {None}]
    /\ left \in [Clients -> Nat]
    /\ names \in [Tickets -> Ids \cup {None}]
    /\ expired \subseteq Tickets
    /\ admitted \subseteq [ticket : Tickets, peer : Peers, space : Ids]
    /\ unsaved \in BOOLEAN

-----------------------------------------------------------------------------
Lone(i, l) == [label |-> [j \in {i} |-> l], peers |-> [j \in {i} |-> {}], def |-> i]

\* A device with one space or with two, one of which another device founded.
Init ==
    /\ \E i \in Own, l \in Legal \ Counter :
          \/ spaces = Lone(i, l)
          \/ \E f \in Foreign, k \in Legal \ {l}, P \in SUBSET Peers :
                P # {} /\ spaces = Insert(Lone(i, l), f, k, P)
    /\ disk = spaces
    /\ over = {}
    /\ pending = None /\ tmp = None /\ file = None
    /\ task = [c \in Clients |-> Idle]
    /\ left = Most
    /\ knock = [p \in Peers |-> None]
    /\ names = [t \in Tickets |-> None]
    /\ expired = {} /\ admitted = {} /\ unsaved = FALSE

\* A changed value of `spaces` is saved under the lock; a failure is answered
\* with an error, and memory keeps the change.
Change(S) ==
    /\ spaces' = S
    /\ \E ok \in IF "save" \in Faults THEN BOOLEAN ELSE {TRUE} :
          /\ disk' = IF ok THEN S ELSE disk
          /\ unsaved' = ~ok

Forget(f) == f' \in {None} \cup (IF "unlink" \in Faults THEN {f} ELSE {})

Fresh == Own \ (Held(spaces) \cup Held(disk)
                \cup {i \in Own : \E t \in Tickets : names[t] = i}
                \cup {i \in Own : \E c \in Clients : task[c].space = i})

At(c, place) == task[c].at = place
Go(c, place) == task' = [task EXCEPT ![c].at = place]
Done(c) == task' = [task EXCEPT ![c] = Idle]
Asks(c, r) ==
    /\ task[c] = Idle /\ r \in May[c] /\ left[c] > 0
    /\ left' = [left EXCEPT ![c] = @ - 1]
Called(l) == {i \in Held(spaces) : spaces.label[i] = l}

-----------------------------------------------------------------------------
(* Requests that are one critical section. *)

\* new_space: inserted under the name as given, then named, then saved.
New(c, l) ==
    /\ Asks(c, "new") /\ Called(l) = {}
    /\ \E i \in Fresh :
          LET S == Insert(spaces, i, l, {}) IN
          IF Settable(S, i, l)
            THEN Change([SetLabel(S, i, l) EXCEPT !.def = i])
            ELSE spaces' = S /\ disk' = disk /\ unsaved' = TRUE
    /\ UNCHANGED <<over, pending, tmp, file, task, knock, names, expired, admitted>>

Default(c, i) ==
    /\ Asks(c, "default") /\ i \in Held(spaces)
    /\ Change([spaces EXCEPT !.def = i])
    /\ UNCHANGED <<over, pending, tmp, file, task, knock, names, expired, admitted>>

Rename(c, i, l) ==
    /\ Asks(c, "rename") /\ Settable(spaces, i, l)
    /\ Change(SetLabel(spaces, i, l))
    /\ UNCHANGED <<over, pending, tmp, file, task, knock, names, expired, admitted>>

-----------------------------------------------------------------------------
(* Requests that let go of a lock on their way. *)

Begin(c, r, l) ==
    /\ Asks(c, r) /\ r \in Departing \cup {"invite", "revoke", "mute"}
    /\ (l = None => r # "drop")
    /\ task' = [task EXCEPT ![c] = [Idle EXCEPT !.req = r, !.arg = l,
                    !.at = IF r \in Departing THEN "take" ELSE "resolve"]]
    /\ UNCHANGED <<node, knock, world>>

\* cancel_open_invite: the field under its lock, then the file.
TakeInvite(c) ==
    /\ At(c, "take")
    /\ pending' = None
    /\ Go(c, "unlink")
    /\ UNCHANGED <<spaces, disk, over, tmp, file, left, knock, world>>

Unlink(c) ==
    /\ At(c, "unlink")
    /\ Forget(file)
    /\ Go(c, "resolve")
    /\ UNCHANGED <<spaces, disk, over, pending, tmp, left, knock, world>>

\* space_named, policy_target: what is meant when nothing is named is the default
\* space, or the whole device if it is to be muted; an unknown name ends the request.
Meant(c) ==
    IF task[c].arg # None THEN Called(task[c].arg)
    ELSE IF task[c].req = "mute" THEN {None} ELSE {spaces.def}

Resolve(c) ==
    /\ At(c, "resolve") /\ task[c].req # "drop"
    /\ \/ Meant(c) = {} /\ Done(c) /\ UNCHANGED names
       \/ \E i \in Meant(c) :
            \/ /\ task[c].req = "invite"
               /\ \E t \in Tickets :
                     /\ names[t] = None
                     /\ names' = [names EXCEPT ![t] = i]
                     /\ task' = [task EXCEPT ![c].at = "write", ![c].space = i,
                                             ![c].ticket = t]
            \/ /\ task[c].req # "invite"
               /\ task' = [task EXCEPT ![c].space = i,
                     ![c].at = IF task[c].req = "leave" THEN "farewell" ELSE "finish"]
               /\ UNCHANGED names
    /\ UNCHANGED <<node, left, knock, expired, admitted, unsaved>>

\* Ticket::remember_in: a temporary file of one name for all, then its rename.
WriteTicket(c) ==
    /\ At(c, "write")
    /\ tmp' = task[c].ticket
    /\ Go(c, "rename")
    /\ UNCHANGED <<spaces, disk, over, pending, file, left, knock, world>>

RenameTicket(c) ==
    /\ At(c, "rename")
    /\ file' = IF tmp = None THEN file ELSE tmp
    /\ tmp' = None
    /\ Go(c, "open")
    /\ UNCHANGED <<spaces, disk, over, pending, left, knock, world>>

OpenInvite(c) ==
    /\ At(c, "open")
    /\ pending' = task[c].ticket
    /\ Done(c)
    /\ UNCHANGED <<spaces, disk, over, tmp, file, left, knock, world>>

Revoke(c) ==
    /\ At(c, "finish") /\ task[c].req = "revoke"
    /\ LET i == task[c].space IN
       \/ /\ i \in Held(spaces)
          /\ \E p \in spaces.peers[i] : Change([spaces EXCEPT !.peers[i] = @ \ {p}])
       \/ /\ (i \in Held(spaces) => spaces.peers[i] = {})
          /\ UNCHANGED <<spaces, disk, unsaved>>
    /\ Done(c)
    /\ UNCHANGED <<over, pending, tmp, file, left, knock, names, expired, admitted>>

\* set_mute and set_quiet of one space or of the device, or lifting it.
Mute(c) ==
    /\ At(c, "finish") /\ task[c].req = "mute"
    /\ over' \in {over \cup {task[c].space}, over \ {task[c].space}}
    /\ Done(c)
    /\ UNCHANGED <<spaces, disk, pending, tmp, file, left, knock, world>>

\* Mutants: the new space keeps the members of the old one; or the default is
\* rotated, whatever was named.
RotateKeeps(c) ==
    /\ At(c, "finish") /\ task[c].req = "rotate"
    /\ LET i == task[c].space IN
       /\ i \in Held(spaces)
       /\ \E n \in Fresh : Change(Replace(spaces, i, n, spaces.peers[i]))
       /\ over' = over \ {i}
    /\ Done(c)
    /\ UNCHANGED <<pending, tmp, file, left, knock, names, expired, admitted>>
RotateDefault(c) ==
    /\ At(c, "finish") /\ task[c].req = "rotate"
    /\ \E n \in Fresh : Change(Replace(spaces, spaces.def, n, {}))
    /\ over' = over \ {task[c].space}
    /\ Done(c)
    /\ UNCHANGED <<pending, tmp, file, left, knock, names, expired, admitted>>

Rotate(c) ==
    /\ At(c, "finish") /\ task[c].req = "rotate"
    /\ LET i == task[c].space IN
       \/ /\ i \notin Held(spaces)
          /\ UNCHANGED <<spaces, disk, over, unsaved>>
       \/ /\ i \in Held(spaces)
          /\ \E n \in Fresh : Change(Replace(spaces, i, n, {}))
          /\ over' = IF unsaved' THEN over ELSE over \ {i}
    /\ Done(c)
    /\ UNCHANGED <<pending, tmp, file, left, knock, names, expired, admitted>>

\* leave: looks the space up again, tells its members (outside any lock) ...
Farewell(c) ==
    /\ At(c, "farewell")
    /\ IF task[c].space \in Held(spaces) THEN Go(c, "finish") ELSE Done(c)
    /\ UNCHANGED <<node, left, knock, world>>

\* ... and then gives up the space, or the default one if there is only one.
EndLeave(c) ==
    /\ At(c, "finish") /\ task[c].req = "leave"
    /\ LET i == task[c].space IN
       \/ /\ Cardinality(Held(spaces)) <= 1
          /\ \E n \in Fresh : Change(Replace(spaces, spaces.def, n, {}))
          /\ over' = over \ {i}
       \/ /\ Cardinality(Held(spaces)) > 1 /\ i \in Held(spaces)
          /\ \E S \in Remove(spaces, i) : Change(S)
          /\ over' = over \ {i}
       \/ /\ Cardinality(Held(spaces)) > 1 /\ i \notin Held(spaces)
          /\ UNCHANGED <<spaces, disk, over, unsaved>>
    /\ Done(c)
    /\ UNCHANGED <<pending, tmp, file, left, knock, names, expired, admitted>>

\* leave_space: the label is looked up under the lock that removes it.
DropSpace(c) ==
    /\ At(c, "resolve") /\ task[c].req = "drop"
    /\ \/ /\ Cardinality(Held(spaces)) > 1
          /\ \E i \in Called(task[c].arg) :
                /\ \E S \in Remove(spaces, i) : Change(S)
                /\ over' = over \ {i}
       \/ /\ Cardinality(Held(spaces)) <= 1 \/ Called(task[c].arg) = {}
          /\ UNCHANGED <<spaces, disk, over, unsaved>>
    /\ Done(c)
    /\ UNCHANGED <<pending, tmp, file, left, knock, names, expired, admitted>>

\* join: everything up to the reply needs no lock.
StartJoin(c, f, wanted) ==
    /\ Asks(c, "join")
    /\ task' = [task EXCEPT ![c] = [Idle EXCEPT !.req = "join", !.at = "joining",
                                                !.space = f, !.arg = wanted]]
    /\ UNCHANGED <<node, knock, world>>

\* do_join: the space founded at first start gives way, a shared one never.
FinishJoin(c, theirs, P) ==
    /\ At(c, "joining") /\ P # {}
    /\ LET f == task[c].space
           all == P \cup (IF f \in Held(spaces) THEN spaces.peers[f] ELSE {}) IN
       \E l \in LabelFor(spaces, f, task[c].arg, theirs) :
          Change(SetLabel(IF Unshared(spaces) THEN Replace(spaces, spaces.def, f, all)
                                              ELSE Insert(spaces, f, l, all), f, l))
    /\ Done(c)
    /\ UNCHANGED <<over, pending, tmp, file, left, knock, names, expired, admitted>>

-----------------------------------------------------------------------------
(* Other devices. *)

\* Mutant: the file of a ticket stays when it is used.
ConsumeKept(p, t) ==
    /\ knock[p] = None /\ pending = t /\ t # None /\ t \notin expired
    /\ pending' = None
    /\ knock' = [knock EXCEPT ![p] = [ticket |-> t, space |-> names[t]]]
    /\ UNCHANGED <<spaces, disk, over, tmp, file, task, left, world>>

\* accept_join under `pending`: a ticket is used up before it is acted on.
Consume(p, t) ==
    /\ knock[p] = None /\ pending = t /\ t # None /\ t \notin expired
    /\ pending' = None /\ Forget(file)
    /\ knock' = [knock EXCEPT ![p] = [ticket |-> t, space |-> names[t]]]
    /\ UNCHANGED <<spaces, disk, over, tmp, task, left, world>>

TooLate(p) ==
    /\ knock[p] = None /\ pending # None /\ pending \in expired
    /\ pending' = None /\ Forget(file)
    /\ UNCHANGED <<spaces, disk, over, tmp, task, left, knock, world>>

\* Mutant: where the ticket's space is gone, into the default one.
AdmitAnywhere(p) ==
    /\ knock[p] # None
    /\ LET k == knock[p]
           i == IF k.space \in Held(spaces) THEN k.space ELSE spaces.def IN
       /\ Change([spaces EXCEPT !.peers[i] = @ \cup {p}])
       /\ admitted' = admitted \cup {[ticket |-> k.ticket, peer |-> p, space |-> i]}
    /\ knock' = [knock EXCEPT ![p] = None]
    /\ UNCHANGED <<over, pending, tmp, file, task, left, names, expired>>

\* ... and under `spaces`: into the space the ticket names, or nowhere.
Admit(p) ==
    /\ knock[p] # None
    /\ LET k == knock[p] IN
       \/ /\ k.space \in Held(spaces)
          /\ Change([spaces EXCEPT !.peers[k.space] = @ \cup {p}])
          /\ admitted' = admitted \cup {[ticket |-> k.ticket, peer |-> p, space |-> k.space]}
       \/ /\ k.space \notin Held(spaces)
          /\ UNCHANGED <<spaces, disk, admitted, unsaved>>
    /\ knock' = [knock EXCEPT ![p] = None]
    /\ UNCHANGED <<over, pending, tmp, file, task, left, names, expired>>

\* merge_from_peer, and a refused sync: members come and go while there are any.
Hear(i, P) ==
    /\ i \in Held(spaces) /\ spaces.peers[i] \notin {{}, P}
    /\ Change([spaces EXCEPT !.peers[i] = P])
    /\ UNCHANGED <<over, pending, tmp, file, task, left, knock, names, expired, admitted>>

Expire(t) ==
    /\ names[t] # None /\ t \notin expired
    /\ expired' = expired \cup {t}
    /\ UNCHANGED <<node, task, left, knock, names, admitted, unsaved>>

\* Node::new_in: Spaces::load and Ticket::recall_in.
Reboot ==
    /\ spaces' = disk
    /\ pending' = IF file \in expired THEN None ELSE file
    /\ file' = IF file \in expired THEN None ELSE file
    /\ task' = [c \in Clients |-> Idle]
    /\ knock' = [p \in Peers |-> None]
    /\ unsaved' = FALSE
    /\ UNCHANGED <<left, disk, tmp, names, expired, admitted>>

Restart == Reboot /\ UNCHANGED over

\* The process dies in leave or leave_space after policy.json, before spaces.cbor.
DieLeaving(c) ==
    /\ \/ At(c, "finish") /\ task[c].req = "leave" /\ over' = over \ {task[c].space}
       \/ /\ At(c, "resolve") /\ task[c].req = "drop" /\ Cardinality(Held(spaces)) > 1
          /\ \E i \in Called(task[c].arg) : over' = over \ {i}
    /\ Reboot

-----------------------------------------------------------------------------
Ask(c) ==
    \/ \E l \in Labels : New(c, l)
    \/ \E i \in Ids : Default(c, i)
    \/ \E i \in Ids, l \in Labels : Rename(c, i, l)
    \/ \E r \in Requests, l \in Labels \cup {None} : Begin(c, r, l)
    \/ \E f \in Foreign, l \in Labels \cup {None} : StartJoin(c, f, l)

Serve(c) ==
    \/ TakeInvite(c) \/ Unlink(c) \/ Resolve(c)
    \/ WriteTicket(c) \/ RenameTicket(c) \/ OpenInvite(c)
    \/ Revoke(c) \/ Mute(c) \/ Rotate(c) \/ Farewell(c) \/ EndLeave(c) \/ DropSpace(c)
    \/ \E l \in Labels \cup {None}, P \in SUBSET Peers : FinishJoin(c, l, P)
    \/ DieLeaving(c)

Elsewhere ==
    \/ \E p \in Peers, t \in Tickets : Consume(p, t)
    \/ \E p \in Peers : TooLate(p) \/ Admit(p)
    \/ \E i \in Ids, P \in SUBSET Peers : Hear(i, P)
    \/ \E t \in Tickets : Expire(t)
    \/ Restart

Next == (\E c \in Clients : Ask(c) \/ Serve(c)) \/ Elsewhere
Spec == Init /\ [][Next]_vars

-----------------------------------------------------------------------------
(* Properties. *)

\* Labels tell spaces apart and the default is held, in memory and in what a
\* crash would leave (a label qualifies device names; a bare name needs the
\* default); and these two differ only after an answer that said so.  Every handler
\* that removes, re-keys or names a space could break it.
SpacesSound == Sound(spaces) /\ Sound(disk) /\ (spaces # disk => unsaved)

\* A device is let in only where the ticket it used said, whatever was rotated,
\* left, made the default or restarted since the ticket was shown.
AdmittedAsNamed == \A a \in admitted : a.space = names[a.ticket]

\* A ticket lets in one device once: used, it is not open again, across restarts
\* and with any number of invites and cancellations crossing on the one file.
SingleUse ==
    /\ \A a \in admitted : pending # a.ticket
    /\ \A a, b \in admitted : a.ticket = b.ticket => a = b
    /\ \A p \in Peers : knock[p] # None => pending # knock[p].ticket

\* Nobody is in a space founded here unless a ticket for it was used: what
\* rotating is for.
InvitedIn ==
    \A i \in Own \cap Held(spaces) :
        spaces.peers[i] # {} => \E a \in admitted : a.space = i

\* A space goes only with a request for it, or because it was the unshared
\* default when another was joined; a restart may take one that was not saved.
Aims(c, i) ==
    \/ task[c].req \in {"leave", "rotate"} /\ At(c, "finish") /\ task[c].space = i
    \/ task[c].req = "drop" /\ At(c, "resolve") /\ i \in Called(task[c].arg)
    \/ At(c, "joining") /\ i = spaces.def /\ Unshared(spaces)
OthersStay ==
    [][spaces' # disk => \A i \in Held(spaces) \ Held(spaces') :
            \E c \in Clients : Aims(c, i) /\ task'[c] = Idle]_vars

\* An invite that is open survives a restart, unless it is just being written or
\* cancelled.
OpenIsRemembered ==
    (\A c \in Clients : task[c].at \notin {"write", "rename", "open", "unlink"})
        => pending \in {file, None}

\* A space stays muted until somebody lifts it or gives the space up, and the
\* device until somebody lifts it.
MuteSticks ==
    [][\A i \in over \ over' :
          i \notin Held(disk') \cup {None}
          \/ \E c \in Clients : task[c].req = "mute" /\ task'[c] = Idle]_vars

=============================================================================
