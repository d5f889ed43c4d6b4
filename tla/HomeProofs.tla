------------------------------ MODULE HomeProofs ------------------------------
(***************************************************************************)
(* What holds of the spaces and the invites of one device for any spaces,  *)
(* labels, tickets, peers and clients, and any number of requests.         *)
(***************************************************************************)
EXTENDS Home, FiniteSetTheorems, TLAPS

\* Which spaces founded here somebody was admitted to, as far as S tells.
Owned(S, A) == \A i \in Own \cap Held(S) : S.peers[i] # {} => i \in A
Given == {a.space : a \in admitted}

Good(S, A) == /\ S \in Spaces /\ DOMAIN S.peers = Held(S)
              /\ Sound(S) /\ Owned(S, A)

BookInv == /\ Good(spaces, Given) /\ Good(disk, Given)
           /\ spaces # disk => unsaved

-----------------------------------------------------------------------------
(* Spaces: what each operation keeps.                                      *)

LEMMA SpacesHave ==
    ASSUME NEW S \in Spaces
    PROVE  /\ Held(S) \in SUBSET Ids
           /\ S.label \in [Held(S) -> Labels]
           /\ DOMAIN S.peers \in SUBSET Ids
           /\ S.peers \in [DOMAIN S.peers -> SUBSET Peers]
           /\ S.def \in Ids
           /\ S = [label |-> S.label, peers |-> S.peers, def |-> S.def]
  <1>1. /\ S.label \in UNION {[D -> Labels] : D \in SUBSET Ids}
        /\ S.peers \in UNION {[D -> SUBSET Peers] : D \in SUBSET Ids}
        /\ S.def \in Ids
        /\ S = [label |-> S.label, peers |-> S.peers, def |-> S.def]
    BY DEF Spaces
  <1>2. PICK D \in SUBSET Ids : S.label \in [D -> Labels]
    BY <1>1
  <1>3. PICK E \in SUBSET Ids : S.peers \in [E -> SUBSET Peers]
    BY <1>1
  <1> QED BY <1>1, <1>2, <1>3 DEF Held

LEMMA SpacesMake ==
    ASSUME NEW D \in SUBSET Ids, NEW l \in [D -> Labels],
           NEW E \in SUBSET Ids, NEW p \in [E -> SUBSET Peers], NEW d \in Ids
    PROVE  [label |-> l, peers |-> p, def |-> d] \in Spaces
  <1>1. l \in UNION {[B -> Labels] : B \in SUBSET Ids}
    OBVIOUS
  <1>2. p \in UNION {[B -> SUBSET Peers] : B \in SUBSET Ids}
    OBVIOUS
  <1> QED BY <1>1, <1>2 DEF Spaces

\* A value with these three parts is good if its parts are.
LEMMA GoodMake ==
    ASSUME NEW A, NEW D \in SUBSET Ids, NEW l \in [D -> Labels],
           NEW p \in [D -> SUBSET Peers], NEW d \in D,
           \A i, j \in D : l[i] = l[j] => i = j,
           \A i \in Own \cap D : p[i] # {} => i \in A
    PROVE  Good([label |-> l, peers |-> p, def |-> d], A)
  <1> DEFINE S == [label |-> l, peers |-> p, def |-> d]
  <1>1. S \in Spaces
    BY SpacesMake
  <1>2. S.label = l /\ S.peers = p /\ S.def = d /\ DOMAIN l = D /\ DOMAIN p = D
    OBVIOUS
  <1>3. Sound(S) /\ Owned(S, A) /\ DOMAIN S.peers = Held(S)
    BY <1>2 DEF Sound, Owned, Held
  <1> QED BY <1>1, <1>3 DEF Good

LEMMA GoodHave ==
    ASSUME NEW A, NEW S, Good(S, A)
    PROVE  /\ S \in Spaces
           /\ Held(S) \in SUBSET Ids
           /\ S.label \in [Held(S) -> Labels]
           /\ S.peers \in [Held(S) -> SUBSET Peers]
           /\ S.def \in Held(S)
           /\ S = [label |-> S.label, peers |-> S.peers, def |-> S.def]
           /\ \A i, j \in Held(S) : S.label[i] = S.label[j] => i = j
           /\ \A i \in Own \cap Held(S) : S.peers[i] # {} => i \in A
  BY SpacesHave DEF Good, Sound, Owned

LEMMA GoodGrows ==
    ASSUME NEW A, NEW B, NEW S, Good(S, A), A \subseteq B
    PROVE  Good(S, B)
  BY DEF Good, Owned

LEMMA InsertGood ==
    ASSUME NEW A, NEW S, Good(S, A), NEW i \in Ids, NEW l \in Labels,
           NEW P \in SUBSET Peers, Free(S, l, i), i \in Own /\ P # {} => i \in A
    PROVE  Good(Insert(S, i, l, P), A)
  <1> DEFINE D == Held(S) \cup {i}
             lab == Put(S.label, i, l)
             peo == Put(S.peers, i, P)
  <1>0. S = [label |-> S.label, peers |-> S.peers, def |-> S.def]
    BY GoodHave
  <1>1. Insert(S, i, l, P) = [label |-> lab, peers |-> peo, def |-> S.def]
    <2>1. PICK a, b, d : S = [label |-> a, peers |-> b, def |-> d]
      BY <1>0
    <2>2. S.label = a /\ S.peers = b /\ S.def = d
      BY <2>1
    <2>3. Insert(S, i, l, P) = [S EXCEPT !.label = lab, !.peers = peo]
      BY DEF Insert
    <2> HIDE DEF lab, peo
    <2> QED BY <2>1, <2>2, <2>3
  <1>2. D \in SUBSET Ids /\ lab \in [D -> Labels] /\ peo \in [D -> SUBSET Peers]
    BY GoodHave DEF Put
  <1>3. \A j \in D : /\ lab[j] = IF j = i THEN l ELSE S.label[j]
                     /\ peo[j] = IF j = i THEN P ELSE S.peers[j]
    BY GoodHave DEF Put
  <1>4. \A j, k \in D : lab[j] = lab[k] => j = k
    BY <1>3, GoodHave DEF Free
  <1>5. \A j \in Own \cap D : peo[j] # {} => j \in A
    BY <1>3, GoodHave
  <1>6. S.def \in D
    BY GoodHave
  <1> HIDE DEF D, lab, peo
  <1> QED BY <1>1, <1>2, <1>4, <1>5, <1>6, GoodMake

LEMMA ReplaceGood ==
    ASSUME NEW A, NEW S, Good(S, A), NEW i \in Held(S), NEW n \in Ids,
           NEW P \in SUBSET Peers, n \in Own /\ P # {} => n \in A
    PROVE  Good(Replace(S, i, n, P), A)
  <1> DEFINE D == (Held(S) \ {i}) \cup {n}
             lab == Put(Drop(S.label, i), n, S.label[i])
             peo == Put(Drop(S.peers, i), n, P)
             def == IF S.def = i THEN n ELSE S.def
  <1>1. Replace(S, i, n, P) = [label |-> lab, peers |-> peo, def |-> def]
    BY DEF Replace
  <1>2. D \in SUBSET Ids /\ lab \in [D -> Labels] /\ peo \in [D -> SUBSET Peers]
    BY GoodHave DEF Put, Drop
  <1>3. \A j \in D : /\ lab[j] = IF j = n THEN S.label[i] ELSE S.label[j]
                     /\ peo[j] = IF j = n THEN P ELSE S.peers[j]
    BY GoodHave DEF Put, Drop
  <1>4. \A j, k \in D : lab[j] = lab[k] => j = k
    BY <1>3, GoodHave
  <1>5. \A j \in Own \cap D : peo[j] # {} => j \in A
    BY <1>3, GoodHave
  <1>6. def \in D
    BY GoodHave
  <1> HIDE DEF D, lab, peo, def
  <1> QED BY <1>1, <1>2, <1>4, <1>5, <1>6, GoodMake

LEMMA RemoveGood ==
    ASSUME NEW A, NEW S, Good(S, A), NEW i \in Held(S), NEW T \in Remove(S, i)
    PROVE  Good(T, A)
  <1>1. PICK d \in IF S.def = i THEN Held(S) \ {i} ELSE {S.def} :
            T = [label |-> Drop(S.label, i), peers |-> Drop(S.peers, i), def |-> d]
    BY DEF Remove
  <1> DEFINE D == Held(S) \ {i}
             lab == Drop(S.label, i)
             peo == Drop(S.peers, i)
  <1>2. D \in SUBSET Ids /\ lab \in [D -> Labels] /\ peo \in [D -> SUBSET Peers] /\ d \in D
    BY <1>1, GoodHave DEF Drop
  <1>3. \A j \in D : lab[j] = S.label[j] /\ peo[j] = S.peers[j]
    BY GoodHave DEF Drop
  <1>4. \A j, k \in D : lab[j] = lab[k] => j = k
    BY <1>3, GoodHave
  <1>5. \A j \in Own \cap D : peo[j] # {} => j \in A
    BY <1>3, GoodHave
  <1> HIDE DEF D, lab, peo
  <1> QED BY <1>1, <1>2, <1>4, <1>5, GoodMake DEF lab, peo

LEMMA SetLabelGood ==
    ASSUME NEW A, NEW S, Good(S, A), NEW i, NEW l \in Labels
    PROVE  Good(SetLabel(S, i, l), A)
  <1>1. CASE ~Settable(S, i, l)
    BY <1>1 DEF SetLabel
  <1>2. CASE Settable(S, i, l)
    <2> DEFINE lab == [S.label EXCEPT ![i] = Trim[l]]
    <2>1. SetLabel(S, i, l) = [label |-> lab, peers |-> S.peers, def |-> S.def]
      BY <1>2, GoodHave DEF SetLabel
    <2>2. i \in Held(S) /\ lab \in [Held(S) -> Labels]
      BY <1>2, GoodHave, HomeAssumption DEF Settable
    <2>3. \A j, k \in Held(S) : lab[j] = lab[k] => j = k
      BY <1>2, <2>2, GoodHave DEF Settable, Free
    <2> HIDE DEF lab
    <2> QED BY <2>1, <2>2, <2>3, GoodHave, GoodMake
  <1> QED BY <1>1, <1>2

LEMMA PeersGood ==
    ASSUME NEW A, NEW S, Good(S, A), NEW i \in Held(S), NEW P \in SUBSET Peers,
           i \in Own /\ P # {} => i \in A
    PROVE  Good([S EXCEPT !.peers[i] = P], A)
  <1> DEFINE peo == [S.peers EXCEPT ![i] = P]
  <1>1. [S EXCEPT !.peers[i] = P] = [label |-> S.label, peers |-> peo, def |-> S.def]
    BY GoodHave
  <1>2. peo \in [Held(S) -> SUBSET Peers]
    BY GoodHave
  <1>3. \A j \in Own \cap Held(S) : peo[j] # {} => j \in A
    BY GoodHave
  <1> HIDE DEF peo
  <1> QED BY <1>1, <1>2, <1>3, GoodHave, GoodMake

LEMMA DefaultGood ==
    ASSUME NEW A, NEW S, Good(S, A), NEW i \in Held(S)
    PROVE  Good([S EXCEPT !.def = i], A)
  <1>1. [S EXCEPT !.def = i] = [label |-> S.label, peers |-> S.peers, def |-> i]
    BY GoodHave
  <1> QED BY <1>1, GoodHave, GoodMake

-----------------------------------------------------------------------------
(* What the handlers are doing, and the rest of what TypeOK says.          *)

Task == [at : Places, req : Requests \cup {None}, arg : Labels \cup {None},
         space : Ids \cup {None}, ticket : Tickets \cup {None}]
\* Where a space is needed there is one.
Placed(t) == /\ t.at = "joining" => t.space \in Foreign
             /\ t.at \in {"farewell", "finish"} /\ t.req # "mute" => t.space \in Ids
TaskOK == task \in [Clients -> Task] /\ \A c \in Clients : Placed(task[c])
InviteOK == {pending, tmp, file} \subseteq Tickets \cup {None}
WorldOK ==
    /\ over \subseteq Ids \cup {None}
    /\ knock \in [Peers -> [ticket : Tickets, space : Ids] \cup {None}]
    /\ left \in [Clients -> Nat]
    /\ names \in [Tickets -> Ids \cup {None}]
    /\ expired \subseteq Tickets
    /\ admitted \subseteq [ticket : Tickets, peer : Peers, space : Ids]
    /\ unsaved \in BOOLEAN
RestOK == TaskOK /\ InviteOK /\ WorldOK

\* Every ticket that is about names a space, and so does every one that was used:
\* the space its holder was let into, or is about to be.
NamedInv ==
    /\ \A t \in Tickets : t \in {pending, tmp, file} => names[t] # None
    /\ \A c \in Clients : task[c].ticket # None => names[task[c].ticket] # None
    /\ \A p \in Peers : knock[p] # None => knock[p].space = names[knock[p].ticket]
    /\ AdmittedAsNamed

LEMMA IdleTask == Idle \in Task /\ Idle.at = "idle" /\ Idle.ticket = None
  BY DEF Idle, Task, Places

LEMMA DoneKeeps ==
    ASSUME TaskOK, NEW c \in Clients, Done(c)
    PROVE  TaskOK'
  BY IdleTask DEF TaskOK, Done, Placed

LEMMA GoKeeps ==
    ASSUME TaskOK, NEW c \in Clients, NEW place \in Places, Go(c, place),
           place # "joining", place \in {"farewell", "finish"} => At(c, "farewell")
    PROVE  TaskOK'
  <1>1. task[c] \in Task
    BY DEF TaskOK
  <1> DEFINE t == [task[c] EXCEPT !.at = place]
  <1>2. task' = [task EXCEPT ![c] = t]
    BY DEF Go
  <1>3. t \in Task /\ t.at = place /\ t.space = task[c].space /\ t.req = task[c].req
    BY <1>1 DEF Task
  <1>4. Placed(t)
    BY <1>3 DEF Placed, At, TaskOK
  <1> HIDE DEF t
  <1> QED BY <1>2, <1>3, <1>4 DEF TaskOK

LEMMA SetKeeps ==
    ASSUME TaskOK, NEW c \in Clients, NEW t \in Task, task' = [task EXCEPT ![c] = t], Placed(t)
    PROVE  TaskOK'
  BY DEF TaskOK

LEMMA ChangeDoes ==
    ASSUME NEW S, Change(S)
    PROVE  /\ spaces' = S /\ unsaved' \in BOOLEAN
           /\ \/ disk' = S
              \/ disk' = disk /\ unsaved'
  BY DEF Change

LEMMA ChangeGood ==
    ASSUME BookInv, NEW S, Change(S), Good(S, Given'), Given \subseteq Given'
    PROVE  BookInv'
  BY ChangeDoes, GoodGrows DEF BookInv

LEMMA HeldInsert ==
    ASSUME NEW S, NEW A, Good(S, A), NEW i, NEW l, NEW P
    PROVE  Held(Insert(S, i, l, P)) = Held(S) \cup {i}
  <1>1. PICK a, b, d : S = [label |-> a, peers |-> b, def |-> d]
    BY GoodHave
  <1>2. Insert(S, i, l, P).label = Put(S.label, i, l)
    BY <1>1 DEF Insert
  <1> QED BY <1>2 DEF Held, Put

LEMMA HeldSetLabel ==
    ASSUME NEW S, NEW A, Good(S, A), NEW i, NEW l
    PROVE  Held(SetLabel(S, i, l)) = Held(S)
  <1>1. PICK a, b, d : S = [label |-> a, peers |-> b, def |-> d]
    BY GoodHave
  <1>2. CASE Settable(S, i, l)
    <2>1. SetLabel(S, i, l).label = [a EXCEPT ![i] = Trim[l]]
      BY <1>1, <1>2 DEF SetLabel
    <2> QED BY <1>1, <2>1 DEF Held
  <1>3. CASE ~Settable(S, i, l)
    BY <1>3 DEF SetLabel
  <1> QED BY <1>2, <1>3

LEMMA LabelForIs ==
    ASSUME NEW S, NEW i, NEW wanted \in Labels \cup {None}, NEW theirs \in Labels \cup {None},
           NEW l \in LabelFor(S, i, wanted, theirs)
    PROVE  l \in Labels /\ Free(S, l, i)
  <1>1. CASE Usable(S, i, wanted)
    BY <1>1, HomeAssumption DEF LabelFor, Usable
  <1>2. CASE ~Usable(S, i, wanted) /\ Usable(S, i, theirs)
    BY <1>2, HomeAssumption DEF LabelFor, Usable
  <1>3. CASE ~Usable(S, i, wanted) /\ ~Usable(S, i, theirs)
    BY <1>3, HomeAssumption DEF LabelFor, Free
  <1> QED BY <1>1, <1>2, <1>3

LEMMA Forgets ==
    ASSUME NEW f \in Tickets \cup {None}, NEW g,
           g \in {None} \cup (IF "unlink" \in Faults THEN {f} ELSE {})
    PROVE  g \in Tickets \cup {None}
  OBVIOUS

\* Every step keeps the types.
LEMMA RestKept ==
    ASSUME RestOK, BookInv, NamedInv, [Next]_vars
    PROVE  RestOK'
  <1> USE DEF RestOK, InviteOK, WorldOK
  <1>0. /\ Held(spaces) \subseteq Ids /\ spaces.def \in Ids
        /\ \A l : Called(l) \subseteq Held(spaces)
    BY GoodHave DEF BookInv, Called
  <1>1. CASE UNCHANGED vars
    BY <1>1 DEF vars, node, world, TaskOK
  <1>2. ASSUME NEW c \in Clients, Ask(c)
        PROVE  RestOK'
    <2>1. ASSUME NEW r, Asks(c, r)
          PROVE  left' \in [Clients -> Nat]
      BY <2>1 DEF Asks
    <2>2. ASSUME NEW l \in Labels, New(c, l)
          PROVE  RestOK'
      <3>1. unsaved' \in BOOLEAN
        BY <2>2, ChangeDoes DEF New
      <3> QED BY <2>1, <2>2, <3>1 DEF New, TaskOK
    <2>3. ASSUME NEW i \in Ids, Default(c, i)
          PROVE  RestOK'
      BY <2>1, <2>3, ChangeDoes DEF Default, TaskOK
    <2>4. ASSUME NEW i \in Ids, NEW l \in Labels, Rename(c, i, l)
          PROVE  RestOK'
      BY <2>1, <2>4, ChangeDoes DEF Rename, TaskOK
    <2>5. ASSUME NEW r \in Requests, NEW l \in Labels \cup {None}, Begin(c, r, l)
          PROVE  RestOK'
      <3> DEFINE t == [Idle EXCEPT !.req = r, !.arg = l,
                          !.at = IF r \in Departing THEN "take" ELSE "resolve"]
      <3>1. t \in Task /\ Placed(t)
        BY IdleTask DEF Idle, Task, Places, Placed, Departing
      <3>2. task' = [task EXCEPT ![c] = t]
        BY <2>5 DEF Begin
      <3> HIDE DEF t
      <3>3. TaskOK'
        BY <3>1, <3>2, SetKeeps
      <3> QED BY <2>1, <2>5, <3>3 DEF Begin, node, world
    <2>6. ASSUME NEW f \in Foreign, NEW l \in Labels \cup {None}, StartJoin(c, f, l)
          PROVE  RestOK'
      <3> DEFINE t == [Idle EXCEPT !.req = "join", !.at = "joining", !.space = f, !.arg = l]
      <3>1. t \in Task /\ Placed(t)
        BY IdleTask DEF Idle, Task, Places, Requests, Ids, Placed
      <3>2. task' = [task EXCEPT ![c] = t]
        BY <2>6 DEF StartJoin
      <3> HIDE DEF t
      <3>3. TaskOK'
        BY <3>1, <3>2, SetKeeps
      <3> QED BY <2>1, <2>6, <3>3 DEF StartJoin, node, world
    <2> QED BY <1>2, <2>2, <2>3, <2>4, <2>5, <2>6 DEF Ask
  <1>3. ASSUME NEW c \in Clients, Serve(c)
        PROVE  RestOK'
    <2>0. task[c] \in Task /\ task[c].ticket \in Tickets \cup {None}
          /\ task[c].space \in Ids \cup {None}
      BY DEF TaskOK, Task
    <2>1. CASE TakeInvite(c)
      BY <2>1, GoKeeps DEF TakeInvite, Places, world
    <2>2. CASE Unlink(c)
      BY <2>2, GoKeeps DEF Unlink, Places, world, Forget
    <2>3. CASE Resolve(c)
      <3>1. /\ Meant(c) \subseteq Ids \cup {None}
            /\ task[c].req # "mute" => Meant(c) \subseteq Ids
        BY <1>0 DEF Meant
      <3>2. CASE Meant(c) = {} /\ Done(c) /\ UNCHANGED names
        BY <2>3, <3>2, DoneKeeps DEF Resolve, node
      <3>3. CASE \E i \in Meant(c), t \in Tickets :
                    /\ names' = [names EXCEPT ![t] = i]
                    /\ task' = [task EXCEPT ![c].at = "write", ![c].space = i, ![c].ticket = t]
        <4>1. PICK i \in Meant(c), t \in Tickets :
                    /\ names' = [names EXCEPT ![t] = i]
                    /\ task' = [task EXCEPT ![c].at = "write", ![c].space = i, ![c].ticket = t]
          BY <3>3
        <4> DEFINE k == [[[task[c] EXCEPT !.at = "write"] EXCEPT !.space = i] EXCEPT !.ticket = t]
        <4>2. task' = [task EXCEPT ![c] = k]
          BY <4>1 DEF TaskOK
        <4>3. k \in Task /\ Placed(k)
          BY <2>0, <3>1 DEF Task, Places, Placed
        <4> HIDE DEF k
        <4>4. TaskOK'
          BY <4>2, <4>3, SetKeeps
        <4>5. names' \in [Tickets -> Ids \cup {None}]
          BY <3>1, <4>1
        <4> QED BY <2>3, <4>4, <4>5 DEF Resolve, node
      <3>4. CASE \E i \in Meant(c) :
                    /\ task' = [task EXCEPT ![c].space = i,
                          ![c].at = IF task[c].req = "leave" THEN "farewell" ELSE "finish"]
                    /\ UNCHANGED names
        <4>1. PICK i \in Meant(c) :
                    task' = [task EXCEPT ![c].space = i,
                          ![c].at = IF task[c].req = "leave" THEN "farewell" ELSE "finish"]
          BY <3>4
        <4> DEFINE k == [[task[c] EXCEPT !.space = i] EXCEPT
                          !.at = IF task[c].req = "leave" THEN "farewell" ELSE "finish"]
        <4>2. task' = [task EXCEPT ![c] = k]
          BY <4>1 DEF TaskOK
        <4>3. k \in Task /\ Placed(k)
          BY ZenonT(60), <2>0, <3>1 DEF Task, Places, Placed
        <4> HIDE DEF k
        <4>4. TaskOK'
          BY <4>2, <4>3, SetKeeps
        <4> QED BY <2>3, <3>4, <4>4 DEF Resolve, node
      <3> QED BY <2>3, <3>2, <3>3, <3>4 DEF Resolve
    <2>4. CASE WriteTicket(c)
      BY <2>0, <2>4, GoKeeps DEF WriteTicket, Places, world
    <2>5. CASE RenameTicket(c)
      BY <2>0, <2>5, GoKeeps DEF RenameTicket, Places, world
    <2>6. CASE OpenInvite(c)
      BY <2>0, <2>6, DoneKeeps DEF OpenInvite, world
    <2>7. CASE Revoke(c)
      BY <2>7, DoneKeeps, ChangeDoes DEF Revoke
    <2>8. CASE Mute(c)
      <3>1. task[c].space \in Ids \cup {None}
        BY <2>0
      <3> QED BY <2>8, <3>1, DoneKeeps DEF Mute, world
    <2>9. CASE Rotate(c)
      <3>1. unsaved' \in BOOLEAN /\ over' \subseteq over
        BY <2>9, ChangeDoes DEF Rotate
      <3> QED BY <2>9, <3>1, DoneKeeps DEF Rotate
    <2>10. CASE Farewell(c)
      BY <2>10, GoKeeps, DoneKeeps DEF Farewell, Places, node, world
    <2>11. CASE EndLeave(c)
      <3>1. unsaved' \in BOOLEAN /\ over' \subseteq over
        BY <2>11, ChangeDoes DEF EndLeave
      <3> QED BY <2>11, <3>1, DoneKeeps DEF EndLeave
    <2>12. CASE DropSpace(c)
      <3>1. unsaved' \in BOOLEAN /\ over' \subseteq over
        BY <2>12, ChangeDoes DEF DropSpace
      <3> QED BY <2>12, <3>1, DoneKeeps DEF DropSpace
    <2>13. ASSUME NEW l \in Labels \cup {None}, NEW P \in SUBSET Peers, FinishJoin(c, l, P)
           PROVE  RestOK'
      <3>1. unsaved' \in BOOLEAN
        BY <2>13, ChangeDoes DEF FinishJoin
      <3> QED BY <2>13, <3>1, DoneKeeps DEF FinishJoin
    <2>14. CASE DieLeaving(c)
      <3>1. over' \subseteq over
        BY <2>14 DEF DieLeaving
      <3> QED BY <2>14, <3>1, IdleTask DEF DieLeaving, Reboot, TaskOK, Placed
    <2> QED
      BY <1>3, <2>1, <2>2, <2>3, <2>4, <2>5, <2>6, <2>7, <2>8, <2>9, <2>10, <2>11, <2>12,
         <2>13, <2>14 DEF Serve
  <1>4. ASSUME NEW p \in Peers, NEW t \in Tickets, Consume(p, t)
        PROVE  RestOK'
    <2>1. names[t] \in Ids
      BY <1>4 DEF Consume, NamedInv
    <2> QED BY <1>4, <2>1 DEF Consume, Forget, TaskOK, world
  <1>5. ASSUME NEW p \in Peers, TooLate(p)
        PROVE  RestOK'
    BY <1>5 DEF TooLate, Forget, TaskOK, world
  <1>6. ASSUME NEW p \in Peers, Admit(p)
        PROVE  RestOK'
    <2>1. knock[p] \in [ticket : Tickets, space : Ids] /\ unsaved' \in BOOLEAN
      BY <1>6, ChangeDoes DEF Admit
    <2>2. admitted' \subseteq [ticket : Tickets, peer : Peers, space : Ids]
      BY <1>6, <2>1 DEF Admit
    <2> QED BY <1>6, <2>1, <2>2 DEF Admit, TaskOK
  <1>7. ASSUME NEW i \in Ids, NEW P \in SUBSET Peers, Hear(i, P)
        PROVE  RestOK'
    BY <1>7, ChangeDoes DEF Hear, TaskOK
  <1>8. ASSUME NEW t \in Tickets, Expire(t)
        PROVE  RestOK'
    BY <1>8 DEF Expire, TaskOK, node
  <1>9. CASE Restart
    BY <1>9, IdleTask DEF Restart, Reboot, TaskOK, Placed
  <1> QED
    BY <1>1, <1>2, <1>3, <1>4, <1>5, <1>6, <1>7, <1>8, <1>9 DEF Next, Elsewhere

-----------------------------------------------------------------------------
(* Labels, defaults and members.                                           *)

LEMMA BooksStay ==
    ASSUME BookInv, UNCHANGED <<spaces, disk, unsaved, admitted>>
    PROVE  BookInv'
  BY DEF BookInv, Given, Good, Sound, Owned, Held

\* A change that nobody is admitted by.
LEMMA BooksTurn ==
    ASSUME BookInv, NEW S, Change(S), Good(S, Given), UNCHANGED admitted
    PROVE  BookInv'
  <1>1. Given' = Given
    BY DEF Given
  <1> QED BY <1>1, ChangeGood

LEMMA BooksReboot ==
    ASSUME BookInv, Reboot
    PROVE  BookInv'
  <1>1. Given' = Given /\ spaces' = disk /\ disk' = disk
    BY DEF Reboot, Given
  <1> QED BY <1>1 DEF BookInv

\* Every step keeps them.
LEMMA BooksKept ==
    ASSUME RestOK, BookInv, [Next]_vars
    PROVE  BookInv'
  <1>0. Good(spaces, Given) /\ Held(spaces) \in SUBSET Ids /\ spaces.def \in Held(spaces)
        /\ Fresh \subseteq Ids \ Held(spaces)
    BY GoodHave DEF BookInv, Fresh, Ids
  <1>1. CASE UNCHANGED vars
    BY <1>1, BooksStay DEF vars, node, world
  <1>2. ASSUME NEW c \in Clients, Ask(c)
        PROVE  BookInv'
    <2>1. ASSUME NEW l \in Labels, New(c, l)
          PROVE  BookInv'
      <3>1. PICK n \in Fresh :
              LET S == Insert(spaces, n, l, {}) IN
              IF Settable(S, n, l)
                THEN Change([SetLabel(S, n, l) EXCEPT !.def = n])
                ELSE spaces' = S /\ disk' = disk /\ unsaved' = TRUE
        BY <2>1 DEF New
      <3> DEFINE S == Insert(spaces, n, l, {})
      <3>2. Free(spaces, l, n)
        BY <2>1 DEF New, Called, Free
      <3>3. Good(S, Given) /\ n \in Held(S)
        BY <1>0, <3>2, InsertGood, HeldInsert
      <3>4. Good(SetLabel(S, n, l), Given) /\ n \in Held(SetLabel(S, n, l))
        BY <3>3, SetLabelGood, HeldSetLabel
      <3>5. Good([SetLabel(S, n, l) EXCEPT !.def = n], Given)
        BY <3>4, DefaultGood
      <3>6. UNCHANGED admitted
        BY <2>1 DEF New
      <3>7. CASE Settable(S, n, l)
        BY <3>1, <3>5, <3>6, <3>7, BooksTurn
      <3>8. CASE ~Settable(S, n, l)
        <4>1. spaces' = S /\ disk' = disk /\ unsaved' = TRUE /\ Given' = Given
          BY <3>1, <3>6, <3>8 DEF Given
        <4> HIDE DEF S
        <4> QED BY <3>3, <4>1 DEF BookInv
      <3> QED BY <3>7, <3>8
    <2>2. ASSUME NEW i \in Ids, Default(c, i)
          PROVE  BookInv'
      BY <1>0, <2>2, DefaultGood, BooksTurn DEF Default
    <2>3. ASSUME NEW i \in Ids, NEW l \in Labels, Rename(c, i, l)
          PROVE  BookInv'
      BY <1>0, <2>3, SetLabelGood, BooksTurn DEF Rename
    <2>4. ASSUME NEW r \in Requests, NEW l \in Labels \cup {None}, Begin(c, r, l)
          PROVE  BookInv'
      BY <2>4, BooksStay DEF Begin, node, world
    <2>5. ASSUME NEW f \in Foreign, NEW l \in Labels \cup {None}, StartJoin(c, f, l)
          PROVE  BookInv'
      BY <2>5, BooksStay DEF StartJoin, node, world
    <2> QED BY <1>2, <2>1, <2>2, <2>3, <2>4, <2>5 DEF Ask
  <1>3. ASSUME NEW c \in Clients, Serve(c)
        PROVE  BookInv'
    <2>1. CASE TakeInvite(c) \/ Unlink(c) \/ Resolve(c) \/ WriteTicket(c) \/ RenameTicket(c)
               \/ OpenInvite(c) \/ Mute(c) \/ Farewell(c)
      BY <2>1, BooksStay DEF TakeInvite, Unlink, Resolve, WriteTicket, RenameTicket,
                             OpenInvite, Mute, Farewell, node, world
    <2>2. CASE Revoke(c)
      <3>1. CASE \E i \in Held(spaces) : \E p \in spaces.peers[i] :
                    Change([spaces EXCEPT !.peers[i] = @ \ {p}])
        <4>1. PICK i \in Held(spaces) : \E p \in spaces.peers[i] :
                    Change([spaces EXCEPT !.peers[i] = @ \ {p}])
          BY <3>1
        <4>2. PICK p \in spaces.peers[i] : Change([spaces EXCEPT !.peers[i] = @ \ {p}])
          BY <4>1
        <4>3. spaces.peers[i] \ {p} \in SUBSET Peers /\ (i \in Own => i \in Given)
          BY <1>0, <4>2, GoodHave
        <4>4. Good([spaces EXCEPT !.peers[i] = @ \ {p}], Given)
          BY <1>0, <4>3, PeersGood
        <4> QED BY <2>2, <4>2, <4>4, BooksTurn DEF Revoke
      <3>2. CASE UNCHANGED <<spaces, disk, unsaved>>
        BY <2>2, <3>2, BooksStay DEF Revoke
      <3> QED BY <2>2, <3>1, <3>2 DEF Revoke
    <2>3. CASE Rotate(c)
      <3>1. CASE UNCHANGED <<spaces, disk, unsaved>>
        BY <2>3, <3>1, BooksStay DEF Rotate
      <3>2. CASE \E i \in Held(spaces), n \in Fresh : Change(Replace(spaces, i, n, {}))
        BY <1>0, <2>3, <3>2, ReplaceGood, BooksTurn DEF Rotate
      <3> QED BY <2>3, <3>1, <3>2 DEF Rotate
    <2>4. CASE EndLeave(c)
      <3>1. CASE UNCHANGED <<spaces, disk, unsaved>>
        BY <2>4, <3>1, BooksStay DEF EndLeave
      <3>2. CASE \E n \in Fresh : Change(Replace(spaces, spaces.def, n, {}))
        BY <1>0, <2>4, <3>2, ReplaceGood, BooksTurn DEF EndLeave
      <3>3. CASE \E i \in Held(spaces) : \E S \in Remove(spaces, i) : Change(S)
        BY <1>0, <2>4, <3>3, RemoveGood, BooksTurn DEF EndLeave
      <3> QED BY <2>4, <3>1, <3>2, <3>3 DEF EndLeave
    <2>5. CASE DropSpace(c)
      <3>1. CASE UNCHANGED <<spaces, disk, unsaved>>
        BY <2>5, <3>1, BooksStay DEF DropSpace
      <3>2. CASE \E i \in Called(task[c].arg) : \E S \in Remove(spaces, i) : Change(S)
        BY <1>0, <2>5, <3>2, RemoveGood, BooksTurn DEF DropSpace, Called
      <3> QED BY <2>5, <3>1, <3>2 DEF DropSpace
    <2>6. ASSUME NEW l \in Labels \cup {None}, NEW P \in SUBSET Peers, FinishJoin(c, l, P)
          PROVE  BookInv'
      <3> DEFINE f == task[c].space
                 all == P \cup (IF f \in Held(spaces) THEN spaces.peers[f] ELSE {})
      <3>1. f \in Foreign /\ f \in Ids /\ f \notin Own /\ task[c].arg \in Labels \cup {None}
        BY <2>6, HomeAssumption DEF FinishJoin, RestOK, TaskOK, Placed, At, Task, Ids
      <3>2. all \in SUBSET Peers
        BY <1>0, GoodHave
      <3>3. PICK m \in LabelFor(spaces, f, task[c].arg, l) :
              Change(SetLabel(IF Unshared(spaces) THEN Replace(spaces, spaces.def, f, all)
                                                  ELSE Insert(spaces, f, m, all), f, m))
        BY <2>6 DEF FinishJoin
      <3>4. m \in Labels /\ Free(spaces, m, f)
        BY <3>1, LabelForIs
      <3> HIDE DEF f, all
      <3>5. Good(Replace(spaces, spaces.def, f, all), Given)
        BY <1>0, <3>1, <3>2, ReplaceGood
      <3>6. Good(Insert(spaces, f, m, all), Given)
        BY <1>0, <3>1, <3>2, <3>4, InsertGood
      <3>7. UNCHANGED admitted
        BY <2>6 DEF FinishJoin
      <3> QED BY <3>3, <3>4, <3>5, <3>6, <3>7, SetLabelGood, BooksTurn
    <2>7. CASE DieLeaving(c)
      BY <2>7, BooksReboot DEF DieLeaving
    <2> QED BY <1>3, <2>1, <2>2, <2>3, <2>4, <2>5, <2>6, <2>7 DEF Serve
  <1>4. ASSUME NEW p \in Peers, NEW t \in Tickets, Consume(p, t)
        PROVE  BookInv'
    BY <1>4, BooksStay DEF Consume, world
  <1>5. ASSUME NEW p \in Peers, TooLate(p)
        PROVE  BookInv'
    BY <1>5, BooksStay DEF TooLate, world
  <1>6. ASSUME NEW p \in Peers, Admit(p)
        PROVE  BookInv'
    <2> DEFINE k == knock[p]
    <2>1. CASE k.space \notin Held(spaces)
      BY <1>6, <2>1, BooksStay DEF Admit
    <2>2. CASE k.space \in Held(spaces)
      <3> DEFINE S == [spaces EXCEPT !.peers[k.space] = @ \cup {p}]
      <3>1. Change(S)
            /\ admitted' = admitted \cup {[ticket |-> k.ticket, peer |-> p, space |-> k.space]}
        BY <1>6, <2>2 DEF Admit
      <3>2. Given' = Given \cup {k.space}
        <4> DEFINE a == [ticket |-> k.ticket, peer |-> p, space |-> k.space]
        <4>1. a.space = k.space /\ admitted' = admitted \cup {a}
          BY <3>1
        <4> HIDE DEF a, k
        <4> QED BY <4>1 DEF Given
      <3>3. Good(spaces, Given')
        BY <1>0, <3>2, GoodGrows
      <3>4. spaces.peers[k.space] \cup {p} \in SUBSET Peers
        BY <1>0, <2>2, GoodHave
      <3>5. Good(S, Given')
        BY <2>2, <3>2, <3>3, <3>4, PeersGood
      <3> HIDE DEF S
      <3> QED BY <3>1, <3>2, <3>5, ChangeGood
    <2> QED BY <2>1, <2>2
  <1>7. ASSUME NEW i \in Ids, NEW P \in SUBSET Peers, Hear(i, P)
        PROVE  BookInv'
    <2>1. i \in Own => i \in Given
      BY <1>0, <1>7, GoodHave DEF Hear
    <2> QED BY <1>0, <1>7, <2>1, PeersGood, BooksTurn DEF Hear
  <1>8. ASSUME NEW t \in Tickets, Expire(t)
        PROVE  BookInv'
    BY <1>8, BooksStay DEF Expire, node
  <1>9. CASE Restart
    BY <1>9, BooksReboot DEF Restart
  <1> QED
    BY <1>1, <1>2, <1>3, <1>4, <1>5, <1>6, <1>7, <1>8, <1>9 DEF Next, Elsewhere

-----------------------------------------------------------------------------
(* Tickets name spaces.                                                    *)

\* What a step may do to the places a ticket is kept without a look at names.
LEMMA NamedStays ==
    ASSUME RestOK, NamedInv, UNCHANGED <<names, admitted>>,
           {pending', tmp', file'} \subseteq
               {pending, tmp, file, None} \cup {task[c].ticket : c \in Clients},
           \A c \in Clients : task'[c].ticket \in {None, task[c].ticket},
           \A p \in Peers : knock'[p] \in {None, knock[p]}
    PROVE  NamedInv'
  <1>1. \A t \in Tickets : t \in {pending', tmp', file'} => names[t] # None
    <2> TAKE t \in Tickets
    <2> HAVE t \in {pending', tmp', file'}
    <2>1. t # None
      BY HomeAssumption
    <2>2. CASE t \in {pending, tmp, file}
      BY <2>2 DEF NamedInv
    <2>3. CASE \E c \in Clients : t = task[c].ticket
      BY <2>1, <2>3 DEF NamedInv
    <2> QED BY <2>1, <2>2, <2>3
  <1> QED BY <1>1 DEF NamedInv, AdmittedAsNamed

LEMMA DoneTicket ==
    ASSUME TaskOK, NEW c \in Clients, Done(c)
    PROVE  \A d \in Clients : task'[d] = IF d = c THEN Idle ELSE task[d]
  BY DEF TaskOK, Done

LEMMA GoTicket ==
    ASSUME TaskOK, NEW c \in Clients, NEW place, Go(c, place)
    PROVE  /\ \A d \in Clients \ {c} : task'[d] = task[d]
           /\ task'[c].ticket = task[c].ticket /\ task'[c].at = place
  BY DEF TaskOK, Go, Task

\* What Resolve does to the tickets: none changes hands, or a new one is minted.
LEMMA ResolveTicket ==
    ASSUME RestOK, BookInv, NEW c \in Clients, Resolve(c)
    PROVE  \/ /\ UNCHANGED names
              /\ \A d \in Clients \ {c} : task'[d] = task[d]
              /\ task'[c].ticket \in {None, task[c].ticket}
              /\ task'[c].at \in {"idle", "farewell", "finish"}
           \/ \E t \in Tickets, i \in Ids :
                 /\ names[t] = None /\ names' = [names EXCEPT ![t] = i]
                 /\ \A d \in Clients \ {c} : task'[d] = task[d]
                 /\ task'[c].ticket = t
  <1>1. task[c].req # "mute" => Meant(c) \subseteq Ids
    BY GoodHave DEF BookInv, Meant, Called
  <1>2. task[c] \in Task
    BY DEF RestOK, TaskOK
  <1>3. CASE Meant(c) = {} /\ Done(c) /\ UNCHANGED names
    BY <1>3, DoneTicket, IdleTask DEF RestOK
  <1>4. CASE task[c].req = "invite" /\ \E i \in Meant(c), t \in Tickets :
                /\ names[t] = None /\ names' = [names EXCEPT ![t] = i]
                /\ task' = [task EXCEPT ![c].at = "write", ![c].space = i, ![c].ticket = t]
    <2>1. PICK i \in Meant(c), t \in Tickets :
                /\ names[t] = None /\ names' = [names EXCEPT ![t] = i]
                /\ task' = [task EXCEPT ![c].at = "write", ![c].space = i, ![c].ticket = t]
      BY <1>4
    <2>2. /\ \A d \in Clients \ {c} : task'[d] = task[d]
          /\ task'[c].ticket = t
      BY <1>2, <2>1 DEF RestOK, TaskOK, Task
    <2> QED BY <1>1, <1>4, <2>1, <2>2
  <1>5. CASE \E i \in Meant(c) :
                /\ task' = [task EXCEPT ![c].space = i,
                      ![c].at = IF task[c].req = "leave" THEN "farewell" ELSE "finish"]
                /\ UNCHANGED names
    <2>1. /\ \A d \in Clients \ {c} : task'[d] = task[d]
          /\ task'[c].ticket = task[c].ticket
          /\ task'[c].at \in {"farewell", "finish"}
      BY <1>2, <1>5 DEF RestOK, TaskOK, Task
    <2> QED BY <1>5, <2>1
  <1> QED BY <1>3, <1>4, <1>5 DEF Resolve

\* Every step keeps what the tickets name.
LEMMA NamedKept ==
    ASSUME RestOK, BookInv, NamedInv, [Next]_vars
    PROVE  NamedInv'
  <1>0. TaskOK
    BY DEF RestOK
  <1>1. CASE UNCHANGED vars
    BY <1>1, NamedStays DEF vars, node, world
  <1>2. ASSUME NEW c \in Clients, Ask(c)
        PROVE  NamedInv'
    <2>1. CASE UNCHANGED <<pending, tmp, file, task, knock, names, admitted>>
      BY <2>1, NamedStays
    <2>2. ASSUME NEW r \in Requests, NEW l \in Labels \cup {None}, Begin(c, r, l)
          PROVE  NamedInv'
      <3>1. \A d \in Clients : task'[d].ticket \in {None, task[d].ticket}
        BY <1>0, <2>2, IdleTask DEF Begin, TaskOK, Idle
      <3> QED BY <2>2, <3>1, NamedStays DEF Begin, node, world
    <2>3. ASSUME NEW f \in Foreign, NEW l \in Labels \cup {None}, StartJoin(c, f, l)
          PROVE  NamedInv'
      <3>1. \A d \in Clients : task'[d].ticket \in {None, task[d].ticket}
        BY <1>0, <2>3, IdleTask DEF StartJoin, TaskOK, Idle
      <3> QED BY <2>3, <3>1, NamedStays DEF StartJoin, node, world
    <2> QED BY <1>2, <2>1, <2>2, <2>3 DEF Ask, New, Default, Rename
  <1>3. ASSUME NEW c \in Clients, Serve(c)
        PROVE  NamedInv'
    <2>1. CASE Done(c) /\ UNCHANGED <<pending, tmp, file, knock, names, admitted>>
      <3>1. \A d \in Clients : task'[d].ticket \in {None, task[d].ticket}
        BY <1>0, <2>1, DoneTicket, IdleTask
      <3> QED BY <2>1, <3>1, NamedStays
    <2>2. CASE TakeInvite(c) \/ Unlink(c) \/ WriteTicket(c) \/ RenameTicket(c) \/ Farewell(c)
      <3>1. \A d \in Clients : task'[d].ticket \in {None, task[d].ticket}
        BY <1>0, <2>2, DoneTicket, GoTicket, IdleTask
        DEF TakeInvite, Unlink, WriteTicket, RenameTicket, Farewell
      <3>2. {pending', tmp', file'} \subseteq
               {pending, tmp, file, None} \cup {task[d].ticket : d \in Clients}
        BY <2>2 DEF TakeInvite, Unlink, Forget, WriteTicket, RenameTicket, Farewell, node
      <3>3. UNCHANGED <<names, admitted, knock>>
        BY <2>2 DEF TakeInvite, Unlink, WriteTicket, RenameTicket, Farewell, world
      <3> QED BY <3>1, <3>2, <3>3, NamedStays
    <2>3. CASE OpenInvite(c)
      <3>1. \A d \in Clients : task'[d].ticket \in {None, task[d].ticket}
        BY <1>0, <2>3, DoneTicket, IdleTask DEF OpenInvite
      <3> QED BY <2>3, <3>1, NamedStays DEF OpenInvite, world
    <2>4. CASE Resolve(c)
      <3>1. UNCHANGED <<pending, tmp, file, knock, admitted>>
        BY <2>4 DEF Resolve, node
      <3>2. CASE /\ UNCHANGED names
                 /\ \A d \in Clients \ {c} : task'[d] = task[d]
                 /\ task'[c].ticket \in {None, task[c].ticket}
        BY <3>1, <3>2, NamedStays
      <3>3. CASE \E t \in Tickets, i \in Ids :
                 /\ names[t] = None /\ names' = [names EXCEPT ![t] = i]
                 /\ \A d \in Clients \ {c} : task'[d] = task[d]
                 /\ task'[c].ticket = t
        <4>1. PICK t \in Tickets, i \in Ids :
                 /\ names[t] = None /\ names' = [names EXCEPT ![t] = i]
                 /\ \A d \in Clients \ {c} : task'[d] = task[d]
                 /\ task'[c].ticket = t
          BY <3>3
        <4>2. i # None /\ names \in [Tickets -> Ids \cup {None}]
          BY HomeAssumption DEF RestOK, WorldOK
        <4>3. \A u \in Tickets : names'[u] = IF u = t THEN i ELSE names[u]
          BY <4>1, <4>2
        <4>4. \A u \in Tickets : names[u] # None => names'[u] # None /\ names'[u] = names[u]
          BY <4>1, <4>2, <4>3
        <4>5. \A u \in Tickets : u \in {pending', tmp', file'} => names'[u] # None
          BY <3>1, <4>4 DEF NamedInv
        <4>6. \A d \in Clients : task'[d].ticket # None => names'[task'[d].ticket] # None
          BY <4>1, <4>2, <4>3, <4>4 DEF NamedInv, RestOK, TaskOK, Task
        <4>7. \A p \in Peers : knock[p] # None =>
                  knock[p].ticket \in Tickets /\ knock[p].space # None
          BY HomeAssumption DEF RestOK, WorldOK
        <4>8. \A p \in Peers : knock'[p] # None => knock'[p].space = names'[knock'[p].ticket]
          BY <3>1, <4>4, <4>7 DEF NamedInv
        <4>9. \A a \in admitted : a.ticket \in Tickets /\ a.space # None
          BY HomeAssumption DEF RestOK, WorldOK
        <4>10. AdmittedAsNamed'
          BY <3>1, <4>4, <4>9 DEF NamedInv, AdmittedAsNamed
        <4> QED BY <4>5, <4>6, <4>8, <4>10 DEF NamedInv
      <3> QED BY <1>0, <2>4, <3>2, <3>3, ResolveTicket
    <2>5. CASE DieLeaving(c)
      BY <2>5, IdleTask, NamedStays DEF DieLeaving, Reboot
    <2> QED
      BY <1>3, <2>1, <2>2, <2>3, <2>4, <2>5
      DEF Serve, Revoke, Mute, Rotate, EndLeave, DropSpace, FinishJoin, world
  <1>4. ASSUME NEW p \in Peers, NEW t \in Tickets, Consume(p, t)
        PROVE  NamedInv'
    <2>1. /\ \A u \in Tickets : u \in {pending', tmp', file'} => u \in {pending, tmp, file}
          /\ UNCHANGED <<task, names, admitted>>
      BY <1>4, HomeAssumption DEF Consume, Forget, world
    <2>2. \A q \in Peers : knock'[q] =
              IF q = p THEN [ticket |-> t, space |-> names[t]] ELSE knock[q]
      BY <1>4 DEF Consume, RestOK, WorldOK
    <2>3. \A q \in Peers : knock'[q] # None => knock'[q].space = names'[knock'[q].ticket]
      BY <2>1, <2>2 DEF NamedInv
    <2> QED BY <2>1, <2>3 DEF NamedInv, AdmittedAsNamed
  <1>5. ASSUME NEW p \in Peers, TooLate(p)
        PROVE  NamedInv'
    BY <1>5, NamedStays DEF TooLate, Forget, world
  <1>6. ASSUME NEW p \in Peers, Admit(p)
        PROVE  NamedInv'
    <2>1. UNCHANGED <<pending, tmp, file, task, names>>
      BY <1>6 DEF Admit
    <2>2. \A q \in Peers : knock'[q] \in {None, knock[q]}
      BY <1>6 DEF Admit, RestOK, WorldOK
    <2>3. CASE UNCHANGED admitted
      BY <2>1, <2>2, <2>3, NamedStays
    <2>4. CASE admitted' = admitted \cup
                  {[ticket |-> knock[p].ticket, peer |-> p, space |-> knock[p].space]}
      <3>1. knock[p].space = names[knock[p].ticket]
        BY <1>6 DEF Admit, NamedInv
      <3>2. AdmittedAsNamed'
        BY <2>1, <2>4, <3>1 DEF NamedInv, AdmittedAsNamed
      <3> QED BY <2>1, <2>2, <3>2 DEF NamedInv
    <2> QED BY <1>6, <2>3, <2>4 DEF Admit
  <1>7. ASSUME NEW i \in Ids, NEW P \in SUBSET Peers, Hear(i, P)
        PROVE  NamedInv'
    BY <1>7, NamedStays DEF Hear
  <1>8. ASSUME NEW t \in Tickets, Expire(t)
        PROVE  NamedInv'
    BY <1>8, NamedStays DEF Expire, node
  <1>9. CASE Restart
    BY <1>9, IdleTask, NamedStays DEF Restart, Reboot
  <1> QED
    BY <1>1, <1>2, <1>3, <1>4, <1>5, <1>6, <1>7, <1>8, <1>9 DEF Next, Elsewhere

-----------------------------------------------------------------------------
(* Tickets are used once.                                                  *)

Spent == {a.ticket : a \in admitted}
Knocking == {knock[p].ticket : p \in {q \in Peers : knock[q] # None}}
Kept == {pending, tmp, file}

\* A ticket is with one handler, or in memory and its two files, where it does not
\* come back to once it is used: no handler, and no rename, still carries it.
SpentInv ==
    /\ \A c \in Clients : task[c].ticket # None =>
          /\ \A d \in Clients \ {c} : task[d].ticket # task[c].ticket
          /\ task[c].ticket # pending
          /\ task[c].at = "write" => task[c].ticket \notin {tmp, file}
          /\ task[c].at = "open" => task[c].ticket # tmp
          /\ task[c].ticket \notin Spent \cup Knocking
    /\ pending # None => pending # tmp
    /\ file # None => file # tmp
    /\ \A t \in Kept : t # None => t \notin Spent \cup Knocking
    /\ \A a, b \in admitted : a.ticket = b.ticket => a = b
    /\ \A p \in Peers : knock[p] # None =>
          /\ knock[p].ticket \notin Spent
          /\ \A q \in Peers \ {p} : knock[q] # None => knock[q].ticket # knock[p].ticket

\* Nothing that was used changes, and no handler gets a ticket.
LEMMA SpentStays ==
    ASSUME RestOK, SpentInv, UNCHANGED admitted,
           \A p \in Peers : knock'[p] \in {None, knock[p]},
           \A c \in Clients : \/ task'[c].ticket = None
                              \/ /\ task'[c].ticket = task[c].ticket
                                 /\ task'[c].at \in {"write", "open"} => task'[c].at = task[c].at,
           pending' \in {None, pending, file}, pending' = file => pending' \in {None, pending}
                                    \/ \A c \in Clients : task'[c].ticket = None,
           tmp' = tmp, file' \in {None, file}
    PROVE  SpentInv'
  <1>1. Spent' = Spent /\ Knocking' \subseteq Knocking
    BY DEF Spent, Knocking
  <1>2. Kept' \subseteq Kept \cup {None}
    BY DEF Kept
  <1>3. \A c \in Clients : task'[c].ticket # None =>
          /\ \A d \in Clients \ {c} : task'[d].ticket # task'[c].ticket
          /\ task'[c].ticket # pending'
          /\ task'[c].at = "write" => task'[c].ticket \notin {tmp', file'}
          /\ task'[c].at = "open" => task'[c].ticket # tmp'
          /\ task'[c].ticket \notin Spent' \cup Knocking'
    BY <1>1 DEF SpentInv
  <1>4. \A t \in Kept' : t # None => t \notin Spent' \cup Knocking'
    BY <1>1, <1>2 DEF SpentInv
  <1>5. (pending' # None => pending' # tmp') /\ (file' # None => file' # tmp')
    BY DEF SpentInv
  <1>6. \A p \in Peers : knock'[p] # None =>
          /\ knock'[p].ticket \notin Spent'
          /\ \A q \in Peers \ {p} : knock'[q] # None => knock'[q].ticket # knock'[p].ticket
    BY <1>1 DEF SpentInv
  <1> QED BY <1>3, <1>4, <1>5, <1>6 DEF SpentInv

\* A ticket that nothing names yet is nowhere.
LEMMA UnnamedIsNew ==
    ASSUME RestOK, NamedInv, NEW t \in Tickets, names[t] = None
    PROVE  /\ t \notin Kept \cup Spent \cup Knocking
           /\ \A c \in Clients : task[c].ticket # t
  <1>1. t # None
    BY HomeAssumption
  <1>2. \A a \in admitted : a.ticket # t
    BY HomeAssumption DEF NamedInv, AdmittedAsNamed, RestOK, WorldOK
  <1>3. \A p \in Peers : knock[p] # None => knock[p].ticket # t
    BY HomeAssumption DEF NamedInv, RestOK, WorldOK
  <1> QED BY <1>1, <1>2, <1>3 DEF NamedInv, Kept, Spent, Knocking

\* Every step keeps it, if files that are to be removed are.
LEMMA SpentKept ==
    ASSUME RestOK, BookInv, NamedInv, SpentInv, [Next]_vars, "unlink" \notin Faults
    PROVE  SpentInv'
  <1>0. TaskOK /\ \A c \in Clients : task[c] \in Task
    BY DEF RestOK, TaskOK
  <1>1. CASE UNCHANGED vars
    BY <1>1, SpentStays DEF vars, node, world
  <1>2. ASSUME NEW c \in Clients, Ask(c)
        PROVE  SpentInv'
    <2>1. CASE UNCHANGED <<pending, tmp, file, task, knock, admitted>>
      BY <2>1, SpentStays
    <2>2. ASSUME NEW r \in Requests, NEW l \in Labels \cup {None}, Begin(c, r, l)
          PROVE  SpentInv'
      <3>1. \A d \in Clients : task'[d].ticket = None \/ task'[d] = task[d]
        BY <1>0, <2>2, IdleTask DEF Begin, TaskOK, Idle
      <3> QED BY <2>2, <3>1, SpentStays DEF Begin, node, world
    <2>3. ASSUME NEW f \in Foreign, NEW l \in Labels \cup {None}, StartJoin(c, f, l)
          PROVE  SpentInv'
      <3>1. \A d \in Clients : task'[d].ticket = None \/ task'[d] = task[d]
        BY <1>0, <2>3, IdleTask DEF StartJoin, TaskOK, Idle
      <3> QED BY <2>3, <3>1, SpentStays DEF StartJoin, node, world
    <2> QED BY <1>2, <2>1, <2>2, <2>3 DEF Ask, New, Default, Rename
  <1>3. ASSUME NEW c \in Clients, Serve(c)
        PROVE  SpentInv'
    <2>1. CASE Done(c) /\ UNCHANGED <<pending, tmp, file, knock, admitted>>
      <3>1. \A d \in Clients : task'[d].ticket = None \/ task'[d] = task[d]
        BY <1>0, <2>1, DoneTicket, IdleTask
      <3> QED BY <2>1, <3>1, SpentStays
    <2>2. CASE TakeInvite(c) \/ Unlink(c) \/ Farewell(c)
      <3>1. \A d \in Clients : \/ task'[d].ticket = None \/ task'[d] = task[d]
                               \/ /\ task'[d].ticket = task[d].ticket
                                  /\ task'[d].at \in {"unlink", "resolve", "finish"}
        BY <1>0, <2>2, DoneTicket, GoTicket, IdleTask DEF TakeInvite, Unlink, Farewell
      <3>2. /\ pending' \in {None, pending} /\ tmp' = tmp /\ file' \in {None, file}
            /\ UNCHANGED <<admitted, knock>>
        BY <2>2 DEF TakeInvite, Unlink, Forget, Farewell, node, world
      <3> QED BY <3>1, <3>2, SpentStays
    <2>3. CASE WriteTicket(c)
      <3> DEFINE t == task[c].ticket
      <3>1. /\ tmp' = t /\ UNCHANGED <<pending, file, knock, admitted>>
            /\ At(c, "write")
        BY <2>3 DEF WriteTicket, world
      <3>2. /\ \A d \in Clients \ {c} : task'[d] = task[d]
            /\ task'[c].ticket = t /\ task'[c].at = "rename"
        BY <1>0, <2>3, GoTicket DEF WriteTicket
      <3>3. Spent' = Spent /\ Knocking' = Knocking
        BY <3>1 DEF Spent, Knocking
      <3>4. t # None => t \notin {pending, file} \cup Spent \cup Knocking
        BY <3>1 DEF SpentInv, At
      <3>5. \A u \in Kept' : u # None => u \notin Spent \cup Knocking
        BY <3>1, <3>4 DEF SpentInv, Kept
      <3>6. \A d \in Clients \ {c} : task[d].ticket # None => task[d].ticket # t
        BY DEF SpentInv
      <3>7. \A d \in Clients : task'[d].ticket # None =>
              /\ \A e \in Clients \ {d} : task'[e].ticket # task'[d].ticket
              /\ task'[d].ticket # pending
              /\ task'[d].at = "write" => task'[d].ticket \notin {t, file}
              /\ task'[d].at = "open" => task'[d].ticket # t
              /\ task'[d].ticket \notin Spent \cup Knocking
        BY <3>2, <3>6 DEF SpentInv
      <3> QED BY <3>1, <3>3, <3>4, <3>5, <3>7 DEF SpentInv
    <2>4. CASE RenameTicket(c)
      <3>1. /\ tmp' = None /\ file' \in {file, tmp} /\ UNCHANGED <<pending, knock, admitted>>
        BY <2>4 DEF RenameTicket, world
      <3>2. /\ \A d \in Clients \ {c} : task'[d] = task[d]
            /\ task'[c].ticket = task[c].ticket /\ task'[c].at = "open"
        BY <1>0, <2>4, GoTicket DEF RenameTicket
      <3>3. Spent' = Spent /\ Knocking' = Knocking
        BY <3>1 DEF Spent, Knocking
      <3>4. Kept' \subseteq Kept \cup {None}
        BY <3>1 DEF Kept
      <3>5. \A d \in Clients : task'[d].ticket # None =>
              /\ \A e \in Clients \ {d} : task'[e].ticket # task'[d].ticket
              /\ task'[d].ticket # pending
              /\ task'[d].at = "write" => task'[d].ticket \notin {None, file'}
              /\ task'[d].ticket \notin Spent \cup Knocking
        BY <3>1, <3>2 DEF SpentInv
      <3> QED BY <3>1, <3>3, <3>4, <3>5 DEF SpentInv
    <2>5. CASE OpenInvite(c)
      <3> DEFINE t == task[c].ticket
      <3>1. /\ pending' = t /\ UNCHANGED <<tmp, file, knock, admitted>>
            /\ At(c, "open")
        BY <2>5 DEF OpenInvite, world
      <3>2. \A d \in Clients : task'[d] = IF d = c THEN Idle ELSE task[d]
        BY <1>0, <2>5, DoneTicket DEF OpenInvite
      <3>3. Spent' = Spent /\ Knocking' = Knocking
        BY <3>1 DEF Spent, Knocking
      <3>4. t # None => t # tmp /\ t \notin Spent \cup Knocking
        BY <3>1 DEF SpentInv, At
      <3>5. \A u \in Kept' : u # None => u \notin Spent \cup Knocking
        BY <3>1, <3>4 DEF SpentInv, Kept
      <3>6. \A d \in Clients : task'[d].ticket # None =>
              /\ \A e \in Clients \ {d} : task'[e].ticket # task'[d].ticket
              /\ task'[d].ticket # t
              /\ task'[d].at = "write" => task'[d].ticket \notin {tmp, file}
              /\ task'[d].at = "open" => task'[d].ticket # tmp
              /\ task'[d].ticket \notin Spent \cup Knocking
        BY <3>2, IdleTask DEF SpentInv
      <3> QED BY <3>1, <3>3, <3>4, <3>5, <3>6 DEF SpentInv
    <2>6. CASE Resolve(c)
      <3>1. UNCHANGED <<pending, tmp, file, knock, admitted>>
        BY <2>6 DEF Resolve, node
      <3>2. CASE /\ \A d \in Clients \ {c} : task'[d] = task[d]
                 /\ task'[c].ticket \in {None, task[c].ticket}
                 /\ task'[c].at \in {"idle", "farewell", "finish"}
        BY <3>1, <3>2, SpentStays
      <3>3. CASE \E t \in Tickets :
                 /\ names[t] = None
                 /\ \A d \in Clients \ {c} : task'[d] = task[d]
                 /\ task'[c].ticket = t
        <4>1. PICK t \in Tickets :
                 /\ names[t] = None
                 /\ \A d \in Clients \ {c} : task'[d] = task[d]
                 /\ task'[c].ticket = t
          BY <3>3
        <4>2. /\ t \notin {pending, tmp, file} \cup Spent \cup Knocking
              /\ \A d \in Clients : task[d].ticket # t
          BY <4>1, UnnamedIsNew DEF Kept
        <4>3. Spent' = Spent /\ Knocking' = Knocking /\ Kept' = Kept
          BY <3>1 DEF Spent, Knocking, Kept
        <4>4. \A d \in Clients : task'[d].ticket # None =>
              /\ \A e \in Clients \ {d} : task'[e].ticket # task'[d].ticket
              /\ task'[d].ticket # pending
              /\ task'[d].at = "write" => task'[d].ticket \notin {tmp, file}
              /\ task'[d].at = "open" => task'[d].ticket # tmp
              /\ task'[d].ticket \notin Spent \cup Knocking
          BY <4>1, <4>2 DEF SpentInv
        <4> QED BY <3>1, <4>3, <4>4 DEF SpentInv
      <3> QED BY <1>0, <2>6, <3>2, <3>3, ResolveTicket
    <2>7. CASE DieLeaving(c)
      BY <2>7, IdleTask, SpentStays DEF DieLeaving, Reboot
    <2> QED
      BY <1>3, <2>1, <2>2, <2>3, <2>4, <2>5, <2>6, <2>7
      DEF Serve, Revoke, Mute, Rotate, EndLeave, DropSpace, FinishJoin, world
  <1>4. ASSUME NEW p \in Peers, NEW t \in Tickets, Consume(p, t)
        PROVE  SpentInv'
    <2>1. /\ pending = t /\ t # None /\ pending' = None /\ file' = None
          /\ UNCHANGED <<tmp, task, admitted>> /\ knock[p] = None
      BY <1>4 DEF Consume, Forget, world
    <2>2. \A q \in Peers : knock'[q] =
              IF q = p THEN [ticket |-> t, space |-> names[t]] ELSE knock[q]
      BY <1>4 DEF Consume, RestOK, WorldOK
    <2>3. Spent' = Spent /\ Knocking' \subseteq Knocking \cup {t}
      BY <2>1, <2>2 DEF Spent, Knocking
    <2>4. t \notin Spent \cup Knocking /\ t # tmp /\ \A c \in Clients : task[c].ticket # t
      BY <2>1 DEF SpentInv, Kept
    <2>5. \A u \in Kept' : u # None => u \notin Spent' \cup Knocking'
      BY <2>1, <2>3, <2>4 DEF SpentInv, Kept
    <2>6. \A q \in Peers : knock'[q] # None =>
              /\ knock'[q].ticket \notin Spent'
              /\ \A r \in Peers \ {q} : knock'[r] # None => knock'[r].ticket # knock'[q].ticket
      BY <2>2, <2>3, <2>4 DEF SpentInv, Knocking
    <2>7. \A c \in Clients : task[c].ticket # None => task[c].ticket \notin Spent' \cup Knocking'
      BY <2>3, <2>4 DEF SpentInv
    <2> QED BY <2>1, <2>5, <2>6, <2>7 DEF SpentInv
  <1>5. ASSUME NEW p \in Peers, TooLate(p)
        PROVE  SpentInv'
    BY <1>5, SpentStays DEF TooLate, Forget, world
  <1>6. ASSUME NEW p \in Peers, Admit(p)
        PROVE  SpentInv'
    <2>1. UNCHANGED <<pending, tmp, file, task>> /\ knock[p] # None
      BY <1>6 DEF Admit
    <2>2. \A q \in Peers : knock'[q] = IF q = p THEN None ELSE knock[q]
      BY <1>6 DEF Admit, RestOK, WorldOK
    <2>3. CASE UNCHANGED admitted
      BY <2>1, <2>2, <2>3, SpentStays
    <2>4. CASE admitted' = admitted \cup
                  {[ticket |-> knock[p].ticket, peer |-> p, space |-> knock[p].space]}
      <3> DEFINE n == [ticket |-> knock[p].ticket, peer |-> p, space |-> knock[p].space]
                 t == knock[p].ticket
      <3>1. n.ticket = t /\ admitted' = admitted \cup {n}
        BY <2>4
      <3>2. t \notin Spent /\ t \in Knocking
        BY <2>1 DEF SpentInv, Knocking
      <3>3. \A q \in Peers \ {p} : knock[q] # None => knock[q].ticket # t
        BY <2>1 DEF SpentInv
      <3> HIDE DEF n, t
      <3>4. Spent' = Spent \cup {t}
        BY <3>1 DEF Spent
      <3>5. Knocking' \subseteq Knocking
        BY <2>2 DEF Knocking
      <3>6. \A a, b \in admitted' : a.ticket = b.ticket => a = b
        BY <3>1, <3>2 DEF SpentInv, Spent
      <3>7. \A q \in Peers : knock'[q] # None =>
              /\ knock'[q].ticket \notin Spent'
              /\ \A r \in Peers \ {q} : knock'[r] # None => knock'[r].ticket # knock'[q].ticket
        BY <2>2, <3>3, <3>4 DEF SpentInv
      <3>8. Spent' \cup Knocking' \subseteq Spent \cup Knocking
        BY <3>2, <3>4, <3>5
      <3>9. \A u \in Kept' : u # None => u \notin Spent' \cup Knocking'
        BY <2>1, <3>8 DEF SpentInv, Kept
      <3> QED BY <2>1, <3>6, <3>7, <3>8, <3>9 DEF SpentInv
    <2> QED BY <1>6, <2>3, <2>4 DEF Admit
  <1>7. ASSUME NEW i \in Ids, NEW P \in SUBSET Peers, Hear(i, P)
        PROVE  SpentInv'
    BY <1>7, SpentStays DEF Hear
  <1>8. ASSUME NEW t \in Tickets, Expire(t)
        PROVE  SpentInv'
    BY <1>8, SpentStays DEF Expire, node
  <1>9. CASE Restart
    BY <1>9, IdleTask, SpentStays DEF Restart, Reboot
  <1> QED
    BY <1>1, <1>2, <1>3, <1>4, <1>5, <1>6, <1>7, <1>8, <1>9 DEF Next, Elsewhere

-----------------------------------------------------------------------------
(* How a device begins.                                                    *)

LEMMA LoneGood ==
    ASSUME NEW i \in Own, NEW l \in Labels
    PROVE  Good(Lone(i, l), {}) /\ Held(Lone(i, l)) = {i} /\ Lone(i, l).label[i] = l
  <1> DEFINE lab == [j \in {i} |-> l]
             peo == [j \in {i} |-> {}]
  <1>1. /\ {i} \in SUBSET Ids /\ i \in {i}
        /\ lab \in [{i} -> Labels] /\ peo \in [{i} -> SUBSET Peers]
        /\ \A j, k \in {i} : lab[j] = lab[k] => j = k
        /\ \A j \in Own \cap {i} : peo[j] # {} => j \in {}
        /\ DOMAIN lab = {i} /\ lab[i] = l
    BY DEF Ids
  <1>2. Lone(i, l) = [label |-> lab, peers |-> peo, def |-> i]
    BY DEF Lone
  <1> HIDE DEF lab, peo
  <1>3. Good([label |-> lab, peers |-> peo, def |-> i], {})
    BY <1>1, GoodMake
  <1> QED BY <1>1, <1>2, <1>3 DEF Held

LEMMA InitBooks ==
    ASSUME Init
    PROVE  BookInv
  <1>1. Given = {}
    BY DEF Init, Given
  <1>2. PICK i \in Own, l \in Legal \ Counter :
            \/ spaces = Lone(i, l)
            \/ \E f \in Foreign, k \in Legal \ {l}, P \in SUBSET Peers :
                  P # {} /\ spaces = Insert(Lone(i, l), f, k, P)
    BY DEF Init
  <1>3. Good(Lone(i, l), {}) /\ Held(Lone(i, l)) = {i} /\ Lone(i, l).label[i] = l
    BY LoneGood, HomeAssumption
  <1>4. ASSUME NEW f \in Foreign, NEW k \in Legal \ {l}, NEW P \in SUBSET Peers
        PROVE  Good(Insert(Lone(i, l), f, k, P), {})
    <2>1. f \in Ids /\ f \notin Own /\ k \in Labels
      BY HomeAssumption DEF Ids
    <2>2. Free(Lone(i, l), k, f)
      BY <1>3 DEF Free
    <2> QED BY <1>3, <2>1, <2>2, InsertGood
  <1>5. Good(spaces, {})
    BY <1>2, <1>3, <1>4
  <1> QED BY <1>1, <1>5 DEF BookInv, Init

LEMMA InitRest ==
    ASSUME Init
    PROVE  RestOK /\ NamedInv /\ SpentInv
  <1>1. /\ \A c \in Clients : task[c] = Idle
        /\ \A p \in Peers : knock[p] = None
        /\ pending = None /\ tmp = None /\ file = None /\ admitted = {}
    BY DEF Init
  <1>2. TaskOK
    BY <1>1, IdleTask DEF Init, TaskOK, Placed
  <1>3. InviteOK /\ WorldOK
    BY <1>1, HomeAssumption DEF Init, InviteOK, WorldOK
  <1>4. NamedInv
    BY <1>1, IdleTask, HomeAssumption DEF NamedInv, AdmittedAsNamed
  <1>5. SpentInv
    BY <1>1, IdleTask DEF SpentInv, Kept
  <1> QED BY <1>2, <1>3, <1>4, <1>5 DEF RestOK

\* The inductive invariant, for devices whose disk may refuse a save or a removal.
HomeInv == RestOK /\ BookInv /\ NamedInv

LEMMA HomeInvariant == Spec => []HomeInv
  <1>1. Init => HomeInv
    BY InitBooks, InitRest DEF HomeInv
  <1>2. HomeInv /\ [Next]_vars => HomeInv'
    BY RestKept, BooksKept, NamedKept DEF HomeInv
  <1> QED BY <1>1, <1>2, PTL DEF Spec

-----------------------------------------------------------------------------
(* The theorems.                                                           *)

\* Every variable of spaces.rs, ticket.rs and their handlers keeps its type.
THEOREM HomeTypes == Spec => []TypeOK
  <1>1. HomeInv => TypeOK
    BY DEF HomeInv, RestOK, TaskOK, InviteOK, WorldOK, BookInv, Good, TypeOK, Task
  <1> QED BY <1>1, HomeInvariant, PTL

\* Whatever the handlers of spaces.rs do in any order, labels tell the spaces apart
\* and the default is held, in memory and on disk, which differ only after an answer
\* that said so.
THEOREM SpacesAreSound == Spec => []SpacesSound
  <1>1. HomeInv => SpacesSound
    BY DEF HomeInv, BookInv, Good, SpacesSound
  <1> QED BY <1>1, HomeInvariant, PTL

\* accept_join lets a device in where its ticket said and nowhere else, also when a
\* removal of invite.json fails and a used ticket comes back.
THEOREM AdmittedWhereNamed == Spec => []AdmittedAsNamed
  <1>1. HomeInv => AdmittedAsNamed
    BY DEF HomeInv, NamedInv
  <1> QED BY <1>1, HomeInvariant, PTL

\* A space founded here has members only if a ticket for it was used: rotate,
\* leave and new_space never carry any over.
THEOREM OnlyTheInvited == Spec => []InvitedIn
  <1>1. ASSUME BookInv, NEW i \in Own \cap Held(spaces), spaces.peers[i] # {}
        PROVE  \E a \in admitted : a.space = i
    BY <1>1 DEF BookInv, Good, Owned, Given
  <1>2. HomeInv => InvitedIn
    BY <1>1 DEF HomeInv, InvitedIn
  <1> QED BY <1>2, HomeInvariant, PTL

\* Where invite.json is removed when accept_join or cancel_open_invite asks for it, a
\* ticket lets in one device once, across restarts and any crossing of invites on
\* the one file and its temporary name.
THEOREM TicketsWorkOnce ==
    ASSUME "unlink" \notin Faults
    PROVE  Spec => []SingleUse
  <1>1. Init => SpentInv
    BY InitRest
  <1>2. HomeInv /\ SpentInv /\ [Next]_vars => SpentInv'
    BY SpentKept DEF HomeInv
  <1>3. Spec => []SpentInv
    BY <1>1, <1>2, HomeInvariant, PTL DEF Spec
  <1>4. ASSUME RestOK, SpentInv
        PROVE  SingleUse
    <2>1. \A a \in admitted : a.ticket # None
      BY <1>4, HomeAssumption DEF RestOK, WorldOK
    <2>2. \A p \in Peers : knock[p] # None => knock[p].ticket # None
      BY <1>4, HomeAssumption DEF RestOK, WorldOK
    <2>3. pending # None => pending \notin Spent \cup Knocking
      BY <1>4 DEF SpentInv, Kept
    <2> QED BY <1>4, <2>1, <2>2, <2>3 DEF SingleUse, SpentInv, Spent, Knocking
  <1>5. HomeInv /\ SpentInv => SingleUse
    BY <1>4 DEF HomeInv
  <1> QED BY <1>3, <1>5, HomeInvariant, PTL

-----------------------------------------------------------------------------
(* What no request asked for stays.                                        *)

\* The last space there is goes with whatever leave it is that finds it: the check
\* for the last one comes under a second lock (leave).
LastLeft(c, i) == task[c].req = "leave" /\ At(c, "finish") /\ Held(spaces) = {i}

\* There are finitely many spaces.
FewInv == IsFiniteSet(Held(spaces)) /\ IsFiniteSet(Held(disk))

LEMMA HeldReplace ==
    ASSUME NEW S, NEW i, NEW n, NEW P
    PROVE  Held(Replace(S, i, n, P)) = (Held(S) \ {i}) \cup {n}
  BY DEF Held, Replace, Put, Drop

LEMMA HeldRemove ==
    ASSUME NEW S, NEW i, NEW T \in Remove(S, i)
    PROVE  Held(T) = Held(S) \ {i}
  BY DEF Held, Remove, Drop

LEMMA HeldSame ==
    ASSUME NEW S, NEW A, Good(S, A), NEW i, NEW P
    PROVE  Held([S EXCEPT !.peers[i] = P]) = Held(S) /\ Held([S EXCEPT !.def = i]) = Held(S)
  <1>1. PICK a, b, d : S = [label |-> a, peers |-> b, def |-> d]
    BY GoodHave
  <1>2. /\ [S EXCEPT !.peers[i] = P].label = a
        /\ [S EXCEPT !.def = i].label = a
    BY <1>1
  <1> QED BY <1>1, <1>2 DEF Held

\* What a step does to what is held: it keeps all of it and adds one space at most;
\* or a connection gives up what it aims at; or the process starts again.
Holds == /\ Held(spaces) \subseteq Held(spaces')
         /\ \E n : Held(spaces') \subseteq Held(spaces) \cup {n}
Gives(c) == /\ Done(c)
            /\ \E i, n : /\ Aims(c, i) \/ LastLeft(c, i)
                       /\ Held(spaces') = (Held(spaces) \ {i}) \cup {n}
Gone(c) == /\ Done(c)
           /\ \E i : Aims(c, i) /\ Held(spaces') = Held(spaces) \ {i}
Reborn == spaces' = disk /\ disk' = disk

LEMMA OnlyOne ==
    ASSUME NEW S, IsFiniteSet(S), Cardinality(S) <= 1, NEW x \in S, NEW y \in S
    PROVE  x = y
  <1> SUFFICES ASSUME x # y
               PROVE  FALSE
    OBVIOUS
  <1>1. IsFiniteSet({x}) /\ Cardinality({x}) = 1
    BY FS_Singleton
  <1>2. Cardinality({x} \cup {y}) = 2 /\ {x} \cup {y} \in SUBSET S
    BY SMTT(30), <1>1, FS_AddElement
  <1>3. Cardinality({x} \cup {y}) <= Cardinality(S)
    BY <1>2, FS_Subset
  <1> QED BY <1>2, <1>3, FS_CardinalityType

\* The two ways to come by spaces from what is held now.
LEMMA HeldChange ==
    ASSUME NEW S, Change(S)
    PROVE  spaces' = S /\ disk' \in {disk, spaces'}
  BY DEF Change

\* What a step may do to what is held, in full.
LEMMA HeldStep ==
    ASSUME HomeInv, FewInv, [Next]_vars
    PROVE  /\ disk' \in {disk, spaces'}
           /\ Holds \/ Reborn \/ \E c \in Clients : Gives(c) \/ Gone(c)
  <1>0. /\ Good(spaces, Given) /\ Held(spaces) \in SUBSET Ids /\ spaces.def \in Held(spaces)
        /\ task \in [Clients -> Task] /\ \A c \in Clients : Placed(task[c])
    BY GoodHave DEF HomeInv, BookInv, RestOK, TaskOK
  <1>1. ASSUME disk' \in {disk, spaces'}, Held(spaces') = Held(spaces)
        PROVE  disk' \in {disk, spaces'} /\ Holds
    BY <1>1 DEF Holds
  <1>2. ASSUME spaces' = spaces, disk' = disk
        PROVE  disk' \in {disk, spaces'} /\ Holds
    BY <1>1, <1>2
  <1>3. ASSUME NEW i, NEW P, Change([spaces EXCEPT !.peers[i] = P])
        PROVE  disk' \in {disk, spaces'} /\ Holds
    <2>1. PICK S : S = [spaces EXCEPT !.peers[i] = P]
      OBVIOUS
    <2>2. Held(S) = Held(spaces)
      <3>1. PICK a, b, d : spaces = [label |-> a, peers |-> b, def |-> d]
        BY <1>0, GoodHave
      <3>2. S.label = a /\ spaces.label = a
        BY <2>1, <3>1
      <3> QED BY <3>2 DEF Held
    <2>3. spaces' = S /\ disk' \in {disk, spaces'}
      BY <1>3, <2>1, HeldChange
    <2> QED BY <1>1, <2>2, <2>3
  <1>4. ASSUME NEW c \in Clients, Ask(c)
        PROVE  disk' \in {disk, spaces'} /\ Holds
    <2>1. ASSUME NEW l \in Labels, New(c, l)
          PROVE  disk' \in {disk, spaces'} /\ Holds
      <3>1. PICK i \in Fresh :
               IF Settable(Insert(spaces, i, l, {}), i, l)
                 THEN Change([SetLabel(Insert(spaces, i, l, {}), i, l) EXCEPT !.def = i])
                 ELSE spaces' = Insert(spaces, i, l, {}) /\ disk' = disk
        BY <2>1 DEF New
      <3>2. PICK S : S = Insert(spaces, i, l, {})
        OBVIOUS
      <3>3. PICK T : T = SetLabel(S, i, l)
        OBVIOUS
      <3>4. i \in Ids /\ Free(spaces, l, i)
        BY <2>1 DEF New, Called, Free, Fresh, Ids
      <3>5. Good(S, Given) /\ Held(S) = Held(spaces) \cup {i}
        BY <1>0, <3>2, <3>4, InsertGood, HeldInsert
      <3>6. Good(T, Given) /\ Held(T) = Held(S)
        BY <3>3, <3>5, SetLabelGood, HeldSetLabel
      <3>7. Held([T EXCEPT !.def = i]) = Held(T)
        BY <3>6, HeldSame
      <3>8. disk' \in {disk, spaces'} /\ Held(spaces') = Held(spaces) \cup {i}
        BY <3>1, <3>2, <3>3, <3>5, <3>6, <3>7, HeldChange
      <3> QED BY <3>8 DEF Holds
    <2>2. ASSUME NEW i \in Ids, Default(c, i)
          PROVE  disk' \in {disk, spaces'} /\ Holds
      BY ZenonT(60), <1>0, <1>1, <2>2, HeldChange, HeldSame DEF Default
    <2>3. ASSUME NEW i \in Ids, NEW l \in Labels, Rename(c, i, l)
          PROVE  disk' \in {disk, spaces'} /\ Holds
      BY <1>0, <1>1, <2>3, HeldChange, HeldSetLabel DEF Rename
    <2> QED BY <1>2, <1>4, <2>1, <2>2, <2>3 DEF Ask, Begin, StartJoin, node
  <1>5. ASSUME NEW c \in Clients, Serve(c)
        PROVE  disk' \in {disk, spaces'} /\ (Holds \/ Reborn \/ Gives(c) \/ Gone(c))
    <2>1. CASE TakeInvite(c) \/ Unlink(c) \/ Resolve(c) \/ WriteTicket(c) \/ RenameTicket(c)
               \/ OpenInvite(c) \/ Mute(c) \/ Farewell(c)
      BY <1>2, <2>1 DEF TakeInvite, Unlink, Resolve, WriteTicket, RenameTicket, OpenInvite, Mute,
                        Farewell, node
    <2>2. CASE Revoke(c)
      BY <1>2, <1>3, <2>2 DEF Revoke
    <2>3. CASE Rotate(c)
      <3>1. CASE UNCHANGED <<spaces, disk, unsaved>>
        BY <1>2, <3>1
      <3>2. CASE \E n \in Fresh : Change(Replace(spaces, task[c].space, n, {}))
        <4>1. PICK n \in Fresh : Change(Replace(spaces, task[c].space, n, {}))
          BY <3>2
        <4>2. /\ disk' \in {disk, spaces'}
              /\ Held(spaces') = (Held(spaces) \ {task[c].space}) \cup {n}
          BY <4>1, HeldChange, HeldReplace
        <4>3. Aims(c, task[c].space) /\ Done(c)
          BY <2>3 DEF Rotate, Aims, At
        <4> QED BY <4>2, <4>3 DEF Gives
      <3> QED BY <2>3, <3>1, <3>2 DEF Rotate
    <2>4. CASE EndLeave(c)
      <3>0. Done(c) /\ Aims(c, task[c].space)
        BY <2>4 DEF EndLeave, Aims, At
      <3>1. CASE UNCHANGED <<spaces, disk, unsaved>>
        BY <1>2, <3>1
      <3>2. CASE Cardinality(Held(spaces)) <= 1 /\ \E n \in Fresh : Change(Replace(spaces, spaces.def, n, {}))
        <4>1. PICK n \in Fresh : Change(Replace(spaces, spaces.def, n, {}))
          BY <3>2
        <4>2. \A i \in Held(spaces) : i = spaces.def
          BY <1>0, <3>2, OnlyOne DEF FewInv
        <4>3. LastLeft(c, spaces.def)
          BY <1>0, <2>4, <4>2 DEF LastLeft, EndLeave
        <4>4. /\ disk' \in {disk, spaces'}
              /\ Held(spaces') = (Held(spaces) \ {spaces.def}) \cup {n}
          BY <4>1, HeldChange, HeldReplace
        <4> QED BY <3>0, <4>3, <4>4 DEF Gives
      <3>3. CASE \E S \in Remove(spaces, task[c].space) : Change(S)
        <4>1. disk' \in {disk, spaces'} /\ Held(spaces') = Held(spaces) \ {task[c].space}
          BY <3>3, HeldChange, HeldRemove
        <4> QED BY <3>0, <4>1 DEF Gone
      <3> QED BY <2>4, <3>1, <3>2, <3>3 DEF EndLeave
    <2>5. CASE DropSpace(c)
      <3>1. CASE UNCHANGED <<spaces, disk, unsaved>>
        BY <1>2, <3>1
      <3>2. CASE \E i \in Called(task[c].arg) : \E S \in Remove(spaces, i) : Change(S)
        <4>1. PICK i \in Called(task[c].arg) : \E S \in Remove(spaces, i) : Change(S)
          BY <3>2
        <4>2. disk' \in {disk, spaces'} /\ Held(spaces') = Held(spaces) \ {i}
          BY <4>1, HeldChange, HeldRemove
        <4>3. Aims(c, i) /\ Done(c)
          BY <2>5, <4>1 DEF DropSpace, Aims, At
        <4> QED BY <4>2, <4>3 DEF Gone
      <3> QED BY <2>5, <3>1, <3>2 DEF DropSpace
    <2>6. ASSUME NEW l \in Labels \cup {None}, NEW P \in SUBSET Peers, FinishJoin(c, l, P)
          PROVE  disk' \in {disk, spaces'} /\ (Holds \/ Gives(c))
      <3>1. PICK f : f = task[c].space
        OBVIOUS
      <3>2. PICK all : all = P \cup (IF f \in Held(spaces) THEN spaces.peers[f] ELSE {})
        OBVIOUS
      <3>3. f \in Foreign /\ f \in Ids /\ f \notin Own /\ task[c].arg \in Labels \cup {None}
        BY <1>0, <2>6, <3>1, HomeAssumption DEF FinishJoin, Placed, At, Task, Ids
      <3>4. all \in SUBSET Peers
        BY <1>0, <3>2, GoodHave
      <3>5. PICK m \in LabelFor(spaces, f, task[c].arg, l) :
              Change(SetLabel(IF Unshared(spaces) THEN Replace(spaces, spaces.def, f, all)
                                                  ELSE Insert(spaces, f, m, all), f, m))
        BY <2>6, <3>1, <3>2 DEF FinishJoin
      <3>6. m \in Labels /\ Free(spaces, m, f)
        BY <3>3, LabelForIs
      <3>7. CASE Unshared(spaces)
        <4>1. PICK S : S = Replace(spaces, spaces.def, f, all)
          OBVIOUS
        <4>2. Good(S, Given) /\ Held(S) = (Held(spaces) \ {spaces.def}) \cup {f}
          BY <1>0, <3>3, <3>4, <4>1, ReplaceGood, HeldReplace
        <4>3. disk' \in {disk, spaces'} /\ Held(spaces') = (Held(spaces) \ {spaces.def}) \cup {f}
          BY <3>5, <3>7, <4>1, <4>2, HeldSetLabel, HeldChange
        <4>4. Aims(c, spaces.def) /\ Done(c)
          BY <2>6, <3>7 DEF FinishJoin, Aims, At
        <4> QED BY <4>3, <4>4 DEF Gives
      <3>8. CASE ~Unshared(spaces)
        <4>1. PICK S : S = Insert(spaces, f, m, all)
          OBVIOUS
        <4>2. Good(S, Given) /\ Held(S) = Held(spaces) \cup {f}
          BY <1>0, <3>3, <3>4, <3>6, <4>1, InsertGood, HeldInsert
        <4>3. disk' \in {disk, spaces'} /\ Held(spaces') = Held(spaces) \cup {f}
          BY <3>5, <3>8, <4>1, <4>2, HeldSetLabel, HeldChange
        <4> QED BY <4>3 DEF Holds
      <3> QED BY <3>7, <3>8
    <2>7. CASE DieLeaving(c)
      BY <2>7 DEF DieLeaving, Reboot, Reborn
    <2> QED BY <1>5, <2>1, <2>2, <2>3, <2>4, <2>5, <2>6, <2>7 DEF Serve
  <1>6. CASE Elsewhere
    <2>1. ASSUME NEW p \in Peers, Admit(p)
          PROVE  disk' \in {disk, spaces'} /\ Holds
      BY <1>2, <1>3, <2>1 DEF Admit
    <2>2. ASSUME NEW i \in Ids, NEW P \in SUBSET Peers, Hear(i, P)
          PROVE  disk' \in {disk, spaces'} /\ Holds
      BY <1>3, <2>2 DEF Hear
    <2>3. CASE Restart
      BY <2>3 DEF Restart, Reboot, Reborn
    <2> QED BY <1>2, <1>6, <2>1, <2>2, <2>3 DEF Elsewhere, Consume, TooLate, Expire, node
  <1> QED BY <1>2, <1>4, <1>5, <1>6 DEF Next, vars, node

LEMMA FewKept ==
    ASSUME HomeInv, FewInv, [Next]_vars
    PROVE  FewInv'
  <1>1. /\ disk' \in {disk, spaces'}
        /\ Holds \/ Reborn \/ \E c \in Clients : Gives(c) \/ Gone(c)
    BY HeldStep
  <1>2. IsFiniteSet(Held(spaces'))
    <2>1. ASSUME NEW n, Held(spaces') \subseteq Held(spaces) \cup {n}
          PROVE  IsFiniteSet(Held(spaces'))
      BY <2>1, FS_AddElement, FS_Subset DEF FewInv
    <2>2. CASE Reborn
      BY <2>2 DEF Reborn, FewInv
    <2> QED BY <1>1, <2>1, <2>2 DEF Holds, Gives, Gone
  <1>3. IsFiniteSet(Held(disk'))
    BY <1>1, <1>2 DEF FewInv
  <1> QED BY <1>2, <1>3 DEF FewInv, Held

LEMMA FewInit == Init => FewInv
  <1> SUFFICES ASSUME Init
               PROVE  FewInv
    OBVIOUS
  <1>1. /\ \A c \in Clients : task[c] = Idle
        /\ disk = spaces
    BY DEF Init
  <1>2. \E i, f : Held(spaces) \subseteq {i} \cup {f}
    <2>1. PICK i \in Own, l \in Legal :
             \/ spaces = Lone(i, l)
             \/ \E f \in Foreign, k \in Legal \ {l}, P \in SUBSET Peers :
                   spaces = Insert(Lone(i, l), f, k, P)
      BY DEF Init
    <2>2. Held(Lone(i, l)) = {i}
      BY DEF Held, Lone
    <2>3. ASSUME NEW f, NEW k, NEW P
          PROVE  Held(Insert(Lone(i, l), f, k, P)) = {i} \cup {f}
      BY DEF Held, Insert, Lone, Put
    <2> QED BY <2>1, <2>2, <2>3
  <1>3. \A i, f : IsFiniteSet({i} \cup {f})
    BY FS_Singleton, FS_AddElement
  <1>4. IsFiniteSet(Held(spaces))
    BY <1>2, <1>3, FS_Subset
  <1> QED BY <1>1, <1>4 DEF FewInv

\* Leaving, rotating and dropping take the space they were asked to and joining only
\* an unshared default, whatever else is created, renamed, made the default, heard,
\* admitted or given up meanwhile; the one thing that may go without having been
\* named is the last space of all, refounded by a leave of another that is gone by
\* then.  A restart may take a space that was not saved.
NamedOrLast ==
    [][spaces' # disk => \A i \in Held(spaces) \ Held(spaces') :
            \E c \in Clients : (Aims(c, i) \/ LastLeft(c, i)) /\ task'[c] = Idle]_vars

\* No space goes that nobody named, but the last one of all (leave, rotate,
\* leave_space, do_join), for any number of connections whose handlers interleave.
THEOREM OnlyTheNamedOrTheLastGoes == Spec => NamedOrLast
  <1> DEFINE A == spaces' # disk => \A i \in Held(spaces) \ Held(spaces') :
                      \E c \in Clients : (Aims(c, i) \/ LastLeft(c, i)) /\ task'[c] = Idle
  <1>1. Init => FewInv
    BY FewInit
  <1>2. HomeInv /\ FewInv /\ [Next]_vars => FewInv'
    BY FewKept
  <1>3. ASSUME HomeInv, FewInv, [Next]_vars
        PROVE  [A]_vars
    <2> SUFFICES ASSUME spaces' # disk, NEW i \in Held(spaces) \ Held(spaces')
                 PROVE  \E c \in Clients : (Aims(c, i) \/ LastLeft(c, i)) /\ task'[c] = Idle
      OBVIOUS
    <2>1. \E c \in Clients : Gives(c) \/ Gone(c)
      BY <1>3, HeldStep DEF Holds, Reborn
    <2>2. PICK c \in Clients : Gives(c) \/ Gone(c)
      BY <2>1
    <2>3. task'[c] = Idle
      BY <1>3, <2>2 DEF Gives, Gone, Done, HomeInv, RestOK, TaskOK
    <2>4. Aims(c, i) \/ LastLeft(c, i)
      BY <2>2 DEF Gives, Gone
    <2> QED BY <2>3, <2>4
  <1>4. HomeInv /\ FewInv /\ [Next]_vars => [A]_vars
    BY <1>3
  <1> HIDE DEF A
  <1>5. Spec => [][A]_vars
    BY <1>1, <1>2, <1>4, HomeInvariant, PTL DEF Spec
  <1> QED BY <1>5 DEF NamedOrLast, A
=============================================================================
