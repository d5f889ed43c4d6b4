----------------------------- MODULE SaverProofs -----------------------------
(***************************************************************************)
(* What the saver of the history promises, for any number of tasks,        *)
(* changes and deaths, and any faults of writing.                          *)
(***************************************************************************)
EXTENDS Saver, TLAPS

\* How far the file and the attempts at it are.
Reached(n) == n <= file.has \/ n <= failed
Settled(n) == n \in {file.has, failed}

\* With a thread: every put hands over one more change, so a count of the mailbox
\* says which history was meant, and the thread is behind by what is pending.
Mailbox ==
    /\ Handed = base + queued
    /\ written <= mark /\ mark <= queued
    /\ pending \in {-1, base + queued}
    /\ pending = -1 => mark = queued
    /\ file.has <= base + mark /\ failed <= base + mark
    /\ Reached(base + written)
    /\ closer # "idle" => asked = base + want
    /\ thread = "writing" => /\ pen # "none" /\ sheet = base + mark
                             /\ pen = "over" => Settled(sheet)
    /\ thread # "writing" => pen = "none" /\ Settled(base + mark)
    /\ thread = "gone" => stopping /\ pending = -1

\* Without: the task that changed the history holds its lock until it has written.
Alone ==
    /\ file.has <= history /\ failed <= history
    /\ Reached(Handed)
    /\ pen # "none" => holder # None /\ sheet = history
    /\ pen = "over" => Settled(sheet)
    /\ closer \in {"idle", "back"}

Paper ==
    /\ pen \in {"sync", "name"} => tmp.has = sheet
    /\ pen = "name" => tmp.synced
    /\ file.synced /\ \A left \in before : left.synced

SaverInv ==
    /\ TypeOK /\ Paper
    /\ thread # "none" => Mailbox
    /\ thread = "none" => Alone
    /\ closer = "back" => Reached(asked)
    /\ stopping => holder = None
    /\ holder # None => history >= 1

LEMMA InitHolds == Init => SaverInv
  <1> USE SaverAssumption
  <1>1. ASSUME Init
        PROVE  TypeOK
    <2>1. 0 \in Versions /\ 0 \in 0 .. Deaths
      BY DEF Versions
    <2>2. Absent \in Contents
      BY <2>1 DEF Absent, Contents
    <2>3. thread \in {"none", "waiting"}
      BY <1>1 DEF Init
    <2> QED BY <1>1, <2>1, <2>2, <2>3 DEF Init, TypeOK
  <1>2. ASSUME Init
        PROVE  Mailbox \/ thread = "none"
    BY <1>2 DEF Init, Mailbox, Handed, Reached, Settled, Absent
  <1>3. ASSUME Init
        PROVE  Alone /\ Paper
    BY <1>3 DEF Init, Alone, Paper, Handed, Reached, Settled, Absent
  <1> QED BY <1>1, <1>2, <1>3 DEF Init, SaverInv

\* A process that begins with what the file has.
LEMMA BeginHolds ==
    ASSUME SaverInv, NEW found \in Versions, Begin(found), tmp' \in Contents,
           file' \in Contents, before' \subseteq Contents,
           file'.has = found, file'.synced, \A left \in before' : left.synced,
           deaths' \in 0 .. Deaths
    PROVE  SaverInv'
  <1> USE SaverAssumption DEF Begin
  <1>1. TypeOK'
    <2>1. 0 \in Versions
      BY DEF Versions
    <2>2. thread' \in {"none", "waiting"}
      OBVIOUS
    <2> QED BY <2>1, <2>2 DEF TypeOK
  <1>2. thread' # "none" => Mailbox'
    BY DEF Mailbox, Handed, Reached, Settled, Versions
  <1>3. Alone' /\ Paper'
    BY DEF Alone, Paper, Handed, Reached, Settled, Versions
  <1> QED BY <1>1, <1>2, <1>3 DEF SaverInv

LEMMA ChangeHolds ==
    ASSUME SaverInv, NEW c \in Callers, Change(c)
    PROVE  SaverInv'
  <1> USE SaverAssumption DEF Change, SaverInv, slot, disk, ghosts
  <1>0. Handed' = Handed /\ history \in Nat /\ history' = history + 1
    BY DEF Handed, TypeOK, Versions
  <1>1. TypeOK'
    BY DEF TypeOK, Versions
  <1>2. thread' # "none" => Mailbox'
    BY <1>0 DEF Mailbox, Reached, Settled
  <1>3. thread' = "none" => Alone'
    <2>1. thread = "none" => pen = "none"
      BY DEF Alone
    <2> QED BY <1>0, <2>1 DEF Alone, Reached, Settled, TypeOK, Contents, Versions
  <1>4. Paper' /\ (closer' = "back" => Reached(asked)') /\ (stopping' => holder' = None)
        /\ history' >= 1
    BY <1>0 DEF Paper, Reached
  <1> QED BY <1>1, <1>2, <1>3, <1>4

LEMMA PutHolds ==
    ASSUME SaverInv, NEW c \in Callers, Put(c)
    PROVE  SaverInv'
  <1> USE SaverAssumption DEF Put, Ring, SaverInv, disk, ghosts
  <1>0. /\ Mailbox /\ TypeOK /\ holder # None /\ thread # "none" /\ thread' # "none"
        /\ history = base + queued + 1 /\ Handed' = history
        /\ base \in Nat /\ queued \in Nat /\ mark \in Nat /\ history \in Versions
    BY DEF Mailbox, Handed, TypeOK, Versions
  <1>1. TypeOK'
    BY <1>0 DEF TypeOK, Versions
  <1>2. Mailbox'
    BY <1>0 DEF Mailbox, Reached, Settled, TypeOK
  <1>3. Paper' /\ (closer' = "back" => Reached(asked)')
    BY DEF Paper, Reached
  <1> QED BY <1>0, <1>1, <1>2, <1>3

LEMMA PutHereHolds ==
    ASSUME SaverInv, NEW c \in Callers, PutHere(c)
    PROVE  SaverInv'
  <1> USE SaverAssumption DEF PutHere, SaverInv, slot, disk, ghosts
  <1>0. Alone /\ TypeOK /\ thread' = "none" /\ holder # None
    BY DEF TypeOK
  <1>1. TypeOK'
    BY <1>0 DEF TypeOK
  <1>2. Alone'
    BY <1>0 DEF Alone, Reached, Settled, Handed, TypeOK, Contents, Versions
  <1>3. Paper' /\ (closer' = "back" => Reached(asked)')
    BY DEF Paper, Reached
  <1> QED BY <1>0, <1>1, <1>2, <1>3

LEMMA TakeHolds ==
    ASSUME SaverInv, Take
    PROVE  SaverInv'
  <1> USE SaverAssumption DEF Take, SaverInv, disk, ghosts
  <1>0. Mailbox /\ TypeOK /\ thread' # "none" /\ base \in Nat /\ queued \in Nat
        /\ mark \in Nat /\ Handed' = Handed
    BY DEF TypeOK, Versions, Handed
  <1>1. TypeOK'
    BY <1>0 DEF TypeOK, Versions
  <1>2. Mailbox'
    BY <1>0 DEF Mailbox, Reached, Settled, TypeOK, Contents, Versions
  <1>3. Paper' /\ (closer' = "back" => Reached(asked)')
    BY <1>0 DEF Paper, Reached, Mailbox
  <1> QED BY <1>0, <1>1, <1>2, <1>3

LEMMA SeenHolds ==
    ASSUME SaverInv, Seen
    PROVE  SaverInv'
  <1> USE SaverAssumption DEF Seen, SaverInv, disk, ghosts
  <1>0. Mailbox /\ TypeOK /\ thread' # "none" /\ base \in Nat /\ queued \in Nat
        /\ mark \in Nat /\ written \in Nat /\ Handed' = Handed
    BY DEF TypeOK, Versions, Handed
  <1>1. TypeOK'
    BY <1>0 DEF TypeOK, Versions
  <1>2. Mailbox'
    BY <1>0 DEF Mailbox, Reached, Settled, TypeOK, Contents, Versions
  <1>3. Paper' /\ (closer' = "back" => Reached(asked)')
    BY <1>0 DEF Paper, Reached
  <1> QED BY <1>0, <1>1, <1>2, <1>3

\* A step of write_private is taken by the thread or by a task that has the lock.
LEMMA WriterIs ==
    ASSUME SaverInv, pen # "none"
    PROVE  /\ thread # "none" => Mailbox /\ thread = "writing" /\ sheet = base + mark
           /\ thread = "none" => Alone /\ holder # None /\ sheet = history
           /\ Handed \in Int /\ base \in Nat /\ mark \in Nat /\ written \in Nat
           /\ sheet \in Nat /\ sheet \in Versions
           /\ file.has <= sheet /\ failed <= sheet /\ file.has \in Nat /\ failed \in Nat
  BY DEF SaverInv, Mailbox, Alone, TypeOK, Contents, Versions, Handed

\* It keeps the invariant if the file or the failures get to the sheet or stay.
LEMMA WriteKeeps ==
    ASSUME SaverInv, pen # "none", pen' \in {"fill", "sync", "name", "over"},
           UNCHANGED <<history, holder, slot, thread, mark, closer, want, sheet, asked, base>>,
           TypeOK', Paper',
           file'.has \in {file.has, sheet}, failed' \in {failed, sheet},
           pen' = "over" => sheet \in {file'.has, failed'}
    PROVE  SaverInv'
  <1>0. /\ thread # "none" => Mailbox /\ thread = "writing" /\ sheet = base + mark
        /\ thread = "none" => Alone /\ holder # None /\ sheet = history
        /\ Handed \in Int /\ base \in Nat /\ mark \in Nat /\ written \in Nat /\ asked \in Nat
        /\ sheet \in Nat /\ file.has <= sheet /\ failed <= sheet
        /\ file.has \in Nat /\ failed \in Nat
    BY WriterIs DEF SaverInv, TypeOK, Versions
  <1>1. Handed' = Handed
    BY DEF Handed
  <1>2. file'.has >= file.has /\ failed' >= failed /\ file'.has <= sheet /\ failed' <= sheet
        /\ file'.has \in Nat /\ failed' \in Nat
    BY <1>0
  <1>3. \A n \in Int : Reached(n) => n <= file'.has \/ n <= failed'
    BY <1>0, <1>2 DEF Reached
  <1>4. thread' # "none" => Mailbox'
    BY <1>0, <1>1, <1>2, <1>3 DEF Mailbox, Reached, Settled, slot
  <1>5. thread' = "none" => Alone'
    BY <1>0, <1>1, <1>2, <1>3 DEF Alone, Reached, Settled, slot
  <1>6. closer' = "back" => Reached(asked)'
    BY <1>0, <1>3 DEF SaverInv, Reached
  <1> QED BY <1>4, <1>5, <1>6 DEF SaverInv, slot

LEMMA WriteHolds ==
    ASSUME SaverInv, WriteStep
    PROVE  /\ SaverInv'
           /\ deaths' = deaths /\ file'.has >= file.has
  <1>0. sheet \in Versions /\ tmp \in Contents /\ file \in Contents /\ before \subseteq Contents
        /\ pen # "none" /\ file.has <= sheet /\ 0 \in Versions /\ sheet \in Nat /\ file.has \in Nat
    BY WriterIs, SaverAssumption
    DEF SaverInv, TypeOK, WriteStep, Open, Fill, Sync, Name, Fail, Writing, Versions, Contents
  <1>1. CASE Open
    <2>1. [has |-> 0, synced |-> FALSE] \in Contents
      BY <1>0 DEF Contents
    <2>2. TypeOK' /\ Paper'
      BY <1>1, <2>1 DEF Open, Writing, SaverInv, TypeOK, Paper, slot
    <2> QED BY <1>0, <1>1, <2>2, WriteKeeps DEF Open, Writing
  <1>2. CASE Fill
    <2>1. [has |-> sheet, synced |-> FALSE] \in Contents
      BY <1>0 DEF Contents
    <2>2. TypeOK' /\ Paper'
      BY <1>2, <2>1 DEF Fill, Writing, SaverInv, TypeOK, Paper, slot
    <2> QED BY <1>0, <1>2, <2>2, WriteKeeps DEF Fill, Writing
  <1>3. CASE Sync
    <2>1. [tmp EXCEPT !.synced = TRUE] \in Contents
          /\ [tmp EXCEPT !.synced = TRUE].has = tmp.has /\ [tmp EXCEPT !.synced = TRUE].synced
      BY <1>0 DEF Contents
    <2>2. TypeOK' /\ Paper'
      BY <1>3, <2>1 DEF Sync, Writing, SaverInv, TypeOK, Paper, slot
    <2> QED BY <1>0, <1>3, <2>2, WriteKeeps DEF Sync, Writing
  <1>4. CASE Name
    <2>1. tmp.has = sheet /\ tmp.synced /\ Absent \in Contents
      BY <1>0, <1>4 DEF Name, Writing, SaverInv, Paper, Absent, Contents
    <2>2. TypeOK' /\ Paper'
      BY <1>0, <1>4, <2>1 DEF Name, Writing, SaverInv, TypeOK, Paper, slot
    <2> QED BY <1>0, <1>4, <2>1, <2>2, WriteKeeps DEF Name, Writing
  <1>5. CASE Fail
    <2>1. Absent \in Contents /\ pen' = "over"
      BY <1>0, <1>5 DEF Fail, Writing, Absent, Contents
    <2>2. TypeOK' /\ Paper'
      BY <1>0, <1>5, <2>1 DEF Fail, Writing, SaverInv, TypeOK, Paper, slot
    <2> QED BY <1>0, <1>5, <2>1, <2>2, WriteKeeps DEF Fail, Writing
  <1> QED BY <1>1, <1>2, <1>3, <1>4, <1>5 DEF WriteStep

LEMMA FlushHolds ==
    ASSUME SaverInv, Flush
    PROVE  SaverInv'
  <1> USE SaverAssumption DEF Flush, SaverInv, slot, disk
  <1>0. /\ TypeOK /\ Handed' = Handed /\ history \in Nat /\ base \in Nat /\ queued \in Nat
        /\ written \in Nat /\ mark \in Nat /\ file.has \in Nat /\ failed \in Nat
        /\ Handed \in Versions
    BY DEF TypeOK, Versions, Handed, Contents
  <1>1. TypeOK'
    BY <1>0 DEF TypeOK
  <1>2. thread' # "none" => Mailbox' /\ (closer' = "back" => Reached(asked)')
    BY <1>0 DEF Mailbox, Reached, Settled
  <1>3. thread' = "none" => Alone' /\ (closer' = "back" => Reached(asked)')
    BY <1>0 DEF Alone, Reached, Settled
  <1>4. Paper'
    BY DEF Paper
  <1> QED BY <1>1, <1>2, <1>3, <1>4

LEMMA RecheckHolds ==
    ASSUME SaverInv, Recheck
    PROVE  SaverInv'
  <1> USE SaverAssumption DEF Recheck, SaverInv, slot, disk, ghosts
  <1>0. /\ TypeOK /\ thread # "none" /\ Mailbox /\ Handed' = Handed /\ base \in Nat
        /\ want \in Nat /\ written \in Nat /\ file.has \in Nat /\ failed \in Nat
    BY DEF TypeOK, Versions, Handed, Contents, Alone
  <1>1. TypeOK'
    BY <1>0 DEF TypeOK
  <1>2. Mailbox' /\ (closer' = "back" => Reached(asked)')
    BY <1>0 DEF Mailbox, Reached, Settled
  <1>3. Paper'
    BY DEF Paper
  <1> QED BY <1>0, <1>1, <1>2, <1>3

LEMMA DropHolds ==
    ASSUME SaverInv, Drop
    PROVE  SaverInv'
  <1> USE SaverAssumption DEF Drop, Ring, SaverInv, disk, ghosts
  <1>0. TypeOK /\ Handed' = Handed
    BY DEF Handed
  <1>1. TypeOK'
    BY <1>0 DEF TypeOK
  <1>2. thread' # "none" => Mailbox'
    BY <1>0 DEF Mailbox, Reached, Settled
  <1>3. thread' = "none" => Alone'
    BY <1>0 DEF Alone, Reached, Settled
  <1>4. Paper' /\ (closer' = "back" => Reached(asked)')
    BY DEF Paper, Reached
  <1> QED BY <1>0, <1>1, <1>2, <1>3, <1>4

LEMMA StayHolds ==
    ASSUME SaverInv, UNCHANGED <<history, holder, slot, thread, mark, closer, want, pen, sheet,
                                 tmp, file, ghosts>>,
           before' \subseteq before
    PROVE  SaverInv'
  <1> USE DEF SaverInv, slot, ghosts
  <1>1. TypeOK' /\ Paper'
    BY DEF TypeOK, Paper
  <1>2. thread' # "none" => Mailbox'
    BY DEF Mailbox, Handed, Reached, Settled
  <1>3. thread' = "none" => Alone'
    BY DEF Alone, Handed, Reached, Settled
  <1> QED BY <1>1, <1>2, <1>3 DEF Reached

LEMMA DeathHolds ==
    ASSUME SaverInv, Kill \/ PowerCut
    PROVE  SaverInv' /\ deaths' # deaths
  <1>0. deaths \in Nat /\ deaths' = deaths + 1 /\ deaths' \in 0 .. Deaths
    BY SaverAssumption DEF Kill, PowerCut, SaverInv, TypeOK
  <1>1. CASE Kill
    <2>1. file.has \in Versions /\ file.synced /\ \A left \in before : left.synced
      BY DEF SaverInv, TypeOK, Contents, Paper
    <2>2. SaverInv'
      BY <1>0, <1>1, <2>1, BeginHolds DEF Kill, disk, SaverInv, TypeOK
    <2> QED BY <1>0, <2>2
  <1>2. CASE PowerCut
    <2>1. PICK left \in before \cup {file} :
            file' = left /\ Begin(IF left.synced THEN left.has ELSE 0)
      BY <1>2 DEF PowerCut
    <2>2. left \in Contents /\ left.has \in Versions /\ left.synced
      BY DEF SaverInv, TypeOK, Contents, Paper
    <2>3. tmp' \in Contents /\ before' = {}
      BY <1>2, SaverAssumption DEF PowerCut, Absent, Contents, Versions
    <2>4. SaverInv'
      BY <1>0, <2>1, <2>2, <2>3, BeginHolds
    <2> QED BY <1>0, <2>4
  <1> QED BY <1>1, <1>2

\* Every step keeps the invariant, and the file.
LEMMA StepHolds ==
    ASSUME SaverInv, [Next]_vars
    PROVE  SaverInv' /\ (deaths' = deaths => file'.has >= file.has)
  <1>0. file.has \in Nat
    BY DEF SaverInv, TypeOK, Contents, Versions
  <1>1. CASE UNCHANGED vars
    BY <1>0, <1>1, StayHolds DEF vars, disk
  <1>2. ASSUME NEW c \in Callers, Change(c) \/ Put(c) \/ PutHere(c)
        PROVE  SaverInv' /\ file'.has >= file.has
    BY <1>0, <1>2, ChangeHolds, PutHolds, PutHereHolds DEF Change, Put, PutHere, disk
  <1>3. CASE ThreadStep
    BY <1>0, <1>3, TakeHolds, SeenHolds DEF ThreadStep, Take, Seen, disk
  <1>4. CASE WriteStep
    BY <1>4, WriteHolds
  <1>5. CASE Flush \/ Recheck \/ Drop
    <2>1. UNCHANGED file
      BY <1>5 DEF Flush, Recheck, Drop, disk
    <2> QED BY <1>0, <1>5, <2>1, FlushHolds, RecheckHolds, DropHolds
  <1>6. CASE Kill \/ PowerCut
    BY <1>6, DeathHolds
  <1>7. CASE Settle
    BY <1>0, <1>7, StayHolds DEF Settle
  <1> QED BY <1>1, <1>2, <1>3, <1>4, <1>5, <1>6, <1>7 DEF Next

LEMMA SaverInvariant == Spec => []SaverInv
  <1>1. SaverInv /\ [Next]_vars => SaverInv'
    BY StepHolds
  <1> QED BY <1>1, InitHolds, PTL DEF Spec

-----------------------------------------------------------------------------
(* The theorems.                                                           *)

\* The mailbox's counts, the two files and the handlers' places keep their types.
THEOREM SaverTypes == Spec => []TypeOK
  <1>1. SaverInv => TypeOK
    BY DEF SaverInv
  <1> QED BY <1>1, SaverInvariant, PTL

\* When Saver::flush returns, what had been handed over is in the file, or the write
\* of it or of something later has failed.
THEOREM FlushSaves == Spec => []FlushMeansSaved
  <1>1. SaverInv => FlushMeansSaved
    BY DEF SaverInv, FlushMeansSaved, Reached
  <1> QED BY <1>1, SaverInvariant, PTL

\* write_loop ends only when the whole history is in the file, or the write of the
\* whole of it has failed.
THEOREM SaverEndsSaved == Spec => []LastWord
  <1>1. ASSUME SaverInv, thread = "gone"
        PROVE  history \in {file.has, failed}
    <2>1. Mailbox /\ holder = None
      BY <1>1 DEF SaverInv, Mailbox
    <2> QED BY <1>1, <2>1 DEF Mailbox, Handed, Settled
  <1>2. SaverInv => LastWord
    BY <1>1 DEF LastWord
  <1> QED BY <1>2, SaverInvariant, PTL

\* write_private never replaces a history by an earlier one while the process lives,
\* nor lets the name stand for a file that is not synced.
THEOREM FileNeverDamaged == Spec => NeverDamaged
  <1>1. ASSUME SaverInv, SaverInv', [Next]_vars
        PROVE  [/\ deaths' = deaths => file'.has >= file.has
                /\ \A left \in before' \cup {file'} : left.synced]_vars
    <2>1. deaths' = deaths => file'.has >= file.has
      BY <1>1, StepHolds
    <2>2. \A left \in before' \cup {file'} : left.synced
      BY <1>1 DEF SaverInv, Paper
    <2> QED BY <2>1, <2>2
  <1>2. SaverInv /\ SaverInv' /\ [Next]_vars
          => [/\ deaths' = deaths => file'.has >= file.has
              /\ \A left \in before' \cup {file'} : left.synced]_vars
    BY <1>1
  <1> QED BY <1>2, SaverInvariant, PTL DEF Spec, NeverDamaged

=============================================================================
