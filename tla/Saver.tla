------------------------------- MODULE Saver -------------------------------
(***************************************************************************)
(* How the history reaches its file (core/history.rs, core/store.rs): the  *)
(* tasks that change it serialise it under its lock and put the bytes into *)
(* a mailbox with one slot, from which a thread writes them to a temporary *)
(* file that it renames.  A history is the number of changes it contains.  *)
(***************************************************************************)
EXTENDS Integers

CONSTANTS Callers,      \* tasks that record messages and outcomes
          Threads,      \* whether the thread may be had, and whether it may be lacking
          Faults,       \* "write": any step of a write fails; "kill": the process
                        \* ends; "power": the machine does
          Changes,      \* bound: changes that are made
          Deaths,       \* bound: ends of the process
          None

ASSUME SaverAssumption ==
    /\ Callers # {} /\ None \notin Callers
    /\ Threads \subseteq BOOLEAN /\ Threads # {}
    /\ Faults \subseteq {"write", "kill", "power"}
    /\ Changes \in Nat /\ Deaths \in Nat

VARIABLES
    history,            \* the changes in memory
    holder,             \* who holds the history's lock, having changed it
    pending,            \* SlotState: the snapshot that waits, or -1
    queued, written,    \* SlotState: snapshots handed over, and seen to
    stopping,           \* SlotState: the saver is being dropped
    thread, mark,       \* write_loop, and the count it took the snapshot at
    closer, want,       \* a call of flush, and the count it waits for
    pen, sheet,         \* write_private: its next step, and its bytes
    tmp, file,          \* the two files
    before,             \* what the name may stand for after the power fails
    asked,              \* history: what was put when flush was called
    failed,             \* history: the latest snapshot whose write failed
    base,               \* history: what this process loaded
    deaths

slot == <<pending, queued, written, stopping>>
disk == <<tmp, file, before>>
ghosts == <<asked, failed, base, deaths>>
vars == <<history, holder, slot, thread, mark, closer, want, pen, sheet, disk, ghosts>>

Versions == 0 .. Changes
Contents == [has : Versions, synced : BOOLEAN]
Absent == [has |-> 0, synced |-> TRUE]

TypeOK ==
    /\ history \in Versions /\ holder \in Callers \cup {None}
    /\ pending \in Versions \cup {-1} /\ stopping \in BOOLEAN
    /\ {queued, written, mark, want} \subseteq Versions
    /\ thread \in {"none", "waiting", "asleep", "writing", "gone"}
    /\ closer \in {"idle", "asleep", "woken", "back"}
    /\ pen \in {"none", "open", "fill", "sync", "name", "over"}
    /\ sheet \in Versions
    /\ tmp \in Contents /\ file \in Contents /\ before \subseteq Contents
    /\ {asked, failed, base} \subseteq Versions
    /\ deaths \in 0 .. Deaths

\* Mutant: a file that cannot be read is taken for an empty one, and any file is.
BeginEmpty(found) ==
    /\ history' = 0 /\ base' = 0 /\ asked' = 0 /\ failed' = 0
    /\ holder' = None /\ closer' = "idle" /\ want' = 0
    /\ pending' = -1 /\ queued' = 0 /\ written' = 0 /\ stopping' = FALSE
    /\ thread' \in {IF had THEN "waiting" ELSE "none" : had \in Threads}
    /\ mark' = 0 /\ pen' = "none" /\ sheet' = 0

\* What History::load finds, and Saver::spawn; the rest is as a process begins.
Begin(found) ==
    /\ history' = found /\ base' = found /\ asked' = found /\ failed' = 0
    /\ holder' = None /\ closer' = "idle" /\ want' = 0
    /\ pending' = -1 /\ queued' = 0 /\ written' = 0 /\ stopping' = FALSE
    /\ thread' \in {IF had THEN "waiting" ELSE "none" : had \in Threads}
    /\ mark' = 0 /\ pen' = "none" /\ sheet' = 0

Init ==
    /\ history = 0 /\ base = 0 /\ asked = 0 /\ failed = 0
    /\ holder = None /\ closer = "idle" /\ want = 0
    /\ pending = -1 /\ queued = 0 /\ written = 0 /\ stopping = FALSE
    /\ thread \in {IF had THEN "waiting" ELSE "none" : had \in Threads}
    /\ mark = 0 /\ pen = "none" /\ sheet = 0
    /\ tmp = Absent /\ file = Absent /\ before = {}
    /\ deaths = 0

\* What has been put: all but a change whose task still holds the lock.
Handed == IF holder = None THEN history ELSE history - 1
\* Every put and every write wakes all that wait.
Ring ==
    /\ thread' = IF thread = "asleep" THEN "waiting" ELSE thread
    /\ closer' = IF closer = "asleep" THEN "woken" ELSE closer

-----------------------------------------------------------------------------
(* The tasks: remember, remember_outcome, hand_to_saver. *)

Change(c) ==
    /\ holder = None /\ ~stopping /\ history < Changes
    /\ history' = history + 1
    /\ holder' = c
    /\ UNCHANGED <<slot, thread, mark, closer, want, pen, sheet, disk, ghosts>>

Put(c) ==
    /\ holder = c /\ thread # "none"
    /\ pending' = history
    /\ queued' = queued + 1
    /\ Ring
    /\ holder' = None
    /\ UNCHANGED <<history, written, stopping, mark, want, pen, sheet, disk, ghosts>>

\* Without a thread the task writes, and holds the lock until it has.
PutHere(c) ==
    /\ holder = c /\ thread = "none"
    /\ \/ pen = "none" /\ pen' = "open" /\ sheet' = history /\ UNCHANGED holder
       \/ pen = "over" /\ pen' = "none" /\ holder' = None /\ UNCHANGED sheet
    /\ UNCHANGED <<history, slot, thread, mark, closer, want, disk, ghosts>>

-----------------------------------------------------------------------------
(* write_loop. *)

\* Mutant: it stops as soon as it is asked to.
TakeStops ==
    /\ thread = "waiting"
    /\ \/ /\ pending # -1 /\ ~stopping
          /\ mark' = queued /\ sheet' = pending /\ pending' = -1
          /\ thread' = "writing" /\ pen' = "open"
       \/ /\ pending = -1 \/ stopping
          /\ thread' = IF stopping THEN "gone" ELSE "asleep"
          /\ UNCHANGED <<mark, sheet, pending, pen>>
    /\ UNCHANGED <<history, holder, queued, written, stopping, closer, want, disk, ghosts>>


Take ==
    /\ thread = "waiting"
    /\ \/ /\ pending # -1
          /\ mark' = queued /\ sheet' = pending /\ pending' = -1
          /\ thread' = "writing" /\ pen' = "open"
       \/ /\ pending = -1
          /\ thread' = IF stopping THEN "gone" ELSE "asleep"
          /\ UNCHANGED <<mark, sheet, pending, pen>>
    /\ UNCHANGED <<history, holder, queued, written, stopping, closer, want, disk, ghosts>>

\* Mutants: all that is in the mailbox counts as written; flush is not woken.
SeenAll ==
    /\ thread = "writing" /\ pen = "over"
    /\ written' = queued
    /\ thread' = "waiting" /\ pen' = "none"
    /\ closer' = IF closer = "asleep" THEN "woken" ELSE closer
    /\ UNCHANGED <<history, holder, pending, queued, stopping, mark, want, sheet, disk, ghosts>>
SeenSilent ==
    /\ thread = "writing" /\ pen = "over"
    /\ written' = IF mark > written THEN mark ELSE written
    /\ thread' = "waiting" /\ pen' = "none"
    /\ UNCHANGED <<history, holder, pending, queued, stopping, mark, closer, want, sheet, disk, ghosts>>

\* Also after a write that failed.
Seen ==
    /\ thread = "writing" /\ pen = "over"
    /\ written' = IF mark > written THEN mark ELSE written
    /\ thread' = "waiting" /\ pen' = "none"
    /\ closer' = IF closer = "asleep" THEN "woken" ELSE closer
    /\ UNCHANGED <<history, holder, pending, queued, stopping, mark, want, sheet, disk, ghosts>>

-----------------------------------------------------------------------------
(* write_private: a file beside the target, its bytes, sync_all, rename. *)

Writing(place, next) ==
    /\ pen = place
    /\ pen' = next
    /\ UNCHANGED <<history, holder, slot, thread, mark, closer, want, sheet, asked, base, deaths>>

Open ==
    /\ Writing("open", "fill")
    /\ tmp' = [has |-> 0, synced |-> FALSE]
    /\ UNCHANGED <<file, before, failed>>
\* Until it is synced a file may be empty after the power fails.
Fill ==
    /\ Writing("fill", "sync")
    /\ tmp' = [has |-> sheet, synced |-> FALSE]
    /\ UNCHANGED <<file, before, failed>>


Sync ==
    /\ Writing("sync", "name")
    /\ tmp' = [tmp EXCEPT !.synced = TRUE]
    /\ UNCHANGED <<file, before, failed>>
\* The directory is not synced: the name may come back to what it stood for.
Name ==
    /\ Writing("name", "over")
    /\ file' = tmp
    /\ tmp' = Absent
    /\ before' = IF "power" \in Faults THEN before \cup {file} ELSE before
    /\ UNCHANGED failed
\* What is left of the temporary file is truncated by the next write.
Fail ==
    /\ "write" \in Faults
    /\ \E place \in {"open", "fill", "sync", "name"} : Writing(place, "over")
    /\ failed' = sheet
    /\ tmp' = IF pen = "name" THEN Absent ELSE tmp
    /\ UNCHANGED <<file, before>>

-----------------------------------------------------------------------------
(* The end: Node::close, the drop of the saver, an exit. *)

Flush ==
    /\ closer \in {"idle", "back"} /\ ~stopping
    /\ want' = queued /\ asked' = Handed
    /\ closer' = IF written < queued /\ thread # "none" THEN "asleep" ELSE "back"
    /\ UNCHANGED <<history, holder, slot, thread, mark, pen, sheet, disk, failed, base, deaths>>

Recheck ==
    /\ closer = "woken"
    /\ closer' = IF written < want THEN "asleep" ELSE "back"
    /\ UNCHANGED <<history, holder, slot, thread, mark, want, pen, sheet, disk, ghosts>>

\* Nobody else has the saver any more; it is gone when the thread is.
Drop ==
    /\ ~stopping /\ holder = None /\ closer \in {"idle", "back"}
    /\ stopping' = TRUE
    /\ Ring
    /\ UNCHANGED <<history, holder, pending, queued, written, mark, want, pen, sheet, disk, ghosts>>

\* process::exit, or the process is killed; then it is started again.
Kill ==
    /\ "kill" \in Faults /\ deaths < Deaths
    /\ deaths' = deaths + 1
    /\ Begin(file.has)
    /\ UNCHANGED disk

PowerCut ==
    /\ "power" \in Faults /\ deaths < Deaths
    /\ deaths' = deaths + 1
    /\ \E left \in before \cup {file} :
          /\ file' = left
          /\ Begin(IF left.synced THEN left.has ELSE 0)
    /\ tmp' = Absent /\ before' = {}

\* In its own time the file system writes the directory.
Settle ==
    /\ before # {} /\ before' = {}
    /\ UNCHANGED <<history, holder, slot, thread, mark, closer, want, pen, sheet, tmp, file, ghosts>>

-----------------------------------------------------------------------------
ThreadStep == Take \/ Seen
WriteStep == Open \/ Fill \/ Sync \/ Name \/ Fail

Next ==
    \/ \E c \in Callers : Change(c) \/ Put(c) \/ PutHere(c)
    \/ ThreadStep \/ WriteStep
    \/ Flush \/ Recheck \/ Drop \/ Kill \/ PowerCut \/ Settle

Spec == Init /\ [][Next]_vars

\* Threads that can run do run.
FairSpec ==
    Spec /\ WF_vars(ThreadStep) /\ WF_vars(WriteStep) /\ WF_vars(Recheck)
         /\ \A c \in Callers : WF_vars(Put(c) \/ PutHere(c))

-----------------------------------------------------------------------------
(* Properties. *)

\* When flush returns, the file has all that had been handed over, or the write of
\* it, or of something later, has failed: though the mailbox drops snapshots and
\* fewer writes are made than asked for.
FlushMeansSaved == closer = "back" => asked <= file.has \/ asked <= failed

\* The saver is dropped only after its last word: the file has the whole history,
\* or the attempt to write the whole of it failed.
LastWord == thread = "gone" => history \in {file.has, failed}

\* The file goes from a history to a later one, in one life and from one to the
\* next; and whatever the name may stand for when the power fails has its bytes.
NeverDamaged ==
    [][/\ deaths' = deaths => file'.has >= file.has
       /\ \A left \in before' \cup {file'} : left.synced]_vars

\* flush returns: no wakeup is lost, and no write is waited for that the mailbox
\* has made needless.
FlushReturns == closer \in {"asleep", "woken"} ~> closer \in {"back", "idle"}

\* What flush has told to be saved is there after every end of the process ("so that
\* a crash cannot lose it").
PromiseKept ==
    [][deaths' > deaths /\ closer = "back" => base' >= asked \/ failed >= asked]_vars
=============================================================================
