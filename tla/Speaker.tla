------------------------------- MODULE Speaker -------------------------------
(***************************************************************************)
(* The speaking queue of a device and the thread that drains it            *)
(* (clispeak-core/src/queue.rs), at the granularity of its lock: every     *)
(* action below is one critical section, one call of the engine, or one    *)
(* report.  Callers (CLI requests, peers, the app) run concurrently with   *)
(* the speaking thread and with each other; what a call does after it has  *)
(* released the lock (telling callers, stopping the engine) is a step of   *)
(* its own, because other threads run in between.                          *)
(***************************************************************************)
EXTENDS Naturals, Sequences, SequencesExt

CONSTANTS
    Jobs,       \* the jobs that may be handed over; each has its own `done`
    MsgIds,     \* message ids: two jobs share one when a message is replayed
    Voices,     \* the voices the engine has installed
    None,       \* Option::None
    Clients,    \* threads that call the speaker
    IdOf,       \* Job::msg_id
    GatingOf,   \* Job::gating: "high" and "sent" are Sent(priority), "asked" is a replay
    Chunks,     \* how many chunks a job has
    VoiceOf,    \* the installed voice a job asks for; None also when it is not installed
    Controls,   \* the calls that clients make, besides submitting
    Faults      \* the ways an engine may fail a chunk

Gatings   == {"high", "sent", "asked"}
AllCalls  == {"skip", "stop", "clear", "pause", "mute", "voice", "shutdown"}
AllFaults == {"failed", "unavailable"}

\* Where a job can be, besides with a client.
Spots == {"urgent", "normal", "resume", "thread", "told"}

ASSUME SpeakerAssumption ==
    /\ Clients \cap Spots = {}
    /\ None \notin Jobs \cup MsgIds \cup Voices
    /\ IdOf \in [Jobs -> MsgIds]
    /\ GatingOf \in [Jobs -> Gatings]
    /\ Chunks \in [Jobs -> Nat]
    /\ VoiceOf \in [Jobs -> Voices \cup {None}]
    /\ Controls \subseteq AllCalls
    /\ Faults \subseteq AllFaults

VARIABLES
    \* Inner, the state behind the lock
    urgent, resume, normal, cut, paused, speaking, shutdown,
    \* what is left of each job: the chunk its remainder begins at
    at,
    \* the speaking thread: its position, the job it has taken, the chunk it
    \* is at, what the engine returned, the outcome, the voice to put back
    wpc, job, index, spoke, verdict, restore,
    \* the engine's voice, and the device policy's mute
    voice, muted,
    \* callers past their critical section: where, and jobs they still must tell
    cpc, todo,
    \* history: order of submission, what on_finish was told, which call last
    \* aimed at a job, jobs with a chunk the engine cut short and the thread
    \* took for spoken, and the voice a person chose last
    accepted, told, doomed, clipped, chosen

queue  == <<urgent, resume, normal>>
hand   == <<job, index, spoke, verdict, restore>>
books  == <<accepted, told, doomed, clipped, chosen>>
vars   == <<queue, cut, paused, speaking, shutdown, at, wpc, hand, voice,
            muted, cpc, todo, books>>

Outcomes == {"spoken", "cancelled", "muted", "noEngine", "unreachable"}

\* Positions of the thread: between taking a job and checking its cut for the
\* last time, and all positions at which `speaking` names a message.
Mid     == {"ask", "speak", "sounding", "killed", "check"}
Talking == Mid \cup {"putback", "restore", "leave"}

Urgent(j) == GatingOf[j] = "high"

Waiting == ToSet(urgent) \cup ToSet(normal) \cup ({resume} \ {None})

-----------------------------------------------------------------------------
Init ==
    /\ urgent = <<>> /\ resume = None /\ normal = <<>>
    /\ cut = "none" /\ paused = FALSE /\ speaking = None /\ shutdown = FALSE
    /\ at = [j \in Jobs |-> 0]
    /\ wpc = "take" /\ job = None /\ index = 0 /\ spoke = "ok"
    /\ verdict = "none" /\ restore = None
    /\ voice \in Voices
    /\ muted = FALSE
    /\ cpc = [c \in Clients |-> "idle"]
    /\ todo = [c \in Clients |-> <<>>]
    /\ accepted = <<>>
    /\ told = [j \in Jobs |-> "untold"]
    /\ doomed = [j \in Jobs |-> "no"]
    /\ clipped = {}
    /\ chosen = voice

\* Condvar::notify_all, called while the lock is held.
NotifyNobody == UNCHANGED wpc
Notify == wpc' = IF wpc = "asleep" THEN "take" ELSE wpc

\* What is being spoken is to be put back; nothing is if nothing is spoken.
InterruptNothing == UNCHANGED cut
Interrupt == cut' = IF speaking # None THEN "resume" ELSE cut

\* The job that `speaking` names: in the thread's hand, or just put back.
Aimed == IF job # None THEN {job}
         ELSE IF speaking # None THEN {resume} \ {None} ELSE {}

Doom(S, kind) == doomed' = [j \in Jobs |-> IF j \in S THEN kind ELSE doomed[j]]

-----------------------------------------------------------------------------
(* Calls.  Each begins when its thread is idle.                            *)

Calls(c, kind) == cpc[c] = "idle" /\ kind \in Controls
Goes(c, pc)    == cpc' = [cpc EXCEPT ![c] = pc]
Owes(c, jobs)  == todo' = [todo EXCEPT ![c] = jobs]

\* Speaker::submit.  Once the lock is released an urgent submit stops the
\* engine, whether or not anything was playing.
Submit(c, j) ==
    /\ cpc[c] = "idle"
    /\ j \notin ToSet(accepted)
    /\ accepted' = Append(accepted, j)
    /\ IF Urgent(j)
       THEN /\ urgent' = Append(urgent, j)
            /\ Interrupt
            /\ Goes(c, "stop")
            /\ UNCHANGED normal
       ELSE /\ normal' = Append(normal, j)
            /\ UNCHANGED <<urgent, cut, cpc>>
    /\ Notify
    /\ UNCHANGED <<resume, paused, speaking, shutdown, at, hand, voice, muted,
                   todo, told, doomed, clipped, chosen>>

\* Speaker::skip, first critical section: a pause holds a message.
SkipHeld(c) ==
    /\ Calls(c, "skip")
    /\ paused /\ resume # None
    /\ resume' = None
    /\ Owes(c, <<resume>>)
    /\ Goes(c, "tell")
    /\ Doom({resume}, "skip")
    /\ UNCHANGED <<urgent, normal, cut, paused, speaking, shutdown, at, wpc,
                   hand, voice, muted, accepted, told, clipped, chosen>>

\* ... and nothing is held: what is playing is read, then cut, each under a
\* lock of its own.  The read only decides the answer.
SkipPlaying(c) ==
    /\ Calls(c, "skip")
    /\ ~(paused /\ resume # None)
    /\ Goes(c, "skip")
    /\ UNCHANGED <<queue, cut, paused, speaking, shutdown, at, wpc, hand,
                   voice, muted, todo, books>>

\* Speaker::cut(Cut::Skip).
SkipCut(c) ==
    /\ cpc[c] = "skip"
    /\ cut' = "skip"
    /\ Notify
    /\ Goes(c, "stop")
    /\ Doom(Aimed, "skip")
    /\ UNCHANGED <<queue, paused, speaking, shutdown, at, hand, voice, muted,
                   todo, accepted, told, clipped, chosen>>

\* Speaker::stop_message, for the message being spoken.
StopPlaying(c, m) ==
    /\ Calls(c, "stop")
    /\ speaking = m
    /\ cut' = "skip"
    /\ Notify
    /\ Goes(c, "stop")
    /\ Doom(Aimed, "stop")
    /\ UNCHANGED <<queue, paused, speaking, shutdown, at, hand, voice, muted,
                   todo, accepted, told, clipped, chosen>>

Holds(q, m) == \E i \in DOMAIN q : IdOf[q[i]] = m

\* i is the first position of q with message m.
FirstAt(q, m, i) ==
    /\ i \in DOMAIN q
    /\ IdOf[q[i]] = m
    /\ \A k \in 1 .. (i - 1) : IdOf[q[k]] # m

\* Speaker::stop_message, for a waiting message: the first place that has it.
StopWaiting(c, m) ==
    /\ Calls(c, "stop")
    /\ speaking # m
    /\ \E j \in Jobs :
        /\ \/ \E i \in DOMAIN urgent :
                /\ FirstAt(urgent, m, i)
                /\ j = urgent[i]
                /\ urgent' = RemoveAt(urgent, i)
                /\ UNCHANGED <<resume, normal>>
           \/ /\ ~Holds(urgent, m)
              /\ resume # None /\ IdOf[resume] = m
              /\ j = resume
              /\ resume' = None
              /\ UNCHANGED <<urgent, normal>>
           \/ /\ ~Holds(urgent, m)
              /\ ~(resume # None /\ IdOf[resume] = m)
              /\ \E i \in DOMAIN normal :
                    /\ FirstAt(normal, m, i)
                    /\ j = normal[i]
                    /\ normal' = RemoveAt(normal, i)
              /\ UNCHANGED <<urgent, resume>>
        /\ Owes(c, <<j>>)
        /\ Doom({j}, "stop")
    /\ Goes(c, "tell")
    /\ UNCHANGED <<cut, paused, speaking, shutdown, at, wpc, hand, voice,
                   muted, accepted, told, clipped, chosen>>

\* Everything that waits is taken out of the queues.
DrainBacklogOnly == urgent' = urgent /\ resume' = None /\ normal' = <<>>
Drain == urgent' = <<>> /\ resume' = None /\ normal' = <<>>

\* Speaker::clear.
Clear(c) ==
    /\ Calls(c, "clear")
    /\ cut' = "clear"
    /\ paused' = FALSE
    /\ Owes(c, urgent \o (IF resume # None THEN <<resume>> ELSE <<>>) \o normal)
    /\ Drain
    /\ Notify
    /\ Goes(c, "tellAll")
    /\ Doom(Waiting \cup Aimed, "clear")
    /\ UNCHANGED <<speaking, shutdown, at, hand, voice, muted, accepted, told,
                   clipped, chosen>>

\* Speaker::pause.
Pause(c) ==
    /\ Calls(c, "pause")
    /\ paused' = TRUE
    /\ Interrupt
    /\ Notify
    /\ Goes(c, "stop")
    /\ UNCHANGED <<queue, speaking, shutdown, at, hand, voice, muted, todo,
                   books>>

\* Speaker::unpause.
Unpause(c) ==
    /\ Calls(c, "pause")
    /\ paused' = FALSE
    /\ Notify
    /\ UNCHANGED <<queue, cut, speaking, shutdown, at, hand, voice, muted,
                   cpc, todo, books>>

\* Speaker::shutdown.
Shutdown(c) ==
    /\ Calls(c, "shutdown")
    /\ shutdown' = TRUE
    /\ Notify
    /\ UNCHANGED <<queue, cut, paused, speaking, at, hand, voice, muted, cpc,
                   todo, books>>

\* node::set_mute for the device: the policy changes, then the engine is
\* stopped.  The queue is not told.
SetMute(c, on) ==
    /\ Calls(c, "mute")
    /\ muted' = on
    /\ Goes(c, IF on THEN "stop" ELSE "idle")
    /\ UNCHANGED <<queue, cut, paused, speaking, shutdown, at, wpc, hand,
                   voice, todo, books>>

\* The app's set_voice: a person picks the voice this device speaks in.
ChooseVoice(c, v) ==
    /\ Calls(c, "voice")
    /\ voice' = v
    /\ chosen' = v
    /\ UNCHANGED <<queue, cut, paused, speaking, shutdown, at, wpc, hand,
                   muted, cpc, todo, accepted, told, doomed, clipped>>

\* on_finish and Job::finish for a job that a call abandoned.
Tell(c) ==
    /\ cpc[c] \in {"tell", "tellAll"}
    /\ IF todo[c] # <<>>
       THEN /\ told' = [told EXCEPT ![Head(todo[c])] = "cancelled"]
            /\ Owes(c, Tail(todo[c]))
            /\ UNCHANGED cpc
       ELSE /\ Goes(c, IF cpc[c] = "tellAll" THEN "stop" ELSE "idle")
            /\ UNCHANGED <<todo, told>>
    /\ UNCHANGED <<queue, cut, paused, speaking, shutdown, at, wpc, hand,
                   voice, muted, accepted, doomed, clipped, chosen>>

\* SpeechEngine::stop: kills what is sounding, and nothing if nothing is.
EngineStop(c) ==
    /\ cpc[c] = "stop"
    /\ wpc' = IF wpc = "sounding" THEN "killed" ELSE wpc
    /\ Goes(c, "idle")
    /\ UNCHANGED <<queue, cut, paused, speaking, shutdown, at, hand, voice,
                   muted, todo, books>>

-----------------------------------------------------------------------------
(* The speaking thread.                                                    *)

\* Inner::next: urgent first, then what was interrupted, then the backlog.
BacklogFirst(j) ==
    \/ /\ urgent # <<>>
       /\ j = Head(urgent) /\ urgent' = Tail(urgent)
       /\ UNCHANGED <<resume, normal>>
    \/ /\ urgent = <<>> /\ normal # <<>>
       /\ j = Head(normal) /\ normal' = Tail(normal)
       /\ UNCHANGED <<urgent, resume>>
    \/ /\ urgent = <<>> /\ normal = <<>> /\ resume # None
       /\ j = resume /\ resume' = None
       /\ UNCHANGED <<urgent, normal>>

NextJob(j) ==
    \/ /\ urgent # <<>>
       /\ j = Head(urgent) /\ urgent' = Tail(urgent)
       /\ UNCHANGED <<resume, normal>>
    \/ /\ urgent = <<>> /\ resume # None
       /\ j = resume /\ resume' = None
       /\ UNCHANGED <<urgent, normal>>
    \/ /\ urgent = <<>> /\ resume = None /\ normal # <<>>
       /\ j = Head(normal) /\ normal' = Tail(normal)
       /\ UNCHANGED <<urgent, resume>>

\* A cut left over from the message that just ended is dropped.
KeepStaleCut == UNCHANGED cut
DropStaleCut == cut' = "none"

\* Speaker::run, with the lock: take the next job, and drop a stale cut.
Take ==
    /\ wpc = "take"
    /\ ~shutdown /\ ~paused
    /\ \E j \in Jobs :
        /\ NextJob(j)
        /\ job' = j
        /\ index' = at[j]
        /\ speaking' = IdOf[j]
    /\ DropStaleCut
    /\ wpc' = "ask"
    /\ UNCHANGED <<paused, shutdown, at, spoke, verdict, restore, voice, muted,
                   cpc, todo, books>>

\* Nothing to take: the thread waits for a notification, or ends.
Sleep ==
    /\ wpc = "take"
    /\ \/ shutdown /\ wpc' = "gone"
       \/ ~shutdown /\ (paused \/ Waiting = {}) /\ wpc' = "asleep"
    /\ UNCHANGED <<queue, cut, paused, speaking, shutdown, at, hand, voice,
                   muted, cpc, todo, books>>

\* The policy is asked, unless a person asked for the message; then speak_job
\* begins by switching to the voice the message wants.
Ask ==
    /\ wpc = "ask"
    /\ IF muted /\ GatingOf[job] # "asked"
       THEN /\ verdict' = "muted"
            /\ wpc' = "leave"
            /\ UNCHANGED <<voice, restore>>
       ELSE /\ restore' = IF VoiceOf[job] # None THEN voice ELSE None
            /\ voice' = IF VoiceOf[job] # None THEN VoiceOf[job] ELSE voice
            /\ wpc' = "speak"
            /\ UNCHANGED verdict
    /\ UNCHANGED <<queue, cut, paused, speaking, shutdown, at, job, index,
                   spoke, muted, cpc, todo, books>>

\* engine.speak begins a chunk, or cannot.
StartChunk ==
    /\ wpc = "speak"
    /\ index < Chunks[job]
    /\ \/ wpc' = "sounding" /\ UNCHANGED spoke
       \/ "unavailable" \in Faults /\ spoke' = "unavailable" /\ wpc' = "check"
    /\ UNCHANGED <<queue, cut, paused, speaking, shutdown, at, job, index,
                   verdict, restore, voice, muted, cpc, todo, books>>

\* engine.speak returns.  A stopped engine reports success, or the failure that the
\* stop made of it (a pipe that breaks, an app that was told to be silent).
EndChunk ==
    /\ \/ wpc = "killed" /\ spoke' \in {"cutShort"} \cup (Faults \cap {"failed"})
       \/ wpc = "sounding" /\ spoke' \in {"ok"} \cup Faults
    /\ wpc' = "check"
    /\ UNCHANGED <<queue, cut, paused, speaking, shutdown, at, job, index,
                   verdict, restore, voice, muted, cpc, todo, books>>

\* Where speak_job goes when it ends: the voice is put back first.
Finish == wpc' = IF restore # None THEN "restore" ELSE "leave"

\* The loop is over and nothing cut it.
AllSpoken ==
    /\ wpc = "speak"
    /\ index >= Chunks[job]
    /\ verdict' = "spoken"
    /\ Finish
    /\ UNCHANGED <<queue, cut, paused, speaking, shutdown, at, job, index,
                   spoke, restore, voice, muted, cpc, todo, books>>

\* After a chunk, with the lock: the cut is taken before the engine's answer
\* is looked at.
Check ==
    /\ wpc = "check"
    /\ cut' = "none"
    /\ spoke' = "ok"
    /\ \/ /\ cut = "resume"
          /\ wpc' = "putback"
          /\ UNCHANGED <<index, verdict, clipped>>
       \/ /\ cut \in {"skip", "clear"}
          /\ verdict' = "cancelled"
          /\ Finish
          /\ UNCHANGED <<index, clipped>>
       \/ /\ cut = "none" /\ spoke \in AllFaults
          /\ verdict' = IF spoke = "unavailable" THEN "noEngine" ELSE "unreachable"
          /\ Finish
          /\ UNCHANGED <<index, clipped>>
       \/ /\ cut = "none" /\ spoke \notin AllFaults
          /\ index' = index + 1
          /\ clipped' = IF spoke = "cutShort" THEN clipped \cup {job} ELSE clipped
          /\ wpc' = "speak"
          /\ UNCHANGED verdict
    /\ UNCHANGED <<queue, paused, speaking, shutdown, at, job, restore, voice,
                   muted, cpc, todo, accepted, told, doomed, chosen>>

\* With the lock again: what is left of the job, from this chunk on, goes into
\* the resume slot, whatever the slot holds.
OwesNothing == UNCHANGED <<resume, at>>
OwesChunkBefore == resume' = job /\ at' = [at EXCEPT ![job] = index - 1]
OwesNextChunk == resume' = job /\ at' = [at EXCEPT ![job] = index + 1]
OwesRest == resume' = job /\ at' = [at EXCEPT ![job] = index]

PutBack ==
    /\ wpc = "putback"
    /\ OwesRest
    /\ job' = None /\ index' = 0
    /\ Finish
    /\ UNCHANGED <<urgent, normal, cut, paused, speaking, shutdown, spoke,
                   verdict, restore, voice, muted, cpc, todo, books>>

\* The voice before this message is set again.
RestoreVoice ==
    /\ wpc = "restore"
    /\ voice' = restore
    /\ restore' = None
    /\ wpc' = "leave"
    /\ UNCHANGED <<queue, cut, paused, speaking, shutdown, at, job, index,
                   spoke, verdict, muted, cpc, todo, books>>

\* With the lock: nothing is being spoken, whether the job ended or was put
\* back.
Silent == speaking' = None

Leave ==
    /\ wpc = "leave"
    /\ Silent
    /\ wpc' = IF job = None THEN "take" ELSE "report"
    /\ UNCHANGED <<queue, cut, paused, shutdown, at, hand, voice, muted, cpc,
                   todo, books>>

\* on_finish and Job::finish for the job that ended.
Report ==
    /\ wpc = "report"
    /\ told' = [told EXCEPT ![job] = verdict]
    /\ job' = None /\ index' = 0 /\ verdict' = "none"
    /\ wpc' = "take"
    /\ UNCHANGED <<queue, cut, paused, speaking, shutdown, at, spoke, restore,
                   voice, muted, cpc, todo, accepted, doomed, clipped, chosen>>

-----------------------------------------------------------------------------
Worker ==
    \/ Take \/ Sleep \/ Ask \/ StartChunk \/ EndChunk \/ AllSpoken
    \/ Check \/ PutBack \/ RestoreVoice \/ Leave \/ Report

\* A call that has begun.
Proceed(c) == SkipCut(c) \/ Tell(c) \/ EngineStop(c)

Call(c) ==
    \/ \E j \in Jobs : Submit(c, j)
    \/ SkipHeld(c) \/ SkipPlaying(c)
    \/ \E m \in MsgIds : StopPlaying(c, m) \/ StopWaiting(c, m)
    \/ Clear(c) \/ Pause(c) \/ Unpause(c) \/ Shutdown(c)
    \/ \E on \in BOOLEAN : SetMute(c, on)
    \/ \E v \in Voices : ChooseVoice(c, v)

Next == Worker \/ \E c \in Clients : Call(c) \/ Proceed(c)

Spec == Init /\ [][Next]_vars

\* The thread runs, the engine's processes end, and a call that has begun
\* returns.  Nobody is obliged to call anything.
FairSpec == Spec /\ WF_vars(Worker) /\ \A c \in Clients : WF_vars(Proceed(c))
-----------------------------------------------------------------------------
(* Properties.                                                             *)

\* Every variable keeps its type.
TypeOK ==
    /\ urgent \in Seq(Jobs) /\ normal \in Seq(Jobs)
    /\ resume \in Jobs \cup {None}
    /\ cut \in {"none", "resume", "skip", "clear"}
    /\ paused \in BOOLEAN /\ shutdown \in BOOLEAN /\ muted \in BOOLEAN
    /\ speaking \in MsgIds \cup {None}
    /\ at \in [Jobs -> Nat]
    /\ wpc \in Talking \cup {"take", "asleep", "report", "gone"}
    /\ job \in Jobs \cup {None}
    /\ index \in Nat
    /\ spoke \in {"ok", "cutShort"} \cup AllFaults
    /\ verdict \in Outcomes \cup {"none"}
    /\ restore \in Voices \cup {None} /\ voice \in Voices /\ chosen \in Voices
    /\ cpc \in [Clients -> {"idle", "skip", "stop", "tell", "tellAll"}]
    /\ todo \in [Clients -> Seq(Jobs)]
    /\ accepted \in Seq(Jobs)
    /\ told \in [Jobs -> Outcomes \cup {"untold"}]
    /\ doomed \in [Jobs -> {"no", "skip", "stop", "clear"}]
    /\ clipped \in SUBSET Jobs

\* Where a job can be: in a queue, in the hand of the thread, past its end, or
\* in the hand of a call that abandoned it.
Has(p, j) ==
    \/ p = "urgent" /\ j \in ToSet(urgent)
    \/ p = "normal" /\ j \in ToSet(normal)
    \/ p = "resume" /\ j = resume
    \/ p = "thread" /\ j = job
    \/ p = "told"   /\ told[j] # "untold"
    \/ p \in Clients /\ j \in ToSet(todo[p])

\* A job is in one place at most, and there once: no message is spoken twice
\* over, abandoned by two calls, or told two ends, however calls and thread
\* pass it around.
OnePlace ==
    /\ IsInjective(urgent) /\ IsInjective(normal)
    /\ \A c \in Clients : IsInjective(todo[c])
    /\ \A j \in Jobs : \A p, q \in Spots \cup Clients : Has(p, j) /\ Has(q, j) => p = q

\* While the device is paused, a message that is still being spoken has a cut
\* waiting for it: the pause is never lost, so the thread stops after the
\* chunk it is in at the latest (Speaker::pause, run, speak_job).
PauseHolds == paused /\ wpc \in Mid => cut # "none"

\* While an urgent message waits, a message that is not urgent has a cut
\* waiting for it: `high` gets its turn after the current chunk.
UrgentInterrupts ==
    urgent # <<>> /\ wpc \in Mid /\ ~Urgent(job) => cut # "none"

\* What the snapshot calls playing is what the thread has taken, until it has
\* let go of it.
SpeakingMatches ==
    /\ wpc \in Talking <=> speaking # None
    /\ wpc \in Mid => job # None
    /\ job # None /\ wpc \in Talking => speaking = IdOf[job]

\* The thread cancels only messages that a call aimed at: a cut left over from
\* one message never ends the next.
NoStrayCut ==
    \A j \in Jobs :
        told[j] = "cancelled" \/ (job = j /\ verdict = "cancelled")
            => doomed[j] # "no"

\* Messages of the backlog are begun in the order they were accepted, and one
\* that was interrupted is ended before a later one begins.
BacklogInOrder ==
    \A i, k \in DOMAIN accepted :
        /\ i < k
        /\ ~Urgent(accepted[i]) /\ ~Urgent(accepted[k])
        /\ job = accepted[k]
        => accepted[i] \notin Waiting

\* Unless a message speaks in a voice of its own, the engine has the voice a
\* person chose: one that a message asked for goes with the message, also when
\* the message is cut short or put back (speak_job).
VoiceRestored == restore = None => voice = chosen

\* A message that was accepted is somewhere until its end is told: nothing
\* that waits for it waits for ever.
NothingLost ==
    \A j \in ToSet(accepted) : \E p \in Spots \cup Clients : Has(p, j)

\* `stop --id` drops one message, wherever it is: it never waits again.
StopIsFinal == \A j \in Waiting : doomed[j] # "stop"

\* A message that `stop --id` found ends as cancelled.
StopIsTrue == \A j \in Jobs : doomed[j] = "stop" => told[j] \in {"untold", "cancelled"}

\* A message reported as spoken was heard: no chunk of it was cut short.
SpokenIsHeard == \A j \in clipped : told[j] # "spoken"

\* Told once, an outcome does not change.
ToldOnce == [][\A j \in Jobs : told[j] # "untold" => told'[j] = told[j]]_vars

\* Every accepted message ends, unless it was lost, the device is held by a
\* pause, or the speaking thread was shut down.
EveryMessageEnds ==
    \A j \in Jobs :
        j \in ToSet(accepted)
            ~> told[j] # "untold" \/ ~(\E p \in Spots \cup Clients : Has(p, j)) \/ paused \/ shutdown
=============================================================================
