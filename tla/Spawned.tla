------------------------------ MODULE Spawned -------------------------------
(***************************************************************************)
(* The engines that spawn processes: espeak-ng, one process that speaks    *)
(* ("one"); Piper into a player that reads its pipe ("pipe"); Piper into a *)
(* file that a player plays when it is finished ("file").  child.rs is the *)
(* handle they are waited on and killed by.                                *)
(*                                                                         *)
(* The processes belong to the system: one may fail at any time, a player  *)
(* of a pipe ends with exit code 0 when the synthesiser has, and the       *)
(* synthesiser dies of the broken pipe when its player has gone.           *)
(***************************************************************************)
EXTENDS Engine

VARIABLES
    synth, player,  \* the processes of each chunk
    killed,         \* Running::killed of each process, as <<chunk, which>>
    current,        \* the chunk stop can find
    taken,          \* the chunk each stop has taken
    scratch,        \* the chunks that have a rendered file
    outcome         \* what finish has learnt of the synthesiser

processes == <<synth, player>>
spawned == <<processes, killed, current, taken, scratch, outcome>>

Spawning == {"one", "pipe", "file"}
Ended    == {"done", "failed", "killed"}

SpawnedInit ==
    /\ synth = [c \in Chunks |-> "none"] /\ player = [c \in Chunks |-> "none"]
    /\ killed = {} /\ current = None /\ scratch = {} /\ outcome = "ok"
    /\ taken = [s \in Stoppers |-> None]

SpawnedTypeOK ==
    /\ synth \in [Chunks -> Ended \cup {"none", "running"}]
    /\ player \in [Chunks -> Ended \cup {"none", "running"}]
    /\ killed \subseteq Chunks \X {"synth", "player"}
    /\ current \in Chunks \cup {None} /\ scratch \subseteq Chunks

-----------------------------------------------------------------------------
(* The processes.                                                          *)

\* Mutant (#59): a process that could be waited for has spoken.
CheckedReaped(c, which, status) == "ok"

\* Running::check: a process that was killed is no failure.
Checked(c, which, status) ==
    IF <<c, which>> \in killed \/ status = "done" THEN "ok" ELSE "failed"

Heard(c, v) == sound' = [sound EXCEPT ![c] = IF @ \in Audible THEN v ELSE @]

SynthEnds(c) ==
    /\ synth[c] = "running"
    /\ \/ synth' = [synth EXCEPT ![c] = "done"] /\ UNCHANGED faulted
       \/ synth' = [synth EXCEPT ![c] = "failed"] /\ faulted' = faulted \cup {c}
    /\ UNCHANGED <<player, sound>>

\* A player that reads the pipe has heard everything when the synthesiser
\* has said everything, and plays a truncated stream just as willingly.
PlayerEnds(c) ==
    /\ player[c] = "running"
    /\ \/ /\ kind = "pipe" => synth[c] \in Ended
          /\ player' = [player EXCEPT ![c] = "done"]
          /\ Heard(c, IF kind = "pipe" /\ synth[c] # "done" THEN "cut" ELSE "whole")
          /\ UNCHANGED faulted
       \/ /\ player' = [player EXCEPT ![c] = "failed"]
          /\ Heard(c, "cut")
          /\ faulted' = faulted \cup {c}
    /\ UNCHANGED synth

\* Nobody reads the pipe any more, because the player ended or was never
\* started.
PipeBreaks(c) ==
    /\ kind = "pipe" /\ synth[c] = "running" /\ player[c] \in Ended
    /\ synth' = [synth EXCEPT ![c] = "failed"]
    /\ UNCHANGED <<player, sound, faulted>>

System ==
    /\ kind \in Spawning
    /\ \E c \in Chunks : SynthEnds(c) \/ PlayerEnds(c) \/ PipeBreaks(c)
    /\ UNCHANGED <<kind, call, stopAt, overtaken, touched, asked,
                   killed, current, taken, scratch, outcome>>

-----------------------------------------------------------------------------
(* speak.                                                                  *)

\* Nothing was started, or the text could not be written to it: the process
\* is dropped with what it has, and the error is the answer.
NotStarted ==
    /\ Return("failed") /\ Fault
    /\ UNCHANGED <<sound, processes, scratch>>

\* EspeakEngine::speak as far as the handle, and synthesise with the spawning
\* of the player that reads its pipe.
Spawn ==
    /\ kind \in {"one", "pipe"} /\ Called
    /\ \/ NotStarted
       \/ /\ Goto("register") /\ Sounds(chunk, "sounding")
          /\ player' = [player EXCEPT ![chunk] = "running"]
          /\ synth' = IF kind = "pipe" THEN [synth EXCEPT ![chunk] = "running"]
                      ELSE synth
          /\ UNCHANGED <<faulted, scratch>>
    /\ UNCHANGED <<killed, current, taken, outcome>>

\* The file is rendered first; nothing can be stopped meanwhile.
Render ==
    /\ kind = "file" /\ Called
    /\ \/ NotStarted
       \/ /\ Goto("render")
          /\ synth' = [synth EXCEPT ![chunk] = "running"]
          /\ scratch' = scratch \cup {chunk}
          /\ UNCHANGED <<faulted, sound, player>>
    /\ UNCHANGED <<killed, current, taken, outcome>>

\* A file that was not rendered is not played, and is not left behind.
Play ==
    /\ at = "render" /\ synth[chunk] \in Ended
    /\ LET rendered == Checked(chunk, "synth", synth[chunk]) = "ok" IN
       \/ /\ rendered
          /\ Goto("register") /\ Sounds(chunk, "sounding")
          /\ player' = [player EXCEPT ![chunk] = "running"]
          /\ UNCHANGED <<faulted, scratch>>
       \/ /\ Return("failed")
          /\ IF rendered THEN Fault ELSE UNCHANGED faulted
          /\ scratch' = scratch \ {chunk}
          /\ UNCHANGED <<sound, player>>
    /\ UNCHANGED <<overtaken, synth, killed, current, taken, outcome>>

Register ==
    /\ at = "register"
    /\ current' = chunk
    /\ Goto(IF kind = "one" THEN "player" ELSE "finish")
    /\ UNCHANGED <<overtaken, faulted, sound, processes, killed, taken,
                   scratch, outcome>>

\* PiperEngine::finish: what a stop has already taken is not waited for.
Finish ==
    /\ at = "finish"
    /\ Goto(IF current = None THEN "clear" ELSE "synth")
    /\ UNCHANGED <<overtaken, faulted, sound, spawned>>

WaitSynth ==
    /\ at = "synth" /\ synth[chunk] \in Ended
    /\ outcome' = Checked(chunk, "synth", synth[chunk])
    /\ Goto("player")
    /\ UNCHANGED <<overtaken, faulted, sound, processes, killed, current,
                   taken, scratch>>

WaitPlayer ==
    /\ at = "player" /\ player[chunk] \in Ended
    /\ outcome' = IF outcome = "failed" THEN "failed"
                  ELSE Checked(chunk, "player", player[chunk])
    /\ Goto("clear")
    /\ UNCHANGED <<overtaken, faulted, sound, processes, killed, current,
                   taken, scratch>>

\* The entry goes, and the file with it.
Clear ==
    /\ at = "clear"
    /\ current' = None
    /\ scratch' = scratch \ {current}
    /\ Return(outcome) /\ outcome' = "ok"
    /\ UNCHANGED <<overtaken, faulted, sound, processes, killed, taken>>

SpeakSpawned ==
    /\ Spawn \/ Render \/ Play \/ Register \/ Finish \/ WaitSynth \/ WaitPlayer
       \/ Clear
    /\ Answered /\ UNCHANGED <<kind, stopAt, touched>>

-----------------------------------------------------------------------------
(* stop: the entry is taken under the lock, its processes are killed        *)
(* outside it, the player first.                                           *)

Call(s) ==
    /\ kind \in Spawning
    /\ StopCalled(s, "take", current # None)
    /\ UNCHANGED <<sound, processes, killed, current, taken, scratch>>

\* Mutant (#58): the lock is held for as long as the wait takes.
TakeBehindWait(s) ==
    /\ stopAt[s] = "take" /\ at \notin {"synth", "player"}
    /\ StopGoes(s, IF current = None THEN "done" ELSE "flagPlayer")
    /\ taken' = [taken EXCEPT ![s] = current]
    /\ current' = None
    /\ UNCHANGED <<sound, processes, killed, scratch, memory>>

Take(s) ==
    /\ stopAt[s] = "take"
    /\ StopGoes(s, IF current = None THEN "done" ELSE "flagPlayer")
    /\ taken' = [taken EXCEPT ![s] = current]
    /\ current' = None
    /\ UNCHANGED <<sound, processes, killed, scratch, memory>>

\* Running::kill: the flag, then the kill, and the process is reaped.
Flag(s, which, from, to) ==
    /\ stopAt[s] = from
    /\ killed' = killed \cup {<<taken[s], which>>}
    /\ StopGoes(s, to)
    /\ UNCHANGED <<sound, processes, current, taken, scratch, memory>>

Dead(p, c) == [p EXCEPT ![c] = IF @ = "running" THEN "killed" ELSE @]

KillPlayer(s) ==
    /\ stopAt[s] = "killPlayer"
    /\ player' = Dead(player, taken[s])
    /\ Heard(taken[s], "cut")
    /\ StopGoes(s, IF kind = "one" THEN "done" ELSE "flagSynth")
    /\ UNCHANGED <<synth, killed, current, taken, scratch, memory>>

KillSynth(s) ==
    /\ stopAt[s] = "killSynth"
    /\ synth' = Dead(synth, taken[s])
    /\ StopGoes(s, "cleanUp")
    /\ UNCHANGED <<sound, player, killed, current, taken, scratch, memory>>

CleanUp(s) ==
    /\ stopAt[s] = "cleanUp"
    /\ scratch' = scratch \ {taken[s]}
    /\ taken' = [taken EXCEPT ![s] = None]
    /\ StopGoes(s, "done")
    /\ UNCHANGED <<sound, processes, killed, current, memory>>

StopSpawned(s) ==
    /\ \/ Call(s) \/ Take(s)
       \/ Flag(s, "player", "flagPlayer", "killPlayer") \/ KillPlayer(s)
       \/ Flag(s, "synth", "flagSynth", "killSynth") \/ KillSynth(s)
       \/ CleanUp(s)
    /\ UNCHANGED <<kind, call, outcome>>

=============================================================================
