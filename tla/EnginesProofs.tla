---------------------------- MODULE EnginesProofs ----------------------------
(***************************************************************************)
(* What holds of the engines for any number of chunks and of threads that  *)
(* stop, on any system with any equipment.                                 *)
(***************************************************************************)
EXTENDS Engines, TLAPS

\* Where a stop has a chunk's processes in its hand.
Holding == {"flagPlayer", "killPlayer", "flagSynth", "killSynth", "cleanUp"}

\* Where speak is once it has registered what it started.
Registered == {"finish", "synth", "player", "clear"}

\* Where Android's speak has put its latch in place.
Latched == {"queue", "again", "await"}

\* Where each thread can be.
Places ==
    /\ at \in {"idle", "probe", "found", "render", "register", "worker", "poll",
               "latch"} \cup Registered \cup Latched
    /\ stopAt \in [Stoppers -> {"before", "take", "tts", "release", "forget", "done"}
                               \cup Holding]
    /\ taken \in [Stoppers -> Chunks \cup {None}]
    /\ outcome \in {"ok", "failed"}
    /\ at # "idle" => chunk \in Chunks

\* Which engine there is decides where they are; it changes only when the first
\* one is found.
Kinds ==
    /\ kind = None <=> slot = 0
    /\ wrapped => /\ kind \in {None, "pipe", "file"}
                  /\ kind # None => kind = Discover(has)
    /\ ~wrapped => ~probing /\ at \notin {"probe", "found"}
    /\ at = "found" => kind # None
    /\ at \in {"register"} \cup Registered => kind \in Spawning
    /\ at = "render" => kind = "file"
    /\ at \in {"finish", "synth"} => kind # "one"
    /\ at = "worker" => kind = "sapi"
    /\ at = "poll" => kind \in Polled
    /\ at \in {"latch"} \cup Latched => kind = "latch"
    /\ \A s \in Stoppers :
        /\ stopAt[s] \in {"take"} \cup Holding => kind \in Spawning
        /\ stopAt[s] \in {"flagSynth", "killSynth", "cleanUp"} => kind # "one"
        /\ stopAt[s] \in {"tts", "release", "forget"} => kind = "latch"
        /\ stopAt[s] \in Holding => taken[s] \in Chunks

\* The chunks are spoken one after another, and nothing makes a sound that speak
\* has not come to.
Progress ==
    /\ \A c \in Chunks :
        /\ result[c] = None <=> c >= chunk
        /\ c > chunk => sound[c] = "none"
        /\ kind = None => sound[c] = "none" /\ player[c] = "none" /\ synth[c] = "none"
    /\ at \in {"idle", "probe", "found", "render", "worker", "latch", "queue"} =>
          \A c \in Chunks : c = chunk => sound[c] = "none"

\* A stop that is under way has touched the chunk.
Alert ==
    InCall /\ Untouched(chunk) => \A s \in Stoppers : ~Under(s)

Shape == TypeOK /\ Places /\ Kinds /\ Progress /\ Alert

-----------------------------------------------------------------------------
(* The engines that spawn.                                                 *)

\* What a player has played says what was heard.
Played ==
    \A c \in Chunks :
        /\ sound[c] # "waiting" /\ sound[c] # "lost"
        /\ player[c] = "running" <=> sound[c] = "sounding"
        /\ player[c] = "none" <=> sound[c] = "none"
        /\ sound[c] = "whole" <=> player[c] = "done" /\ (kind = "pipe" => synth[c] = "done")
        /\ kind = "pipe" /\ player[c] = "done" => synth[c] \in Ended

\* What failed was a fault, or a pipe that broke, and what was killed is marked.
Blamed ==
    /\ \A c \in Chunks :
        /\ player[c] = "failed" => c \in faulted
        /\ synth[c] = "failed" => c \in faulted \/ kind = "pipe"
        /\ player[c] = "killed" => <<c, "player">> \in killed
        /\ synth[c] = "killed" => <<c, "synth">> \in killed
    /\ \A s \in Stoppers :
        /\ stopAt[s] = "killPlayer" => <<taken[s], "player">> \in killed
        /\ stopAt[s] = "killSynth" => <<taken[s], "synth">> \in killed

\* Only what a stop has touched is taken, and what is taken is marked.
Taken ==
    /\ \A c \in Chunks, which \in {"synth", "player"} :
          <<c, which>> \in killed => ~Untouched(c)
    /\ \A s \in Stoppers : stopAt[s] \in Holding => ~Untouched(taken[s])
    /\ current # None => current = chunk /\ at \in Registered
    /\ at \in Registered /\ Untouched(chunk) => current = chunk

\* What sounds, and a file that was rendered, is in the hand of the thread, in
\* current, or in the hand of a stop that will end it.
Held ==
    /\ kind # "file" => scratch = {}
    /\ \A c \in Chunks :
        /\ player[c] = "running" =>
              \/ c = chunk /\ at = "register"
              \/ c = current /\ at # "clear"
              \/ \E s \in Stoppers : taken[s] = c /\ stopAt[s] \in {"flagPlayer", "killPlayer"}
        /\ c \in scratch =>
              \/ c = chunk /\ at \in {"render", "register"}
              \/ c = current
              \/ \E s \in Stoppers : taken[s] = c /\ stopAt[s] \in Holding

\* What finish has learnt is so.
Learnt ==
    /\ at \notin {"player", "clear"} => outcome = "ok"
    /\ kind = "file" /\ at \in {"register"} \cup Registered /\ Untouched(chunk) =>
          synth[chunk] = "done"
    /\ at = "player" /\ outcome = "ok" /\ Untouched(chunk) /\ kind = "pipe" =>
          synth[chunk] = "done"
    /\ at = "player" /\ outcome = "failed" => synth[chunk] = "failed" /\ kind # "one"
    /\ at = "clear" /\ outcome = "ok" /\ Untouched(chunk) => sound[chunk] = "whole"
    /\ at = "clear" /\ outcome = "failed" =>
          /\ Untouched(chunk) => sound[chunk] # "whole"
          /\ chunk \in faulted \/ kind = "pipe"

SpawnedInv ==
    /\ kind \in Spawning => Played /\ Blamed /\ Taken /\ Held /\ Learnt
    /\ kind \notin Spawning => killed = {} /\ current = None /\ scratch = {} /\ outcome = "ok"

-----------------------------------------------------------------------------
(* The engines of the system.                                              *)

\* A poll that ends has seen the sound end, or a stop, unless the sound is late or
\* the voice is silent; only Apple's queues a chunk behind a late one, and only SAPI
\* reports a failure.
Polls ==
    /\ \A c \in Chunks : c < chunk => sound[c] \notin Audible \/ c \in faulted
    /\ at = "poll" =>
        /\ sound[chunk] # "none"
        /\ \A c \in Chunks : c < chunk /\ sound[c] \in Audible => chunk \in faulted
        /\ started /\ sound[chunk] = "waiting" => chunk \in faulted
        /\ sound[chunk] = "cut" => chunk \in touched
    /\ kind = "sapi" /\ at \in {"worker", "poll"} /\ stopping => chunk \in touched
    /\ kind = "main" => \A c \in Chunks : result[c] # "failed"

\* What the listener is told is of a sound that is over.
Notices ==
    /\ \A c \in notices : sound[c] \in {"whole", "cut"}
    /\ \A c \in notices \cup down : Untouched(c) => sound[c] = "whole" \/ c \in faulted
    /\ \A c \in waiting : c = chunk /\ at \in Latched
    /\ \A c \in down : c < chunk \/ (c = chunk /\ at \in Latched)
    /\ \A c \in Chunks : c < chunk /\ sound[c] \in Audible => c \in overtaken

\* A stop that came too early for what was queued is seen by its generation, and
\* one that came in time has silenced it before it releases the latch.
Generations ==
    /\ seenGen <= generation
    /\ at \in {"latch", "queue", "again"} =>
        /\ Untouched(chunk) => seenGen = generation
        /\ seenGen = generation /\ chunk \notin overtaken =>
            /\ \A s \in Stoppers : ~Under(s)
            /\ chunk \notin down \/ (at = "again" /\ sound[chunk] \notin Audible)
    /\ at = "await" /\ chunk \notin overtaken /\ sound[chunk] \in Audible =>
        chunk \notin down /\ \A s \in Stoppers : stopAt[s] # "release"

\* The latch of a call that no stop touched is waiting or was released by the
\* listener, and a chunk that was spoken is told of.
Latches ==
    at \in Latched /\ Untouched(chunk) =>
        /\ chunk \in waiting \cup down
        /\ sound[chunk] = "whole" => chunk \in notices \cup down

SystemInv ==
    kind \in OnSystem =>
        /\ \A c \in Chunks : sound[c] = "lost" => c \in faulted
        /\ kind \in Polled => Polls
        /\ kind = "latch" => Notices /\ Generations /\ Latches

EnginesInv == Shape /\ SpawnedInv /\ SystemInv /\ Honest


-----------------------------------------------------------------------------
(* Types and places.                                                       *)

LEMMA FindsSpawning ==
    ASSUME NEW things
    PROVE  Discover(things) \in {None, "pipe", "file"}
  BY DEF Discover

LEMMA ShapeInit == Init => Shape
  <1> SUFFICES ASSUME Init PROVE Shape
    OBVIOUS
  <1> USE EngineAssumption, DiscoveryAssumption, EnginesAssumption
  <1>1. PICK system \in Systems, things \in Equipment :
            /\ has = things /\ kind = Chosen(system, things)
            /\ wrapped = KeepsLooking(system, things)
    BY DEF Init, DiscoveryInit
  <1>2. kind \in Spawning \cup OnSystem \cup {None} /\ wrapped \in BOOLEAN
    BY <1>1, FindsSpawning DEF Chosen, KeepsLooking, Native, Spawning, OnSystem, Polled
  <1>3. wrapped => kind = None
    BY <1>1 DEF KeepsLooking
  <1>4. TypeOK
    <2>1. EngineTypeOK
      BY DEF Init, EngineInit, EngineTypeOK, Chunks
    <2>2. SpawnedTypeOK
      BY DEF Init, SpawnedInit, SpawnedTypeOK, Ended
    <2>3. PlatformTypeOK
      BY DEF Init, PlatformInit, PlatformTypeOK
    <2>4. DiscoveryTypeOK
      <3>1. has \subseteq Things /\ slot \in Nat /\ mine = slot /\ tuned \subseteq Nat
        BY <1>1 DEF Init, DiscoveryInit
      <3>2. via \in [Stoppers -> Nat] /\ due \in BOOLEAN /\ probing \in BOOLEAN
        BY <3>1 DEF Init, DiscoveryInit
      <3> QED  BY <1>2, <3>1, <3>2 DEF DiscoveryTypeOK
    <2> QED  BY <1>2, <2>1, <2>2, <2>3, <2>4 DEF TypeOK
  <1>5. Places
    BY <1>1 DEF Init, DiscoveryInit, EngineInit, SpawnedInit, Places
  <1>6. Kinds
    BY <1>2, <1>3 DEF Init, DiscoveryInit, EngineInit, SpawnedInit, Kinds, Holding,
       Registered, Latched
  <1>7. Progress /\ Alert
    BY DEF Init, DiscoveryInit, EngineInit, SpawnedInit, Progress, Alert, Chunks, InCall
  <1> QED  BY <1>4, <1>5, <1>6, <1>7 DEF Shape

\* The kinds of steps.
SpawnedSpeaks ==
    /\ SpeakSpawned /\ UNCHANGED platform
    /\ Calls /\ UNCHANGED <<has, wrapped, slot, via, due, probing, tuned>>
PlatformSpeaks ==
    /\ SpeakPlatform /\ UNCHANGED spawned
    /\ Calls /\ UNCHANGED <<has, wrapped, slot, via, due, probing, tuned>>
NoneSpeaks == SpeakNotFound /\ UNCHANGED <<spawned, platform>>
SpawnedStops(s) ==
    /\ StopSpawned(s) /\ UNCHANGED platform
    /\ StopCalls(s) /\ UNCHANGED <<has, wrapped, slot, mine, due, probing, tuned>>
PlatformStops(s) ==
    /\ StopPlatform(s) /\ UNCHANGED spawned
    /\ StopCalls(s) /\ UNCHANGED <<has, wrapped, slot, mine, due, probing, tuned>>
NoneStops(s) == StopMisses(s) /\ UNCHANGED <<spawned, platform>>
Finds ==
    /\ Install \/ RetryPasses \/ LookElsewhere \/ ProbedElsewhere
    /\ UNCHANGED <<spawned, platform>>

LEMMA StepSplit ==
    ASSUME [Next]_vars
    PROVE  \/ SpawnedSpeaks \/ PlatformSpeaks \/ NoneSpeaks
           \/ \E s \in Stoppers : SpawnedStops(s) \/ PlatformStops(s) \/ NoneStops(s)
           \/ Listener
           \/ System /\ UNCHANGED <<platform, finding>>
           \/ Synthesiser /\ UNCHANGED <<spawned, finding>>
           \/ Finds
           \/ UNCHANGED vars
  BY DEF Next, Speak, Stop, SpawnedSpeaks, PlatformSpeaks, NoneSpeaks, SpawnedStops,
     PlatformStops, NoneStops, Finds

\* What any step can make of what the engines share.
Bounds ==
    /\ \/ chunk' = chunk /\ result' = result
       \/ /\ chunk \in Chunks /\ chunk' = chunk + 1
          /\ \E r \in {"ok", "failed"} : result' = [result EXCEPT ![chunk] = r]
    /\ \/ sound' = sound \/ sound' = Silenced
       \/ \E c \in Chunks, v \in Audible \cup {"none", "whole", "cut", "lost"} :
             sound' = [sound EXCEPT ![c] = v]
       \/ \E c \in Chunks : sound' = [Silenced EXCEPT ![c] = "waiting"]
    /\ touched' \subseteq touched \cup {c \in Chunks : c = chunk}
    /\ touched \subseteq touched'
    /\ \E c \in Chunks \cup {None} : asked' \subseteq asked \cup (touched' \cap {c})
    /\ overtaken \subseteq overtaken'
    /\ overtaken' \subseteq overtaken \cup {c \in Chunks : c = chunk}
    /\ faulted \subseteq faulted' /\ faulted' \subseteq faulted \cup Chunks

LEMMA BoundsTypes ==
    ASSUME EngineTypeOK, Bounds
    PROVE  EngineTypeOK'
  <1>1. chunk' \in 1 .. Last + 1 /\ result' \in [Chunks -> {"ok", "failed", None}]
    BY EngineAssumption DEF EngineTypeOK, Bounds, Chunks
  <1>2. sound' \in [Chunks -> Audible \cup {"none", "whole", "cut", "lost"}]
    <2>1. Silenced \in [Chunks -> Audible \cup {"none", "whole", "cut", "lost"}]
      BY DEF EngineTypeOK, Silenced
    <2>2. "waiting" \in Audible
      BY DEF Audible
    <2> QED  BY <2>1, <2>2 DEF EngineTypeOK, Bounds
  <1>3. /\ overtaken' \in SUBSET Chunks /\ touched' \in SUBSET Chunks
        /\ asked' \in SUBSET touched' /\ faulted' \in SUBSET Chunks
    BY DEF EngineTypeOK, Bounds
  <1> QED  BY <1>1, <1>2, <1>3 DEF EngineTypeOK, Chunks

LEMMA StepBounds ==
    ASSUME Shape, [Next]_vars
    PROVE  Bounds
  <1> USE DEF Bounds, Called, Return, Goto, Fault, Sounds, Answered, StopCalled, memory
  <1>0. /\ EngineTypeOK /\ SpawnedTypeOK /\ Places /\ Kinds
        /\ sound \in [Chunks -> Audible \cup {"none", "whole", "cut", "lost"}]
    BY DEF Shape, TypeOK, EngineTypeOK
  <1>1. CASE SpawnedSpeaks
    BY <1>0, <1>1 DEF SpawnedSpeaks, SpeakSpawned, Spawn, Render, Play, Register, Finish,
       WaitSynth, WaitPlayer, Clear, NotStarted, processes, spawned, Places, Audible
  <1>2. CASE PlatformSpeaks
    BY <1>0, <1>2 DEF PlatformSpeaks, SpeakPlatform, Ask, Utter, Poll, ReadGeneration,
       PutLatch, Queue, Again, Await, TtsStop, Places, Audible, call
  <1>3. CASE NoneSpeaks
    BY <1>0, <1>3 DEF NoneSpeaks, SpeakNotFound, NothingYet, Look, Probed, Places
  <1>4. ASSUME NEW s \in Stoppers, SpawnedStops(s) PROVE Bounds
    BY <1>0, <1>4 DEF SpawnedStops, StopSpawned, Call, Take, Flag, KillPlayer, KillSynth,
       CleanUp, Heard, call, Kinds, Holding, InCall, Places
  <1>5. ASSUME NEW s \in Stoppers, PlatformStops(s) PROVE Bounds
    BY <1>0, <1>5 DEF PlatformStops, StopPlatform, StopPolled, StopLatch, Bump, Silence,
       Release, ClearMap, TtsStop, call, InCall, Places
  <1>6. ASSUME NEW s \in Stoppers, NoneStops(s) PROVE Bounds
    BY <1>0, <1>6 DEF NoneStops, StopMisses, call, InCall, Places
  <1>7. CASE Listener \/ UNCHANGED vars \/ Finds
    BY <1>7 DEF Listener, Notify, Finds, Install, RetryPasses, LookElsewhere,
       ProbedElsewhere, vars, shared, call
  <1>8. CASE System
    BY <1>0, <1>8 DEF System, SynthEnds, PlayerEnds, PipeBreaks, Heard, call
  <1>9. CASE Synthesiser
    BY <1>0, <1>9 DEF Synthesiser, call, Audible
  <1> QED  BY StepSplit, <1>1, <1>2, <1>3, <1>4, <1>5, <1>6, <1>7, <1>8, <1>9

LEMMA TypesStep ==
    ASSUME Shape, [Next]_vars
    PROVE  TypeOK'
  <1>0. TypeOK /\ Places /\ Kinds /\ Chunks' = Chunks
    BY DEF Shape, Chunks
  <1>1. EngineTypeOK'
    BY <1>0, StepBounds, BoundsTypes DEF TypeOK
  <1>2. kind' \in Spawning \cup OnSystem \cup {None}
    <2>1. kind' = kind \/ \E things : kind' = Discover(things)
      BY StepSplit DEF SpawnedSpeaks, PlatformSpeaks, NoneSpeaks, SpawnedStops, PlatformStops,
         NoneStops, Listener, System, Synthesiser, Finds, vars, shared, SpeakSpawned,
         SpeakPlatform, SpeakNotFound, NothingYet, Look, Probed, Found, StopSpawned,
         StopPlatform, StopPolled, StopLatch, StopMisses, Notify, Install, RetryPasses,
         LookElsewhere, ProbedElsewhere
    <2> QED  BY <1>0, <2>1, FindsSpawning DEF TypeOK, Spawning
  <1>3. SpawnedTypeOK'
    <2>1. CASE UNCHANGED spawned
      BY <1>0, <2>1 DEF TypeOK, SpawnedTypeOK, spawned, processes
    <2>2. CASE SpawnedSpeaks
      <3>1. /\ synth' \in {synth, [synth EXCEPT ![chunk] = "running"]}
            /\ player' \in {player, [player EXCEPT ![chunk] = "running"]}
            /\ killed' = killed /\ current' \in {current, chunk, None}
            /\ scratch' \subseteq scratch \cup {chunk} /\ chunk \in Chunks
        BY <1>0, <2>2 DEF SpawnedSpeaks, SpeakSpawned, Spawn, Render, Play, Register, Finish,
           WaitSynth, WaitPlayer, Clear, NotStarted, processes, spawned, Called, Places
      <3> QED  BY <1>0, <3>1 DEF TypeOK, SpawnedTypeOK
    <2>3. ASSUME NEW s \in Stoppers, SpawnedStops(s) PROVE SpawnedTypeOK'
      <3>1. /\ synth' \in {synth, Dead(synth, taken[s])}
            /\ player' \in {player, Dead(player, taken[s])}
            /\ killed' \in {killed, killed \cup {<<taken[s], "player">>},
                            killed \cup {<<taken[s], "synth">>}}
            /\ killed' # killed => taken[s] \in Chunks
            /\ current' \in {current, None} /\ scratch' \subseteq scratch
        BY <1>0, <2>3 DEF SpawnedStops, StopSpawned, Call, Take, Flag, KillPlayer, KillSynth,
           CleanUp, processes, Kinds, Holding
      <3>2. synth' \in [Chunks -> Ended \cup {"none", "running"}]
        BY <1>0, <3>1 DEF TypeOK, SpawnedTypeOK, Dead, Ended
      <3>3. player' \in [Chunks -> Ended \cup {"none", "running"}]
        BY <1>0, <3>1 DEF TypeOK, SpawnedTypeOK, Dead, Ended
      <3> QED  BY <1>0, <3>1, <3>2, <3>3 DEF TypeOK, SpawnedTypeOK
    <2>4. CASE System
      <3>1. /\ UNCHANGED <<killed, current, taken, scratch, outcome>>
            /\ \/ synth' = synth
               \/ \E c \in Chunks, v \in Ended : synth' = [synth EXCEPT ![c] = v]
            /\ \/ player' = player
               \/ \E c \in Chunks, v \in Ended : player' = [player EXCEPT ![c] = v]
        BY <2>4 DEF System, SynthEnds, PlayerEnds, PipeBreaks, Ended
      <3> QED  BY <1>0, <3>1 DEF TypeOK, SpawnedTypeOK
    <2> QED  BY <2>1, <2>2, <2>3, <2>4, StepSplit DEF PlatformSpeaks, NoneSpeaks, PlatformStops,
             NoneStops, Listener, Synthesiser, Finds, vars
  <1>4. PlatformTypeOK'
    <2>1. CASE UNCHANGED platform
      BY <1>0, <2>1 DEF TypeOK, PlatformTypeOK, platform, polls, latches
    <2>2. CASE PlatformSpeaks
      BY <1>0, <2>2 DEF PlatformSpeaks, SpeakPlatform, Ask, Utter, Poll, ReadGeneration,
         PutLatch, Queue, Again, Await, TtsStop, Places, polls, latches, TypeOK, PlatformTypeOK
    <2>3. ASSUME NEW s \in Stoppers, PlatformStops(s) PROVE PlatformTypeOK'
      <3>1. CASE StopPolled(s)
        BY <1>0, <3>1 DEF StopPolled, latches, TypeOK, PlatformTypeOK
      <3>2. CASE StopLatch(s)
        <4>1. /\ UNCHANGED <<seenGen, stopping, started>>
              /\ generation' \in {generation, generation + 1}
              /\ notices' \subseteq notices \cup Chunks
              /\ waiting' \in {waiting, {}} /\ down' \in {down, down \cup waiting}
          BY <3>2 DEF StopLatch, Bump, Silence, Release, ClearMap, TtsStop, polls
        <4> QED  BY <1>0, <4>1 DEF TypeOK, PlatformTypeOK
      <3> QED  BY <2>3, <3>1, <3>2 DEF PlatformStops, StopPlatform
    <2>4. CASE Listener \/ Synthesiser
      BY <1>0, <2>4 DEF Listener, Notify, Synthesiser, Tell, polls, latches, TypeOK,
         PlatformTypeOK
    <2> QED  BY <2>1, <2>2, <2>3, <2>4, StepSplit DEF SpawnedSpeaks, NoneSpeaks, SpawnedStops,
             NoneStops, Finds, vars
  <1>5. DiscoveryTypeOK'
    <2>1. CASE UNCHANGED finding
      BY <1>0, <2>1 DEF TypeOK, DiscoveryTypeOK, finding
    <2>2. CASE SpawnedSpeaks \/ PlatformSpeaks
      BY <1>0, <2>2 DEF SpawnedSpeaks, PlatformSpeaks, Calls, TypeOK, DiscoveryTypeOK
    <2>3. CASE NoneSpeaks
      <3>1. CASE NothingYet
        BY <2>1, <3>1 DEF NothingYet
      <3>2. CASE Look
        BY <1>0, <3>2 DEF Look, TypeOK, DiscoveryTypeOK
      <3>3. CASE Probed
        BY <1>0, <3>3 DEF Probed, Found, TypeOK, DiscoveryTypeOK
      <3> QED  BY <2>3, <3>1, <3>2, <3>3 DEF NoneSpeaks, SpeakNotFound
    <2>4. ASSUME NEW s \in Stoppers, SpawnedStops(s) \/ PlatformStops(s)
          PROVE  DiscoveryTypeOK'
      BY <1>0, <2>4 DEF SpawnedStops, PlatformStops, StopCalls, TypeOK, DiscoveryTypeOK
    <2>5. CASE Finds
      <3>1. CASE Install
        BY <1>0, <3>1, DiscoveryAssumption DEF Install, TypeOK, DiscoveryTypeOK, Things
      <3>2. CASE RetryPasses \/ LookElsewhere
        BY <1>0, <3>2 DEF RetryPasses, LookElsewhere, TypeOK, DiscoveryTypeOK
      <3>3. CASE ProbedElsewhere
        <4>1. /\ slot' \in {slot, slot + 1} /\ probing' = FALSE
              /\ UNCHANGED <<has, wrapped, mine, via, due, tuned>>
          BY <3>3 DEF ProbedElsewhere, Found
        <4>2. slot \in Nat /\ slot' \in Nat
          BY <1>0, <4>1 DEF TypeOK, DiscoveryTypeOK
        <4>3. probing' \in BOOLEAN /\ due' = due /\ wrapped' = wrapped
          BY <4>1
        <4> QED  BY <1>0, <4>1, <4>2, <4>3 DEF TypeOK, DiscoveryTypeOK
      <3> QED  BY <2>5, <3>1, <3>2, <3>3 DEF Finds
    <2> QED  BY <2>1, <2>2, <2>3, <2>4, <2>5, StepSplit DEF NoneStops, StopMisses, Listener, vars
  <1> QED  BY <1>1, <1>2, <1>3, <1>4, <1>5 DEF TypeOK

LEMMA PlacesStep ==
    ASSUME Shape, [Next]_vars
    PROVE  Places'
  <1>0. TypeOK /\ Places /\ Kinds /\ Chunks' = Chunks
    BY DEF Shape, Chunks
  <1> USE DEF Places, Holding, Registered, Latched, Called, Return, Goto
  <1>1. CASE SpawnedSpeaks
    BY <1>0, <1>1 DEF SpawnedSpeaks, SpeakSpawned, Spawn, Render, Play, Register, Finish,
       WaitSynth, WaitPlayer, Clear, NotStarted, processes, spawned, Checked
  <1>2. CASE PlatformSpeaks
    BY <1>0, <1>2 DEF PlatformSpeaks, SpeakPlatform, Ask, Utter, Poll, ReadGeneration,
       PutLatch, Queue, Again, Await, call, spawned
  <1>3. CASE NoneSpeaks
    BY <1>0, <1>3 DEF NoneSpeaks, SpeakNotFound, NothingYet, Look, Probed, spawned
  <1>4. ASSUME NEW s \in Stoppers, SpawnedStops(s) PROVE Places'
    BY <1>0, <1>4 DEF SpawnedStops, StopSpawned, Call, Take, Flag, KillPlayer, KillSynth,
       CleanUp, call, StopCalled, StopGoes, TypeOK, SpawnedTypeOK
  <1>5. ASSUME NEW s \in Stoppers, PlatformStops(s) PROVE Places'
    BY <1>0, <1>5 DEF PlatformStops, StopPlatform, StopPolled, StopLatch, Bump, Silence,
       Release, ClearMap, call, spawned, StopCalled, StopGoes
  <1>6. ASSUME NEW s \in Stoppers, NoneStops(s) PROVE Places'
    BY <1>0, <1>6 DEF NoneStops, StopMisses, call, spawned, StopCalled, StopGoes
  <1>7. CASE Listener \/ UNCHANGED vars \/ Finds
    BY <1>0, <1>7 DEF Listener, Notify, Finds, Install, RetryPasses, LookElsewhere,
       ProbedElsewhere, vars, shared, call, spawned
  <1>8. CASE System \/ (Synthesiser /\ UNCHANGED spawned)
    BY <1>0, <1>8 DEF System, Synthesiser, call, spawned
  <1> QED  BY StepSplit, <1>1, <1>2, <1>3, <1>4, <1>5, <1>6, <1>7, <1>8

\* The engine that is found first stays what it is.
LEMMA KindStays ==
    ASSUME Shape, [Next]_vars
    PROVE  /\ kind # None => kind' = kind
           /\ kind' # kind => wrapped /\ kind' \in {"pipe", "file"} /\ (NoneSpeaks \/ Finds)
  <1>0. Kinds
    BY DEF Shape
  <1>1. CASE NoneSpeaks
    <2>1. CASE NothingYet \/ Look
      BY <2>1 DEF NothingYet, Look
    <2>2. CASE Probed
      BY <1>0, <1>1, <2>2, FindsSpawning DEF Probed, Found, Kinds
    <2> QED  BY <1>1, <2>1, <2>2 DEF NoneSpeaks, SpeakNotFound
  <1>2. CASE Finds
    <2>1. CASE ProbedElsewhere
      BY <1>0, <1>2, <2>1, FindsSpawning DEF ProbedElsewhere, Found, Kinds
    <2> QED  BY <1>2, <2>1 DEF Finds, Install, RetryPasses, LookElsewhere, shared
  <1>3. CASE ~NoneSpeaks /\ ~Finds
    BY <1>3, StepSplit DEF SpawnedSpeaks, PlatformSpeaks, SpawnedStops, PlatformStops, NoneStops,
       Listener, System, Synthesiser, vars, shared, SpeakSpawned, SpeakPlatform, StopSpawned,
       StopPlatform, StopPolled, StopLatch, StopMisses, Notify
  <1> QED  BY <1>1, <1>2, <1>3

LEMMA KindsStep ==
    ASSUME Shape, [Next]_vars
    PROVE  Kinds'
  <1>0. TypeOK /\ Places /\ Kinds /\ Places' /\ TypeOK'
    BY PlacesStep, TypesStep DEF Shape
  <1> USE DEF Kinds, Holding, Registered, Latched, Called, Return, Goto
  <1>1. CASE SpawnedSpeaks
    <2>1. UNCHANGED <<kind, slot, wrapped, has, probing, stopAt, taken>>
      BY <1>1 DEF SpawnedSpeaks, SpeakSpawned, Spawn, Render, Play, Register, Finish,
         WaitSynth, WaitPlayer, Clear, NotStarted, processes, spawned, Checked
    <2> QED  BY <1>0, <1>1, <2>1, EnginesAssumption DEF SpawnedSpeaks, SpeakSpawned, Spawn, Render,
       Play, Register, Finish, WaitSynth, WaitPlayer, Clear, NotStarted, Spawning
  <1>2. CASE PlatformSpeaks
    <2>1. UNCHANGED <<kind, slot, wrapped, has, probing, stopAt, taken>>
      BY <1>2 DEF PlatformSpeaks, SpeakPlatform, spawned
    <2> QED  BY <1>0, <1>2, <2>1, EnginesAssumption DEF PlatformSpeaks, SpeakPlatform, Ask, Utter,
             Poll, ReadGeneration, PutLatch, Queue, Again, Await, call, Polled, OnSystem
  <1>3. CASE NoneSpeaks
    <2>1. CASE NothingYet
      BY <1>0, <1>3, <2>1 DEF NoneSpeaks, NothingYet, spawned, finding
    <2>2. CASE Look
      BY <1>0, <1>3, <2>2 DEF NoneSpeaks, Look, spawned
    <2>3. CASE Probed
      <3>1. at' # at => at' \in {"found", "idle"}
        BY <2>3 DEF Probed
      <3>2. slot' = slot \/ (slot' = slot + 1 /\ kind' = Discover(has) /\ Discover(has) # None)
        BY <2>3 DEF Probed, Found
      <3>3. /\ UNCHANGED <<stopAt, taken, has, wrapped, probing>> /\ wrapped
            /\ slot' = slot => kind' = kind /\ at' = "idle"
            /\ slot \in Nat
        BY <1>0, <1>3, <2>3 DEF NoneSpeaks, Probed, Found, spawned, TypeOK, DiscoveryTypeOK
      <3> QED  BY <1>0, <3>1, <3>2, <3>3, KindStays, FindsSpawning, EnginesAssumption, <2>3 DEF Probed, Spawning, OnSystem, Polled
    <2> QED  BY <1>3, <2>1, <2>2, <2>3 DEF NoneSpeaks, SpeakNotFound
  <1>4. ASSUME NEW s \in Stoppers, SpawnedStops(s) PROVE Kinds'
    <2>1. UNCHANGED <<kind, slot, wrapped, has, probing, at>>
      BY <1>4 DEF SpawnedStops, StopSpawned, call
    <2> QED  BY <1>0, <1>4, <2>1 DEF SpawnedStops, StopSpawned, Call, Take, Flag, KillPlayer,
             KillSynth, CleanUp, StopCalled, StopGoes, TypeOK, SpawnedTypeOK, Places
  <1>5. ASSUME NEW s \in Stoppers, PlatformStops(s) PROVE Kinds'
    <2>1. UNCHANGED <<kind, slot, wrapped, has, probing, at, taken>>
      BY <1>5 DEF PlatformStops, StopPlatform, StopPolled, StopLatch, call, spawned
    <2> QED  BY <1>0, <1>5, <2>1 DEF PlatformStops, StopPlatform, StopPolled, StopLatch, Bump,
             Silence, Release, ClearMap, StopCalled, StopGoes, Places
  <1>6. ASSUME NEW s \in Stoppers, NoneStops(s) PROVE Kinds'
    BY <1>0, <1>6 DEF NoneStops, StopMisses, call, spawned, finding, StopCalled, StopGoes, Places
  <1>7. CASE Finds
    <2>1. UNCHANGED <<at, stopAt, taken, wrapped>>
      BY <1>7 DEF Finds, Install, RetryPasses, LookElsewhere, ProbedElsewhere, shared, call, spawned
    <2>2. CASE Install
      <3>1. UNCHANGED <<kind, slot, probing>> /\ wrapped
        BY <2>2 DEF Install, shared
      <3>2. kind # None => has' = has
        BY <1>0, <2>2, DiscoveryAssumption DEF Install, Discover
      <3> QED  BY <1>0, <2>1, <3>1, <3>2
    <2>3. CASE RetryPasses \/ LookElsewhere
      BY <1>0, <2>1, <2>3 DEF RetryPasses, LookElsewhere, shared
    <2>4. CASE ProbedElsewhere
      <3>1. \/ slot' = slot /\ kind' = kind
            \/ slot' = slot + 1 /\ kind' = Discover(has) /\ Discover(has) # None
        BY <2>4 DEF ProbedElsewhere, Found
      <3>2. wrapped /\ has' = has /\ slot \in Nat
        BY <1>0, <2>4 DEF ProbedElsewhere, TypeOK, DiscoveryTypeOK
      <3> QED  BY <1>0, <2>1, <3>1, <3>2, KindStays, FindsSpawning, EnginesAssumption
               DEF Spawning, OnSystem, Polled
    <2> QED  BY <1>7, <2>2, <2>3, <2>4 DEF Finds
  <1>8. CASE Listener \/ UNCHANGED vars
    BY <1>0, <1>8 DEF Listener, Notify, vars, shared, call, spawned, finding
  <1>9. CASE (System /\ UNCHANGED finding) \/ (Synthesiser /\ UNCHANGED <<spawned, finding>>)
    BY <1>0, <1>9 DEF System, Synthesiser, call, spawned, finding
  <1> QED  BY StepSplit, <1>1, <1>2, <1>3, <1>4, <1>5, <1>6, <1>7, <1>8, <1>9

\* Only the engine in use does anything.
LEMMA OthersRest ==
    ASSUME Shape, [Next]_vars
    PROVE  /\ kind \notin Spawning => UNCHANGED spawned
           /\ kind \notin OnSystem => UNCHANGED <<polls, generation, seenGen>>
           /\ SpawnedSpeaks \/ System => kind \in Spawning
           /\ PlatformSpeaks \/ Synthesiser => kind \in OnSystem
           /\ NoneSpeaks => kind' \notin OnSystem
           /\ \A s \in Stoppers : /\ SpawnedStops(s) => kind \in Spawning
                                  /\ PlatformStops(s) => kind \in OnSystem
  <1>0. Kinds
    BY DEF Shape
  <1>1. SpawnedSpeaks \/ System => kind \in Spawning
    BY <1>0 DEF SpawnedSpeaks, SpeakSpawned, Spawn, Render, Play, Register, Finish, WaitSynth,
       WaitPlayer, Clear, System, Kinds, Registered, Spawning
  <1>2. PlatformSpeaks \/ Synthesiser => kind \in OnSystem
    BY <1>0 DEF PlatformSpeaks, SpeakPlatform, Ask, Utter, Poll, ReadGeneration, PutLatch, Queue,
       Again, Await, Synthesiser, Kinds, Latched, OnSystem, Polled
  <1>3. NoneSpeaks => kind' \notin OnSystem
    <2>1. NoneSpeaks => kind' = None \/ (wrapped /\ kind' = kind) \/ kind' # kind
      BY <1>0 DEF NoneSpeaks, SpeakNotFound, NothingYet, Look, Probed, Kinds
    <2> QED  BY <1>0, <2>1, KindStays, EnginesAssumption DEF Kinds, OnSystem, Polled
  <1>4. ASSUME NEW s \in Stoppers
        PROVE  /\ SpawnedStops(s) => kind \in Spawning
               /\ PlatformStops(s) => kind \in OnSystem
    BY <1>0 DEF SpawnedStops, StopSpawned, Call, Take, Flag, KillPlayer, KillSynth, CleanUp,
       PlatformStops, StopPlatform, StopPolled, StopLatch, Bump, Silence, Release, ClearMap, Kinds,
       Holding, Spawning, OnSystem, Polled
  <1>5. Spawning \cap OnSystem = {}
    BY DEF Spawning, OnSystem, Polled
  <1> QED  BY <1>1, <1>2, <1>3, <1>4, <1>5, StepSplit DEF SpawnedSpeaks, PlatformSpeaks, NoneSpeaks,
           SpawnedStops, PlatformStops, NoneStops, Listener, Notify, Finds, platform, polls, latches,
           vars

\* A sound begins where speak begins it, and then ends.
LEMMA SoundsStep ==
    ASSUME Shape, [Next]_vars, NEW c \in Chunks
    PROVE  \/ sound'[c] = sound[c]
           \/ sound[c] \in Audible /\ sound'[c] # "none"
           \/ c = chunk /\ chunk' = chunk /\ at' \in {"register", "poll", "again"}
  <1>0. /\ sound \in [Chunks -> Audible \cup {"none", "whole", "cut", "lost"}]
        /\ Kinds
    BY DEF Shape, TypeOK, EngineTypeOK
  <1> USE DEF Sounds, Goto, Return
  <1>1. CASE SpawnedSpeaks
    BY <1>0, <1>1 DEF SpawnedSpeaks, SpeakSpawned, Spawn, Render, Play, Register, Finish,
       WaitSynth, WaitPlayer, Clear, NotStarted
  <1>2. CASE PlatformSpeaks
    BY <1>0, <1>2 DEF PlatformSpeaks, SpeakPlatform, Ask, Utter, Poll, ReadGeneration,
       PutLatch, Queue, Again, Await, TtsStop, Silenced, Audible
  <1>3. CASE NoneSpeaks
    BY <1>3 DEF NoneSpeaks, SpeakNotFound, NothingYet, Look, Probed
  <1>4. ASSUME NEW s \in Stoppers, SpawnedStops(s) \/ PlatformStops(s) \/ NoneStops(s)
        PROVE  sound'[c] = sound[c] \/ (sound[c] \in Audible /\ sound'[c] # "none")
    BY <1>0, <1>4 DEF SpawnedStops, StopSpawned, Call, Take, Flag, KillPlayer, KillSynth, CleanUp,
       Heard, PlatformStops, StopPlatform, StopPolled, StopLatch, Bump, Silence, Release, ClearMap,
       TtsStop, Silenced, NoneStops, StopMisses
  <1>5. CASE Listener \/ UNCHANGED vars \/ Finds
    BY <1>5 DEF Listener, Notify, Finds, Install, RetryPasses, LookElsewhere, ProbedElsewhere, vars,
       shared
  <1>6. CASE System
    BY <1>0, <1>6 DEF System, SynthEnds, PlayerEnds, PipeBreaks, Heard
  <1>7. CASE Synthesiser
    BY <1>0, <1>7 DEF Synthesiser, Audible
  <1> QED  BY StepSplit, <1>1, <1>2, <1>3, <1>4, <1>5, <1>6, <1>7

LEMMA ProgressStep ==
    ASSUME Shape, [Next]_vars
    PROVE  Progress'
  <1> DEFINE Before == {"idle", "probe", "found", "render", "worker", "latch", "queue"}
  <1>0. /\ EngineTypeOK /\ Places /\ Kinds /\ Progress /\ Chunks' = Chunks
        /\ chunk \in 1 .. Last + 1 /\ result \in [Chunks -> {"ok", "failed", None}]
    BY DEF Shape, TypeOK, EngineTypeOK, Chunks
  <1>1. chunk' = chunk \/ chunk' = chunk + 1
    BY StepBounds DEF Bounds
  <1>2. \A c \in Chunks : result'[c] = None <=> c >= chunk'
    BY <1>0, StepBounds, EngineAssumption, EnginesAssumption DEF Bounds, Progress, Chunks
  <1>3. \A c \in Chunks : c > chunk' => sound'[c] = "none"
    BY <1>0, <1>1, SoundsStep, EngineAssumption DEF Progress, Chunks, Audible
  <1>4. ASSUME NEW c \in Chunks, kind' = None
        PROVE  sound'[c] = "none" /\ player'[c] = "none" /\ synth'[c] = "none"
    <2>1. kind = None
      BY <1>4, KindStays
    <2>2. kind \notin Spawning /\ kind \notin OnSystem
      BY <2>1, EnginesAssumption DEF Spawning, OnSystem
    <2>3. sound[c] = "none" /\ player[c] = "none" /\ synth[c] = "none"
      BY <1>0, <2>1 DEF Progress
    <2>4. UNCHANGED spawned
      BY <2>2, OthersRest
    <2>5. kind' = kind /\ at' \notin {"register", "poll", "again"}
      BY <2>1, <2>2, <1>4, KindsStep DEF Kinds, Registered, Latched, Spawning, OnSystem, Polled
    <2> QED  BY <2>3, <2>4, <2>5, SoundsStep DEF spawned, processes, Audible
  <1>5. ASSUME at' \in Before, NEW c \in Chunks, c = chunk'
        PROVE  sound'[c] = "none"
    <2>1. CASE chunk' = chunk + 1
      BY <1>0, <2>1, <1>5, SoundsStep DEF Progress, Audible, Chunks
    <2>2. CASE chunk' = chunk
      <3>1. at \in Before
        <4>1. chunk + 1 # chunk
          BY <1>0, EngineAssumption
        <4>2. CASE SpawnedSpeaks
          BY <1>5, <2>2, <4>1, <4>2 DEF SpawnedSpeaks, SpeakSpawned, Spawn, Render, Play, Register,
             Finish, WaitSynth, WaitPlayer, Clear, NotStarted, Called, Return, Goto
        <4>3. CASE PlatformSpeaks
          BY <1>5, <2>2, <4>1, <4>3 DEF PlatformSpeaks, SpeakPlatform, Ask, Utter, Poll,
             ReadGeneration, PutLatch, Queue, Again, Await, Called, Return, Goto, call
        <4>4. CASE NoneSpeaks
          BY <1>5, <2>2, <4>1, <4>4 DEF NoneSpeaks, SpeakNotFound, NothingYet, Look, Probed, Called,
             Return, Goto
        <4>5. ASSUME NEW s \in Stoppers, SpawnedStops(s) \/ PlatformStops(s) \/ NoneStops(s)
              PROVE  at' = at
          BY <4>5 DEF SpawnedStops, StopSpawned, PlatformStops, StopPlatform, StopPolled, StopLatch,
             NoneStops, StopMisses, call
        <4>6. CASE Listener \/ System \/ Synthesiser \/ Finds \/ UNCHANGED vars
          BY <1>5, <4>6 DEF Listener, Notify, System, Synthesiser, Finds, Install, RetryPasses,
             LookElsewhere, ProbedElsewhere, vars, shared, call
        <4> QED  BY <1>5, <4>2, <4>3, <4>4, <4>5, <4>6, StepSplit
      <3> QED  BY <1>0, <1>5, <2>2, <3>1, SoundsStep DEF Progress, Audible
    <2> QED  BY <1>1, <2>1, <2>2
  <1> QED  BY <1>2, <1>3, <1>4, <1>5 DEF Progress

LEMMA AlertStep ==
    ASSUME Shape, [Next]_vars
    PROVE  Alert'
  <1>0. /\ EngineTypeOK /\ Places /\ Alert /\ overtaken \subseteq overtaken' /\ touched \subseteq touched'
        /\ chunk \in 1 .. Last + 1
    BY StepBounds DEF Shape, TypeOK, EngineTypeOK, Bounds
  <1>1. ASSUME NEW s \in Stoppers, SpawnedStops(s) \/ PlatformStops(s) \/ NoneStops(s)
        PROVE  Alert'
    <2>1. UNCHANGED call
      BY <1>1 DEF SpawnedStops, StopSpawned, PlatformStops, StopPlatform, StopPolled, StopLatch,
         NoneStops, StopMisses, call
    <2>2. CASE \E a, f : StopCalled(s, a, f)
      BY <2>1, <2>2 DEF StopCalled, Alert, InCall, Untouched, call
    <2>3. CASE stopAt[s] \notin {"before", "done"} /\ \E a : StopGoes(s, a)
      BY <1>0, <2>1, <2>3 DEF Alert, InCall, Untouched, Under, StopGoes, Places, call
    <2> QED  BY <1>1, <2>2, <2>3 DEF SpawnedStops, StopSpawned, Call, Take, Flag, KillPlayer,
             KillSynth, CleanUp, PlatformStops, StopPlatform, StopPolled, StopLatch, Bump, Silence,
             Release, ClearMap, NoneStops, StopMisses
  <1>2. CASE SpawnedSpeaks \/ PlatformSpeaks \/ NoneSpeaks
    <2>1. stopAt' = stopAt
      BY <1>2 DEF SpawnedSpeaks, PlatformSpeaks, NoneSpeaks, SpeakSpawned, SpeakPlatform,
         SpeakNotFound, NothingYet, Look, Probed
    <2>2. \/ at' = "idle"
          \/ Called /\ chunk' = chunk
          \/ InCall /\ chunk' = chunk
      BY <1>2 DEF SpawnedSpeaks, SpeakSpawned, Spawn, Render, Play, Register, Finish,
         WaitSynth, WaitPlayer, Clear, NotStarted, PlatformSpeaks, SpeakPlatform, Ask, Utter, Poll,
         ReadGeneration, PutLatch, Queue, Again, Await, NoneSpeaks, SpeakNotFound, NothingYet, Look,
         Probed, Return, Goto, InCall, call
    <2> QED  BY <1>0, <2>1, <2>2 DEF Called, Alert, InCall, Untouched, Under
  <1>3. CASE Listener \/ System \/ Synthesiser \/ Finds \/ UNCHANGED vars
    <2>1. UNCHANGED <<at, chunk, stopAt, overtaken, touched>>
      BY <1>3 DEF Listener, Notify, System, Synthesiser, Finds, Install, RetryPasses,
         LookElsewhere, ProbedElsewhere, vars, shared, call, memory
    <2> QED  BY <1>0, <2>1 DEF Alert, InCall, Untouched, Under
  <1> QED  BY <1>1, <1>2, <1>3, StepSplit

LEMMA ShapeStep ==
    ASSUME Shape, [Next]_vars
    PROVE  Shape'
  BY TypesStep, PlacesStep, KindsStep, ProgressStep, AlertStep DEF Shape

LEMMA ShapeAlways == Spec => []Shape
  <1>1. Shape /\ [Next]_vars => Shape'
    BY ShapeStep
  <1> QED  BY ShapeInit, <1>1, PTL DEF Spec

-----------------------------------------------------------------------------
(* The engines that spawn.                                                 *)

\* Steps that do not touch what has been spawned.
Aside ==
    /\ UNCHANGED <<kind, chunk, result, sound, spawned, overtaken, faulted>>
    /\ at' = at \/ (at = "probe" /\ at' = "found")
    /\ touched \subseteq touched'
    /\ \A s \in Stoppers :
          stopAt'[s] = stopAt[s] \/ (stopAt[s] \notin Holding /\ stopAt'[s] \notin Holding)

LEMMA SpawnedSplit ==
    ASSUME Shape, [Next]_vars, kind \in Spawning
    PROVE  \/ SpawnedSpeaks
           \/ \E s \in Stoppers : SpawnedStops(s)
           \/ System
           \/ Aside
  <1>0. /\ Kinds /\ Places /\ touched \subseteq touched' /\ kind' = kind
        /\ kind # None /\ kind \notin OnSystem
    BY StepBounds, KindStays, EnginesAssumption DEF Shape, Bounds, Spawning, OnSystem, Polled
  <1>1. CASE NoneSpeaks
    <2>1. /\ at = "probe" /\ at' = "found"
          /\ UNCHANGED <<chunk, result, sound, stopAt, overtaken, faulted, spawned>>
      BY <1>0, <1>1 DEF NoneSpeaks, SpeakNotFound, NothingYet, Look, Probed, Kinds, Goto
    <2> QED  BY <1>0, <2>1 DEF Aside
  <1>2. ASSUME NEW s \in Stoppers, NoneStops(s) PROVE Aside
    BY <1>0, <1>2 DEF NoneStops, StopMisses, StopCalled, StopGoes, Places, Holding, memory, call, Aside
  <1>3. CASE Listener \/ Finds \/ UNCHANGED vars
    BY <1>0, <1>3 DEF Listener, Notify, Finds, Install, RetryPasses, LookElsewhere,
       ProbedElsewhere, shared, call, memory, vars, Aside
  <1> QED  BY <1>0, <1>1, <1>2, <1>3, StepSplit, OthersRest

LEMMA PlayedStep ==
    ASSUME Shape, SpawnedInv, [Next]_vars, kind \in Spawning
    PROVE  Played'
  <1>0. /\ TypeOK /\ Places /\ Kinds /\ Progress /\ Played /\ kind' = kind /\ Chunks' = Chunks
        /\ sound \in [Chunks -> Audible \cup {"none", "whole", "cut", "lost"}]
        /\ synth \in [Chunks -> Ended \cup {"none", "running"}]
        /\ player \in [Chunks -> Ended \cup {"none", "running"}]
    BY KindStays, EnginesAssumption DEF Shape, TypeOK, EngineTypeOK, SpawnedTypeOK, SpawnedInv,
       Spawning, Chunks
  <1>1. CASE SpawnedSpeaks
    <2>1. CASE Spawn
      BY <1>0, <2>1 DEF Spawn, NotStarted, Called, Sounds, processes, Progress, Played, Ended
    <2>2. CASE Render
      BY <1>0, <2>2 DEF Render, NotStarted, Called, Sounds, processes, Progress, Played, Ended
    <2>3. CASE Play
      BY <1>0, <2>3 DEF Play, Sounds, processes, Progress, Played, Ended, Kinds
    <2>4. CASE Register \/ Finish \/ WaitSynth \/ WaitPlayer \/ Clear
      BY <1>0, <2>4 DEF Register, Finish, WaitSynth, WaitPlayer, Clear, processes, spawned, Played
    <2> QED  BY <1>1, <2>1, <2>2, <2>3, <2>4 DEF SpawnedSpeaks, SpeakSpawned
  <1>2. ASSUME NEW s \in Stoppers, SpawnedStops(s) PROVE Played'
    <2>1. CASE KillPlayer(s)
      BY <1>0, <2>1 DEF KillPlayer, Dead, Heard, Played, Ended, Audible
    <2>2. CASE KillSynth(s)
      BY <1>0, <2>2 DEF KillSynth, Dead, Played, Ended
    <2> QED  BY <1>0, <1>2, <2>1, <2>2 DEF SpawnedStops, StopSpawned, Call, Take, Flag, CleanUp,
             processes, Played
  <1>3. CASE System
    <2>1. PICK c \in Chunks : SynthEnds(c) \/ PlayerEnds(c) \/ PipeBreaks(c)
      BY <1>3 DEF System
    <2>2. CASE SynthEnds(c) \/ PipeBreaks(c)
      BY <1>0, <2>2 DEF SynthEnds, PipeBreaks, Played, Ended
    <2>3. CASE PlayerEnds(c)
      BY <1>0, <2>3 DEF PlayerEnds, Heard, Played, Ended, Audible
    <2> QED  BY <2>1, <2>2, <2>3
  <1>4. CASE Aside
    BY <1>0, <1>4 DEF Aside, spawned, processes, Played
  <1> QED  BY <1>1, <1>2, <1>3, <1>4, SpawnedSplit

LEMMA BlamedStep ==
    ASSUME Shape, SpawnedInv, [Next]_vars, kind \in Spawning
    PROVE  Blamed'
  <1>0. /\ TypeOK /\ Places /\ Kinds /\ Blamed /\ kind' = kind /\ Chunks' = Chunks
        /\ faulted \subseteq faulted'
        /\ synth \in [Chunks -> Ended \cup {"none", "running"}]
        /\ player \in [Chunks -> Ended \cup {"none", "running"}]
    BY KindStays, StepBounds, EnginesAssumption DEF Shape, TypeOK, EngineTypeOK, SpawnedTypeOK,
       SpawnedInv, Spawning, Chunks, Bounds
  <1>1. CASE SpawnedSpeaks
    BY <1>0, <1>1 DEF SpawnedSpeaks, SpeakSpawned, Spawn, Render, Play, Register, Finish, WaitSynth,
       WaitPlayer, Clear, NotStarted, processes, spawned, Blamed
  <1>2. ASSUME NEW s \in Stoppers, SpawnedStops(s) PROVE Blamed'
    <2>1. CASE KillPlayer(s)
      BY <1>0, <2>1 DEF KillPlayer, Dead, Blamed, StopGoes, Places
    <2>2. CASE KillSynth(s)
      BY <1>0, <2>2 DEF KillSynth, Dead, Blamed, StopGoes, Places
    <2>3. CASE \/ Flag(s, "player", "flagPlayer", "killPlayer")
               \/ Flag(s, "synth", "flagSynth", "killSynth")
      BY <1>0, <2>3 DEF Flag, Blamed, StopGoes, Places, processes, memory
    <2>4. CASE Call(s) \/ Take(s) \/ CleanUp(s)
      BY <1>0, <2>4 DEF Call, StopCalled, Take, CleanUp, Blamed, StopGoes, Places, processes, memory
    <2> QED  BY <1>2, <2>1, <2>2, <2>3, <2>4 DEF SpawnedStops, StopSpawned
  <1>3. CASE System
    BY <1>0, <1>3 DEF System, SynthEnds, PlayerEnds, PipeBreaks, Blamed
  <1>4. CASE Aside
    BY <1>0, <1>4 DEF Aside, spawned, processes, Blamed, Holding
  <1> QED  BY <1>1, <1>2, <1>3, <1>4, SpawnedSplit

LEMMA TakenStep ==
    ASSUME Shape, SpawnedInv, [Next]_vars, kind \in Spawning
    PROVE  Taken'
  <1>0. /\ TypeOK /\ Places /\ Kinds /\ Alert /\ Taken /\ kind' = kind /\ Chunks' = Chunks
        /\ overtaken \subseteq overtaken' /\ touched \subseteq touched'
        /\ \A c : ~Untouched(c) => ~Untouched(c)'
    BY KindStays, StepBounds, EnginesAssumption DEF Shape, SpawnedInv, Spawning, Chunks, Bounds, Untouched
  <1>1. CASE SpawnedSpeaks
    <2>1. UNCHANGED <<killed, taken, stopAt>>
      BY <1>1 DEF SpawnedSpeaks, SpeakSpawned, Spawn, Render, Play, Register, Finish, WaitSynth,
         WaitPlayer, Clear, NotStarted, spawned
    <2>2. \/ current' = chunk /\ chunk' = chunk /\ at' \in Registered
          \/ current' = None /\ at' \notin Registered
          \/ /\ current' = current /\ chunk' = chunk
             /\ (at \in Registered /\ at' \in Registered) \/ (at \notin Registered /\ at' \notin Registered)
          \/ current' = current /\ at \notin Registered /\ at' \notin Registered
      BY <1>1 DEF SpawnedSpeaks, SpeakSpawned, Spawn, Render, Play, Register, Finish, WaitSynth,
         WaitPlayer, Clear, NotStarted, spawned, Called, Return, Goto, Registered
    <2> QED  BY <1>0, <2>1, <2>2 DEF Taken
  <1>2. ASSUME NEW s \in Stoppers, SpawnedStops(s) PROVE Taken'
    <2>1. UNCHANGED call
      BY <1>2 DEF SpawnedStops, StopSpawned
    <2>2. CASE Take(s)
      BY <1>0, <2>1, <2>2 DEF Take, Taken, StopGoes, Places, Holding, Registered, call, Alert, InCall,
         Under, TypeOK, SpawnedTypeOK
    <2>3. CASE \/ Flag(s, "player", "flagPlayer", "killPlayer")
               \/ Flag(s, "synth", "flagSynth", "killSynth")
      BY <1>0, <2>1, <2>3 DEF Flag, Taken, StopGoes, Places, Holding, call
    <2>4. CASE Call(s) \/ KillPlayer(s) \/ KillSynth(s) \/ CleanUp(s)
      BY <1>0, <2>1, <2>4 DEF Call, StopCalled, KillPlayer, KillSynth, CleanUp, Taken, StopGoes, Places,
         Holding, call
    <2> QED  BY <1>2, <2>2, <2>3, <2>4 DEF SpawnedStops, StopSpawned
  <1>3. CASE System
    BY <1>0, <1>3 DEF System, call, Taken
  <1>4. CASE Aside
    BY <1>0, <1>4 DEF Aside, spawned, processes, Taken, Registered
  <1> QED  BY <1>1, <1>2, <1>3, <1>4, SpawnedSplit

LEMMA HeldStep ==
    ASSUME Shape, SpawnedInv, [Next]_vars, kind \in Spawning
    PROVE  Held'
  <1>0. /\ TypeOK /\ Places /\ Kinds /\ Taken /\ Held /\ Learnt /\ kind' = kind /\ Chunks' = Chunks
        /\ synth \in [Chunks -> Ended \cup {"none", "running"}]
        /\ player \in [Chunks -> Ended \cup {"none", "running"}]
        /\ None \notin Chunks
    BY KindStays, EnginesAssumption DEF Shape, TypeOK, SpawnedTypeOK, SpawnedInv, Spawning, Chunks
  <1>1. CASE SpawnedSpeaks
    <2>1. UNCHANGED <<taken, stopAt>>
      BY <1>1 DEF SpawnedSpeaks, SpeakSpawned, Spawn, Render, Play, Register, Finish, WaitSynth,
         WaitPlayer, Clear, NotStarted, spawned
    <2>2. CASE Spawn \/ Render
      BY <1>0, <2>1, <2>2 DEF Spawn, Render, NotStarted, Called, Goto, Return, Held, Taken, Registered,
         processes
    <2>3. CASE Play
      BY <1>0, <2>1, <2>3 DEF Play, Goto, Return, Held, Taken, Registered, processes
    <2>4. CASE Register
      BY <1>0, <2>1, <2>4 DEF Register, Goto, Held, Taken, Registered, processes
    <2>5. CASE Finish \/ WaitSynth
      BY <1>0, <2>1, <2>5 DEF Finish, WaitSynth, Goto, Held, processes, spawned
    <2>6. CASE WaitPlayer
      BY <1>0, <2>1, <2>6 DEF WaitPlayer, Goto, Held, Taken, processes, Ended
    <2>7. CASE Clear
      BY <1>0, <2>1, <2>7 DEF Clear, Return, Held, processes
    <2> QED  BY <1>1, <2>2, <2>3, <2>4, <2>5, <2>6, <2>7 DEF SpawnedSpeaks, SpeakSpawned
  <1>2. ASSUME NEW s \in Stoppers, SpawnedStops(s) PROVE Held'
    <2>1. UNCHANGED call
      BY <1>2 DEF SpawnedStops, StopSpawned
    <2>2. CASE Take(s)
      BY <1>0, <2>1, <2>2 DEF Take, Held, StopGoes, Places, Holding, processes, call, Taken
    <2>3. CASE \/ Flag(s, "player", "flagPlayer", "killPlayer")
               \/ Flag(s, "synth", "flagSynth", "killSynth")
      BY <1>0, <2>1, <2>3 DEF Flag, Held, StopGoes, Places, Holding, processes, call
    <2>4. CASE KillPlayer(s)
      <3>1. \A c \in Chunks : player'[c] = "running" => player[c] = "running" /\ c # taken[s]
        BY <1>0, <2>4 DEF KillPlayer, Dead
      <3>2. \A r \in Stoppers : r # s => stopAt'[r] = stopAt[r]
        BY <1>0, <2>4 DEF KillPlayer, StopGoes, Places
      <3>3. kind = "one" => scratch = {}
        BY <1>0 DEF Held
      <3>4. kind # "one" => stopAt'[s] = "flagSynth"
        BY <1>0, <2>4 DEF KillPlayer, StopGoes, Places
      <3> QED  BY <1>0, <2>1, <2>4, <3>1, <3>2, <3>3, <3>4 DEF KillPlayer, Held, Holding, call
    <2>5. CASE KillSynth(s)
      BY <1>0, <2>1, <2>5 DEF KillSynth, Held, StopGoes, Places, Holding, call
    <2>6. CASE CleanUp(s)
      BY <1>0, <2>1, <2>6 DEF CleanUp, Held, StopGoes, Places, Holding, processes, call
    <2>7. CASE Call(s)
      BY <1>0, <2>1, <2>7 DEF Call, StopCalled, Held, StopGoes, Places, Holding, processes, call
    <2> QED  BY <1>2, <2>2, <2>3, <2>4, <2>5, <2>6, <2>7 DEF SpawnedStops, StopSpawned
  <1>3. CASE System
    BY <1>0, <1>3 DEF System, SynthEnds, PlayerEnds, PipeBreaks, call, Held
  <1>4. CASE Aside
    BY <1>0, <1>4 DEF Aside, spawned, processes, Held, Holding
  <1> QED  BY <1>1, <1>2, <1>3, <1>4, SpawnedSplit

LEMMA LearntStep ==
    ASSUME Shape, SpawnedInv, [Next]_vars, kind \in Spawning
    PROVE  Learnt'
  <1>0. /\ TypeOK /\ Places /\ Kinds /\ Progress /\ Alert /\ kind' = kind /\ Chunks' = Chunks
        /\ Played /\ Blamed /\ Taken /\ Held /\ Learnt
        /\ overtaken \subseteq overtaken' /\ touched \subseteq touched' /\ faulted \subseteq faulted'
        /\ \A c : ~Untouched(c) => ~Untouched(c)'
        /\ None \notin Chunks
        /\ synth \in [Chunks -> Ended \cup {"none", "running"}]
        /\ player \in [Chunks -> Ended \cup {"none", "running"}]
    BY KindStays, StepBounds, EnginesAssumption DEF Shape, SpawnedInv, Spawning, Chunks, Bounds, Untouched,
       TypeOK, SpawnedTypeOK
  <1>1. CASE SpawnedSpeaks
    <2>1. CASE Spawn
      BY <1>0, <2>1 DEF Spawn, NotStarted, Called, Goto, Return, Learnt, Registered
    <2>2. CASE Render
      BY <1>0, <2>2 DEF Render, NotStarted, Called, Goto, Return, Learnt, Registered
    <2>3. CASE Play
      BY <1>0, <2>3 DEF Play, Goto, Return, Learnt, Registered, Checked, Taken, Places
    <2>4. CASE Register
      BY <1>0, <2>4 DEF Register, Goto, Learnt, Registered, processes, Kinds
    <2>5. CASE Finish
      BY <1>0, <2>5 DEF Finish, Goto, Learnt, Registered, spawned, processes, Taken, Places
    <2>6. CASE WaitSynth
      BY <1>0, <2>6 DEF WaitSynth, Goto, Learnt, Registered, processes, Checked, Taken, Blamed, Places, Ended, Kinds
    <2>7. CASE WaitPlayer
      <3>1. chunk \in Chunks
        BY <1>0, <2>7 DEF WaitPlayer, Places
      <3>2. /\ at' = "clear" /\ chunk' = chunk /\ UNCHANGED <<sound, faulted, synth, player, killed>>
            /\ player[chunk] \in Ended
        BY <2>7 DEF WaitPlayer, Goto, processes
      <3>3. /\ player[chunk] = "killed" => <<chunk, "player">> \in killed
            /\ <<chunk, "player">> \in killed => ~Untouched(chunk)
            /\ player[chunk] = "failed" => chunk \in faulted
            /\ synth[chunk] = "failed" => chunk \in faulted \/ kind = "pipe"
            /\ sound[chunk] = "whole" <=> player[chunk] = "done" /\ (kind = "pipe" => synth[chunk] = "done")
        BY <1>0, <3>1 DEF Blamed, Taken, Played
      <3>4. ASSUME outcome' = "ok", Untouched(chunk) PROVE sound[chunk] = "whole"
        BY <1>0, <2>7, <3>2, <3>3, <3>4 DEF WaitPlayer, Checked, Learnt, Ended, Places
      <3>5. ASSUME outcome' = "failed"
            PROVE  /\ Untouched(chunk) => sound[chunk] # "whole"
                   /\ chunk \in faulted \/ kind = "pipe"
        <4>1. outcome = "failed" \/ player[chunk] = "failed"
          BY <2>7, <3>2, <3>3, <3>5 DEF WaitPlayer, Checked, Ended
        <4>2. outcome = "failed" => synth[chunk] = "failed" /\ at = "player" /\ kind # "one"
          BY <1>0, <2>7 DEF WaitPlayer, Learnt
        <4>3. kind \in {"one", "pipe", "file"}
          BY DEF Spawning
        <4> QED  BY <1>0, <3>3, <4>1, <4>2, <4>3 DEF Learnt, Registered
      <3> QED  BY <1>0, <3>2, <3>4, <3>5, <2>7 DEF Learnt, WaitPlayer, Registered
    <2>8. CASE Clear
      BY <1>0, <2>8 DEF Clear, Return, Learnt, Registered
    <2> QED  BY <1>1, <2>1, <2>2, <2>3, <2>4, <2>5, <2>6, <2>7, <2>8 DEF SpawnedSpeaks, SpeakSpawned
  <1>2. ASSUME NEW s \in Stoppers, SpawnedStops(s) PROVE Learnt'
    <2>1. UNCHANGED <<call, outcome>>
      BY <1>2 DEF SpawnedStops, StopSpawned
    <2>2. \A c \in Chunks : /\ synth[c] \in Ended => synth'[c] = synth[c]
                            /\ sound[c] \notin Audible => sound'[c] = sound[c]
      BY <1>0, <1>2 DEF SpawnedStops, StopSpawned, Call, Take, Flag, KillPlayer, KillSynth, CleanUp, Heard,
         Dead, processes, Ended, TypeOK, EngineTypeOK
    <2>3. sound' = sound \/ \E c \in Chunks : ~Untouched(c) /\ \A d \in Chunks : d # c => sound'[d] = sound[d]
      <3>1. CASE KillPlayer(s)
        BY <1>0, <3>1 DEF KillPlayer, Heard, Taken, Kinds, Holding
      <3> QED  BY <1>2, <3>1 DEF SpawnedStops, StopSpawned, Call, Take, Flag, KillSynth, CleanUp
    <2> QED  BY <1>0, <2>1, <2>2, <2>3 DEF Learnt, call, Registered, Ended, Audible, Places
  <1>3. CASE System
    <2>1. UNCHANGED <<call, outcome>>
      BY <1>3 DEF System
    <2>2. \A c \in Chunks : /\ synth[c] \in Ended => synth'[c] = synth[c]
                            /\ sound[c] \notin Audible => sound'[c] = sound[c]
      BY <1>0, <1>3 DEF System, SynthEnds, PlayerEnds, PipeBreaks, Heard, Ended, TypeOK, EngineTypeOK
    <2>3. at = "clear" /\ Untouched(chunk) => sound[chunk] \notin Audible
      BY <1>0 DEF Held, Taken, Registered, Holding, Played, Places, Audible
    <2> QED  BY <1>0, <2>1, <2>2, <2>3 DEF Learnt, call, Registered, Ended, Audible, Places
  <1>4. CASE Aside
    BY <1>0, <1>4 DEF Aside, spawned, processes, Learnt, Registered
  <1> QED  BY <1>1, <1>2, <1>3, <1>4, SpawnedSplit

LEMMA SpawnedStep ==
    ASSUME Shape, SpawnedInv, [Next]_vars
    PROVE  SpawnedInv'
  <1>0. /\ Places /\ Kinds /\ Progress /\ kind \in Spawning \cup OnSystem \cup {None} /\ Chunks' = Chunks
        /\ None \notin Spawning \cup OnSystem /\ Spawning \cap OnSystem = {}
        /\ {"pipe", "file"} \subseteq Spawning
    BY EnginesAssumption DEF Shape, TypeOK, Chunks, Spawning, OnSystem, Polled
  <1>1. CASE kind \in Spawning
    <2>1. kind' = kind
      BY <1>0, <1>1, KindStays
    <2> QED  BY <1>0, <1>1, <2>1, PlayedStep, BlamedStep, TakenStep, HeldStep, LearntStep DEF SpawnedInv
  <1>2. CASE kind \in OnSystem
    <2>1. kind' = kind
      BY <1>0, <1>2, KindStays
    <2>2. kind \notin Spawning /\ UNCHANGED spawned
      BY <1>0, <1>2, OthersRest
    <2> QED  BY <1>0, <1>2, <2>1, <2>2 DEF SpawnedInv, spawned
  <1>3. CASE kind = None
    <2>1. UNCHANGED spawned
      BY <1>0, <1>3, OthersRest
    <2>2. CASE kind' = kind
      BY <1>0, <1>3, <2>1, <2>2 DEF SpawnedInv, spawned
    <2>3. CASE kind' # kind
      <3>1. /\ kind' \in {"pipe", "file"}
            /\ UNCHANGED <<chunk, sound, stopAt>> /\ (at' = at \/ at' \in {"found", "idle"})
        <4>1. CASE NoneSpeaks
          BY <2>3, <4>1, KindStays DEF NoneSpeaks, SpeakNotFound, NothingYet, Look, Probed, Goto
        <4>2. CASE Finds
          BY <2>3, <4>2, KindStays DEF Finds, Install, RetryPasses, LookElsewhere, ProbedElsewhere,
             shared, call
        <4> QED  BY <2>3, <4>1, <4>2, KindStays
      <3>2. /\ at \notin {"register", "render"} \cup Registered
            /\ \A s \in Stoppers : stopAt[s] \notin Holding
        BY <1>0, <1>3 DEF Kinds, Spawning
      <3>3. \A c \in Chunks : sound[c] = "none" /\ player[c] = "none" /\ synth[c] = "none"
        BY <1>0, <1>3 DEF Progress
      <3>4. killed = {} /\ current = None /\ scratch = {} /\ outcome = "ok"
        BY <1>0, <1>3 DEF SpawnedInv
      <3>5. Played' /\ Blamed'
        BY <1>0, <2>1, <3>1, <3>2, <3>3 DEF Played, Blamed, spawned, processes, Holding
      <3>6. Taken'
        BY <1>0, <2>1, <3>1, <3>2, <3>4 DEF Taken, spawned, Registered
      <3>7. Held'
        BY <1>0, <2>1, <3>1, <3>3, <3>4 DEF Held, spawned, processes
      <3>8. Learnt'
        BY <1>0, <2>1, <3>1, <3>2, <3>4 DEF Learnt, spawned, Registered
      <3> QED  BY <1>0, <3>1, <3>5, <3>6, <3>7, <3>8 DEF SpawnedInv
    <2> QED  BY <2>2, <2>3
  <1> QED  BY <1>0, <1>1, <1>2, <1>3

-----------------------------------------------------------------------------
(* The engines of the system.                                              *)

LEMMA SystemSplit ==
    ASSUME Shape, [Next]_vars, kind' \in OnSystem
    PROVE  /\ kind' = kind
           /\ \/ PlatformSpeaks
              \/ \E s \in Stoppers : PlatformStops(s) \/ NoneStops(s)
              \/ Listener \/ Synthesiser
              \/ UNCHANGED vars
  <1>0. Kinds /\ {"pipe", "file"} \cap OnSystem = {} /\ Spawning \cap OnSystem = {} /\ None \notin OnSystem
    BY EnginesAssumption DEF Shape, OnSystem, Polled, Spawning
  <1>1. kind' = kind
    BY <1>0, KindStays
  <1>2. ~wrapped /\ ~probing
    BY <1>0, <1>1 DEF Kinds
  <1>3. ~Finds
    BY <1>2 DEF Finds, Install, RetryPasses, LookElsewhere, ProbedElsewhere
  <1> QED  BY <1>0, <1>1, <1>3, OthersRest, StepSplit

LEMMA LostStep ==
    ASSUME Shape, SystemInv, [Next]_vars, kind' \in OnSystem
    PROVE  \A c \in Chunks : sound'[c] = "lost" => c \in faulted'
  <1>0. /\ kind' = kind /\ faulted \subseteq faulted'
        /\ \A c \in Chunks : sound[c] = "lost" => c \in faulted
        /\ sound \in [Chunks -> Audible \cup {"none", "whole", "cut", "lost"}]
    BY SystemSplit, StepBounds DEF SystemInv, Bounds, Shape, TypeOK, EngineTypeOK
  <1>1. CASE PlatformSpeaks
    BY <1>0, <1>1 DEF PlatformSpeaks, SpeakPlatform, Ask, Utter, Poll, ReadGeneration, PutLatch, Queue,
       Again, Await, TtsStop, Silenced, Sounds, Audible
  <1>2. ASSUME NEW s \in Stoppers, PlatformStops(s) \/ NoneStops(s)
        PROVE  \A c \in Chunks : sound'[c] = "lost" => c \in faulted'
    BY <1>0, <1>2 DEF PlatformStops, StopPlatform, StopPolled, StopLatch, Bump, Silence, Release,
       ClearMap, TtsStop, Silenced, NoneStops, StopMisses, Audible
  <1>3. CASE Listener \/ UNCHANGED vars
    BY <1>0, <1>3 DEF Listener, Notify, vars, shared
  <1>4. CASE Synthesiser
    BY <1>0, <1>4 DEF Synthesiser, Sounds, Audible
  <1> QED  BY <1>1, <1>2, <1>3, <1>4, SystemSplit

LEMMA PollsStep ==
    ASSUME Shape, SystemInv, [Next]_vars, kind' \in Polled
    PROVE  Polls'
  <1>0. /\ kind' = kind /\ kind \in Polled /\ kind \in OnSystem /\ kind # "latch" /\ kind \notin Spawning
        /\ Places /\ Kinds /\ Progress /\ Polls /\ Chunks' = Chunks
        /\ chunk \in Nat /\ Chunks \subseteq Nat /\ touched \subseteq touched'
        /\ sound \in [Chunks -> Audible \cup {"none", "whole", "cut", "lost"}]
        /\ stopping \in BOOLEAN /\ started \in BOOLEAN /\ faulted \subseteq faulted'
        /\ result \in [Chunks -> {"ok", "failed", None}]
    BY SMTT(30), SystemSplit, StepBounds, EngineAssumption DEF SystemInv, Shape, TypeOK, EngineTypeOK, OnSystem,
       Polled, Chunks, Bounds, Spawning, PlatformTypeOK
  <1>1. CASE PlatformSpeaks
    <2>1. CASE Ask
      BY <1>0, <2>1 DEF Ask, Called, Goto, Polls
    <2>2. CASE Utter
      <3>1. /\ at \in {"idle", "found", "worker"} /\ chunk \in Chunks
            /\ kind = "sapi" => at = "worker"
            /\ UNCHANGED stopping
        BY <1>0, <2>2 DEF Utter, Called, Places, Polled
      <3>2. sound[chunk] = "none"
        BY <1>0, <3>1 DEF Progress
      <3>3. CASE kind = "sapi" /\ Goto("poll") /\ sound' = [Silenced EXCEPT ![chunk] = "waiting"]
        <4>1. sound'[chunk] = "waiting" /\ \A c \in Chunks : c # chunk => sound'[c] \notin Audible
          BY <1>0, <3>1, <3>3 DEF Silenced, Audible
        <4> QED  BY <1>0, <1>1, <2>2, <3>1, <3>3, <4>1 DEF Utter, Goto, Polls, PlatformSpeaks
      <3>4. CASE /\ kind = "main" /\ Goto("poll") /\ Sounds(chunk, "waiting")
                 /\ IF \E c \in Chunks : sound[c] \in Audible THEN Fault ELSE UNCHANGED faulted
        <4>1. /\ sound'[chunk] = "waiting" /\ \A c \in Chunks : c # chunk => sound'[c] = sound[c]
              /\ (\E c \in Chunks : sound[c] \in Audible) => chunk \in faulted'
              /\ UNCHANGED <<chunk, result>> /\ started' = FALSE
          BY <1>0, <2>2, <3>1, <3>4 DEF Utter, Goto, Sounds, Fault
        <4>2. at' = "poll" /\ touched' = touched /\ kind' # "sapi"
          BY <1>0, <1>1, <3>4 DEF Goto, PlatformSpeaks, SpeakPlatform
        <4>3. \A c \in Chunks : c < chunk => c # chunk /\ (sound[c] \notin Audible \/ c \in faulted)
          BY <1>0 DEF Polls
        <4>4. \A c \in Chunks : c < chunk /\ sound'[c] \in Audible => chunk \in faulted' /\ c \in faulted'
          BY <1>0, <4>1, <4>3
        <4>5. \A c \in Chunks : result'[c] # "failed"
          BY <1>0, <3>4, <4>1 DEF Polls
        <4> QED  BY <1>0, <3>1, <4>1, <4>2, <4>4, <4>5 DEF Polls
      <3>5. CASE kind = "sapi" /\ Return("failed") /\ Fault /\ UNCHANGED sound
        BY <1>0, <3>1, <3>2, <3>5 DEF Return, Fault, Polls, Audible
      <3> QED  BY <2>2, <3>3, <3>4, <3>5 DEF Utter
    <2>3. CASE Poll
      <3>1. chunk \in Chunks /\ at = "poll" /\ UNCHANGED <<touched, stopping>>
        BY <1>0, <1>1, <2>3 DEF Poll, Places, PlatformSpeaks, SpeakPlatform
      <3>2. CASE kind = "sapi" /\ sound' = Silenced /\ Return("ok")
        BY <1>0, <3>1, <3>2 DEF Silenced, Polls, Audible, Return
      <3>3. CASE kind = "sapi" /\ Return("failed") /\ Fault /\ UNCHANGED sound
        BY <1>0, <3>1, <3>3 DEF Polls, Return, Fault
      <3>4. CASE Speaking /\ started' = TRUE /\ UNCHANGED <<sound, call, faulted>>
        <4>1. sound[chunk] = "waiting" => chunk \in faulted
          <5>1. PICK c \in Chunks : sound[c] = "sounding"
            BY <3>4 DEF Speaking
          <5>2. c > chunk \/ c = chunk \/ c < chunk
            BY <1>0, <5>1
          <5> QED  BY <1>0, <3>1, <5>1, <5>2 DEF Progress, Polls, Audible
        <4> QED  BY <1>0, <3>1, <3>4, <4>1 DEF Polls, call
      <3>5. CASE /\ ~Speaking /\ (started \/ sound[chunk] # "waiting")
                 /\ Return("ok") /\ UNCHANGED <<sound, faulted>>
        <4>1. sound[chunk] \in Audible => chunk \in faulted
          <5>1. sound[chunk] # "sounding"
            BY <3>1, <3>5 DEF Speaking
          <5>2. CASE sound[chunk] = "waiting"
            <6>1. started
              BY <3>5, <5>2
            <6> QED  BY <1>0, <3>1, <5>2, <6>1 DEF Polls
          <5> QED  BY <5>1, <5>2 DEF Audible
        <4> QED  BY <1>0, <3>1, <3>5, <4>1, EnginesAssumption DEF Polls, Return
      <3>6. CASE Return("ok") /\ Fault /\ UNCHANGED sound
        BY <1>0, <3>1, <3>6, EnginesAssumption DEF Polls, Return, Fault
      <3> QED  BY <2>3, <3>2, <3>3, <3>4, <3>5, <3>6 DEF Poll
    <2> QED  BY <1>0, <1>1, <2>1, <2>2, <2>3 DEF PlatformSpeaks, SpeakPlatform, ReadGeneration, PutLatch,
             Queue, Again, Await, Kinds, Latched
  <1>2. ASSUME NEW s \in Stoppers, PlatformStops(s) PROVE Polls'
    <2>1. CASE StopPolled(s)
      <3>1. UNCHANGED <<at, chunk, result, started>> /\ (InCall => chunk \in touched')
        BY <1>0, <2>1 DEF StopPolled, StopCalled, call
      <3>2. CASE stopping' = TRUE /\ UNCHANGED sound
        BY <1>0, <3>1, <3>2 DEF InCall, Polls
      <3>3. CASE sound' = Silenced /\ UNCHANGED stopping
        <4>1. \A c \in Chunks : sound'[c] = IF sound[c] \in Audible THEN "cut" ELSE sound[c]
          BY <3>3 DEF Silenced
        <4>2. at = "poll" => chunk \in Chunks
          BY <1>0 DEF Places
        <4> QED  BY <1>0, <3>1, <3>3, <4>1, <4>2 DEF InCall, Polls, Audible
      <3> QED  BY <2>1, <3>2, <3>3 DEF StopPolled
    <2> QED  BY <1>0, <1>2, <2>1 DEF PlatformStops, StopPlatform, StopLatch, Bump, Silence, Release,
             ClearMap, Kinds
  <1>3. ASSUME NEW s \in Stoppers, NoneStops(s) PROVE Polls'
    BY <1>0, <1>3 DEF NoneStops, StopMisses, call, platform, polls, Polls
  <1>4. CASE Listener \/ UNCHANGED vars
    BY <1>0, <1>4 DEF Listener, Notify, vars, shared, call, platform, polls, memory, Polls
  <1>5. CASE Synthesiser
    <2>1. UNCHANGED <<at, chunk, started, stopping, touched>>
      BY <1>5 DEF Synthesiser, call, polls
    <2>2. PICK c \in Chunks :
              /\ sound[c] \in Audible
              /\ \E v \in {"sounding", "whole", "lost"} : sound' = [sound EXCEPT ![c] = v]
              /\ \A d \in Chunks : sound'[d] = "waiting" => sound[d] = "waiting"
              /\ result' = result
      BY <1>0, <1>5 DEF Synthesiser, Sounds, Audible, call
    <2>3. at = "poll" => chunk \in Chunks
      BY <1>0 DEF Places
    <2> QED  BY <1>0, <2>1, <2>2, <2>3 DEF Polls, Audible
  <1> QED  BY <1>1, <1>2, <1>3, <1>4, <1>5, SystemSplit DEF OnSystem

\* The steps there are on Android.
LEMMA LatchSplit ==
    ASSUME Shape, [Next]_vars, kind' = "latch"
    PROVE  /\ kind = "latch"
           /\ \/ /\ ReadGeneration \/ PutLatch \/ Queue \/ Again \/ Await
                 /\ UNCHANGED <<stopAt, touched>>
              \/ /\ \E s \in Stoppers : Bump(s) \/ Silence(s) \/ Release(s) \/ ClearMap(s)
                 /\ UNCHANGED <<chunk, at, result, seenGen>>
              \/ Notify
              \/ Synthesiser
              \/ /\ UNCHANGED <<chunk, at, result, sound, overtaken, faulted, latches>>
                 /\ touched \subseteq touched'
                 /\ \A s \in Stoppers : \/ stopAt'[s] = stopAt[s]
                                        \/ ~Under(s) /\ stopAt'[s] = "done"
  <1>0. /\ kind = "latch" /\ Kinds /\ Places /\ "latch" \notin Polled /\ "latch" \in OnSystem
        /\ touched \subseteq touched' /\ "latch" \notin Spawning
    BY SystemSplit, StepBounds DEF Shape, OnSystem, Polled, Bounds, Spawning
  <1>1. CASE PlatformSpeaks
    BY <1>0, <1>1 DEF PlatformSpeaks, SpeakPlatform, Ask, Utter, Poll, Kinds
  <1>2. ASSUME NEW s \in Stoppers, PlatformStops(s)
        PROVE  /\ Bump(s) \/ Silence(s) \/ Release(s) \/ ClearMap(s)
               /\ UNCHANGED <<chunk, at, result, seenGen>>
    BY <1>0, <1>2 DEF PlatformStops, StopPlatform, StopPolled, StopLatch, call
  <1>3. ASSUME NEW s \in Stoppers, NoneStops(s)
        PROVE  /\ UNCHANGED <<chunk, at, result, sound, overtaken, faulted, latches>>
               /\ \A r \in Stoppers : \/ stopAt'[r] = stopAt[r]
                                      \/ ~Under(r) /\ stopAt'[r] = "done"
    BY <1>0, <1>3 DEF NoneStops, StopMisses, StopCalled, StopGoes, Places, Kinds, memory, call, platform,
       Under
  <1>4. CASE UNCHANGED vars
    BY <1>4 DEF vars, shared, call, memory, platform
  <1> QED  BY <1>0, <1>1, <1>2, <1>3, <1>4, SystemSplit DEF Listener

\* What is known of a state in which Android speaks.
LEMMA LatchFacts ==
    ASSUME Shape, SystemInv, kind = "latch"
    PROVE  /\ Places /\ Kinds /\ Progress /\ Alert /\ Notices /\ Generations /\ Latches
           /\ chunk \in Nat /\ Chunks \subseteq Nat /\ Chunks' = Chunks
           /\ sound \in [Chunks -> Audible \cup {"none", "whole", "cut", "lost"}]
           /\ waiting \subseteq Chunks /\ down \subseteq Chunks /\ notices \subseteq Chunks
           /\ generation \in Nat /\ seenGen \in Nat
  BY EngineAssumption DEF SystemInv, Shape, TypeOK, EngineTypeOK, PlatformTypeOK, OnSystem, Chunks

LEMMA NoticesStep ==
    ASSUME Shape, SystemInv, [Next]_vars, kind' = "latch"
    PROVE  Notices'
  <1>0. /\ Places /\ Kinds /\ Progress /\ Alert /\ Notices /\ Generations
        /\ chunk \in Nat /\ Chunks \subseteq Nat /\ Chunks' = Chunks
        /\ sound \in [Chunks -> Audible \cup {"none", "whole", "cut", "lost"}]
        /\ waiting \subseteq Chunks /\ down \subseteq Chunks /\ notices \subseteq Chunks
        /\ overtaken \subseteq overtaken' /\ touched \subseteq touched' /\ faulted \subseteq faulted'
        /\ \A c : Untouched(c)' => Untouched(c)
    BY LatchSplit, LatchFacts, StepBounds DEF Bounds, Untouched
  <1>1. CASE ReadGeneration
    BY <1>0, <1>1 DEF ReadGeneration, Called, Return, Goto, Notices, Latched, Progress, Audible
  <1>2. CASE PutLatch
    BY <1>0, <1>2 DEF PutLatch, Goto, Notices, Latched
  <1>3. CASE Queue
    <2>1. chunk \in Chunks /\ sound[chunk] = "none" /\ at = "queue"
      BY <1>0, <1>3 DEF Queue, Places, Progress
    <2>4. UNCHANGED <<down, notices>>
      BY <1>3 DEF Queue
    <2>2. CASE Goto("again") /\ Sounds(chunk, "waiting") /\ waiting' = waiting
      <3>1. /\ chunk \notin notices
            /\ chunk \in down /\ Untouched(chunk) => chunk \in faulted
        BY <1>0, <2>1 DEF Notices
      <3>2. /\ at' = "again" /\ chunk' = chunk
            /\ \A c \in Chunks : c # chunk => sound'[c] = sound[c]
        BY <1>0, <2>2 DEF Goto, Sounds
      <3> QED  BY <1>0, <2>1, <2>4, <2>2, <3>1, <3>2 DEF Notices, Latched
    <2>3. CASE Return("failed") /\ UNCHANGED sound /\ waiting' = waiting \ {chunk}
      BY <1>0, <2>1, <2>4, <2>3 DEF Return, Notices, Latched, Audible
    <2> QED  BY <1>3, <2>2, <2>3 DEF Queue
  <1>4. CASE Again
    <2>1. chunk \in Chunks /\ at = "again"
      BY <1>0, <1>4 DEF Again, Places
    <2>2. CASE Goto("await") /\ UNCHANGED <<sound, waiting, notices>>
      BY <1>0, <1>4, <2>1, <2>2 DEF Again, Goto, Return, Notices, Latched
    <2>3. CASE seenGen # generation /\ TtsStop /\ waiting' = waiting \ {chunk} /\ Return("failed")
      <3>1. \A c \in Chunks : sound[c] \in Audible => ~Untouched(c)
        BY <1>0, <2>1, <2>3 DEF Notices, Generations, Progress, Untouched, Audible
      <3>2. /\ \A c \in Chunks : sound'[c] = IF sound[c] \in Audible THEN "cut" ELSE sound[c]
            /\ notices' = notices \cup {c \in Chunks : sound[c] \in Audible} /\ down' = down
        BY <1>4, <2>3 DEF TtsStop, Silenced, Again
      <3> QED  BY <1>0, <2>1, <2>3, <3>1, <3>2 DEF Return, Notices, Latched, Audible
    <2> QED  BY <1>4, <2>2, <2>3 DEF Again
  <1>5. CASE Await
    <2>1. chunk \in Chunks /\ at = "await"
      BY <1>0, <1>5 DEF Await, Places
    <2>2. sound[chunk] \in Audible => chunk \in overtaken
      BY <1>0, <1>5, <2>1 DEF Await, Generations
    <2> QED  BY <1>0, <1>5, <2>1, <2>2 DEF Await, Return, Notices, Latched
  <1>6. ASSUME NEW s \in Stoppers, Bump(s) \/ ClearMap(s), UNCHANGED <<chunk, at>>
        PROVE  Notices'
    BY <1>0, <1>6 DEF Bump, StopCalled, ClearMap, memory, Notices
  <1>7. ASSUME NEW s \in Stoppers, Silence(s), UNCHANGED <<chunk, at>>
        PROVE  Notices'
    <2>1. Under(s)
      BY <1>7 DEF Silence, Under
    <2>2. \A c \in Chunks : sound[c] \in Audible => ~Untouched(c)
      BY <1>0, <2>1 DEF Notices, Progress, Alert, InCall, Untouched, Audible
    <2>3. /\ \A c \in Chunks : sound'[c] = IF sound[c] \in Audible THEN "cut" ELSE sound[c]
          /\ notices' = notices \cup {c \in Chunks : sound[c] \in Audible}
          /\ UNCHANGED <<waiting, down, overtaken>>
      BY <1>7 DEF TtsStop, Silenced, Silence, memory
    <2> QED  BY <1>0, <1>7, <2>2, <2>3 DEF Notices, Audible
  <1>8. ASSUME NEW s \in Stoppers, Release(s), UNCHANGED <<chunk, at>>
        PROVE  Notices'
    <2>1. Under(s)
      BY <1>8 DEF Release, Under
    <2>2. \A c \in waiting : ~Untouched(c)
      BY <1>0, <2>1 DEF Notices, Alert, InCall, Latched
    <2> QED  BY <1>0, <1>8, <2>2 DEF Release, Notices, memory
  <1>9. CASE Notify
    BY <1>0, <1>9 DEF Notify, shared, call, memory, Notices
  <1>10. CASE Synthesiser
    <2>1. UNCHANGED <<chunk, at, waiting, down, overtaken>> /\ kind = "latch"
      BY <1>10, LatchSplit DEF Synthesiser, call
    <2>2. PICK c \in Chunks :
              /\ sound[c] \in Audible
              /\ \E v \in {"sounding", "whole", "cut", "lost"} :
                    /\ sound' = [sound EXCEPT ![c] = v]
                    /\ notices' = IF v \in {"whole", "cut"} THEN notices \cup {c} ELSE notices
                    /\ v = "cut" => c \in faulted'
      BY <1>0, <1>10, <2>1 DEF Synthesiser, Sounds, Tell, Audible
    <2> QED  BY <1>0, <2>1, <2>2 DEF Notices, Audible
  <1>11. CASE UNCHANGED <<chunk, at, sound, overtaken, faulted, latches>>
    BY <1>0, <1>11 DEF latches, Notices
  <1> QED  BY <1>1, <1>2, <1>3, <1>4, <1>5, <1>6, <1>7, <1>8, <1>9, <1>10, <1>11, LatchSplit

LEMMA GenerationsStep ==
    ASSUME Shape, SystemInv, [Next]_vars, kind' = "latch"
    PROVE  Generations'
  <1>0. /\ Places /\ Kinds /\ Progress /\ Alert /\ Notices /\ Generations
        /\ chunk \in Nat /\ Chunks \subseteq Nat /\ Chunks' = Chunks
        /\ sound \in [Chunks -> Audible \cup {"none", "whole", "cut", "lost"}]
        /\ waiting \subseteq Chunks /\ down \subseteq Chunks /\ notices \subseteq Chunks
        /\ overtaken \subseteq overtaken' /\ touched \subseteq touched'
        /\ generation \in Nat /\ seenGen \in Nat
        /\ \A c : Untouched(c)' => Untouched(c)
    BY LatchSplit, LatchFacts, StepBounds DEF Bounds, Untouched
  <1>1. ASSUME ReadGeneration, UNCHANGED stopAt PROVE Generations'
    <2>1. CASE at' = "idle"
      BY <1>0, <1>1, <2>1 DEF ReadGeneration, Return, Goto, Generations
    <2>2. CASE at' = "latch" /\ chunk' = chunk /\ seenGen' = generation
      BY <1>0, <1>1, <2>2 DEF ReadGeneration, Called, Notices, Latched, Generations, Untouched, Under
    <2> QED  BY <1>1, <2>1, <2>2 DEF ReadGeneration, Return, Goto
  <1>2. ASSUME PutLatch \/ Queue, UNCHANGED stopAt PROVE Generations'
    BY <1>0, <1>2 DEF PutLatch, Queue, Return, Goto, Generations, Under
  <1>3. ASSUME Again \/ Await, UNCHANGED stopAt PROVE Generations'
    BY <1>0, <1>3 DEF Again, Await, Return, Goto, Generations, Under
  <1>4. ASSUME NEW s \in Stoppers, Bump(s), UNCHANGED <<chunk, at, seenGen>>
        PROVE  Generations'
    BY <1>0, <1>4 DEF Bump, StopCalled, StopGoes, Places, InCall, Generations, Untouched
  <1>5. ASSUME NEW s \in Stoppers, Silence(s) \/ Release(s) \/ ClearMap(s),
               UNCHANGED <<chunk, at, seenGen>>
        PROVE  Generations'
    <2>1. /\ Under(s) /\ UNCHANGED <<generation, overtaken>>
          /\ \A r \in Stoppers : stopAt'[r] = "release" => stopAt[r] = "release" \/ Silence(s)
          /\ Silence(s) => \A c \in Chunks : sound'[c] \notin Audible
          /\ ~Silence(s) => sound' = sound
          /\ ~Release(s) => down' = down
          /\ Release(s) => stopAt[s] = "release"
      BY <1>0, <1>5 DEF Silence, Release, ClearMap, StopGoes, Places, Under, memory, TtsStop, Silenced,
         Audible
    <2>2. at = "await" => chunk \in Chunks
      BY <1>0 DEF Places
    <2> QED  BY <1>0, <1>5, <2>1, <2>2 DEF Generations
  <1>6. CASE Notify
    BY <1>0, <1>6 DEF Notify, shared, call, memory, Notices, Generations, Latched, Under, Progress,
       Untouched, Audible, Places
  <1>7. CASE Synthesiser
    <2>1. UNCHANGED <<chunk, at, down, overtaken, touched, generation, seenGen, stopAt>>
      BY <1>7 DEF Synthesiser, call
    <2>2. \A c \in Chunks : sound[c] \notin Audible => sound'[c] = sound[c]
      BY <1>0, <1>7 DEF Synthesiser, Sounds, Audible
    <2>3. at \in {"again", "await"} => chunk \in Chunks
      BY <1>0 DEF Places
    <2> QED  BY <1>0, <2>1, <2>2, <2>3 DEF Generations, Under
  <1>8. CASE /\ UNCHANGED <<chunk, at, sound, overtaken, latches>>
             /\ \A s \in Stoppers : stopAt'[s] = stopAt[s] \/ (~Under(s) /\ stopAt'[s] = "done")
    BY <1>0, <1>8 DEF latches, Generations, Under
  <1> QED  BY <1>1, <1>2, <1>3, <1>4, <1>5, <1>6, <1>7, <1>8, LatchSplit

LEMMA LatchesStep ==
    ASSUME Shape, SystemInv, [Next]_vars, kind' = "latch"
    PROVE  Latches'
  <1>0. /\ Places /\ Progress /\ Alert /\ Notices /\ Latches
        /\ chunk \in Nat /\ Chunks \subseteq Nat /\ Chunks' = Chunks
        /\ sound \in [Chunks -> Audible \cup {"none", "whole", "cut", "lost"}]
        /\ waiting \subseteq Chunks /\ down \subseteq Chunks /\ notices \subseteq Chunks
        /\ \A c : Untouched(c)' => Untouched(c)
    BY LatchSplit, LatchFacts, StepBounds DEF Bounds, Untouched
  <1>1. CASE ReadGeneration
    BY <1>0, <1>1 DEF ReadGeneration, Return, Goto, Latches, Latched
  <1>2. CASE PutLatch \/ Queue
    BY <1>0, <1>2 DEF PutLatch, Queue, Return, Goto, Sounds, Latches, Latched, Progress, Places
  <1>3. CASE Again \/ Await
    BY <1>0, <1>3 DEF Again, Await, Return, Goto, Latches, Latched
  <1>4. ASSUME NEW s \in Stoppers, Bump(s), UNCHANGED <<chunk, at>>
        PROVE  Latches'
    BY <1>0, <1>4 DEF Bump, StopCalled, InCall, Latches, Latched, Untouched
  <1>5. ASSUME NEW s \in Stoppers, Silence(s) \/ Release(s) \/ ClearMap(s), UNCHANGED <<chunk, at>>
        PROVE  Latches'
    <2>1. Under(s)
      BY <1>5 DEF Silence, Release, ClearMap, Under
    <2> QED  BY <1>0, <1>5, <2>1 DEF Latches, Alert, InCall, Latched
  <1>6. CASE Notify
    BY <1>0, <1>6 DEF Notify, shared, call, memory, Latches
  <1>7. CASE Synthesiser
    <2>1. UNCHANGED <<chunk, at, waiting, down>> /\ kind = "latch"
      BY <1>7, LatchSplit DEF Synthesiser, call
    <2>2. \A c \in Chunks : sound'[c] = "whole" => sound[c] = "whole" \/ c \in notices'
      BY <1>0, <1>7, <2>1 DEF Synthesiser, Sounds, Tell
    <2>3. notices \subseteq notices'
      BY <1>7 DEF Synthesiser, Tell
    <2>4. at \in Latched => chunk \in Chunks
      BY <1>0 DEF Places, Latched
    <2> QED  BY <1>0, <2>1, <2>2, <2>3, <2>4 DEF Latches
  <1>8. CASE UNCHANGED <<chunk, at, sound, latches>>
    BY <1>0, <1>8 DEF latches, Latches
  <1> QED  BY <1>1, <1>2, <1>3, <1>4, <1>5, <1>6, <1>7, <1>8, LatchSplit

LEMMA SystemStep ==
    ASSUME Shape, SystemInv, [Next]_vars
    PROVE  SystemInv'
  BY LostStep, PollsStep, NoticesStep, GenerationsStep, LatchesStep DEF SystemInv, OnSystem

-----------------------------------------------------------------------------
(* What speak says, and what it leaves behind.                             *)

\* What sounds behind a spawning engine's speak, and a file that it left, is in
\* the hand of a stop.
LEMMA OnlyStopsHold ==
    ASSUME Shape, SpawnedInv, kind \in Spawning, NEW c \in Chunks, c < chunk,
           sound[c] \in Audible \/ c \in scratch
    PROVE  \E s \in Stoppers : taken[s] = c /\ stopAt[s] \in Holding
  <1>1. Played /\ Taken /\ Held /\ chunk \in Nat /\ Chunks \subseteq Nat /\ None \notin Nat
    BY EngineAssumption, EnginesAssumption DEF SpawnedInv, Shape, TypeOK, EngineTypeOK, Chunks
  <1>2. c # chunk /\ c # None
    BY <1>1
  <1>3. c # current
    BY <1>1, <1>2 DEF Taken
  <1>4. sound[c] \in Audible => player[c] = "running"
    BY <1>1 DEF Played, Audible
  <1>5. CASE player[c] = "running"
    BY <1>1, <1>2, <1>3, <1>5 DEF Held, Holding
  <1>6. CASE c \in scratch
    BY <1>1, <1>2, <1>3, <1>6 DEF Held
  <1> QED  BY <1>4, <1>5, <1>6

\* What was spoken and not stopped is over, unless a synthesiser that is polled
\* began it late.
LEMMA SpokenIsOver ==
    ASSUME Shape, SpawnedInv, SystemInv, NEW c \in Chunks, c < chunk, Untouched(c)
    PROVE  sound[c] \notin Audible \/ (kind \in Polled /\ c \in faulted)
  <1>0. /\ Progress /\ kind \in Spawning \cup OnSystem \cup {None} /\ Chunks \subseteq Nat /\ chunk \in Nat
    BY EngineAssumption DEF Shape, TypeOK, EngineTypeOK, Chunks
  <1>1. CASE kind \in Spawning
    BY <1>1, OnlyStopsHold DEF SpawnedInv, Taken
  <1>2. CASE kind \in OnSystem
    BY <1>0, <1>2 DEF SystemInv, Polls, Notices, Untouched, OnSystem
  <1>3. CASE kind = None
    BY <1>0, <1>3 DEF Progress, Audible
  <1> QED  BY <1>0, <1>1, <1>2, <1>3

\* What speak says of the chunk it has come to the end of.
Told(r) ==
    /\ r \in {"ok", "failed"}
    /\ Untouched(chunk) /\ r = "ok" =>
          sound'[chunk] = "whole" \/ (kind' \in OnSystem /\ chunk \in faulted')
    /\ Untouched(chunk) /\ r = "failed" => sound'[chunk] # "whole" \/ kind' = "sapi"
    /\ r = "failed" => chunk \in faulted' \/ kind' \in {"pipe", "latch"}

LEMMA AnswerIsRight ==
    ASSUME Shape, SpawnedInv, SystemInv, [Next]_vars, chunk' # chunk
    PROVE  \E r : Return(r) /\ Told(r)
  <1>0. /\ Places /\ Kinds /\ Progress
        /\ sound \in [Chunks -> Audible \cup {"none", "whole", "cut", "lost"}]
    BY DEF Shape, TypeOK, EngineTypeOK
  <1>1. CASE SpawnedSpeaks
    <2>1. kind \in Spawning /\ kind' = kind
      BY <1>1, OthersRest DEF SpawnedSpeaks, SpeakSpawned
    <2>2. CASE (Spawn \/ Render) /\ NotStarted
      BY <1>0, <2>2 DEF Spawn, Render, NotStarted, Called, Fault, Progress, Told
    <2>3. CASE Play
      <3>1. kind = "file" /\ chunk \in Chunks /\ sound[chunk] = "none" /\ sound' = sound /\ Return("failed")
        BY <1>0, <2>3 DEF Play, Kinds, Places, Progress, Goto
      <3>2. chunk \in faulted'
        BY <1>0, <2>1, <2>3, <3>1 DEF Play, Fault, Checked, Blamed, SpawnedInv, Ended, Goto
      <3> QED  BY <3>1, <3>2 DEF Told
    <2>4. CASE Clear
      <3>1. at = "clear" /\ Return(outcome) /\ UNCHANGED <<sound, faulted>> /\ outcome \in {"ok", "failed"}
        BY <1>0, <2>4 DEF Clear, Places
      <3> QED  BY <2>1, <3>1 DEF SpawnedInv, Learnt, Told
    <2> QED  BY <1>1, <2>2, <2>3, <2>4 DEF SpawnedSpeaks, SpeakSpawned, Spawn, Render, Register, Finish,
             WaitSynth, WaitPlayer, Goto
  <1>2. CASE PlatformSpeaks
    <2>1. kind \in OnSystem /\ kind' = kind /\ touched' = touched
      BY <1>2, OthersRest DEF PlatformSpeaks, SpeakPlatform
    <2>2. \A c \in Chunks : sound[c] = "lost" => c \in faulted
      BY <2>1 DEF SystemInv
    <2>3. CASE (Utter \/ ReadGeneration \/ Queue) /\ Return("failed") /\ UNCHANGED sound /\ Fault
      BY <1>0, <2>3 DEF Utter, ReadGeneration, Queue, Called, Places, Progress, Fault, Told
    <2>4. CASE Poll
      <3>1. /\ at = "poll" /\ chunk \in Chunks /\ kind \in Polled /\ Polls /\ kind # "latch"
        BY <1>0, <2>1, <2>4 DEF Poll, Places, Kinds, SystemInv, Polled
      <3>2. CASE kind = "sapi" /\ stopping /\ sound' = Silenced /\ Return("ok")
        BY <3>1, <3>2 DEF Polls, Told, Untouched
      <3>3. CASE kind = "sapi" /\ Return("failed") /\ Fault
        BY <2>1, <3>3 DEF Told, Fault
      <3>4. CASE /\ ~Speaking /\ (started \/ sound[chunk] # "waiting")
                 /\ Return("ok") /\ UNCHANGED <<sound, faulted>>
        <4>1. sound[chunk] \in {"whole", "cut", "lost"} \/ chunk \in faulted
          BY <1>0, <3>1, <3>4 DEF Polls, Speaking, Audible
        <4>2. sound[chunk] # "whole" => chunk \in faulted \/ ~Untouched(chunk)
          BY <2>2, <3>1, <4>1 DEF Polls, Untouched
        <4> QED  BY <2>1, <3>4, <4>2 DEF Told
      <3>5. CASE Return("ok") /\ Fault
        BY <2>1, <3>5 DEF Told, Fault
      <3> QED  BY <2>4, <3>2, <3>3, <3>4, <3>5 DEF Poll, call
    <2>5. CASE Again
      BY <1>0, <2>1, <2>5 DEF Again, Goto, Told, SystemInv, Generations, Kinds, Latched
    <2>6. CASE Await
      <3>1. /\ at = "await" /\ chunk \in Chunks /\ kind = "latch" /\ Notices /\ Latches
            /\ UNCHANGED <<sound, faulted>>
        BY <1>0, <2>1, <2>6 DEF Await, Places, Kinds, Latched, SystemInv
      <3>2. CASE chunk \in down /\ Return("ok")
        BY <2>1, <3>1, <3>2 DEF Notices, Told
      <3>3. CASE chunk \notin down /\ chunk \notin notices /\ Return("failed")
        BY <2>1, <3>1, <3>3 DEF Latches, Latched, Told
      <3> QED  BY <2>6, <3>2, <3>3 DEF Await
    <2> QED  BY <1>2, <2>3, <2>4, <2>5, <2>6 DEF PlatformSpeaks, SpeakPlatform, Ask, Utter,
             ReadGeneration, PutLatch, Queue, Goto
  <1>3. CASE NoneSpeaks
    <2>1. Return("failed") /\ Fault /\ sound' = sound /\ chunk \in Chunks /\ at \in {"idle", "found", "probe"}
      BY <1>0, <1>3 DEF NoneSpeaks, SpeakNotFound, NothingYet, Look, Probed, Goto, Called, Places
    <2> QED  BY <1>0, <2>1 DEF Progress, Fault, Told
  <1>4. ASSUME NEW s \in Stoppers, SpawnedStops(s) \/ PlatformStops(s) \/ NoneStops(s)
        PROVE  FALSE
    BY <1>4 DEF SpawnedStops, StopSpawned, PlatformStops, StopPlatform, StopPolled, StopLatch,
       NoneStops, StopMisses, call
  <1>5. CASE Listener \/ System \/ Synthesiser \/ Finds \/ UNCHANGED vars
    BY <1>5 DEF Listener, Notify, System, Synthesiser, Finds, Install, RetryPasses, LookElsewhere,
       ProbedElsewhere, vars, shared, call
  <1> QED  BY <1>1, <1>2, <1>3, <1>4, <1>5, StepSplit

LEMMA HonestStep ==
    ASSUME Shape, SpawnedInv, SystemInv, Honest, [Next]_vars
    PROVE  Honest'
  <1>0. /\ Progress /\ Progress' /\ Chunks' = Chunks /\ Chunks \subseteq Nat /\ chunk \in Nat
        /\ faulted \subseteq faulted' /\ None \notin {"ok", "failed"} \cup OnSystem
        /\ result \in [Chunks -> {"ok", "failed", None}] /\ chunk' \in Nat
        /\ \A c : Untouched(c)' => Untouched(c)
    <2>1. Progress /\ EngineTypeOK
      BY DEF Shape, TypeOK
    <2>2. Shape' /\ Bounds
      BY ShapeStep, StepBounds
    <2>3. Progress' /\ EngineTypeOK'
      BY <2>2 DEF Shape, TypeOK
    <2>4. Chunks' = Chunks /\ Chunks \subseteq Nat /\ chunk \in Nat /\ chunk' \in Nat
      BY <2>1, <2>3, EngineAssumption DEF EngineTypeOK, Chunks
    <2>5. faulted \subseteq faulted' /\ \A c : Untouched(c)' => Untouched(c)
      BY <2>2 DEF Bounds, Untouched
    <2> QED  BY <2>1, <2>3, <2>4, <2>5, EnginesAssumption DEF EngineTypeOK
  <1> SUFFICES ASSUME NEW c \in Chunks, result'[c] # None
               PROVE  /\ (Untouched(c)' /\ result'[c] = "ok") =>
                            sound'[c] = "whole" \/ (kind' \in OnSystem /\ c \in faulted')
                      /\ (Untouched(c)' /\ result'[c] = "failed") =>
                            sound'[c] # "whole" \/ kind' = "sapi"
                      /\ result'[c] = "failed" => c \in faulted' \/ kind' \in {"pipe", "latch"}
    BY <1>0 DEF Honest
  <1>1. CASE c < chunk
    <2>1. result[c] # None /\ result'[c] = result[c]
      BY <1>0, <1>1, StepBounds DEF Progress, Bounds
    <2>2. Untouched(c) => sound'[c] = sound[c] \/ (kind \in Polled /\ c \in faulted)
      BY <1>0, <1>1, SpokenIsOver, SoundsStep
    <2>3. kind \in OnSystem \cup {"pipe", "latch"} => kind' = kind
      BY KindStays, EnginesAssumption DEF OnSystem, Polled, Spawning
    <2>4. kind = "main" => result[c] # "failed"
      BY DEF SystemInv, Polls, OnSystem, Polled
    <2>5. kind \in Polled => kind \in OnSystem /\ (kind = "main" \/ kind = "sapi")
      BY DEF OnSystem, Polled
    <2>6. /\ (Untouched(c) /\ result[c] = "ok") =>
                sound[c] = "whole" \/ (kind \in OnSystem /\ c \in faulted)
          /\ (Untouched(c) /\ result[c] = "failed") => sound[c] # "whole" \/ kind = "sapi"
          /\ result[c] = "failed" => c \in faulted \/ kind \in {"pipe", "latch"}
      BY <2>1 DEF Honest
    <2>7. (Untouched(c) /\ result[c] = "ok") =>
              sound'[c] = "whole" \/ (kind' \in OnSystem /\ c \in faulted')
      BY <1>0, <2>2, <2>3, <2>5, <2>6
    <2>8. (Untouched(c) /\ result[c] = "failed") => sound'[c] # "whole" \/ kind' = "sapi"
      BY <1>0, <2>2, <2>3, <2>4, <2>5, <2>6 DEF OnSystem, Polled
    <2>9. result[c] = "failed" => c \in faulted' \/ kind' \in {"pipe", "latch"}
      BY <1>0, <2>3, <2>6
    <2> QED  BY <1>0, <2>1, <2>7, <2>8, <2>9
  <1>2. CASE c = chunk /\ chunk' # chunk
    <2>1. PICK r : Return(r) /\ Told(r)
      BY <1>2, AnswerIsRight
    <2>2. result'[c] = r
      BY <1>0, <1>2, <2>1 DEF Return
    <2> QED  BY <1>0, <1>2, <2>1, <2>2 DEF Told
  <1>3. c < chunk'
    <2>1. (result[c] = None <=> c >= chunk)'
      BY <1>0 DEF Progress
    <2> QED  BY <1>0, <2>1
  <1>4. chunk' = chunk \/ chunk' = chunk + 1
    BY StepBounds DEF Bounds
  <1> QED  BY <1>0, <1>1, <1>2, <1>3, <1>4

LEMMA EnginesAlways == Spec => []EnginesInv
  <1>1. Init => EnginesInv
    <2> SUFFICES ASSUME Init PROVE EnginesInv
      OBVIOUS
    <2>1. SpawnedInv
      BY DEF Init, EngineInit, SpawnedInit, SpawnedInv, Played, Blamed, Taken, Held, Learnt, Holding,
         Registered, Chunks, Audible, Ended
    <2>2. SystemInv
      BY EngineAssumption, EnginesAssumption DEF Init, EngineInit, PlatformInit, SystemInv, Polls, Notices, Generations, Latches, Latched,
         Chunks, Audible
    <2>3. Honest
      BY DEF Init, EngineInit, Honest, Chunks
    <2> QED  BY <2>1, <2>2, <2>3, ShapeInit DEF EnginesInv
  <1>2. EnginesInv /\ [Next]_vars => EnginesInv'
    BY ShapeStep, SpawnedStep, SystemStep, HonestStep DEF EnginesInv
  <1> QED  BY <1>1, <1>2, PTL DEF Spec

\* The engines keep their types, whatever is installed and found, and whoever
\* stops them (the fields of EspeakEngine, PiperEngine, the SAPI worker, Speech.kt
\* and Rediscovering).
THEOREM EnginesTypes == Spec => []TypeOK
  <1>1. EnginesInv => TypeOK
    BY DEF EnginesInv, Shape
  <1> QED  BY <1>1, EnginesAlways, PTL

\* What speak says is true of any chunk that no stop met: "ok" is said of what was
\* heard to its end, an error of what was not, on every system; and, but for
\* Piper's pipe and Android, no stop is said to be a fault (Running::check,
\* PiperEngine::finish, the polls of SAPI and Apple, Speech.speak).
THEOREM SpeakIsTruthful == Spec => []Honest
  <1>1. EnginesInv => Honest
    BY DEF EnginesInv
  <1> QED  BY <1>1, EnginesAlways, PTL

\* Nothing sounds and no rendered file is left behind a speak that has returned,
\* once the stops have, for any number of stops that cross, but what Quiet excepts
\* (EspeakEngine::stop, PiperEngine::stop and finish, Speech.stop, the polls).
THEOREM QuietAfterSpeak == Spec => []Quiet
  <1>1. EnginesInv => Quiet
    <2> SUFFICES ASSUME EnginesInv, NEW c \in Chunks, result[c] # None, sound[c] \in Audible \/ c \in scratch
                 PROVE  \/ \E s \in Stoppers : Under(s)
                        \/ kind = "latch" /\ c \in overtaken
                        \/ kind \in Polled /\ c \in faulted
      BY DEF Quiet
    <2>0. /\ c < chunk /\ Shape /\ Progress /\ SpawnedInv /\ SystemInv
          /\ kind \in Spawning \cup OnSystem \cup {None}
          /\ None \notin Spawning \cup OnSystem /\ Spawning \cap OnSystem = {}
      BY EngineAssumption, EnginesAssumption DEF EnginesInv, Shape, Progress, TypeOK, EngineTypeOK,
         Chunks, Spawning, OnSystem, Polled
    <2>1. CASE kind \in Spawning
      <3>1. \E s \in Stoppers : stopAt[s] \in Holding
        BY <2>0, <2>1, OnlyStopsHold
      <3> QED  BY <3>1 DEF Holding, Under
    <2>2. CASE kind \in OnSystem
      <3>1. scratch = {} /\ sound[c] \in Audible
        BY <2>0, <2>2 DEF SpawnedInv
      <3>2. kind \in Polled => Polls
        BY <2>0, <2>2 DEF SystemInv
      <3>3. kind = "latch" => Notices
        BY <2>0, <2>2 DEF SystemInv
      <3> QED  BY <2>0, <2>2, <3>1, <3>2, <3>3 DEF Polls, Notices, OnSystem
    <2>3. CASE kind = None
      BY <2>0, <2>3 DEF Progress, SpawnedInv, Audible
    <2> QED  BY <2>0, <2>1, <2>2, <2>3
  <1> QED  BY <1>1, EnginesAlways, PTL
=============================================================================
