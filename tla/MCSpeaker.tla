------------------------------ MODULE MCSpeaker ------------------------------
(***************************************************************************)
(* Instances of Speaker for TLC: two backlog messages, one of which wants  *)
(* a voice of its own, two urgent ones, and a replay that shares the id    *)
(* of the first.                                                           *)
(***************************************************************************)
EXTENDS SpeakerMessages, TLC

CONSTANTS a, b, r, u, w,        \* jobs
          m1, m2, m3, m4,       \* message ids
          v1, v2                \* voices

MCIdOf     == a :> m1 @@ b :> m2 @@ r :> m1 @@ u :> m3 @@ w :> m4
MCGatingOf == a :> "sent" @@ b :> "sent" @@ r :> "asked" @@ u :> "high" @@ w :> "high"
MCChunks   == a :> 2 @@ b :> 1 @@ r :> 1 @@ u :> 1 @@ w :> 1
MCVoiceOf  == a :> v2 @@ b :> None @@ r :> None @@ u :> None @@ w :> None

Of(f)     == [j \in Jobs |-> f[j]]
OfId      == Of(MCIdOf)
OfGating  == Of(MCGatingOf)
OfChunks  == Of(MCChunks)
OfVoice   == Of(MCVoiceOf)
NoVoices  == [j \in Jobs |-> None]
Callers   == Permutations(Clients)
=============================================================================
