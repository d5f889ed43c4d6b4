# A verification project for clispeak

clispeak lets a program on one device speak aloud on the devices of the same
person. A CLI (or the app) hands a message to the node of its device; the node
speaks it, or sends it to the nodes of other devices in the same *space*; each
node has one thread that says one message at a time. Devices pair with an
invite and keep a signed list of members, the *roster*, that they exchange
whenever they are in contact.

This directory holds TLA+ models of the parts of clispeak in which the order
of steps matters, TLC configurations that check them on small instances, and
theorems about them that TLAPS checks for all values of their constants.
`PROJECT.json` is the index: which definition stands for which lines of the
source, which run checks which property, which change of the code each
property would catch, what was found, and what is proved.

Contents: [the system](#the-system), [the hard behaviours](#the-hard-behaviours),
[the modules](#the-modules), [the runs](#the-runs), [what was
found](#what-was-found), [fairness](#fairness), [the proofs](#the-proofs),
[what is not modelled](#what-is-not-modelled), [plan](#plan).

## The system

Paths are under `src/`; `core/` is `crates/clispeak-core/src/`, `engine/` is
`crates/clispeak-engine/src/`, and so on.

| component | state | operations | correct when | module |
|---|---|---|---|---|
| Speaking queue, `core/queue.rs` | behind one lock: urgent and normal queue, one resume slot, cut, paused, speaking, shutdown | submit, skip, stop_message, clear, pause, unpause, shutdown; the thread: take, ask the policy, speak chunk by chunk, put back, report | a job is in one place and ends once; a pause, a stop and an urgent message reach what they are aimed at and nothing else; nothing is lost | Speaker, Messages |
| Speech engines, `engine/`, `Speech.kt` | child processes, a worker thread or latches; what was discovered | speak (blocks), stop (from another thread), look for an engine | a stop ends what sounds, is no fault, and what speak returns is true | Engine, Spawned, Platform, Discovery, Engines |
| Roster, `core/roster.rs` | member records (signed, with join and label stamps), tombstones | found, invite, adopt, rename, revoke, forget, merge | merging is free of order; a removal is not undone by an old record; a device is not a member and removed | Roster, Space |
| Spaces, `core/spaces.rs` | the rosters of one device, their labels, the default | insert, remove, replace, set_label, set_default, load, save | labels name one space each; the default exists; leaving one space leaves the others | Home |
| Tickets and joining, `core/ticket.rs`, `core/node.rs` | the one open invite, in memory and in a file | mint, parse, remember, recall, forget; accept_join, do_join | an invite works once, for its time and its space | Home, Space |
| Node, `core/node.rs` | all of the above, last_seen, name | the calls of the CLI and the app; handle_peer; rounds of presence checks | members converge; refusals dissolve nothing; what is reported is what happened | Delivery, Home, Space, Startup |
| Policy, `core/policy.rs` | mute and quiet hours, per device and per space | verdict, asked at submission and before speaking | muted devices are silent; `high` breaks through quiet hours; a space makes a device only quieter | Policy, Delivery |
| History, `core/history.rs` | the last 200 entries; a saver thread with a one-slot mailbox | record, outcome, replay; put, flush, drop | an outcome ends in the right entry; the file becomes what memory was last | Delivery, Saver |
| Store, `core/store.rs` | files | write to a temporary file, sync, rename | a crash leaves the old or the new file | Saver |
| Identity, `core/identity.rs`, keystore | the device's key and its marker, files of an earlier name | migrate, find, adopt, mark, create | the key is never changed, the pairings come along | Startup |
| IPC, `core/ipc.rs` | a local socket and a token | who_is_listening, bind, reclaim, publish the token | a node that serves can be spoken to; a start that gives up says why | Startup, Cli |
| Transport, `core/transport.rs`, `core/loopback.rs` | connections | connect, accept, streams | a message arrives or the call fails | Delivery, Space |
| Text, `crates/clispeak-text` | none | chunk, protect, validate, strip | everything is said, in pieces of a bearable length, cut where a speaker would | Text |
| CLI, `crates/clispeak-cli` | `config.toml`, its lock | edits, requests to the node with patience, exit codes | no edit is lost; a node is blamed only if it is to blame; every call ends | Cli |
| Daemon, app, packaging | windows; releases | start a node; a view of what it answers | | Startup; the rest is not modelled |

How they interact. A CLI request comes in over IPC and is served by a task of
the node: `speak` resolves its targets in the spaces, asks the policy, and
either submits a job to the queue of this device or connects to a peer, syncs
rosters with it on that connection, and streams the message. The peer's
`handle_peer` checks its roster and submits a job to its own queue. The
queue's thread calls the engine, which blocks, and calls back into the node
(`on_finish`) for the history; other tasks stop the engine from outside.
`join` sends the token of a ticket to the device that minted it, which signs a
record and answers with the records of all members. Every minute each node
connects to every member and exchanges rosters. Locks: `Inner` of the queue;
`spaces`; `pending`; `name`; `history`; `policy`. None is held across an
exchange with a peer, which is why so much can happen between two halves of
an operation.

## The hard behaviours

`PROJECT.json` lists the hazards one by one, each at its line, with the
properties that cover it. In short:

- one field, `cut`, is written by any number of callers and read by the thread
  between chunks; cuts overwrite each other, come too late, or reach the next
  message; a caller stops the engine after it has let go of the lock, when
  something else may be sounding;
- a stop meets a speech engine between the start of its processes and their
  registration, between the player and the synthesiser, or before a latch that
  it should release exists; an engine is exchanged while it is called;
- rosters meet in any order, from devices that have and have not heard of a
  removal, with stamps of different clocks and of whole seconds; two devices
  that each correct what the other says can go on for ever;
- a handler takes a lock, lets go of it, and takes it again: a rename, a
  departure, an admission, an invite and its file; what it decided first may be
  wrong by then;
- a message is answered by whoever is first of the queue, the policy (twice),
  a stop, the patience of the caller and the death of a process, and the answer
  must fit what was heard and what is written down;
- files are shared: `invite.json` and its temporary name by all tasks, the
  history by a thread that skips versions, the key and the socket by processes
  that start together, `config.toml` by invocations that die in the middle.

## The modules

### Speaker and Messages: the queue and its thread

`Speaker.tla` is `core/queue.rs` at the granularity of its lock: an action is
one critical section, one call of the engine or one report. `urgent`,
`resume`, `normal`, `cut`, `paused`, `speaking` and `shutdown` are the fields of
`Inner`. `wpc` is the position of the thread and `job`, `index`, `spoke`,
`verdict` and `restore` its local variables; `at` is the chunk at which what is
left of a job begins (the code cuts the list of chunks). `cpc` and `todo` are a
caller that has left its critical section and still has to tell the jobs it
abandoned, or to stop the engine. `accepted`, `told`, `doomed`, `clipped` and
`chosen` are history, for the properties.

The thread: `Take` or `Sleep`; `Ask` (the policy; the message's own voice);
`StartChunk`, `EndChunk`; `Check` (the cut, taken before the engine's answer is
looked at); `PutBack`; `AllSpoken`; `RestoreVoice`; `Leave` (`speaking`
cleared); `Report` (`on_finish`). The calls: `Submit`, `SkipHeld`,
`SkipPlaying` with `SkipCut`, `StopPlaying`, `StopWaiting`, `Clear`, `Pause`,
`Unpause`, `Shutdown`, and from outside the queue `SetMute` (the node) and
`ChooseVoice` (the app); `Tell` and `EngineStop` are what is left of a call.

`Messages.tla` is what the queue promises of a message, whatever callers there
are: it waits, is spoken from its first chunk to its last, one at a time, goes
on where it was interrupted, is cancelled only if a call aimed at it, and ends
once; a message is lost only when it is interrupted and another is interrupted
after it. It knows neither queues nor a cut, a lock or a thread.
`SpeakerMessages.tla` maps the states of Speaker to its states: what is left of a
job is counted from `index` while the thread has the job and from `at` otherwise,
and the place of a job says how far it has come.

Abstracted: the text of chunks (a number of chunks), rates, word counts and
the wait they give, several spaces (the policy is one switch). The engine is
seen from the queue: it begins a chunk or cannot, and the chunk ends, fails or
is killed, which is reported as a success (`Running::check`) or, by an engine to
which finding 24 applies, as a failure.

### Engine, Spawned, Platform, Discovery, Engines: what speaks

`Engine.tla` has what every implementation of `SpeechEngine` shares: the thread
that calls `speak` for one chunk after another (`chunk`, `at`, `result`), the
threads that call `stop` (`stopAt`), and the sound of each chunk. `Spawned.tla`
is `child.rs`, `espeak.rs` and `piper.rs`: one process, a synthesiser that pipes
into a player, or a file that is rendered and then played. Its actions are the
steps of `speak` (`Spawn`, `Render`, `Play`, `Register`, `Finish`, the two
waits, `Clear`) and of `stop` (take the entry under its lock, then `Flag` and
kill the player and the synthesiser outside it, then remove the file), and the
processes themselves, which end, fail, or die of a broken pipe.
`Platform.tla` is `sapi.rs`, `apple.rs` (a loop that polls a flag and the
synthesiser, which may begin after the loop has given up waiting for it) and `Speech.kt` with `android.rs` (a generation, a map of latches,
callbacks that arrive later). `Discovery.tla` is the choice of an engine
(`engine/lib.rs`) and `rediscovering.rs`: whoever calls an engine that was not
there yet may look for it, without a lock, so two may look at once and the
later find takes the earlier one's place. `Engines.tla` puts the four together;
a device has the engine its system and its equipment give it.

### Roster and Space: pairing, removing, agreeing

`Roster.tla` has the rules of `core/roster.rs` as operators: a record is its
join stamp, label and label stamp; `Merge` is `merge_at`, clause by clause
(`Stone` the tombstones with their clamp, `Kept` the record, `Survivor` and
`Standing` the two `retain`s). Devices are honest, so signatures verify and
only the date check of `verify_at` can fail; who invited whom is not in the
model because no rule that is modelled looks at it (`admit` does, and nothing
calls it outside tests).

`Space.tla` runs those rules on several devices that hold one space. `roster`,
`name` and `pending` are the fields of `Shared`; `minted` is when each ticket a
device has handed out expires; `mid`, `plan` and `farewell` are the local
variables of a rename, of a round of presence checks and of a departure that
are under way. `wire` has one slot for each ordered pair of devices and kind of
exchange (`sync`, `bye`, `join`), with the position of the exchange and the
roster it carries. `now` is time, and `Ahead` how far each clock is off.
`decided`, `gone`, `again` and `knows` are history.

- Pairing: `MintInvite`; `AskToJoin` (`Ticket::parse` with its two checks of
  the clock, then the request); `ConsumeInvite` and `AdmitJoiner`, the two
  critical sections of `accept_join`; `Joined`, `JoinRefused` (`do_join`).
- Exchanging: `BeginRound`, `CheckOn` (a round contacts the members it saw at
  its beginning, one after another) and `SendTo` (every message to a peer is
  preceded by an exchange); `Sync`, `Admit`, `Merged`, `Answer`, `Hear`,
  `HearRefusal` are the steps of an exchange at either end, each under a lock
  of its own; `Lose` breaks the connection at any of them.
- People: `NameDevice` and `RenameEntry` (the two halves of `rename`),
  `RemoveDevice`, `BeginLeave`, `SayGoodbye`, `EndLeave` (`leave`), `Abandon`
  (`rotate` and `leave_space`, which tell nobody).
- `Restart`: rosters, name and the open invite are on disk; the rest is gone.

Abstracted: labels and ids of spaces and the other spaces of a device (a space
that is refounded is another space, so the device is without this one); these
are in Home.

### Home: the spaces and the invite of one device

`Home.tla` is the other half: one device, several spaces, and any number of
connections of the CLI and the app, whose handlers interleave. `spaces` is
`Shared.spaces` (label and members of each, and the default), `disk` is
`spaces.cbor`, `over` the spaces with a policy of their own and the device's own mute, `pending` the open
invite, `tmp` and `file` `invite.json.tmp` and `invite.json`; `task` is where
each handler is and what it has read. `Insert`, `Replace`, `Remove`, `SetLabel`
and `LabelFor` are the operations of `spaces.rs` and `pick_space_label`. An
action is one critical section or one step on a file: `New`, `Default`,
`Rename` are whole requests; `leave`, `rotate` and `leave_space` begin by
cancelling the invite (`TakeInvite`, `Unlink`), look the space up again
(`Resolve`, `Farewell`) and end under another lock (`EndLeave`, `Rotate`,
`DropSpace`); `invite` is `Resolve`, `WriteTicket`, `RenameTicket`,
`OpenInvite`; a join from here is `StartJoin` and `FinishJoin`, one to here
`Consume` and `Admit`. Every `Change` is saved under the lock and a save may
fail; `Restart` and `DieLeaving` are the ends of the process.

### Policy and Delivery: from a command to an outcome

`Policy.tla` is `policy.rs`: windows, the order of the verdicts, the device and
then the space. `Delivery.tla` is what becomes of a `speak`: `Resolve` (names,
scopes, `all`, the default space, each target once), a leg per target, which is
an exchange that may break (`Lose`, `Dead`), `Receive`, `Judge` (the verdict), then
`Submit` or, under another lock, `Settle` at the other end (`handle_peer`,
`speak_here`), the queue as far as it concerns the
answer (`Begin` asks the policy once more, `Finish`), `Timeout` and `Answer`, the
history with its outcomes (`Record`, `SetStatus`), `Replay`, and what people do
in between: stop, clear, pause, mute, quiet hours, the passing of time, a
restart. Speaker has the insides of the queue, Space what the members think of
each other; here either may be.

### Startup: who is this device

`Startup.tla` runs several processes of one user, the app and the daemon, over
what they share: the files of this and of the earlier version's directory, the
keyring with the entries under both names, the socket's name and `ipc-token`. A
start is `Move` three times (`migrate_between`), then the keystore's accesses one
by one: `Ask`, and what was kept under the old name is read, stored and deleted
(`Adopt`, `Store`, `Forget`); the marker is written (`MarkKey`); or the key file
is read (`Decide`), the marker (`Doubt`), and a key is made and put away
(`Mint`). Then `Load` (`Node::new_in`), and the socket: who_is_listening is
`Connect`, `ReadToken` and `Prove`, which may be answered, refused, cut off by
the death of the other or not answered in time; and `InstallToken`, `Bind`,
`Taken`, `Reclaim` (`serve`, `bind_ipc`). The app asks the same before all else.
No lock is taken between starts, so any number run at once (bound: `Crowd`);
processes die before any step; the keyring is locked and unlocked between any
two; the marker need not be written (`Faults`). `crossed` and `lapse` are history:
who claimed the socket while another did, and what went wrong on the way to a key.

### Saver: how the history reaches the disk

`Saver.tla` is `history.rs` with `store.rs`. A history is the number of changes
it has. `Change` and `Put` are a task that holds the history's lock; `Take` and
`Seen` are `write_loop`; `Open`, `Fill`, `Sync`, `Name`, `Fail` are
`write_private`; `Flush`, `Recheck` and `Drop` are the saver's ends; `Kill` and
`PowerCut` those of the process and the machine. If there is no thread the task
writes by itself (`PutHere`).

### Cli: the command line tool

`Cli.tla` runs invocations of the tool: an edit of `config.toml` loads it, takes
the lock file (`Try`; an old one is removed first, `Break`), reads again, writes
and unlocks. Removing the lock file may fail unseen (`Unlink`), and `Break` then
goes on without a look at the deadline. A request checks the text, connects
(`Connect`), has the node prove what it is (`Greet`), writes (`Send`, which
nothing limits: a long message to a node that hangs is stuck in "writing"), and
waits for as long as `patience` says while the node dials devices that are near,
asleep or off (`NodeTime`). Invocations are killed anywhere; the node is up, down,
wedged or another user's.

### Text

`Text.tla` is `crates/clispeak-text`: `protect.rs`, `chunk.rs`, `validate.rs`,
`strip.rs`, on texts that are sequences of characters, one of each kind the code
tells apart (`unicode-segmentation`'s rules are modelled as it is used, and are
external). It has no state: its claims are assumptions that TLC evaluates over
all short texts whenever it starts `MCCli`, which extends it because the tool is
where texts are refused and rewritten.

### The rest

The `MC` modules give the constants their values for TLC. The proofs are in
`SpeakerProofs`, `SpaceProofs`, `HomeProofs`, `SaverProofs`, `StartupProofs`,
`DeliveryProofs`, `EnginesProofs` and `CliProofs`, each of which extends the module
it is about.

## The runs

Each configuration has just the devices, calls and faults its question needs;
`None` and the like are model values.

- *Speaker*: a message of two chunks is enough to be cut between chunks, two
  callers for a call that runs into another one (callers are interchangeable:
  symmetry), and a message, a later one that shares its id (a replay) and an
  urgent one for every order of the three places.
- *Space*: three devices are the least with one that has not heard; `Moments`
  (the last second) lets a removal and a re-invite be in different seconds,
  `MaxSkew` covers them, `Invites` is one for each device, `Traffic` the number of
  exchanges in flight together, and `May` who does what.
- *Home*: three spaces of its own and one it may join, so that one is left, one
  kept and one made; two invites, so that one replaces the other; a peer; two
  connections, with one and two requests; writes that fail; a restart anywhere.
- *Delivery*: two devices, one space, two commands, each of which names the desk
  twice; a day of two parts with quiet hours in one; a history of two entries, so
  that the third displaces one; one intervention of a person.
- *Startup*: the app, the daemon and one more, two at a time, so that starts
  cross, die and are followed by another; after nothing, a key file, a keyring
  entry of the earlier version, or one from when there was no marker; a marker
  that need not be written.
- *Saver*: two tasks, four changes (two in a row, twice), one death.
- *Cli*: two edits of the agreement or of something else, and a request; any of
  them may be killed at any point, a lock file may stay though it was removed,
  and the node is what it likes.
- *Text*: all texts of up to four characters, pieces of at most three.
- *Engines*: two chunks, since a late stop hits the second, two threads that
  stop, and every system with every equipment that changes what is chosen.

Where behaviours end because time, jobs or requests are used up, deadlock is
not an error. It is checked in `Home_all`, where it says little: a node may be
restarted in every state.

| run | question | properties |
|---|---|---|
| `speaker_calls` | with stops, clears, mutes and one urgent message crossing: is a cut aimed, the backlog in order, every end told once, nothing lost | UrgentInterrupts, BacklogInOrder, NoStrayCut, NothingLost, ToldOnce |
| `speaker_live` | with pauses, skips, voices, shutdown and engines that fail: does the queue implement `Messages`, does a pause reach what is spoken, does every message end | TypeOK, PauseHolds, ImplementsMessages, EveryMessageEnds |
| `speaker_two_urgent` | is nothing lost with two urgent messages: **no** | NothingLost |
| `space_rejoin` | removals, re-invites and re-pairing with exchanges in flight, nobody renames: nobody is member and removed, one result whoever merges first, no old record revives, a re-invited device stays | NoResurrection, OrderFree, JoinNeverBack, ReinviteSticks |
| `space_leave` | departures, restarts, broken connections, clocks ahead: does each tombstone go back to a decision, and is none from the future | GuessStaysLocal, StonesPast |
| `space_spread` | does a removal reach everyone and last | RevocationSpreads |
| `home` | with handlers that interleave, failed saves and restarts: are the spaces sound, is a guest admitted where its ticket said and by an invite that was still good, once, and do the other spaces stay | SpacesSound, AdmittedAsNamed, SingleUse, InvitedIn, OthersStay |
| `delivery` | is what is called queued waiting, are answers and history true, is a command spoken once by a device, is a refusal justified, and does every row get an answer | QueuedIsLive, AnswerIsTrue, Once, RefusedForCause, EveryRowAnswered |
| `startup` | with starts that cross and die anywhere: can the node that serves be spoken to, has the device one key, did the pairings come along, is who gives up told the truth; with the exceptions the properties name | Drivable, OneKey, PairingsCarried, NoFalseAlarm |
| `saver` | is the file what flush and the end of the saver promise, never damaged, and does flush return | FlushMeansSaved, LastWord, NeverDamaged, FlushReturns |
| `cli` | are edits of the agreement as if one after another, and does every call end but for the two that nothing limits; with `Text`'s assumptions | AgreementSerial, EveryCallEnds |
| `engines` | is the result of `speak` true, is it quiet after it, does a stop end it however long the sound | Honest, Quiet, StopEnds |

`Text`'s assumptions, evaluated by the `cli` run: `NothingUnsaid` (every letter and
digit is in some chunk, in order), `ChunksFit` (a chunk is too long only if it is
one word), `NumbersWhole` (no number is spoken with a pause inside), `AdviceEnds`
(a suggested rewrite that is refused again is shorter than what it replaces).

The twelve are the runs of `PROJECT.json`. More configurations ask what the
code, a comment or a user would claim and what it does not keep; TLC refutes
them in seconds, and they are here so that a fix can be tried on them:

| configuration | claim | refuted because |
|---|---|---|
| `Speaker_claims` | `StopIsFinal`, `StopIsTrue`, `SpokenIsHeard` | findings 2 to 5 |
| `Space_oldRecord` | `JoinNeverBack`, with a rename in flight | finding 8 |
| `Space_ahead` | `ReinviteSticks`, with a clock that is ahead | finding 10 |
| `Space_sameSecond` | `RemovedStaysOut` | finding 11 |
| `Space_forget` | `LeaverForgotten` | finding 12 |
| `Home_invites` | `OpenIsRemembered`: the open invite is the one on disk | finding 13 |
| `Home_leaveTwice` | `OthersStay`, with two departures at once | finding 14 |
| `Home_mute` | `MuteSticks` | finding 15 |
| `Delivery_twice` | `Once`, with two spaces that both hold the device | finding 16 |
| `Startup_claims` | `AlwaysOneKey`, `AlwaysDrivable`, `StrangerIsStrange`: one address for ever, a token for every socket, a stranger is none of ours | findings 17, 27 to 29 |
| `Startup_overwritten` | `NothingOverwritten`, when a move fails half-way | finding 18 |
| `Saver_power` | `PromiseKept`: what was named is there after a power cut | finding 19 |
| `Cli_claims` | `AgreementSerial` with three editors, `GroupsSerial`, `StrangerIsAnother`, `AlwaysEnds` | findings 20, 30 to 32 |
| `Cli_blame` | `NodeRightlyBlamed`: "reaching here really does mean the node itself stopped answering" | finding 21 |
| `Engines_claims` | `AlwaysQuiet`, `SpokenWasHeard`, `StopIsNoFault`, `RightVoice`, `StopReaches` | findings 22 to 26 |

One more, `Space_names` (`NamesSettle`: all come to use the name a device has
given itself), holds. Of a configuration with several properties TLC reports
the first that fails; to see another, comment out the ones before it.

## What was found

Each statement has a configuration whose counterexample shows it, or, where
it says so, was read from the code while it was modelled. `PROJECT.json` quotes
the source for the first, which has a run.

The queue:

1. Two urgent messages in a row lose the message the first one interrupted
   (`queue.rs:592`: the resume slot is overwritten). A pause during an urgent
   message that has interrupted another overwrites it as well.
2. `stop` between the cut and the putting back of a message does not stop it
   (`queue.rs:586`).
3. An urgent message right after `stop --id` turns the stop into an
   interruption (`queue.rs:275`).
4. `stop --id` after the last chunk is acknowledged, and the message reported
   as spoken (`queue.rs:334`).
5. The engine stop of a submit or a skip can cut a message that was not aimed
   at, which is then reported as spoken (`queue.rs:288`).
6. Muting ends a chunk, not the message (`node.rs:2005`); between two chunks it
   ends nothing. The rest is spoken or not by where the thread was. (`SetMute`.)
7. A voice chosen during a message with a voice of its own is undone
   (`queue.rs:571`; `VoiceGoesWithMessage` assumes it does not happen).

The roster:

8. A record of a former membership with a newer label replaces the record of a
   new one, stamp and all (`roster.rs:521`), so that
9. merging is not free of order once somebody renames (`roster.rs:520`).
10. A tombstone of a clock that is ahead evicts a device that was invited again
    after it (`roster.rs:495`).
11. A device removed in the second of its invite comes back with an exchange
    that was in flight (`roster.rs:530`).
12. `leave_space` says it is announced and is not; a device that dropped a space
    unannounced is forgotten and restored for ever by those left behind
    (`node.rs:2974`).

The node and its files:

13. Two `invite`s at once: the file has one of the two tickets and the memory
    the other, so after a restart the ticket that was answered last is refused
    (`node.rs:2339`).
14. Two `leave`s at once of the same space, one of two: the second finds a single
    space left and refounds that one, though nobody named it (`node.rs:2690`).
15. A mute of a space is forgotten before the space is: `forget_policy` is saved,
    the process ends, and the space is back and audible (`node.rs:2700`).
16. With two spaces that both hold a device, `all` reaches it once for each
    (`node.rs:1198`).
17. Two starts at once: the second puts its token in place after the first has
    put its own and before it has bound; the node that serves is then one whose
    token nobody has (`node.rs:725`).
18. A move of the old files fails half-way and the node starts without the
    pairings; the next start moves them beneath it, and its next save overwrites
    them (`identity.rs:413`).
19. The directory is not synced after a rename: a power cut takes back what
    flush had reported as saved (`store.rs`).
20. An old lock broken by two: the second breaks the new lock of the first, and
    both edit (`config.rs:120`). Edits of groups write what they had read before
    the lock.
21. Some requests may rightly take longer than the tool waits (one that waits
    less long than the dial of a device that is off lasts, a `leave` that dials, a
    wait for hours): a node that is up is said to have stopped answering
    (`main.rs:1326`).

The engines:

22. Android: a stop that is late releases and clears the latch of the next call,
    which answers "spoken" while it sounds. Apple and SAPI: a synthesiser that has
    not begun within `START_GRACE` is taken to have spoken (`apple.rs:186`,
    `sapi.rs:320`), and a SAPI voice that does not answer to have failed
    (`sapi.rs:308`), neither of which stops what it may still say (`AlwaysQuiet`).
23. Android: `onError` releases the latch as `onDone` does, so a chunk that
    failed is reported spoken (`SpokenWasHeard`).
24. A stop is reported as a failure: on Android one that comes while the text is
    being queued, and with Piper's pipe any, since the player that is killed breaks
    the pipe of a synthesiser not yet marked as killed (`StopIsNoFault`).
25. An engine found late has not been told the remembered voice (`RightVoice`,
    `node.rs:245`).
26. A slow probe replaces the engine that another one found and that is speaking;
    a stop then goes to the wrong one (`StopReaches`). A stop between the start of
    a process and its registration reaches nothing (`espeak.rs`, `piper.rs`).

Starts (all in `Startup_claims`, which reports the first; to see another, comment
out the ones before it):

27. A start ends after it has put a new key into the keyring and before it has
    written the marker, or cannot write it, which is ignored (`lib.rs:139`,
    `lib.rs:249` of the keystore). If the keyring is locked at the next start,
    that one makes a second key in a file, silently, which is what the marker is
    to prevent; once the keyring answers again the first key is back
    (`AlwaysOneKey`).
28. Two first starts at once find no key and make one each (`AlwaysOneKey`).
29. A node of this user that ends after it has accepted the connection, is silent
    for a second (`ipc.rs:590`), or has lost its token to another start, is told as
    "not a clispeak node this user started", and the start gives up beside nobody
    or beside its own node (`node.rs:711`; `StrangerIsStrange`).

The tool, again:

30. The request is written without a time limit (`main.rs:1307`): a long message
    to a node that hangs never ends (`AlwaysEnds`).
31. An old lock file that cannot be removed is tried again for ever, without a
    pause: the `continue` skips the deadline (`config.rs:182`; `AlwaysEnds`).
32. A node of this user that hangs is said to belong to a different node or to
    have lost its socket's name to something else (`main.rs:1293`;
    `StrangerIsAnother`).

Texts (each an assumption of `Text` that exhibits a text): `RewriteRefused` (of
`http://www.` one prefix is taken off), `NoRewrite` (a URL in brackets),
`YearDropped` (`2024. was` is accepted as it is and loses the year with
`--strip`), `ProtectionDrifts` (`chunk.rs:47`), `WordTooLong`, `LaterReported`.

Read, not run: a record is truncated at a byte that may be the middle of a
character (`history.rs:85`, while `accept_chunk` counts characters); a player
that cannot be started, or a write to the synthesiser that fails, leaves the
synthesiser unwaited for (`piper.rs`); `current_voice` holds a lock while it asks
the worker (`sapi.rs`); on Linux the daemon ends without an engine while the app
keeps looking; `docs/text.md` says what the app sends is not validated, and the
app validates it (`lib.rs:1179`).

## Fairness

Nothing obliges a person, a caller or a fault to act, and no clock to tick.
What is fair is what a scheduler, a timer or the kernel sees to:

- `Speaker!FairSpec`: the thread runs (the engine's call returns), and a call
  that has begun ends. A pause may last, so `EveryMessageEnds` allows for it.
- `Space!FairSpec`: for each device, its rounds of presence checks (a timer of a
  minute) with the exchanges they begin, and the second half of what a person
  asked for. A round is one condition: it goes on to the next peer when an
  exchange is over, and no exchange is favoured. In the runs that use it no
  connection is lost; with connections that may always be lost nothing could
  be promised.
- `Delivery!FairSpec`: each leg of a command goes on (a connection that gives no
  answer is dead after a time, a wait has a timeout), which includes the thread
  that speaks where the leg waits for it.
- `Saver!FairSpec`: the thread runs, flush looks again when it is woken, a task that holds the lock
  puts its snapshot. `Cli!FairSpec`: an invocation goes on; a lock that a dead one
  left need not grow old, since patience ends.
- `Engines!Spec`: `speak` goes on where it does not wait for something that
  sounds; a stop that has begun ends; a listener that was promised a callback
  gets it. Nothing makes a sound end: `StopEnds` must do without.

## The proofs

Everything below holds for any number of jobs, callers, voices, devices, spaces,
labels, invites, changes, exchanges, processes, commands, chunks, stops and
invocations, any clocks, and without the bounds of the runs (the bounds are
constants too). Of what the runs check, a property that holds only in the run's
setting (one space, clocks that agree, nobody who renames, one departure, one urgent
message) is not proved under that setting as a hypothesis: the theorem in its place
says what holds always, with the ways in which the code fails as part of the
statement. Three theorems have a hypothesis of their own; it is in the statement, and
why the code needs it is said below.

**Speaker.** `Shape` (types, what the thread has in hand at each position, and
`SpeakingMatches`) is inductive by itself: `ShapeAlways`, `TypeCorrect`,
`SnapshotIsRight`. Relative to it `PauseHolds` and `UrgentInterrupts` are
preserved by every step (`PauseIsKept`, `UrgentIsNext`; the second needs that
only urgent jobs are in the urgent queue). `NoStrayCut` needs `CutInv`: a
cancelling cut that will reach a job was aimed at it, and so was every job a
call has yet to tell (`NothingElseIsCancelled`). `VoiceInv` says what voice is
owed at each position; `VoiceGoesWithMessage` assumes that nobody chooses a
voice meanwhile, as finding 7 says it must. `OnePlace` is strengthened with
"what is anywhere was accepted" (`PlaceInv`), so that a job handed over is in
no place yet: `InOnePlace`, and from it `OutcomeToldOnce`, an action property.
The module begins with the facts on removing from and searching in sequences
(as `DeliveryProofs` does with those that it needs).

`BacklogInOrder` needs `OrderInv`: the backlog is in the order of acceptance; what
is spoken or interrupted, unless it is urgent, was accepted before all of it; and
while such a message is spoken nothing is interrupted, so that the resume slot
cannot hold one that is due first (`BacklogKeepsOrder`). That nothing is lost is
false (finding 1), so what is proved is that there is no other way:
`LostOnlyInTheSlot` says of every step that a message it loses is the one in the
resume slot, which an urgent message takes that was interrupted itself. Of pauses,
cuts and calls nothing is assumed.

The queue implements `Messages` (`QueueImplementsMessages`). Besides the
invariants above it needs that what is left of a job is never more than its
chunks and the thread never beyond them (`ChunkInv`), and that a caller that is
not telling owes nobody (`OwesOnlyTelling`: otherwise a call that takes on jobs
could forget those of the one before). Most steps leave every phase alone
(`SamePhase`) or move one job (`PhaseAt`); the calls are one lemma, `CallAims`,
applied to skip, stop and clear. What moves two jobs at once is `PutBack`: the
job it puts back and the one that was in the slot.

**Space.** Of each operation of a roster it is proved first that it keeps types
and consistency, adds no tombstone but its own, dates none after the device's
clock, and *keeps* what was removed: a member it leaves has a record as new as
the tombstone there was, and a tombstone there was is left otherwise (`Keeps`).
`SpaceInv` says of every roster that is held, announced or in flight that it is
consistent and blames only devices that someone decided to remove; of those
held, that no tombstone is later than the clock; and that the history variable
`knows` *is* the tombstone. The last two are what makes it inductive:
`Roster::invite` removes a tombstone unseen, which is right because it cannot be
later than the record being signed, which is so because `merge_at` clamps. Every
action hands `Holds` an heir in this sense (`HoldsKeeps`), and every message
moves on in one of three ways (`AdvanceKeeps`, `CarryKeeps`, `CloseKeeps`).
Theorems: `SpaceTypes`, `NeverBoth`, `TombstonesPast`, `TombstonesAreDecisions`,
`RemovedNotRevived`.

How a membership may go backwards, and how it may end, is proved of every step for
any clocks, renames and traffic (`RecordsGoBackByNameOnly`,
`MembersEndByLaterStone`). Both are read off `Kept` and `Stone`, clause by clause, and
then from everything that reaches a roster: a merge with what came over the wire, an
admission, a removal, an invite. They need `Dated`: no device holds a record further
ahead of its clock than `MaxSkew`, so that nothing it signs itself goes back. What
they allow is what happens: the older record with a newer label is finding 8, the
later tombstone of a clock that is ahead finding 10. The run's stronger properties
(`OrderFree`, `JoinNeverBack`, `ReinviteSticks`) hold only without these and stay
with TLC.

**Home.** That the labels name one space each and the default is held
(`SpacesSound`, theorem `SpacesAreSound`) is a fact about the operations on
`spaces`, each of which makes good spaces of good ones, and then about the file,
which is always some good spaces that memory was. `HomeInv` adds the books that
the invites are in: which ticket is with which handler, in memory, in the
temporary file and in the file (`BookInv`), and that every ticket about names
the space it was made for (`NamedInv`). From these `AdmittedWhereNamed`
and `OnlyTheInvited`. `TicketsWorkOnce` needs one thing more, `SpentInv`: a ticket
that was used is nowhere any more. That is so only if a file can be removed when
the code removes it, which the theorem assumes (`"unlink" \notin Faults`): the
node goes on when it cannot, and a restart then reads the used ticket back.

`OnlyTheNamedOrTheLastGoes` is an action property of any number of connections: a
space goes only with a request that named it, as the default that stays empty when
another is joined, or as the last space of all, which a `leave` of another one that
is gone by then takes for its own (finding 14, which the run's `OthersStay` does not
allow). It needs that finitely many spaces are held (`FewInv`), so that the one made
in place of the last is a new one.

**Saver.** `SaverInv` has three parts. The mailbox numbers what is put into it,
and `Mailbox` says what each number stands for: the history with as many
changes as were put since the start. So "the thread has written number n"
says what is in the file, which is what flush and drop rely on (`FlushSaves`,
`SaverEndsSaved`). `Alone` is the case in which there is no thread and a task
writes by itself. `Paper` follows `write_private`: what is under the file's name
was filled and synced under another one before (`FileNeverDamaged`).

**Startup.** Three invariants, each with the types, for any number of processes that
start together and die anywhere, and for all faults. `SocketInv`: who has claimed the
socket without another's claim crossing its own claims alone, and what it installs
stays (`Settled`); who asks has connected to a node that was up, and read that node's
token unless its claim was crossed (`Asked`). So whoever is up, and was not crossed,
holds the socket and the token on disk is its own (`ServingIsDrivable`), and a start
that gives up because of the socket is told what is so (`GivingUpIsRight`, an action
property). `DataInv`, unless a move failed half-way: whoever has passed a file of the
old directory has left none there (`Moved`), and with the key of before there is what
that version knew, in the one directory or the other (`Carried`); so a node that has
that key knows the pairings (`UpgradeKeepsPairings`), and nothing is ever written over
them (`PairingsStayOnDisk`). `KeyInv`, unless something went wrong on the way to a key
(`lapse`): all keys kept anywhere are the same and no other was ever used (`Sole`), a
key between two stores is in one of them (`InHand`), and one process at a time has
found no key, and none is there when it makes one (`Bare`): `AddressIsKept`. No
theorem has a hypothesis; the three ways in which the code does go wrong are
exceptions in the properties, tied to the very steps at which they occur, and
`Startup_claims` and `Startup_overwritten` show that each of them does.

**Delivery.** `LegInv` is types and two books. `Booked`: a job that waits or is
spoken belongs to a leg that was given to this device, has not been heard, and has
had no final answer; no leg has two jobs that are not replays; what was heard was
accepted. `Told`: what a leg was told, or will be, fits what was heard. From them
`ReportsAreTrue`, with nothing assumed of devices, commands, connections, people or
restarts. `HeardOncePerSpace` needs that a command has one leg for each target
(`Single`), which is a device and a space; that `push_target` recognises a device
whichever name it came by is proved for that. Two spaces that hold one device are two
targets, and it is then heard twice (`Delivery_twice`, finding 16): `Once`, which the
run checks for one space, is no theorem. `HistoryIsSettled` needs `Live`: a queued
entry that is the newest of its message belongs to one that a leg has judged or is
about to judge, that waits or that is spoken. An older entry of the same message, which
came in another space, may say "queued" for ever (`history.rs:98`), so
`QueuedIsLive` too stays with the run.
`SecondCheckHasCause` needs `PassInv`: what was let through would be let through
again if nothing changed (`LetThrough`), because the depth of the queue, about which
only the first check asks, can only have refused more. `Resolve` is written with
folds over a command's names: that each name adds what it stands for is shown
for the function the fold is (`FoldExists`), by induction through the least number
of names for which it would not hold. `WindowsAreRight` and `SpacesOnlyQuieten` are
the rules of `Policy` for a day of any length, which TLC evaluates for one of seven.

**Engines.** `Shape` is types, where each thread can be for each kind of engine
(`Places`, `Kinds`), how far the chunks are (`Progress`), and that a stop under
way has touched the chunk that is spoken (`Alert`). For the engines that start
processes `SpawnedInv` says where every sound is: what plays, and a file that
was rendered, is in the hand of the thread that has not registered it yet, in
`current`, or in the hand of a stop that is about to end it (`Held`); only what
a stop touched is taken and what it killed is marked (`Taken`); what failed was
a fault or a broken pipe (`Blamed`); the player tells what was heard (`Played`),
and what `finish` learnt is so (`Learnt`). For those of the system `SystemInv`
says what a poll that ends has seen, and that only what began late sounds behind it
(`Polls`), that a listener is told only of
sounds that are over (`Notices`), that a stop which came before the text was
queued is seen by its generation and one which came after has silenced it first
(`Generations`), and who releases a latch (`Latches`). With `Honest` they are
inductive: `EnginesTypes`, `SpeakIsTruthful`, `QuietAfterSpeak`, for any number
of chunks and of stops, and whatever is found late.

**Cli.** The lock file is its maker's until that dies, and is old only then
(`Guarded`); what is about to be written is made of what is in the file still
(`Fresh`), although the groups in it were read before the lock was taken, since what
an edit makes of the agreement is decided by the agreement alone
(`AgreementAlone`). So `EditsAreSerial`, if there are no faults or two invocations at
most edit, wherever they are killed and whether or not a lock file can be removed;
three are finding 20. `CliTypes` holds without this, and says that no rule is ever
listed twice.

Assumptions are those named in the modules: `SpeakerAssumption`,
`RosterAssumption`, `SpaceAssumption`, `HomeAssumption`, `SaverAssumption`,
`StartupAssumption`, `PolicyAssumption`, `DeliveryAssumption`,
`EngineAssumption`, `DiscoveryAssumption`, `EnginesAssumption`, `CliAssumption`
(types of the constants, and `None` is no value), and those of the theorems that
say so in their statements: `VoiceGoesWithMessage`, `TicketsWorkOnce`,
`EditsAreSerial`. TLC evaluates the
assumptions of a module in the runs that extend it.

Model-checked only: liveness (`EveryMessageEnds`, `RevocationSpreads`,
`EveryRowAnswered`, `FlushReturns`, `EveryCallEnds`, `StopEnds`), since the
prover has no rules for fairness and ENABLED; and `Text`, whose definitions are
recursive operators, of which the provers can say nothing. The library's
theorems on induction cannot be instantiated either, because they are about
operators; where a fold must be reasoned about, as in Delivery, the least number
that would violate a fact does in their place.

## What is not modelled

- Packaging, the web site and the release tools: no state of the running program.
- Of the app: windows, menus and the view of what the node answers; of the CLI:
  parsing, help and printing. What they do to the node is a request.
- Presence (`mark_seen` and the listings), preview, how voices are listed and
  tuned: what a person sees, on which nothing else depends.
- Signatures, encodings, framing, permissions, escaping for a terminal: every
  signature here verifies and every message decodes.
- `conflicting_identity` (a second directory), a `config.toml` that cannot be
  parsed, the migration of a roster without labels, the files of names and
  voices.
- The transport's library: what its users see of it, a dial that lasts, a request
  or a reply that is lost, is in the modules that use it.

## Plan

Done: the queue, with the refinement; rosters and spaces; the spaces and invites
of a device; the saver; delivery; startup; the engines; the tool; all of these
checked and their safety proved. Texts are checked.

Left, in this order:

1. Delivery with Speaker in the place of its queue, by way of `Messages`;
2. Delivery over Space: a message and the exchange of rosters before it on one
   connection, with a removal in between.
