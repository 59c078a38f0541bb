# Chat and key exchange in the Keybase client: a TLA+ development

The Keybase client (`src/go`) is a service that runs on every device of a user. The
largest body of logic that belongs to this repository alone, and that is decided by
messages, timers and goroutines and not by a server, is its chat, under `go/chat`.
This directory models three parts of chat, and one part of the service beside it:

- the **coin flip** (`go/chat/flip`, `go/chat/flipmanager.go`): several devices of a
  conversation draw a random outcome that none of them can steer, by committing to
  secrets, listing the commitments and revealing them. It is modelled from the game
  itself outwards: the dealer that runs it, the replay of a finished game, the
  generator behind the outcome, the feeding of messages to the dealer, and what the
  user interface is told;
- the **ordering of updates** that the server pushes (`go/chat/push.go`), the
  version of the local inbox (`go/chat/storage/inbox.go`) that they advance, and the
  syncs that bring it up to date (`go/chat/sync.go`);
- the **deliverer** (`go/chat/deliverer.go`) with its **outbox**
  (`go/chat/storage/outbox.go`): what the user writes is sent in order, once, and
  survives failures and crashes;
- the **transport of the key exchange** (`go/kex2/transport.go`): a stream of bytes
  between two devices over a message router that is not trusted.

TLC checks the models on small instances. TLAPS proves the safety properties of the
game and its replay, of the dealer, of the generator, of the injection, of the status, of
the ordering, of the deliverer and of the transport for every number of devices, games,
draws, loads, updates, messages and bytes, and that the deliverer implements an abstract specification of the life of a
message.

## 1. Inventory

### Modelled or begun

| Component | State | Operations | Hard because | Correct when |
|---|---|---|---|---|
| **Game** `flip/dealer.go`, `secret.go`, `types.go` | stage, each device's commitment, the leader's list, secrets, `nPlayers`, latecomers, next timer | handle COMMITMENT, COMMITMENT_COMPLETE, REVEAL, END; timer event; finish | messages lost, late, reordered, repeated; devices that do not follow the protocol; deadlines | nobody reveals before all listed commitments are fixed; correct devices agree; the outcome is what was committed; the game ends |
| **Dealer** `flip/dealer.go`, `flip.go` | `games`, `gameIDs`, lock, `shutdownCh`, `gameUpdateCh` | `Run`, `handleMessageStart`, `handleMessageOthers`, `run`, `stopGames`, `Stop` | five kinds of goroutine, unbuffered sends under a lock, channels closed from two sides, a bounded queue whose reader stops | no panic, no send without a reader, lock released, `Stop` returns |
| **Replay** `flip/replay.go` | a `Game` without a device | fold a history through the handlers | the history has another order and other times than the live game, and messages may be missing | a replay shows the outcome the devices had |
| **PRNG** `flip/prng.go` | cipher, counter, buffer | `Read`, `Bool`, `Int`, `Big`, `Permutation` | masks, rejection, moduli at powers of two, block ends | in range, fair, no byte twice |
| **FlipManager: injection** `flipmanager.go` | `maybeInjectCh`, `gameMsgIDs`, `convParticipations` | `MaybeInjectFlipMessage`, `maybeInjectLoop`, `updateActiveGame` | notifications lost, reordered, dropped at a full queue | the Dealer gets each message once, in order, without gaps |
| **FlipManager: status** `flipmanager.go` | `games` (LRU of statuses), `dirtyGames`, `forceCh`, `loadGameCh` | `updateLoop`, `loadGameLoop`, delayed reports, `notificationLoop` | four writers with no common lock, shared slices, bounded channels | no change kept from the UI; a complete flip shows every listed device |
| **FlipManager: start** `flipmanager.go` | `flipConvs`, outbox ids | `StartFlip`, `IsFlipConversationCreated`, `DescribeFlipText` | the conversation is created while the host message is sent | planned (`FlipStart`) |
| **Push ordering** `push.go` | `waiters` per user and version | `WaitForTurn`, `CompleteTurn`, time-outs | a waiter registers while the awaited one completes; lost updates; deadlines | no lost wake-up, no entry left over, updates in turn |
| **Local inbox** `storage/inbox.go`, `inboxsource.go`, `sync.go` | version, conversations | `NewMessage` and the other updates, `handleVersion`, `Merge`, `Sync`, clear | several sources of versions at once; syncs that read, ask and store apart | a version is never claimed without all updates up to it |
| **Deliverer and outbox** `deliverer.go`, `storage/outbox.go` | records with state, attempts, creation time and place in the list; the copies a pass works on; `connected` | `Queue`, `deliverLoop`, `deliverForConv`, `CancelPost`, `RetryPost`, `OutboxPurge`, `Start`, `Stop` | a pass works on copies while the user cancels and retries; requests and answers are lost or late; crashes; tasks that let others pass | no message is lost, none overtakes one that holds it up, none stays in the sending state |
| **Key exchange transport** `kex2/transport.go` | sequence numbers, buffered payloads, an error per direction, `closed` | `Read`, `Write`, `Close`, `pollLoop` | the router reorders, repeats, reflects, makes up; reads cut messages anywhere; an empty message means EOF | what is read is what was written; EOF is the end; no endless wait |

The components meet as follows. A notification of a new message reaches `PushHandler`,
waits for its turn, updates the inbox, and, when the message belongs to a flip, is
queued for `maybeInjectLoop`. That loop hands it to `Dealer.Run` over `chatInputCh`;
`Dealer.Run` starts a `Game` or sends to the channel of a running one. A `Game`
answers through the Dealer: its messages are first dealt to itself and then sent to the
conversation, and its updates go through `gameUpdateCh` to `updateLoop`, which changes
the cached status and marks it for `notificationLoop`. Flips that the device has not
played are replayed by `loadGameLoop` from the whole conversation, and end up in the
same cached status. What a device sends to a conversation, a flip's messages too, goes
through the outbox and the deliverer. The key exchange is apart from chat: it connects
a new device with one that is signed in.

### Not modelled

| Component | Why |
|---|---|
| Typing, retry, purge loops | small timer loops; candidates |
| Key exchange protocol (`kex2/provisioner.go`, `provisionee.go`) | next in the plan; runs over generated RPC code |
| Gregor state and badges | a state machine of its own; candidate |
| Merkle tree | pure arithmetic on positions, with randomised tests |
| Engines, accounts, provisioning | scripts of server calls: the state is the server's |
| Teams, ephemeral keys, identities | signature chains held by the server, checked with cryptography that a model would assume |
| KBFS | a program of its own under `go/kbfs` |
| Wallet | mostly calls to Stellar servers |
| Service, RPC, command line, user interfaces | glue, generated code, presentation |

The hazards of the modelled code, each at its line and with the properties that cover
it, are in `PROJECT.json`.

## 2. Modules and their correspondence to the code

Names are the code's wherever TLA+ allows. One step of a model is the whole of a
handler, or of a handler's part between two points where another goroutine can get in
(a lock, a channel, a store). A definition whose name has an underscore and a second
part (`Timeout_Never`) is a plausible bug of the definition after it; it is used by no
specification, only to see that a property notices.

**`FlipGame`** — one game on all devices. `game[p]` has the fields of the `Game` of
device `p`; its map of `GamePlayerState` is split into `commitment`, `leaderCommitment`
and `secret`. `handleMessage`, `maybeReveal`, `setSecret`, `handleTimerEvent` and the
others are operators from a game to a *step* (the next game, the error, what it sends,
the result), as the Go methods return an error and change their receiver. The actions
are `startFlip`, `ReceiveStart`, `DealOwn` (a device's message passes its own Dealer and
then goes to the conversation, unless `SendChat` fails), `DealIncoming` (any message of
the conversation, at any time and any number of times), `TimerEvent`, `Unregister`, and
`FaultySend` for devices in `Faulty`. Secrets are the devices' names (two devices never
draw the same one), HMAC and SHA-256 are injective tags, and whether a reveal comes
after the deadline is a nondeterministic `late`. The leader is assumed to be correct:
nothing in the code keeps a leader from sending different lists, and agreement then
rests on the server's order of messages.

**`FlipDealer`** — the goroutines around the games of one device. `chan[c]` is one
channel made by `handleMessageStart`, together with the `Game` loop that reads it, the
`Dealer.run` that waits for it, and the context; a context belongs to the `Start` in whose
time the game was made, and `Cancel` ends that of the games made so far. What a message does to a game is left
open (`Handled`), since `FlipGame` has it. `lock` is kept between steps only by
`Dealer.Run`, which sends to an unbuffered channel with the lock held. `gameUpdateCh`
is its fill level. `sender` is a goroutine that brings messages and may be blocked in its
send to `chatInputCh` (`InjectIncomingChat`). A close of a closed channel or a send to
one sets `panic`.

**`FlipReplay`** — extends `FlipGame` with the conversation's order (`log`).
`runReplayLoop` runs `handleMessage` over a history (`Replayed` is one turn of its loop,
`after` a recursive function of how many messages were read), for every history that
`FlipGame` can write, also with one message missing (it failed to unbox) and with every
point at which the reveals become late by the server's clock.

**`FlipPRNG`** — the byte stream and the draws, with bytes of `W` bits and short blocks;
the cipher is an arbitrary function, so the runs go through every content of the blocks.
A step is a call, a return or one turn of a loop: `replenish` and `read` those of `Read`
(byte by byte, where the code copies all the buffer has), `Reject` and `IntRead` the loop of
`Big`, `SwapRead` that of `Permutation`. Instead of the bytes of a `Read` the state has the
number they spell, `x`.

**`FlipInject`** — one game's conversation, the notifications on their way, the queue,
the mark `gameMsgIDs`, and what has been dealt. A message may fail to unbox (`valid`).
The notification of an own message sets the mark without a look at it; the history
variable `astray` records when it moved back or over messages that were not injected.

**`FlipStatus`** — the cached status of one flip, stored and read in separate steps by
four kinds of goroutine. The participants are a Go slice: a reveal is written into the
array that every copy of the status shares, so arrays have an identity (`arr`).
`GameError` and `Refusal` are the errors the Dealer announces for a running game and for
a second START. `Select`, the filtering of a slice, is a recursive function and not
`SelectSeq`, whose definition the proof system does not expand.

**`PushOrder`** — the updates 1 to `MaxVers`, each with the goroutine of its handler
(`pc[v]`), the waiters, the inbox version, and `have`, a history variable with the
updates the inbox really contains. A sync is run by the handler that has the lock, or
by `Syncer.Connected`; it reads the version (`base[p]`), and later stores an answer that
builds on it, with updates, merges, clears and the other sync in between. `Merge` is a
read of the inbox from the server, which may be old by then. `sound` records whether an
answer that builds on an inbox cleared since, or an old read, was stored.

**`Deliverer`** — the outbox as a function from messages to records, with the place in
the list as a field, and one goroutine per conversation that works through copies
(`snap`, `pc`). Every operation of the outbox is an operator from a list to a list, as
each runs under `locks.Outbox`; the steps of a goroutine are cut where it waits or where
another may take that lock. A post is sent off (`inflight`), taken in by the server at
any later time or never (`ServerPost`), and answered or not. What the messages are comes
from `Scenarios`. `Crash` leaves the outbox only.

**`MessageLife`** — the abstract specification that `Deliverer` implements: for every
message a status, the moves it may make, and when it may be sent. There are no copies,
passes or attempts in it. "leaving" is a message that was taken out while an attempt was
under way: the attempt may still send it, or put it back. The refinement mapping is
`StatusOf`, which looks at the outbox, the copies, the posts on their way and the
server.

**`KexConn`** — the `Conn` of both devices. A byte is named by its writer and its place,
so that what is read can be compared with what was written. Writing and reading are
cut at `Post` and `Get`, where the mutex of the direction is kept but the other direction
goes on, and `Copy` is one round of the loop that fills the caller's buffer. The router
holds a set of posted messages and returns any of them, and `Junk` for all that the
checks before sender and sequence number refuse. `secretbox` is taken to be perfect.

`MCFlipGame`, `MCFlipDealer`, `MCFlipReplay`, `MCFlipPRNG`, `MCDeliverer` and `MCKexConn`
declare the model values, scenarios and symmetry sets of the runs; the other modules are
run as they are. `FlipGameProofs`, `FlipDealerProofs`, `FlipPRNGProofs`,
`FlipInjectProofs`, `FlipStatusProofs`, `PushOrderProofs`, `DelivererProofs` and
`KexConnProofs` hold the theorems.

## 3. Runs

| Run | Instance | Shows |
|---|---|---|
| `flip` | a leader whose `SendChat` may fail, a follower, and a device that sends up to 3 arbitrary messages | `TypeOK`, `Agreement`, `OutcomeIsCommitted`, `CommitBeforeReveal`, `RevealAccounting`, `RevealersHaveCommitted` |
| `replay` | two correct devices, fair | `GameEnds`, `RoundTwoIsFrozen`, and `ReplayCompletes` for every history they write and every point from which the server's times are late |
| `replay_faulty` | a correct leader and a faulty device; one message may be missing from the history | `ReplayAgrees` |
| `dealer` | 2 game ids, 2 channels, capacity 1, started twice, fair | `NoPanic`, `RegisteredAreRead`, `CleansItsOwn`, `TypeOK`, `StopCompletes`, `InjectReturns` |
| `inject` | 5 messages of the device and others, queue of 2, notifications in any order | `DealtInOrder`, `NoGap` |
| `status` | 2 devices, `gameUpdateCh` of 2, one load that may fail, a refused START | `UIIsCurrent`, `ParticipantsOnce`, `CompleteShowsAll` |
| `push` | 3 updates, two syncs at a time, fair | `EntriesAreWaitedFor`, `InTurn`, `InboxIsComplete`, `TypeOK`, `EveryUpdateIsHandled` |
| `deliver` | 2 messages in 4 combinations of kinds and conversations, one attempt before the last, one retry, stop or crash, fair | `NothingLost`, `InOrder`, `TypeOK`, `SendingEnds`, and `ImplementsLife`: the refinement of `MessageLife` |
| `kex_conn` | 2 writes of 1 or 2 bytes and a close one way, a close the other way, reads of 0 to 2 bytes, batches of 2, fair | `StreamIsIntact`, `EOFIsTheEnd`, `FirstErrorStays`, `NoStall`, `TypeOK` |
| `prng` | 2-bit bytes, two blocks of two, all contents | `InRange`, `NoByteTwice`, `NumbersAreFair`, `ShufflesAreFair` |

**Bounds.** Three devices are the least with a leader, a device that is listed and one
that is not, or that lies; three messages let a faulty device commit, contradict itself
and reveal. Two Dealer starts, two game ids and two channels let a game of the second
life meet the leftovers of the first: a game blocked in an update, which keeps its id, a
`Dealer.run` that has yet to clean up, or a `runDrain` under the id that is used again;
a third start repeats the second. A `gameUpdateCh` of one is
full as soon as one update waits; an injection queue of two fills with one message
still to come. Five messages give a START, a gap of two, the message that
shows the gap and one after it. One load is a replay, or a delayed error, against the
live game; a second one (which would also fill `forceCh` and `loadGameCh`, both only
hints to look at the cache) goes beyond what TLC does in a few minutes. Three updates
let one wait for two others of which one is lost and one is late. Two messages give
one that holds up, passes or cancels the other; `deliverMaxAttempts` of one makes an
attempt fail, be repeated and be the last; with one upset a retry, a stop or a crash
meets every state of a pass. Two writes of two bytes with reads of one and two are cut
inside, at and across the ends of messages, and a batch of two brings data with the EOF,
or a good message with a bad one. Two bits and blocks of two make draws end before, at
and after the end of a block. The proofs remove the bounds for the modules they
cover.

**Deadlock checking** is off except in `kex_conn`: the other systems may rightly come to
rest (the game is over, the Dealer stopped, all updates handled, the outbox empty), while
a connection can always be closed. `GameEnds`, `StopCompletes`, `InjectReturns`,
`EveryUpdateIsHandled`, `SendingEnds` and `NoStall` say that nobody is left waiting.

**Fairness.** A goroutine that can go on does so (weak fairness). Where it competes for a
mutex or for a channel operation in a `select`, strong fairness is assumed: Go's mutex
hands over to a starved waiter, and `select` chooses at random. In `FlipGame` only
timers and the unregistering of a finished game are fair, since these come from the
local clock and scheduler; no message need ever arrive. In `PushOrder` no push need
arrive. In `Deliverer` the loop (which has a timer) and the goroutines run on, threads do
not race to reconnect for ever (`ErrDuplicateConnection`, which the code does not count as
an attempt), and an upload, unfurl or flip does not run for ever; no post need arrive and
no answer come. In `KexConn` somebody always reads (the packet loop of the RPC library),
and the router does not only answer with nothing; what it answers is up to it. Nothing is
assumed of callers of `Start` and `Stop`, of the UI, or of the network.

`StopCompletes` and `InjectReturns` are qualified: after `Stop`, `updateLoop` no longer reads `gameUpdateCh`. When that channel (capacity 500 in the code) is full for ever, a
game blocks in the middle of a handler, and whoever waits for it waits too. In every
other case the lock is released and `Stop` ends. A sender on `chatInputCh` also waits
while no `Dealer.Run` is there, until the next `Start`.

## 4. Where code and comments disagree

Two of these are runs that TLC refutes, with a finding in `PROJECT.json`.

- `replay_latecomer`: the `Game` of a replay has no `latecomers` map, and a list that names
  a commitment missing from the history makes it write into a nil map.
- `deliver_reactions`: reactions are toggles, and of those waiting in the outbox an even
  number is to be dropped (`deliverer.go:584`). A pass has copies of r1 and r2; r1 cancels
  r2, r3 is queued, and r1 removes itself. The copy of r2, handled next, cancels r3 before
  it looks whether r2 is still there, and then sends nothing: three toggles are gone.
  `DroppedCancelOut` speaks only of reactions of which the user cancelled or purged none, so
  this is the trace TLC finds. (Without that condition two reactions are enough: the user
  cancels the first during the pass, and its copy takes the second away.)

Others are part of the models, and the properties are stated up to them:

- `stopGames` leaves `gameIDs` behind, so that `HasActiveGames` is true after `Stop` although
  no game exists. It is what keeps `CleansItsOwn` true: no later game takes the key.
- The notification of an own message sets the mark of `FlipInject` over messages that were
  never injected, or back (`flipmanager.go:1248`); from then on `astray` is true.
- An old read of the inbox, or a sync's answer that builds on an inbox cleared since, brings
  old contents under a newer version (`inbox.go:526`, `1666`); from then on `sound` is false.
- A message cancelled during a failing attempt comes back to the outbox
  (`outbox.go:297`): "leaving" in `MessageLife`.

`FlipStatus` contains one more race: the delayed report of a failed replay checks the
phase (`flipmanager.go:1347`, "any other phase we will send nothing"), and stores its
error some steps later, over a game that may have come to life in between.
`CompleteShowsAll` is stated up to that moment.

## 5. Proofs

**`FlipGameProofs`**, for any finite set of devices, any subset of them faulty (the
leader not among them), any number of faulty messages. Assumptions: those of
`FlipGame`, of which the one that carries weight is that commitments and hashes are
injective and that no two devices draw the same secret.

The invariant is `Inv == LocalInv /\ Listing /\ Disclosure`.

- `LocalInv` is about one device: types, that `nPlayers` is the number of included
  devices without a secret, and that in round two the commitments of the included
  devices are those on the list. It gives `TypeOK`, `RevealAccounting` and
  `RevealersHaveCommitted`. The handlers have a lemma each about the step they return;
  actions then only need `ApplyLocal`.
- `Listing` says that there is at most one list: before the leader has completed the
  commitments nothing that follows from a list exists anywhere; afterwards there is one
  `L` to which every list, every device in round two and every result is bound. Two
  results are equal since they open the same injective commitments; without the
  single `L` the induction has nothing to compare two devices by. It gives
  `OutcomeIsCommitted` and `Agreement`.
- `Disclosure` says that a commitment a device has recorded for another is in the
  conversation, and that a reveal of a correct device, waiting or sent, was made for a
  list whose commitments it had. It gives `CommitBeforeReveal`.

`RoundTwoIsFrozen` is proved as an action property from `LocalInv`.

`ReplayAgrees` is proved there too, for histories of any length. The replayed `Game` has no
device and so none of the invariants above; it has one of its own, `ReplayInv(g, L)`: it
plays by no list yet or by the `L` of `Listing`, and then it has the commitments of all
listed devices, since it panics where another game would wait for one, and secrets that
open them. `ReplayMessageOK` takes it through the handlers, `RunExists` and `ReplayLoopOK`
through the loop, by induction over the history (see below). What it ends with
opens the same commitments as what a device announced (`FitsOnce`). It does not use the
order of the history, and of its contents only that they are in the conversation (`Logged`).

`ReplayCompletes` is the converse: the outcome that a device announced is what a replay
shows. It is proved for any number of devices under `Reliable`, that all of them run this
code (`Faulty = {}`) and no message is lost on its way to the conversation (`Lossy = {}`).
Both are needed. A faulty device can reveal twice or for another list, and the replay then
fails where a device that heard the messages in another order had finished before; and if
the commitment of a listed device is missing, the replay panics (`replay_latecomer`).

Clocks matter too. A live `Game` takes the time for its reveals from its own receipt of the
START and its own clock (`dealer.go:727`); a replay takes both the start and the messages'
times from the server (`replay.go:64`, `83`). A reveal that a device accepted can therefore
be late for the replay (`dealer.go:515`). The theorem holds for every `cut`, the place in the
conversation from which the server's times are past the deadline: the replay shows the
outcome if no reveal of a listed device is after the cut (`TooLate`), and otherwise it fails
with `RevealTooLate`, never with a panic, another error or another outcome. What is assumed of
clocks is that the server's time for the START is within `MaxClockSkew` of `StartTime`;
otherwise `replay` refuses the history at its first message (`replay.go:56`).

The order of the conversation matters here, so the invariant has two more parts.

- `Honesty` says what correct devices write: `Honest(m, C)` what a message in the
  conversation says and that those it follows from are in `C` already (a list only has
  commitments that are there, a reveal is for the one list and opens the sender's
  commitment), `Learnt(g, C)` that a `Game` knows nothing that is not in the conversation,
  and that a result is there only when all listed devices have revealed (`Complete`).
- `ReplayFollows` says what the replay of `log` has come to: `Follows(acc, C)`. Before the
  list it has the commitments of exactly the devices whose commitment is in `C`
  (`Collecting`); afterwards it has the list and the secrets of exactly those that have
  revealed in `C` (`Playing`), and the outcome if these are all (`Announced`). So it is up to
  the first reveal of a listed device that is late, where the loop stops (`FollowsUpTo`, for
  every cut).

`Follows` is carried by `LoopAppend`, that the replay of a longer log is one more turn
after the replay of the log, and `FollowsMessage`, that this turn follows an honest
message. A late reveal of a listed device ends the loop (`LateFails`), and to no other
message does it matter whether it is late (`LateIsNoMatter`). Once all listed devices have revealed nothing takes the outcome away.

**`FlipPRNGProofs`**, for bytes and blocks of any length, any contents of the blocks, and
any moduli and sizes. `Inv` has the types, that the number under way is a number and the
array of `Permutation` a permutation at every turn, and `NoByteTwice`, which is inductive
by itself. `InRange` follows, since `Big` returns only what is below the modulus.

- `NumbersAreFair`: the mask is a power of two `p` not below the modulus (`CandidateOK`), the
  numbers that the bytes read can spell are those below a multiple of `p` (`NumBytes` rounds
  up), and of these equally many leave each remainder (`Remainders`). What the prover has to
  know of powers of two it takes from the numbers of subsets (`PowerIsSubsets`,
  `PowerDoubles`, `PowerOfSum`).
- `ShufflesAreFair`: `Run` is the loop of `Permutation` turn by turn. The places it has passed
  stay (`PlacesStay`), so a permutation can be reached by choosing each draw for its place
  (`DrawsExist`), and there is no other choice (`ShuffleOneToOne`), as a permutation has
  each value in one place.

**`FlipDealerProofs`**, for any number of games, channels and starts. `Inv` joins `TypeOK`
and `NoPanic` with `Loops` (how far a game's loop is and how far the `Dealer.run` that
waits for it go together, and as long as that has to clean up its id is in `gameIDs`),
`Unique` (so there is at most one such `Dealer.run` for an id), `Registered` (a channel in
the map is open and has its `Dealer.run`) and `Sending` (the send to a channel is made with
the lock held and the channel in the map, so nobody can close it). `NoPanic` rests on all of
them: `stopGames` and `Dealer.run` both close, and it is the map that tells them apart.
`CleansItsOwn` follows from `Registered` and `Unique`: a channel in the map under the
same id has a `Dealer.run` too, and there are not two.

**`FlipInjectProofs`**, for conversations and queues of any length. `Inv` has
`InConversation` (types), `UpToMark` (what was dealt is ascending and ends at the mark) and
`Complete` (everything up to the mark that is to be injected has been dealt). Neither
property is inductive without the mark: `updateActiveGame` compares a message with the
mark, not with what was dealt. That the gap it makes up for is filled completely and in
order rests on `AscendingOK`.

**`FlipStatusProofs`**, for any finite set of devices, any number of loads and refusals, and
channels of any capacity. `Inv` joins the types with

- `Queue`: in `gameUpdateCh` a device's commitment is there once, and the list, the reveals
  and the result come in this order; what was revealed is still to come as long as the list
  is;
- `Slots` and `InUse`: a load makes one array or one delayed goroutine at most, and no
  status has an array that is not yet made, so that a new array is nobody's;
- `Members`: the participants of a status in the first phase are devices whose
  commitments have been taken from the queue; this is why `addParticipant` need not look;
- `Shown`: a complete status shows all, and the status that the next update builds on
  (`Current`: the one `updateLoop` is about to store, or the one in the cache) has, once the
  list was taken, the listed devices and every secret taken from the queue, whoever wrote
  it last. Without this the step to COMPLETE has nothing to rely on;
- `Told`: a change is marked, about to be marked, or on its way to the UI.

`UIIsCurrent` follows from `Told`, `ParticipantsOnce` from `Members`, `CompleteShowsAll` from
`Shown`. What `finalizeParticipants` makes of the participants is `FinalizeOK`, which rests on
`SelectOK` (`Select(s, T)` has the elements of `s` that are in `T`, all of them, in the order
of `s`) and on the pigeonhole principle of the library (`SetToSeqOK`). The bound
`MaxLoads` is any number. `None`, which stands for nil, is assumed to be no status.

**`PushOrderProofs`**, for any number of updates. `Inv` joins `TypeOK`,
`EntriesAreWaitedFor`, `InTurn` and `InboxIsComplete` with `Fresh` and `Sent` (an update
not yet pushed or still on the wire has no handler, so that "done" stays done) and
`Progress` (what a waiter no longer waits for is done). `InTurn` alone is not inductive:
it speaks of updates that hold the lock, and `Progress` carries it from registration to
the lock. `InboxIsComplete` needs `handleVersion` and, between the steps of a sync, that a
base that is still `held` is not above the version (`Held`); it does not need the
ordering. The order spares the client syncs, the version check keeps the inbox right.

**`DelivererProofs`**, for any number of messages, conversations, attempts, retries and
crashes. `Inv` joins `TypeOK` and `NothingLost` with `Born` (only queued messages have
records, copies or posts), `Counted` (a copy has seen at least as many attempts as the
record, so that no record is counted beyond `deliverMaxAttempts`), `Timed` and `Ordered`
(a message never retried has its times and places, in the outbox as in the copies,
before those of all queued after it, sorted or not), `Ahead` (a goroutine with a copy of a
message also has those that hold it up, unless they need not be sent any more) and
`Behind` (what holds up a message on its way or at the server is itself at the server, or
neither waiting nor copied). `InOrder` follows from `Behind`; it is not inductive, since it
does not say what the copies and the posts on their way may do later. All steps of a
goroutine have in common what `Kept` says, and `KeptInv` shows once that this is enough.
`ImplementsLifeHolds` is the
refinement: `Init` maps to `Init`, and each action to a step of `MessageLife` or a stutter.

**`KexConnProofs`**, for writes, reads and batches of any number and size. The invariant
`IInv` has `Pieces` (the posted messages of a device cut what it wrote into consecutive
pieces by sequence number, and an empty one is the last) and, for each reader, `Placed`
and `Buffered` (what was read, what is buffered and what comes with the next sequence
number join without gap or overlap), `InOrder`, `Ended` (EOF is only found where the
stream ends) and `Quiet` (no Read or Post is under way in a direction that has its
error). `StreamIsIntact` alone says nothing of the buffer, from which the next bytes
come.

**Induction.** The library's induction theorems take an operator as a parameter, which the
provers cannot instantiate. Where something is shown for all lengths (`SelectOK`,
`LoopRuns`, `PowerOfSum`, `DrawsExist` and others), the set of numbers for which it fails is
a set of natural numbers, and if it is not empty it has a least member (`LeastNumber`, from
the well-foundedness of the natural numbers), which leads to a contradiction.

**Only model-checked**: liveness (`GameEnds`, `StopCompletes`,
`InjectReturns`, `EveryUpdateIsHandled`, `SendingEnds`, `NoStall`), which is beyond the
prover. Every invariant and every action property that a passing run checks is also proved.

## 6. Left out of the models

Texts, images, logging and encodings; participants' names; the metrics. In `FlipGame`,
clocks: a deadline passes at any time, and a reveal is late or not by choice. A restart
of a device in the middle of a game. In `FlipStatus`, eviction from the cache.
In `PushOrder`, the contents of the inbox and more than one user. In `Deliverer`, the
wake-up channels (a pass may start at any time, by the timer), `kbfsDeliverLoop`,
ordinals, errors of the disk, and the retries within one `Send` after the server refused a
post; creation times there increase with every message, while the code has wall-clock
milliseconds and an unstable sort (`outbox.go:183`), so that a clock that is set back, or two
messages in one millisecond, could change places when a record is put back: `InOrder` is
about clocks that do not do this. In `PushOrder`, also the updates with version 0 that a
device sends to itself (`inbox.go:754`), which leave the version alone. In `KexConn`, clocks, cryptography, and the return values of `Write`.

## 7. Plan

1. More of the model: the key exchange protocol over the transport (time-outs against late
   calls, channels closed from two sides); a restart in `FlipGame`; `FlipStart`; the
   typing, retry and purge loops.
2. Abstract specifications: a coin flip in which all devices learn one outcome fixed
   before anybody discloses a secret, refined by `FlipGame`; an inbox that takes updates
   one by one, refined by `PushOrder`.
