------------------------------ MODULE FlipGame ------------------------------
(***************************************************************************)
(* The commit-reveal coin flip of go/chat/flip: one game, played by the    *)
(* devices Players over a chat conversation.  Every device runs a Game     *)
(* (dealer.go) behind a Dealer.  A message a device sends is first         *)
(* reinjected into its own Dealer, which hands it to the local Game and    *)
(* then forwards it to the conversation; the other devices receive it from *)
(* the conversation, in any order, late, never, or more than once.         *)
(*                                                                         *)
(* One step of Next is one pass of the Dealer's loop or one timer event,   *)
(* with the whole of the Game handler that it triggers.                    *)
(***************************************************************************)
EXTENDS Naturals, FiniteSets

CONSTANTS
  Players,    \* the user devices of the conversation (UserDevice)
  Initiator,  \* the device that starts the game, its leader
  Faulty,     \* devices that do not run this code as it is: their messages
              \* are not bound by it
  FaultyBound,\* how many messages a faulty device may send
  Lossy,      \* devices whose SendChat may fail
  Secrets,    \* 32-byte strings
  None        \* nil

ASSUME PlayersAssumption == IsFiniteSet(Players)
ASSUME InitiatorAssumption == Initiator \in Players \ Faulty
ASSUME FaultyAssumption == Faulty \subseteq Players
ASSUME FaultyBoundAssumption == FaultyBound \in Nat
ASSUME LossyAssumption == Lossy \subseteq Players
(* A device draws its secret at random (GenerateSecret), so no two devices *)
(* draw the same one: the secret that device p draws is named p.           *)
ASSUME SecretsAssumption == Players \subseteq Secrets

Correct == Players \ Faulty

VARIABLES
  status,  \* status[p]: no game yet; game loop running; loop returned but the
           \* channel still registered with the Dealer; unregistered
  game,    \* game[p]: the fields of p's Game
  sends,   \* sends[p]: messages of p waiting to enter p's own Dealer
  chat,    \* the messages of the conversation
  result,  \* result[p]: the outcome p has announced on its update channel
  err      \* err[p]: what the game loop of p returned, until Dealer.run is done

vars == <<status, game, sends, chat, result, err>>

-----------------------------------------------------------------------------
(* Secrets, commitments and messages.                                      *)

(* HMAC of the game's metadata under the secret: injective, and it shows   *)
(* nothing of the secret.                                                  *)
computeCommitment(s) == <<"hmac", s>>
Commitment == {computeCommitment(s) : s \in Secrets}

(* The list of a CommitmentComplete, as the function that gives the        *)
(* commitment of each listed device and None for the others.               *)
CommitmentList == [Players -> Commitment \cup {None}]
Listed(list) == {q \in Players : list[q] # None}

(* hashUserDeviceCommitments sorts before it hashes.                       *)
hashUserDeviceCommitments(list) == <<"sha256", list>>
Hash == {hashUserDeviceCommitments(list) : list \in CommitmentList}

(* The secrets behind an outcome; None for the devices not in the game.    *)
Outcomes == [Players -> Secrets \cup {None}]

(* nil is none of the values it stands in for.                             *)
ASSUME NoneAssumption ==
  None \notin Players \cup Secrets \cup Commitment \cup Hash \cup Outcomes

Msg(t, sender, body) == [type |-> t, sender |-> sender, body |-> body]
StartMsg == Msg("START", Initiator, [start |-> None])
EndMsg(p) == Msg("END", p, [end |-> None])
CommitmentMsg(p, com) == Msg("COMMITMENT", p, [commitment |-> com])
(* order: whether the devices of the list are strictly increasing.         *)
Order == {"sorted", "unsorted"}
CommitmentCompleteMsg(p, list, order) ==
  Msg("COMMITMENT_COMPLETE", p, [players |-> list, order |-> order])
RevealMsg(p, s, cch) == Msg("REVEAL", p, [secret |-> s, cch |-> cch])

isForwardable(m) == m.type # "END"

-----------------------------------------------------------------------------
(* A Game and the handlers of its messages.  A handler gives the Game it   *)
(* leaves, the error it returns ("ok" for nil), the messages it sends, and *)
(* the outcome it announces.  An error ends the game, so the fields it     *)
(* leaves behind are never read.                                           *)

NewGame(me, optedOut) ==
  [ me                     |-> me,
    stage                  |-> "ROUND1",
    stageForTimeout        |-> "ROUND1",
    commitment             |-> [q \in Players |-> None],
    leaderCommitment       |-> [q \in Players |-> None],
    secret                 |-> [q \in Players |-> None],
    nPlayers               |-> 0,
    latecomers             |-> {},
    commitmentCompleteHash |-> None,
    gotCommitmentComplete  |-> FALSE,
    iOptedOutOfCommit      |-> optedOut ]

(* GamePlayerState.included is set together with leaderCommitment.         *)
Included(g) == Listed(g.leaderCommitment)

Step(g, e, out) == [game |-> g, err |-> e, sends |-> out, result |-> None]
Ok(g) == Step(g, "ok", {})
Fail(g, e) == Step(g, e, {})

(* Mutant of maybeReveal: it does not wait for the latecomers.             *)
maybeReveal_Hasty(g) ==
  IF ~g.gotCommitmentComplete
  THEN Ok(g)
  ELSE Step([g EXCEPT !.stage = "ROUND2", !.stageForTimeout = "ROUND2"],
            "ok",
            IF g.me # None /\ g.me \in Included(g)
            THEN {RevealMsg(g.me, g.me, g.commitmentCompleteHash)}
            ELSE {})

(* Nothing happens until the CommitmentComplete and every commitment it    *)
(* lists have arrived.                                                     *)
maybeReveal(g) ==
  IF ~g.gotCommitmentComplete \/ g.latecomers # {}
  THEN Ok(g)
  ELSE Step([g EXCEPT !.stage = "ROUND2", !.stageForTimeout = "ROUND2"],
            "ok",
            IF g.me # None /\ (g.me \in Included(g) \/ g.iOptedOutOfCommit)
            THEN {RevealMsg(g.me, g.me, g.commitmentCompleteHash)}
            ELSE {})

(* Mutant of handleCommitment: a latecomer is not held to the leader's     *)
(* list.                                                                   *)
handleCommitment_NoMismatch(g, sender, com) ==
  IF g.commitment[sender] # None
  THEN Fail(g, "DuplicateRegistration")
  ELSE IF \E q \in Players : g.commitment[q] = com
  THEN Fail(g, "DuplicateCommitment")
  ELSE maybeReveal([g EXCEPT !.commitment[sender] = com,
                             !.latecomers = @ \ {sender}])

handleCommitment(g, sender, com) ==
  IF g.commitment[sender] # None
  THEN Fail(g, "DuplicateRegistration")
  ELSE IF g.leaderCommitment[sender] \notin {None, com}
  THEN Fail(g, "CommitmentMismatch")
  ELSE IF \E q \in Players : g.commitment[q] = com
  THEN Fail(g, "DuplicateCommitment")
  ELSE maybeReveal([g EXCEPT !.commitment[sender] = com,
                             !.latecomers = @ \ {sender}])

(* Of the errors that several devices of one list may cause, the code      *)
(* reports the one of the first device.                                    *)
handleCommitmentComplete(g, sender, cc) ==
  LET listed == Listed(cc.players) IN
  IF sender # Initiator
  THEN Fail(g, "WrongSender")
  ELSE IF cc.order # "sorted"
  THEN Fail(g, "CommitmentCompleteSort")
  ELSE IF listed \cap Included(g) # {}
  THEN Fail(g, "DuplicateCommitmentComplete")
  ELSE IF \E q \in listed : g.commitment[q] \notin {None, cc.players[q]}
  THEN Fail(g, "CommitmentMismatch")
  ELSE maybeReveal(
         [g EXCEPT
           !.leaderCommitment =
              [q \in Players |-> IF q \in listed THEN cc.players[q] ELSE @[q]],
           !.latecomers = @ \cup {q \in listed : g.commitment[q] = None},
           !.nPlayers = @ + Cardinality(listed),
           !.commitmentCompleteHash = hashUserDeviceCommitments(cc.players),
           !.gotCommitmentComplete = TRUE])

(* The outcome is drawn from the XOR of the secrets of the included        *)
(* devices; it is represented by those secrets.                            *)
Outcome(g) == [q \in Players |-> IF q \in Included(g) THEN g.secret[q] ELSE None]

finishGame(g) ==
  IF \E q \in Included(g) : g.secret[q] = None
  THEN Fail(g, "NoReveal")
  ELSE [Step(g, "ok", {EndMsg(g.me)}) EXCEPT !.result = Outcome(g)]

(* Mutants of setSecret: a second reveal counts again; a reveal is not     *)
(* held to its commitment.                                                 *)
setSecret_Twice(g, sender, s) ==
  IF computeCommitment(s) # g.commitment[sender]
  THEN Fail(g, "BadReveal")
  ELSE LET h == [g EXCEPT !.secret[sender] = s, !.nPlayers = @ - 1] IN
       IF h.nPlayers = 0 THEN finishGame(h) ELSE Ok(h)
setSecret_Unchecked(g, sender, s) ==
  IF g.secret[sender] # None
  THEN Fail(g, "DuplicateReveal")
  ELSE LET h == [g EXCEPT !.secret[sender] = s, !.nPlayers = @ - 1] IN
       IF h.nPlayers = 0 THEN finishGame(h) ELSE Ok(h)

setSecret(g, sender, s) ==
  IF g.secret[sender] # None
  THEN Fail(g, "DuplicateReveal")
  ELSE IF computeCommitment(s) # g.commitment[sender]
  THEN Fail(g, "BadReveal")
  ELSE LET h == [g EXCEPT !.secret[sender] = s, !.nPlayers = @ - 1] IN
       IF h.nPlayers = 0 THEN finishGame(h) ELSE Ok(h)

(* Mutant of handleReveal: a device that was left out must not reveal.     *)
handleReveal_Strict(g, sender, reveal, late) ==
  IF sender \notin Included(g)
  THEN Fail(g, "BadReveal")
  ELSE IF late
  THEN Fail(g, "RevealTooLate")
  ELSE IF g.commitmentCompleteHash # reveal.cch
  THEN Fail(g, "BadCommitmentCompleteHash")
  ELSE setSecret(g, sender, reveal.secret)

(* The secret of a device that was left out is skipped.                    *)
handleReveal(g, sender, reveal, late) ==
  IF sender \notin Included(g)
  THEN Ok(g)
  ELSE IF late
  THEN Fail(g, "RevealTooLate")
  ELSE IF g.commitmentCompleteHash # reveal.cch
  THEN Fail(g, "BadCommitmentCompleteHash")
  ELSE setSecret(g, sender, reveal.secret)

(* Mutant of handleMessage: a commitment is taken in either round.         *)
handleMessage_AnyRound(g, m, late) ==
  CASE m.type = "START" -> Fail(g, "BadMessageForStage")
    [] m.type = "END" -> Fail(g, "EOF")
    [] m.type = "COMMITMENT" -> handleCommitment(g, m.sender, m.body.commitment)
    [] m.type = "COMMITMENT_COMPLETE" ->
         IF g.stage # "ROUND1" THEN Fail(g, "BadMessageForStage")
         ELSE handleCommitmentComplete(g, m.sender, m.body)
    [] m.type = "REVEAL" ->
         IF g.stage # "ROUND2" THEN Fail(g, "BadMessageForStage")
         ELSE handleReveal(g, m.sender, m.body, late)

(* late: the clock is past RevealEndTime when the message is handled, a    *)
(* matter for a REVEAL only.                                               *)
handleMessage(g, m, late) ==
  CASE m.type = "START" -> Fail(g, "BadMessageForStage")
    [] m.type = "END" -> Fail(g, "EOF")
    [] m.type = "COMMITMENT" ->
         IF g.stage # "ROUND1" THEN Ok(g)
         ELSE handleCommitment(g, m.sender, m.body.commitment)
    [] m.type = "COMMITMENT_COMPLETE" ->
         IF g.stage # "ROUND1" THEN Fail(g, "BadMessageForStage")
         ELSE handleCommitmentComplete(g, m.sender, m.body)
    [] m.type = "REVEAL" ->
         IF g.stage # "ROUND2" THEN Fail(g, "BadMessageForStage")
         ELSE handleReveal(g, m.sender, m.body, late)

(* Mutant of completeCommitments: the leader's deadline stays the old one. *)
completeCommitments_OldDeadline(g) ==
  Step(g, "ok", {CommitmentCompleteMsg(g.me, g.commitment, "sorted")})

(* The leader's commitment window closes: it lists every commitment it has *)
(* seen, sorted.  Any other deadline ends the game.                        *)
completeCommitments(g) ==
  Step([g EXCEPT !.stageForTimeout = "ROUND2"], "ok",
       {CommitmentCompleteMsg(g.me, g.commitment, "sorted")})

absentees(g) == {q \in Included(g) : g.secret[q] = None}

handleTimerEvent(g) ==
  IF g.me = Initiator /\ g.stageForTimeout = "ROUND1"
  THEN completeCommitments(g)
  ELSE IF g.stageForTimeout = "ROUND2" /\ absentees(g) # {}
  THEN Fail(g, "Absentees")
  ELSE Fail(g, "Timeout")

-----------------------------------------------------------------------------
(* The devices.                                                            *)

Init ==
  /\ status = [p \in Players |-> "none"]
  /\ game   = [p \in Players |-> NewGame(p, FALSE)]
  /\ sends  = [p \in Players |-> {}]
  /\ chat   = {}
  /\ result = [p \in Players |-> None]
  /\ err    = [p \in Players |-> "ok"]

(* What one turn of runMain's loop makes of a handler's answer: an error   *)
(* ends the loop, and the Game's fields are never read again.              *)
Apply(p, step) ==
  /\ game' = [game EXCEPT ![p] =
                IF step.err = "ok" THEN step.game ELSE NewGame(p, FALSE)]
  /\ err' = [err EXCEPT ![p] = step.err]
  /\ status' = [status EXCEPT ![p] = IF step.err = "ok" THEN @ ELSE "drain"]
  /\ result' = [result EXCEPT ![p] =
                  IF step.result # None THEN step.result ELSE @]

(* What the Dealer does with a message for the game: the loop handles it,  *)
(* runDrain swallows it, or there is no such game (GameFinishedError).     *)
HandToGame(p, m, late) ==
  \/ /\ status[p] = "run"
     /\ LET step == handleMessage(game[p], m, late) IN
        /\ Apply(p, step)
        /\ sends' = [sends EXCEPT ![p] = (@ \ {m}) \cup step.sends]
  \/ /\ status[p] # "run"
     /\ sends' = [sends EXCEPT ![p] = @ \ {m}]
     /\ UNCHANGED <<status, game, result, err>>

(* If SendChat fails the message stays local.                              *)
SendChat(m) ==
  \/ chat' = chat \cup {m}
  \/ m.sender \in Lossy /\ UNCHANGED chat

(* handleMessageStart: the Game is registered and its loop started.        *)
RegisterGame(p, optedOut) ==
  /\ status[p] = "none"
  /\ status' = [status EXCEPT ![p] = "run"]
  /\ game' = [game EXCEPT ![p] = NewGame(p, optedOut)]
  /\ sends' = [sends EXCEPT ![p] =
                 IF optedOut THEN @
                 ELSE @ \cup {CommitmentMsg(p, computeCommitment(p))}]
  /\ UNCHANGED <<result, err>>

(* The START is refused because a clock is more than MaxClockSkew away     *)
(* from the server's.  It is not forwarded.                                *)
RefuseStart(p) ==
  /\ status[p] = "none"
  /\ status' = [status EXCEPT ![p] = "gone"]
  /\ UNCHANGED <<game, sends, result, err>>

startFlip ==
  \/ RegisterGame(Initiator, FALSE) /\ SendChat(StartMsg)
  \/ RefuseStart(Initiator) /\ UNCHANGED chat

(* A follower receives the START: it may opt out of committing.            *)
ReceiveStart(p) ==
  /\ StartMsg \in chat
  /\ \/ \E optedOut \in BOOLEAN : RegisterGame(p, optedOut)
     \/ RefuseStart(p)
  /\ UNCHANGED chat

(* A message of p enters p's own Dealer: to the local Game first, then,    *)
(* unless no game is registered, to the conversation.                      *)
DealOwn(p) ==
  \E m \in sends[p], late \in BOOLEAN :
    /\ late => m.type = "REVEAL"
    /\ HandToGame(p, m, late)
    /\ IF status[p] \in {"run", "drain"} /\ isForwardable(m)
       THEN SendChat(m)
       ELSE UNCHANGED chat

(* A message of the conversation enters p's Dealer.  One that overtakes    *)
(* the START, or comes when the game is over, changes nothing.             *)
DealIncoming(p) ==
  \E m \in chat \ {StartMsg}, late \in BOOLEAN :
    /\ m.sender # p
    /\ status[p] = "run"
    /\ late => m.type = "REVEAL"
    /\ HandToGame(p, m, late)
    /\ UNCHANGED chat

(* The deadline of stageForTimeout has passed.                             *)
TimerEvent(p) ==
  /\ status[p] = "run"
  /\ LET step == handleTimerEvent(game[p]) IN
     /\ Apply(p, step)
     /\ sends' = [sends EXCEPT ![p] = @ \cup step.sends]
  /\ UNCHANGED chat

(* Dealer.run unregisters a game whose loop has returned.                  *)
Unregister(p) ==
  /\ status[p] = "drain"
  /\ status' = [status EXCEPT ![p] = "gone"]
  /\ err' = [err EXCEPT ![p] = "ok"]
  /\ UNCHANGED <<game, sends, chat, result>>

(* A faulty device commits to anything, reveals anything and closes the    *)
(* commitments unasked.  The sender is its own: the server stamps it.      *)
FaultyMessages(f) ==
  {CommitmentMsg(f, com) : com \in Commitment}
    \cup {RevealMsg(f, s, cch) : s \in Secrets,
            cch \in {hashUserDeviceCommitments(m.body.players) :
                       m \in {n \in chat : n.type = "COMMITMENT_COMPLETE"}}}
    \cup {CommitmentCompleteMsg(f, [q \in Players |-> None], order) :
            order \in Order}

FaultySend(f) ==
  /\ Cardinality({m \in chat : m.sender = f}) < FaultyBound
  /\ \E m \in FaultyMessages(f) : chat' = chat \cup {m}
  /\ UNCHANGED <<status, game, sends, result, err>>

Next ==
  \/ startFlip
  \/ \E p \in Correct \ {Initiator} : ReceiveStart(p)
  \/ \E p \in Correct : DealOwn(p)
  \/ \E p \in Correct : DealIncoming(p)
  \/ \E p \in Correct : TimerEvent(p)
  \/ \E p \in Correct : Unregister(p)
  \/ \E f \in Faulty : FaultySend(f)

(* A deadline always passes, and Dealer.run always gets to unregister a    *)
(* game; nothing promises that a message is ever sent or delivered.        *)
Fairness == \A p \in Correct : WF_vars(TimerEvent(p)) /\ WF_vars(Unregister(p))

Spec == Init /\ [][Next]_vars
FairSpec == Spec /\ Fairness

-----------------------------------------------------------------------------
(* Properties.                                                             *)

Stage == {"ROUND1", "ROUND2"}
Game ==
  [ me : Players,
    stage : Stage,
    stageForTimeout : Stage,
    commitment : CommitmentList,
    leaderCommitment : CommitmentList,
    secret : Outcomes,
    nPlayers : Nat,
    latecomers : SUBSET Players,
    commitmentCompleteHash : Hash \cup {None},
    gotCommitmentComplete : BOOLEAN,
    iOptedOutOfCommit : BOOLEAN ]

Message ==
  {StartMsg}
    \cup {EndMsg(p) : p \in Players}
    \cup {CommitmentMsg(p, com) : p \in Players, com \in Commitment}
    \cup {CommitmentCompleteMsg(p, list, order) :
            p \in Players, list \in CommitmentList, order \in Order}
    \cup {RevealMsg(p, s, cch) : p \in Players, s \in Secrets, cch \in Hash}

Error ==
  {"ok", "EOF", "BadMessageForStage", "DuplicateRegistration",
   "CommitmentMismatch", "DuplicateCommitment", "WrongSender",
   "CommitmentCompleteSort", "DuplicateCommitmentComplete", "RevealTooLate",
   "BadCommitmentCompleteHash", "DuplicateReveal", "BadReveal", "NoReveal",
   "Absentees", "Timeout"}

(* Every variable has the type its Go declaration gives it; in particular  *)
(* nPlayers never goes below zero.                                         *)
TypeOK ==
  /\ status \in [Players -> {"none", "run", "drain", "gone"}]
  /\ game \in [Players -> Game]
  /\ sends \in [Players -> SUBSET Message]
  /\ chat \in SUBSET Message
  /\ result \in [Players -> Outcomes \cup {None}]
  /\ err \in [Players -> Error]

(* Two devices that both announce an outcome announce the same one, however *)
(* their messages were reordered, lost or repeated: what                    *)
(* handleCommitmentComplete fixes and setSecret checks is all that          *)
(* finishGame uses.                                                         *)
Agreement ==
  \A p, q \in Correct :
    result[p] # None /\ result[q] # None => result[p] = result[q]

(* When the secret of a device is out in the conversation, every other      *)
(* device of its CommitmentComplete is already bound by a commitment that   *)
(* is in the conversation: nobody can pick a secret after seeing another's. *)
(* This is what maybeReveal waits for, latecomers included.                 *)
CommitBeforeReveal ==
  \A m \in chat :
    m.type = "REVEAL" /\ m.sender \in Correct =>
      \A list \in {n.body.players : n \in {c \in chat :
                     c.type = "COMMITMENT_COMPLETE" /\ c.sender = Initiator}} :
        hashUserDeviceCommitments(list) = m.body.cch
          => \A q \in Listed(list) \ {m.sender} : CommitmentMsg(q, list[q]) \in chat

(* An announced outcome is the one the leader's list fixed before anybody   *)
(* revealed: a secret for each listed device and no other, each the one     *)
(* under the listed commitment, whatever commitments and reveals a faulty   *)
(* device sends to whom (handleCommitment, setSecret and finishGame).       *)
OutcomeIsCommitted ==
  \A p \in Correct, m \in chat :
    /\ result[p] # None
    /\ m.type = "COMMITMENT_COMPLETE" /\ m.sender = Initiator
    => \A q \in Players :
         m.body.players[q] = IF result[p][q] = None THEN None
                             ELSE computeCommitment(result[p][q])

(* nPlayers counts exactly the included devices that have not revealed, so  *)
(* the game finishes with the last reveal, never before (NoRevealError in   *)
(* finishGame is unreachable) and never waits once all have revealed.       *)
RevealAccounting ==
  \A p \in Correct :
    /\ err[p] # "NoReveal"
    /\ status[p] = "run" =>
         /\ game[p].nPlayers = Cardinality(absentees(game[p]))
         /\ game[p].nPlayers = 0 /\ Included(game[p]) # {} => result[p] # None

(* setSecret dereferences the commitment of a revealing device: in the      *)
(* reveal round every included device has one, and it is the leader's.      *)
RevealersHaveCommitted ==
  \A p \in Correct :
    status[p] = "run" /\ game[p].stage = "ROUND2" =>
      \A q \in Included(game[p]) :
        game[p].commitment[q] = game[p].leaderCommitment[q]

(* What a step leaves alone of the Game of a device in the reveal round.    *)
FrozenStep(p) ==
  /\ status[p] = "run" /\ status'[p] = "run"
  /\ game[p].stage = "ROUND2"
  => /\ game'[p].stage = "ROUND2"
     /\ game'[p].commitment = game[p].commitment
     /\ game'[p].leaderCommitment = game[p].leaderCommitment
     /\ game'[p].commitmentCompleteHash = game[p].commitmentCompleteHash
     /\ \A q \in Players : game[p].secret[q] \in {None, game'[p].secret[q]}

(* Once a device has entered the reveal round, neither the list it plays by *)
(* nor a commitment or secret it holds changes under it, and it never goes  *)
(* back to the commitment round.                                            *)
RoundTwoIsFrozen == [][\A p \in Correct : FrozenStep(p)]_vars

(* Every game a device joins ends and is unregistered, whatever the other   *)
(* devices and the conversation do: the deadlines see to it.                *)
GameEnds == \A p \in Correct : status[p] = "run" ~> status[p] = "gone"
=============================================================================
