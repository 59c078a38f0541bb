--------------------------- MODULE FlipGameProofs ---------------------------
(***************************************************************************)
(* Proofs about FlipGame, for any set of devices, any of them faulty       *)
(* except the leader, and any loss, reordering and repetition of messages. *)
(*                                                                         *)
(* GameInv is what holds inside one Game between two turns of its loop;    *)
(* every handler preserves it.  Bound and Disclosure relate the Games to   *)
(* the conversation.  The second part is about the replay (FlipReplay):    *)
(* its loop is a recursive function, and ReplayInv holds at each step.     *)
(* The last part is about devices that are all correct and messages that   *)
(* are not lost (Reliable): Honesty says what their conversation is, and   *)
(* ReplayFollows that a replay of it comes to what the devices announced.  *)
(***************************************************************************)
EXTENDS FlipReplay, FiniteSetTheorems, WellFoundedInduction, TLAPS

USE DEF Correct

(* What one Game keeps true.                                               *)
Accounting(g) == g.nPlayers = Cardinality(absentees(g))

GameInv(g) ==
  /\ g \in Game
  /\ IF g.gotCommitmentComplete THEN g.commitmentCompleteHash \in Hash
                                  ELSE Included(g) = {}
  /\ g.stage = "ROUND2" => g.gotCommitmentComplete /\ g.latecomers = {}
  /\ g.latecomers = {q \in Included(g) : g.commitment[q] = None}
  /\ \A q \in Included(g) : g.commitment[q] \in {None, g.leaderCommitment[q]}
  /\ g.stage = "ROUND1" => \A q \in Players : g.secret[q] = None
  /\ \A q \in Players :
       g.secret[q] # None => /\ q \in Included(g)
                             /\ g.commitment[q] = computeCommitment(g.secret[q])
  /\ Accounting(g)

(* What a handler's answer may be.                                         *)
GoodStep(g, st) ==
  /\ st.err \in Error \ {"NoReveal"}
  /\ st.sends \subseteq Message
  /\ st.result \in Outcomes \cup {None}
  /\ st.err = "ok" =>
       /\ GameInv(st.game)
       /\ st.game.me = g.me
       /\ st.game.nPlayers = 0 /\ Included(st.game) # {} =>
            st.result # None \/ (g.nPlayers = 0 /\ Included(g) # {})

-----------------------------------------------------------------------------
(* Messages.                                                               *)

(* A message is known by its type.                                         *)
LEMMA MessageShape ==
  ASSUME NEW m \in Message
  PROVE  /\ m.sender \in Players
         /\ m.type = "COMMITMENT" =>
              /\ m.body.commitment \in Commitment
              /\ m = CommitmentMsg(m.sender, m.body.commitment)
         /\ m.type = "COMMITMENT_COMPLETE" =>
              /\ m.body.players \in CommitmentList
              /\ m.body.order \in Order
              /\ m = CommitmentCompleteMsg(m.sender, m.body.players, m.body.order)
         /\ m.type = "REVEAL" =>
              /\ m.body.secret \in Secrets
              /\ m.body.cch \in Hash
              /\ m = RevealMsg(m.sender, m.body.secret, m.body.cch)
         /\ m.type \in {"START", "END", "COMMITMENT", "COMMITMENT_COMPLETE", "REVEAL"}
  <1>1. CASE m = StartMsg
    BY <1>1, InitiatorAssumption DEF StartMsg, Msg
  <1>2. CASE \E p \in Players : m = EndMsg(p)
    BY <1>2 DEF EndMsg, Msg
  <1>3. CASE \E p \in Players, com \in Commitment : m = CommitmentMsg(p, com)
    BY <1>3 DEF CommitmentMsg, Msg
  <1>4. CASE \E p \in Players, list \in CommitmentList, order \in Order :
               m = CommitmentCompleteMsg(p, list, order)
    BY <1>4 DEF CommitmentCompleteMsg, Msg
  <1>5. CASE \E p \in Players, s \in Secrets, cch \in Hash : m = RevealMsg(p, s, cch)
    BY <1>5 DEF RevealMsg, Msg
  <1> QED
    BY <1>1, <1>2, <1>3, <1>4, <1>5 DEF Message

LEMMA NewGameInv ==
  ASSUME NEW p \in Players, NEW b \in BOOLEAN
  PROVE  GameInv(NewGame(p, b)) /\ Included(NewGame(p, b)) = {}
  <1> DEFINE g == NewGame(p, b)
  <1>1. g \in Game
    BY DEF NewGame, Game, Stage, CommitmentList, Outcomes
  <1>2. Included(g) = {}
    BY DEF NewGame, Included, Listed
  <1>3. absentees(g) = {}
    BY <1>2 DEF absentees
  <1>4. Cardinality(absentees(g)) = 0
    BY <1>3, FS_EmptySet
  <1> QED
    BY <1>1, <1>2, <1>4 DEF GameInv, Accounting, NewGame

LEMMA MaybeRevealStep ==
  ASSUME NEW g, GameInv(g), g.stage = "ROUND1"
  PROVE  GoodStep(g, maybeReveal(g))
  <1> DEFINE h == [g EXCEPT !.stage = "ROUND2", !.stageForTimeout = "ROUND2"]
             out == IF g.me # None /\ (g.me \in Included(g) \/ g.iOptedOutOfCommit)
                    THEN {RevealMsg(g.me, g.me, g.commitmentCompleteHash)} ELSE {}
  <1>t. g \in Game /\ g.me \in Players
    BY DEF GameInv, Game
  <1>1. CASE ~g.gotCommitmentComplete \/ g.latecomers # {}
    BY <1>1, <1>t DEF maybeReveal, GoodStep, Ok, Step, Error
  <1>2. CASE g.gotCommitmentComplete /\ g.latecomers = {}
    <2>1. h \in Game /\ h.me = g.me
      BY <1>t DEF Game, Stage
    <2>2. Included(h) = Included(g) /\ absentees(h) = absentees(g)
      BY <1>t DEF Included, absentees, Game
    <2>3. h.nPlayers = g.nPlayers /\ h.commitment = g.commitment
          /\ h.leaderCommitment = g.leaderCommitment /\ h.secret = g.secret
          /\ h.latecomers = g.latecomers /\ h.stage = "ROUND2"
          /\ h.gotCommitmentComplete = g.gotCommitmentComplete
          /\ h.commitmentCompleteHash = g.commitmentCompleteHash
      BY <1>t DEF Game
    <2>4. GameInv(h)
      BY <1>2, <2>1, <2>2, <2>3 DEF GameInv, Accounting
    <2>5. out \subseteq Message
      <3>1. g.commitmentCompleteHash \in Hash
        BY <1>2 DEF GameInv
      <3>2. RevealMsg(g.me, g.me, g.commitmentCompleteHash) \in Message
        BY <1>t, <3>1, SecretsAssumption DEF Message
      <3> QED
        BY <3>2
    <2>6. maybeReveal(g) = Step(h, "ok", out)
      BY <1>2 DEF maybeReveal
    <2> HIDE DEF h, out
    <2> QED
      BY <2>1, <2>2, <2>3, <2>4, <2>5, <2>6 DEF GoodStep, Step, Error
  <1>3. g.gotCommitmentComplete \in BOOLEAN
    BY <1>t DEF Game
  <1> QED
    BY <1>1, <1>2, <1>3

(* A handler that first changes g into h, keeping what GoodStep compares.  *)
LEMMA StepFrom ==
  ASSUME NEW g, NEW h, NEW st, GoodStep(h, st), h.me = g.me,
         GameInv(h), h.stage = "ROUND1"
  PROVE  GoodStep(g, st)
  <1>1. absentees(h) = Included(h)
    BY DEF GameInv, absentees, Included, Listed
  <1>2. IsFiniteSet(Included(h))
    BY PlayersAssumption, FS_Subset DEF Included, Listed
  <1>3. h.nPlayers = 0 => Included(h) = {}
    BY <1>1, <1>2, FS_EmptySet DEF GameInv, Accounting
  <1> QED
    BY <1>3 DEF GoodStep

LEMMA FailStep ==
  ASSUME NEW g, NEW e \in Error \ {"ok", "NoReveal"}
  PROVE  GoodStep(g, Fail(g, e))
  BY DEF GoodStep, Fail, Step

LEMMA OkStep ==
  ASSUME NEW g, GameInv(g)
  PROVE  GoodStep(g, Ok(g))
  BY DEF GoodStep, Ok, Step, Error

LEMMA HandleCommitmentStep ==
  ASSUME NEW g, GameInv(g), g.stage = "ROUND1",
         NEW sender \in Players, NEW com \in Commitment
  PROVE  GoodStep(g, handleCommitment(g, sender, com))
  <1> DEFINE h == [g EXCEPT !.commitment[sender] = com,
                            !.latecomers = @ \ {sender}]
  <1>t. g \in Game
    BY DEF GameInv
  <1>1. \A e \in {"DuplicateRegistration", "CommitmentMismatch", "DuplicateCommitment"} :
           GoodStep(g, Fail(g, e))
    BY FailStep DEF Error
  <1>2. ASSUME g.commitment[sender] = None, g.leaderCommitment[sender] \in {None, com}
        PROVE  GoodStep(g, maybeReveal(h))
    <2>1. h \in Game
      BY <1>t DEF Game, CommitmentList
    <2>2. /\ h.me = g.me /\ h.stage = "ROUND1" /\ h.nPlayers = g.nPlayers
          /\ h.leaderCommitment = g.leaderCommitment /\ h.secret = g.secret
          /\ h.gotCommitmentComplete = g.gotCommitmentComplete
          /\ h.commitmentCompleteHash = g.commitmentCompleteHash
          /\ h.latecomers = g.latecomers \ {sender}
          /\ \A q \in Players :
               h.commitment[q] = IF q = sender THEN com ELSE g.commitment[q]
      BY <1>t DEF Game, CommitmentList
    <2>3. Included(h) = Included(g) /\ absentees(h) = absentees(g)
      BY <2>2 DEF Included, absentees
    <2>4. h.latecomers = {q \in Included(h) : h.commitment[q] = None}
      BY <2>2, <2>3, NoneAssumption DEF GameInv, Included, Listed
    <2>5. \A q \in Included(h) : h.commitment[q] \in {None, h.leaderCommitment[q]}
      BY <1>2, <2>2, <2>3 DEF GameInv, Included, Listed
    <2>6. GameInv(h)
      BY <2>1, <2>2, <2>3, <2>4, <2>5, ZenonT(40) DEF GameInv, Accounting
    <2>7. GoodStep(h, maybeReveal(h))
      BY <2>2, <2>6, MaybeRevealStep
    <2> QED
      BY <2>2, <2>6, <2>7, StepFrom
  <1> QED
    BY <1>1, <1>2 DEF handleCommitment

LEMMA HandleCommitmentCompleteStep ==
  ASSUME NEW g, GameInv(g), g.stage = "ROUND1", NEW sender \in Players,
         NEW cc, cc.players \in CommitmentList
  PROVE  GoodStep(g, handleCommitmentComplete(g, sender, cc))
  <1> DEFINE listed == Listed(cc.players)
             h == [g EXCEPT
                    !.leaderCommitment =
                       [q \in Players |-> IF q \in listed THEN cc.players[q] ELSE @[q]],
                    !.latecomers = @ \cup {q \in listed : g.commitment[q] = None},
                    !.nPlayers = @ + Cardinality(listed),
                    !.commitmentCompleteHash = hashUserDeviceCommitments(cc.players),
                    !.gotCommitmentComplete = TRUE]
  <1>t. g \in Game
    BY DEF GameInv
  <1>1. \A e \in {"WrongSender", "CommitmentCompleteSort",
                  "DuplicateCommitmentComplete", "CommitmentMismatch"} :
           GoodStep(g, Fail(g, e))
    BY FailStep DEF Error
  <1>2. ASSUME listed \cap Included(g) = {},
               \A q \in listed : g.commitment[q] \in {None, cc.players[q]}
        PROVE  GoodStep(g, maybeReveal(h))
    <2>1. listed \subseteq Players /\ Included(g) \subseteq Players
      BY DEF Listed, Included
    <2>2. IsFiniteSet(listed) /\ IsFiniteSet(Included(g))
      BY <2>1, PlayersAssumption, FS_Subset
    <2>3. Cardinality(listed) \in Nat /\ g.nPlayers \in Nat
      BY <1>t, <2>2, FS_CardinalityType DEF Game
    <2>4. hashUserDeviceCommitments(cc.players) \in Hash
      BY DEF Hash
    <2>5. h \in Game
      <3> DEFINE lc == [q \in Players |-> IF q \in listed THEN cc.players[q]
                                         ELSE g.leaderCommitment[q]]
                 late == g.latecomers \cup {q \in listed : g.commitment[q] = None}
                 n == g.nPlayers + Cardinality(listed)
                 cch == hashUserDeviceCommitments(cc.players)
      <3>1. lc \in CommitmentList
        BY <1>t DEF Game, CommitmentList
      <3>2. late \in SUBSET Players
        BY <1>t, <2>1 DEF Game
      <3>3. n \in Nat
        BY <2>3
      <3>4. h = [g EXCEPT !.leaderCommitment = lc, !.latecomers = late, !.nPlayers = n,
                          !.commitmentCompleteHash = cch, !.gotCommitmentComplete = TRUE]
        OBVIOUS
      <3> HIDE DEF lc, late, n, cch, h
      <3> QED
        BY <1>t, <2>4, <3>1, <3>2, <3>3, <3>4 DEF Game, cch
    <2>6. /\ h.me = g.me /\ h.stage = "ROUND1" /\ h.secret = g.secret
          /\ h.nPlayers = g.nPlayers + Cardinality(listed)
          /\ h.commitment = g.commitment
          /\ h.gotCommitmentComplete
          /\ h.commitmentCompleteHash = hashUserDeviceCommitments(cc.players)
          /\ h.latecomers = g.latecomers \cup {q \in listed : g.commitment[q] = None}
          /\ \A q \in Players : h.leaderCommitment[q] =
                IF q \in listed THEN cc.players[q] ELSE g.leaderCommitment[q]
      BY <1>t DEF Game
    <2> HIDE DEF h
    <2>7. Included(h) = Included(g) \cup listed
      BY <2>6 DEF Included, Listed
    <2>8. absentees(g) = Included(g) /\ absentees(h) = Included(h)
      BY <2>6, <2>7 DEF GameInv, absentees, Included, Listed
    <2>9. Accounting(h)
      <3>1. Cardinality(Included(h)) =
              Cardinality(Included(g)) + Cardinality(listed) - Cardinality(listed \cap Included(g))
        BY <2>2, <2>7, FS_Union
      <3>2. Cardinality(listed \cap Included(g)) = 0
        BY <1>2, FS_EmptySet
      <3> QED
        BY <2>3, <2>6, <2>8, <3>1, <3>2 DEF GameInv, Accounting
    <2>10. h.latecomers = {q \in Included(h) : h.commitment[q] = None}
      BY <2>6, <2>7 DEF GameInv
    <2>11. \A q \in Included(h) : h.commitment[q] \in {None, h.leaderCommitment[q]}
      <3>1. \A q \in listed : h.commitment[q] \in {None, h.leaderCommitment[q]}
        BY <1>2, <2>1, <2>6
      <3>2. \A q \in Included(g) : h.commitment[q] \in {None, h.leaderCommitment[q]}
        BY <1>2, <2>1, <2>6 DEF GameInv
      <3> QED
        BY <2>7, <3>1, <3>2
    <2>12. GameInv(h)
      <3>1. Included(h) \subseteq Players
        BY <2>1, <2>7
      <3>2. \A q \in Players : h.secret[q] = None
        BY <2>6 DEF GameInv
      <3> QED
        BY <2>4, <2>5, <2>6, <2>9, <2>10, <2>11, <3>1, <3>2 DEF GameInv
    <2>13. GoodStep(h, maybeReveal(h))
      BY <2>6, <2>12, MaybeRevealStep
    <2> QED
      BY <2>6, <2>12, <2>13, StepFrom
  <1> QED
    BY <1>1, <1>2 DEF handleCommitmentComplete

LEMMA OutcomeType ==
  ASSUME NEW g, g \in Game
  PROVE  Outcome(g) \in Outcomes /\ Outcome(g) # None
  <1>1. Outcome(g) \in Outcomes
    BY DEF Outcome, Outcomes, Game
  <1> QED
    BY <1>1, NoneAssumption

LEMMA SetSecretStep ==
  ASSUME NEW g, GameInv(g), g.stage = "ROUND2",
         NEW sender \in Included(g), NEW s \in Secrets
  PROVE  GoodStep(g, setSecret(g, sender, s))
  <1> DEFINE h == [g EXCEPT !.secret[sender] = s, !.nPlayers = @ - 1]
  <1>t. g \in Game /\ sender \in Players
    BY DEF GameInv, Included, Listed
  <1>1. GoodStep(g, Fail(g, "DuplicateReveal")) /\ GoodStep(g, Fail(g, "BadReveal"))
    BY FailStep DEF Error
  <1>2. ASSUME g.secret[sender] = None, computeCommitment(s) = g.commitment[sender]
        PROVE  GoodStep(g, IF h.nPlayers = 0 THEN finishGame(h) ELSE Ok(h))
    <2>1. /\ h.me = g.me /\ h.stage = "ROUND2" /\ h.nPlayers = g.nPlayers - 1
          /\ h.leaderCommitment = g.leaderCommitment /\ h.commitment = g.commitment
          /\ h.gotCommitmentComplete = g.gotCommitmentComplete
          /\ h.commitmentCompleteHash = g.commitmentCompleteHash
          /\ h.latecomers = g.latecomers
          /\ \A q \in Players : h.secret[q] = IF q = sender THEN s ELSE g.secret[q]
      BY <1>t DEF Game, Outcomes
    <2>2. Included(h) = Included(g) /\ Included(g) \subseteq Players
      BY <2>1 DEF Included, Listed
    <2>3. absentees(h) = absentees(g) \ {sender} /\ sender \in absentees(g)
      BY <1>2, <2>1, <2>2, NoneAssumption DEF absentees
    <2>4. IsFiniteSet(absentees(g)) /\ IsFiniteSet(absentees(h))
      BY <2>2, <2>3, PlayersAssumption, FS_Subset DEF absentees
    <2>5. Cardinality(absentees(h)) = Cardinality(absentees(g)) - 1
      BY <2>3, <2>4, FS_RemoveElement
    <2>6. Accounting(h)
      BY <2>1, <2>5 DEF GameInv, Accounting
    <2>7. h.nPlayers \in Nat
      BY <2>4, <2>6, FS_CardinalityType DEF Accounting
    <2>8. h \in Game
      <3>1. [g.secret EXCEPT ![sender] = s] \in Outcomes
        BY <1>t DEF Game, Outcomes
      <3> QED
        BY <1>t, <2>1, <2>7, <3>1 DEF Game
    <2> HIDE DEF h
    <2>9. \A q \in Players :
            h.secret[q] # None => /\ q \in Included(h)
                                  /\ h.commitment[q] = computeCommitment(h.secret[q])
      BY <1>2, <2>1, <2>2 DEF GameInv
    <2>10. GameInv(h)
      BY <2>1, <2>2, <2>6, <2>8, <2>9 DEF GameInv
    <2>11. CASE h.nPlayers # 0
      BY <2>1, <2>10, <2>11 DEF GoodStep, Ok, Step, Error
    <2>12. CASE h.nPlayers = 0
      <3>1. absentees(h) = {}
        BY <2>4, <2>6, <2>12, FS_EmptySet DEF Accounting
      <3>2. finishGame(h) =
              [Step(h, "ok", {EndMsg(h.me)}) EXCEPT !.result = Outcome(h)]
        BY <3>1 DEF finishGame, absentees
      <3>3. EndMsg(h.me) \in Message
        BY <2>8 DEF Message, Game
      <3> DEFINE st == finishGame(h)
      <3>4. /\ st.game = h /\ st.err = "ok" /\ st.result = Outcome(h)
            /\ st.sends = {EndMsg(h.me)}
        BY <3>2 DEF Step
      <3> HIDE DEF st
      <3>5. GoodStep(g, st)
        BY <2>1, <2>8, <2>10, <3>3, <3>4, OutcomeType DEF GoodStep, Error
      <3> QED
        BY <2>12, <3>5 DEF st
    <2> QED
      BY <2>11, <2>12
  <1> QED
    BY <1>1, <1>2 DEF setSecret

(* Every message a Game can be handed leaves it in order.                  *)
LEMMA HandleMessageStep ==
  ASSUME NEW g, GameInv(g), NEW m \in Message, NEW late \in BOOLEAN
  PROVE  GoodStep(g, handleMessage(g, m, late))
  <1> USE MessageShape
  <1>1. \A e \in {"EOF", "BadMessageForStage", "RevealTooLate",
                  "BadCommitmentCompleteHash"} : GoodStep(g, Fail(g, e))
    BY FailStep DEF Error
  <1>2. GoodStep(g, Ok(g))
    BY OkStep
  <1>3. CASE m.type \in {"START", "END"}
    BY <1>1, <1>3 DEF handleMessage
  <1>4. CASE m.type = "COMMITMENT"
    BY <1>2, <1>4, HandleCommitmentStep DEF handleMessage
  <1>5. CASE m.type = "COMMITMENT_COMPLETE"
    BY <1>1, <1>5, HandleCommitmentCompleteStep DEF handleMessage
  <1>6. CASE m.type = "REVEAL"
    BY <1>1, <1>2, <1>6, SetSecretStep DEF handleMessage, handleReveal
  <1> QED
    BY <1>3, <1>4, <1>5, <1>6

LEMMA HandleTimerEventStep ==
  ASSUME NEW g, GameInv(g)
  PROVE  GoodStep(g, handleTimerEvent(g))
  <1> DEFINE h == [g EXCEPT !.stageForTimeout = "ROUND2"]
  <1>t. g \in Game
    BY DEF GameInv
  <1>1. GoodStep(g, Fail(g, "Absentees")) /\ GoodStep(g, Fail(g, "Timeout"))
    BY FailStep DEF Error
  <1>2. GoodStep(g, completeCommitments(g))
    <2>1. h \in Game
      BY <1>t DEF Game, Stage
    <2>2. /\ h.me = g.me /\ h.stage = g.stage /\ h.nPlayers = g.nPlayers
          /\ h.leaderCommitment = g.leaderCommitment /\ h.commitment = g.commitment
          /\ h.gotCommitmentComplete = g.gotCommitmentComplete
          /\ h.commitmentCompleteHash = g.commitmentCompleteHash
          /\ h.latecomers = g.latecomers /\ h.secret = g.secret
      BY <1>t DEF Game
    <2> HIDE DEF h
    <2>3. Included(h) = Included(g) /\ absentees(h) = absentees(g)
      BY <2>2 DEF Included, absentees
    <2>4. GameInv(h)
      BY <2>1, <2>2, <2>3 DEF GameInv, Accounting
    <2>5. CommitmentCompleteMsg(g.me, g.commitment, "sorted") \in Message
      <3>1. g.me \in Players /\ g.commitment \in CommitmentList
        BY <1>t DEF Game
      <3> QED
        BY <3>1 DEF Message, Order
    <2> DEFINE st == completeCommitments(g)
    <2>6. /\ st.game = h /\ st.err = "ok" /\ st.result = None
          /\ st.sends = {CommitmentCompleteMsg(g.me, g.commitment, "sorted")}
      BY DEF completeCommitments, h, Step
    <2> HIDE DEF st
    <2>7. GoodStep(g, st)
      BY <2>2, <2>3, <2>4, <2>5, <2>6 DEF GoodStep, Error
    <2> QED
      BY <2>7 DEF st
  <1> QED
    BY <1>1, <1>2 DEF handleTimerEvent

-----------------------------------------------------------------------------
(* Each device by itself: types, and the state of its Game.                *)

LocalOK(p) ==
  /\ GameInv(game[p])
  /\ game[p].me = p
  /\ err[p] # "NoReveal"
  /\ status[p] = "run" /\ game[p].nPlayers = 0 /\ Included(game[p]) # {} =>
       result[p] # None

LocalInv == TypeOK /\ \A p \in Players : LocalOK(p)

(* One turn of the loop.                                                   *)
LEMMA ApplyLocal ==
  ASSUME LocalInv, NEW p \in Players, NEW step,
         GoodStep(game[p], step), status[p] = "run", Apply(p, step)
  PROVE  /\ status' \in [Players -> {"none", "run", "drain", "gone"}]
         /\ game' \in [Players -> Game]
         /\ result' \in [Players -> Outcomes \cup {None}]
         /\ err' \in [Players -> Error]
         /\ \A q \in Players : LocalOK(q)'
  <1> DEFINE g == IF step.err = "ok" THEN step.game ELSE NewGame(p, FALSE)
  <1>1. GameInv(g) /\ g.me = p /\ g \in Game
    <2>1. GameInv(NewGame(p, FALSE)) /\ NewGame(p, FALSE).me = p
      BY NewGameInv DEF NewGame
    <2>2. step.err = "ok" => GameInv(step.game) /\ step.game.me = p
      BY DEF GoodStep, LocalInv, LocalOK
    <2>3. GameInv(g) /\ g.me = p
      BY <2>1, <2>2
    <2> QED
      BY <2>3 DEF GameInv
  <1> HIDE DEF g
  <1>2. game' = [game EXCEPT ![p] = g]
    BY DEF Apply, g
  <1>3. status' \in [Players -> {"none", "run", "drain", "gone"}]
    BY DEF Apply, LocalInv, TypeOK
  <1>4. game' \in [Players -> Game]
    BY <1>1, <1>2 DEF LocalInv, TypeOK
  <1>5. result' \in [Players -> Outcomes \cup {None}]
    BY DEF Apply, LocalInv, TypeOK, GoodStep
  <1>6. err' \in [Players -> Error]
    BY DEF Apply, LocalInv, TypeOK, GoodStep
  <1>7. \A q \in Players \ {p} : LocalOK(q)'
    BY <1>2 DEF Apply, LocalInv, LocalOK, TypeOK
  <1>8. LocalOK(p)'
    <2>1. game'[p] = g /\ err'[p] = step.err /\ err'[p] # "NoReveal"
      BY <1>2 DEF Apply, LocalInv, TypeOK, GoodStep
    <2>2. /\ status'[p] = IF step.err = "ok" THEN "run" ELSE "drain"
          /\ result'[p] = IF step.result # None THEN step.result ELSE result[p]
      BY DEF Apply, LocalInv, TypeOK
    <2>3. status'[p] = "run" /\ g.nPlayers = 0 /\ Included(g) # {} => result'[p] # None
      BY <2>2 DEF GoodStep, LocalInv, LocalOK, g
    <2> QED
      BY <1>1, <2>1, <2>3 DEF LocalOK
  <1> QED
    BY <1>3, <1>4, <1>5, <1>6, <1>7, <1>8

LEMMA HandToGameLocal ==
  ASSUME LocalInv, NEW p \in Players, NEW m \in Message, NEW late \in BOOLEAN,
         HandToGame(p, m, late), chat' \in SUBSET Message
  PROVE  LocalInv'
  <1>1. CASE status[p] = "run"
    <2> DEFINE step == handleMessage(game[p], m, late)
    <2>1. GoodStep(game[p], step)
      BY HandleMessageStep DEF LocalInv, LocalOK
    <2> HIDE DEF step
    <2>2. Apply(p, step) /\ sends' = [sends EXCEPT ![p] = (@ \ {m}) \cup step.sends]
      BY <1>1 DEF HandToGame, step
    <2>3. sends' \in [Players -> SUBSET Message]
      BY <2>1, <2>2 DEF LocalInv, TypeOK, GoodStep
    <2> QED
      BY <1>1, <2>1, <2>2, <2>3, ApplyLocal DEF LocalInv, TypeOK
  <1>2. CASE status[p] # "run"
    BY <1>2 DEF HandToGame, LocalInv, TypeOK, LocalOK
  <1> QED
    BY <1>1, <1>2

LEMMA RegisterLocal ==
  ASSUME LocalInv, NEW p \in Players, NEW b \in BOOLEAN,
         RegisterGame(p, b) \/ RefuseStart(p), chat' \in SUBSET Message
  PROVE  LocalInv'
  <1>1. CASE RegisterGame(p, b)
    <2>1. CommitmentMsg(p, computeCommitment(p)) \in Message
      BY SecretsAssumption DEF Message, Commitment
    <2>2. sends' \in [Players -> SUBSET Message]
      BY <1>1, <2>1 DEF RegisterGame, LocalInv, TypeOK
    <2>3. GameInv(NewGame(p, b)) /\ Included(NewGame(p, b)) = {}
          /\ NewGame(p, b).me = p /\ NewGame(p, b) \in Game
      BY NewGameInv DEF GameInv, NewGame
    <2> QED
      BY <1>1, <2>2, <2>3 DEF RegisterGame, LocalInv, TypeOK, LocalOK
  <1>2. CASE RefuseStart(p)
    BY <1>2 DEF RefuseStart, LocalInv, TypeOK, LocalOK
  <1> QED
    BY <1>1, <1>2

LEMMA LocalInvInit == Init => LocalInv
  <1> SUFFICES ASSUME Init PROVE LocalInv
    OBVIOUS
  <1>1. \A p \in Players : GameInv(NewGame(p, FALSE)) /\ NewGame(p, FALSE).me = p
          /\ NewGame(p, FALSE) \in Game
    <2> TAKE p \in Players
    <2>1. GameInv(NewGame(p, FALSE))
      BY NewGameInv
    <2>2. NewGame(p, FALSE).me = p
      BY DEF NewGame
    <2>3. NewGame(p, FALSE) \in Game
      BY <2>1 DEF GameInv
    <2> QED BY <2>1, <2>2, <2>3
  <1> QED
    BY <1>1 DEF Init, LocalInv, TypeOK, LocalOK, Error

LEMMA LocalInvNext == LocalInv /\ [Next]_vars => LocalInv'
  <1> SUFFICES ASSUME LocalInv, [Next]_vars PROVE LocalInv'
    OBVIOUS
  <1> USE InitiatorAssumption, FaultyAssumption
  <1>t. chat \in SUBSET Message /\ sends \in [Players -> SUBSET Message]
    BY DEF LocalInv, TypeOK
  <1>1. CASE startFlip
    <2>0. StartMsg \in Message
      BY DEF Message
    <2>1. chat' \in SUBSET Message
      BY <1>1, <1>t, <2>0 DEF startFlip, SendChat
    <2> QED
      BY <1>1, <2>1, RegisterLocal DEF startFlip
  <1>2. ASSUME NEW p \in Correct \ {Initiator}, ReceiveStart(p) PROVE LocalInv'
    BY <1>2, <1>t, RegisterLocal DEF ReceiveStart
  <1>3. ASSUME NEW p \in Correct, DealOwn(p) PROVE LocalInv'
    <2> PICK m \in sends[p], late \in BOOLEAN :
          /\ HandToGame(p, m, late)
          /\ chat' \in {chat, chat \cup {m}}
      BY <1>3 DEF DealOwn, SendChat
    <2> QED
      BY <1>t, HandToGameLocal
  <1>4. ASSUME NEW p \in Correct, DealIncoming(p) PROVE LocalInv'
    BY <1>4, <1>t, HandToGameLocal DEF DealIncoming
  <1>5. ASSUME NEW p \in Correct, TimerEvent(p) PROVE LocalInv'
    <2> DEFINE step == handleTimerEvent(game[p])
    <2>1. GoodStep(game[p], step)
      BY HandleTimerEventStep DEF LocalInv, LocalOK
    <2> HIDE DEF step
    <2>2. Apply(p, step) /\ sends' = [sends EXCEPT ![p] = @ \cup step.sends]
          /\ status[p] = "run" /\ chat' = chat
      BY <1>5 DEF TimerEvent, step
    <2>3. sends' \in [Players -> SUBSET Message]
      BY <1>t, <2>1, <2>2 DEF GoodStep
    <2> QED
      BY <1>t, <2>1, <2>2, <2>3, ApplyLocal DEF LocalInv, TypeOK
  <1>6. ASSUME NEW p \in Correct, Unregister(p) PROVE LocalInv'
    BY <1>6 DEF Unregister, LocalInv, LocalOK, TypeOK, Error
  <1>7. ASSUME NEW f \in Faulty, FaultySend(f) PROVE LocalInv'
    <2>1. FaultyMessages(f) \subseteq Message
      <3>1. \A m \in chat : m.type = "COMMITMENT_COMPLETE" =>
              hashUserDeviceCommitments(m.body.players) \in Hash
        BY <1>t, MessageShape DEF Hash
      <3>2. [q \in Players |-> None] \in CommitmentList
        BY DEF CommitmentList
      <3> QED
        BY <3>1, <3>2 DEF FaultyMessages, Message
    <2> QED
      BY <1>7, <1>t, <2>1 DEF FaultySend, LocalInv, LocalOK, TypeOK
  <1>8. CASE UNCHANGED vars
    BY <1>8 DEF vars, LocalInv, LocalOK, TypeOK
  <1> QED
    BY <1>1, <1>2, <1>3, <1>4, <1>5, <1>6, <1>7, <1>8 DEF Next

(* Every variable stays in its type.                                       *)
THEOREM TypeCorrect == Spec => []TypeOK
  <1>1. LocalInv => TypeOK
    BY DEF LocalInv
  <1> QED
    BY <1>1, LocalInvInit, LocalInvNext, PTL DEF Spec

(* nPlayers counts the reveals that are missing: a game never finishes     *)
(* without one of them and never waits when there is none.                 *)
THEOREM RevealAccountingHolds == Spec => []RevealAccounting
  <1>1. LocalInv => RevealAccounting
    BY FaultyAssumption DEF LocalInv, LocalOK, GameInv, Accounting, RevealAccounting
  <1> QED
    BY <1>1, LocalInvInit, LocalInvNext, PTL DEF Spec

(* In the reveal round every listed device has a commitment, the one the   *)
(* leader listed, so that setSecret always has one to check against.       *)
THEOREM RevealersHaveCommittedHolds == Spec => []RevealersHaveCommitted
  <1>1. LocalInv => RevealersHaveCommitted
    BY FaultyAssumption DEF LocalInv, LocalOK, GameInv, RevealersHaveCommitted
  <1> QED
    BY <1>1, LocalInvInit, LocalInvNext, PTL DEF Spec

-----------------------------------------------------------------------------
(* What a handler may change, as seen from the conversation.               *)

Frame(g, m, st) ==
  /\ \A q \in Players : \/ st.game.commitment[q] = g.commitment[q]
                        \/ m = CommitmentMsg(q, st.game.commitment[q])
  /\ \/ /\ st.game.leaderCommitment = g.leaderCommitment
        /\ st.game.commitmentCompleteHash = g.commitmentCompleteHash
        /\ st.game.gotCommitmentComplete = g.gotCommitmentComplete
     \/ /\ m.type = "COMMITMENT_COMPLETE" /\ m.sender = Initiator
        /\ g.stage = "ROUND1"
        /\ st.game.commitmentCompleteHash = hashUserDeviceCommitments(m.body.players)
        /\ st.game.gotCommitmentComplete
        /\ \A q \in Players : st.game.leaderCommitment[q] =
             IF m.body.players[q] # None THEN m.body.players[q]
             ELSE g.leaderCommitment[q]
  /\ \A x \in st.sends :
       \/ x = EndMsg(g.me)
       \/ /\ x = RevealMsg(g.me, g.me, st.game.commitmentCompleteHash)
          /\ st.game.stage = "ROUND2"
  /\ st.result # None =>
       /\ st.game.stage = "ROUND2"
       /\ Included(st.game) # {}
       /\ \A q \in Included(st.game) : st.game.secret[q] # None
       /\ st.result = Outcome(st.game)
  /\ \A q \in Players :
       \/ st.game.secret[q] = g.secret[q]
       \/ /\ m = RevealMsg(q, st.game.secret[q], g.commitmentCompleteHash)
          /\ g.stage = "ROUND2"
  /\ g.stageForTimeout = "ROUND2" => st.game.stageForTimeout = "ROUND2"
  /\ g.stage = "ROUND2" =>
       /\ st.game.stage = "ROUND2"
       /\ st.game.commitment = g.commitment
       /\ \A q \in Players : g.secret[q] \in {None, st.game.secret[q]}

LEMMA OkFrame ==
  ASSUME NEW g, NEW m, g \in Game
  PROVE  Frame(g, m, Ok(g))
  BY DEF Frame, Ok, Step

LEMMA MaybeRevealFrame ==
  ASSUME NEW g, g \in Game, g.stage = "ROUND1"
  PROVE  LET st == maybeReveal(g) IN
         /\ st.game.commitment = g.commitment
         /\ st.game.leaderCommitment = g.leaderCommitment
         /\ st.game.commitmentCompleteHash = g.commitmentCompleteHash
         /\ st.game.gotCommitmentComplete = g.gotCommitmentComplete
         /\ st.game.secret = g.secret
         /\ st.result = None
         /\ g.stageForTimeout = "ROUND2" => st.game.stageForTimeout = "ROUND2"
         /\ \A x \in st.sends :
              /\ x = RevealMsg(g.me, g.me, st.game.commitmentCompleteHash)
              /\ st.game.stage = "ROUND2"
  <1>1. CASE ~g.gotCommitmentComplete \/ g.latecomers # {}
    BY <1>1 DEF maybeReveal, Ok, Step
  <1>2. CASE ~(~g.gotCommitmentComplete \/ g.latecomers # {})
    BY <1>2 DEF maybeReveal, Step, Game
  <1> QED
    BY <1>1, <1>2

LEMMA HandleMessageFrame ==
  ASSUME NEW g, g \in Game, NEW m \in Message, NEW late \in BOOLEAN,
         handleMessage(g, m, late).err = "ok"
  PROVE  Frame(g, m, handleMessage(g, m, late))
  <1> USE MessageShape
  <1> DEFINE st == handleMessage(g, m, late)
  <1>0. \A e \in Error \ {"ok"} : Fail(g, e).err # "ok"
    BY DEF Fail, Step
  <1>1. CASE m.type \in {"START", "END"}
    BY <1>0, <1>1 DEF handleMessage, Error
  <1>2. CASE m.type = "COMMITMENT"
    <2>1. CASE g.stage # "ROUND1"
      BY <1>2, <2>1, OkFrame DEF handleMessage
    <2>2. CASE g.stage = "ROUND1"
      <3> DEFINE h == [g EXCEPT !.commitment[m.sender] = m.body.commitment,
                                !.latecomers = @ \ {m.sender}]
      <3>1. st = maybeReveal(h)
        BY <1>0, <1>2, <2>2 DEF handleMessage, handleCommitment, Error
      <3>2. /\ h \in Game /\ h.stage = "ROUND1" /\ h.me = g.me
            /\ h.secret = g.secret
            /\ h.leaderCommitment = g.leaderCommitment
            /\ h.commitmentCompleteHash = g.commitmentCompleteHash
            /\ h.gotCommitmentComplete = g.gotCommitmentComplete
            /\ h.stageForTimeout = g.stageForTimeout
            /\ \A q \in Players : h.commitment[q] =
                 IF q = m.sender THEN m.body.commitment ELSE g.commitment[q]
        BY <1>2, <2>2 DEF Game, CommitmentList
      <3> HIDE DEF h, st
      <3>3. Frame(g, m, st)
        BY <1>2, <2>2, <3>1, <3>2, MaybeRevealFrame DEF Frame
      <3> QED
        BY <3>3 DEF st
    <2> QED
      BY <2>1, <2>2
  <1>3. CASE m.type = "COMMITMENT_COMPLETE"
    <2> DEFINE listed == Listed(m.body.players)
               h == [g EXCEPT
                      !.leaderCommitment =
                         [q \in Players |-> IF q \in listed THEN m.body.players[q] ELSE @[q]],
                      !.latecomers = @ \cup {q \in listed : g.commitment[q] = None},
                      !.nPlayers = @ + Cardinality(listed),
                      !.commitmentCompleteHash = hashUserDeviceCommitments(m.body.players),
                      !.gotCommitmentComplete = TRUE]
    <2>1. st = maybeReveal(h) /\ g.stage = "ROUND1" /\ m.sender = Initiator
      BY <1>0, <1>3 DEF handleMessage, handleCommitmentComplete, Error
    <2>2. h \in Game
      <3>1. IsFiniteSet(listed) /\ listed \subseteq Players
        BY PlayersAssumption, FS_Subset DEF Listed
      <3> DEFINE lc == [q \in Players |-> IF q \in listed THEN m.body.players[q]
                                          ELSE g.leaderCommitment[q]]
                 waiting == g.latecomers \cup {q \in listed : g.commitment[q] = None}
                 n == g.nPlayers + Cardinality(listed)
                 cch == hashUserDeviceCommitments(m.body.players)
      <3>2. lc \in CommitmentList
        BY <1>3 DEF Game, CommitmentList
      <3>3. waiting \in SUBSET Players
        BY <3>1 DEF Game
      <3>4. n \in Nat
        BY <3>1, FS_CardinalityType DEF Game
      <3>5. cch \in Hash
        BY <1>3 DEF Hash
      <3>6. h = [g EXCEPT !.leaderCommitment = lc, !.latecomers = waiting, !.nPlayers = n,
                          !.commitmentCompleteHash = cch, !.gotCommitmentComplete = TRUE]
        OBVIOUS
      <3> HIDE DEF lc, waiting, n, cch, h
      <3> QED
        BY <3>2, <3>3, <3>4, <3>5, <3>6 DEF Game
    <2>3. /\ h.me = g.me /\ h.stage = g.stage
          /\ h.commitment = g.commitment /\ h.secret = g.secret
          /\ h.gotCommitmentComplete
          /\ h.commitmentCompleteHash = hashUserDeviceCommitments(m.body.players)
          /\ h.stageForTimeout = g.stageForTimeout
          /\ \A q \in Players : h.leaderCommitment[q] =
                IF m.body.players[q] # None THEN m.body.players[q] ELSE g.leaderCommitment[q]
      BY DEF Game, Listed
    <2> HIDE DEF h, st
    <2>4. Frame(g, m, st)
      BY <1>3, <2>1, <2>2, <2>3, MaybeRevealFrame DEF Frame
    <2> QED
      BY <2>4 DEF st
  <1>4. CASE m.type = "REVEAL"
    <2>1. CASE m.sender \notin Included(g)
      BY <1>0, <1>4, <2>1, OkFrame DEF handleMessage, handleReveal, Error
    <2>2. CASE m.sender \in Included(g)
      <3> DEFINE h == [g EXCEPT !.secret[m.sender] = m.body.secret, !.nPlayers = @ - 1]
      <3>1. /\ g.stage = "ROUND2" /\ g.secret[m.sender] = None
            /\ g.commitmentCompleteHash = m.body.cch
            /\ st = IF h.nPlayers = 0 THEN finishGame(h) ELSE Ok(h)
        BY <1>0, <1>4, <2>2 DEF handleMessage, handleReveal, setSecret, Error
      <3>2. /\ h.me = g.me /\ h.stage = g.stage
            /\ h.commitment = g.commitment
            /\ h.leaderCommitment = g.leaderCommitment
            /\ h.gotCommitmentComplete = g.gotCommitmentComplete
            /\ h.commitmentCompleteHash = g.commitmentCompleteHash
            /\ h.stageForTimeout = g.stageForTimeout
            /\ \A q \in Players : h.secret[q] =
                 IF q = m.sender THEN m.body.secret ELSE g.secret[q]
            /\ Included(h) # {}
        BY <2>2 DEF Game, Outcomes, Included
      <3>r. m = RevealMsg(m.sender, m.body.secret, g.commitmentCompleteHash)
        BY <1>4, <3>1
      <3> HIDE DEF h
      <3>3. CASE h.nPlayers # 0
        BY <3>1, <3>2, <3>3, <3>r DEF Frame, Ok, Step
      <3>4. CASE h.nPlayers = 0
        <4>1. Fail(h, "NoReveal").err # "ok"
          BY DEF Fail, Step
        <4>2. /\ \A q \in Included(h) : h.secret[q] # None
              /\ st = [Step(h, "ok", {EndMsg(h.me)}) EXCEPT !.result = Outcome(h)]
          BY <3>1, <3>4, <4>1 DEF finishGame
        <4>3. /\ st.game = h /\ st.sends = {EndMsg(h.me)} /\ st.result = Outcome(h)
          BY <4>2 DEF Step
        <4> HIDE DEF st
        <4>4. Frame(g, m, st)
          BY <3>1, <3>2, <3>r, <4>2, <4>3 DEF Frame
        <4> QED
          BY <4>4 DEF st
      <3> QED
        BY <3>3, <3>4
    <2> QED
      BY <2>1, <2>2
  <1> QED
    BY <1>1, <1>2, <1>3, <1>4

(* Once a device is in the reveal round, what it plays by stands still.    *)
THEOREM RoundTwoIsFrozenHolds == Spec => RoundTwoIsFrozen
  <1>1. ASSUME LocalInv, [Next]_vars, NEW p \in Correct PROVE FrozenStep(p)
    <2> USE InitiatorAssumption, FaultyAssumption DEF FrozenStep
    <2>t. /\ game \in [Players -> Game] /\ status \in [Players -> {"none", "run", "drain", "gone"}]
          /\ chat \subseteq Message /\ \A q \in Players : sends[q] \subseteq Message
      BY <1>1 DEF LocalInv, TypeOK
    <2>1. ASSUME NEW q \in Players, NEW m \in Message, NEW late \in BOOLEAN,
                 HandToGame(q, m, late)
          PROVE  FrozenStep(p)
      <3> DEFINE step == handleMessage(game[q], m, late)
      <3>1. step.err = "ok" => Frame(game[q], m, step)
        BY <2>t, HandleMessageFrame
      <3> HIDE DEF step
      <3>2. CASE status[q] = "run" /\ q = p
        <4>1. Apply(p, step)
          BY <2>1, <3>2 DEF HandToGame, step
        <4> QED
          BY <2>t, <3>1, <3>2, <4>1 DEF Apply, Frame
      <3>3. CASE status[q] = "run" /\ q # p
        BY <2>1, <2>t, <3>3 DEF HandToGame, Apply
      <3>4. CASE status[q] # "run"
        BY <2>1, <3>4 DEF HandToGame
      <3> QED
        BY <3>2, <3>3, <3>4
    <2>2. ASSUME NEW q \in Players, NEW b \in BOOLEAN, RegisterGame(q, b) \/ RefuseStart(q)
          PROVE  FrozenStep(p)
      BY <2>2, <2>t DEF RegisterGame, RefuseStart
    <2>3. ASSUME NEW q \in Players, TimerEvent(q) PROVE FrozenStep(p)
      <3> DEFINE step == handleTimerEvent(game[q])
      <3>1. step.err = "ok" =>
              /\ step.game.stage = game[q].stage
              /\ step.game.commitment = game[q].commitment
              /\ step.game.leaderCommitment = game[q].leaderCommitment
              /\ step.game.commitmentCompleteHash = game[q].commitmentCompleteHash
              /\ step.game.secret = game[q].secret
        BY <2>t DEF handleTimerEvent, completeCommitments, Fail, Step, Game
      <3>2. Apply(q, step)
        BY <2>3 DEF TimerEvent
      <3> HIDE DEF step
      <3>3. CASE q = p
        BY <2>t, <3>1, <3>2, <3>3 DEF Apply
      <3>4. CASE q # p
        BY <2>t, <3>2, <3>4 DEF Apply
      <3> QED
        BY <3>3, <3>4
    <2>4. CASE startFlip
      BY <2>2, <2>4 DEF startFlip
    <2>5. ASSUME NEW q \in Correct \ {Initiator}, ReceiveStart(q) PROVE FrozenStep(p)
      BY <2>2, <2>5 DEF ReceiveStart
    <2>6. ASSUME NEW q \in Correct, DealOwn(q) PROVE FrozenStep(p)
      BY <2>1, <2>6, <2>t DEF DealOwn
    <2>7. ASSUME NEW q \in Correct, DealIncoming(q) PROVE FrozenStep(p)
      BY <2>1, <2>7, <2>t DEF DealIncoming
    <2>8. ASSUME NEW q \in Correct, Unregister(q) PROVE FrozenStep(p)
      BY <2>8, <2>t DEF Unregister
    <2>9. ASSUME NEW f \in Faulty, FaultySend(f) PROVE FrozenStep(p)
      BY <2>9 DEF FaultySend
    <2>10. CASE UNCHANGED vars
      BY <2>10 DEF vars
    <2> QED
      BY <1>1, <2>3, <2>4, <2>5, <2>6, <2>7, <2>8, <2>9, <2>10 DEF Next
  <1>2. LocalInv /\ [Next]_vars => [\A p \in Correct : FrozenStep(p)]_vars
    BY <1>1
  <1>3. Spec => []LocalInv
    BY LocalInvInit, LocalInvNext, PTL DEF Spec
  <1> QED
    BY <1>2, <1>3, PTL DEF Spec, RoundTwoIsFrozen

-----------------------------------------------------------------------------
(* The devices together.                                                   *)

(* The outcome r is the one that the list L fixes.                         *)
Fits(r, L) ==
  \A q \in Players : L[q] = IF r[q] = None THEN None ELSE computeCommitment(r[q])

IsListing(m) == m.type = "COMMITMENT_COMPLETE" /\ m.sender = Initiator

(* Everything the correct devices know of the leader's list is L.          *)
Bound(L) ==
  /\ \A m \in chat \cup sends[Initiator] : IsListing(m) => m.body.players = L
  /\ \A p \in Correct : game[p].gotCommitmentComplete =>
       /\ game[p].leaderCommitment = L
       /\ game[p].commitmentCompleteHash = hashUserDeviceCommitments(L)
  /\ \A p \in Correct : result[p] # None => Fits(result[p], L)

(* The leader has not closed the commitments, and nobody has heard of it.  *)
Unlisted ==
  \/ status[Initiator] = "none"
  \/ status[Initiator] = "run" /\ game[Initiator].stageForTimeout = "ROUND1"
Quiet ==
  /\ \A m \in chat \cup sends[Initiator] : ~IsListing(m)
  /\ \A p \in Correct : ~game[p].gotCommitmentComplete /\ result[p] = None

Owned == \A p \in Players : \A m \in sends[p] : m.sender = p

Listing ==
  /\ Owned
  /\ Unlisted => Quiet
  /\ \E L \in CommitmentList : Bound(L)

(* A commitment known to another device is in the conversation, and a      *)
(* reveal is sent only when those of its whole list are.                   *)
Disclosed(p, m) ==
  m.type = "REVEAL" /\ m.sender = p =>
    \A L \in CommitmentList :
      hashUserDeviceCommitments(L) = m.body.cch =>
        \A q \in Listed(L) \ {p} : CommitmentMsg(q, L[q]) \in chat

Disclosure ==
  \A p \in Correct :
    /\ \A q \in Players \ {p} :
         game[p].commitment[q] # None =>
           CommitmentMsg(q, game[p].commitment[q]) \in chat
    /\ \A m \in chat \cup sends[p] : Disclosed(p, m)

Inv == LocalInv /\ Listing /\ Disclosure

LEMMA NewGameFields ==
  ASSUME NEW p, NEW b
  PROVE  /\ ~NewGame(p, b).gotCommitmentComplete
         /\ \A q \in Players : NewGame(p, b).commitment[q] = None
  BY DEF NewGame

(* A handler that fails sends and announces nothing.                       *)
LEMMA HandleMessageFailure ==
  ASSUME NEW g, NEW m \in Message, NEW late \in BOOLEAN,
         handleMessage(g, m, late).err # "ok"
  PROVE  /\ handleMessage(g, m, late).sends = {}
         /\ handleMessage(g, m, late).result = None
  <1> DEFINE OK(st) == st.err = "ok" \/ (st.sends = {} /\ st.result = None)
  <1>1. \A h, e : OK(Fail(h, e)) /\ OK(Ok(h)) /\ OK(maybeReveal(h))
    BY DEF Fail, Ok, Step, maybeReveal
  <1>2. \A h : OK(finishGame(h))
    BY DEF finishGame, Fail, Step
  <1> HIDE DEF OK
  <1>3. OK(handleCommitment(g, m.sender, m.body.commitment))
    BY <1>1 DEF handleCommitment
  <1>4. OK(handleCommitmentComplete(g, m.sender, m.body))
    BY <1>1 DEF handleCommitmentComplete
  <1>5. OK(handleReveal(g, m.sender, m.body, late))
    BY <1>1, <1>2 DEF handleReveal, setSecret
  <1>6. OK(handleMessage(g, m, late))
    BY <1>1, <1>3, <1>4, <1>5, MessageShape DEF handleMessage
  <1> QED
    BY <1>6 DEF OK

(* In the reveal round a Game's list is fully committed to, and a finished *)
(* Game's outcome is the one its list fixes.                               *)
LEMMA RoundTwoFacts ==
  ASSUME NEW g, GameInv(g), g.stage = "ROUND2"
  PROVE  /\ g.gotCommitmentComplete
         /\ \A q \in Included(g) : g.commitment[q] = g.leaderCommitment[q]
         /\ (\A q \in Included(g) : g.secret[q] # None) =>
              Fits(Outcome(g), g.leaderCommitment)
  <1>1. g.gotCommitmentComplete /\
        \A q \in Included(g) : g.commitment[q] = g.leaderCommitment[q]
    BY DEF GameInv
  <1>2. ASSUME \A q \in Included(g) : g.secret[q] # None, NEW q \in Players
        PROVE  g.leaderCommitment[q] = IF Outcome(g)[q] = None THEN None
                                       ELSE computeCommitment(Outcome(g)[q])
    <2>1. CASE q \in Included(g)
      BY <1>1, <1>2, <2>1 DEF GameInv, Outcome
    <2>2. CASE q \notin Included(g)
      BY <2>2 DEF Outcome, Included, Listed
    <2> QED
      BY <2>1, <2>2
  <1> QED
    BY <1>1, <1>2 DEF Fits

(* A message that p handles, its own or one of the conversation.           *)
Handled(p, m) ==
  \/ m \in sends[p] /\ chat' \in {chat, chat \cup {m}}
  \/ m \in chat /\ m.sender # p /\ chat' = chat

LEMMA HandToGameListing ==
  ASSUME Inv, LocalInv', NEW p \in Correct, NEW m \in Message, NEW late \in BOOLEAN,
         HandToGame(p, m, late), Handled(p, m)
  PROVE  Listing'
  <1> USE InitiatorAssumption, FaultyAssumption
  <1> DEFINE g == game[p]
             step == handleMessage(g, m, late)
  <1>t. /\ game \in [Players -> Game] /\ game' \in [Players -> Game]
        /\ status \in [Players -> {"none", "run", "drain", "gone"}]
        /\ sends \in [Players -> SUBSET Message]
        /\ result \in [Players -> Outcomes \cup {None}]
        /\ g \in Game /\ g.me = p /\ GameInv(g) /\ GameInv(game'[p])
    BY DEF Inv, LocalInv, LocalOK, TypeOK
  <1>o. Owned
    BY DEF Inv, Listing
  <1>m. IsListing(m) => m \in chat \cup sends[Initiator]
    BY <1>o DEF IsListing, Handled, Owned
  <1>1. CASE status[p] # "run"
    <2>1. /\ UNCHANGED <<status, game, result, err>>
          /\ sends' = [sends EXCEPT ![p] = @ \ {m}]
      BY <1>1 DEF HandToGame
    <2>2. \A x \in chat' \cup sends'[Initiator] : IsListing(x) => x \in chat \cup sends[Initiator]
      BY <1>m, <1>t, <2>1 DEF Handled
    <2>3. Owned'
      BY <1>o, <1>t, <2>1 DEF Owned
    <2>4. \A L : Bound(L) => Bound(L)'
      BY <2>1, <2>2 DEF Bound, Fits, IsListing
    <2>5. Unlisted' => Quiet'
      BY <2>1, <2>2 DEF Inv, Listing, Unlisted, Quiet, IsListing
    <2> QED
      BY <2>3, <2>4, <2>5 DEF Inv, Listing
  <1>2. CASE status[p] = "run"
    <2>1. Apply(p, step) /\ sends' = [sends EXCEPT ![p] = (@ \ {m}) \cup step.sends]
      BY <1>2 DEF HandToGame
    <2>2. IF step.err = "ok" THEN Frame(g, m, step) ELSE step.sends = {} /\ step.result = None
      BY <1>t, HandleMessageFrame, HandleMessageFailure
    <2> HIDE DEF step
    <2>3. \A x \in step.sends : x.type \in {"END", "REVEAL"} /\ x.sender = p
      BY <1>t, <2>2 DEF Frame, EndMsg, RevealMsg, Msg
    <2>4. \A x \in chat' \cup sends'[Initiator] : IsListing(x) => x \in chat \cup sends[Initiator]
      BY <1>m, <1>t, <2>1, <2>3 DEF Handled, IsListing
    <2>5. Owned'
      BY <1>o, <1>t, <2>1, <2>3 DEF Owned
    <2>6. /\ \A q \in Players \ {p} : /\ game'[q] = game[q] /\ status'[q] = status[q]
                                      /\ result'[q] = result[q]
          /\ game'[p] = IF step.err = "ok" THEN step.game ELSE NewGame(p, FALSE)
          /\ status'[p] = IF step.err = "ok" THEN "run" ELSE "drain"
          /\ result'[p] = IF step.result # None THEN step.result ELSE result[p]
      BY <1>2, <1>t, <2>1 DEF Apply
    <2>7. step.result # None =>
            /\ step.err = "ok" /\ game'[p] = step.game
            /\ game'[p].gotCommitmentComplete
            /\ Fits(step.result, game'[p].leaderCommitment)
      <3> SUFFICES ASSUME step.result # None
                   PROVE  /\ step.err = "ok" /\ game'[p] = step.game
                          /\ game'[p].gotCommitmentComplete
                          /\ Fits(step.result, game'[p].leaderCommitment)
        OBVIOUS
      <3>1. step.err = "ok" /\ game'[p] = step.game
        BY <2>2, <2>6
      <3>2. /\ game'[p].stage = "ROUND2"
            /\ \A q \in Included(game'[p]) : game'[p].secret[q] # None
            /\ step.result = Outcome(game'[p])
        BY <2>2, <3>1 DEF Frame
      <3> QED
        BY <1>t, <3>1, <3>2, RoundTwoFacts
    <2>8. Unlisted' => Quiet'
      <3> SUFFICES ASSUME Unlisted' PROVE Quiet'
        OBVIOUS
      <3>1. Unlisted
        <4>1. CASE p = Initiator
          BY <1>2, <1>t, <2>2, <2>6, <4>1 DEF Unlisted, Frame, Game, Stage
        <4>2. CASE p # Initiator
          BY <2>6, <4>2 DEF Unlisted
        <4> QED
          BY <4>1, <4>2
      <3>2. Quiet /\ ~IsListing(m)
        BY <1>m, <3>1 DEF Inv, Listing, Quiet
      <3>3. ~game'[p].gotCommitmentComplete
        <4>1. CASE step.err = "ok"
          <5>1. step.game.gotCommitmentComplete = g.gotCommitmentComplete
            BY <2>2, <3>2, <4>1 DEF Frame, IsListing
          <5>2. ~g.gotCommitmentComplete
            BY <3>2 DEF Quiet
          <5> QED
            BY <2>6, <4>1, <5>1, <5>2
        <4>2. CASE step.err # "ok"
          BY <2>6, <4>2, NewGameFields
        <4> QED
          BY <4>1, <4>2
      <3>4. result'[p] = None
        BY <2>6, <2>7, <3>2, <3>3 DEF Quiet
      <3> QED
        BY <2>4, <2>6, <3>2, <3>3, <3>4 DEF Quiet, IsListing
    <2>9. ASSUME NEW L \in CommitmentList, Bound(L) PROVE Bound(L)'
      <3>1. IsListing(m) => m.body.players = L
        BY <1>m, <2>9 DEF Bound
      <3>2. \A x \in chat' \cup sends'[Initiator] : IsListing(x) => x.body.players = L
        BY <2>4, <2>9 DEF Bound
      <3>3. ASSUME game'[p].gotCommitmentComplete
            PROVE  /\ game'[p].leaderCommitment = L
                   /\ game'[p].commitmentCompleteHash = hashUserDeviceCommitments(L)
        <4>1. step.err = "ok" /\ game'[p] = step.game /\ Frame(g, m, step)
          BY <2>2, <2>6, <3>3, NewGameFields
        <4>2. CASE /\ step.game.leaderCommitment = g.leaderCommitment
                   /\ step.game.commitmentCompleteHash = g.commitmentCompleteHash
                   /\ step.game.gotCommitmentComplete = g.gotCommitmentComplete
          BY <2>9, <3>3, <4>1, <4>2 DEF Bound
        <4>3. CASE /\ IsListing(m)
                   /\ step.game.commitmentCompleteHash = hashUserDeviceCommitments(m.body.players)
                   /\ \A q \in Players : step.game.leaderCommitment[q] =
                        IF m.body.players[q] # None THEN m.body.players[q]
                        ELSE g.leaderCommitment[q]
          <5>1. \A q \in Players : L[q] = None => g.leaderCommitment[q] = None
            <6>1. CASE g.gotCommitmentComplete
              BY <2>9, <6>1 DEF Bound
            <6>2. CASE ~g.gotCommitmentComplete
              BY <1>t, <6>2 DEF GameInv, Included, Listed
            <6> QED
              BY <6>1, <6>2
          <5>2. \A q \in Players : step.game.leaderCommitment[q] = L[q]
            BY <3>1, <4>3, <5>1
          <5>3. step.game.leaderCommitment \in CommitmentList
            BY <1>t, <4>1 DEF Game
          <5>4. step.game.leaderCommitment = L
            BY <5>2, <5>3 DEF CommitmentList
          <5> QED
            BY <3>1, <4>1, <4>3, <5>4
        <4> QED
          BY <4>1, <4>2, <4>3 DEF Frame, IsListing
      <3>4. result'[p] # None => Fits(result'[p], L)
        BY <2>6, <2>7, <2>9, <3>3 DEF Bound
      <3>5. /\ \A q \in Correct : game'[q].gotCommitmentComplete =>
                 /\ game'[q].leaderCommitment = L
                 /\ game'[q].commitmentCompleteHash = hashUserDeviceCommitments(L)
            /\ \A q \in Correct : result'[q] # None => Fits(result'[q], L)
        BY <2>6, <2>9, <3>3, <3>4 DEF Bound
      <3> QED
        BY <3>2, <3>5 DEF Bound, Fits, IsListing
    <2> QED
      BY <2>5, <2>8, <2>9 DEF Inv, Listing
  <1> QED
    BY <1>1, <1>2

(* A Game in the reveal round, as the conversation C shows it: when it     *)
(* reveals, the whole list it reveals for is disclosed.                    *)
LEMMA RevealDisclosed ==
  ASSUME NEW p, NEW g, GameInv(g), g.stage = "ROUND2",
         NEW C, NEW L0 \in CommitmentList,
         g.leaderCommitment = L0,
         g.commitmentCompleteHash = hashUserDeviceCommitments(L0),
         \A q \in Players \ {p} :
           g.commitment[q] # None => CommitmentMsg(q, g.commitment[q]) \in C,
         NEW L \in CommitmentList,
         hashUserDeviceCommitments(L) = g.commitmentCompleteHash
  PROVE  \A q \in Listed(L) \ {p} : CommitmentMsg(q, L[q]) \in C
  <1>1. L = L0
    BY DEF hashUserDeviceCommitments
  <1>2. \A q \in Included(g) : g.commitment[q] = L[q]
    BY <1>1, RoundTwoFacts
  <1>3. Included(g) = Listed(L) /\ Listed(L) \subseteq Players
    BY <1>1 DEF Included, Listed
  <1>4. \A q \in Listed(L) : L[q] # None
    BY DEF Listed
  <1> QED
    BY <1>2, <1>3, <1>4

(* Disclosure is kept by a step that lets the conversation grow by at most *)
(* messages already disclosed, and changes only what p knows.              *)
LEMMA DisclosureStep ==
  ASSUME Disclosure, chat \subseteq chat', NEW p \in Correct,
         \A q \in Correct \ {p} : game'[q].commitment = game[q].commitment,
         \A q \in Players \ {p} :
           game'[p].commitment[q] # None =>
             CommitmentMsg(q, game'[p].commitment[q]) \in chat',
         \A q \in Correct : \A x \in chat' \cup sends'[q] :
           x \in chat \cup sends[q] \/ Disclosed(q, x)'
  PROVE  Disclosure'
  <1>1. \A q \in Correct : \A x \in chat' \cup sends'[q] : Disclosed(q, x)'
    BY DEF Disclosure, Disclosed
  <1>2. \A r \in Correct : \A q \in Players \ {r} :
          game'[r].commitment[q] # None =>
            CommitmentMsg(q, game'[r].commitment[q]) \in chat'
    BY DEF Disclosure
  <1> QED
    BY <1>1, <1>2 DEF Disclosure

LEMMA HandToGameDisclosure ==
  ASSUME Inv, LocalInv', Listing',
         NEW p \in Correct, NEW m \in Message, NEW late \in BOOLEAN,
         HandToGame(p, m, late), Handled(p, m)
  PROVE  Disclosure'
  <1> USE InitiatorAssumption, FaultyAssumption
  <1> DEFINE g == game[p]
             step == handleMessage(g, m, late)
  <1>t. /\ game \in [Players -> Game]
        /\ sends \in [Players -> SUBSET Message]
        /\ g \in Game /\ g.me = p /\ GameInv(g) /\ GameInv(game'[p])
    BY DEF Inv, LocalInv, LocalOK, TypeOK
  <1>i. Disclosure /\ Owned
    BY DEF Inv, Listing
  <1>c. chat \subseteq chat' /\ chat' \subseteq chat \cup {m}
    BY DEF Handled
  <1>f. \A q \in Correct : m \in chat \cup sends[q] \/ Disclosed(q, m)'
    BY <1>i DEF Handled, Owned, Disclosed
  <1>1. CASE status[p] # "run"
    <2>1. game' = game /\ sends' = [sends EXCEPT ![p] = @ \ {m}]
      BY <1>1 DEF HandToGame
    <2>2. \A q \in Correct : \A x \in chat' \cup sends'[q] :
            x \in chat \cup sends[q] \/ Disclosed(q, x)'
      BY <1>c, <1>f, <1>t, <2>1
    <2>3. \A q \in Players \ {p} :
            game'[p].commitment[q] # None =>
              CommitmentMsg(q, game'[p].commitment[q]) \in chat'
      BY <1>c, <1>i, <2>1 DEF Disclosure
    <2> QED
      BY <1>c, <1>i, <2>1, <2>2, <2>3, DisclosureStep
  <1>2. CASE status[p] = "run"
    <2>1. Apply(p, step) /\ sends' = [sends EXCEPT ![p] = (@ \ {m}) \cup step.sends]
      BY <1>2 DEF HandToGame
    <2>2. IF step.err = "ok" THEN Frame(g, m, step) ELSE step.sends = {} /\ step.result = None
      BY <1>t, HandleMessageFrame, HandleMessageFailure
    <2> HIDE DEF step
    <2>3. /\ \A q \in Players \ {p} : game'[q] = game[q]
          /\ game'[p] = IF step.err = "ok" THEN step.game ELSE NewGame(p, FALSE)
      BY <1>t, <2>1 DEF Apply
    <2>4. ASSUME NEW q \in Players \ {p}, game'[p].commitment[q] # None
          PROVE  CommitmentMsg(q, game'[p].commitment[q]) \in chat'
      <3>0. NewGame(p, FALSE).commitment[q] = None
        BY NewGameFields
      <3>1. step.err = "ok" /\ game'[p] = step.game
        BY <2>3, <2>4, <3>0
      <3>2. CASE step.game.commitment[q] = g.commitment[q]
        BY <1>c, <1>i, <2>4, <3>1, <3>2 DEF Disclosure
      <3>3. CASE m = CommitmentMsg(q, step.game.commitment[q])
        <4>1. m.sender = q
          BY <3>3 DEF CommitmentMsg, Msg
        <4> QED
          BY <1>c, <1>i, <3>1, <3>3, <4>1 DEF Handled, Owned
      <3> QED
        BY <2>2, <3>1, <3>2, <3>3 DEF Frame
    <2>5. ASSUME NEW x \in step.sends PROVE Disclosed(p, x)'
      <3> SUFFICES ASSUME x.type = "REVEAL", NEW L \in CommitmentList,
                          hashUserDeviceCommitments(L) = x.body.cch
                   PROVE  \A q \in Listed(L) \ {p} : CommitmentMsg(q, L[q]) \in chat'
        BY DEF Disclosed
      <3>1. step.err = "ok" /\ game'[p] = step.game
        BY <2>2, <2>3
      <3>2. x.body.cch = game'[p].commitmentCompleteHash /\ game'[p].stage = "ROUND2"
        BY <2>2, <3>1 DEF Frame, EndMsg, RevealMsg, Msg
      <3>3. game'[p].gotCommitmentComplete
        BY <1>t, <3>2, RoundTwoFacts
      <3>4. PICK L0 \in CommitmentList : Bound(L0)'
        BY DEF Listing
      <3>5. /\ game'[p].leaderCommitment = L0
            /\ game'[p].commitmentCompleteHash = hashUserDeviceCommitments(L0)
        BY <3>3, <3>4 DEF Bound
      <3> QED
        BY <1>t, <2>4, <3>2, <3>5, RevealDisclosed, ZenonT(60)
    <2>6. \A x \in step.sends : x.sender = p
      BY <1>t, <2>2 DEF Frame, EndMsg, RevealMsg, Msg
    <2>7. \A q \in Correct : \A x \in chat' \cup sends'[q] :
            x \in chat \cup sends[q] \/ Disclosed(q, x)'
      BY <1>c, <1>f, <1>t, <2>1, <2>5
    <2> QED
      BY <1>c, <1>i, <2>3, <2>4, <2>7, DisclosureStep
  <1> QED
    BY <1>1, <1>2

(* Listing and Disclosure through the steps that handle no message.        *)
LEMMA RegisterNet ==
  ASSUME Inv, NEW p \in Correct, NEW b \in BOOLEAN,
         RegisterGame(p, b) \/ RefuseStart(p),
         chat' \in {chat, chat \cup {StartMsg}}
  PROVE  Listing' /\ Disclosure'
  <1> USE InitiatorAssumption, FaultyAssumption
  <1>t. /\ game \in [Players -> Game] /\ sends \in [Players -> SUBSET Message]
        /\ status \in [Players -> {"none", "run", "drain", "gone"}]
    BY DEF Inv, LocalInv, TypeOK
  <1>i. Disclosure /\ Owned /\ (Unlisted => Quiet)
    BY DEF Inv, Listing
  <1>s. ~IsListing(StartMsg) /\ StartMsg.type # "REVEAL"
    BY DEF IsListing, StartMsg, Msg
  <1>1. /\ result' = result
        /\ sends' \in {sends, [sends EXCEPT ![p] = @ \cup {CommitmentMsg(p, computeCommitment(p))}]}
        /\ game' = game \/ game' = [game EXCEPT ![p] = NewGame(p, b)]
        /\ status[p] = "none" /\ \A q \in Players \ {p} : status'[q] = status[q]
    BY <1>t DEF RegisterGame, RefuseStart
  <1>2. LET x == CommitmentMsg(p, computeCommitment(p)) IN
        ~IsListing(x) /\ x.type # "REVEAL" /\ x.sender = p
    BY DEF IsListing, CommitmentMsg, Msg
  <1>3. \A q \in Players : \A x \in chat' \cup sends'[q] :
          x \in chat \cup sends[q] \/ (~IsListing(x) /\ x.type # "REVEAL")
    BY <1>s, <1>t, <1>1, <1>2
  <1>4. Owned'
    BY <1>i, <1>t, <1>1, <1>2 DEF Owned
  <1>5. \A q \in Correct : \/ game'[q] = game[q]
                           \/ /\ ~game'[q].gotCommitmentComplete
                              /\ \A r \in Players : game'[q].commitment[r] = None
    <2>1. ~NewGame(p, b).gotCommitmentComplete
          /\ \A r \in Players : NewGame(p, b).commitment[r] = None
      BY NewGameFields
    <2> QED
      BY <1>t, <1>1, <2>1
  <1>6. \A L : Bound(L) => Bound(L)'
    BY <1>1, <1>3, <1>5 DEF Bound, Fits, IsListing
  <1>7. Unlisted' => Quiet'
    <2>1. CASE p = Initiator
      BY <1>i, <1>1, <1>3, <1>5, <2>1 DEF Unlisted, Quiet, IsListing
    <2>2. p # Initiator /\ Unlisted' => Unlisted
      BY <1>t, <1>1 DEF Unlisted
    <2> QED
      BY <1>i, <1>1, <1>3, <1>5, <2>1, <2>2 DEF Quiet, IsListing
  <1>8. Disclosure'
    <2>1. chat \subseteq chat'
      OBVIOUS
    <2>2. \A q \in Correct : \A x \in chat' \cup sends'[q] :
            x \in chat \cup sends[q] \/ Disclosed(q, x)'
      BY <1>3 DEF Disclosed
    <2>3. \A r \in Correct : \A q \in Players \ {r} :
            game'[r].commitment[q] # None =>
              CommitmentMsg(q, game'[r].commitment[q]) \in chat'
      BY <1>i, <1>5, <2>1 DEF Disclosure
    <2>4. \A q \in Correct \ {p} : game'[q].commitment = game[q].commitment
      BY <1>t, <1>1
    <2> QED
      BY <1>i, <2>1, <2>2, <2>3, <2>4, DisclosureStep
  <1> QED
    BY <1>4, <1>6, <1>7, <1>8 DEF Inv, Listing

LEMMA TimerNet ==
  ASSUME Inv, NEW p \in Correct, TimerEvent(p)
  PROVE  Listing' /\ Disclosure'
  <1> USE InitiatorAssumption, FaultyAssumption
  <1> DEFINE g == game[p]
             step == handleTimerEvent(g)
             cc == CommitmentCompleteMsg(p, g.commitment, "sorted")
  <1>t. /\ game \in [Players -> Game] /\ sends \in [Players -> SUBSET Message]
        /\ status \in [Players -> {"none", "run", "drain", "gone"}]
        /\ result \in [Players -> Outcomes \cup {None}]
        /\ g \in Game /\ g.me = p
    BY DEF Inv, LocalInv, LocalOK, TypeOK
  <1>i. Disclosure /\ Owned /\ (Unlisted => Quiet)
    BY DEF Inv, Listing
  <1>a. /\ Apply(p, step) /\ status[p] = "run" /\ chat' = chat
        /\ sends' = [sends EXCEPT ![p] = @ \cup step.sends]
    BY DEF TimerEvent
  <1>1. CASE p = Initiator /\ g.stageForTimeout = "ROUND1"
    <2>1. /\ step.err = "ok" /\ step.result = None /\ step.sends = {cc}
          /\ step.game = [g EXCEPT !.stageForTimeout = "ROUND2"]
      BY <1>t, <1>1 DEF handleTimerEvent, completeCommitments, Step
    <2>2. /\ step.game.commitment = g.commitment
          /\ step.game.gotCommitmentComplete = g.gotCommitmentComplete
          /\ step.game.stageForTimeout = "ROUND2"
      BY <1>t, <2>1 DEF Game
    <2>3. /\ cc.type = "COMMITMENT_COMPLETE" /\ cc.sender = p
          /\ cc.body.players = g.commitment
      BY DEF CommitmentCompleteMsg, Msg
    <2> HIDE DEF step, cc
    <2>4. /\ game' = [game EXCEPT ![p] = step.game] /\ status' = status /\ result' = result
      BY <1>a, <1>t, <2>1 DEF Apply
    <2>5. Quiet
      BY <1>a, <1>i, <1>1 DEF Unlisted
    <2>6. Owned'
      BY <1>a, <1>i, <1>t, <2>1, <2>3 DEF Owned
    <2>7. ~Unlisted'
      BY <1>a, <1>t, <1>1, <2>2, <2>4 DEF Unlisted
    <2>8. PICK L \in CommitmentList : L = g.commitment
      BY <1>t DEF Game
    <2>9. Bound(L)'
      <3>1. \A x \in chat' \cup sends'[Initiator] : IsListing(x) => x.body.players = L
        BY <1>a, <1>t, <1>1, <2>1, <2>3, <2>5, <2>8 DEF Quiet
      <3>2. \A q \in Correct : ~game'[q].gotCommitmentComplete
        <4>1. ~g.gotCommitmentComplete
          BY <2>5 DEF Quiet
        <4>2. ~step.game.gotCommitmentComplete
          BY <2>2, <4>1
        <4> QED
          BY <1>t, <2>4, <2>5, <4>2 DEF Quiet
      <3>3. \A q \in Correct : result'[q] = None
        BY <2>4, <2>5 DEF Quiet
      <3> QED
        BY <3>1, <3>2, <3>3 DEF Bound, IsListing, Fits
    <2>10. Disclosure'
      <3>1. \A q \in Correct : \A x \in chat' \cup sends'[q] :
              x \in chat \cup sends[q] \/ Disclosed(q, x)'
        BY <1>a, <1>t, <2>1, <2>3 DEF Disclosed
      <3>2. \A q \in Correct : game'[q].commitment = game[q].commitment
        BY <1>t, <2>2, <2>4
      <3>3. \A q \in Players \ {p} :
              game'[p].commitment[q] # None =>
                CommitmentMsg(q, game'[p].commitment[q]) \in chat'
        BY <1>a, <1>i, <3>2 DEF Disclosure
      <3> QED
        BY <1>a, <1>i, <3>1, <3>2, <3>3, DisclosureStep
    <2> QED
      BY <2>6, <2>7, <2>8, <2>9, <2>10 DEF Listing
  <1>2. CASE ~(p = Initiator /\ g.stageForTimeout = "ROUND1")
    <2>1. step.err # "ok" /\ step.sends = {} /\ step.result = None
      BY <1>t, <1>2 DEF handleTimerEvent, Fail, Step
    <2> HIDE DEF step
    <2>2. /\ game' = [game EXCEPT ![p] = NewGame(p, FALSE)]
          /\ status' = [status EXCEPT ![p] = "drain"] /\ result' = result /\ sends' = sends
      BY <1>a, <1>t, <2>1 DEF Apply
    <2>3. \A q \in Correct : \/ game'[q] = game[q]
                             \/ /\ ~game'[q].gotCommitmentComplete
                                /\ \A r \in Players : game'[q].commitment[r] = None
      <3>1. ~NewGame(p, FALSE).gotCommitmentComplete
            /\ \A r \in Players : NewGame(p, FALSE).commitment[r] = None
        BY NewGameFields
      <3> QED
        BY <1>t, <2>2, <3>1
    <2>4. \A L : Bound(L) => Bound(L)'
      BY <1>a, <2>2, <2>3, ZenonT(60) DEF Bound, Fits, IsListing
    <2>5. Unlisted' => Quiet'
      <3>1. Unlisted' => Unlisted
        BY <1>t, <2>2 DEF Unlisted
      <3> QED
        BY <1>a, <1>i, <2>2, <2>3, <3>1 DEF Quiet, IsListing
    <2>6. Disclosure'
      <3>1. \A r \in Correct : \A q \in Players \ {r} :
              game'[r].commitment[q] # None =>
                CommitmentMsg(q, game'[r].commitment[q]) \in chat'
        BY <1>a, <1>i, <2>3 DEF Disclosure
      <3> QED
        BY <1>a, <1>i, <1>t, <2>2, <3>1, DisclosureStep
    <2> QED
      BY <1>i, <2>2, <2>4, <2>5, <2>6 DEF Inv, Listing, Owned
  <1> QED
    BY <1>1, <1>2

LEMMA InvInit == Init => Inv
  <1> SUFFICES ASSUME Init PROVE Inv
    OBVIOUS
  <1> USE InitiatorAssumption, FaultyAssumption
  <1>1. LocalInv
    BY LocalInvInit
  <1>2. \A p \in Correct : ~game[p].gotCommitmentComplete
          /\ \A q \in Players : game[p].commitment[q] = None
    <2>1. \A p \in Players : ~NewGame(p, FALSE).gotCommitmentComplete
            /\ \A q \in Players : NewGame(p, FALSE).commitment[q] = None
      BY NewGameFields
    <2> QED
      BY <2>1 DEF Init
  <1>3. Owned /\ Quiet
    BY <1>2 DEF Init, Owned, Quiet
  <1>4. PICK L \in CommitmentList : L = [q \in Players |-> None]
    BY DEF CommitmentList
  <1>5. Bound(L)
    BY <1>2, <1>3 DEF Bound, Quiet
  <1>6. Disclosure
    BY <1>2 DEF Init, Disclosure
  <1> QED
    BY <1>1, <1>3, <1>5, <1>6 DEF Inv, Listing

LEMMA InvNext == Inv /\ [Next]_vars => Inv'
  <1> SUFFICES ASSUME Inv, [Next]_vars PROVE Inv'
    OBVIOUS
  <1> USE InitiatorAssumption, FaultyAssumption
  <1>0. LocalInv'
    BY LocalInvNext DEF Inv
  <1>t. chat \subseteq Message /\ \A p \in Players : sends[p] \subseteq Message
    BY DEF Inv, LocalInv, TypeOK
  <1>h. ASSUME NEW p \in Correct, NEW m \in Message, NEW late \in BOOLEAN,
               HandToGame(p, m, late), Handled(p, m)
        PROVE  Inv'
    <2>1. Listing'
      BY <1>0, <1>h, HandToGameListing
    <2>2. Disclosure'
      BY <1>0, <1>h, <2>1, HandToGameDisclosure
    <2> QED
      BY <1>0, <2>1, <2>2 DEF Inv
  <1>1. CASE startFlip
    <2>1. Listing' /\ Disclosure'
      BY <1>1, RegisterNet DEF startFlip, SendChat
    <2> QED
      BY <1>0, <2>1 DEF Inv
  <1>2. ASSUME NEW p \in Correct \ {Initiator}, ReceiveStart(p) PROVE Inv'
    <2>1. Listing' /\ Disclosure'
      BY <1>2, RegisterNet DEF ReceiveStart
    <2> QED
      BY <1>0, <2>1 DEF Inv
  <1>3. ASSUME NEW p \in Correct, DealOwn(p) PROVE Inv'
    <2>1. PICK m \in sends[p], late \in BOOLEAN :
            HandToGame(p, m, late) /\ chat' \in {chat, chat \cup {m}}
      BY <1>3 DEF DealOwn, SendChat
    <2>2. Handled(p, m)
      BY <2>1 DEF Handled
    <2>3. m \in Message
      BY <1>t
    <2> QED
      BY <1>h, <2>1, <2>2, <2>3
  <1>4. ASSUME NEW p \in Correct, DealIncoming(p) PROVE Inv'
    <2>1. PICK m \in chat, late \in BOOLEAN :
            HandToGame(p, m, late) /\ m.sender # p /\ chat' = chat
      BY <1>4 DEF DealIncoming
    <2>2. Handled(p, m) /\ m \in Message
      BY <1>t, <2>1 DEF Handled
    <2> QED
      BY <1>h, <2>1, <2>2
  <1>5. ASSUME NEW p \in Correct, TimerEvent(p) PROVE Inv'
    <2>1. Listing' /\ Disclosure'
      BY <1>5, TimerNet
    <2> QED
      BY <1>0, <2>1 DEF Inv
  <1>6. ASSUME NEW p \in Correct, Unregister(p) PROVE Inv'
    <2>1. UNCHANGED <<game, sends, chat, result>>
      BY <1>6 DEF Unregister
    <2>2. Unlisted' => Unlisted
      BY <1>6, <2>1 DEF Unregister, Unlisted, Inv, LocalInv, TypeOK
    <2>3. Quiet' = Quiet /\ Owned' = Owned /\ (Disclosure => Disclosure')
      BY <2>1 DEF Quiet, IsListing, Owned, Disclosure, Disclosed
    <2>4. \A L : Bound(L) => Bound(L)'
      BY <2>1 DEF Bound, Fits, IsListing
    <2> QED
      BY <1>0, <2>2, <2>3, <2>4 DEF Inv, Listing
  <1>7. ASSUME NEW f \in Faulty, FaultySend(f) PROVE Inv'
    <2>1. PICK m \in FaultyMessages(f) : chat' = chat \cup {m}
      BY <1>7 DEF FaultySend
    <2>2. m.sender = f
      BY DEF FaultyMessages, CommitmentMsg, RevealMsg, CommitmentCompleteMsg, Msg
    <2>3. UNCHANGED <<status, game, sends, result>>
      BY <1>7 DEF FaultySend
    <2>4. ~IsListing(m) /\ \A p \in Correct : Disclosed(p, m)'
      BY <2>2 DEF IsListing, Disclosed
    <2>5. (Unlisted' => Unlisted) /\ (Quiet => Quiet') /\ (Owned => Owned')
      BY <2>1, <2>3, <2>4 DEF Unlisted, Quiet, IsListing, Owned
    <2>6. \A L : Bound(L) => Bound(L)'
      BY <2>1, <2>3, <2>4 DEF Bound, Fits, IsListing
    <2>7. Disclosure'
      <3>1. \A p \in Correct : \A x \in chat' \cup sends'[p] :
              x \in chat \cup sends[p] \/ Disclosed(p, x)'
        BY <2>1, <2>3, <2>4
      <3>2. Disclosure /\ chat \subseteq chat'
        BY <2>1 DEF Inv
      <3>3. \A p \in Correct : \A q \in Players \ {p} :
              game'[p].commitment[q] # None =>
                CommitmentMsg(q, game'[p].commitment[q]) \in chat'
        BY <2>3, <3>2 DEF Disclosure
      <3> QED
        BY <2>3, <3>1, <3>2, <3>3, DisclosureStep
    <2> QED
      BY <1>0, <2>5, <2>6, <2>7 DEF Inv, Listing
  <1>8. CASE UNCHANGED vars
    <2>1. /\ Unlisted' = Unlisted /\ Quiet' = Quiet /\ Owned' = Owned
          /\ Disclosure => Disclosure'
      BY <1>8 DEF vars, Unlisted, Quiet, IsListing, Owned, Disclosure, Disclosed
    <2>2. \A L : Bound(L) => Bound(L)'
      BY <1>8 DEF vars, Bound, Fits, IsListing
    <2> QED
      BY <1>0, <2>1, <2>2 DEF Inv, Listing
  <1> QED
    BY <1>1, <1>2, <1>3, <1>4, <1>5, <1>6, <1>7, <1>8 DEF Next

(* No correct device reveals before every other device it plays with is    *)
(* bound by a commitment in the conversation.                              *)
THEOREM CommitBeforeRevealHolds == Spec => []CommitBeforeReveal
  <1>1. Inv => CommitBeforeReveal
    <2> SUFFICES ASSUME Inv PROVE CommitBeforeReveal
      OBVIOUS
    <2>1. \A c \in chat : c.type = "COMMITMENT_COMPLETE" => c.body.players \in CommitmentList
      BY MessageShape DEF Inv, LocalInv, TypeOK
    <2> QED
      BY <2>1 DEF CommitBeforeReveal, Inv, Disclosure, Disclosed
  <1> QED
    BY <1>1, InvInit, InvNext, PTL DEF Spec

(* What is announced is what the leader's list fixed.                      *)
THEOREM OutcomeIsCommittedHolds == Spec => []OutcomeIsCommitted
  <1>1. Inv => OutcomeIsCommitted
    BY DEF Inv, Listing, Bound, Fits, IsListing, OutcomeIsCommitted
  <1> QED
    BY <1>1, InvInit, InvNext, PTL DEF Spec

(* A list allows one outcome at most.                                      *)
LEMMA FitsOnce ==
  ASSUME NEW L \in CommitmentList, NEW r \in Outcomes, NEW t \in Outcomes,
         Fits(r, L), Fits(t, L)
  PROVE  r = t
  <1>1. \A s \in Secrets : computeCommitment(s) \in Commitment /\ computeCommitment(s) # None
    BY NoneAssumption DEF Commitment
  <1>2. ASSUME NEW q \in Players PROVE r[q] = t[q]
    <2>0. r[q] \in Secrets \cup {None} /\ t[q] \in Secrets \cup {None}
      BY DEF Outcomes
    <2>1. CASE L[q] = None
      BY <1>1, <2>0, <2>1 DEF Fits
    <2>2. CASE L[q] # None
      <3>1. \A x, y : computeCommitment(x) = computeCommitment(y) => x = y
        BY DEF computeCommitment
      <3>2. computeCommitment(r[q]) = L[q] /\ computeCommitment(t[q]) = L[q]
        BY <2>2 DEF Fits
      <3> QED BY <3>1, <3>2
    <2> QED BY <2>1, <2>2
  <1> QED BY <1>2 DEF Outcomes

(* Two correct devices never announce different outcomes.                  *)
THEOREM AgreementHolds == Spec => []Agreement
  <1>1. Inv => Agreement
    <2> SUFFICES ASSUME Inv, NEW p \in Correct, NEW q \in Correct,
                        result[p] # None, result[q] # None
                 PROVE  result[p] = result[q]
      BY DEF Agreement
    <2>1. result[p] \in Outcomes /\ result[q] \in Outcomes
      BY DEF Inv, LocalInv, TypeOK
    <2>2. PICK L \in CommitmentList : Fits(result[p], L) /\ Fits(result[q], L)
      BY DEF Inv, Listing, Bound
    <2> QED
      BY <2>1, <2>2, FitsOnce
  <1> QED
    BY <1>1, InvInit, InvNext, PTL DEF Spec

-----------------------------------------------------------------------------
(* The replay.  Its Game has no device, and panics where another would     *)
(* wait for a latecomer: once it has the list it has the commitments.      *)

ReplayGame ==
  [ me : {None},
    stage : Stage,
    stageForTimeout : Stage,
    commitment : CommitmentList,
    leaderCommitment : CommitmentList,
    secret : Outcomes,
    nPlayers : Int,
    latecomers : {{}},
    commitmentCompleteHash : Hash \cup {None},
    gotCommitmentComplete : BOOLEAN,
    iOptedOutOfCommit : BOOLEAN ]

(* The Game plays by the list L, if it has one.                            *)
ReplayInv(g, L) ==
  /\ g \in ReplayGame
  /\ g.stage = "ROUND1" =>
       /\ ~g.gotCommitmentComplete
       /\ \A q \in Players : g.leaderCommitment[q] = None /\ g.secret[q] = None
  /\ g.stage = "ROUND2" =>
       /\ g.leaderCommitment = L
       /\ \A q \in Listed(L) :
            /\ g.commitment[q] = L[q]
            /\ g.secret[q] # None => computeCommitment(g.secret[q]) = L[q]

(* What an answer of a handler may be in a replay.                         *)
ReplayStep(st, L) ==
  /\ st.err = "ok" => st.game.latecomers # {} \/ ReplayInv(st.game, L)
  /\ st.result # None => st.result \in Outcomes /\ Fits(st.result, L)

LEMMA ReplayStart ==
  ASSUME NEW L \in CommitmentList
  PROVE  ReplayInv(NewGame(None, FALSE), L)
  BY DEF ReplayInv, NewGame, ReplayGame, Stage, CommitmentList, Outcomes

LEMMA ReplayFails ==
  ASSUME NEW L, NEW g, NEW e, e # "ok"
  PROVE  ReplayStep(Fail(g, e), L)
  BY DEF ReplayStep, Fail, Step

LEMMA StepFields ==
  ASSUME NEW g, NEW e, NEW out
  PROVE  /\ Step(g, e, out).game = g /\ Step(g, e, out).err = e
         /\ Step(g, e, out).result = None
  BY DEF Step

LEMMA ReplayStays ==
  ASSUME NEW L, NEW g, ReplayInv(g, L)
  PROVE  ReplayStep(Ok(g), L)
  BY DEF ReplayStep, Ok, Step

LEMMA ReplayCommitment ==
  ASSUME NEW L \in CommitmentList, NEW g, ReplayInv(g, L), g.stage = "ROUND1",
         NEW sender \in Players, NEW com \in Commitment
  PROVE  ReplayStep(handleCommitment(g, sender, com), L)
  <1> DEFINE h == [g EXCEPT !.commitment[sender] = com, !.latecomers = @ \ {sender}]
  <1>1. g \in ReplayGame
    BY DEF ReplayInv
  <1>2. h \in ReplayGame
    BY <1>1 DEF ReplayGame, CommitmentList
  <1>3. /\ h.stage = "ROUND1" /\ h.gotCommitmentComplete = g.gotCommitmentComplete
        /\ h.leaderCommitment = g.leaderCommitment /\ h.secret = g.secret
    BY <1>1 DEF ReplayGame
  <1> HIDE DEF h
  <1>4. ReplayInv(h, L)
    BY <1>2, <1>3 DEF ReplayInv
  <1>5. maybeReveal(h) = Ok(h)
    BY <1>3, <1>4 DEF maybeReveal, ReplayInv
  <1>6. \/ handleCommitment(g, sender, com) = maybeReveal(h)
        \/ \E e \in {"DuplicateRegistration", "CommitmentMismatch", "DuplicateCommitment"} :
             handleCommitment(g, sender, com) = Fail(g, e)
    BY DEF handleCommitment, h
  <1> QED BY <1>4, <1>5, <1>6, ReplayStays, ReplayFails

LEMMA ReplayCommitmentComplete ==
  ASSUME NEW L \in CommitmentList, NEW g, ReplayInv(g, L), g.stage = "ROUND1",
         NEW sender \in Players, NEW cc, sender = Initiator => cc.players = L
  PROVE  ReplayStep(handleCommitmentComplete(g, sender, cc), L)
  <1> DEFINE late == {q \in Listed(L) : g.commitment[q] = None}
  <1> DEFINE h == [g EXCEPT
           !.leaderCommitment = [q \in Players |-> IF q \in Listed(L) THEN L[q] ELSE @[q]],
           !.latecomers = @ \cup late,
           !.nPlayers = @ + Cardinality(Listed(L)),
           !.commitmentCompleteHash = hashUserDeviceCommitments(L),
           !.gotCommitmentComplete = TRUE]
  <1> DEFINE st == handleCommitmentComplete(g, sender, cc)
  <1> SUFFICES ReplayStep(st, L)
    OBVIOUS
  <1>1. \/ /\ st = maybeReveal(h)
           /\ \A q \in Listed(L) : g.commitment[q] \in {None, L[q]}
        \/ \E e \in {"WrongSender", "CommitmentCompleteSort", "DuplicateCommitmentComplete",
                     "CommitmentMismatch"} : st = Fail(g, e)
    BY DEF handleCommitmentComplete
  <1> HIDE DEF st
  <1>2. g \in ReplayGame /\ \A q \in Players : g.leaderCommitment[q] = None
    BY DEF ReplayInv
  <1>3. [q \in Players |-> IF q \in Listed(L) THEN L[q] ELSE g.leaderCommitment[q]] = L
    BY <1>2 DEF Listed, CommitmentList
  <1>4. hashUserDeviceCommitments(L) \in Hash /\ Cardinality(Listed(L)) \in Nat
    <2>1. IsFiniteSet(Listed(L))
      BY PlayersAssumption, FS_Subset DEF Listed
    <2> QED BY <2>1, FS_CardinalityType DEF Hash
  <1>5. /\ h.latecomers = late /\ h.leaderCommitment = L /\ h.commitment = g.commitment
        /\ h.secret = g.secret /\ h.gotCommitmentComplete = TRUE
    BY <1>2, <1>3 DEF ReplayGame
  <1>6. CASE st = maybeReveal(h) /\ \A q \in Listed(L) : g.commitment[q] \in {None, L[q]}
    <2>1. CASE late # {}
      <3>1. maybeReveal(h) = Ok(h)
        BY <1>5, <2>1 DEF maybeReveal
      <3> HIDE DEF h
      <3>2. st.game = h /\ st.err = "ok" /\ st.result = None
        BY <1>6, <3>1, StepFields DEF Ok
      <3> QED BY <1>5, <2>1, <3>2 DEF ReplayStep
    <2>2. CASE late = {}
      <3> DEFINE r == [h EXCEPT !.stage = "ROUND2", !.stageForTimeout = "ROUND2"]
      <3>1. h \in ReplayGame
        <4>1. g.latecomers \cup late = {} /\ g.nPlayers + Cardinality(Listed(L)) \in Int
          BY <1>2, <1>4, <2>2 DEF ReplayGame
        <4>2. h = [g EXCEPT !.leaderCommitment = L, !.latecomers = {},
                            !.nPlayers = g.nPlayers + Cardinality(Listed(L)),
                            !.commitmentCompleteHash = hashUserDeviceCommitments(L),
                            !.gotCommitmentComplete = TRUE]
          BY <1>2, <1>3, <4>1 DEF ReplayGame
        <4> HIDE DEF h
        <4> QED BY <1>2, <1>4, <4>1, <4>2 DEF ReplayGame
      <3> HIDE DEF h
      <3>2. r \in ReplayGame
        BY <3>1 DEF ReplayGame, Stage
      <3>3. /\ r.stage = "ROUND2" /\ r.leaderCommitment = L /\ r.commitment = g.commitment
            /\ r.secret = g.secret
        BY <1>5, <3>1 DEF ReplayGame
      <3>4. \A q \in Listed(L) : g.commitment[q] = L[q] /\ g.secret[q] = None
        BY <1>6, <2>2 DEF ReplayInv, Listed
      <3>5. PICK out : maybeReveal(h) = Step(r, "ok", out)
        BY <1>5, <2>2 DEF maybeReveal
      <3> HIDE DEF r
      <3>6. ReplayInv(r, L)
        BY <3>2, <3>3, <3>4 DEF ReplayInv
      <3>7. st.game = r /\ st.result = None
        BY <1>6, <3>5, StepFields
      <3> QED BY <3>6, <3>7 DEF ReplayStep
    <2> QED BY <2>1, <2>2
  <1>7. CASE \E e \in {"WrongSender", "CommitmentCompleteSort", "DuplicateCommitmentComplete",
                       "CommitmentMismatch"} : st = Fail(g, e)
    <2>1. PICK e \in {"WrongSender", "CommitmentCompleteSort", "DuplicateCommitmentComplete",
                       "CommitmentMismatch"} : st = Fail(g, e)
      BY <1>7
    <2>2. e # "ok"
      OBVIOUS
    <2> QED BY <2>1, <2>2, ReplayFails
  <1> HIDE DEF h
  <1> QED BY <1>1, <1>6, <1>7

LEMMA ReplayReveal ==
  ASSUME NEW L \in CommitmentList, NEW g, ReplayInv(g, L), g.stage = "ROUND2",
         NEW sender \in Players, NEW reveal, reveal.secret \in Secrets, NEW late \in BOOLEAN
  PROVE  ReplayStep(handleReveal(g, sender, reveal, late), L)
  <1> DEFINE s == reveal.secret
  <1> DEFINE h == [g EXCEPT !.secret[sender] = s, !.nPlayers = @ - 1]
  <1> DEFINE st == handleReveal(g, sender, reveal, late)
  <1> SUFFICES ReplayStep(st, L)
    OBVIOUS
  <1>1. /\ g \in ReplayGame /\ Included(g) = Listed(L)
        /\ \A q \in Listed(L) : g.commitment[q] = L[q]
    BY DEF ReplayInv, Included
  <1>2. \/ st = Ok(g)
        \/ \E e \in {"RevealTooLate", "BadCommitmentCompleteHash", "DuplicateReveal", "BadReveal"} :
             st = Fail(g, e)
        \/ /\ sender \in Listed(L) /\ computeCommitment(s) = g.commitment[sender]
           /\ st = IF h.nPlayers = 0 THEN finishGame(h) ELSE Ok(h)
    BY <1>1 DEF handleReveal, setSecret
  <1> HIDE DEF st
  <1>3. CASE /\ sender \in Listed(L) /\ computeCommitment(s) = g.commitment[sender]
             /\ st = IF h.nPlayers = 0 THEN finishGame(h) ELSE Ok(h)
    <2>1. [g.secret EXCEPT ![sender] = s] \in Outcomes
      BY <1>1 DEF ReplayGame, Outcomes
    <2>2. h \in ReplayGame
      <3>1. g.nPlayers - 1 \in Int
        BY <1>1 DEF ReplayGame
      <3>2. h = [g EXCEPT !.secret = [g.secret EXCEPT ![sender] = s], !.nPlayers = g.nPlayers - 1]
        BY <1>1 DEF ReplayGame
      <3> HIDE DEF h
      <3> QED BY <1>1, <2>1, <3>1, <3>2 DEF ReplayGame
    <2>3. /\ h.stage = "ROUND2" /\ h.leaderCommitment = L /\ h.commitment = g.commitment
          /\ \A q \in Players : h.secret[q] = IF q = sender THEN s ELSE g.secret[q]
      BY <1>1 DEF ReplayGame, Outcomes, ReplayInv
    <2> HIDE DEF h
    <2>4. ReplayInv(h, L)
      <3>1. \A q \in Listed(L) : h.secret[q] # None => computeCommitment(h.secret[q]) = L[q]
        BY <1>1, <1>3, <2>3 DEF ReplayInv, Listed
      <3> QED BY <1>1, <2>2, <2>3, <3>1 DEF ReplayInv
    <2>5. ReplayStep(finishGame(h), L)
      <3>1. CASE \E q \in Included(h) : h.secret[q] = None
        <4>1. finishGame(h) = Fail(h, "NoReveal")
          BY <3>1 DEF finishGame
        <4> QED BY <4>1, ReplayFails
      <3>2. CASE \A q \in Included(h) : h.secret[q] # None
        <4>1. finishGame(h) = [Step(h, "ok", {EndMsg(h.me)}) EXCEPT !.result = Outcome(h)]
          BY <3>2 DEF finishGame
        <4> DEFINE end == finishGame(h)
        <4>2. end.game = h /\ end.err = "ok" /\ end.result = Outcome(h)
          BY <4>1 DEF Step
        <4> HIDE DEF end
        <4>3. Outcome(h) \in Outcomes
          BY <2>2 DEF Outcome, Outcomes, ReplayGame
        <4>4. Fits(Outcome(h), L)
          <5> SUFFICES ASSUME NEW q \in Players
                       PROVE  L[q] = IF Outcome(h)[q] = None THEN None
                                     ELSE computeCommitment(Outcome(h)[q])
            BY DEF Fits
          <5>1. CASE q \in Listed(L)
            <6>1. h.secret[q] # None /\ Outcome(h)[q] = h.secret[q]
              BY <2>3, <3>2, <5>1 DEF Included, Outcome
            <6> QED BY <2>3, <2>4, <5>1, <6>1 DEF ReplayInv
          <5>2. CASE q \notin Listed(L)
            <6>1. L[q] = None /\ Outcome(h)[q] = None
              BY <2>3, <5>2 DEF Included, Outcome, Listed
            <6> QED BY <6>1
          <5> QED BY <5>1, <5>2
        <4>5. ReplayStep(end, L)
          BY <2>4, <4>2, <4>3, <4>4 DEF ReplayStep
        <4> QED BY <4>5 DEF end
      <3> QED BY <3>1, <3>2
    <2> QED BY <1>3, <2>4, <2>5, ReplayStays
  <1>4. CASE st = Ok(g)
    BY <1>4, ReplayStays
  <1>5. CASE \E e \in {"RevealTooLate", "BadCommitmentCompleteHash", "DuplicateReveal",
                       "BadReveal"} : st = Fail(g, e)
    <2>1. PICK e \in {"RevealTooLate", "BadCommitmentCompleteHash", "DuplicateReveal",
                      "BadReveal"} : st = Fail(g, e)
      BY <1>5
    <2>2. e # "ok"
      OBVIOUS
    <2> QED BY <2>1, <2>2, ReplayFails
  <1> HIDE DEF h
  <1> QED BY <1>2, <1>3, <1>4, <1>5

LEMMA ReplayMessageOK ==
  ASSUME NEW L \in CommitmentList, NEW g, ReplayInv(g, L), NEW m \in Message,
         IsListing(m) => m.body.players = L, NEW late \in BOOLEAN
  PROVE  /\ ReplayMessage(g, m, late).err = "ok" => ReplayInv(ReplayMessage(g, m, late).game, L)
         /\ ReplayMessage(g, m, late).result # None =>
              /\ ReplayMessage(g, m, late).result \in Outcomes
              /\ Fits(ReplayMessage(g, m, late).result, L)
  <1> DEFINE st == handleMessage(g, m, late)
  <1>1. g.stage \in {"ROUND1", "ROUND2"}
    BY DEF ReplayInv, ReplayGame, Stage
  <1>2. ReplayStep(st, L)
    <2>1. CASE m.type \in {"START", "END"}
      <3>1. st = Fail(g, "BadMessageForStage") \/ st = Fail(g, "EOF")
        BY <2>1 DEF handleMessage
      <3> HIDE DEF st
      <3> QED BY <3>1, ReplayFails
    <2>2. CASE m.type = "COMMITMENT"
      <3>1. /\ g.stage # "ROUND1" => st = Ok(g)
            /\ g.stage = "ROUND1" => st = handleCommitment(g, m.sender, m.body.commitment)
        BY <2>2 DEF handleMessage
      <3> HIDE DEF st
      <3> QED BY <2>2, <3>1, MessageShape, ReplayStays, ReplayCommitment
    <2>3. CASE m.type = "COMMITMENT_COMPLETE"
      <3>1. /\ g.stage # "ROUND1" => st = Fail(g, "BadMessageForStage")
            /\ g.stage = "ROUND1" => st = handleCommitmentComplete(g, m.sender, m.body)
        BY <2>3 DEF handleMessage
      <3>2. m.sender \in Players /\ (m.sender = Initiator => m.body.players = L)
        BY <2>3, MessageShape DEF IsListing
      <3> HIDE DEF st
      <3> QED BY <3>1, <3>2, ReplayFails, ReplayCommitmentComplete
    <2>4. CASE m.type = "REVEAL"
      <3>1. /\ g.stage # "ROUND2" => st = Fail(g, "BadMessageForStage")
            /\ g.stage = "ROUND2" => st = handleReveal(g, m.sender, m.body, late)
        BY <2>4 DEF handleMessage
      <3>2. m.sender \in Players /\ m.body.secret \in Secrets
        BY <2>4, MessageShape
      <3> HIDE DEF st
      <3> QED BY <3>1, <3>2, ReplayFails, ReplayReveal
    <2> HIDE DEF st
    <2> QED BY <2>1, <2>2, <2>3, <2>4, MessageShape
  <1>3. ReplayMessage(g, m, late) = IF st.game.latecomers # {} THEN Fail(g, "panic") ELSE st
    BY DEF ReplayMessage
  <1> HIDE DEF st
  <1>4. CASE st.game.latecomers # {}
    <2>1. ReplayMessage(g, m, late) = Step(g, "panic", {})
      BY <1>3, <1>4 DEF Fail
    <2>2. ReplayMessage(g, m, late).err = "panic" /\ ReplayMessage(g, m, late).result = None
      BY <2>1, StepFields
    <2> QED BY <2>2
  <1>5. CASE st.game.latecomers = {}
    <2>1. ReplayMessage(g, m, late) = st
      BY <1>3, <1>5
    <2> QED BY <1>2, <1>5, <2>1 DEF ReplayStep
  <1> QED BY <1>4, <1>5

(* What the loop of the replay has after some of the messages.             *)
Begun == [game |-> NewGame(None, FALSE), err |-> "ok", result |-> None]

AccInv(acc, L) ==
  /\ acc.err = "ok" => ReplayInv(acc.game, L)
  /\ acc.result # None => acc.result \in Outcomes /\ Fits(acc.result, L)

LEMMA ReplayedOK ==
  ASSUME NEW L \in CommitmentList, NEW acc, AccInv(acc, L), NEW m \in Message,
         IsListing(m) => m.body.players = L, NEW late \in BOOLEAN
  PROVE  AccInv(Replayed(acc, m, late), L)
  <1> DEFINE st == ReplayMessage(acc.game, m, late)
  <1> DEFINE new == Replayed(acc, m, late)
  <1>1. CASE acc.err # "ok"
    BY <1>1 DEF Replayed
  <1>2. CASE acc.err = "ok"
    <2>1. /\ st.err = "ok" => ReplayInv(st.game, L)
          /\ st.result # None => st.result \in Outcomes /\ Fits(st.result, L)
      <3>1. ReplayInv(acc.game, L)
        BY <1>2 DEF AccInv
      <3> QED BY <3>1, ReplayMessageOK
    <2>2. /\ new.game = st.game /\ new.err = st.err
          /\ new.result = IF st.result # None THEN st.result ELSE acc.result
      BY <1>2 DEF Replayed
    <2> HIDE DEF st, new
    <2>3. AccInv(new, L)
      BY <2>1, <2>2 DEF AccInv
    <2> QED BY <2>3 DEF new
  <1> QED BY <1>1, <1>2

(* A set of natural numbers has a least element.                           *)
LEMMA LeastNumber ==
  ASSUME NEW B \in SUBSET Nat, B # {}
  PROVE  \E n \in B : \A m \in B : n <= m
  <1> DEFINE R == OpToRel(<, Nat)
  <1>1. IsWellFoundedOn(R, Nat)
    BY NatLessThanWellFounded
  <1>2. \A m, n \in Nat : <<m, n>> \in R <=> m < n
    BY DEF OpToRel
  <1> HIDE DEF R
  <1>3. PICK n \in B : \A m \in B : ~ (<<m, n>> \in R)
    BY <1>1, WFMin
  <1>4. \A m \in B : n <= m
    <2> TAKE m \in B
    <2>1. m \in Nat /\ n \in Nat /\ ~(m < n)
      BY <1>2, <1>3
    <2> QED BY <2>1
  <1> QED BY <1>4

(* f[k] is what the loop has after the first k messages of hist.           *)
Loop(f, hist, cut, k) ==
  IF k = 1 THEN Begun ELSE Replayed(f[k - 1], hist[k], k > cut)

Runs(f, n, hist, cut) == f = [k \in 1..n |-> Loop(f, hist, cut, k)]

LEMMA RunExists ==
  ASSUME NEW hist, NEW cut
  PROVE  \A n \in Nat : \E f : Runs(f, n, hist, cut)
  <1> DEFINE B == {n \in Nat : ~ \E f : Runs(f, n, hist, cut)}
  <1> SUFFICES ASSUME B # {} PROVE FALSE
    OBVIOUS
  <1>1. PICK n \in B : \A m \in B : n <= m
    <2>1. B \in SUBSET Nat
      OBVIOUS
    <2> HIDE DEF B
    <2> QED BY <2>1, LeastNumber
  <1>2. n # 0
    <2> DEFINE f == [k \in 1..0 |-> Begun]
    <2>1. 1..0 = {}
      OBVIOUS
    <2>2. Runs(f, 0, hist, cut)
      BY <2>1 DEF Runs
    <2> QED BY <2>2
  <1>3. n \in Nat /\ n - 1 \in Nat /\ n - 1 \notin B
    BY <1>1, <1>2
  <1>4. PICK f : Runs(f, n - 1, hist, cut)
    BY <1>3
  <1> DEFINE g == [k \in 1..n |-> IF k = n THEN Loop(f, hist, cut, n) ELSE f[k]]
  <1>5. ASSUME NEW k \in 1..n PROVE g[k] = Loop(g, hist, cut, k)
    <2>1. k # 1 => g[k - 1] = f[k - 1]
      BY <1>3
    <2>2. Loop(g, hist, cut, k) = Loop(f, hist, cut, k)
      BY <2>1 DEF Loop
    <2>3. CASE k = n
      BY <1>3, <2>2, <2>3
    <2>4. CASE k # n
      <3>1. g[k] = f[k] /\ k \in 1..(n - 1)
        BY <1>3, <2>4
      <3>2. f[k] = Loop(f, hist, cut, k)
        BY <1>4, <3>1 DEF Runs
      <3> QED BY <2>2, <3>1, <3>2
    <2> QED BY <2>3, <2>4
  <1>6. Runs(g, n, hist, cut)
    <2>1. g = [k \in 1..n |-> g[k]]
      OBVIOUS
    <2> HIDE DEF g
    <2> QED BY <1>5, <2>1 DEF Runs
  <1> QED BY <1>1, <1>6

(* What runReplayLoop computes is a run of the loop.                       *)
LEMMA LoopRuns ==
  ASSUME NEW hist, NEW cut, Len(hist) \in Nat
  PROVE  \E f : Runs(f, Len(hist), hist, cut) /\ runReplayLoop(hist, cut) = f[Len(hist)]
  <1> DEFINE n == Len(hist)
  <1> DEFINE F(f) == [k \in 1..n |->
                        IF k = 1 THEN [game |-> NewGame(None, FALSE), err |-> "ok", result |-> None]
                        ELSE Replayed(f[k - 1], hist[k], k > cut)]
  <1> DEFINE after == CHOOSE f : f = F(f)
  <1>1. runReplayLoop(hist, cut) = after[n]
    BY DEF runReplayLoop
  <1>2. \A f : Runs(f, n, hist, cut) <=> f = F(f)
    BY DEF Runs, Loop, Begun
  <1>3. after = F(after)
    <2>1. PICK f : f = F(f)
      BY <1>2, RunExists
    <2> HIDE DEF F
    <2> QED BY <2>1
  <1> HIDE DEF after
  <1>4. Runs(after, n, hist, cut)
    BY <1>2, <1>3
  <1> HIDE DEF F
  <1> QED BY <1>1, <1>4

(* The outcome a replay shows is one that the list L allows.               *)
LEMMA ReplayLoopOK ==
  ASSUME NEW L \in CommitmentList, NEW hist, NEW cut \in Nat,
         Len(hist) \in Nat \ {0},
         \A k \in 1..Len(hist) : /\ hist[k] \in Message
                                 /\ IsListing(hist[k]) => hist[k].body.players = L
  PROVE  AccInv(runReplayLoop(hist, cut), L)
  <1> DEFINE n == Len(hist)
  <1>1. PICK after : Runs(after, n, hist, cut) /\ runReplayLoop(hist, cut) = after[n]
    BY LoopRuns
  <1>5. \A k \in 1..n : after[k] = Loop(after, hist, cut, k)
    BY <1>1 DEF Runs
  <1>6. AccInv(Begun, L)
    <2>1. Begun.game = NewGame(None, FALSE) /\ Begun.result = None
      BY DEF Begun
    <2> QED BY <2>1, ReplayStart DEF AccInv
  <1>7. \A k \in 1..n : AccInv(after[k], L)
    <2> DEFINE B == {k \in 1..n : ~AccInv(after[k], L)}
    <2> SUFFICES ASSUME B # {} PROVE FALSE
      OBVIOUS
    <2>1. PICK k \in B : \A j \in B : k <= j
      <3>1. B \in SUBSET Nat
        OBVIOUS
      <3> HIDE DEF B
      <3> QED BY <3>1, LeastNumber
    <2>2. k # 1
      BY <1>5, <1>6 DEF Loop
    <2>3. k - 1 \in 1..n /\ k - 1 \notin B
      BY <2>1, <2>2
    <2>4. AccInv(after[k - 1], L)
      BY <2>3
    <2>5. after[k] = Replayed(after[k - 1], hist[k], k > cut)
      BY <1>5, <2>2 DEF Loop
    <2>6. AccInv(Replayed(after[k - 1], hist[k], k > cut), L)
      <3>1. (k > cut) \in BOOLEAN
        OBVIOUS
      <3> QED BY <2>4, <3>1, ReplayedOK
    <2> QED BY <2>5, <2>6
  <1>8. n \in 1..n
    OBVIOUS
  <1> QED BY <1>1, <1>7, <1>8

-----------------------------------------------------------------------------
(* The server's order.                                                     *)

Logged == log \in Seq(chat)

LEMMA ChatGrows == [Next]_vars => chat \subseteq chat'
  BY DEF Next, vars, startFlip, SendChat, ReceiveStart, DealOwn, DealIncoming, TimerEvent,
         Unregister, FaultySend

LEMMA LoggedNext == Logged /\ [ReplayNext]_replayVars => Logged'
  <1> SUFFICES ASSUME Logged, [ReplayNext]_replayVars PROVE Logged'
    OBVIOUS
  <1>1. CASE UNCHANGED replayVars
    BY <1>1 DEF replayVars, vars, Logged
  <1>2. CASE ReplayNext
    <2>1. chat \subseteq chat'
      BY <1>2, ChatGrows DEF ReplayNext
    <2>2. log \in Seq(chat')
      BY <2>1 DEF Logged
    <2>3. CASE chat' = chat
      BY <1>2, <2>2, <2>3 DEF ReplayNext, Ordered, Logged
    <2>4. CASE chat' # chat
      <3> DEFINE m == CHOOSE x \in chat' \ chat : TRUE
      <3>1. m \in chat'
        BY <2>1, <2>4
      <3>2. log' = Append(log, m)
        BY <1>2, <2>4 DEF ReplayNext, Ordered
      <3> HIDE DEF m
      <3> QED BY <2>2, <3>1, <3>2 DEF Logged
    <2> QED BY <2>3, <2>4
  <1> QED BY <1>1, <1>2

LEMMA HistoryOK == ASSUME Logged, NEW hist \in loadGame PROVE hist \in Seq(chat)
  <1>1. CASE hist = log
    BY <1>1 DEF Logged
  <1>2. ASSUME NEW i \in DOMAIN log, hist = RemoveAt(log, i) PROVE hist \in Seq(chat)
    <2>1. log \in Seq(chat) /\ i \in 1..Len(log) /\ Len(log) \in Nat
      BY DEF Logged
    <2>2. SubSeq(log, 1, i - 1) \in Seq(chat) /\ SubSeq(log, i + 1, Len(log)) \in Seq(chat)
      BY <2>1
    <2> QED BY <1>2, <2>2 DEF RemoveAt
  <1> QED BY <1>1, <1>2 DEF loadGame

(* A replay never shows an outcome other than the one a device announced.  *)
THEOREM ReplayAgreesHolds == ReplaySpec => []ReplayAgrees
  <1>1. Inv /\ Logged => ReplayAgrees
    <2> SUFFICES ASSUME Inv, Logged, NEW hist \in loadGame, NEW cut \in 0..Len(hist),
                        NEW s, s = replay(hist, cut, FALSE), s.err = "ok",
                        NEW p \in Correct, result[p] # None
                 PROVE  result[p] = s.result
      BY DEF ReplayAgrees
    <2> DEFINE end == runReplayLoop(hist, cut)
    <2>1. hist \in Seq(chat)
      BY HistoryOK
    <2>2. hist # << >>
      BY DEF replay, Summary
    <2>3. /\ end.result # None
          /\ s.result = end.result
      <3> HIDE DEF end
      <3>1. end = runReplayLoop(hist, cut)
        BY DEF end
      <3>2. Head(hist) = StartMsg
        BY DEF replay, Summary
      <3>3. end.err \in {"ok", "EOF"}
        BY <2>2, <3>1, <3>2 DEF replay, Summary
      <3> QED BY <2>2, <3>1, <3>2, <3>3 DEF replay, Summary
    <2>4. PICK L \in CommitmentList : Bound(L)
      BY DEF Inv, Listing
    <2>5. \A m \in chat : m \in Message /\ (IsListing(m) => m.body.players = L)
      BY <2>4 DEF Bound, Inv, LocalInv, TypeOK
    <2>6. AccInv(end, L)
      <3>1. Len(hist) \in Nat \ {0} /\ cut \in Nat /\ \A k \in 1..Len(hist) : hist[k] \in chat
        BY <2>1, <2>2
      <3> QED BY <2>5, <3>1, ReplayLoopOK
    <2> HIDE DEF end
    <2>7. end.result \in Outcomes /\ Fits(end.result, L)
      BY <2>3, <2>6 DEF AccInv
    <2>8. result[p] \in Outcomes /\ Fits(result[p], L)
      BY <2>4 DEF Bound, Inv, LocalInv, TypeOK
    <2> QED BY <2>3, <2>7, <2>8, FitsOnce
  <1>2. ReplayInit => Inv /\ Logged
    BY InvInit DEF ReplayInit, Logged
  <1>3. Inv /\ Logged /\ [ReplayNext]_replayVars => Inv' /\ Logged'
    <2>1. [ReplayNext]_replayVars => [Next]_vars
      BY DEF ReplayNext, replayVars
    <2> QED BY <2>1, InvNext, LoggedNext
  <1> QED BY <1>1, <1>2, <1>3, PTL DEF ReplaySpec

-----------------------------------------------------------------------------
(* The replay of a game in which every device runs this code and no        *)
(* message is lost.  The conversation then holds nothing a replay could    *)
(* stumble over.                                                           *)

Reliable == Faulty = {} /\ Lossy = {}

(* A device commits to its own secret and reveals that one, for a list     *)
(* that is in the conversation C; the leader lists only commitments that   *)
(* are in C.                                                               *)
Honest(m, C) ==
  /\ m.type = "COMMITMENT" => m.body.commitment = computeCommitment(m.sender)
  /\ m.type = "COMMITMENT_COMPLETE" =>
       /\ m.sender = Initiator /\ m.body.order = "sorted"
       /\ \A q \in Listed(m.body.players) :
            /\ m.body.players[q] = computeCommitment(q)
            /\ CommitmentMsg(q, computeCommitment(q)) \in C
  /\ m.type = "REVEAL" =>
       /\ m.body.secret = m.sender
       /\ \E c \in C : IsListing(c) /\ m.body.cch = hashUserDeviceCommitments(c.body.players)

(* What the Game g knows came out of the conversation C.                   *)
Learnt(g, C) ==
  /\ \A q \in Players : g.commitment[q] # None =>
       /\ g.commitment[q] = computeCommitment(q)
       /\ CommitmentMsg(q, computeCommitment(q)) \in C
  /\ g.gotCommitmentComplete =>
       \E c \in C : IsListing(c) /\ c.body.players = g.leaderCommitment
  /\ \A q \in Players : g.secret[q] # None =>
       RevealMsg(q, q, g.commitmentCompleteHash) \in C

(* C has a list and every reveal that it asks for.                         *)
Complete(C) ==
  \E c \in C :
    /\ IsListing(c) /\ Listed(c.body.players) # {}
    /\ \A q \in Listed(c.body.players) :
         RevealMsg(q, q, hashUserDeviceCommitments(c.body.players)) \in C

(* Nothing is said before the START, and all that is said is honest.       *)
Opened ==
  /\ chat = {} \/ StartMsg \in chat
  /\ StartMsg \in chat => status[Initiator] # "none"
  /\ \A p \in Players : StartMsg \in chat \/ (status[p] \in {"none", "gone"} /\ sends[p] = {})

Honesty ==
  /\ Opened
  /\ \A m \in chat : Honest(m, chat)
  /\ \A p \in Players : /\ \A m \in sends[p] : Honest(m, chat)
                        /\ Learnt(game[p], chat)
                        /\ result[p] # None => Complete(chat)

(* What the replay has made of the messages C, before and after the list.  *)
Collecting(g, C) ==
  /\ g.stage = "ROUND1" /\ ~g.gotCommitmentComplete /\ g.nPlayers = 0
  /\ \A q \in Players :
       /\ g.commitment[q] = IF CommitmentMsg(q, computeCommitment(q)) \in C
                            THEN computeCommitment(q) ELSE None
       /\ g.leaderCommitment[q] = None /\ g.secret[q] = None

Playing(g, C, L) ==
  /\ g.stage = "ROUND2" /\ g.leaderCommitment = L
  /\ g.commitmentCompleteHash = hashUserDeviceCommitments(L)
  /\ \A q \in Listed(L) :
       /\ g.commitment[q] = computeCommitment(q)
       /\ g.secret[q] = IF RevealMsg(q, q, hashUserDeviceCommitments(L)) \in C
                        THEN q ELSE None
  /\ Accounting(g)

(* The outcome r has been announced once the list has all its reveals.     *)
Announced(g, r) == Included(g) # {} /\ absentees(g) = {} => r = Outcome(g)

Follows(acc, C) ==
  /\ acc.err = "ok" /\ acc.game \in ReplayGame
  /\ \/ Collecting(acc.game, C) /\ \A c \in C : ~IsListing(c)
     \/ /\ Announced(acc.game, acc.result)
        /\ \E c \in C : IsListing(c) /\ Playing(acc.game, C, c.body.players)

(* A reveal of a device that is on the list in C.                          *)
AskedFor(m, C) ==
  /\ m.type = "REVEAL"
  /\ \E c \in C : IsListing(c) /\ m.sender \in Listed(c.body.players)

SomeLate(cut) == \E k \in 1..Len(log) : k > cut /\ AskedFor(log[k], chat)

(* The loop follows the conversation up to the first such reveal that is   *)
(* late, wherever the server's times put the cut.                          *)
FollowsUpTo(cut) ==
  LET end == runReplayLoop(log, cut) IN
  IF SomeLate(cut) THEN end.err = "RevealTooLate" ELSE Follows(end, chat)

ReplayFollows ==
  IF log = << >> THEN chat = {}
  ELSE Head(log) = StartMsg /\ \A cut \in Nat : FollowsUpTo(cut)

LEMMA OwnCommitment ==
  ASSUME NEW q \in Players
  PROVE  /\ computeCommitment(q) \in Commitment /\ computeCommitment(q) # None
         /\ \A r : computeCommitment(r) = computeCommitment(q) => r = q
  <1>1. computeCommitment(q) \in Commitment
    BY SecretsAssumption DEF Commitment
  <1>2. \A r : computeCommitment(r) = computeCommitment(q) => r = q
    BY DEF computeCommitment
  <1> QED BY <1>1, <1>2, NoneAssumption

(* A commitment before the list.                                           *)
LEMMA CollectCommitment ==
  ASSUME NEW g \in ReplayGame, NEW C, Collecting(g, C), NEW q \in Players,
         NEW m, m = CommitmentMsg(q, computeCommitment(q)), m \notin C
  PROVE  LET st == handleCommitment(g, q, computeCommitment(q)) IN
         /\ st.err = "ok" /\ st.game \in ReplayGame
         /\ Collecting(st.game, C \cup {m})
  <1> DEFINE com == computeCommitment(q)
  <1> DEFINE h == [g EXCEPT !.commitment[q] = com, !.latecomers = @ \ {q}]
  <1> DEFINE st == handleCommitment(g, q, com)
  <1>1. /\ g.commitment[q] = None /\ g.leaderCommitment[q] = None
        /\ ~g.gotCommitmentComplete
    BY DEF Collecting
  <1>2. com \in Commitment /\ ~ \E r \in Players : g.commitment[r] = com
    <2>1. com \in Commitment /\ com # None /\ \A r \in Players : computeCommitment(r) = com => r = q
      BY OwnCommitment
    <2>2. \A r \in Players : g.commitment[r] \in {None, computeCommitment(r)}
      BY DEF Collecting
    <2> HIDE DEF com
    <2> QED BY <1>1, <2>1, <2>2
  <1>3. /\ h.stage = g.stage /\ h.gotCommitmentComplete = g.gotCommitmentComplete
        /\ h.leaderCommitment = g.leaderCommitment /\ h.secret = g.secret
        /\ h.nPlayers = g.nPlayers
        /\ \A r \in Players : h.commitment[r] = IF r = q THEN com ELSE g.commitment[r]
    BY DEF ReplayGame, CommitmentList
  <1>4. h \in ReplayGame
    <2> HIDE DEF com
    <2> QED BY <1>2 DEF ReplayGame, CommitmentList
  <1>5. st = maybeReveal(h)
    BY <1>1, <1>2 DEF handleCommitment
  <1> SUFFICES /\ st.err = "ok" /\ st.game \in ReplayGame
               /\ Collecting(st.game, C \cup {m})
    OBVIOUS
  <1> HIDE DEF h, st
  <1>6. st.game = h /\ st.err = "ok"
    <2>1. st = Step(h, "ok", {})
      BY <1>1, <1>3, <1>5 DEF maybeReveal, Ok
    <2> QED BY <2>1, StepFields
  <1>7. \A r \in Players : CommitmentMsg(r, computeCommitment(r)) \in C \cup {m}
           <=> r = q \/ CommitmentMsg(r, computeCommitment(r)) \in C
    BY DEF CommitmentMsg, Msg
  <1>8. Collecting(h, C \cup {m})
    BY <1>3, <1>7 DEF Collecting
  <1> QED BY <1>4, <1>6, <1>8

(* The list, when all the commitments it has were there before it.         *)
LEMMA CollectList ==
  ASSUME NEW g \in ReplayGame, NEW C, Collecting(g, C), NEW L \in CommitmentList,
         NEW cc, cc.players = L, cc.order = "sorted",
         \A q \in Listed(L) : /\ L[q] = computeCommitment(q)
                              /\ CommitmentMsg(q, computeCommitment(q)) \in C,
         \A q \in Players : \A cch : RevealMsg(q, q, cch) \notin C
  PROVE  LET st == handleCommitmentComplete(g, Initiator, cc) IN
         /\ st.err = "ok" /\ st.game \in ReplayGame
         /\ Announced(st.game, None)
         /\ Playing(st.game, C, L)
  <1> DEFINE h == [g EXCEPT
           !.leaderCommitment = [q \in Players |-> IF q \in Listed(L) THEN L[q] ELSE @[q]],
           !.latecomers = @ \cup {q \in Listed(L) : g.commitment[q] = None},
           !.nPlayers = @ + Cardinality(Listed(L)),
           !.commitmentCompleteHash = hashUserDeviceCommitments(L),
           !.gotCommitmentComplete = TRUE]
  <1> DEFINE cch == hashUserDeviceCommitments(L)
  <1> DEFINE k == [g EXCEPT !.leaderCommitment = L, !.latecomers = {},
                            !.nPlayers = Cardinality(Listed(L)),
                            !.commitmentCompleteHash = cch, !.gotCommitmentComplete = TRUE]
  <1> DEFINE r == [k EXCEPT !.stage = "ROUND2", !.stageForTimeout = "ROUND2"]
  <1> DEFINE st == handleCommitmentComplete(g, Initiator, cc)
  <1> SUFFICES /\ st.err = "ok" /\ st.game \in ReplayGame
               /\ Announced(st.game, None) /\ Playing(st.game, C, L)
    OBVIOUS
  <1>0. Listed(L) \subseteq Players
    BY DEF Listed
  <1>1. \A q \in Listed(L) : g.commitment[q] = L[q] /\ L[q] # None
    BY <1>0 DEF Collecting, Listed
  <1>2. Included(g) = {} /\ g.latecomers = {} /\ g.nPlayers = 0
    BY DEF Included, Listed, Collecting, ReplayGame
  <1>3. {q \in Listed(L) : g.commitment[q] = None} = {}
    BY <1>1
  <1>4. [q \in Players |-> IF q \in Listed(L) THEN L[q] ELSE g.leaderCommitment[q]] = L
    BY DEF Listed, CommitmentList, Collecting
  <1>5. cch \in Hash /\ Cardinality(Listed(L)) \in Nat /\ IsFiniteSet(Listed(L))
    <2>1. IsFiniteSet(Listed(L))
      BY PlayersAssumption, <1>0, FS_Subset
    <2> QED BY <2>1, FS_CardinalityType DEF Hash
  <1>6. h = k
    <2>1. g.nPlayers + Cardinality(Listed(L)) = Cardinality(Listed(L))
      BY <1>2, <1>5
    <2> QED BY <1>2, <1>3, <1>4, <2>1
  <1>7. st = maybeReveal(h)
    <2>1. Listed(cc.players) \cap Included(g) = {} /\ cc.players = L
          /\ ~ \E q \in Listed(cc.players) : g.commitment[q] \notin {None, cc.players[q]}
      BY <1>1, <1>2
    <2> QED BY <2>1 DEF handleCommitmentComplete
  <1> HIDE DEF h, st, cch
  <1>8. k \in ReplayGame
    <2>1. PICK n : n = Cardinality(Listed(L))
      OBVIOUS
    <2>2. n \in Int /\ cch \in Hash
      BY <1>5, <2>1
    <2>3. k = [g EXCEPT !.leaderCommitment = L, !.latecomers = {}, !.nPlayers = n,
                        !.commitmentCompleteHash = cch, !.gotCommitmentComplete = TRUE]
      BY <2>1
    <2> HIDE DEF k
    <2> QED BY <2>2, <2>3 DEF ReplayGame
  <1>9. /\ k.leaderCommitment = L /\ k.latecomers = {} /\ k.nPlayers = Cardinality(Listed(L))
        /\ k.commitmentCompleteHash = cch /\ k.gotCommitmentComplete
        /\ k.commitment = g.commitment /\ k.secret = g.secret
    BY DEF ReplayGame
  <1> HIDE DEF k
  <1>10. r \in ReplayGame
    BY <1>8 DEF ReplayGame, Stage
  <1>11. /\ r.leaderCommitment = L /\ r.nPlayers = Cardinality(Listed(L))
         /\ r.commitmentCompleteHash = cch /\ r.stage = "ROUND2"
         /\ r.commitment = g.commitment /\ r.secret = g.secret
    BY <1>8, <1>9 DEF ReplayGame
  <1>12. PICK out : st = Step(r, "ok", out)
    BY <1>6, <1>7, <1>9 DEF maybeReveal
  <1> HIDE DEF r
  <1>13. st.game = r /\ st.err = "ok"
    BY <1>12, StepFields
  <1>14. Included(r) = Listed(L) /\ absentees(r) = Listed(L)
    BY <1>0, <1>11 DEF Included, absentees, Collecting
  <1>15. Playing(r, C, L)
    <2>1. \A q \in Listed(L) : r.commitment[q] = computeCommitment(q) /\ r.secret[q] = None
      BY <1>0, <1>1, <1>11 DEF Collecting
    <2>2. Accounting(r)
      BY <1>11, <1>14 DEF Accounting
    <2> QED BY <1>0, <1>11, <2>1, <2>2 DEF Playing, cch
  <1> QED BY <1>10, <1>13, <1>14, <1>15 DEF Announced

(* Reveals, after the list.                                                *)
LEMMA PlayReveal ==
  ASSUME NEW g \in ReplayGame, NEW C, NEW L \in CommitmentList, Playing(g, C, L),
         NEW r, Announced(g, r), NEW q \in Players, NEW late \in BOOLEAN, ~late,
         NEW m, m = RevealMsg(q, q, hashUserDeviceCommitments(L)), m \notin C
  PROVE  LET st == handleReveal(g, q, m.body, late) IN
         /\ st.err = "ok" /\ st.game \in ReplayGame
         /\ Playing(st.game, C \cup {m}, L)
         /\ Announced(st.game, IF st.result # None THEN st.result ELSE r)
  <1> DEFINE cch == hashUserDeviceCommitments(L)
  <1> DEFINE h == [g EXCEPT !.secret[q] = q, !.nPlayers = @ - 1]
  <1> DEFINE st == handleReveal(g, q, m.body, late)
  <1> SUFFICES /\ st.err = "ok" /\ st.game \in ReplayGame
               /\ Playing(st.game, C \cup {m}, L)
               /\ Announced(st.game, IF st.result # None THEN st.result ELSE r)
    OBVIOUS
  <1>0. Included(g) = Listed(L) /\ Listed(L) \subseteq Players
    BY DEF Included, Listed, Playing
  <1>1. m.body.secret = q /\ m.body.cch = cch
    BY DEF RevealMsg, Msg
  <1>2. \A s \in Players :
          RevealMsg(s, s, cch) \in C \cup {m} <=> s = q \/ RevealMsg(s, s, cch) \in C
    BY DEF RevealMsg, Msg
  <1> HIDE DEF cch
  <1>3. CASE q \notin Listed(L)
    <2>1. st = Step(g, "ok", {})
      BY <1>0, <1>3 DEF handleReveal, Ok
    <2> HIDE DEF st
    <2>2. st.game = g /\ st.err = "ok" /\ st.result = None
      BY <2>1, StepFields
    <2>3. Playing(g, C \cup {m}, L)
      BY <1>0, <1>2, <1>3 DEF Playing, cch
    <2> QED BY <2>2, <2>3
  <1>4. CASE q \in Listed(L)
    <2>1. /\ g.secret[q] = None /\ g.commitment[q] = computeCommitment(q)
          /\ g.commitmentCompleteHash = cch
      BY <1>4 DEF Playing, cch
    <2>2. st = IF h.nPlayers = 0 THEN finishGame(h) ELSE Ok(h)
      BY <1>0, <1>1, <1>4, <2>1 DEF handleReveal, setSecret
    <2> HIDE DEF st
    <2>3. h \in ReplayGame
      <3>1. g.nPlayers - 1 \in Int /\ [g.secret EXCEPT ![q] = q] \in Outcomes
        BY SecretsAssumption DEF ReplayGame, Outcomes
      <3>2. h = [g EXCEPT !.secret = [g.secret EXCEPT ![q] = q], !.nPlayers = g.nPlayers - 1]
        BY DEF ReplayGame
      <3> HIDE DEF h
      <3> QED BY <3>1, <3>2 DEF ReplayGame
    <2>4. /\ h.stage = g.stage /\ h.leaderCommitment = g.leaderCommitment
          /\ h.commitment = g.commitment /\ h.nPlayers = g.nPlayers - 1
          /\ h.commitmentCompleteHash = g.commitmentCompleteHash
          /\ \A s \in Players : h.secret[s] = IF s = q THEN q ELSE g.secret[s]
      BY DEF ReplayGame, Outcomes
    <2> HIDE DEF h
    <2>5. Included(h) = Listed(L)
      BY <1>0, <2>4 DEF Included
    <2>6. absentees(h) = absentees(g) \ {q} /\ q \in absentees(g)
      BY <1>0, <1>4, <2>1, <2>4, <2>5, NoneAssumption DEF absentees
    <2>7. IsFiniteSet(absentees(g)) /\ IsFiniteSet(absentees(h))
      BY <1>0, <2>6, PlayersAssumption, FS_Subset DEF absentees
    <2>8. Accounting(h)
      <3>1. Cardinality(absentees(h)) = Cardinality(absentees(g)) - 1
        BY <2>6, <2>7, FS_RemoveElement
      <3> QED BY <2>4, <3>1 DEF Playing, Accounting
    <2>9. Playing(h, C \cup {m}, L)
      <3>1. \A s \in Listed(L) :
              h.secret[s] = IF RevealMsg(s, s, cch) \in C \cup {m} THEN s ELSE None
        BY <1>0, <1>2, <2>4 DEF Playing, cch
      <3> QED BY <2>4, <2>8, <3>1 DEF Playing, cch
    <2>10. CASE h.nPlayers = 0
      <3>1. absentees(h) = {}
        BY <2>7, <2>8, <2>10, FS_EmptySet DEF Accounting
      <3>2. st = [Step(h, "ok", {EndMsg(h.me)}) EXCEPT !.result = Outcome(h)]
        BY <2>2, <2>10, <3>1 DEF finishGame, absentees
      <3>3. st.game = h /\ st.err = "ok" /\ st.result = Outcome(h)
        BY <3>2 DEF Step
      <3>4. Outcome(h) # None
        <4>1. Outcome(h) \in Outcomes
          BY <2>3 DEF Outcome, Outcomes, ReplayGame
        <4> QED BY <4>1, NoneAssumption
      <3> QED BY <2>3, <2>9, <3>3, <3>4 DEF Announced
    <2>11. CASE h.nPlayers # 0
      <3>1. st.game = h /\ st.err = "ok"
        BY <2>2, <2>11, StepFields DEF Ok
      <3>2. absentees(h) # {}
        BY <2>8, <2>11, FS_EmptySet DEF Accounting
      <3> QED BY <2>3, <2>9, <3>1, <3>2 DEF Announced
    <2> QED BY <2>10, <2>11
  <1> QED BY <1>3, <1>4

(* The step st of a replayed Game, with the outcome old before it, takes   *)
(* it to what the conversation D says.                                     *)
StepFollows(st, old, D) ==
  /\ st.err = "ok" /\ st.game \in ReplayGame
  /\ \/ Collecting(st.game, D) /\ \A c \in D : ~IsListing(c)
     \/ /\ Announced(st.game, IF st.result # None THEN st.result ELSE old)
        /\ \E c \in D : IsListing(c) /\ Playing(st.game, D, c.body.players)

(* What follows a conversation follows it when an honest message is added. *)
LEMMA FollowsMessage ==
  ASSUME NEW C \in SUBSET Message, NEW acc, Follows(acc, C), NEW late \in BOOLEAN, ~late,
         NEW m \in Message, m \notin C, m.type \notin {"START", "END"},
         \A c \in C \cup {m} : Honest(c, C),
         \A c, d \in C \cup {m} :
           IsListing(c) /\ IsListing(d) => c.body.players = d.body.players
  PROVE  StepFollows(handleMessage(acc.game, m, late), acc.result, C \cup {m})
  <1> DEFINE g == acc.game
  <1> DEFINE D == C \cup {m}
  <1> DEFINE st == handleMessage(g, m, late)
  <1> DEFINE new == IF st.result # None THEN st.result ELSE acc.result
  <1> DEFINE Goal == /\ st.err = "ok" /\ st.game \in ReplayGame
                     /\ \/ Collecting(st.game, D) /\ \A c \in D : ~IsListing(c)
                        \/ /\ Announced(st.game, new)
                           /\ \E c \in D : IsListing(c) /\ Playing(st.game, D, c.body.players)
  <1> SUFFICES Goal
    BY DEF StepFollows
  <1>1. g \in ReplayGame /\ Honest(m, C) /\ m.sender \in Players
    BY MessageShape DEF Follows
  <1>2. m.type \in {"COMMITMENT", "COMMITMENT_COMPLETE", "REVEAL"}
    BY MessageShape
  <1>3. CASE Collecting(g, C) /\ \A c \in C : ~IsListing(c)
    <2>1. CASE m.type = "COMMITMENT"
      <3>1. m = CommitmentMsg(m.sender, computeCommitment(m.sender))
            /\ m.body.commitment = computeCommitment(m.sender)
        BY <1>1, <2>1, MessageShape DEF Honest
      <3>2. st = handleCommitment(g, m.sender, computeCommitment(m.sender))
        BY <1>3, <2>1, <3>1 DEF handleMessage, Collecting
      <3> HIDE DEF st
      <3>3. st.err = "ok" /\ st.game \in ReplayGame /\ Collecting(st.game, D)
        BY <1>1, <1>3, <3>1, <3>2, CollectCommitment
      <3> QED BY <1>3, <2>1, <3>3 DEF IsListing
    <2>2. CASE m.type = "COMMITMENT_COMPLETE"
      <3> DEFINE L == m.body.players
      <3>1. L \in CommitmentList /\ m.body.order = "sorted" /\ IsListing(m) /\ m.sender = Initiator
        BY <1>1, <2>2, MessageShape DEF Honest, IsListing
      <3>2. st = handleCommitmentComplete(g, Initiator, m.body)
        BY <1>3, <2>2, <3>1 DEF handleMessage, Collecting
      <3>3. \A q \in Listed(L) : /\ L[q] = computeCommitment(q)
                                 /\ CommitmentMsg(q, computeCommitment(q)) \in C
        BY <1>1, <2>2 DEF Honest
      <3>4. \A c \in C : c.type # "REVEAL"
        BY <1>3 DEF Honest
      <3>5. \A q, cch : RevealMsg(q, q, cch).type = "REVEAL"
        BY DEF RevealMsg, Msg
      <3>6. \A q \in Players : \A cch : RevealMsg(q, q, cch) \notin D
        BY <2>2, <3>4, <3>5
      <3> HIDE DEF st, L
      <3>7. /\ st.err = "ok" /\ st.game \in ReplayGame
            /\ Announced(st.game, None) /\ Playing(st.game, C, L)
        BY <1>1, <1>3, <3>1, <3>2, <3>3, <3>6, CollectList DEF L
      <3>8. Playing(st.game, D, L)
        <4>1. Listed(L) \subseteq Players
          BY DEF Listed
        <4> QED BY <3>6, <3>7, <4>1 DEF Playing
      <3>9. Announced(st.game, new)
        <4>1. Included(st.game) # {} => absentees(st.game) # {}
          <5> SUFFICES ASSUME Included(st.game) # {}, absentees(st.game) = {} PROVE FALSE
            OBVIOUS
          <5>1. None = Outcome(st.game)
            BY <3>7 DEF Announced
          <5>2. Outcome(st.game) \in Outcomes
            BY <3>7 DEF Outcome, Outcomes, ReplayGame
          <5> QED BY <5>1, <5>2, NoneAssumption
        <4> QED BY <4>1 DEF Announced
      <3> QED BY <3>1, <3>7, <3>8, <3>9 DEF L
    <2>3. CASE m.type = "REVEAL"
      BY <1>1, <1>3, <2>3 DEF Honest
    <2> QED BY <1>2, <2>1, <2>2, <2>3
  <1>4. ASSUME Announced(g, acc.result), NEW c \in C, IsListing(c), Playing(g, C, c.body.players)
        PROVE  Goal
    <2> DEFINE L == c.body.players
    <2>0. L \in CommitmentList /\ c = CommitmentCompleteMsg(Initiator, L, "sorted")
      <3>1. Honest(c, C) /\ c \in Message
        OBVIOUS
      <3> QED BY <1>4, <3>1, MessageShape DEF Honest, IsListing
    <2>1. CASE m.type = "COMMITMENT"
      <3>1. st = Step(g, "ok", {})
        BY <1>4, <2>1 DEF handleMessage, Playing, Ok
      <3> HIDE DEF st
      <3>2. st.game = g /\ st.err = "ok" /\ st.result = None
        BY <3>1, StepFields
      <3>3. \A q, cch : RevealMsg(q, q, cch) \in D <=> RevealMsg(q, q, cch) \in C
        BY <2>1 DEF RevealMsg, Msg
      <3>4. Playing(g, D, L)
        BY <1>4, <3>3 DEF Playing
      <3> QED BY <1>1, <1>4, <3>2, <3>4
    <2>2. CASE m.type = "COMMITMENT_COMPLETE"
      <3>1. m.sender = Initiator /\ m.body.order = "sorted"
        BY <1>1, <2>2 DEF Honest
      <3>2. m = CommitmentCompleteMsg(Initiator, m.body.players, "sorted")
        BY <2>2, <3>1, MessageShape
      <3>3. m.body.players = L
        BY <1>4, <2>2, <3>1 DEF IsListing
      <3> QED BY <2>0, <3>2, <3>3
    <2>3. CASE m.type = "REVEAL"
      <3> DEFINE cch == hashUserDeviceCommitments(L)
      <3>1. PICK d \in C : IsListing(d) /\ m.body.cch = hashUserDeviceCommitments(d.body.players)
        BY <1>1, <2>3 DEF Honest
      <3>2. d.body.players = L
        BY <1>4, <3>1
      <3>3. m = RevealMsg(m.sender, m.sender, cch)
        BY <1>1, <2>3, <3>1, <3>2, MessageShape DEF Honest
      <3>4. st = handleReveal(g, m.sender, m.body, late)
        BY <1>4, <2>3 DEF handleMessage, Playing
      <3> HIDE DEF L, st
      <3>5. /\ st.err = "ok" /\ st.game \in ReplayGame
            /\ Playing(st.game, D, L) /\ Announced(st.game, new)
        BY <1>1, <1>4, <2>0, <3>3, <3>4, PlayReveal, SMTT(20) DEF L
      <3> QED BY <1>4, <3>5 DEF L
    <2> QED BY <1>2, <2>1, <2>2, <2>3
  <1> HIDE DEF Goal
  <1> QED BY <1>3, <1>4 DEF Follows

LEMMA FollowsStep ==
  ASSUME NEW C \in SUBSET Message, NEW acc, Follows(acc, C), NEW late \in BOOLEAN, ~late,
         NEW m \in Message, m \notin C, m.type \notin {"START", "END"},
         \A c \in C \cup {m} : Honest(c, C),
         \A c, d \in C \cup {m} :
           IsListing(c) /\ IsListing(d) => c.body.players = d.body.players
  PROVE  Follows(Replayed(acc, m, late), C \cup {m})
  <1> DEFINE st == handleMessage(acc.game, m, late)
  <1> DEFINE new == Replayed(acc, m, late)
  <1> DEFINE D == C \cup {m}
  <1>1. StepFollows(st, acc.result, D)
    BY FollowsMessage
  <1>2. acc.err = "ok"
    BY DEF Follows
  <1>3. ReplayMessage(acc.game, m, late) =
          IF st.game.latecomers # {} THEN Fail(acc.game, "panic") ELSE st
    BY DEF ReplayMessage
  <1> HIDE DEF st
  <1>4. ReplayMessage(acc.game, m, late) = st
    BY <1>1, <1>3 DEF StepFollows, ReplayGame
  <1>5. /\ new.game = st.game /\ new.err = st.err
        /\ new.result = IF st.result # None THEN st.result ELSE acc.result
    BY <1>2, <1>4 DEF Replayed
  <1> HIDE DEF new, D
  <1>6. Follows(new, D)
    BY <1>1, <1>5 DEF StepFollows, Follows
  <1> QED BY <1>6 DEF new, D

(* In round two the devices on the list are included.                      *)
LEMMA PlayersListed ==
  ASSUME NEW acc, NEW C, Follows(acc, C), NEW c \in C, IsListing(c),
         \A d, e \in C : IsListing(d) /\ IsListing(e) => d.body.players = e.body.players
  PROVE  acc.game.stage = "ROUND2" /\ Included(acc.game) = Listed(c.body.players)
  <1>1. PICK d \in C : IsListing(d) /\ Playing(acc.game, C, d.body.players)
    BY DEF Follows
  <1>2. acc.game.stage = "ROUND2" /\ acc.game.leaderCommitment = c.body.players
    BY <1>1 DEF Playing
  <1> QED BY <1>2 DEF Included

(* The replay stops at the late reveal of a device on the list...          *)
LEMMA LateFails ==
  ASSUME NEW acc, NEW C, Follows(acc, C), NEW m, AskedFor(m, C), NEW late \in BOOLEAN, late,
         \A d, e \in C : IsListing(d) /\ IsListing(e) => d.body.players = e.body.players
  PROVE  Replayed(acc, m, late).err = "RevealTooLate"
  <1> DEFINE st == handleMessage(acc.game, m, late)
  <1>1. PICK c \in C : IsListing(c) /\ m.sender \in Listed(c.body.players)
    BY DEF AskedFor
  <1>2. acc.game.stage = "ROUND2" /\ m.sender \in Included(acc.game)
    BY <1>1, PlayersListed
  <1>3. acc.err = "ok" /\ acc.game.latecomers = {} /\ m.type = "REVEAL"
    BY DEF Follows, ReplayGame, AskedFor
  <1>4. st = Fail(acc.game, "RevealTooLate")
    BY <1>2, <1>3 DEF handleMessage, handleReveal
  <1> DEFINE t == Step(acc.game, "RevealTooLate", {})
  <1>5. st = t /\ t.game = acc.game /\ t.err = "RevealTooLate"
    <2>1. t.game = acc.game /\ t.err = "RevealTooLate"
      BY DEF Step
    <2>2. st = t
      BY <1>4, Zenon DEF Fail
    <2> QED BY <2>1, <2>2, Zenon
  <1>6. ReplayMessage(acc.game, m, late) =
          IF st.game.latecomers # {} THEN Fail(acc.game, "panic") ELSE st
    BY Zenon DEF ReplayMessage
  <1> HIDE DEF st, t
  <1>7. ReplayMessage(acc.game, m, late) = t
    BY <1>3, <1>5, <1>6
  <1> QED BY <1>3, <1>5, <1>7 DEF Replayed

(* ... and for no other message does it matter whether it is late.         *)
LEMMA LateIsNoMatter ==
  ASSUME NEW acc, NEW C, Follows(acc, C), NEW m \in Message, ~AskedFor(m, C),
         m.type \notin {"START", "END"},
         \A d, e \in C : IsListing(d) /\ IsListing(e) => d.body.players = e.body.players
  PROVE  Replayed(acc, m, TRUE) = Replayed(acc, m, FALSE)
  <1>1. handleMessage(acc.game, m, TRUE) = handleMessage(acc.game, m, FALSE)
    <2>1. CASE m.type # "REVEAL"
      <3>1. m.type \in {"COMMITMENT", "COMMITMENT_COMPLETE"}
        BY <2>1, MessageShape
      <3> QED BY <3>1 DEF handleMessage
    <2>2. CASE m.type = "REVEAL" /\ acc.game.stage # "ROUND2"
      BY <2>2 DEF handleMessage
    <2>3. CASE m.type = "REVEAL" /\ acc.game.stage = "ROUND2"
      <3>1. PICK c \in C : IsListing(c) /\ Playing(acc.game, C, c.body.players)
        BY <2>3 DEF Follows, Collecting
      <3>2. m.sender \notin Included(acc.game)
        BY <2>3, <3>1, PlayersListed DEF AskedFor
      <3> QED BY <2>3, <3>2 DEF handleMessage, handleReveal
    <2> QED BY <2>1, <2>2, <2>3
  <1>2. ReplayMessage(acc.game, m, TRUE) = ReplayMessage(acc.game, m, FALSE)
    BY <1>1, Zenon DEF ReplayMessage
  <1> QED BY <1>2, Zenon DEF Replayed

(* One more message.                                                       *)
LEMMA LoopAppend ==
  ASSUME NEW S, NEW hist \in Seq(S), hist # << >>, NEW m \in S, NEW cut \in Nat
  PROVE  \E late \in BOOLEAN :
           /\ late <=> Len(hist) + 1 > cut
           /\ runReplayLoop(Append(hist, m), cut) = Replayed(runReplayLoop(hist, cut), m, late)
  <1> DEFINE n == Len(hist)
  <1> DEFINE more == Append(hist, m)
  <1>1. n \in Nat \ {0} /\ more \in Seq(S) /\ Len(more) = n + 1 /\ more[n + 1] = m
        /\ \A k \in 1..n : more[k] = hist[k]
    OBVIOUS
  <1> HIDE DEF more
  <1>2. PICK f : Runs(f, n, hist, cut) /\ runReplayLoop(hist, cut) = f[n]
    BY <1>1, LoopRuns
  <1>3. PICK g : Runs(g, n + 1, more, cut) /\ runReplayLoop(more, cut) = g[n + 1]
    BY <1>1, LoopRuns
  <1>4. \A k \in 1..n : f[k] = Loop(f, hist, cut, k)
    BY <1>2 DEF Runs
  <1>5. \A k \in 1..(n + 1) : g[k] = Loop(g, more, cut, k)
    BY <1>3 DEF Runs
  <1>6. \A k \in 1..n : f[k] = g[k]
    <2> DEFINE B == {k \in 1..n : f[k] # g[k]}
    <2> SUFFICES ASSUME B # {} PROVE FALSE
      OBVIOUS
    <2>1. PICK k \in B : \A j \in B : k <= j
      <3>1. B \in SUBSET Nat
        OBVIOUS
      <3> HIDE DEF B
      <3> QED BY <3>1, LeastNumber
    <2>2. k \in 1..n /\ k \in 1..(n + 1)
      BY <1>1
    <2>3. k = 1 => f[k] = g[k]
      BY <1>4, <1>5, <2>2 DEF Loop
    <2>4. ASSUME k # 1 PROVE f[k] = g[k]
      <3>1. k - 1 \in 1..n /\ k - 1 \notin B
        BY <2>1, <2>4
      <3>2. f[k - 1] = g[k - 1] /\ more[k] = hist[k]
        BY <1>1, <2>2, <3>1
      <3>3. /\ f[k] = Replayed(f[k - 1], hist[k], k > cut)
            /\ g[k] = Replayed(g[k - 1], more[k], k > cut)
        BY <1>4, <1>5, <2>2, <2>4 DEF Loop
      <3> QED BY <3>2, <3>3, Zenon
    <2> QED BY <2>1, <2>3, <2>4
  <1>7. g[n + 1] = Replayed(f[n], m, n + 1 > cut)
    <2>1. n + 1 \in 1..(n + 1) /\ n + 1 # 1 /\ n + 1 - 1 = n /\ n \in 1..n
      BY <1>1
    <2>2. g[n + 1] = Replayed(g[n + 1 - 1], more[n + 1], n + 1 > cut)
      BY <1>5, <2>1 DEF Loop
    <2> QED BY <1>1, <1>6, <2>1, <2>2, Zenon
  <1>8. (n + 1 > cut) \in BOOLEAN
    BY <1>1
  <1>9. runReplayLoop(more, cut) = Replayed(runReplayLoop(hist, cut), m, n + 1 > cut)
    BY <1>2, <1>3, <1>7
  <1> QED BY <1>8, <1>9, Zenon DEF more

(* The START alone.                                                        *)
LEMMA LoopStart ==
  ASSUME NEW S, NEW m \in S, NEW cut
  PROVE  runReplayLoop(<<m>>, cut) = Begun
  <1>1. Len(<<m>>) = 1
    OBVIOUS
  <1>2. PICK f : Runs(f, 1, <<m>>, cut) /\ runReplayLoop(<<m>>, cut) = f[1]
    BY <1>1, LoopRuns
  <1>3. f[1] = Begun
    BY <1>2 DEF Runs, Loop
  <1> QED BY <1>2, <1>3

LEMMA FollowsStart == Follows(Begun, {StartMsg})
  <1>1. Begun.game = NewGame(None, FALSE) /\ Begun.err = "ok"
    BY DEF Begun
  <1>2. NewGame(None, FALSE) \in ReplayGame
    BY DEF NewGame, ReplayGame, Stage, CommitmentList, Outcomes
  <1>3. Collecting(NewGame(None, FALSE), {StartMsg})
    <2>1. \A q : CommitmentMsg(q, computeCommitment(q)) # StartMsg
      BY DEF CommitmentMsg, StartMsg, Msg
    <2> QED BY <2>1 DEF Collecting, NewGame
  <1>4. ~IsListing(StartMsg)
    BY DEF IsListing, StartMsg, Msg
  <1> QED BY <1>1, <1>2, <1>3, <1>4 DEF Follows

-----------------------------------------------------------------------------
(* The conversation of devices that run this code, without loss.          *)
(* What was honest, learnt or complete remains so as the conversation grows. *)
LEMMA Grows ==
  ASSUME NEW C, NEW D, C \subseteq D
  PROVE  /\ \A m : Honest(m, C) => Honest(m, D)
         /\ \A g : Learnt(g, C) => Learnt(g, D)
         /\ Complete(C) => Complete(D)
  <1>1. ASSUME NEW m, Honest(m, C) PROVE Honest(m, D)
    BY <1>1 DEF Honest
  <1>2. ASSUME NEW g, Learnt(g, C) PROVE Learnt(g, D)
    BY <1>2 DEF Learnt
  <1>3. Complete(C) => Complete(D)
    BY DEF Complete
  <1> QED BY <1>1, <1>2, <1>3

LEMMA NewGameLearnt ==
  ASSUME NEW p, NEW b, NEW C
  PROVE  Learnt(NewGame(p, b), C)
  <1>1. /\ ~NewGame(p, b).gotCommitmentComplete
        /\ \A q \in Players : NewGame(p, b).commitment[q] = None /\ NewGame(p, b).secret[q] = None
    BY DEF NewGame
  <1> QED BY <1>1 DEF Learnt

(* What a Game learns from a message of the conversation.                  *)
LEMMA LearntStep ==
  ASSUME NEW g, GameInv(g), NEW C, Learnt(g, C), NEW m \in Message, m \in C, Honest(m, C),
         NEW st, Frame(g, m, st), GameInv(st.game), NEW L \in CommitmentList,
         \A c \in C : IsListing(c) => c.body.players = L,
         st.game.gotCommitmentComplete => st.game.leaderCommitment = L
  PROVE  Learnt(st.game, C)
  <1>1. ASSUME NEW q \in Players, st.game.commitment[q] # None
        PROVE  /\ st.game.commitment[q] = computeCommitment(q)
               /\ CommitmentMsg(q, computeCommitment(q)) \in C
    <2>1. CASE st.game.commitment[q] = g.commitment[q]
      BY <1>1, <2>1 DEF Learnt
    <2>2. CASE m = CommitmentMsg(q, st.game.commitment[q])
      <3>1. m.type = "COMMITMENT" /\ m.sender = q /\ m.body.commitment = st.game.commitment[q]
        BY <2>2 DEF CommitmentMsg, Msg
      <3>2. st.game.commitment[q] = computeCommitment(q)
        BY <3>1 DEF Honest
      <3> QED BY <2>2, <3>2
    <2> QED BY <2>1, <2>2 DEF Frame
  <1>2. ASSUME st.game.gotCommitmentComplete
        PROVE  \E c \in C : IsListing(c) /\ c.body.players = st.game.leaderCommitment
    <2>1. CASE IsListing(m)
      BY <1>2, <2>1
    <2>2. CASE ~IsListing(m)
      BY <1>2, <2>2 DEF Frame, Learnt, IsListing
    <2> QED BY <2>1, <2>2
  <1>3. ASSUME NEW q \in Players, st.game.secret[q] # None
        PROVE  RevealMsg(q, q, st.game.commitmentCompleteHash) \in C
    <2>1. CASE g.stage = "ROUND1"
      <3>1. g.secret[q] = None /\ ~(g.stage = "ROUND2")
        BY <2>1 DEF GameInv
      <3> QED BY <1>3, <3>1 DEF Frame
    <2>2. CASE g.stage = "ROUND2"
      <3>1. st.game.commitmentCompleteHash = g.commitmentCompleteHash
        BY <2>2 DEF Frame
      <3>2. CASE st.game.secret[q] = g.secret[q]
        BY <1>3, <3>1, <3>2 DEF Learnt
      <3>3. CASE m = RevealMsg(q, st.game.secret[q], g.commitmentCompleteHash)
        <4>1. m.type = "REVEAL" /\ m.sender = q /\ m.body.secret = st.game.secret[q]
          BY <3>3 DEF RevealMsg, Msg
        <4>2. st.game.secret[q] = q
          BY <4>1 DEF Honest
        <4> QED BY <3>1, <3>3, <4>2
      <3> QED BY <3>2, <3>3 DEF Frame
    <2> QED BY <2>1, <2>2 DEF GameInv, Game, Stage
  <1> QED BY <1>1, <1>2, <1>3 DEF Learnt

(* The message m that p's Dealer hands to p's Game is in the conversation  *)
(* afterwards, unless the Game is not there or it is the END.              *)
Passed(p, m) ==
  /\ m \in chat \cup sends[p]
  /\ chat \subseteq chat' /\ chat' \subseteq chat \cup {m}
  /\ status[p] = "run" /\ m.type # "END" => m \in chat'

LEMMA HandToGameHonest ==
  ASSUME Reliable, Inv, Inv', Honesty, NEW p \in Players, NEW m \in Message,
         NEW late \in BOOLEAN, HandToGame(p, m, late), Passed(p, m)
  PROVE  Honesty'
  <1> USE InitiatorAssumption DEF Reliable
  <1> DEFINE g == game[p]
             step == handleMessage(g, m, late)
  <1>t. /\ game \in [Players -> Game] /\ game' \in [Players -> Game]
        /\ status \in [Players -> {"none", "run", "drain", "gone"}]
        /\ sends \in [Players -> SUBSET Message]
        /\ result \in [Players -> Outcomes \cup {None}]
        /\ g \in Game /\ g.me = p /\ GameInv(g) /\ GameInv(game'[p])
    BY DEF Inv, LocalInv, LocalOK, TypeOK
  <1>c. chat \subseteq chat' /\ chat' \subseteq chat \cup {m}
    BY DEF Passed
  <1>g. /\ \A x : Honest(x, chat) => Honest(x, chat')
        /\ \A x : Learnt(x, chat) => Learnt(x, chat')
        /\ Complete(chat) => Complete(chat')
    BY <1>c, Grows
  <1>m. Honest(m, chat')
    BY <1>g DEF Passed, Honesty
  <1>s. StartMsg \in chat /\ StartMsg \in chat'
    BY <1>c DEF Passed, Honesty, Opened
  <1>h. \A x \in chat' : Honest(x, chat')
    BY <1>c, <1>g, <1>m DEF Honesty
  <1>1. CASE status[p] # "run"
    <2>1. /\ UNCHANGED <<status, game, result, err>>
          /\ sends' = [sends EXCEPT ![p] = @ \ {m}]
      BY <1>1 DEF HandToGame
    <2>2. \A q \in Players : sends'[q] \subseteq sends[q]
      BY <1>t, <2>1
    <2>3. Opened'
      BY <1>s, <2>1 DEF Honesty, Opened
    <2> QED BY <1>g, <1>h, <2>1, <2>2, <2>3 DEF Honesty
  <1>2. CASE status[p] = "run"
    <2>1. Apply(p, step) /\ sends' = [sends EXCEPT ![p] = (@ \ {m}) \cup step.sends]
      BY <1>2 DEF HandToGame
    <2>2. IF step.err = "ok" THEN Frame(g, m, step) ELSE step.sends = {} /\ step.result = None
      <3>1. step.err = "ok" => Frame(g, m, step)
        BY <1>t, HandleMessageFrame
      <3>2. step.err # "ok" => step.sends = {} /\ step.result = None
        BY HandleMessageFailure
      <3> QED BY <3>1, <3>2
    <2>e. step.err = "ok" => m.type # "END"
      BY DEF handleMessage, Fail, Step
    <2> HIDE DEF step
    <2>3. /\ \A q \in Players \ {p} : /\ game'[q] = game[q] /\ status'[q] = status[q]
                                      /\ result'[q] = result[q] /\ sends'[q] = sends[q]
          /\ game'[p] = IF step.err = "ok" THEN step.game ELSE NewGame(p, FALSE)
          /\ status'[p] = IF step.err = "ok" THEN "run" ELSE "drain"
          /\ result'[p] = IF step.result # None THEN step.result ELSE result[p]
          /\ sends'[p] = (sends[p] \ {m}) \cup step.sends
      BY <1>2, <1>t, <2>1 DEF Apply
    <2>4. PICK L \in CommitmentList : Bound(L)'
      BY DEF Inv, Listing
    <2>5. /\ \A c \in chat' : IsListing(c) => c.body.players = L
          /\ game'[p].gotCommitmentComplete =>
               /\ game'[p].leaderCommitment = L
               /\ game'[p].commitmentCompleteHash = hashUserDeviceCommitments(L)
      BY <2>4 DEF Bound
    <2>6. Learnt(game'[p], chat')
      <3>1. CASE step.err # "ok"
        <4>1. Learnt(NewGame(p, FALSE), chat')
          BY NewGameLearnt
        <4> QED BY <2>3, <3>1, <4>1
      <3>2. CASE step.err = "ok"
        <4>1. game'[p] = step.game /\ m \in chat' /\ Frame(g, m, step)
          BY <1>2, <2>2, <2>3, <2>e, <3>2 DEF Passed
        <4>2. Learnt(g, chat')
          BY <1>g DEF Honesty
        <4> QED BY <1>t, <1>m, <2>5, <4>1, <4>2, LearntStep
      <3> QED BY <3>1, <3>2
    <2>7. game'[p].gotCommitmentComplete =>
            \E c \in chat' : /\ IsListing(c) /\ c.body.players = L
                             /\ game'[p].leaderCommitment = L
                             /\ game'[p].commitmentCompleteHash = hashUserDeviceCommitments(L)
      BY <2>5, <2>6 DEF Learnt
    <2>8. ASSUME NEW x \in step.sends PROVE Honest(x, chat')
      <3>1. step.err = "ok" /\ game'[p] = step.game
        BY <2>2, <2>3
      <3>2. CASE x = EndMsg(p)
        BY <3>2 DEF Honest, EndMsg, Msg
      <3>3. CASE x = RevealMsg(p, p, game'[p].commitmentCompleteHash) /\ game'[p].stage = "ROUND2"
        <4>1. x.type = "REVEAL" /\ x.sender = p /\ x.body.secret = p
              /\ x.body.cch = game'[p].commitmentCompleteHash
          BY <3>3 DEF RevealMsg, Msg
        <4>2. game'[p].gotCommitmentComplete
          BY <1>t, <3>3, RoundTwoFacts
        <4> QED BY <2>7, <4>1, <4>2 DEF Honest
      <3> QED BY <1>t, <2>2, <3>1, <3>2, <3>3 DEF Frame
    <2>9. ASSUME step.result # None PROVE Complete(chat')
      <3>1. step.err = "ok" /\ game'[p] = step.game /\ Frame(g, m, step)
        BY <2>2, <2>3, <2>9
      <3>2. /\ game'[p].stage = "ROUND2" /\ Included(game'[p]) # {}
            /\ \A q \in Included(game'[p]) : game'[p].secret[q] # None
        BY <2>9, <3>1 DEF Frame
      <3>3. game'[p].gotCommitmentComplete
        BY <1>t, <3>2, RoundTwoFacts
      <3>4. PICK c \in chat' : /\ IsListing(c) /\ c.body.players = L
                               /\ game'[p].leaderCommitment = L
                               /\ game'[p].commitmentCompleteHash = hashUserDeviceCommitments(L)
        BY <2>7, <3>3
      <3>5. Included(game'[p]) = Listed(L) /\ Listed(L) \subseteq Players
        BY <3>4 DEF Included, Listed
      <3>6. \A q \in Listed(L) : RevealMsg(q, q, hashUserDeviceCommitments(L)) \in chat'
        BY <2>6, <3>2, <3>4, <3>5 DEF Learnt
      <3> QED BY <3>2, <3>4, <3>5, <3>6 DEF Complete
    <2>10. Opened'
      <3>1. status'[Initiator] # "none"
        BY <1>s, <2>3 DEF Honesty, Opened
      <3> QED BY <1>s, <3>1 DEF Opened
    <2>11. ASSUME NEW q \in Players
           PROVE  /\ \A x \in sends'[q] : Honest(x, chat')
                  /\ Learnt(game'[q], chat')
                  /\ result'[q] # None => Complete(chat')
      <3>1. CASE q # p
        BY <1>g, <2>3, <3>1 DEF Honesty
      <3>2. CASE q = p
        BY <1>g, <2>3, <2>6, <2>8, <2>9, <3>2 DEF Honesty
      <3> QED BY <3>1, <3>2
    <2> QED BY <1>h, <2>10, <2>11 DEF Honesty
  <1> QED BY <1>1, <1>2

LEMMA HonestyInit == Init => Honesty
  <1> SUFFICES ASSUME Init PROVE Honesty
    OBVIOUS
  <1>1. \A p \in Players : Learnt(game[p], chat)
    <2>1. \A p \in Players : Learnt(NewGame(p, FALSE), chat)
      BY NewGameLearnt
    <2> QED BY <2>1 DEF Init
  <1> QED BY <1>1, InitiatorAssumption DEF Init, Honesty, Opened, StartMsg

(* A device joins the game or refuses it.                                  *)
LEMMA RegisterHonest ==
  ASSUME Inv, Honesty, NEW p \in Players, NEW b \in BOOLEAN,
         \/ RegisterGame(p, b) /\ StartMsg \in chat'
         \/ RefuseStart(p) /\ chat' = chat,
         chat \subseteq chat', chat' \subseteq chat \cup {StartMsg},
         p = Initiator \/ StartMsg \in chat
  PROVE  Honesty'
  <1> USE InitiatorAssumption
  <1>t. /\ game \in [Players -> Game] /\ sends \in [Players -> SUBSET Message]
        /\ status \in [Players -> {"none", "run", "drain", "gone"}]
    BY DEF Inv, LocalInv, TypeOK
  <1>g. /\ \A x : Honest(x, chat) => Honest(x, chat')
        /\ \A x : Learnt(x, chat) => Learnt(x, chat')
        /\ Complete(chat) => Complete(chat')
    BY Grows
  <1>1. Honest(StartMsg, chat')
    BY DEF Honest, StartMsg, Msg
  <1>2. \A x \in chat' : Honest(x, chat')
    BY <1>g, <1>1 DEF Honesty
  <1>3. CASE RegisterGame(p, b) /\ StartMsg \in chat'
    <2> DEFINE m == CommitmentMsg(p, computeCommitment(p))
    <2>1. /\ status' = [status EXCEPT ![p] = "run"] /\ game' = [game EXCEPT ![p] = NewGame(p, b)]
          /\ sends' = [sends EXCEPT ![p] = IF b THEN @ ELSE @ \cup {m}] /\ result' = result
      BY <1>3 DEF RegisterGame
    <2>2. Honest(m, chat')
      BY DEF Honest, CommitmentMsg, Msg
    <2> HIDE DEF m
    <2>3. \A q \in Players : \A x \in sends'[q] : Honest(x, chat')
      BY <1>g, <1>t, <2>1, <2>2 DEF Honesty
    <2>4. \A q \in Players : Learnt(game'[q], chat')
      <3>1. Learnt(NewGame(p, b), chat')
        BY NewGameLearnt
      <3> QED BY <1>g, <1>t, <2>1, <3>1 DEF Honesty
    <2>5. Opened'
      <3>1. status'[Initiator] # "none"
        BY <1>t, <2>1 DEF Honesty, Opened
      <3> QED BY <1>3, <3>1 DEF Opened
    <2> QED BY <1>g, <1>2, <2>1, <2>3, <2>4, <2>5 DEF Honesty
  <1>4. CASE RefuseStart(p) /\ chat' = chat
    <2>1. status' = [status EXCEPT ![p] = "gone"] /\ UNCHANGED <<game, sends, result, chat>>
      BY <1>4 DEF RefuseStart
    <2>2. Opened'
      BY <1>t, <2>1 DEF Honesty, Opened
    <2> QED BY <1>2, <2>1, <2>2 DEF Honesty
  <1> QED BY <1>3, <1>4

LEMMA TimerHonest ==
  ASSUME Inv, Honesty, NEW p \in Players, TimerEvent(p)
  PROVE  Honesty'
  <1> USE InitiatorAssumption
  <1> DEFINE g == game[p]
             step == handleTimerEvent(g)
             cc == CommitmentCompleteMsg(p, g.commitment, "sorted")
  <1>t. /\ game \in [Players -> Game] /\ sends \in [Players -> SUBSET Message]
        /\ status \in [Players -> {"none", "run", "drain", "gone"}]
        /\ result \in [Players -> Outcomes \cup {None}]
        /\ g \in Game /\ g.me = p
    BY DEF Inv, LocalInv, LocalOK, TypeOK
  <1>a. /\ Apply(p, step) /\ status[p] = "run" /\ chat' = chat
        /\ sends' = [sends EXCEPT ![p] = @ \cup step.sends]
    BY DEF TimerEvent
  <1>1. step.result = None /\ \A x \in step.sends : Honest(x, chat)
    <2>1. CASE p = Initiator /\ g.stageForTimeout = "ROUND1"
      <3>1. step.result = None /\ step.sends = {cc}
        BY <1>t, <2>1 DEF handleTimerEvent, completeCommitments, Step
      <3>2. /\ cc.type = "COMMITMENT_COMPLETE" /\ cc.sender = Initiator
            /\ cc.body.players = g.commitment /\ cc.body.order = "sorted"
        BY <2>1 DEF CommitmentCompleteMsg, Msg
      <3> HIDE DEF cc
      <3>3. \A q \in Listed(g.commitment) :
              /\ g.commitment[q] = computeCommitment(q)
              /\ CommitmentMsg(q, computeCommitment(q)) \in chat
        BY DEF Honesty, Learnt, Listed
      <3>4. Honest(cc, chat)
        BY <3>2, <3>3 DEF Honest
      <3> QED BY <3>1, <3>4
    <2>2. CASE ~(p = Initiator /\ g.stageForTimeout = "ROUND1")
      BY <1>t, <2>2 DEF handleTimerEvent, Fail, Step
    <2> QED BY <2>1, <2>2
  <1>2. step.err = "ok" => step.game = [g EXCEPT !.stageForTimeout = "ROUND2"]
    BY <1>t DEF handleTimerEvent, completeCommitments, Fail, Step
  <1> HIDE DEF step
  <1>3. /\ game' = [game EXCEPT ![p] = IF step.err = "ok" THEN step.game ELSE NewGame(p, FALSE)]
        /\ status' = [status EXCEPT ![p] = IF step.err = "ok" THEN "run" ELSE "drain"]
        /\ result' = result
    BY <1>a, <1>t, <1>1 DEF Apply
  <1>4. Learnt(game'[p], chat)
    <2>1. CASE step.err = "ok"
      <3> DEFINE h == [g EXCEPT !.stageForTimeout = "ROUND2"]
      <3>1. /\ h.commitment = g.commitment /\ h.gotCommitmentComplete = g.gotCommitmentComplete
            /\ h.leaderCommitment = g.leaderCommitment /\ h.secret = g.secret
            /\ h.commitmentCompleteHash = g.commitmentCompleteHash
        BY <1>t DEF Game
      <3>2. game'[p] = h
        BY <1>2, <1>3, <1>t, <2>1
      <3> HIDE DEF h
      <3>3. Learnt(h, chat)
        BY <3>1 DEF Honesty, Learnt
      <3> QED BY <3>2, <3>3
    <2>2. CASE step.err # "ok"
      <3>1. Learnt(NewGame(p, FALSE), chat)
        BY NewGameLearnt
      <3> QED BY <1>3, <1>t, <2>2, <3>1
    <2> QED BY <2>1, <2>2
  <1>5. \A q \in Players : Learnt(game'[q], chat)
    BY <1>3, <1>4, <1>t DEF Honesty
  <1>6. \A q \in Players : \A x \in sends'[q] : Honest(x, chat)
    BY <1>1, <1>a, <1>t DEF Honesty
  <1>7. Opened'
    BY <1>3, <1>a, <1>t DEF Honesty, Opened
  <1> QED BY <1>3, <1>5, <1>6, <1>7, <1>a DEF Honesty

LEMMA HonestyNext == Reliable /\ Inv /\ Honesty /\ [Next]_vars => Honesty'
  <1> SUFFICES ASSUME Reliable, Inv, Honesty, [Next]_vars PROVE Honesty'
    OBVIOUS
  <1> USE InitiatorAssumption
  <1>0. Inv' /\ Correct = Players /\ Faulty = {} /\ Lossy = {}
    BY InvNext DEF Reliable
  <1>t. chat \subseteq Message /\ \A p \in Players : sends[p] \subseteq Message
    BY DEF Inv, LocalInv, TypeOK
  <1>s. \A m : SendChat(m) => chat' = chat \cup {m}
    BY <1>0 DEF SendChat
  <1>1. CASE startFlip
    <2>1. CASE RegisterGame(Initiator, FALSE) /\ SendChat(StartMsg)
      <3>1. PICK b \in BOOLEAN : RegisterGame(Initiator, b)
        BY <2>1, Zenon
      <3>2. chat' = chat \cup {StartMsg}
        BY <1>s, <2>1
      <3>3. /\ StartMsg \in chat' /\ chat \subseteq chat'
            /\ chat' \subseteq chat \cup {StartMsg} /\ Initiator \in Players
        BY <3>2
      <3> QED BY <3>1, <3>3, RegisterHonest
    <2>2. CASE RefuseStart(Initiator) /\ chat' = chat
      <3>1. PICK b \in BOOLEAN : TRUE
        OBVIOUS
      <3> QED BY <2>2, RegisterHonest
    <2> QED BY <1>1, <2>1, <2>2 DEF startFlip
  <1>2. ASSUME NEW p \in Players, ReceiveStart(p) PROVE Honesty'
    BY <1>2, RegisterHonest DEF ReceiveStart
  <1>3. ASSUME NEW p \in Players, DealOwn(p) PROVE Honesty'
    <2>1. PICK m \in sends[p], late \in BOOLEAN :
            /\ HandToGame(p, m, late)
            /\ IF status[p] \in {"run", "drain"} /\ isForwardable(m)
               THEN chat' = chat \cup {m} ELSE chat' = chat
      BY <1>3, <1>s DEF DealOwn
    <2>2. Passed(p, m) /\ m \in Message
      BY <1>t, <2>1 DEF Passed, isForwardable
    <2> QED BY <1>0, <2>1, <2>2, HandToGameHonest
  <1>4. ASSUME NEW p \in Players, DealIncoming(p) PROVE Honesty'
    <2>1. PICK m \in chat, late \in BOOLEAN : HandToGame(p, m, late) /\ chat' = chat
      BY <1>4 DEF DealIncoming
    <2>2. Passed(p, m) /\ m \in Message
      BY <1>t, <2>1 DEF Passed
    <2> QED BY <1>0, <2>1, <2>2, HandToGameHonest
  <1>5. ASSUME NEW p \in Players, TimerEvent(p) PROVE Honesty'
    BY <1>5, TimerHonest
  <1>6. ASSUME NEW p \in Players, Unregister(p) PROVE Honesty'
    <2>1. /\ status' = [status EXCEPT ![p] = "gone"] /\ UNCHANGED <<game, sends, chat, result>>
      BY <1>6 DEF Unregister
    <2>2. status \in [Players -> {"none", "run", "drain", "gone"}]
      BY DEF Inv, LocalInv, TypeOK
    <2>3. Opened'
      BY <2>1, <2>2 DEF Honesty, Opened
    <2> QED BY <2>1, <2>3 DEF Honesty
  <1>7. CASE UNCHANGED vars
    BY <1>7 DEF vars, Honesty, Opened
  <1> QED BY <1>0, <1>1, <1>2, <1>3, <1>4, <1>5, <1>6, <1>7 DEF Next

(* What a step adds to the conversation.                                   *)
LEMMA OneMessage ==
  ASSUME Reliable, Inv, Honesty, Next, chat' # chat
  PROVE  \E m : /\ m \notin chat /\ chat' = chat \cup {m}
                /\ \/ m = StartMsg /\ chat = {}
                   \/ /\ StartMsg \in chat
                      /\ m \in Message /\ m.type \notin {"START", "END"} /\ Honest(m, chat)
  <1> USE InitiatorAssumption
  <1>0. Correct = Players /\ Faulty = {} /\ Lossy = {}
    BY DEF Reliable
  <1>t. \A p \in Players : sends[p] \subseteq Message
    BY DEF Inv, LocalInv, TypeOK
  <1>s. \A m : SendChat(m) => chat' = chat \cup {m}
    BY <1>0 DEF SendChat
  <1>1. CASE startFlip
    <2>1. status[Initiator] = "none" /\ chat' = chat \cup {StartMsg}
      BY <1>1, <1>s DEF startFlip, RegisterGame
    <2>2. chat = {}
      BY <2>1 DEF Honesty, Opened
    <2> QED BY <2>1, <2>2
  <1>2. ASSUME NEW p \in Players, DealOwn(p)
        PROVE  \E m : /\ m \notin chat /\ chat' = chat \cup {m}
                      /\ StartMsg \in chat
                      /\ m \in Message /\ m.type \notin {"START", "END"} /\ Honest(m, chat)
    <2>1. PICK m \in sends[p] : isForwardable(m) /\ chat' = chat \cup {m}
      BY <1>2, <1>s DEF DealOwn
    <2>2. StartMsg \in chat /\ Honest(m, chat) /\ m \in Message /\ m.type # "END"
      BY <1>t, <2>1 DEF Honesty, Opened, isForwardable
    <2>3. m \notin chat
      BY <2>1
    <2>4. m.type # "START"
      <3>1. m.type = "START" => m = StartMsg
        BY <2>2 DEF Message, StartMsg, EndMsg, CommitmentMsg, CommitmentCompleteMsg, RevealMsg, Msg
      <3> QED BY <2>2, <2>3, <3>1
    <2> QED BY <2>1, <2>2, <2>3, <2>4
  <1>3. ASSUME NEW p \in Players,
               ReceiveStart(p) \/ DealIncoming(p) \/ TimerEvent(p) \/ Unregister(p)
        PROVE  FALSE
    BY <1>3 DEF ReceiveStart, DealIncoming, TimerEvent, Unregister
  <1> QED BY <1>0, <1>1, <1>2, <1>3 DEF Next

(* An honest message is added to the log, which is not empty.              *)
LEMMA FollowsUpToAppend ==
  ASSUME NEW m \in Message, m \notin chat, m.type \notin {"START", "END"},
         chat' = chat \cup {m}, log' = Append(log, m), log \in Seq(chat), log # << >>,
         chat \in SUBSET Message, \A c \in chat \cup {m} : Honest(c, chat),
         \A c, d \in chat \cup {m} :
           IsListing(c) /\ IsListing(d) => c.body.players = d.body.players,
         NEW cut \in Nat, FollowsUpTo(cut)
  PROVE  FollowsUpTo(cut)'
  <1> DEFINE n == Len(log)
  <1> DEFINE acc == runReplayLoop(log, cut)
  <1> DEFINE end == runReplayLoop(log', cut)
  <1>1. /\ n \in Nat /\ Len(log') = n + 1 /\ log'[n + 1] = m
        /\ \A k \in 1..n : log'[k] = log[k] /\ log[k] \in chat
    OBVIOUS
  <1>2. PICK late \in BOOLEAN : (late <=> n + 1 > cut) /\ end = Replayed(acc, m, late)
    <2>1. log \in Seq(chat \cup {m}) /\ m \in chat \cup {m}
      OBVIOUS
    <2> QED BY <2>1, LoopAppend
  <1>3. /\ SomeLate(cut) => acc.err = "RevealTooLate"
        /\ ~SomeLate(cut) => Follows(acc, chat)
    BY DEF FollowsUpTo
  <1> HIDE DEF acc, end
  <1>4. \A k \in 1..n : AskedFor(log[k], chat') <=> AskedFor(log[k], chat)
    <2> SUFFICES ASSUME NEW k \in 1..n, AskedFor(log[k], chat') PROVE AskedFor(log[k], chat)
      BY DEF AskedFor
    <2>1. PICK c \in chat \cup {m} : IsListing(c) /\ log[k].sender \in Listed(c.body.players)
      BY DEF AskedFor
    <2>2. log[k].type = "REVEAL" /\ Honest(log[k], chat)
      BY <1>1 DEF AskedFor
    <2>3. PICK d \in chat : IsListing(d)
      BY <2>2 DEF Honest
    <2> QED BY <2>1, <2>2, <2>3 DEF AskedFor
  <1>5. SomeLate(cut)' <=> SomeLate(cut) \/ (late /\ AskedFor(m, chat'))
    <2>1. SomeLate(cut)' <=> \E k \in 1..(n + 1) : k > cut /\ AskedFor(log'[k], chat')
      BY <1>1 DEF SomeLate
    <2>2. \A k \in 1..(n + 1) : k \in 1..n \/ k = n + 1
      BY <1>1
    <2>3. 1..n \subseteq 1..(n + 1) /\ n + 1 \in 1..(n + 1)
      BY <1>1
    <2> QED BY <1>1, <1>2, <1>4, <2>1, <2>2, <2>3 DEF SomeLate
  <1>6. AskedFor(m, chat') <=> AskedFor(m, chat)
    BY DEF AskedFor, IsListing
  <1>7. CASE SomeLate(cut)
    <2>1. end = acc
      BY <1>2, <1>3, <1>7 DEF Replayed
    <2> QED BY <1>3, <1>5, <1>7, <2>1 DEF FollowsUpTo, end
  <1>8. CASE ~SomeLate(cut) /\ late /\ AskedFor(m, chat)
    <2>1. end.err = "RevealTooLate"
      BY <1>2, <1>3, <1>8, LateFails
    <2> QED BY <1>5, <1>6, <1>8, <2>1 DEF FollowsUpTo, end
  <1>9. CASE ~SomeLate(cut) /\ ~(late /\ AskedFor(m, chat))
    <2>1. Follows(Replayed(acc, m, FALSE), chat \cup {m})
      BY <1>3, <1>9, FollowsStep
    <2>2. Replayed(acc, m, late) = Replayed(acc, m, FALSE)
      <3>1. CASE late
        <4>1. Replayed(acc, m, TRUE) = Replayed(acc, m, FALSE)
          BY <1>3, <1>9, <3>1, LateIsNoMatter
        <4>2. late = TRUE
          BY <3>1
        <4> QED BY <4>1, <4>2, Zenon
      <3>2. CASE ~late
        <4>1. late = FALSE
          BY <3>2
        <4> QED BY <4>1, Zenon
      <3> QED BY <3>1, <3>2
    <2>3. Follows(end, chat')
      BY <1>2, <2>1, <2>2
    <2> QED BY <1>5, <1>6, <1>9, <2>3 DEF FollowsUpTo, end
  <1> QED BY <1>7, <1>8, <1>9

(* The replay of the log keeps up with the conversation.                   *)
LEMMA ReplayFollowsNext ==
  Reliable /\ Inv /\ Honesty /\ Logged /\ ReplayFollows /\ [ReplayNext]_replayVars
    => ReplayFollows'
  <1> SUFFICES ASSUME Reliable, Inv, Honesty, Logged, ReplayFollows, [ReplayNext]_replayVars
               PROVE  ReplayFollows'
    OBVIOUS
  <1>0. Inv'
    <2>1. [Next]_vars
      BY DEF ReplayNext, replayVars
    <2> QED BY <2>1, InvNext
  <1>1. CASE chat' = chat /\ log' = log
    BY <1>1 DEF ReplayFollows, FollowsUpTo, SomeLate
  <1>2. CASE ReplayNext /\ chat' # chat
    <2>1. PICK m : /\ m \notin chat /\ chat' = chat \cup {m}
                   /\ \/ m = StartMsg /\ chat = {}
                      \/ /\ StartMsg \in chat
                         /\ m \in Message /\ m.type \notin {"START", "END"} /\ Honest(m, chat)
      BY <1>2, OneMessage DEF ReplayNext
    <2>2. log' = Append(log, m)
      <3>1. chat' \ chat = {m}
        BY <2>1
      <3>2. (CHOOSE x \in {m} : TRUE) = m
        OBVIOUS
      <3> QED BY <1>2, <3>1, <3>2 DEF ReplayNext, Ordered
    <2>3. log \in Seq(chat) /\ log' \in Seq(chat')
      BY <2>1, <2>2 DEF Logged
    <2>4. CASE m = StartMsg /\ chat = {}
      <3>1. log = << >>
        BY <2>3, <2>4
      <3>2. log' = <<StartMsg>> /\ chat' = {StartMsg} /\ StartMsg \in chat'
        BY <2>1, <2>2, <2>4, <3>1
      <3>3. Head(log') = StartMsg /\ log' # << >> /\ Len(log') = 1 /\ log'[1] = StartMsg
        BY <3>2
      <3>4. ASSUME NEW cut \in Nat PROVE FollowsUpTo(cut)'
        <4>1. runReplayLoop(log', cut) = Begun
          BY <3>2, LoopStart
        <4>2. ~SomeLate(cut)'
          BY <3>3 DEF SomeLate, AskedFor, StartMsg, Msg
        <4> QED BY <3>2, <4>1, <4>2, FollowsStart DEF FollowsUpTo
      <3> QED BY <3>3, <3>4 DEF ReplayFollows
    <2>5. CASE /\ StartMsg \in chat
               /\ m \in Message /\ m.type \notin {"START", "END"} /\ Honest(m, chat)
      <3>1. log # << >> /\ Head(log) = StartMsg /\ \A cut \in Nat : FollowsUpTo(cut)
        BY <2>5 DEF ReplayFollows
      <3>2. log' # << >> /\ Head(log') = StartMsg
        BY <2>2, <2>3, <3>1
      <3>3. ASSUME NEW cut \in Nat PROVE FollowsUpTo(cut)'
        <4>1. chat \in SUBSET Message /\ \A c \in chat \cup {m} : Honest(c, chat)
          BY <2>5 DEF Inv, LocalInv, TypeOK, Honesty
        <4>2. \A c, d \in chat \cup {m} :
                IsListing(c) /\ IsListing(d) => c.body.players = d.body.players
          BY <1>0, <2>1 DEF Inv, Listing, Bound
        <4> QED BY <2>1, <2>2, <2>3, <2>5, <3>1, <4>1, <4>2, FollowsUpToAppend
      <3> QED BY <3>2, <3>3 DEF ReplayFollows
    <2> QED BY <2>1, <2>4, <2>5
  <1> QED BY <1>1, <1>2 DEF ReplayNext, Ordered, replayVars, vars

(* The reveals that TooLate means are those the list asks for.             *)
LEMMA TooLateIsSomeLate ==
  ASSUME Inv, Logged, NEW p \in Correct, result[p] # None, Complete(chat), NEW cut \in Nat
  PROVE  TooLate(cut, result[p]) = {} <=> ~SomeLate(cut)
  <1>1. PICK B \in CommitmentList : Bound(B)
    BY DEF Inv, Listing
  <1>2. PICK c \in chat : IsListing(c) /\ c.body.players = B
    BY <1>1 DEF Complete, Bound
  <1>3. \A q \in Players : result[p][q] # None <=> q \in Listed(B)
    <2>1. result[p] \in Outcomes /\ Fits(result[p], B)
      BY <1>1 DEF Bound, Inv, LocalInv, TypeOK
    <2>2. \A s \in Secrets : computeCommitment(s) # None
      BY NoneAssumption DEF Commitment
    <2> QED BY <2>1, <2>2 DEF Fits, Outcomes, Listed
  <1>4. Len(log) \in Nat /\ \A k \in 1..Len(log) : log[k] \in chat /\ log[k].sender \in Players
    <2>1. log \in Seq(chat) /\ chat \subseteq Message
      BY DEF Logged, Inv, LocalInv, TypeOK
    <2>2. Len(log) \in Nat /\ \A k \in 1..Len(log) : log[k] \in chat
      BY <2>1
    <2> QED BY <2>1, <2>2, MessageShape
  <1>5. \A k \in 1..Len(log) :
          AskedFor(log[k], chat) <=> log[k].type = "REVEAL" /\ result[p][log[k].sender] # None
    <2>1. \A d \in chat : IsListing(d) => d.body.players = B
      BY <1>1 DEF Bound
    <2> QED BY <1>2, <1>3, <1>4, <2>1 DEF AskedFor
  <1>6. \A k : k \in cut + 1 .. Len(log) <=> k \in 1..Len(log) /\ k > cut
    BY <1>4
  <1> QED BY <1>5, <1>6 DEF TooLate, SomeLate

LEMMA ReplayTooLate ==
  ASSUME Inv, Honesty, ReplayFollows, NEW p \in Correct, result[p] # None,
         NEW cut \in Nat, SomeLate(cut)
  PROVE  replay(log, cut, FALSE) = Summary("RevealTooLate", None)
  <1> DEFINE end == runReplayLoop(log, cut)
  <1>1. log # << >> /\ Head(log) = StartMsg /\ end.err = "RevealTooLate"
    BY DEF ReplayFollows, FollowsUpTo, Honesty, Complete
  <1> HIDE DEF end
  <1> QED BY <1>1 DEF replay, end

LEMMA ReplayShowsOutcome ==
  ASSUME Inv, Honesty, ReplayFollows, NEW p \in Correct, result[p] # None,
         NEW cut \in Nat, ~SomeLate(cut)
  PROVE  replay(log, cut, FALSE) = Summary("ok", result[p])
  <1> DEFINE end == runReplayLoop(log, cut)
  <1>1. PICK c \in chat :
          /\ IsListing(c) /\ Listed(c.body.players) # {}
          /\ \A q \in Listed(c.body.players) :
               RevealMsg(q, q, hashUserDeviceCommitments(c.body.players)) \in chat
    BY DEF Honesty, Complete
  <1> DEFINE L == c.body.players
  <1>2. log # << >> /\ Head(log) = StartMsg /\ Follows(end, chat)
    BY <1>1 DEF ReplayFollows, FollowsUpTo
  <1>3. PICK B \in CommitmentList : Bound(B)
    BY DEF Inv, Listing
  <1>4. L = B
    BY <1>1, <1>3 DEF Bound
  <1> HIDE DEF end, L
  <1>5. end.err = "ok" /\ end.game \in ReplayGame /\ Announced(end.game, end.result)
        /\ Playing(end.game, chat, L)
    BY <1>1, <1>2, <1>3, <1>4 DEF Follows, Bound
  <1>6. Included(end.game) = Listed(L) /\ Listed(L) \subseteq Players
    BY <1>5 DEF Playing, Included, Listed
  <1>7. \A q \in Listed(L) : end.game.secret[q] = q
    BY <1>1, <1>5 DEF Playing, L
  <1>8. absentees(end.game) = {}
    BY <1>6, <1>7, NoneAssumption DEF absentees
  <1>9. end.result = Outcome(end.game)
    BY <1>1, <1>5, <1>6, <1>8 DEF Announced, L
  <1>10. Outcome(end.game) \in Outcomes
    BY <1>5 DEF Outcome, Outcomes, ReplayGame
  <1>11. Fits(Outcome(end.game), L)
    <2> SUFFICES ASSUME NEW q \in Players
                 PROVE  L[q] = IF Outcome(end.game)[q] = None THEN None
                               ELSE computeCommitment(Outcome(end.game)[q])
      BY DEF Fits
    <2>1. CASE q \in Listed(L)
      <3>1. Outcome(end.game)[q] = q /\ q # None
        BY <1>6, <1>7, <2>1, NoneAssumption DEF Outcome
      <3>2. L[q] = computeCommitment(q)
        BY <1>1, <2>1 DEF Honesty, Honest, IsListing, L
      <3> QED BY <3>1, <3>2
    <2>2. CASE q \notin Listed(L)
      BY <1>6, <2>2 DEF Outcome, Listed
    <2> QED BY <2>1, <2>2
  <1>12. result[p] = end.result
    <2>1. result[p] \in Outcomes /\ Fits(result[p], B)
      BY <1>3 DEF Bound, Inv, LocalInv, TypeOK
    <2> QED BY <1>4, <1>9, <1>10, <1>11, <2>1, FitsOnce
  <1>13. end.result # None
    BY <1>12
  <1> QED BY <1>2, <1>5, <1>12, <1>13 DEF replay, end

(* When every device runs this code and no message is lost, the outcome    *)
(* that a device announced is what a replay of the conversation shows from *)
(* that moment on, whatever is still said after it, unless the server's    *)
(* times make a listed device's reveal late: then the replay fails with    *)
(* RevealTooLate, although the device had accepted the reveal.             *)
THEOREM ReplayCompletesHolds ==
  ASSUME Reliable
  PROVE  ReplaySpec => []ReplayCompletes
  <1> DEFINE RInv == Inv /\ Honesty /\ Logged /\ ReplayFollows
  <1>1. ReplayInit => RInv
    BY InvInit, HonestyInit DEF ReplayInit, Init, Logged, ReplayFollows
  <1>2. RInv /\ [ReplayNext]_replayVars => RInv'
    <2>1. [ReplayNext]_replayVars => [Next]_vars
      BY DEF ReplayNext, replayVars
    <2> QED BY <2>1, InvNext, HonestyNext, LoggedNext, ReplayFollowsNext
  <1>3. RInv => ReplayCompletes
    <2> SUFFICES ASSUME RInv, NEW p \in Correct, NEW cut \in 0..Len(log), result[p] # None
                 PROVE  replay(log, cut, FALSE) = IF TooLate(cut, result[p]) = {}
                                                  THEN Summary("ok", result[p])
                                                  ELSE Summary("RevealTooLate", None)
      BY DEF ReplayCompletes
    <2>1. cut \in Nat
      OBVIOUS
    <2>2. Complete(chat)
      BY DEF Honesty
    <2>3. TooLate(cut, result[p]) = {} <=> ~SomeLate(cut)
      BY <2>1, <2>2, TooLateIsSomeLate
    <2> QED BY <2>1, <2>3, ReplayTooLate, ReplayShowsOutcome
  <1> HIDE DEF RInv
  <1> QED BY <1>1, <1>2, <1>3, PTL DEF ReplaySpec
=============================================================================
