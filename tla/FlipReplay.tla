----------------------------- MODULE FlipReplay -----------------------------
(***************************************************************************)
(* flip.Replay (replay.go): a device that was not there, or has forgotten, *)
(* works out how a game ended from the messages in the conversation.  It   *)
(* runs them through the handlers of FlipGame, in a Game that has no       *)
(* device of its own and no clock but the server's timestamps.             *)
(*                                                                         *)
(* The conversation of FlipGame is put in the order the server gives it.   *)
(* Devices still receive it in any order; a replay reads it in that one.   *)
(***************************************************************************)
EXTENDS FlipGame, Sequences, SequencesExt

VARIABLE log  \* the messages of the conversation in the server's order

replayVars == <<vars, log>>

(* The server puts a message after all it already has.                     *)
Ordered ==
  log' = IF chat' = chat THEN log ELSE Append(log, CHOOSE m \in chat' \ chat : TRUE)

ReplayInit == Init /\ log = <<>>
ReplayNext == Next /\ Ordered
ReplaySpec == ReplayInit /\ [][ReplayNext]_replayVars
ReplayFairSpec == ReplaySpec /\ Fairness

-----------------------------------------------------------------------------
(* A history is what loadGame hands to Replay: the conversation without    *)
(* the messages that do not unbox (at most one of them here).              *)
loadGame == {log} \cup {RemoveAt(log, i) : i \in DOMAIN log}

(* The replayed Game has no latecomers map: handleCommitmentCompletePlayer *)
(* panics when it writes one into it.  (Where the list also has a device   *)
(* whose commitment does not match, the first of the two in the list is    *)
(* what happens; here it is the mismatch.)                                 *)
ReplayMessage(g, m, late) ==
  LET step == handleMessage(g, m, late) IN
  IF step.game.latecomers # {} THEN Fail(g, "panic") ELSE step

(* The Game of the replay, the error of the loop and the outcome announced *)
(* so far, after one more message: an error or an END ends the loop.       *)
Replayed(acc, m, late) ==
  LET step == ReplayMessage(acc.game, m, late) IN
  IF acc.err # "ok" THEN acc
  ELSE [ game   |-> step.game,
         err    |-> step.err,
         result |-> IF step.result # None THEN step.result ELSE acc.result ]

(* The messages after the first; those after position cut bear a time past *)
(* RevealEndTime.                                                          *)
runReplayLoop(hist, cut) ==
  LET after[k \in 1..Len(hist)] ==
        IF k = 1 THEN [game |-> NewGame(None, FALSE), err |-> "ok", result |-> None]
        ELSE Replayed(after[k - 1], hist[k], k > cut)
  IN after[Len(hist)]

Summary(e, outcome) == [err |-> e, result |-> outcome]

(* skewed: StartTime is too far from the server's time for the START.      *)
replay(hist, cut, skewed) ==
  IF hist = <<>> \/ Head(hist) # StartMsg
  THEN Summary("ReplayError", None)
  ELSE IF skewed
  THEN Summary("BadClock", None)
  ELSE LET end == runReplayLoop(hist, cut) IN
       IF end.err \notin {"ok", "EOF"}
       THEN Summary(end.err, None)
       ELSE IF end.result # None
       THEN Summary("ok", end.result)
       ELSE Summary(IF end.err = "ok" /\ absentees(end.game) # {} THEN "Absentees"
                    ELSE "GameAborted", None)

-----------------------------------------------------------------------------
(* Properties.                                                             *)

(* A replay never shows an outcome other than the one a device announced   *)
(* when the game was played, whichever message failed to unbox and however *)
(* the server's times fell: it is held to the same list and commitments.   *)
ReplayAgrees ==
  \A hist \in loadGame : \A cut \in 0..Len(hist) :
    LET s == replay(hist, cut, FALSE) IN
    s.err = "ok" => \A p \in Correct : result[p] \in {None, s.result}

(* The reveals in outcome that bear a time past the replay's               *)
(* RevealEndTime, when the messages after position cut do.                 *)
TooLate(cut, outcome) ==
  {k \in cut + 1 .. Len(log) : log[k].type = "REVEAL" /\ outcome[log[k].sender] # None}

(* An outcome that a device announced is what every replay shows from then *)
(* on, if the server's times let it: no other message in the conversation  *)
(* (late commitments, reveals of devices that were left out) makes         *)
(* runReplayLoop fail.  A live Game measures RevealEndTime from its own    *)
(* receipt of the START and with its own clock, a replay from the server's *)
(* time for the START and with the server's times: a reveal that was in    *)
(* time for the device may be late for the replay, which then fails with   *)
(* RevealTooLate and with nothing else.  (The server's time for the START  *)
(* is taken to be within MaxClockSkew of StartTime.)                       *)
ReplayCompletes ==
  \A p \in Correct : \A cut \in 0..Len(log) :
    result[p] # None =>
      replay(log, cut, FALSE) = IF TooLate(cut, result[p]) = {}
                                THEN Summary("ok", result[p])
                                ELSE Summary("RevealTooLate", None)

(* A replay copes with a CommitmentComplete that lists a commitment not    *)
(* yet seen, as a live Game does.                                          *)
ReplaySurvives ==
  \A hist \in loadGame : replay(hist, Len(hist), FALSE).err # "panic"
=============================================================================
