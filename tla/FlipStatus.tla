----------------------------- MODULE FlipStatus -----------------------------
(***************************************************************************)
(* What the user interface is told of one coin flip: FlipManager's cache   *)
(* of statuses and the four kinds of goroutine that work on it without a   *)
(* common lock (go/chat/flipmanager.go): updateLoop, which applies what    *)
(* the live game announces; loadGameLoop, which replays the conversation;  *)
(* the goroutines that report a failed replay five seconds later; and      *)
(* notificationLoop, which sends the status to the UI.                     *)
(*                                                                         *)
(* A status is read, changed and stored again in separate steps.  Its      *)
(* participants are a Go slice, and a reveal is written into the array     *)
(* that every copy of the status shares: arrays have an identity here.     *)
(***************************************************************************)
EXTENDS Naturals, FiniteSets, SequencesExt

CONSTANTS
  Players,      \* the devices
  MaxLoads,     \* how often the UI asks for the flip (bound)
  MaxRefusals,  \* how many further STARTs the Dealer refuses (bound)
  UpdateCap,    \* the capacity of gameUpdateCh
  ForceCap,     \* the capacity of forceCh
  LoadCap,      \* the capacity of loadGameCh
  None,         \* nothing
  Missed        \* what the UI has when it could not be told

Loads == 1..MaxLoads
Arrays == 0..(MaxLoads + 1)

(* A status: its phase, its participants, and the array that has them.     *)
Status == [ phase : {"COMMITMENT", "REVEALS", "COMPLETE", "ERROR"},
            parts : Seq(Players), arr : Arrays ]

ASSUME PlayersAssumption == IsFiniteSet(Players)
ASSUME MaxLoadsAssumption == MaxLoads \in Nat
ASSUME NoneAssumption == None \notin Status

VARIABLES
  listed,    \* the players of the conversation's COMMITMENT_COMPLETE
  live,      \* the game in the Dealer
  updates,   \* gameUpdateCh
  games,     \* m.games: the status of the flip, or None
  array,     \* array[a]: the participants of array a that have a Reveal
  used,      \* the arrays made so far: 0 is the one of the first round
  dirty,     \* whether the flip is in m.dirtyGames
  force,     \* the number of signals in forceCh
  update,    \* updateLoop: where it is, and its copy of the status
  jobs,      \* the number of jobs in loadGameCh
  load,      \* where loadGameLoop is
  delayed,   \* the goroutines that report a failed replay
  loads,     \* how often LoadFlip has been called
  notify,    \* notificationLoop: where it is, and its copy of the status
  ui         \* the status last sent to the UI, or Missed if that failed

vars == <<listed, live, updates, games, array, used, dirty, force, update, jobs, load,
          delayed, loads, notify, ui>>

(* The status of a flip that is not in the cache.                          *)
NoStatus == [phase |-> "COMMITMENT", parts |-> <<>>, arr |-> 0]

Init ==
  /\ listed \in (SUBSET Players) \ {{}}
  /\ live = [stage |-> "none", cc |-> FALSE, committed |-> {}, revealed |-> {}, refused |-> 0]
  /\ updates = <<>>
  /\ games = None
  /\ array = [a \in Arrays |-> {}]
  /\ used = 0
  /\ dirty = FALSE
  /\ force = 0
  /\ update = [pc |-> "idle", status |-> NoStatus]
  /\ jobs = 0
  /\ load = "idle"
  /\ delayed = [k \in Loads |-> [pc |-> "none", parts |-> <<>>, arr |-> 0]]
  /\ loads = 0
  /\ notify = [pc |-> "idle", copy |-> None]
  /\ ui = None

-----------------------------------------------------------------------------
(* The live game, as far as it announces itself on gameUpdateCh.           *)

Announce(u) == Len(updates) < UpdateCap /\ updates' = Append(updates, u)

unchangedByGame == UNCHANGED <<listed, games, array, used, dirty, force, update, jobs, load,
                               delayed, loads, notify, ui>>

Register ==
  /\ live.stage = "none"
  /\ live' = [live EXCEPT !.stage = "on"]
  /\ UNCHANGED updates
  /\ unchangedByGame

(* Round one goes on after the leader's list until nobody listed is late.  *)
Commitment(p) ==
  /\ live.stage = "on"
  /\ p \notin live.committed
  /\ live.cc => ~(listed \subseteq live.committed)
  /\ live' = [live EXCEPT !.committed = @ \cup {p}]
  /\ Announce([type |-> "Commitment", player |-> p])
  /\ unchangedByGame

CommitmentComplete ==
  /\ live.stage = "on" /\ ~live.cc
  /\ live' = [live EXCEPT !.cc = TRUE]
  /\ Announce([type |-> "CommitmentComplete"])
  /\ unchangedByGame

Reveal(p) ==
  /\ live.stage = "on" /\ live.cc /\ listed \subseteq live.committed
  /\ p \in listed \ live.revealed
  /\ live' = [live EXCEPT !.revealed = @ \cup {p}]
  /\ Announce([type |-> "Reveal", player |-> p])
  /\ unchangedByGame

GameResult ==
  /\ live.stage = "on" /\ live.revealed = listed
  /\ live' = [live EXCEPT !.stage = "over"]
  /\ Announce([type |-> "Result"])
  /\ unchangedByGame

GameError ==
  /\ live.stage = "on"
  /\ live' = [live EXCEPT !.stage = "over"]
  /\ Announce([type |-> "Err"])
  /\ unchangedByGame

(* A START the Dealer refuses; the game that runs is not concerned.        *)
Refusal ==
  /\ live.refused < MaxRefusals
  /\ live' = [live EXCEPT !.refused = @ + 1]
  /\ Announce([type |-> "Err"])
  /\ unchangedByGame

-----------------------------------------------------------------------------
(* The status.                                                             *)

addParticipant(s, p) == [s EXCEPT !.parts = Append(@, p)]

(* The elements of the slice s that are in T, in the order they had.       *)
Select(s, T) ==
  LET sel[k \in 0..Len(s)] ==
        IF k = 0 THEN << >>
        ELSE IF s[k] \in T THEN Append(sel[k - 1], s[k]) ELSE sel[k - 1]
  IN sel[Len(s)]

(* Mutant of finalizeParticipants: those who commit late are left out.     *)
finalizeParticipants_NoLatecomers(s) ==
  [s EXCEPT !.parts = Select(@, listed), !.arr = used + 1]

(* The listed participants that are there already, and then the others.    *)
finalizeParticipants(s) ==
  LET filtered == Select(s.parts, listed) IN
  [s EXCEPT !.parts = filtered \o SetToSeq(listed \ ToSet(filtered)), !.arr = used + 1]

(* The result may turn out to be beyond description.                       *)
addResult(s) == {[s EXCEPT !.phase = "COMPLETE"], [s EXCEPT !.phase = "ERROR"]}

queueDirtyGameID(forced) ==
  /\ dirty' = TRUE
  /\ force' = IF forced /\ force < ForceCap THEN force + 1 ELSE force

-----------------------------------------------------------------------------
(* updateLoop: the status is read and changed, stored, and marked dirty.   *)

(* Mutant of handleUpdate: commitments are taken in every phase.           *)
handleUpdate_AnyPhase(u, s) ==
  CASE u.type = "Err" -> {[s EXCEPT !.phase = "ERROR"]}
    [] u.type = "Commitment" -> {addParticipant(s, u.player)}
    [] u.type = "CommitmentComplete" -> {[finalizeParticipants(s) EXCEPT !.phase = "REVEALS"]}
    [] u.type = "Reveal" -> {s}
    [] u.type = "Result" -> addResult(s)

handleUpdate(u, s) ==
  CASE u.type = "Err" -> {[s EXCEPT !.phase = "ERROR"]}
    [] u.type = "Commitment" -> {IF s.phase = "COMMITMENT" THEN addParticipant(s, u.player) ELSE s}
    [] u.type = "CommitmentComplete" -> {[finalizeParticipants(s) EXCEPT !.phase = "REVEALS"]}
    [] u.type = "Reveal" -> {s}
    [] u.type = "Result" -> addResult(s)

(* What becomes of the arrays: finalizeParticipants makes a new one, with  *)
(* the reveals it found; addReveal writes into the one at hand.            *)
addReveal(u, s) ==
  CASE u.type = "CommitmentComplete" ->
         /\ used' = used + 1
         /\ array' = [array EXCEPT ![used + 1] = array[s.arr] \cap listed]
    [] u.type = "Reveal" ->
         /\ array' = [array EXCEPT ![s.arr] = @ \cup ({u.player} \cap ToSet(s.parts))]
         /\ UNCHANGED used
    [] OTHER -> UNCHANGED <<array, used>>

UpdateRead ==
  /\ update.pc = "idle" /\ updates # <<>>
  /\ updates' = Tail(updates)
  /\ LET u == Head(updates)
         s == IF games = None THEN NoStatus ELSE games
     IN /\ \E t \in handleUpdate(u, s) : update' = [pc |-> "add", status |-> t]
        /\ addReveal(u, s)
  /\ UNCHANGED <<listed, live, games, dirty, force, jobs, load, delayed, loads, notify, ui>>

UpdateAdd ==
  /\ update.pc = "add"
  /\ update' = [update EXCEPT !.pc = "queue"]
  /\ games' = update.status
  /\ UNCHANGED <<listed, live, updates, array, used, dirty, force, jobs, load, delayed, loads,
                 notify, ui>>

UpdateQueue ==
  /\ update.pc = "queue"
  /\ update' = [pc |-> "idle", status |-> NoStatus]
  /\ queueDirtyGameID(FALSE)
  /\ UNCHANGED <<listed, live, updates, games, array, used, jobs, load, delayed, loads, notify, ui>>

-----------------------------------------------------------------------------
(* Loading the flip.                                                       *)

(* From the cache, unless nothing or an error is there; otherwise it is a  *)
(* job for loadGameLoop, if there is room for it.                          *)
LoadFlip ==
  /\ loads < MaxLoads
  /\ loads' = loads + 1
  /\ IF games # None /\ games.phase # "ERROR"
     THEN queueDirtyGameID(TRUE) /\ UNCHANGED jobs
     ELSE /\ jobs' = IF jobs < LoadCap THEN jobs + 1 ELSE jobs
          /\ UNCHANGED <<dirty, force>>
  /\ UNCHANGED <<listed, live, updates, games, array, used, update, load, delayed, notify, ui>>

(* The summary of a replay that came to a result: a status of its own.     *)
handleSummaryUpdate ==
  /\ \E t \in addResult([phase |-> "COMPLETE", parts |-> SetToSeq(listed), arr |-> used + 1]) :
       games' = t
  /\ used' = used + 1
  /\ array' = [array EXCEPT ![used + 1] = listed]

(* The conversation cannot be read; it is replayed to the end; or the      *)
(* replay fails, which is reported later unless the game is being played.  *)
loadGame ==
  /\ load = "idle" /\ jobs > 0
  /\ jobs' = jobs - 1
  /\ \/ UNCHANGED <<games, array, used, load, delayed>>
     \/ handleSummaryUpdate /\ load' = "queue" /\ UNCHANGED delayed
     \/ /\ IF live.stage = "on"
           THEN UNCHANGED delayed
           ELSE LET k == CHOOSE k \in Loads : delayed[k].pc = "none" IN
                delayed' = [delayed EXCEPT ![k].pc = "sleep"]
        /\ UNCHANGED <<games, array, used, load>>
  /\ UNCHANGED <<listed, live, updates, dirty, force, update, loads, notify, ui>>

LoadQueue ==
  /\ load = "queue"
  /\ load' = "idle"
  /\ queueDirtyGameID(TRUE)
  /\ UNCHANGED <<listed, live, updates, games, array, used, update, jobs, delayed, loads, notify, ui>>

(* Five seconds later: an error is reported if none but an error is there. *)
DelayedCheck(k) ==
  /\ delayed[k].pc = "sleep"
  /\ delayed' = [delayed EXCEPT ![k].pc =
                   IF games # None /\ games.phase # "ERROR" THEN "silent" ELSE "summary"]
  /\ UNCHANGED <<listed, live, updates, games, array, used, dirty, force, update, jobs, load,
                 loads, notify, ui>>

(* The error keeps the participants of the status it replaces...           *)
DelayedRead(k) ==
  /\ delayed[k].pc = "summary"
  /\ delayed' = [delayed EXCEPT ![k] =
                   IF games = None THEN [pc |-> "add", parts |-> @.parts, arr |-> @.arr]
                   ELSE [pc |-> "add", parts |-> games.parts, arr |-> games.arr]]
  /\ UNCHANGED <<listed, live, updates, games, array, used, dirty, force, update, jobs, load,
                 loads, notify, ui>>

(* ... which was read before the names in the error were looked up.        *)
DelayedAdd(k) ==
  /\ delayed[k].pc = "add"
  /\ games' = [phase |-> "ERROR", parts |-> delayed[k].parts, arr |-> delayed[k].arr]
  /\ delayed' = [delayed EXCEPT ![k].pc = "queue"]
  /\ UNCHANGED <<listed, live, updates, array, used, dirty, force, update, jobs, load,
                 loads, notify, ui>>

DelayedQueue(k) ==
  /\ delayed[k].pc = "queue"
  /\ delayed' = [delayed EXCEPT ![k] = [pc |-> "end", parts |-> <<>>, arr |-> 0]]
  /\ queueDirtyGameID(TRUE)
  /\ UNCHANGED <<listed, live, updates, games, array, used, update, jobs, load, loads, notify, ui>>

-----------------------------------------------------------------------------
(* notificationLoop, woken by its timer or by forceCh.                     *)

notifyDirtyGames ==
  /\ notify.pc = "idle"
  /\ \/ dirty /\ UNCHANGED force
     \/ force > 0 /\ force' = force - 1
  /\ dirty' = FALSE
  /\ notify' = [notify EXCEPT !.pc = IF dirty THEN "read" ELSE "idle"]
  /\ UNCHANGED <<listed, live, updates, games, array, used, update, jobs, load,
                 delayed, loads, ui>>

(* What the UI gets to see of the status: its copy.                        *)
View == IF games = None THEN None
        ELSE [phase |-> games.phase, parts |-> ToSet(games.parts), reveals |-> array[games.arr]]

NotifyRead ==
  /\ notify.pc = "read"
  /\ notify' = [pc |-> "send", copy |-> View]
  /\ UNCHANGED <<listed, live, updates, games, array, used, dirty, force, update, jobs, load,
                 delayed, loads, ui>>

(* Mutant of ChatCoinFlipStatus: the mark is removed when the UI is told.  *)
ChatCoinFlipStatus_Unmark ==
  /\ notify.pc = "send"
  /\ notify' = [pc |-> "idle", copy |-> None]
  /\ dirty' = FALSE
  /\ ui' \in {notify.copy, Missed}
  /\ UNCHANGED <<listed, live, updates, games, array, used, force, update, jobs, load,
                 delayed, loads>>

(* There may be no UI, or it may not answer.                               *)
ChatCoinFlipStatus ==
  /\ notify.pc = "send"
  /\ notify' = [pc |-> "idle", copy |-> None]
  /\ ui' \in {notify.copy, Missed}
  /\ UNCHANGED <<listed, live, updates, games, array, used, dirty, force, update, jobs, load,
                 delayed, loads>>

-----------------------------------------------------------------------------
Game ==
  \/ Register \/ CommitmentComplete \/ GameResult \/ GameError \/ Refusal
  \/ \E p \in Players : Commitment(p) \/ Reveal(p)

updateLoop == UpdateRead \/ UpdateAdd \/ UpdateQueue
loadGameLoop == loadGame \/ LoadQueue
Delayed(k) == DelayedCheck(k) \/ DelayedRead(k) \/ DelayedAdd(k) \/ DelayedQueue(k)
notificationLoop == notifyDirtyGames \/ NotifyRead \/ ChatCoinFlipStatus

Next ==
  \/ Game \/ updateLoop \/ LoadFlip \/ loadGameLoop \/ notificationLoop
  \/ \E k \in Loads : Delayed(k)

Spec == Init /\ [][Next]_vars

-----------------------------------------------------------------------------
(* Properties.                                                             *)

(* When nothing is marked dirty, nobody is about to mark it and the        *)
(* notification loop rests, the UI has the status of the cache or the      *)
(* attempt to tell it failed: unmarking before reading the cache, and      *)
(* marking after writing it, loses no change, whoever makes it.            *)
UIIsCurrent ==
  /\ ~dirty /\ notify.pc = "idle" /\ update.pc = "idle" /\ load = "idle"
  /\ \A k \in Loads : delayed[k].pc # "queue"
  => ui \in {View, Missed}

(* No device is listed twice, though addParticipant never looks whether it *)
(* is there already, and commitments may come late or after a replay.      *)
ParticipantsOnce == games # None => IsInjective(games.parts)

(* No failed replay has got as far as storing its error.                   *)
Undisturbed == \A k \in Loads : delayed[k].pc \notin {"queue", "end"}

(* A flip that is shown as complete shows exactly the devices that the     *)
(* leader listed, each with its secret, whichever of the live game and a   *)
(* replay wrote the status last, unless the delayed error of a failed      *)
(* replay has come between.                                                *)
CompleteShowsAll ==
  games # None /\ games.phase = "COMPLETE" /\ Undisturbed =>
    ToSet(games.parts) = listed /\ array[games.arr] = listed
=============================================================================
