----------------------------- MODULE FlipDealer -----------------------------
(***************************************************************************)
(* The goroutines of one device's flip.Dealer (go/chat/flip), and the      *)
(* FlipManager that starts and stops it: Dealer.Run, which deals messages  *)
(* to the games; the loop of every Game; the Dealer.run that waits for it; *)
(* FlipManager's updateLoop; the caller of FlipManager.Stop; and a         *)
(* goroutine that brings messages (maybeInjectLoop, or a game's own).      *)
(*                                                                         *)
(* The channels between them are unbuffered, except gameUpdateCh, and      *)
(* Dealer.Run sends to a game while it holds the Dealer's lock.  What a    *)
(* game makes of a message is left open here; FlipGame has it.             *)
(***************************************************************************)
EXTENDS Naturals, FiniteSets

CONSTANTS
  GameIDs,    \* the games of the conversation
  Chans,      \* the channels handleMessageStart may make, one for each game
              \* it registers (a bound on the number of games)
  Cap,        \* the capacity of gameUpdateCh
  MaxStarts,  \* how often FlipManager is started
  None        \* nil

ASSUME CapAssumption == Cap \in Nat \ {0}
ASSUME MaxStartsAssumption == MaxStarts \in Nat
ASSUME ChansAssumption == None \notin Chans
ASSUME NoneAssumption == None # "run"

VARIABLES
  games,       \* d.games: the channel of a registered game, or None
  gameIDs,     \* d.gameIDs
  lock,        \* the Dealer's mutex: who keeps it from one step to the next
  sender,      \* a goroutine that may be blocked in a send to chatInputCh
  run,         \* Dealer.Run: where it is, and the channel it is sending to
  shutdownCh,  \* d.shutdownCh, and Dealer.Run's copy of it
  chan,        \* chan[c]: a channel with the Game and the Dealer.run behind it
  buf,         \* the number of updates in gameUpdateCh
  manager,     \* FlipManager: where its caller is between Start and Stop
  ctx,         \* whether the context of the current Dealer.Run is cancelled
  starts,      \* how often FlipManager has been started
  panic        \* a channel was closed twice, or sent to when closed

vars == <<games, gameIDs, lock, sender, run, shutdownCh, chan, buf, manager, ctx, starts, panic>>

-----------------------------------------------------------------------------
(* A channel: the id of its game, None as long as it is not made; whether  *)
(* it is open; the game's loop; the updates the loop has yet to send and   *)
(* where it goes after them; what the loop returns; the Dealer.run that    *)
(* waits for it; the game's context, that of the Dealer.Run it was made in. *)

Unmade ==
  [ id |-> None, open |-> FALSE, loop |-> "none", pending |-> 0, next |-> "main",
    err |-> "nil", dealer |-> "none", ctx |-> "live" ]

MakeGame(id) ==
  [Unmade EXCEPT !.id = id, !.open = TRUE, !.loop = "main", !.dealer = "wait",
                 !.ctx = ctx]

(* The loop has n updates to send, and then goes on or returns err.        *)
Then(g, n, next, err) ==
  IF n = 0 THEN [g EXCEPT !.loop = next, !.err = err]
  ELSE [g EXCEPT !.pending = n, !.next = next, !.err = err]

(* What handling one message may come to: no update, one, or a reveal and  *)
(* the result; the END; or an error, announced after at most one update.   *)
Handled(g) ==
  {Then(g, n, "main", "nil") : n \in 0..2}
    \cup {Then(g, 0, "done", "nil")}
    \cup {Then(g, n, "done", "error") : n \in 1..2}

Init ==
  /\ games = [id \in GameIDs |-> None]
  /\ gameIDs = {}
  /\ lock = None
  /\ sender = "idle"
  /\ run = [pc |-> "off", ch |-> None]
  /\ shutdownCh = "nil"
  /\ chan = [c \in Chans |-> Unmade]
  /\ buf = 0
  /\ manager = "stopped"
  /\ ctx = "live"
  /\ starts = 0
  /\ panic = FALSE

-----------------------------------------------------------------------------
(* FlipManager.                                                            *)

Start ==
  /\ manager = "stopped"
  /\ starts < MaxStarts
  /\ starts' = starts + 1
  /\ manager' = "started"
  /\ ctx' = "live"
  /\ run' = [run EXCEPT !.pc = "boot"]
  /\ UNCHANGED <<games, gameIDs, lock, shutdownCh, chan, buf, panic, sender>>

(* Dealer.Stop closes the shutdown channel if Dealer.Run has made one...   *)
Stop ==
  /\ manager = "started"
  /\ manager' = "stopGames"
  /\ shutdownCh' = IF shutdownCh = "open" THEN "closed" ELSE shutdownCh
  /\ UNCHANGED <<games, gameIDs, lock, run, chan, buf, ctx, starts, panic, sender>>

(* Mutant of stopGames: the ids are forgotten too.                         *)
stopGames_ForgetIDs ==
  /\ manager = "stopGames"
  /\ lock = None
  /\ manager' = "cancel"
  /\ chan' = [c \in Chans |-> IF \E id \in GameIDs : games[id] = c
                              THEN [chan[c] EXCEPT !.open = FALSE] ELSE chan[c]]
  /\ games' = [id \in GameIDs |-> None]
  /\ gameIDs' = {id \in gameIDs : games[id] = None}
  /\ panic' = (panic \/ \E id \in GameIDs : games[id] # None /\ ~chan[games[id]].open)
  /\ UNCHANGED <<lock, run, shutdownCh, buf, ctx, starts, sender>>

(* ... and closes the channel of every registered game.                    *)
stopGames ==
  /\ manager = "stopGames"
  /\ lock = None
  /\ manager' = "cancel"
  /\ chan' = [c \in Chans |-> IF \E id \in GameIDs : games[id] = c
                              THEN [chan[c] EXCEPT !.open = FALSE] ELSE chan[c]]
  /\ games' = [id \in GameIDs |-> None]
  /\ panic' = (panic \/ \E id \in GameIDs : games[id] # None /\ ~chan[games[id]].open)
  /\ UNCHANGED <<gameIDs, lock, run, shutdownCh, buf, ctx, starts, sender>>

(* The context is cancelled, and with it that of every game made so far;   *)
(* updateLoop is shut down.  The next Start makes a new context.           *)
Cancel ==
  /\ manager = "cancel"
  /\ manager' = "waiting"
  /\ ctx' = "cancelled"
  /\ chan' = [c \in Chans |-> IF chan[c].id = None THEN chan[c]
                              ELSE [chan[c] EXCEPT !.ctx = "cancelled"]]
  /\ UNCHANGED <<games, gameIDs, lock, run, shutdownCh, buf, starts, panic, sender>>

(* The caller of Stop waits for Dealer.Run to return.                      *)
Stopped ==
  /\ manager = "waiting"
  /\ run.pc = "off"
  /\ manager' = "stopped"
  /\ UNCHANGED <<games, gameIDs, lock, run, shutdownCh, chan, buf, ctx, starts, panic, sender>>

updateLoop ==
  /\ manager \in {"started", "stopGames", "cancel"}
  /\ buf > 0
  /\ buf' = buf - 1
  /\ UNCHANGED <<games, gameIDs, lock, run, shutdownCh, chan, manager, ctx, starts, panic, sender>>

-----------------------------------------------------------------------------
(* Dealer.Run.                                                             *)

RunBoot ==
  /\ run.pc = "boot"
  /\ run' = [run EXCEPT !.pc = "select"]
  /\ shutdownCh' = "open"
  /\ UNCHANGED <<games, gameIDs, lock, chan, buf, manager, ctx, starts, panic, sender>>

RunExit ==
  /\ run.pc = "select"
  /\ ctx = "cancelled" \/ shutdownCh = "closed"
  /\ run' = [run EXCEPT !.pc = "off"]
  /\ UNCHANGED <<games, gameIDs, lock, shutdownCh, chan, buf, manager, ctx, starts, panic, sender>>

(* Dealer.InjectIncomingChat and sendOutgoingChat: an unbuffered send that *)
(* nothing interrupts.                                                     *)
Inject ==
  /\ sender = "idle"
  /\ sender' = "blocked"
  /\ UNCHANGED <<games, gameIDs, lock, run, shutdownCh, chan, buf, manager, ctx, starts, panic>>

Receive ==
  /\ run.pc = "select" /\ sender = "blocked"
  /\ sender' = "idle"
  /\ run' = [run EXCEPT !.pc = "handle"]
  /\ UNCHANGED <<games, gameIDs, lock, shutdownCh, chan, buf, manager, ctx, starts, panic>>

(* A START is refused when its game is known, or for its sender, its clock *)
(* or its place in the conversation; the refusal is an update.             *)
RefuseStart(id) ==
  /\ run.pc = "handle" /\ lock = None
  /\ run' = [run EXCEPT !.pc = "refuse"]
  /\ UNCHANGED <<games, gameIDs, lock, shutdownCh, chan, buf, manager, ctx, starts, panic, sender>>

AnnounceRefusal ==
  /\ run.pc = "refuse"
  /\ buf < Cap
  /\ buf' = buf + 1
  /\ run' = [run EXCEPT !.pc = "select"]
  /\ UNCHANGED <<games, gameIDs, lock, shutdownCh, chan, manager, ctx, starts, panic, sender>>

(* The channel of a new game: which one it is makes no difference.         *)
msgCh == CHOOSE c \in Chans : chan[c] = Unmade

handleMessageStart(id) ==
  /\ run.pc = "handle" /\ lock = None
  /\ run' = [run EXCEPT !.pc = "select"]
  /\ games[id] = None /\ id \notin gameIDs
  /\ \E c \in Chans : chan[c] = Unmade
  /\ chan' = [chan EXCEPT ![msgCh] = MakeGame(id)]
  /\ games' = [games EXCEPT ![id] = msgCh]
  /\ gameIDs' = gameIDs \cup {id}
  /\ UNCHANGED <<lock, shutdownCh, buf, manager, ctx, starts, panic, sender>>

(* Mutant of handleMessageOthers: the lock is released before the send.    *)
handleMessageOthers_Unlocked(id) ==
  /\ run.pc = "handle" /\ lock = None
  /\ games[id] # None
  /\ run' = [pc |-> "send", ch |-> games[id]]
  /\ UNCHANGED <<games, gameIDs, lock, shutdownCh, chan, buf, manager, ctx, starts, panic, sender>>

(* Any other message: with no such game (GameFinishedError) nothing        *)
(* happens; otherwise the lock is kept until the game has taken it.        *)
handleMessageOthers(id) ==
  /\ run.pc = "handle" /\ lock = None
  /\ \/ /\ games[id] # None
        /\ lock' = "run"
        /\ run' = [pc |-> "send", ch |-> games[id]]
     \/ /\ games[id] = None
        /\ run' = [run EXCEPT !.pc = "select"]
        /\ UNCHANGED lock
  /\ UNCHANGED <<games, gameIDs, shutdownCh, chan, buf, manager, ctx, starts, panic, sender>>

(* The game, or its runDrain, takes the message.                           *)
Deliver ==
  /\ run.pc = "send"
  /\ run' = [pc |-> "select", ch |-> None]
  /\ lock' = None
  /\ LET c == run.ch IN
     \/ /\ chan[c].open /\ chan[c].loop = "main" /\ chan[c].pending = 0
        /\ \E g \in Handled(chan[c]) : chan' = [chan EXCEPT ![c] = g]
        /\ UNCHANGED panic
     \/ /\ chan[c].open /\ chan[c].loop = "drain"
        /\ UNCHANGED <<chan, panic>>
     \/ /\ ~chan[c].open
        /\ panic' = TRUE
        /\ UNCHANGED chan
  /\ UNCHANGED <<games, gameIDs, shutdownCh, buf, manager, ctx, starts, sender>>

handleMessage(id) == RefuseStart(id) \/ handleMessageStart(id) \/ handleMessageOthers(id)

-----------------------------------------------------------------------------
(* The loop of a game, and the Dealer.run that waits for it.               *)

(* A deadline that ends the game; the leader's first one changes nothing.  *)
TimerEvent(c) ==
  /\ chan[c].loop = "main" /\ chan[c].pending = 0
  /\ chan' = [chan EXCEPT ![c] = Then(@, 1, "done", "error")]
  /\ UNCHANGED <<games, gameIDs, lock, run, shutdownCh, buf, manager, ctx, starts, panic, sender>>

(* Mutant of SendUpdate: the game does not wait for a slot.                *)
SendUpdate_NoWait(c) ==
  /\ chan[c].pending > 0
  /\ buf' = buf + 1
  /\ chan' = [chan EXCEPT ![c].pending = @ - 1,
                          ![c].loop = IF chan[c].pending = 1 THEN chan[c].next ELSE @,
                          ![c].next = IF chan[c].pending = 1 THEN "main" ELSE @]
  /\ UNCHANGED <<games, gameIDs, lock, run, shutdownCh, manager, ctx, starts, panic, sender>>

SendUpdate(c) ==
  /\ chan[c].pending > 0
  /\ buf < Cap
  /\ buf' = buf + 1
  /\ chan' = [chan EXCEPT ![c].pending = @ - 1,
                          ![c].loop = IF chan[c].pending = 1 THEN chan[c].next ELSE @,
                          ![c].next = IF chan[c].pending = 1 THEN "main" ELSE @]
  /\ UNCHANGED <<games, gameIDs, lock, run, shutdownCh, manager, ctx, starts, panic, sender>>

(* The channel is closed (GameShutdownError), or the context is cancelled. *)
LoopStopped(c) ==
  /\ chan[c].loop = "main" /\ chan[c].pending = 0
  /\ \/ ~chan[c].open /\ chan' = [chan EXCEPT ![c] = Then(@, 0, "done", "shutdown")]
     \/ chan[c].ctx = "cancelled" /\ chan' = [chan EXCEPT ![c] = Then(@, 0, "done", "ctx")]
  /\ UNCHANGED <<games, gameIDs, lock, run, shutdownCh, buf, manager, ctx, starts, panic, sender>>

(* Mutant of Done: the game does not drain its channel.                    *)
Done_NoDrain(c) ==
  /\ chan[c].loop = "done" /\ chan[c].dealer = "wait"
  /\ chan' = [chan EXCEPT ![c].loop = "end", ![c].err = "nil",
                          ![c].dealer = IF chan[c].err = "shutdown" THEN "end" ELSE "clean"]
  /\ UNCHANGED <<games, gameIDs, lock, run, shutdownCh, buf, manager, ctx, starts, panic, sender>>

(* Mutant of Done: a game that failed is left registered.                  *)
Done_CleanOnlyIfEnded(c) ==
  /\ chan[c].loop = "done" /\ chan[c].dealer = "wait"
  /\ chan' = [chan EXCEPT ![c].loop = "drain", ![c].err = "nil",
                          ![c].dealer = IF chan[c].err = "nil" THEN "clean" ELSE "end"]
  /\ UNCHANGED <<games, gameIDs, lock, run, shutdownCh, buf, manager, ctx, starts, panic, sender>>

(* The loop hands what it returned to Dealer.run and starts draining; a    *)
(* game that was shut down by stopGames needs no cleaning up.              *)
Done(c) ==
  /\ chan[c].loop = "done" /\ chan[c].dealer = "wait"
  /\ chan' = [chan EXCEPT ![c].loop = "drain", ![c].err = "nil",
                          ![c].dealer = IF chan[c].err = "shutdown" THEN "end" ELSE "clean"]
  /\ UNCHANGED <<games, gameIDs, lock, run, shutdownCh, buf, manager, ctx, starts, panic, sender>>

(* Dealer.run closes and unregisters the channel it finds under its key.   *)
Clean(c) ==
  /\ chan[c].dealer = "clean"
  /\ lock = None
  /\ LET id == chan[c].id
         ch == games[id]
     IN IF ch = None
        THEN /\ chan' = [chan EXCEPT ![c].dealer = "end"]
             /\ UNCHANGED <<games, gameIDs, panic>>
        ELSE /\ panic' = (panic \/ ~chan[ch].open)
             /\ chan' = [chan EXCEPT ![ch].open = FALSE, ![c].dealer = "end"]
             /\ games' = [games EXCEPT ![id] = None]
             /\ gameIDs' = gameIDs \ {id}
  /\ UNCHANGED <<lock, run, shutdownCh, buf, manager, ctx, starts, sender>>

DrainEnd(c) ==
  /\ chan[c].loop = "drain" /\ ~chan[c].open
  /\ chan' = [chan EXCEPT ![c].loop = "end"]
  /\ UNCHANGED <<games, gameIDs, lock, run, shutdownCh, buf, manager, ctx, starts, panic, sender>>

-----------------------------------------------------------------------------
Next ==
  \/ Start \/ Stop \/ stopGames \/ Cancel \/ Stopped \/ updateLoop
  \/ RunBoot \/ RunExit \/ AnnounceRefusal \/ Deliver \/ Inject \/ Receive
  \/ \E id \in GameIDs : handleMessage(id)
  \/ \E c \in Chans : \/ TimerEvent(c) \/ SendUpdate(c) \/ LoopStopped(c)
                      \/ Done(c) \/ Clean(c) \/ DrainEnd(c)

(* The steps a goroutine takes at most once in a game or between a Start   *)
(* and a Stop.                                                             *)
Once ==
  \/ stopGames \/ Cancel \/ Stopped \/ RunBoot \/ RunExit
  \/ \E c \in Chans : TimerEvent(c) \/ LoopStopped(c) \/ Done(c) \/ Clean(c) \/ DrainEnd(c)

(* A goroutine that can go on does.  Where several wait for the mutex, for *)
(* a slot of gameUpdateCh or for one case of a select, none is passed over *)
(* for ever: a Go mutex hands itself to the longest waiter, the senders of *)
(* a channel queue up, and select picks at random.  For steps of which     *)
(* there are finitely many it is enough to say so of all of them together. *)
(* Nothing makes a user call Start or Stop, or a message arrive.           *)
Fairness ==
  /\ SF_vars(Once)
  /\ SF_vars(\E c \in Chans : SendUpdate(c))
  /\ SF_vars(AnnounceRefusal \/ Deliver \/ \E id \in GameIDs : handleMessage(id))
  /\ WF_vars(Receive)
  /\ WF_vars(updateLoop)

Spec == Init /\ [][Next]_vars
FairSpec == Spec /\ Fairness

-----------------------------------------------------------------------------
(* Properties.                                                             *)

Channel ==
  [ id : GameIDs \cup {None}, open : BOOLEAN,
    loop : {"none", "main", "done", "drain", "end"}, pending : 0..2,
    next : {"main", "done"}, err : {"nil", "error", "shutdown", "ctx"},
    dealer : {"none", "wait", "clean", "end"}, ctx : {"live", "cancelled"} ]

(* The Dealer's fields and the goroutines' positions are of their types,   *)
(* and gameUpdateCh never holds more than its capacity.                    *)
TypeOK ==
  /\ games \in [GameIDs -> Chans \cup {None}]
  /\ gameIDs \in SUBSET GameIDs
  /\ lock \in {None, "run"}
  /\ sender \in {"idle", "blocked"}
  /\ run \in [pc : {"off", "boot", "select", "handle", "refuse", "send"}, ch : Chans \cup {None}]
  /\ shutdownCh \in {"nil", "open", "closed"}
  /\ chan \in [Chans -> Channel]
  /\ buf \in 0..Cap
  /\ manager \in {"stopped", "started", "stopGames", "cancel", "waiting"}
  /\ ctx \in {"live", "cancelled"}
  /\ starts \in 0..MaxStarts
  /\ panic \in BOOLEAN

(* No goroutine sends to a closed channel or closes one twice, which would *)
(* bring the service down, however stopGames, Dealer.run and Dealer.Run    *)
(* interleave.                                                             *)
NoPanic == ~panic

(* The channel registered for a game is open, its id is known, and a       *)
(* goroutine is there to take from it: handleMessageOthers, which sends    *)
(* with the lock held, is never left alone with a channel nobody reads.    *)
RegisteredAreRead ==
  \A id \in GameIDs :
    games[id] # None =>
      /\ id \in gameIDs
      /\ chan[games[id]].open /\ chan[games[id]].id = id
      /\ chan[games[id]].loop \in {"main", "done", "drain"}

(* A Dealer.run about to clean up finds under its key its own channel or   *)
(* none, never that of a later game with the same id: stopGames leaves the *)
(* id in gameIDs, so that no later game can take its place.                *)
CleansItsOwn ==
  \A c \in Chans : chan[c].dealer = "clean" => games[chan[c].id] \in {None, c}

(* No caller of FlipManager.Stop is kept for ever, and every game ends     *)
(* with all its goroutines, in its own life of the Dealer or in a later    *)
(* one, unless gameUpdateCh is full for ever.  (There are finitely many    *)
(* games and calls of Stop, so from some point on none is under way.)      *)
StopCompletes ==
  \/ []<>(/\ manager \in {"started", "stopped"}
           /\ \A c \in Chans : chan[c].loop \in {"none", "end"})
  \/ <>[](buf = Cap)

(* No call of InjectIncomingChat is kept for ever, and so Dealer.Run, which *)
(* sends to the games with the lock held, always gives the lock back,       *)
(* unless it has ended (the call then waits for the next Start), or         *)
(* gameUpdateCh is full for ever.                                           *)
InjectReturns ==
  []<>(sender = "idle" \/ run.pc = "off") \/ <>[](buf = Cap)
=============================================================================
