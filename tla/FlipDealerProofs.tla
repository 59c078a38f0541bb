-------------------------- MODULE FlipDealerProofs ---------------------------
(***************************************************************************)
(* The goroutines of a Dealer never panic and never send to a channel that *)
(* nobody reads, for every number of games, channels and restarts.         *)
(***************************************************************************)
EXTENDS FlipDealer, TLAPS

(* A Dealer.run stands behind the channel g and has yet to clean up.       *)
Waited(g) == g.dealer \in {"wait", "clean"}

(* How a game's loop and the Dealer.run that waits for it go together.     *)
LoopOK(g) ==
  /\ g.loop \in {"main", "done"} <=> g.dealer = "wait"
  /\ g.dealer = "clean" => g.loop \in {"drain", "end"}
  /\ g.pending > 0 => g.loop = "main"
  /\ g.err = "shutdown" => ~g.open
  /\ g.loop = "end" => ~g.open

(* As long as a Dealer.run has yet to clean up, its id is in gameIDs: no   *)
(* other game can be registered under it...                                *)
Loops ==
  \A c \in Chans :
    /\ LoopOK(chan[c])
    /\ Waited(chan[c]) => chan[c].id \in gameIDs

(* ... and so there is one Dealer.run at most for an id.                   *)
Unique ==
  \A c, d \in Chans :
    Waited(chan[c]) /\ Waited(chan[d]) /\ chan[c].id = chan[d].id => c = d

(* A registered channel is open, and has its Dealer.run.                   *)
Registered ==
  \A id \in GameIDs :
    games[id] # None =>
      /\ Waited(chan[games[id]])
      /\ chan[games[id]].open
      /\ chan[games[id]].id = id

(* While Dealer.Run sends, it has the lock and the channel is registered.  *)
Sending ==
  run.pc = "send" =>
    /\ lock = "run"
    /\ run.ch \in Chans
    /\ \E id \in GameIDs : games[id] = run.ch

Inv == TypeOK /\ Loops /\ Unique /\ Registered /\ Sending /\ NoPanic

-----------------------------------------------------------------------------
LEMMA InitInv == Init => Inv
  <1> SUFFICES ASSUME Init PROVE Inv
    OBVIOUS
  <1>1. TypeOK
    <2>1. Unmade \in Channel
      BY DEF Unmade, Channel
    <2>2. chan \in [Chans -> Channel]
      BY <2>1 DEF Init
    <2>3. buf \in 0..Cap /\ starts \in 0..MaxStarts
      BY CapAssumption, MaxStartsAssumption DEF Init
    <2> QED BY <2>2, <2>3 DEF Init, TypeOK
  <1>2. Loops /\ Unique
    BY DEF Init, Loops, Unique, LoopOK, Waited, Unmade
  <1>3. Registered /\ Sending /\ NoPanic
    BY DEF Init, Registered, Sending, NoPanic
  <1> QED BY <1>1, <1>2, <1>3 DEF Inv

(* A step that changes neither the channels nor what is registered.        *)
LEMMA ChannelsKept ==
  ASSUME Inv, UNCHANGED <<games, gameIDs, chan>>
  PROVE  Loops' /\ Unique' /\ Registered'
  BY DEF Inv, Loops, Unique, Registered

(* A step of one loop, or of the Dealer.run behind it, that leaves the     *)
(* channel as open as it was and no registered one alone.                  *)
LEMMA OneChannel ==
  ASSUME Inv, NEW c \in Chans, NEW g \in Channel,
         chan' = [chan EXCEPT ![c] = g],
         UNCHANGED <<games, gameIDs>>,
         LoopOK(g), g.id = chan[c].id, g.open = chan[c].open,
         Waited(g) => Waited(chan[c]),
         chan[c].open /\ Waited(chan[c]) => Waited(g)
  PROVE  /\ chan' \in [Chans -> Channel]
         /\ Loops' /\ Unique' /\ Registered'
  <1>1. chan \in [Chans -> Channel] /\ games \in [GameIDs -> Chans \cup {None}]
    BY DEF Inv, TypeOK
  <1>2. chan' \in [Chans -> Channel]
    BY <1>1
  <1>3. \A d \in Chans : chan'[d] = IF d = c THEN g ELSE chan[d]
    BY <1>1
  <1>4. \A d \in Chans : /\ LoopOK(chan'[d])
                         /\ chan'[d].id = chan[d].id
                         /\ chan'[d].open = chan[d].open
                         /\ Waited(chan'[d]) => Waited(chan[d])
                         /\ chan[d].open /\ Waited(chan[d]) => Waited(chan'[d])
    BY <1>3 DEF Inv, Loops
  <1>5. Loops'
    BY <1>4 DEF Inv, Loops
  <1>6. Unique'
    BY <1>4 DEF Inv, Unique
  <1>7. Registered'
    BY <1>1, <1>4, ChansAssumption DEF Inv, Registered
  <1> QED BY <1>2, <1>5, <1>6, <1>7

(* The lock keeps a send safe: whatever happens while Dealer.Run sends     *)
(* leaves the registered channels alone.                                   *)
LEMMA SendingKept ==
  ASSUME Inv, UNCHANGED <<games, lock, run>>
  PROVE  Sending'
  BY DEF Inv, Sending

-----------------------------------------------------------------------------
(* FlipManager.                                                            *)

LEMMA ManagerInv ==
  ASSUME Inv, Start \/ Stop \/ Stopped \/ updateLoop PROVE Inv'
  <1>1. TypeOK'
    <2>1. CASE Start
      BY <2>1, MaxStartsAssumption DEF Inv, TypeOK, Start
    <2>2. CASE Stop
      BY <2>2 DEF Inv, TypeOK, Stop
    <2>3. CASE Stopped
      BY <2>3 DEF Inv, TypeOK, Stopped
    <2>4. CASE updateLoop
      BY <2>4, CapAssumption DEF Inv, TypeOK, updateLoop
    <2> QED BY <2>1, <2>2, <2>3, <2>4
  <1>2. UNCHANGED <<games, gameIDs, chan, lock, panic>>
    BY DEF Start, Stop, Stopped, updateLoop
  <1>3. Sending'
    <2>1. run' = run \/ run'.pc = "boot"
      BY DEF Inv, TypeOK, Start, Stop, Stopped, updateLoop
    <2> QED BY <1>2, <2>1, SendingKept DEF Sending
  <1> QED BY <1>1, <1>2, <1>3, ChannelsKept DEF Inv, NoPanic

LEMMA stopGamesInv == Inv /\ stopGames => Inv'
  <1> SUFFICES ASSUME Inv, stopGames PROVE Inv'
    OBVIOUS
  <1> USE DEF stopGames
  <1>1. /\ chan \in [Chans -> Channel] /\ games \in [GameIDs -> Chans \cup {None}]
        /\ games' = [id \in GameIDs |-> None]
    BY DEF Inv, TypeOK
  <1>2. \A c \in Chans : \/ chan'[c] = chan[c]
                         \/ chan'[c] = [chan[c] EXCEPT !.open = FALSE]
    OBVIOUS
  <1>3. chan' \in [Chans -> Channel]
    <2>1. \A g \in Channel : [g EXCEPT !.open = FALSE] \in Channel
      BY DEF Channel
    <2>2. \A c \in Chans : chan'[c] \in Channel
      BY <1>1, <1>2, <2>1
    <2> QED BY <2>2
  <1>4. TypeOK'
    BY <1>3 DEF Inv, TypeOK
  <1>5. \A c \in Chans : /\ LoopOK(chan'[c])
                         /\ chan'[c].id = chan[c].id
                         /\ Waited(chan'[c]) <=> Waited(chan[c])
    BY <1>1, <1>2 DEF Inv, Loops, LoopOK, Waited, Channel
  <1>6. Loops' /\ Unique'
    BY <1>5 DEF Inv, Loops, Unique
  <1>7. Registered'
    BY <1>1 DEF Registered
  <1>8. Sending'
    BY NoneAssumption DEF Inv, Sending
  <1>9. NoPanic'
    BY DEF Inv, NoPanic, Registered
  <1> QED BY <1>4, <1>6, <1>7, <1>8, <1>9 DEF Inv

LEMMA CancelInv == Inv /\ Cancel => Inv'
  <1> SUFFICES ASSUME Inv, Cancel PROVE Inv'
    OBVIOUS
  <1> USE DEF Cancel
  <1>1. /\ chan \in [Chans -> Channel] /\ games \in [GameIDs -> Chans \cup {None}]
        /\ UNCHANGED <<games, gameIDs, lock, run, panic>>
    BY DEF Inv, TypeOK
  <1>2. \A c \in Chans : \/ chan'[c] = chan[c]
                         \/ chan'[c] = [chan[c] EXCEPT !.ctx = "cancelled"]
    OBVIOUS
  <1>3. chan' \in [Chans -> Channel]
    <2>1. \A c \in Chans : chan'[c] \in Channel
      <3> TAKE c \in Chans
      <3>1. chan[c] \in Channel /\ [chan[c] EXCEPT !.ctx = "cancelled"] \in Channel
        BY <1>1 DEF Channel
      <3> QED BY <1>2, <3>1
    <2> QED BY <2>1
  <1>4. TypeOK'
    BY <1>3 DEF Inv, TypeOK
  <1>5. \A c \in Chans : /\ LoopOK(chan'[c])
                         /\ chan'[c].id = chan[c].id
                         /\ chan'[c].open = chan[c].open
                         /\ Waited(chan'[c]) <=> Waited(chan[c])
    BY <1>1, <1>2 DEF Inv, Loops, LoopOK, Waited, Channel
  <1>6. Loops' /\ Unique'
    BY <1>1, <1>5 DEF Inv, Loops, Unique
  <1>7. Registered'
    BY <1>1, <1>5 DEF Inv, Registered
  <1> QED BY <1>1, <1>4, <1>6, <1>7, SendingKept DEF Inv, NoPanic

-----------------------------------------------------------------------------
(* Dealer.Run.                                                             *)

LEMMA RunInv ==
  ASSUME Inv,
         \/ RunBoot \/ RunExit \/ AnnounceRefusal \/ Inject \/ Receive
         \/ \E id \in GameIDs : RefuseStart(id)
  PROVE  Inv'
  <1>1. UNCHANGED <<games, gameIDs, lock, chan, panic, starts, manager, ctx>>
    BY DEF RunBoot, RunExit, AnnounceRefusal, Inject, Receive, RefuseStart
  <1>2. /\ run' \in [pc : {"off", "boot", "select", "handle", "refuse", "send"},
                     ch : Chans \cup {None}]
        /\ run' = run \/ run'.pc # "send"
    BY DEF Inv, TypeOK, RunBoot, RunExit, AnnounceRefusal, Inject, Receive, RefuseStart
  <1>3. /\ shutdownCh' \in {"nil", "open", "closed"}
        /\ sender' \in {"idle", "blocked"}
        /\ buf' \in 0..Cap
    BY CapAssumption
       DEF Inv, TypeOK, RunBoot, RunExit, AnnounceRefusal, Inject, Receive, RefuseStart
  <1>4. TypeOK'
    BY <1>1, <1>2, <1>3 DEF Inv, TypeOK
  <1>5. Sending'
    BY <1>1, <1>2, SendingKept DEF Sending
  <1> QED BY <1>1, <1>4, <1>5, ChannelsKept DEF Inv, NoPanic

(* The channel of a game that was just made.                               *)
LEMMA MadeGame ==
  ASSUME ctx \in {"live", "cancelled"}, NEW id \in GameIDs
  PROVE  /\ MakeGame(id) \in Channel /\ LoopOK(MakeGame(id)) /\ Waited(MakeGame(id))
         /\ MakeGame(id).id = id /\ MakeGame(id).open
  <1>1. Unmade \in Channel
    BY DEF Unmade, Channel
  <1>2. MakeGame(id) \in Channel
    <2> DEFINE g == [Unmade EXCEPT !.id = id, !.open = TRUE, !.loop = "main"]
    <2>1. g \in Channel
      BY <1>1 DEF Channel
    <2>2. MakeGame(id) = [g EXCEPT !.dealer = "wait", !.ctx = ctx]
      BY DEF MakeGame
    <2> HIDE DEF g
    <2> QED BY <2>1, <2>2 DEF Channel
  <1>3. LoopOK(MakeGame(id)) /\ Waited(MakeGame(id))
    BY DEF MakeGame, Unmade, LoopOK, Waited
  <1>4. MakeGame(id).id = id /\ MakeGame(id).open
    BY DEF MakeGame, Unmade
  <1> QED BY <1>2, <1>3, <1>4

(* A new game gets an id that no Dealer.run stands for any more.           *)
LEMMA handleMessageStartInv ==
  ASSUME Inv, NEW id \in GameIDs, handleMessageStart(id) PROVE Inv'
  <1> USE DEF handleMessageStart
  <1> DEFINE c == msgCh
  <1>1. /\ c \in Chans /\ chan[c] = Unmade
        /\ chan' = [chan EXCEPT ![c] = MakeGame(id)]
        /\ games' = [games EXCEPT ![id] = c]
    <2>1. \E ch \in Chans : chan[ch] = Unmade
      OBVIOUS
    <2>2. c \in Chans /\ chan[c] = Unmade
      BY <2>1, Zenon DEF msgCh
    <2> QED BY <2>2
  <1> HIDE DEF c
  <1>2. /\ chan \in [Chans -> Channel] /\ games \in [GameIDs -> Chans \cup {None}]
        /\ ctx \in {"live", "cancelled"}
    BY DEF Inv, TypeOK
  <1>3. /\ MakeGame(id) \in Channel /\ LoopOK(MakeGame(id)) /\ Waited(MakeGame(id))
        /\ MakeGame(id).id = id /\ MakeGame(id).open
    BY <1>2, MadeGame
  <1>4. /\ \A d \in Chans : chan'[d] = IF d = c THEN MakeGame(id) ELSE chan[d]
        /\ \A j \in GameIDs : games'[j] = IF j = id THEN c ELSE games[j]
        /\ ~Waited(chan[c])
    BY <1>1, <1>2 DEF Unmade, Waited
  <1>5. TypeOK'
    <2>1. chan' \in [Chans -> Channel] /\ games' \in [GameIDs -> Chans \cup {None}]
      BY <1>1, <1>2, <1>3
    <2> QED BY <2>1 DEF Inv, TypeOK
  <1>6. Loops'
    BY <1>3, <1>4 DEF Inv, Loops
  <1>7. Unique'
    BY <1>3, <1>4 DEF Inv, Loops, Unique
  <1>8. Registered'
    <2>1. c \in Chans /\ games[id] = None
      BY <1>1
    <2> QED BY <1>2, <1>3, <1>4, <2>1, ChansAssumption DEF Inv, Registered
  <1>9. Sending' /\ NoPanic'
    BY NoneAssumption DEF Inv, TypeOK, Sending, NoPanic
  <1> QED BY <1>5, <1>6, <1>7, <1>8, <1>9 DEF Inv

LEMMA handleMessageOthersInv ==
  ASSUME Inv, NEW id \in GameIDs, handleMessageOthers(id) PROVE Inv'
  <1> USE DEF handleMessageOthers
  <1>1. TypeOK'
    BY DEF Inv, TypeOK
  <1>2. Sending'
    BY DEF Inv, TypeOK, Sending
  <1> QED BY <1>1, <1>2, ChannelsKept DEF Inv, NoPanic

(* What a loop does next: it sends updates, or goes on at once.            *)
LEMMA ThenOK ==
  ASSUME NEW g \in Channel, LoopOK(g), g.loop = "main", g.pending = 0,
         NEW n \in 0..2, NEW next \in {"main", "done"},
         NEW err \in {"nil", "error", "shutdown", "ctx"}, err = "shutdown" => ~g.open
  PROVE  /\ Then(g, n, next, err) \in Channel /\ LoopOK(Then(g, n, next, err))
         /\ Then(g, n, next, err).id = g.id
         /\ Then(g, n, next, err).open = g.open
         /\ Then(g, n, next, err).dealer = g.dealer
  <1> DEFINE h == Then(g, n, next, err)
  <1>1. CASE n = 0
    <2>1. h = [g EXCEPT !.loop = next, !.err = err]
      BY <1>1 DEF Then
    <2> HIDE DEF h
    <2>2. /\ h.id = g.id /\ h.open = g.open /\ h.dealer = g.dealer
          /\ h.pending = g.pending /\ h.loop = next /\ h.err = err
      BY <2>1 DEF Channel
    <2>3. h \in Channel
      BY <2>1 DEF Channel
    <2> QED BY <2>2, <2>3 DEF LoopOK, h
  <1>2. CASE n # 0
    <2>1. h = [g EXCEPT !.pending = n, !.next = next, !.err = err]
      BY <1>2 DEF Then
    <2> HIDE DEF h
    <2>2. /\ h.id = g.id /\ h.open = g.open /\ h.dealer = g.dealer
          /\ h.pending = n /\ h.loop = g.loop /\ h.err = err
      BY <2>1 DEF Channel
    <2>3. h \in Channel
      BY <2>1 DEF Channel
    <2> QED BY <2>2, <2>3 DEF LoopOK, h
  <1> QED BY <1>1, <1>2

(* What a game makes of a message.                                         *)
LEMMA HandledOK ==
  ASSUME NEW g \in Channel, LoopOK(g), g.loop = "main", g.pending = 0,
         NEW h \in Handled(g)
  PROVE  /\ h \in Channel /\ LoopOK(h)
         /\ h.id = g.id /\ h.open = g.open /\ h.dealer = g.dealer
  <1>1. PICK n \in 0..2, next \in {"main", "done"}, err \in {"nil", "error"} :
          h = Then(g, n, next, err)
    BY DEF Handled
  <1> QED BY <1>1, ThenOK

LEMMA DeliverInv == Inv /\ Deliver => Inv'
  <1> SUFFICES ASSUME Inv, Deliver PROVE Inv'
    OBVIOUS
  <1> USE DEF Deliver
  <1> DEFINE c == run.ch
  <1>1. /\ c \in Chans /\ chan[c].open /\ chan[c] \in Channel /\ LoopOK(chan[c])
        /\ UNCHANGED <<games, gameIDs, shutdownCh, buf, manager, ctx, starts, sender>>
        /\ run' = [pc |-> "select", ch |-> None] /\ lock' = None
    BY ChansAssumption DEF Inv, TypeOK, Sending, Registered, Loops
  <1>2. Sending'
    BY <1>1 DEF Sending
  <1>3. /\ chan' \in [Chans -> Channel] /\ Loops' /\ Unique' /\ Registered' /\ UNCHANGED panic
    <2>1. CASE chan[c].loop = "drain" /\ UNCHANGED <<chan, panic>>
      BY <2>1, <1>1, ChannelsKept DEF Inv, TypeOK
    <2>2. CASE /\ chan[c].loop = "main" /\ chan[c].pending = 0
               /\ \E g \in Handled(chan[c]) : chan' = [chan EXCEPT ![c] = g]
               /\ UNCHANGED panic
      <3>1. PICK g \in Handled(chan[c]) : chan' = [chan EXCEPT ![c] = g]
        BY <2>2
      <3>2. /\ g \in Channel /\ LoopOK(g)
            /\ g.id = chan[c].id /\ g.open = chan[c].open /\ g.dealer = chan[c].dealer
        BY <1>1, <2>2, HandledOK
      <3> HIDE DEF c
      <3> QED BY <1>1, <2>2, <3>1, <3>2, OneChannel DEF Waited
    <2> QED BY <1>1, <2>1, <2>2
  <1>4. TypeOK'
    BY <1>1, <1>3 DEF Inv, TypeOK
  <1> QED BY <1>2, <1>3, <1>4 DEF Inv, NoPanic

-----------------------------------------------------------------------------
(* The loop of a game and its Dealer.run.                                  *)

LEMMA LoopInv ==
  ASSUME Inv, NEW c \in Chans,
         TimerEvent(c) \/ SendUpdate(c) \/ LoopStopped(c) \/ Done(c)
  PROVE  Inv'
  <1> DEFINE g == chan'[c]
  <1>1. chan \in [Chans -> Channel] /\ chan[c] \in Channel /\ LoopOK(chan[c])
    BY DEF Inv, TypeOK, Loops
  <1>2. /\ chan' = [chan EXCEPT ![c] = g]
        /\ g \in Channel /\ LoopOK(g)
        /\ g.id = chan[c].id /\ g.open = chan[c].open
        /\ Waited(g) => Waited(chan[c])
        /\ chan[c].open /\ Waited(chan[c]) => Waited(g)
    <2>1. CASE TimerEvent(c)
      <3>1. g = Then(chan[c], 1, "done", "error") /\ chan' = [chan EXCEPT ![c] = g]
        BY <1>1, <2>1 DEF TimerEvent
      <3>2. chan[c].loop = "main" /\ chan[c].pending = 0
        BY <2>1 DEF TimerEvent
      <3> HIDE DEF g
      <3> QED BY <1>1, <3>1, <3>2, ThenOK DEF Waited
    <2>2. CASE SendUpdate(c)
      <3>1. /\ chan[c].pending \in 1..2 /\ chan[c].next \in {"main", "done"}
            /\ chan[c].loop = "main"
        BY <1>1, <2>2 DEF SendUpdate, Channel, LoopOK
      <3>2. /\ chan' = [chan EXCEPT ![c] = g]
            /\ g = [chan[c] EXCEPT !.pending = chan[c].pending - 1,
                                   !.loop = IF chan[c].pending = 1 THEN chan[c].next
                                                                   ELSE chan[c].loop,
                                   !.next = IF chan[c].pending = 1 THEN "main"
                                                                   ELSE chan[c].next]
        BY <1>1, <2>2 DEF SendUpdate
      <3> HIDE DEF g
      <3>3. /\ g.id = chan[c].id /\ g.open = chan[c].open /\ g.dealer = chan[c].dealer
            /\ g.err = chan[c].err /\ g.pending = chan[c].pending - 1
            /\ g.loop = IF chan[c].pending = 1 THEN chan[c].next ELSE chan[c].loop
        BY <1>1, <3>2 DEF Channel
      <3>4. chan[c].pending - 1 \in 0..2 /\ g.loop \in {"main", "done"}
        BY <3>1, <3>3
      <3>5. g \in Channel
        <4>1. (IF chan[c].pending = 1 THEN "main" ELSE chan[c].next) \in {"main", "done"}
          BY <3>1
        <4> QED BY <1>1, <3>2, <3>3, <3>4, <4>1 DEF Channel
      <3> QED BY <1>1, <3>1, <3>2, <3>3, <3>5 DEF LoopOK, Waited
    <2>3. CASE LoopStopped(c)
      <3>1. PICK err \in {"shutdown", "ctx"} :
              /\ err = "shutdown" => ~chan[c].open
              /\ chan' = [chan EXCEPT ![c] = Then(chan[c], 0, "done", err)]
        BY <2>3 DEF LoopStopped
      <3>2. g = Then(chan[c], 0, "done", err) /\ chan' = [chan EXCEPT ![c] = g]
        BY <1>1, <3>1
      <3>3. chan[c].loop = "main" /\ chan[c].pending = 0
        BY <2>3 DEF LoopStopped
      <3> HIDE DEF g
      <3> QED BY <1>1, <3>1, <3>2, <3>3, ThenOK DEF Waited
    <2>4. CASE Done(c)
      BY <1>1, <2>4 DEF Done, Channel, LoopOK, Waited
    <2> QED BY <2>1, <2>2, <2>3, <2>4
  <1>3. UNCHANGED <<games, gameIDs, lock, sender, run, shutdownCh, manager, ctx, starts, panic>>
    BY DEF TimerEvent, SendUpdate, LoopStopped, Done
  <1>4. buf' \in 0..Cap
    BY CapAssumption DEF Inv, TypeOK, TimerEvent, SendUpdate, LoopStopped, Done
  <1> HIDE DEF g
  <1>5. chan' \in [Chans -> Channel] /\ Loops' /\ Unique' /\ Registered'
    BY <1>2, <1>3, OneChannel
  <1>6. TypeOK'
    BY <1>3, <1>4, <1>5 DEF Inv, TypeOK
  <1> QED BY <1>3, <1>5, <1>6, SendingKept DEF Inv, NoPanic

(* Dealer.run closes its own channel, which is open and nobody sends to.   *)
LEMMA CleanInv == ASSUME Inv, NEW c \in Chans, Clean(c) PROVE Inv'
  <1> DEFINE id == chan[c].id
  <1> DEFINE g == [chan[c] EXCEPT !.dealer = "end"]
  <1> DEFINE h == [chan[c] EXCEPT !.dealer = "end", !.open = FALSE]
  <1>1. /\ chan \in [Chans -> Channel] /\ games \in [GameIDs -> Chans \cup {None}]
        /\ chan[c] \in Channel /\ LoopOK(chan[c])
        /\ Waited(chan[c]) /\ chan[c].dealer = "clean" /\ lock = None
        /\ id \in gameIDs /\ id \in GameIDs
        /\ UNCHANGED <<lock, run, shutdownCh, buf, manager, ctx, starts, sender>>
    BY DEF Inv, TypeOK, Loops, Clean, Waited
  <1>2. Sending'
    BY <1>1, NoneAssumption DEF Inv, Sending
  <1>3. g \in Channel /\ LoopOK(g) /\ g.id = id /\ g.open = chan[c].open /\ ~Waited(g)
    BY <1>1 DEF Channel, LoopOK, Waited
  <1>4. h \in Channel /\ LoopOK(h) /\ h.id = id /\ ~Waited(h)
    BY <1>1 DEF Channel, LoopOK, Waited
  <1>5. CASE games[id] = None
    <2>1. chan' = [chan EXCEPT ![c] = g] /\ UNCHANGED <<games, gameIDs, panic>>
      BY <1>5 DEF Clean
    <2> HIDE DEF g
    <2>2. \A d \in Chans : chan'[d] = IF d = c THEN g ELSE chan[d]
      BY <1>1, <2>1
    <2>3. chan' \in [Chans -> Channel] /\ Loops' /\ Unique'
      BY <1>1, <1>3, <2>1, <2>2 DEF Inv, Loops, Unique
    <2>4. Registered'
      BY <1>1, <1>3, <1>5, <2>1, <2>2, ChansAssumption DEF Inv, Registered
    <2>5. TypeOK'
      BY <1>1, <2>1, <2>3 DEF Inv, TypeOK
    <2> QED BY <1>2, <2>1, <2>3, <2>4, <2>5 DEF Inv, NoPanic
  <1>6. CASE games[id] # None
    <2>1. games[id] = c /\ chan[c].open
      BY <1>1, <1>6 DEF Inv, Registered, Unique
    <2>2. /\ chan' = [chan EXCEPT ![c] = h]
          /\ games' = [games EXCEPT ![id] = None]
          /\ gameIDs' = gameIDs \ {id}
          /\ panic' = panic
      BY <1>1, <1>6, <2>1 DEF Clean, Inv, TypeOK, Channel
    <2> HIDE DEF h
    <2>3. /\ \A d \in Chans : chan'[d] = IF d = c THEN h ELSE chan[d]
          /\ \A j \in GameIDs : games'[j] = IF j = id THEN None ELSE games[j]
      BY <1>1, <2>2
    <2>4. chan' \in [Chans -> Channel] /\ games' \in [GameIDs -> Chans \cup {None}]
      BY <1>1, <1>4, <2>2
    <2>5. Loops'
      BY <1>1, <1>4, <2>2, <2>3 DEF Inv, Loops, Unique
    <2>6. Unique'
      BY <1>4, <2>3 DEF Inv, Unique
    <2>7. Registered'
      BY <1>1, <1>4, <2>1, <2>3, ChansAssumption DEF Inv, Registered
    <2>8. TypeOK'
      BY <1>1, <2>2, <2>4 DEF Inv, TypeOK
    <2> QED BY <1>2, <2>2, <2>5, <2>6, <2>7, <2>8 DEF Inv, NoPanic
  <1> QED BY <1>5, <1>6

LEMMA DrainEndInv == ASSUME Inv, NEW c \in Chans, DrainEnd(c) PROVE Inv'
  <1> DEFINE g == [chan[c] EXCEPT !.loop = "end"]
  <1>1. /\ chan[c] \in Channel /\ LoopOK(chan[c]) /\ chan' = [chan EXCEPT ![c] = g]
        /\ UNCHANGED <<games, gameIDs, lock, run, shutdownCh, buf, manager, ctx, starts, panic,
                       sender>>
    BY DEF Inv, TypeOK, Loops, DrainEnd
  <1>2. /\ g \in Channel /\ LoopOK(g) /\ g.id = chan[c].id /\ g.open = chan[c].open
        /\ Waited(g) <=> Waited(chan[c])
    BY <1>1 DEF DrainEnd, Channel, LoopOK, Waited
  <1> HIDE DEF g
  <1>3. chan' \in [Chans -> Channel] /\ Loops' /\ Unique' /\ Registered'
    BY <1>1, <1>2, OneChannel
  <1>4. TypeOK'
    BY <1>1, <1>3 DEF Inv, TypeOK
  <1> QED BY <1>1, <1>3, <1>4, SendingKept DEF Inv, NoPanic

-----------------------------------------------------------------------------
LEMMA NextInv == Inv /\ [Next]_vars => Inv'
  <1> SUFFICES ASSUME Inv, [Next]_vars PROVE Inv'
    OBVIOUS
  <1>1. CASE Start \/ Stop \/ Stopped \/ updateLoop
    BY <1>1, ManagerInv
  <1>2. CASE stopGames \/ Cancel \/ Deliver
    BY <1>2, stopGamesInv, CancelInv, DeliverInv
  <1>3. CASE RunBoot \/ RunExit \/ AnnounceRefusal \/ Inject \/ Receive
    BY <1>3, RunInv
  <1>4. ASSUME NEW id \in GameIDs, handleMessage(id) PROVE Inv'
    BY <1>4, RunInv, handleMessageStartInv, handleMessageOthersInv DEF handleMessage
  <1>5. ASSUME NEW c \in Chans,
               \/ TimerEvent(c) \/ SendUpdate(c) \/ LoopStopped(c)
               \/ Done(c) \/ Clean(c) \/ DrainEnd(c)
        PROVE  Inv'
    BY <1>5, LoopInv, CleanInv, DrainEndInv
  <1>6. CASE UNCHANGED vars
    <2>1. TypeOK'
      BY <1>6 DEF Inv, TypeOK, vars
    <2> QED BY <1>6, <2>1, ChannelsKept, SendingKept DEF Inv, NoPanic, vars
  <1> QED BY <1>1, <1>2, <1>3, <1>4, <1>5, <1>6 DEF Next

LEMMA Invariance == Spec => []Inv
  BY InitInv, NextInv, PTL DEF Spec

-----------------------------------------------------------------------------
(* The fields of the Dealer and the positions of its goroutines have their *)
(* types, and gameUpdateCh never holds more than its capacity.             *)
THEOREM TypeCorrect == Spec => []TypeOK
  <1>1. Inv => TypeOK
    BY DEF Inv
  <1> QED BY <1>1, Invariance, PTL

(* No goroutine sends to a closed channel or closes one twice, in whatever *)
(* order stopGames, Dealer.run and Dealer.Run come.                        *)
THEOREM NeverPanics == Spec => []NoPanic
  <1>1. Inv => NoPanic
    BY DEF Inv
  <1> QED BY <1>1, Invariance, PTL

(* Behind every registered channel, which handleMessageOthers may send to  *)
(* with the lock held, there is a game or its runDrain to take from it.    *)
THEOREM RegisteredAreReadAlways == Spec => []RegisteredAreRead
  <1>1. Inv => RegisteredAreRead
    <2> SUFFICES ASSUME Inv, NEW id \in GameIDs, games[id] # None
                 PROVE  /\ id \in gameIDs
                        /\ chan[games[id]].open /\ chan[games[id]].id = id
                        /\ chan[games[id]].loop \in {"main", "done", "drain"}
      BY DEF RegisteredAreRead
    <2>1. games[id] \in Chans
      BY DEF Inv, TypeOK
    <2> QED BY <2>1 DEF Inv, Registered, Loops, LoopOK, Waited
  <1> QED BY <1>1, Invariance, PTL

(* Dealer.run finds its own channel under its key, or none.                *)
THEOREM CleansItsOwnAlways == Spec => []CleansItsOwn
  <1>1. Inv => CleansItsOwn
    <2> SUFFICES ASSUME Inv, NEW c \in Chans, chan[c].dealer = "clean",
                        games[chan[c].id] # None
                 PROVE  games[chan[c].id] = c
      BY DEF CleansItsOwn
    <2>1. chan[c].id \in GameIDs
      BY DEF Inv, TypeOK, Loops, Waited
    <2>2. games[chan[c].id] \in Chans
      BY <2>1 DEF Inv, TypeOK
    <2> QED BY <2>1, <2>2 DEF Inv, Registered, Unique, Waited
  <1> QED BY <1>1, Invariance, PTL
=============================================================================
