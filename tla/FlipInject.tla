----------------------------- MODULE FlipInject -----------------------------
(***************************************************************************)
(* How FlipManager (go/chat/flipmanager.go) feeds the messages of a flip's *)
(* conversation to the Dealer of one device: the notifications of new      *)
(* messages, the queue maybeInjectCh, the mark gameMsgIDs of the last      *)
(* message handled, and the recovery of what a notification has skipped by *)
(* pulling the whole conversation.  Messages are numbered from 1, the      *)
(* START (isStartMsgID); the two before it are never injected.             *)
(***************************************************************************)
EXTENDS Naturals, Sequences, FiniteSets, FiniteSetsExt, SequencesExt

CONSTANTS
  MaxMsg,   \* how many messages the conversation gets
  Cap,      \* the capacity of maybeInjectCh
  MaxPart,  \* maxConvParticipations
  Senders,  \* a subset of {"me", "other"}: who sends messages
  None      \* no mark yet

ASSUME MaxMsgAssumption == MaxMsg \in Nat
ASSUME CapAssumption == Cap \in Nat \ {0}
ASSUME MaxPartAssumption == MaxPart \in Nat \ {0}
ASSUME SendersAssumption == Senders \subseteq {"me", "other"}
ASSUME NoneAssumption == None \notin Nat

VARIABLES
  conv,       \* the conversation: the sender of a message, and if it unboxes
  pushed,     \* the messages whose notification is on its way
  queue,      \* maybeInjectCh
  mark,       \* gameMsgIDs[game]
  dealt,      \* the messages handed to the Dealer, in order
  over,       \* the Dealer has unregistered the game
  foreground, \* the application is in the foreground
  count,      \* convParticipations[host conversation].count in this window
  astray      \* the mark was moved back or over messages to inject (history)

vars == <<conv, pushed, queue, mark, dealt, over, foreground, count, astray>>

Ids == DOMAIN conv
Valid(i) == conv[i].valid
Mine(i) == conv[i].from = "me"

(* The device started the game, or has been dealt its START.               *)
Joined == conv # <<>> /\ (Mine(1) \/ 1 \in Range(dealt))
IsGameActive == Joined /\ ~over

Init ==
  /\ conv = <<>>
  /\ pushed = {}
  /\ queue = <<>>
  /\ mark = None
  /\ dealt = <<>>
  /\ over = FALSE
  /\ foreground = TRUE
  /\ count = 0
  /\ astray = FALSE

-----------------------------------------------------------------------------
(* A message enters the conversation.  The device writes one itself only   *)
(* in a game it has joined; its outbox id is then a registered one.        *)
Post ==
  /\ Len(conv) < MaxMsg
  /\ \E from \in Senders, valid \in BOOLEAN :
       /\ from = "me" => valid /\ (conv = <<>> \/ Joined)
       /\ conv' = Append(conv, [from |-> from, valid |-> valid])
  /\ pushed' = pushed \cup {Len(conv) + 1}
  /\ UNCHANGED <<queue, mark, dealt, over, foreground, count, astray>>

(* The notification of message i.  It is put on the queue unless it does   *)
(* not unbox or the queue is full.                                         *)
MaybeInjectFlipMessage(i) ==
  /\ i \in pushed
  /\ pushed' = pushed \ {i}
  /\ queue' = IF Valid(i) /\ Len(queue) < Cap THEN Append(queue, i) ELSE queue
  /\ UNCHANGED <<conv, mark, dealt, over, foreground, count, astray>>

(* The device was not connected: no notification of message i.             *)
Miss(i) ==
  /\ i \in pushed
  /\ pushed' = pushed \ {i}
  /\ UNCHANGED <<conv, queue, mark, dealt, over, foreground, count, astray>>

-----------------------------------------------------------------------------
(* maybeInjectLoop takes the first message of the queue.                   *)

shouldIgnoreInject == ~IsGameActive /\ (~foreground \/ count >= MaxPart)

(* A set of numbers as a sequence, the smallest first.                     *)
Ascending(K) ==
  {f \in [1..Cardinality(K) -> K] : \A a, b \in DOMAIN f : a < b => f[a] < f[b]}

(* The messages ids in turn: invalid ones fail, the device's own, known by *)
(* their outbox ids, are skipped, and the others are injected.             *)
injectIncomingChat(ids) ==
  \E at \in Ascending({k \in DOMAIN ids : Valid(ids[k]) /\ ~Mine(ids[k])}) :
    LET in == [a \in DOMAIN at |-> ids[at[a]]] IN
    /\ dealt' = dealt \o in
    /\ mark' = IF in = <<>> THEN mark ELSE Last(in)
    /\ count' = Min({count + Len(in), MaxPart})

(* Mutants of updateActiveGame: the recovery leaves out the first message  *)
(* of the gap; the recovery starts all over.                               *)
updateActiveGame_OffByOne(n) ==
  IF mark # None /\ n <= mark
  THEN UNCHANGED <<dealt, mark, count>>
  ELSE \/ injectIncomingChat(IF mark # None /\ n > mark + 1
                             THEN [k \in 1..(n - mark - 1) |-> mark + 1 + k] ELSE <<n>>)
       \/ UNCHANGED <<dealt, mark, count>>
updateActiveGame_FromStart(n) ==
  IF mark # None /\ n <= mark
  THEN UNCHANGED <<dealt, mark, count>>
  ELSE IF mark # None /\ n = mark + 1
  THEN injectIncomingChat(<<n>>)
  ELSE injectIncomingChat([k \in 1..n |-> k])

(* The next message, or what has come between the mark and it as well,     *)
(* unless the conversation cannot be pulled.                               *)
updateActiveGame(n) ==
  IF mark # None /\ n <= mark
  THEN UNCHANGED <<dealt, mark, count>>
  ELSE IF n = (IF mark = None THEN 1 ELSE mark + 1)
  THEN injectIncomingChat(<<n>>)
  ELSE LET msgIDStart == IF mark = None THEN 0 ELSE mark IN
       \/ injectIncomingChat([k \in 1..(n - msgIDStart) |-> msgIDStart + k])
       \/ UNCHANGED <<dealt, mark, count>>

(* The device's own message n comes when the mark is just before it, but   *)
(* for messages that are not injected.                                     *)
InTurn(n) ==
  LET last == IF mark = None THEN 0 ELSE mark IN
  n > last /\ \A j \in (last + 1)..(n - 1) : Mine(j) \/ ~Valid(j)

(* An own message sets the mark, whatever it is.                           *)
ownMessage(n) ==
  /\ Mine(n)
  /\ mark' = n
  /\ astray' = (astray \/ ~InTurn(n))
  /\ UNCHANGED <<dealt, count>>

maybeInjectLoop ==
  /\ queue # <<>>
  /\ queue' = Tail(queue)
  /\ LET n == Head(queue) IN
     \/ ownMessage(n)
     \/ /\ ~Mine(n)
        /\ IF shouldIgnoreInject THEN UNCHANGED <<mark, dealt, count>>
                                 ELSE updateActiveGame(n)
        /\ UNCHANGED astray
  /\ UNCHANGED <<conv, pushed, over, foreground>>

-----------------------------------------------------------------------------
(* The rest of the device.                                                 *)

GameOver ==
  /\ IsGameActive
  /\ over' = TRUE
  /\ UNCHANGED <<conv, pushed, queue, mark, dealt, foreground, count, astray>>

SwitchApp ==
  /\ foreground' = ~foreground
  /\ UNCHANGED <<conv, pushed, queue, mark, dealt, over, count, astray>>

(* maxConvParticipationsReset has passed.                                  *)
ResetParticipations ==
  /\ count > 0
  /\ count' = 0
  /\ UNCHANGED <<conv, pushed, queue, mark, dealt, over, foreground, astray>>

Next ==
  \/ Post
  \/ \E i \in Ids : MaybeInjectFlipMessage(i) \/ Miss(i)
  \/ maybeInjectLoop
  \/ GameOver \/ SwitchApp \/ ResetParticipations

Spec == Init /\ [][Next]_vars

-----------------------------------------------------------------------------
(* Properties.                                                             *)

(* The Dealer gets the messages in the order of the conversation and none  *)
(* of them twice, whichever notifications were lost, late or dropped at a  *)
(* full queue: a second COMMITMENT or REVEAL of a device ends the game.    *)
(* updateActiveGame ignores what is not newer than the mark.  The mark     *)
(* goes astray by a late notification of an own message; then no more is   *)
(* said.                                                                   *)
DealtInOrder == ~astray => \A k \in 1..(Len(dealt) - 1) : dealt[k] < dealt[k + 1]

(* With a message the Dealer has also got every earlier one that unboxes,  *)
(* except the device's own: updateActiveGame makes up for every gap, as    *)
(* long as no notification of an own message set the mark over one.        *)
NoGap ==
  ~astray => \A i \in Range(dealt) : \A j \in 1..(i - 1) :
    Valid(j) /\ ~Mine(j) => j \in Range(dealt)
=============================================================================
