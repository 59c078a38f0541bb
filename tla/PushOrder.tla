----------------------------- MODULE PushOrder ------------------------------
(***************************************************************************)
(* How the updates that the chat server pushes are put in order before     *)
(* they are applied to the local inbox: gregorMessageOrderer and the       *)
(* handlers of PushHandler (go/chat/push.go), with the version check of    *)
(* the inbox (go/chat/storage/inbox.go) and the sync of the inbox with the *)
(* server (go/chat/sync.go).  An update is named by the inbox version it   *)
(* makes.  Every handler runs in a goroutine of its own: it waits for its  *)
(* turn, takes the handler's lock, updates the inbox or syncs it when it   *)
(* does not fit, and completes its turn.                                   *)
(***************************************************************************)
EXTENDS Naturals, FiniteSets

CONSTANTS
  MaxVers,  \* how many updates the server makes
  None      \* nobody

ASSUME MaxVersAssumption == MaxVers \in Nat
ASSUME NoneAssumption == None \notin Nat

Versions == 1..MaxVers

(* A sync is run by the handler that has the lock, or apart from them when *)
(* the device connects.                                                    *)
Syncers == {"handler", "connect"}

VARIABLES
  server,   \* the server's inbox version
  wire,     \* the updates on their way to the device
  pc,       \* pc[v]: where the handler of update v is
  waiters,  \* waiters[u]: the updates with an entry in the list under u
  need,     \* need[v]: those of v's entries that are not closed yet
  from,     \* from[v]: the version v was found to follow, less one (history)
  late,     \* late[v]: v was let through by its deadline (history)
  lock,     \* the update whose handler has PushHandler's lock
  vers,     \* the inbox version on disk, 0 when there is no inbox
  have,     \* the updates, up to that version, that the inbox takes into account
  base,     \* base[p]: the version a sync of p builds on, 0 when there is none
  held,     \* held[p]: the inbox was not thrown back behind it since (history)
  sound     \* no answer was stored that did not fit the inbox (history)

disk == <<vers, have, base, held, sound>>
vars == <<server, wire, pc, waiters, need, from, late, lock, disk>>

Init ==
  /\ server \in 0..MaxVers
  /\ wire = {}
  /\ pc = [v \in Versions |-> "none"]
  /\ waiters = [u \in Versions |-> {}]
  /\ need = [v \in Versions |-> {}]
  /\ from = [v \in Versions |-> 0]
  /\ late = [v \in Versions |-> FALSE]
  /\ lock = None
  /\ vers = server
  /\ have = 1..server
  /\ base = [p \in Syncers |-> 0]
  /\ held = [p \in Syncers |-> FALSE]
  /\ sound = TRUE

-----------------------------------------------------------------------------
(* The server makes an update.  Pushes overtake each other, and one that   *)
(* is lost stays on the wire for ever.                                     *)
Push ==
  /\ server < MaxVers
  /\ server' = server + 1
  /\ wire' = wire \cup {server + 1}
  /\ UNCHANGED <<pc, waiters, need, from, late, lock, disk>>

Arrive(v) ==
  /\ v \in wire
  /\ wire' = wire \ {v}
  /\ pc' = [pc EXCEPT ![v] = "arrived"]
  /\ UNCHANGED <<server, waiters, need, from, late, lock, disk>>

-----------------------------------------------------------------------------
(* The orderer.                                                            *)

(* Without an inbox the update acts as if just the one before were missing.*)
latestInboxVersion(v) ==
  IF vers # 0 THEN vers ELSE IF v >= 2 THEN v - 2 ELSE 0

(* Mutant of addToWaitersLocked: the update just before is not waited for. *)
addToWaitersLocked_OffByOne(v) == (latestInboxVersion(v) + 1)..(v - 2)

addToWaitersLocked(v) == (latestInboxVersion(v) + 1)..(v - 1)

WaitForTurn(v) ==
  /\ pc[v] = "arrived"
  /\ from' = [from EXCEPT ![v] = latestInboxVersion(v)]
  /\ LET missing == addToWaitersLocked(v) IN
     /\ waiters' = [u \in Versions |->
                      IF u \in missing THEN waiters[u] \cup {v} ELSE waiters[u]]
     /\ need' = [need EXCEPT ![v] = missing]
     /\ pc' = [pc EXCEPT ![v] = IF missing = {} THEN "ready" ELSE "waiting"]
  /\ UNCHANGED <<server, wire, late, lock, disk>>

(* All the updates v waits for have had their turn.                        *)
waitOnWaiters(v) ==
  /\ pc[v] = "waiting"
  /\ need[v] = {}
  /\ pc' = [pc EXCEPT ![v] = "ready"]
  /\ UNCHANGED <<server, wire, waiters, need, from, late, lock, disk>>

(* Mutants of Timeout: the entries are left behind; there is no deadline.  *)
Timeout_NoCleanup(v) ==
  /\ pc[v] = "waiting"
  /\ pc' = [pc EXCEPT ![v] = "ready"]
  /\ late' = [late EXCEPT ![v] = TRUE]
  /\ UNCHANGED <<server, wire, waiters, need, from, lock, disk>>
Timeout_Never(v) ==
  /\ pc[v] = "waiting" /\ need[v] = {}
  /\ pc' = [pc EXCEPT ![v] = "ready"]
  /\ late' = [late EXCEPT ![v] = TRUE]
  /\ waiters' = [u \in Versions |-> waiters[u] \ {v}]
  /\ need' = [need EXCEPT ![v] = {}]
  /\ UNCHANGED <<server, wire, from, lock, disk>>

(* The deadline has passed: v goes on, and its entries are removed.        *)
Timeout(v) ==
  /\ pc[v] = "waiting"
  /\ pc' = [pc EXCEPT ![v] = "ready"]
  /\ late' = [late EXCEPT ![v] = TRUE]
  /\ waiters' = [u \in Versions |-> waiters[u] \ {v}]
  /\ need' = [need EXCEPT ![v] = {}]
  /\ UNCHANGED <<server, wire, from, lock, disk>>

CompleteTurn(v) ==
  /\ need' = [w \in Versions |-> IF w \in waiters[v] THEN need[w] \ {v} ELSE need[w]]
  /\ waiters' = [waiters EXCEPT ![v] = {}]

-----------------------------------------------------------------------------
(* The handler of update v.                                                *)

(* Mutant of Lock: the handlers do not exclude each other.                 *)
Lock_NoWait(v) ==
  /\ pc[v] = "ready"
  /\ lock' = v
  /\ pc' = [pc EXCEPT ![v] = "update"]
  /\ UNCHANGED <<server, wire, waiters, need, from, late, disk>>

Lock(v) ==
  /\ pc[v] = "ready"
  /\ lock = None
  /\ lock' = v
  /\ pc' = [pc EXCEPT ![v] = "update"]
  /\ UNCHANGED <<server, wire, waiters, need, from, late, disk>>

(* Mutant of handleVersion: a later version is as good as the next one.    *)
handleVersion_AnyLater(v) == IF vers >= v THEN "old" ELSE "next"

handleVersion(v) ==
  CASE vers >= v -> "old"
    [] vers + 1 = v -> "next"
    [] OTHER -> "mismatch"

Cleared ==
  /\ vers' = 0
  /\ have' = {}
  /\ held' = [p \in Syncers |-> FALSE]

(* The update in the inbox on disk (storage.Inbox.NewMessage and the like):*)
(* nothing happens without an inbox or to a newer one, and an inbox that   *)
(* cannot be read is cleared.  An update that does not decode leaves the   *)
(* inbox alone, too.                                                       *)
ApplyUpdate(v) ==
  \/ UNCHANGED <<vers, have, held>>
  \/ /\ vers # 0
     /\ handleVersion(v) = "next"
     /\ vers' = v
     /\ have' = have \cup {v}
     /\ UNCHANGED held
  \/ Cleared

(* HybridInboxSource.NewMessage and the like.  The next version is treated *)
(* as a mismatch, too, when it is the deletion of a message; a mismatch    *)
(* calls for a sync (handleInboxError).                                    *)
UpdateInbox(v) ==
  /\ pc[v] = "update"
  /\ \/ ApplyUpdate(v) /\ pc' = [pc EXCEPT ![v] = "complete"]
     \/ /\ vers # 0 /\ handleVersion(v) \in {"next", "mismatch"}
        /\ pc' = [pc EXCEPT ![v] = "sync"]
        /\ UNCHANGED <<vers, have, held>>
  /\ UNCHANGED <<server, wire, waiters, need, from, late, lock, base, sound>>

Complete(v) ==
  /\ pc[v] = "complete"
  /\ CompleteTurn(v)
  /\ lock' = None
  /\ pc' = [pc EXCEPT ![v] = "done"]
  /\ from' = [from EXCEPT ![v] = 0]
  /\ late' = [late EXCEPT ![v] = FALSE]
  /\ UNCHANGED <<server, wire, disk>>

-----------------------------------------------------------------------------
(* Syncer.Sync: the version on disk is read, the server is asked for what  *)
(* has changed since, and the answer is stored; the inbox is not locked in *)
(* between.                                                                *)

ReadVersion(p) ==
  /\ base[p] = 0
  /\ vers # 0
  /\ base' = [base EXCEPT ![p] = vers]
  /\ held' = [held EXCEPT ![p] = TRUE]
  /\ UNCHANGED <<vers, have, sound>>

(* storage.Inbox.Sync: the version becomes that of the answer, which may   *)
(* be older than the inbox by now, and the conversations that changed      *)
(* since the version the sync builds on are overwritten.                   *)
StoreAnswer(p, s) ==
  /\ vers' = s
  /\ have' = (have \cap 1..s) \cup (base[p] + 1)..s
  /\ held' = [q \in Syncers |-> q # p /\ held[q] /\ base[q] <= s]
  /\ sound' = (sound /\ held[p])

(* The answer may also be to clear the inbox, or that it is current, or    *)
(* there may be none; without an inbox nothing is stored.                  *)
EndSync(p) ==
  /\ base' = [base EXCEPT ![p] = 0]
  /\ \/ /\ base[p] # 0 /\ vers # 0
        /\ \E s \in (base[p] + 1)..server : StoreAnswer(p, s)
     \/ Cleared /\ UNCHANGED sound
     \/ held' = [held EXCEPT ![p] = FALSE] /\ UNCHANGED <<vers, have, sound>>

HandlerSyncs(v) ==
  /\ pc[v] = "sync"
  /\ \/ ReadVersion("handler") /\ UNCHANGED pc
     \/ EndSync("handler") /\ pc' = [pc EXCEPT ![v] = "complete"]
  /\ UNCHANGED <<server, wire, waiters, need, from, late, lock>>

Connect ==
  /\ \/ ReadVersion("connect")
     \/ base["connect"] # 0 /\ EndSync("connect")
  /\ UNCHANGED <<server, wire, pc, waiters, need, from, late, lock>>

(* What the inbox does not have is read from the server and merged; what   *)
(* was read may be old by then.  Its version counts when there is no inbox.*)
(* Otherwise it adds what is newer, and old states of the conversations    *)
(* that the inbox did not have.                                            *)
Merge ==
  /\ \E s \in 1..server :
       \/ /\ vers = 0
          /\ vers' = s /\ have' = 1..s
          /\ UNCHANGED sound
       \/ /\ vers # 0
          /\ \E old \in SUBSET ((s + 1)..vers) :
               /\ have' = ((have \cup 1..s) \cap 1..vers) \ old
               /\ sound' = (sound /\ old = {})
          /\ UNCHANGED vers
  /\ UNCHANGED <<server, wire, pc, waiters, need, from, late, lock, base, held>>

-----------------------------------------------------------------------------
Turn(v) == WaitForTurn(v) \/ waitOnWaiters(v) \/ Timeout(v)
Handler(v) == Lock(v) \/ UpdateInbox(v) \/ HandlerSyncs(v) \/ Complete(v)

Next ==
  \/ Push \/ Merge \/ Connect
  \/ \E v \in Versions : Arrive(v) \/ Turn(v) \/ Handler(v)

(* A goroutine goes on when it can, a Go mutex passes over no one for      *)
(* ever, and deadlines pass.  A push need not arrive.                      *)
Fairness == \A v \in Versions : WF_vars(Turn(v)) /\ SF_vars(Handler(v))

Spec == Init /\ [][Next]_vars
FairSpec == Spec /\ Fairness

-----------------------------------------------------------------------------
(* Properties.                                                             *)

(* Every variable has its type, and only the handler with the lock is at   *)
(* work on the inbox.                                                      *)
TypeOK ==
  /\ server \in 0..MaxVers
  /\ wire \in SUBSET Versions
  /\ pc \in [Versions ->
       {"none", "arrived", "waiting", "ready", "update", "sync", "complete", "done"}]
  /\ waiters \in [Versions -> SUBSET Versions]
  /\ need \in [Versions -> SUBSET Versions]
  /\ from \in [Versions -> 0..MaxVers]
  /\ late \in [Versions -> BOOLEAN]
  /\ lock \in Versions \cup {None}
  /\ \A v \in Versions : pc[v] \in {"update", "sync", "complete"} <=> lock = v
  /\ vers \in 0..MaxVers
  /\ have \in SUBSET Versions
  /\ base \in [Syncers -> 0..MaxVers]
  /\ held \in [Syncers -> BOOLEAN]
  /\ sound \in BOOLEAN

(* The lists of waiters hold exactly the entries that someone still waits  *)
(* for: no wake-up is lost between WaitForTurn and CompleteTurn, and no    *)
(* entry stays behind when a deadline passes (cleanupAfterTimeoutLocked).  *)
EntriesAreWaitedFor ==
  \A u, v \in Versions :
    v \in waiters[u] <=> pc[v] = "waiting" /\ u \in need[v]

(* An update that was not let through by its deadline is applied after     *)
(* every update between it and the inbox version it found, whichever order *)
(* they arrived in.                                                        *)
InTurn ==
  \A v \in Versions :
    pc[v] \in {"update", "sync", "complete"} /\ ~late[v] =>
      \A u \in (from[v] + 1)..(v - 1) : pc[u] = "done"

(* The inbox on disk never claims a version without all the updates up to  *)
(* it, however updates are lost, reordered or let through by a deadline,   *)
(* and however updates, syncs, reads and clears interleave: as long as no  *)
(* sync is stored when the inbox it was asked for was cleared or put back  *)
(* since, and no read brings an old state of a conversation.               *)
InboxIsComplete == sound => have = 1..vers

(* Every update that arrives is handled, even when one before it is lost.  *)
EveryUpdateIsHandled ==
  \A v \in Versions : pc[v] = "arrived" ~> pc[v] = "done"
=============================================================================
