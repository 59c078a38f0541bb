-------------------------- MODULE PushOrderProofs ---------------------------
(***************************************************************************)
(* The safety properties of PushOrder, for every number of updates.        *)
(***************************************************************************)
EXTENDS PushOrder, TLAPS

(* An update that the server has not made, or whose push is on its way,    *)
(* has no handler yet: a handler's turn, once done, stays done.            *)
Fresh ==
  \A v \in Versions : v > server \/ v \in wire => pc[v] = "none"

(* What a waiting update has seen completed so far, and what one that need *)
(* not wait any longer has: the part of InTurn before the lock is taken.   *)
Progress ==
  \A v \in Versions :
    /\ pc[v] = "waiting" =>
         \A u \in (from[v] + 1)..(v - 1) : u \in need[v] \/ pc[u] = "done"
    /\ pc[v] = "ready" /\ ~late[v] =>
         \A u \in (from[v] + 1)..(v - 1) : pc[u] = "done"

(* wire is in reach of the server.                                         *)
Sent == \A v \in wire : v <= server

(* A sync whose inbox was held builds on a version that the inbox has.     *)
Held == \A p \in Syncers : held[p] => base[p] <= vers

(* What there is to say of the inbox on disk and of the syncs.             *)
DiskTypeOK ==
  /\ vers \in 0..MaxVers
  /\ have \in SUBSET Versions
  /\ base \in [Syncers -> 0..MaxVers]
  /\ held \in [Syncers -> BOOLEAN]
  /\ sound \in BOOLEAN

DiskOK == DiskTypeOK /\ Held /\ InboxIsComplete

Inv ==
  /\ TypeOK
  /\ EntriesAreWaitedFor
  /\ Fresh /\ Sent
  /\ Progress
  /\ InTurn
  /\ DiskOK

(* What the steps that leave the inbox alone need to know of it.           *)
LEMMA DiskKept == ASSUME DiskOK, UNCHANGED disk PROVE DiskOK'
  BY DEF DiskOK, DiskTypeOK, Held, InboxIsComplete, disk

(* The versions that an update waits for are versions below its own.       *)
LEMMA Missing ==
  ASSUME TypeOK, NEW v \in Versions
  PROVE  /\ latestInboxVersion(v) \in 0..MaxVers
         /\ addToWaitersLocked(v) \in SUBSET Versions
         /\ addToWaitersLocked(v) = (latestInboxVersion(v) + 1)..(v - 1)
  BY MaxVersAssumption DEF TypeOK, Versions, latestInboxVersion, addToWaitersLocked

LEMMA InitInv == Init => Inv
  <1> SUFFICES ASSUME Init PROVE Inv
    OBVIOUS
  <1>1. TypeOK
    BY MaxVersAssumption, NoneAssumption DEF Init, TypeOK, Versions
  <1>2. EntriesAreWaitedFor /\ Fresh /\ Sent /\ Progress /\ InTurn
    BY DEF Init, EntriesAreWaitedFor, Fresh, Sent, Progress, InTurn
  <1>3. DiskTypeOK
    BY <1>1 DEF TypeOK, DiskTypeOK
  <1>4. Held /\ InboxIsComplete
    BY DEF Init, Held, InboxIsComplete
  <1> QED BY <1>1, <1>2, <1>3, <1>4 DEF Inv, DiskOK

LEMMA PushInv == Inv /\ Push => Inv'
  <1> SUFFICES ASSUME Inv, Push PROVE Inv'
    OBVIOUS
  <1>0. /\ server + 1 \in Versions /\ server' \in 0..MaxVers
        /\ server \in Nat /\ server' = server + 1
    BY MaxVersAssumption DEF Inv, TypeOK, Push, Versions
  <1>a. wire' \in SUBSET (wire \cup {server + 1})
    BY DEF Push
  <1>1. TypeOK'
    BY <1>0, <1>a DEF Inv, TypeOK, disk, Push
  <1>2. Fresh' /\ Sent'
    <2>1. wire \subseteq Nat /\ Versions \subseteq Nat
      BY MaxVersAssumption DEF Inv, TypeOK, Versions
    <2> QED BY <1>0, <1>a, <2>1 DEF Inv, Fresh, Sent, Push
  <1>3. EntriesAreWaitedFor' /\ Progress' /\ InTurn'
    BY DEF Inv, Push, EntriesAreWaitedFor, Progress, InTurn
  <1>4. DiskOK'
    BY DiskKept DEF Inv, Push
  <1> QED BY <1>1, <1>2, <1>3, <1>4 DEF Inv

LEMMA ArriveInv == ASSUME NEW v \in Versions, Inv, Arrive(v) PROVE Inv'
  <1>1. pc[v] = "none"
    BY DEF Inv, Arrive, Fresh
  <1>2. TypeOK'
    BY <1>1 DEF Inv, TypeOK, disk, Arrive
  <1>3. Fresh' /\ Sent'
    BY MaxVersAssumption DEF Inv, TypeOK, Fresh, Sent, Arrive, Versions
  <1>4. EntriesAreWaitedFor'
    BY <1>1 DEF Inv, TypeOK, Arrive, EntriesAreWaitedFor
  <1>5. \A u \in Versions : pc[u] = "done" => pc'[u] = "done"
    BY <1>1 DEF Arrive, Inv, TypeOK
  <1>6. Progress' /\ InTurn'
    BY <1>1, <1>5, MaxVersAssumption DEF Inv, TypeOK, Arrive, Progress, InTurn, Versions
  <1>7. DiskOK'
    BY DiskKept DEF Inv, Arrive
  <1> QED BY <1>2, <1>3, <1>4, <1>6, <1>7 DEF Inv

LEMMA WaitForTurnInv == ASSUME NEW v \in Versions, Inv, WaitForTurn(v) PROVE Inv'
  <1> DEFINE missing == addToWaitersLocked(v)
  <1>0. /\ latestInboxVersion(v) \in 0..MaxVers
        /\ missing \in SUBSET Versions
        /\ missing = (latestInboxVersion(v) + 1)..(v - 1)
    BY Missing DEF Inv
  <1>1. /\ pc[v] = "arrived"
        /\ from' = [from EXCEPT ![v] = latestInboxVersion(v)]
        /\ waiters' = [u \in Versions |->
                         IF u \in missing THEN waiters[u] \cup {v} ELSE waiters[u]]
        /\ need' = [need EXCEPT ![v] = missing]
        /\ pc' = [pc EXCEPT ![v] = IF missing = {} THEN "ready" ELSE "waiting"]
        /\ UNCHANGED <<server, wire, late, lock, disk>>
    BY DEF WaitForTurn
  <1> HIDE DEF missing
  <1>2. TypeOK'
    <2>1. waiters' \in [Versions -> SUBSET Versions]
      BY <1>1 DEF Inv, TypeOK
    <2>2. need' \in [Versions -> SUBSET Versions] /\ from' \in [Versions -> 0..MaxVers]
      BY <1>0, <1>1 DEF Inv, TypeOK
    <2> QED BY <1>1, <2>1, <2>2 DEF Inv, TypeOK, disk
  <1>3. Fresh' /\ Sent'
    BY <1>1 DEF Inv, TypeOK, Fresh, Sent
  <1>4. EntriesAreWaitedFor'
    BY <1>1 DEF Inv, TypeOK, EntriesAreWaitedFor
  <1>5. \A u \in Versions : pc[u] = "done" => pc'[u] = "done"
    BY <1>1 DEF Inv, TypeOK
  <1>6. Progress'
    <2> SUFFICES ASSUME NEW w \in Versions
                 PROVE  /\ pc'[w] = "waiting" =>
                             \A u \in (from'[w] + 1)..(w - 1) : u \in need'[w] \/ pc'[u] = "done"
                        /\ pc'[w] = "ready" /\ ~late'[w] =>
                             \A u \in (from'[w] + 1)..(w - 1) : pc'[u] = "done"
      BY DEF Progress
    <2>1. CASE w = v
      BY <2>1, <1>0, <1>1 DEF Inv, TypeOK
    <2>2. CASE w # v
      <3>1. /\ pc'[w] = pc[w] /\ from'[w] = from[w] /\ need'[w] = need[w] /\ late'[w] = late[w]
        BY <2>2, <1>1 DEF Inv, TypeOK
      <3>2. \A u \in (from[w] + 1)..(w - 1) : u \in Versions
        BY MaxVersAssumption DEF Inv, TypeOK, Versions
      <3> QED BY <3>1, <3>2, <1>5 DEF Inv, Progress
    <2> QED BY <2>1, <2>2
  <1>7. InTurn'
    <2> SUFFICES ASSUME NEW w \in Versions, pc'[w] \in {"update", "sync", "complete"}, ~late'[w],
                        NEW u \in (from'[w] + 1)..(w - 1)
                 PROVE  pc'[u] = "done"
      BY DEF InTurn
    <2>1. w # v
      BY <1>1 DEF Inv, TypeOK
    <2>2. /\ pc'[w] = pc[w] /\ from'[w] = from[w] /\ late'[w] = late[w]
      BY <2>1, <1>1 DEF Inv, TypeOK
    <2>3. u \in Versions
      BY <2>2, MaxVersAssumption DEF Inv, TypeOK, Versions
    <2> QED BY <2>2, <2>3, <1>5 DEF Inv, InTurn
  <1>8. DiskOK'
    BY <1>1, DiskKept DEF Inv
  <1> QED BY <1>2, <1>3, <1>4, <1>6, <1>7, <1>8 DEF Inv

LEMMA waitOnWaitersInv == ASSUME NEW v \in Versions, Inv, waitOnWaiters(v) PROVE Inv'
  <1>1. TypeOK'
    BY DEF Inv, TypeOK, disk, waitOnWaiters
  <1>2. Fresh' /\ Sent'
    BY DEF Inv, TypeOK, Fresh, Sent, waitOnWaiters
  <1>3. EntriesAreWaitedFor'
    BY DEF Inv, TypeOK, EntriesAreWaitedFor, waitOnWaiters
  <1>4. Progress' /\ InTurn'
    <2>1. Progress'
      BY MaxVersAssumption DEF Inv, TypeOK, Progress, waitOnWaiters, Versions
    <2>2. InTurn'
      BY MaxVersAssumption DEF Inv, TypeOK, InTurn, waitOnWaiters, Versions
    <2> QED BY <2>1, <2>2
  <1>5. DiskOK'
    BY DiskKept DEF Inv, waitOnWaiters
  <1> QED BY <1>1, <1>2, <1>3, <1>4, <1>5 DEF Inv

LEMMA TimeoutInv == ASSUME NEW v \in Versions, Inv, Timeout(v) PROVE Inv'
  <1>1. TypeOK'
    BY DEF Inv, TypeOK, disk, Timeout
  <1>2. Fresh' /\ Sent'
    BY DEF Inv, TypeOK, Fresh, Sent, Timeout
  <1>3. EntriesAreWaitedFor'
    BY DEF Inv, TypeOK, EntriesAreWaitedFor, Timeout
  <1>4. Progress' /\ InTurn'
    BY MaxVersAssumption DEF Inv, TypeOK, Progress, InTurn, Timeout, Versions
  <1>5. DiskOK'
    BY DiskKept DEF Inv, Timeout
  <1> QED BY <1>1, <1>2, <1>3, <1>4, <1>5 DEF Inv

LEMMA LockInv == ASSUME NEW v \in Versions, Inv, Lock(v) PROVE Inv'
  <1>1. TypeOK'
    BY NoneAssumption DEF Inv, TypeOK, disk, Lock, Versions
  <1>2. Fresh' /\ Sent'
    BY DEF Inv, TypeOK, Fresh, Sent, Lock
  <1>3. EntriesAreWaitedFor'
    BY DEF Inv, TypeOK, EntriesAreWaitedFor, Lock
  <1>4. Progress' /\ InTurn'
    BY MaxVersAssumption DEF Inv, TypeOK, Progress, InTurn, Lock, Versions
  <1>5. DiskOK'
    BY DiskKept DEF Inv, Lock
  <1> QED BY <1>1, <1>2, <1>3, <1>4, <1>5 DEF Inv

(* A cleared inbox is complete, and no sync builds on it.                  *)
LEMMA ClearedOK ==
  ASSUME DiskOK, Cleared, base' \in [Syncers -> 0..MaxVers], sound' = sound
  PROVE  DiskOK'
  BY MaxVersAssumption DEF DiskOK, DiskTypeOK, Cleared, Held, InboxIsComplete

(* handleVersion lets in just the update that is next.                     *)
LEMMA ApplyUpdateOK ==
  ASSUME DiskOK, NEW v \in Versions, ApplyUpdate(v), UNCHANGED <<base, sound>>
  PROVE  DiskOK'
  <1>1. CASE UNCHANGED <<vers, have, held>>
    BY <1>1, DiskKept DEF disk
  <1>2. CASE /\ handleVersion(v) = "next"
             /\ vers' = v /\ have' = have \cup {v} /\ UNCHANGED held
    <2>1. vers \in Nat /\ v \in 1..MaxVers /\ vers + 1 = v
      BY <1>2, MaxVersAssumption DEF handleVersion, DiskOK, DiskTypeOK, Versions
    <2>2. DiskTypeOK'
      BY <1>2, <2>1, MaxVersAssumption DEF DiskOK, DiskTypeOK, Versions
    <2>3. Held'
      BY <1>2, <2>1, MaxVersAssumption DEF DiskOK, DiskTypeOK, Held
    <2>4. InboxIsComplete'
      BY <1>2, <2>1 DEF DiskOK, InboxIsComplete
    <2> QED BY <2>2, <2>3, <2>4 DEF DiskOK
  <1>3. CASE Cleared
    BY <1>3, ClearedOK DEF DiskOK, DiskTypeOK
  <1> QED BY <1>1, <1>2, <1>3 DEF ApplyUpdate

LEMMA ReadVersionOK ==
  ASSUME DiskOK, NEW p \in Syncers, ReadVersion(p)
  PROVE  DiskOK'
  BY MaxVersAssumption DEF DiskOK, DiskTypeOK, ReadVersion, Held, InboxIsComplete

(* An answer that fits the inbox makes it complete up to its version,      *)
(* older or newer than the inbox as it may be.                             *)
LEMMA StoreAnswerOK ==
  ASSUME DiskOK, server \in 0..MaxVers, NEW p \in Syncers,
         NEW s \in (base[p] + 1)..server, StoreAnswer(p, s),
         base' = [base EXCEPT ![p] = 0]
  PROVE  DiskOK'
  <1>1. /\ base[p] \in 0..MaxVers /\ s \in 1..MaxVers /\ s > base[p]
        /\ vers \in 0..MaxVers
    BY MaxVersAssumption DEF DiskOK, DiskTypeOK
  <1>2. DiskTypeOK'
    BY <1>1, MaxVersAssumption DEF DiskOK, DiskTypeOK, StoreAnswer, Versions
  <1>3. Held'
    BY <1>1, MaxVersAssumption DEF DiskOK, DiskTypeOK, StoreAnswer, Held
  <1>4. InboxIsComplete'
    <2> SUFFICES ASSUME sound' PROVE have' = 1..s
      BY DEF StoreAnswer, InboxIsComplete
    <2>1. sound /\ base[p] <= vers
      BY DEF StoreAnswer, DiskOK, DiskTypeOK, Held
    <2>2. have = 1..vers
      BY <2>1 DEF DiskOK, InboxIsComplete
    <2> QED BY <1>1, <2>1, <2>2, MaxVersAssumption DEF StoreAnswer
  <1> QED BY <1>2, <1>3, <1>4 DEF DiskOK

LEMMA EndSyncOK ==
  ASSUME DiskOK, server \in 0..MaxVers, NEW p \in Syncers, EndSync(p)
  PROVE  DiskOK'
  <1>1. base' = [base EXCEPT ![p] = 0] /\ base' \in [Syncers -> 0..MaxVers]
    BY MaxVersAssumption DEF EndSync, DiskOK, DiskTypeOK
  <1>2. CASE \E s \in (base[p] + 1)..server : StoreAnswer(p, s)
    BY <1>1, <1>2, StoreAnswerOK
  <1>3. CASE Cleared /\ UNCHANGED sound
    BY <1>1, <1>3, ClearedOK
  <1>4. CASE held' = [held EXCEPT ![p] = FALSE] /\ UNCHANGED <<vers, have, sound>>
    BY <1>1, <1>4, MaxVersAssumption DEF DiskOK, DiskTypeOK, Held, InboxIsComplete
  <1> QED BY <1>2, <1>3, <1>4 DEF EndSync

LEMMA MergeOK == ASSUME DiskOK, server \in 0..MaxVers, Merge PROVE DiskOK'
  <1> PICK s \in 1..server :
        \/ vers = 0 /\ vers' = s /\ have' = 1..s /\ UNCHANGED sound
        \/ /\ \E old \in SUBSET ((s + 1)..vers) :
               /\ have' = ((have \cup 1..s) \cap 1..vers) \ old
               /\ sound' = (sound /\ old = {})
           /\ UNCHANGED vers
    BY DEF Merge
  <1>0. /\ s \in 1..MaxVers /\ vers \in 0..MaxVers
        /\ base' = base /\ held' = held
    BY MaxVersAssumption DEF Merge, DiskOK, DiskTypeOK
  <1>1. CASE vers = 0 /\ vers' = s /\ have' = 1..s /\ UNCHANGED sound
    BY <1>0, <1>1, MaxVersAssumption
    DEF DiskOK, DiskTypeOK, Held, InboxIsComplete, Versions
  <1>2. ASSUME NEW old \in SUBSET ((s + 1)..vers),
               have' = ((have \cup 1..s) \cap 1..vers) \ old,
               sound' = (sound /\ old = {}),
               vers' = vers
        PROVE  DiskOK'
    <2>1. DiskTypeOK'
      <3>1. sound' \in BOOLEAN
        BY <1>2 DEF DiskOK, DiskTypeOK
      <3>2. have' \in SUBSET Versions
        BY <1>0, <1>2, MaxVersAssumption DEF Versions
      <3> QED BY <1>0, <1>2, <3>1, <3>2 DEF DiskOK, DiskTypeOK
    <2>2. Held'
      BY <1>0, <1>2 DEF DiskOK, Held
    <2>3. InboxIsComplete'
      BY <1>0, <1>2 DEF DiskOK, InboxIsComplete
    <2> QED BY <2>1, <2>2, <2>3 DEF DiskOK
  <1> QED BY <1>1, <1>2

(* A step of the handler with the lock disturbs nothing of the orderer's.  *)
LEMMA AtWork ==
  ASSUME Inv, NEW v \in Versions, pc[v] \in {"update", "sync"},
         pc' \in {pc, [pc EXCEPT ![v] = "sync"], [pc EXCEPT ![v] = "complete"]},
         UNCHANGED <<server, wire, waiters, need, from, late, lock>>,
         DiskOK'
  PROVE  Inv'
  <1>0. pc' \in [Versions -> {"none", "arrived", "waiting", "ready", "update", "sync",
                              "complete", "done"}]
    BY DEF Inv, TypeOK
  <1>1. /\ pc'[v] \in {"update", "sync", "complete"}
        /\ \A u \in Versions : u # v => pc'[u] = pc[u]
    BY DEF Inv, TypeOK
  <1>2. TypeOK'
    BY <1>0, <1>1 DEF Inv, TypeOK, DiskOK, DiskTypeOK
  <1>3. Fresh' /\ Sent'
    BY <1>1 DEF Inv, TypeOK, Fresh, Sent
  <1>4. EntriesAreWaitedFor'
    BY <1>1 DEF Inv, TypeOK, EntriesAreWaitedFor
  <1>5. \A u \in Versions : pc[u] = "done" => pc'[u] = "done"
    BY <1>1
  <1>6. \A w \in Versions : \A u \in (from[w] + 1)..(w - 1) : u \in Versions
    BY MaxVersAssumption DEF Inv, TypeOK, Versions
  <1>7. Progress'
    BY <1>1, <1>5, <1>6 DEF Inv, TypeOK, Progress
  <1>8. InTurn'
    BY <1>1, <1>5, <1>6 DEF Inv, TypeOK, InTurn
  <1> QED BY <1>2, <1>3, <1>4, <1>7, <1>8 DEF Inv

LEMMA UpdateInboxInv == ASSUME NEW v \in Versions, Inv, UpdateInbox(v) PROVE Inv'
  <1>1. DiskOK'
    <2>1. CASE ApplyUpdate(v)
      BY <2>1, ApplyUpdateOK DEF Inv, UpdateInbox
    <2>2. CASE UNCHANGED <<vers, have, held>>
      BY <2>2, DiskKept DEF Inv, UpdateInbox, disk
    <2> QED BY <2>1, <2>2 DEF UpdateInbox
  <1> QED BY <1>1, AtWork DEF UpdateInbox

LEMMA HandlerSyncsInv == ASSUME NEW v \in Versions, Inv, HandlerSyncs(v) PROVE Inv'
  <1>1. DiskOK'
    BY ReadVersionOK, EndSyncOK DEF Inv, TypeOK, HandlerSyncs, Syncers
  <1> QED BY <1>1, AtWork DEF HandlerSyncs

LEMMA CompleteInv == ASSUME NEW v \in Versions, Inv, Complete(v) PROVE Inv'
  <1>1. TypeOK'
    <2>1. from' \in [Versions -> 0..MaxVers] /\ late' \in [Versions -> BOOLEAN]
      BY MaxVersAssumption DEF Inv, TypeOK, Complete
    <2>2. waiters' \in [Versions -> SUBSET Versions] /\ need' \in [Versions -> SUBSET Versions]
      BY DEF Inv, TypeOK, Complete, CompleteTurn
    <2>3. \A u \in Versions : pc'[u] \in {"update", "sync", "complete"} <=> lock' = u
      BY NoneAssumption DEF Inv, TypeOK, Complete, Versions
    <2> QED BY <2>1, <2>2, <2>3 DEF Inv, TypeOK, disk, Complete
  <1>2. Fresh' /\ Sent'
    BY DEF Inv, TypeOK, Fresh, Sent, Complete
  <1>3. EntriesAreWaitedFor'
    BY DEF Inv, TypeOK, EntriesAreWaitedFor, Complete, CompleteTurn
  <1>4. Progress'
    BY MaxVersAssumption DEF Inv, TypeOK, Progress, Complete, CompleteTurn, Versions
  <1>5. InTurn'
    BY MaxVersAssumption DEF Inv, TypeOK, InTurn, Complete, Versions
  <1>6. DiskOK'
    BY DiskKept DEF Inv, Complete
  <1> QED BY <1>1, <1>2, <1>3, <1>4, <1>5, <1>6 DEF Inv

LEMMA FetchInv == Inv /\ (Merge \/ Connect) => Inv'
  <1> SUFFICES ASSUME Inv, Merge \/ Connect PROVE Inv'
    OBVIOUS
  <1>0. UNCHANGED <<server, wire, pc, waiters, need, from, late, lock>>
    BY DEF Merge, Connect
  <1>1. DiskOK'
    BY MergeOK, ReadVersionOK, EndSyncOK DEF Inv, TypeOK, Connect, Syncers
  <1>2. TypeOK'
    BY <1>0, <1>1 DEF Inv, TypeOK, DiskOK, DiskTypeOK
  <1>3. Fresh' /\ Sent' /\ EntriesAreWaitedFor' /\ Progress' /\ InTurn'
    BY <1>0 DEF Inv, Fresh, Sent, EntriesAreWaitedFor, Progress, InTurn
  <1> QED BY <1>1, <1>2, <1>3 DEF Inv

LEMMA NextInv == Inv /\ [Next]_vars => Inv'
  <1> SUFFICES ASSUME Inv, [Next]_vars PROVE Inv'
    OBVIOUS
  <1>1. CASE UNCHANGED vars
    <2>1. DiskOK'
      BY <1>1, DiskKept DEF Inv, vars
    <2> QED BY <1>1, <2>1
            DEF Inv, vars, disk, TypeOK, EntriesAreWaitedFor, Fresh, Sent, Progress, InTurn
  <1>2. CASE Push
    BY <1>2, PushInv
  <1>3. CASE Merge \/ Connect
    BY <1>3, FetchInv
  <1>4. ASSUME NEW v \in Versions, Arrive(v) \/ Turn(v) \/ Handler(v)
        PROVE  Inv'
    BY <1>4, ArriveInv, WaitForTurnInv, waitOnWaitersInv, TimeoutInv, LockInv,
       UpdateInboxInv, HandlerSyncsInv, CompleteInv DEF Turn, Handler
  <1> QED BY <1>1, <1>2, <1>3, <1>4 DEF Next

(* Inv is an invariant of the orderer and the handlers.                    *)
THEOREM Invariance == Spec => []Inv
  BY InitInv, NextInv, PTL DEF Spec

(* Every variable keeps its type, and at most one handler is at work on    *)
(* the inbox.                                                              *)
THEOREM TypeCorrect == Spec => []TypeOK
  <1>1. Inv => TypeOK
    BY DEF Inv
  <1> QED BY <1>1, Invariance, PTL

(* No wake-up of WaitForTurn is lost and no entry of waiters is left over, *)
(* for any number of updates in any order.                                 *)
THEOREM EntriesAreWaitedForHolds == Spec => []EntriesAreWaitedFor
  <1>1. Inv => EntriesAreWaitedFor
    BY DEF Inv
  <1> QED BY <1>1, Invariance, PTL

(* An update that was not let through by its deadline comes after all the  *)
(* updates it had to wait for.                                             *)
THEOREM InTurnHolds == Spec => []InTurn
  <1>1. Inv => InTurn
    BY DEF Inv
  <1> QED BY <1>1, Invariance, PTL

(* The inbox on disk never claims a version that it does not have, however *)
(* handlers, syncs and reads interleave, as long as what they store fits.  *)
THEOREM InboxIsCompleteHolds == Spec => []InboxIsComplete
  <1>1. Inv => InboxIsComplete
    BY DEF Inv, DiskOK
  <1> QED BY <1>1, Invariance, PTL
=============================================================================
