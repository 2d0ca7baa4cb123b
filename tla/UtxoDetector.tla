---------------------------- MODULE UtxoDetector ----------------------------
(***************************************************************************)
(* The BTC/LTC detector: the block scan loop with its reorg rollback, the  *)
(* /recover-txid handlers, the pending-payment outbox they share, the      *)
(* state file, and the merchant backend that receives the webhooks.        *)
(*                                                                         *)
(* Source: src/src/blockstream.rs, with the restart loop of main.rs, the   *)
(* state file of persistence.rs and the delivery of webhook.rs.            *)
(*                                                                         *)
(* A step is a stretch of code between two points where another task can   *)
(* run or the process can die: an await, a lock, a write of the state      *)
(* file.  A memory update and the save that follows it with no await in    *)
(* between are one step whose save may fail; enqueue_or_confirm is split,  *)
(* because process_confirmed of another task can look in between.          *)
(***************************************************************************)
EXTENDS Integers, FiniteSets

CONSTANTS
    Txs,              \* transactions that pay us
    Deposits,         \* (transaction, recipient) pairs: one payment each
    TxOf,             \* the transaction of each deposit
    Scanner,          \* the block scan task
    Recoverers,       \* tasks of the HTTP server running recover_txid
    NoTask,           \* holder of a free credit_lock
    NoId,             \* an event_id that an older release left out
    MinConf,          \* min_confirmations
    HashMargin,       \* blocks kept beyond MinConf for reorg checks (10)
    StartHeight,      \* start_height, or NoHeight (what both binaries pass)
    SkipInitialSync,  \* skip_initial_block_sync
    SweepEnabled,     \* a sweep_config is present
    InitCursor,       \* last_scanned_height in the first state file
    LegacyPending,    \* deposits queued by a release without event ids
    LegacyCredited,   \* transactions credited by such a release
    MaxHeight,        \* bound: height of the chain
    MaxReorgs,        \* bound: reorganisations
    MaxReorgDepth,    \* bound: blocks one reorganisation replaces
    MaxFaults,        \* bound: crashes, failed saves, lost replies
    MaxRefusals       \* bound: refused webhooks, explorer errors, deferred sweeps

NoHeight == -1
NoHash == -1
Heights == 1 .. MaxHeight
Tasks == {Scanner} \cup Recoverers
EventIds == Deposits \cup Txs

ASSUME TaskAssumption ==
    /\ Scanner \notin Recoverers
    /\ NoTask \notin Tasks

ASSUME IdAssumption ==
    /\ TxOf \in [Deposits -> Txs]
    /\ Deposits \cap Txs = {}
    /\ NoId \notin EventIds
    /\ LegacyPending \subseteq Deposits
    /\ LegacyCredited \subseteq Txs

ASSUME BoundAssumption ==
    /\ MinConf \in Nat
    /\ HashMargin \in Nat
    /\ StartHeight \in Heights \cup {NoHeight}
    /\ SkipInitialSync \in BOOLEAN
    /\ SweepEnabled \in BOOLEAN
    /\ InitCursor \in Nat \cup {NoHeight}
    /\ MaxHeight \in Nat \ {0}
    /\ MaxReorgs \in Nat
    /\ MaxReorgDepth \in Nat
    /\ MaxFaults \in Nat
    /\ MaxRefusals \in Nat

VARIABLES
    best,      \* height of the chain tip
    blocks,    \* the best chain; a block's hash is the era it was mined in
    reorgs,    \* reorganisations so far: the current era
    mem,       \* SharedState of the running process
    disk,      \* the state file
    pc,        \* where each task is
    loc,       \* the local variables of each task
    lock,      \* holder of credit_lock
    detected,  \* event ids whose payment_detected reached the backend
    credits,   \* how often payment_credited reached the backend, per event id
    paid,      \* deposits a payment_credited was about
    owed,      \* deposits whose last sweep was deferred
    first,     \* for the properties: the height at which the scan began
    unlinked,  \* for the properties: the scan took a block that is no child of the
               \* block recorded below it, or rolled back below all it has recorded
    faults,
    refusals

chainVars == <<best, blocks, reorgs>>
backendVars == <<detected, credits, paid>>
scanVars == <<first, unlinked>>
vars == <<chainVars, mem, disk, pc, loc, lock, backendVars, scanVars, owed, faults, refusals>>

----------------------------------------------------------------------------
(* Data *)

Block == [era : Nat, txs : SUBSET Txs]
NoBlock == [era |-> 0, txs |-> {}]

\* A queued payment (PendingPayment).  Only a file of an older release holds
\* one without an event id.
Entry == [dep : Deposits, id : EventIds, height : Nat, notified : BOOLEAN]
FileEntry == [dep : Deposits, id : EventIds \cup {NoId}, height : Nat, notified : BOOLEAN]
NoEntry == [dep |-> NoId, id |-> NoId, height |-> 0, notified |-> FALSE]

\* SharedState and PersistedState; known_block_hashes is total, NoHash if absent.
Store(E) == [cursor : Nat \cup {NoHeight}, hashes : [Heights -> Nat \cup {NoHash}],
             pending : SUBSET E, credited : SUBSET EventIds]

\* cur is current_height in the scan loop, the height of the transaction in
\* recover_txid; era and found are the hash and the payments of that block.
Locals == [cur : Nat, tip : Nat, depth : Nat, era : Nat, found : SUBSET Deposits,
           todo : SUBSET Entry, entry : Entry \cup {NoEntry},
           already : BOOLEAN, deferred : BOOLEAN]
InitLocals == [cur |-> 0, tip |-> 0, depth |-> 0, era |-> 0, found |-> {},
               todo |-> {}, entry |-> NoEntry, already |-> FALSE, deferred |-> FALSE]

NoHashes == [h \in Heights |-> NoHash]
OnChain(tx) == \E h \in 1 .. best : tx \in blocks[h].txs
DepositsOf(blk) == {d \in Deposits : TxOf[d] \in blk.txs}

\* state.notified_confirmed holds the payment under its key or its txid.
IsCredited(s, d, id) == id \in s.credited \/ TxOf[d] \in s.credited

Confirmations(e, tip) == IF tip >= e.height THEN tip - e.height + 1 ELSE 0
ConfirmationTarget == IF MinConf > 1 THEN MinConf ELSE 1
Confirmed(e, tip) == Confirmations(e, tip) >= ConfirmationTarget

\* enqueue_or_confirm: new entries, keyed by transaction and recipient.
Fresh(s, deps) ==
    {d \in deps : ~IsCredited(s, d, d) /\ \A e \in s.pending : e.dep # d}
Enqueue(s, deps, h) ==
    [s EXCEPT !.pending = @ \cup
        {[dep |-> d, id |-> d, height |-> h, notified |-> FALSE] : d \in Fresh(s, deps)}]

\* process_pending_payment: set the flag, record the credit, drop the entry.
\* One entry of that id is flagged; the set has more than one only for legacy ids.
NotifiedStores(s, id) ==
    LET same == {e \in s.pending : e.id = id}
    IN IF same = {} THEN {s}
       ELSE {[s EXCEPT !.pending = (@ \ {e}) \cup {[e EXCEPT !.notified = TRUE]}] : e \in same}
MarkCredited(s, id) == [s EXCEPT !.credited = @ \cup {id}]
DropEntry(s, id) == [s EXCEPT !.pending = {e \in @ : e.id # id}]

\* Mutant: an entry of the last block kept is dropped too.
RollBackOneTooMany(s, from, cur) ==
    [s EXCEPT !.pending = {e \in @ : e.height < from - 1},
              !.hashes = [k \in Heights |-> IF k \in from .. cur - 1 THEN NoHash ELSE @[k]],
              !.cursor = from - 1]

\* The rollback of the scan loop forgets the blocks from .. cur - 1.
RollBack(s, from, cur) ==
    [s EXCEPT !.pending = {e \in @ : e.height < from},
              !.hashes = [k \in Heights |-> IF k \in from .. cur - 1 THEN NoHash ELSE @[k]],
              !.cursor = from - 1]

\* A scanned block: cursor, hash, and pruning of hashes too old to be checked.
Advance(s, h, era) ==
    [s EXCEPT !.cursor = h,
              !.hashes = [k \in Heights |-> IF k = h THEN era
                                       ELSE IF k < h - (MinConf + HashMargin)
                                            THEN NoHash ELSE @[k]]]

\* Mutant: legacy entries are loaded without an event id.
LoadStateAsIs(s) == s

\* new_with_state: load the file; entries without an event id get their txid.
LoadState(s) ==
    [s EXCEPT !.pending =
        {[e EXCEPT !.id = IF @ = NoId THEN TxOf[e.dep] ELSE @] : e \in s.pending}]

----------------------------------------------------------------------------
(* Steps that several actions share *)

Goto(t, label) == pc' = [pc EXCEPT ![t] = label]
SetLocals(t, l) == loc' = [loc EXCEPT ![t] = l]

\* A budgeted fault or refusal, or none.
Fault(happens) == /\ happens => faults < MaxFaults
                  /\ faults' = IF happens THEN faults + 1 ELSE faults
Refusal(happens) == /\ happens => refusals < MaxRefusals
                    /\ refusals' = IF happens THEN refusals + 1 ELSE refusals

\* persist_state: the file is replaced by the memory state, or left as it was.
SaveState(ok) == /\ disk' = IF ok THEN mem' ELSE disk
                 /\ Fault(~ok)

\* Mutant: nobody waits for credit_lock.
NoLock == TRUE

LockFree == lock = NoTask

\* Where process_confirmed returns to.  The scan loop goes on whether or not
\* the credits could be processed: it only logs the error.
AfterCredits(t) == IF t # Scanner THEN "idle"
                   ELSE IF loc[t].cur > loc[t].tip THEN "tip" ELSE "advance"

\* The locals of process_pending_payment end with the entry.
EntryDone(t) == [loc[t] EXCEPT !.entry = NoEntry, !.already = FALSE, !.deferred = FALSE]

----------------------------------------------------------------------------
(* The chain (external) *)

Mine ==
    /\ best < MaxHeight
    /\ best' = best + 1
    /\ \E T \in SUBSET {tx \in Txs : ~OnChain(tx)} :
         blocks' = [blocks EXCEPT ![best + 1] = [era |-> reorgs, txs |-> T]]
    /\ UNCHANGED <<reorgs, mem, disk, pc, loc, lock, backendVars, scanVars, owed, faults, refusals>>

\* A longer branch replaces the last d blocks.  A transaction of the old blocks
\* may be mined again at another height, or never.
Reorg ==
    /\ reorgs < MaxReorgs
    /\ best < MaxHeight
    /\ reorgs' = reorgs + 1
    /\ best' = best + 1
    /\ \E d \in 1 .. MaxReorgDepth :
         /\ d < best
         /\ LET base == best - d
                kept == {tx \in Txs : \E h \in 1 .. base : tx \in blocks[h].txs}
            IN \E place \in [Txs \ kept -> {0} \cup (base + 1 .. best + 1)] :
                 blocks' = [h \in Heights |->
                     IF h <= base THEN blocks[h]
                     ELSE IF h <= best + 1
                          THEN [era |-> reorgs + 1,
                                txs |-> {tx \in Txs \ kept : place[tx] = h}]
                     ELSE NoBlock]
    /\ UNCHANGED <<mem, disk, pc, loc, lock, backendVars, scanVars, owed, faults, refusals>>

----------------------------------------------------------------------------
(* The block scan loop *)

FirstHeight ==
    IF StartHeight # NoHeight THEN StartHeight
    ELSE IF SkipInitialSync THEN best + 1
    ELSE IF mem.cursor # NoHeight THEN mem.cursor + 1
    ELSE best

\* The loop goes on from a position in the state file.
Resumes == StartHeight = NoHeight /\ ~SkipInitialSync /\ mem.cursor # NoHeight

\* Up to the loop.  With skip_initial_block_sync the new position is saved.
ScanStart ==
    /\ pc[Scanner] = "start"
    /\ mem' = [mem EXCEPT !.cursor = FirstHeight - 1,
                          !.hashes = IF SkipInitialSync /\ StartHeight = NoHeight
                                     THEN NoHashes ELSE @]
    /\ \E ok \in BOOLEAN :
         /\ IF SkipInitialSync THEN SaveState(ok)
            ELSE ok /\ UNCHANGED <<disk, faults>>
         /\ Goto(Scanner, IF ok THEN "tip" ELSE "start")
         /\ SetLocals(Scanner, IF ok THEN [InitLocals EXCEPT !.cur = FirstHeight]
                                     ELSE InitLocals)
    /\ first' = IF Resumes THEN first ELSE FirstHeight
    /\ UNCHANGED <<chainVars, lock, backendVars, unlinked, owed, refusals>>

\* Read the tip; nothing new to scan means only the queue is processed.
ScanTip ==
    /\ pc[Scanner] = "tip"
    /\ SetLocals(Scanner, [loc[Scanner] EXCEPT !.tip = best, !.depth = 0])
    /\ Goto(Scanner, IF loc[Scanner].cur > best THEN "lock" ELSE "reorg")
    /\ UNCHANGED <<chainVars, mem, disk, lock, backendVars, scanVars, owed, faults, refusals>>

\* One turn of detect_reorg.  A height without a stored hash, or an explorer
\* error, ends the walk with the depth found so far.
ScanReorg ==
    /\ pc[Scanner] = "reorg"
    /\ LET l == loc[Scanner]
           check == l.cur - 1 - l.depth
           known == check \in Heights /\ mem.hashes[check] # NoHash
           stale == known /\ mem.hashes[check] # blocks[check].era
       IN \E error \in BOOLEAN :
            /\ error => known
            /\ Refusal(error)
            /\ IF stale /\ ~error
               THEN /\ SetLocals(Scanner, [l EXCEPT !.depth = @ + 1])
                    /\ UNCHANGED pc
               ELSE /\ Goto(Scanner, IF l.depth > 0 THEN "rollback" ELSE "fetch")
                    /\ UNCHANGED loc
    /\ UNCHANGED <<chainVars, mem, disk, lock, backendVars, scanVars, owed, faults>>

\* Under credit_lock, in memory only: the next save makes it durable.
ScanRollback ==
    /\ pc[Scanner] = "rollback"
    /\ LockFree
    /\ LET from == loc[Scanner].cur - loc[Scanner].depth
       IN /\ mem' = RollBack(mem, from, loc[Scanner].cur)
          /\ SetLocals(Scanner, [loc[Scanner] EXCEPT !.cur = from, !.depth = 0])
          /\ unlinked' = (unlinked \/ (from > first /\ mem.hashes[from - 1] = NoHash))
    /\ Goto(Scanner, "reorg")
    /\ UNCHANGED <<chainVars, disk, lock, backendVars, first, owed, faults, refusals>>

\* What the scan does not ask before it takes a block: is the parent of this
\* block the one recorded below it?  The walk of detect_reorg has compared the
\* recorded hash a while ago, or not at all after an explorer error.
Linked(cur) ==
    (cur > first /\ mem.hashes[cur - 1] # NoHash) => mem.hashes[cur - 1] = blocks[cur - 1].era

\* get_block_hash, fetch_raw_block by that hash, scan_raw_block_parallel.
ScanFetch ==
    /\ pc[Scanner] = "fetch"
    /\ \E error \in BOOLEAN :
         /\ Refusal(error)
         /\ loc[Scanner].cur \notin Heights => error
         /\ IF error
            THEN Goto(Scanner, "tip") /\ UNCHANGED <<loc, unlinked>>
            ELSE LET blk == blocks[loc[Scanner].cur]
                 IN /\ SetLocals(Scanner, [loc[Scanner] EXCEPT
                                     !.era = blk.era, !.found = DepositsOf(blk)])
                    /\ Goto(Scanner, IF DepositsOf(blk) = {} THEN "lock" ELSE "enqueue")
                    /\ unlinked' = (unlinked \/ ~Linked(loc[Scanner].cur))
    /\ UNCHANGED <<chainVars, mem, disk, lock, backendVars, first, owed, faults>>

\* The block is done: cursor and hash are saved together.
ScanAdvance ==
    /\ pc[Scanner] = "advance"
    /\ LET l == loc[Scanner]
       IN /\ mem' = Advance(mem, l.cur, l.era)
          /\ \E ok \in BOOLEAN :
               /\ SaveState(ok)
               /\ IF ok
                  THEN /\ Goto(Scanner, IF l.cur + 1 <= l.tip THEN "reorg" ELSE "tip")
                       /\ SetLocals(Scanner, [l EXCEPT !.cur = @ + 1, !.era = 0])
                  ELSE /\ Goto(Scanner, "start")
                       /\ SetLocals(Scanner, InitLocals)
    /\ UNCHANGED <<chainVars, lock, backendVars, scanVars, owed, refusals>>

----------------------------------------------------------------------------
(* recover_txid *)

\* The early returns on a credited or queued payment, then fetch_esplora_tx.
\* Requests that change nothing (not found, not ours) are not steps.
RecoverFetch(t) ==
    /\ pc[t] = "idle"
    /\ \E d \in Deposits, h \in 1 .. best :
         /\ ~IsCredited(mem, d, d)
         /\ \A e \in mem.pending : e.id # d
         /\ TxOf[d] \in blocks[h].txs
         /\ SetLocals(t, [InitLocals EXCEPT !.cur = h, !.found = {d}])
    /\ Goto(t, "rtip")
    /\ UNCHANGED <<chainVars, mem, disk, lock, backendVars, scanVars, owed, faults, refusals>>

RecoverTip(t) ==
    /\ pc[t] = "rtip"
    /\ SetLocals(t, [loc[t] EXCEPT !.tip = best])
    /\ Goto(t, "enqueue")
    /\ UNCHANGED <<chainVars, mem, disk, lock, backendVars, scanVars, owed, faults, refusals>>

----------------------------------------------------------------------------
(* The outbox, used by the scan loop and by recover_txid *)

\* enqueue_or_confirm: memory first ...
EnqueuePush(t) ==
    /\ pc[t] = "enqueue"
    /\ mem' = Enqueue(mem, loc[t].found, loc[t].cur)
    /\ SetLocals(t, [loc[t] EXCEPT !.found = {}])
    /\ Goto(t, "save")
    /\ UNCHANGED <<chainVars, disk, lock, backendVars, scanVars, owed, faults, refusals>>

\* ... then the file.  A failed save ends the scan loop or the request.
EnqueueSave(t) ==
    /\ pc[t] = "save"
    /\ UNCHANGED mem
    /\ \E ok \in BOOLEAN :
         /\ SaveState(ok)
         /\ Goto(t, IF ok THEN "lock" ELSE IF t = Scanner THEN "start" ELSE "idle")
         /\ SetLocals(t, IF ok THEN loc[t] ELSE InitLocals)
    /\ UNCHANGED <<chainVars, lock, backendVars, scanVars, owed, refusals>>

\* Mutant: process_confirmed does not save the queue first.
CreditsLockUnsaved(t) ==
    /\ pc[t] = "lock"
    /\ LockFree
    /\ lock' = t
    /\ Goto(t, "clone")
    /\ UNCHANGED <<chainVars, mem, disk, loc, backendVars, scanVars, owed, faults, refusals>>

\* process_confirmed: take credit_lock and save ...
CreditsLock(t) ==
    /\ pc[t] = "lock"
    /\ LockFree
    /\ UNCHANGED mem
    /\ \E ok \in BOOLEAN :
         /\ SaveState(ok)
         /\ lock' = IF ok THEN t ELSE NoTask
         /\ Goto(t, IF ok THEN "clone" ELSE AfterCredits(t))
         /\ SetLocals(t, IF ok \/ t = Scanner THEN loc[t] ELSE InitLocals)
    /\ UNCHANGED <<chainVars, backendVars, scanVars, owed, refusals>>

\* ... then copy the queue.
CreditsClone(t) ==
    /\ pc[t] = "clone"
    /\ SetLocals(t, [loc[t] EXCEPT !.todo = mem.pending])
    /\ Goto(t, "next")
    /\ UNCHANGED <<chainVars, mem, disk, lock, backendVars, scanVars, owed, faults, refusals>>

CreditsRelease(t) ==
    /\ pc[t] = "next"
    /\ loc[t].todo = {}
    /\ lock' = NoTask
    /\ Goto(t, AfterCredits(t))
    /\ SetLocals(t, IF t = Scanner THEN loc[t] ELSE InitLocals)
    /\ UNCHANGED <<chainVars, mem, disk, backendVars, scanVars, owed, faults, refusals>>

\* process_pending_payment reads notified_confirmed once, at its start.
\* The copies are taken in any order.
EntryStart(t) ==
    /\ pc[t] = "next"
    /\ \E e \in loc[t].todo :
         LET already == IsCredited(mem, e.dep, e.id)
             started == [loc[t] EXCEPT !.todo = @ \ {e}, !.entry = e, !.already = already]
         IN IF ~e.notified /\ ~already
            THEN Goto(t, "detect") /\ SetLocals(t, started)
            ELSE IF Confirmed(e, loc[t].tip)
            THEN Goto(t, "sweep") /\ SetLocals(t, started)
            ELSE /\ Goto(t, "next")
                 /\ SetLocals(t, [loc[t] EXCEPT !.todo = @ \ {e}])
    /\ UNCHANGED <<chainVars, mem, disk, lock, backendVars, scanVars, owed, faults, refusals>>

\* send_webhook, after its retries: delivered and acknowledged, delivered with
\* the reply lost (an error to the sender), or not delivered.
Outcomes == {"acked", "lost", "refused"}
Outcome(o) == Fault(o = "lost") /\ Refusal(o = "refused")

\* Mutant: any reply counts as an acknowledgement.
AnyReply(o) == o # "lost"

Acknowledged(o) == o = "acked"

SendDetected(t) ==
    /\ pc[t] = "detect"
    /\ \E o \in Outcomes :
         /\ Outcome(o)
         /\ detected' = IF o = "refused" THEN detected
                        ELSE detected \cup {loc[t].entry.id}
         /\ Goto(t, IF Acknowledged(o) THEN "notified" ELSE "next")
         /\ SetLocals(t, IF Acknowledged(o) THEN loc[t] ELSE EntryDone(t))
    /\ UNCHANGED <<chainVars, mem, disk, lock, credits, paid, scanVars, owed>>

RecordDetected(t) ==
    /\ pc[t] = "notified"
    /\ mem' \in NotifiedStores(mem, loc[t].entry.id)
    /\ \E ok \in BOOLEAN :
         LET goOn == ok /\ Confirmed(loc[t].entry, loc[t].tip)
         IN /\ SaveState(ok)
            /\ Goto(t, IF goOn THEN "sweep" ELSE "next")
            /\ SetLocals(t, IF goOn THEN loc[t] ELSE EntryDone(t))
    /\ UNCHANGED <<chainVars, lock, backendVars, scanVars, owed, refusals>>

\* maybe_sweep: every failure of the sweep is a deferral.
Sweep(t) ==
    /\ pc[t] = "sweep"
    /\ \E deferred \in BOOLEAN :
         /\ deferred => SweepEnabled
         /\ Refusal(deferred)
         /\ owed' = IF deferred THEN owed \cup {loc[t].entry.dep}
                    ELSE owed \ {loc[t].entry.dep}
         /\ SetLocals(t, [loc[t] EXCEPT !.deferred = deferred])
         /\ Goto(t, IF ~loc[t].already THEN "credit"
                    ELSE "remove")
    /\ UNCHANGED <<chainVars, mem, disk, lock, backendVars, scanVars, faults>>

SendCredited(t) ==
    /\ pc[t] = "credit"
    /\ \E o \in Outcomes :
         /\ Outcome(o)
         /\ IF o = "refused" THEN UNCHANGED <<credits, paid>>
            ELSE /\ credits' = [credits EXCEPT ![loc[t].entry.id] = @ + 1]
                 /\ paid' = paid \cup {loc[t].entry.dep}
         /\ Goto(t, IF Acknowledged(o) THEN "record" ELSE "next")
         /\ SetLocals(t, IF Acknowledged(o) THEN loc[t] ELSE EntryDone(t))
    /\ UNCHANGED <<chainVars, mem, disk, lock, detected, scanVars, owed>>

RecordCredited(t) ==
    /\ pc[t] = "record"
    /\ mem' = MarkCredited(mem, loc[t].entry.id)
    /\ \E ok \in BOOLEAN :
         /\ SaveState(ok)
         /\ Goto(t, IF ok THEN "remove" ELSE "next")
         /\ SetLocals(t, IF ok THEN loc[t] ELSE EntryDone(t))
    /\ UNCHANGED <<chainVars, lock, backendVars, scanVars, owed, refusals>>

\* A payment whose sweep was deferred stays queued.
EntryFinish(t) ==
    /\ pc[t] = "remove"
    /\ \E ok \in BOOLEAN :
         IF loc[t].deferred
         THEN ok /\ UNCHANGED <<mem, disk, faults>>
         ELSE mem' = DropEntry(mem, loc[t].entry.id) /\ SaveState(ok)
    /\ Goto(t, "next")
    /\ SetLocals(t, EntryDone(t))
    /\ UNCHANGED <<chainVars, lock, backendVars, scanVars, owed, refusals>>

----------------------------------------------------------------------------
(* The process dies; a new one starts from the state file. *)

Crash ==
    /\ Fault(TRUE)
    /\ mem' = LoadState(disk)
    /\ pc' = [t \in Tasks |-> IF t = Scanner THEN "start" ELSE "idle"]
    /\ loc' = [t \in Tasks |-> InitLocals]
    /\ lock' = NoTask
    /\ UNCHANGED <<chainVars, disk, backendVars, scanVars, owed, refusals>>

----------------------------------------------------------------------------
(* The state file of the first start: empty, or left by an older release that
   keyed credits by txid and queued payments without an event id. *)
LegacyEntry(d) == [dep |-> d, id |-> NoId, height |-> 1, notified |-> FALSE]
FirstFile == [cursor |-> InitCursor, hashes |-> NoHashes,
              pending |-> {LegacyEntry(d) : d \in LegacyPending},
              credited |-> LegacyCredited]

Init ==
    /\ best = 1
    /\ blocks = [h \in Heights |->
                   IF h = 1 THEN [era |-> 0, txs |-> {TxOf[d] : d \in LegacyPending} \cup LegacyCredited]
                   ELSE NoBlock]
    /\ reorgs = 0
    /\ disk = FirstFile
    /\ mem = LoadState(FirstFile)
    /\ pc = [t \in Tasks |-> IF t = Scanner THEN "start" ELSE "idle"]
    /\ loc = [t \in Tasks |-> InitLocals]
    /\ lock = NoTask
    /\ detected = {}
    /\ credits = [id \in EventIds |-> 0]
    /\ paid = {}
    /\ owed = {}
    /\ first = FirstHeight
    /\ unlinked = FALSE
    /\ faults = 0
    /\ refusals = 0

ScanStep == ScanStart \/ ScanTip \/ ScanReorg \/ ScanRollback \/ ScanFetch \/ ScanAdvance
RecoverStep(t) == RecoverFetch(t) \/ RecoverTip(t)
OutboxStep(t) ==
    \/ EnqueuePush(t) \/ EnqueueSave(t)
    \/ CreditsLock(t) \/ CreditsClone(t) \/ CreditsRelease(t)
    \/ EntryStart(t) \/ SendDetected(t) \/ RecordDetected(t)
    \/ Sweep(t) \/ SendCredited(t) \/ RecordCredited(t) \/ EntryFinish(t)

Next ==
    \/ Mine \/ Reorg \/ Crash
    \/ ScanStep
    \/ \E t \in Recoverers : RecoverStep(t)
    \/ \E t \in Tasks : OutboxStep(t)

Spec == Init /\ [][Next]_vars

\* Blocks keep coming, and the async runtime runs every task that is ready.
Fairness ==
    /\ WF_vars(Mine)
    /\ WF_vars(ScanStep \/ OutboxStep(Scanner))
    /\ \A t \in Recoverers : WF_vars(RecoverTip(t) \/ OutboxStep(t))

FairSpec == Spec /\ Fairness

----------------------------------------------------------------------------
(* Properties *)

Labels == {"start", "tip", "reorg", "rollback", "fetch", "advance", "idle", "rtip",
           "enqueue", "save", "lock", "clone", "next", "detect", "notified", "sweep",
           "credit", "record", "remove"}

\* The type invariant of the detector's memory, file and task locals.
TypeOK ==
    /\ best \in Heights
    /\ blocks \in [Heights -> Block]
    /\ reorgs \in Nat
    /\ mem \in Store(Entry)
    /\ disk \in Store(FileEntry)
    /\ pc \in [Tasks -> Labels]
    /\ loc \in [Tasks -> Locals]
    /\ lock \in Tasks \cup {NoTask}
    /\ detected \subseteq EventIds
    /\ credits \in [EventIds -> Nat]
    /\ paid \subseteq Deposits
    /\ owed \subseteq Deposits
    /\ first \in Nat \ {0}
    /\ unlinked \in BOOLEAN
    /\ faults \in Nat
    /\ refusals \in Nat

\* README: "payment_detected precedes payment_credited", for every event id,
\* across rollbacks, recoveries, restarts and lost replies.
DetectedBeforeCredited ==
    \A id \in EventIds : credits[id] > 0 => id \in detected

\* process_confirmed under credit_lock: the backend receives the credit of an
\* event id once, and once more at most for each crash, failed save or lost
\* reply.  Refused deliveries, reorganisations, rescans and concurrent
\* recoveries never cause a second one.
CreditedOncePerFault ==
    \A id \in EventIds : credits[id] <= 1 + faults

Known(s, d) == IsCredited(s, d, d) \/ \E e \in s.pending : e.dep = d

\* A block whose recorded hash is the chain's has left nothing behind.
ScannedKnown(s) ==
    \A h \in 1 .. best : s.hashes[h] = blocks[h].era =>
        \A d \in DepositsOf(blocks[h]) : Known(s, d)

\* detect_reorg walks down to the first recorded hash that is the chain's and takes
\* all below for scanned.  So at every height up to there, whatever is recorded for
\* it, each deposit of the chain is queued or credited.
NothingPassed(s) ==
    \A top \in 1 .. best : s.hashes[top] = blocks[top].era =>
        \A h \in first .. top : \A d \in DepositsOf(blocks[h]) : Known(s, d)

\* What the walk relies on, without conditions: no comment promises it and the
\* code does not keep it, because the parent of a block is not compared.
WalkSound == NothingPassed(mem) /\ NothingPassed(disk)

\* The block scan, in memory and in the state file, over crashes, failed saves,
\* rollbacks and reorganisations at any step: a block that is recorded has left no
\* deposit behind; and as long as each block the scan took was the child of the one
\* recorded below it, no deposit was passed anywhere below a place where the next
\* reorg walk stops.  (A reorganisation between walk and fetch, an explorer error in the
\* walk, or a branch longer than the hashes that are kept can break that condition; a
\* deposit mined again below is then never scanned.)
NoDepositSkipped ==
    /\ ScannedKnown(mem) /\ ScannedKnown(disk)
    /\ ~unlinked => WalkSound

\* README: "All chains save pending payments before delivery"; enqueue_or_confirm:
\* "The outbox is durable before a webhook or cursor advance can happen."  While
\* a payment is announced, swept or credited, it is in the state file's queue.
SavedBeforeDelivery ==
    \A t \in Tasks : pc[t] \in {"detect", "sweep", "credit"} =>
        \E e \in disk.pending : e.dep = loc[t].entry.dep

\* min_confirmations: "Confirmations required before sweeping and emitting
\* payment_credited."  When no reorganisation is as deep as the confirmations
\* required, a credited deposit is in the chain for good.
CreditedOnChain ==
    MaxReorgDepth < ConfirmationTarget => \A d \in paid : OnChain(TxOf[d])

\* README: "Failed or deferred sweeps remain queued."  A deposit of a scanned
\* block of the chain whose last sweep was deferred is queued for another one.
DeferredSweepQueued ==
    \A d \in owed, h \in 1 .. best :
        (TxOf[d] \in blocks[h].txs /\ mem.hashes[h] = blocks[h].era) =>
            \E e \in mem.pending : e.dep = d

\* In the chain, of whatever branch, with enough blocks to follow.
MinedInTime(d) ==
    \E h \in 2 .. MaxHeight - ConfirmationTarget + 1 :
        h <= best /\ TxOf[d] \in blocks[h].txs

\* README: "failed deliveries remain pending."  A deposit that stays in the chain, in
\* its first block or in one of a later branch, is credited in the end, whatever crashes,
\* failed saves, reorganisations, explorer errors and refused or lost webhooks came in
\* between, unless the scan took a block over a parent it had not recorded.
EventuallyCredited ==
    \A d \in Deposits : MinedInTime(d) ~> (credits[d] > 0 \/ unlinked \/ ~MinedInTime(d))

\* The outbox keeps the promise of PaymentOutbox: an event is sealed while its
\* credit is recorded in memory, and from the acknowledgement on.
Sealed == mem.credited \cup {loc[t].entry.id : t \in {t \in Tasks : pc[t] = "record"}}
Outbox == INSTANCE PaymentOutbox WITH Ids <- EventIds, sealed <- Sealed
OutboxSpec == Outbox!Spec

====
