---------------------------- MODULE EvmDetector ----------------------------
(***************************************************************************)
(* The Ethereum/Base detector: cycles with three scan sources, each with   *)
(* its own cursor, recover_txid, the outbox with sweep and credit, and the *)
(* state file.  Cycles are started by the poll loop and by HTTP requests   *)
(* (claims, pushes); scan_lock and credit_lock order their two halves.     *)
(*                                                                         *)
(* Source: src/src/ethereum.rs.                                            *)
(*                                                                         *)
(* A step ends where another task can run: at an RPC call, a webhook, a    *)
(* lock.  A memory update and the save that follows it are one step whose  *)
(* save may fail.                                                          *)
(***************************************************************************)
EXTENDS Integers, FiniteSets

CONSTANTS
    Payments,      \* transfers to addresses of the pool
    KindOf,        \* the source that sees each: "native", "erc20", "internal"
    AddrOf,        \* its recipient
    TopUps,        \* native transfers that come from our own gas tank
    QueuedTopUps,  \* of those, the ones an older release has queued
    Sources,       \* kinds that are configured (tokens, Etherscan key)
    Poller,        \* the task of run_block_scan_loop
    Callers,       \* tasks of the HTTP server
    NoTask,        \* holder of a free lock
    NoId,          \* no event
    MinConf,       \* min_confirmations
    StartBlock,    \* start_block, or NoBlock
    LastScanned,   \* last_scanned_block of the first state file, or NoBlock
    MaxBlocks,     \* max_blocks_per_cycle
    Erc20Chunk,    \* blocks per eth_getLogs call (25)
    MaxTip,        \* bound: height of the chain
    MaxReorgs,     \* bound: reorganisations
    MaxFaults,     \* bound: crashes, failed saves, lost replies
    MaxErrors      \* bound: RPC errors, refused webhooks, deferred sweeps

Kinds == {"native", "erc20", "internal"}
NoBlock == -1
Tasks == {Poller} \cup Callers
Addrs == {AddrOf[p] : p \in Payments}

\* event_id: the second part is the log index of a token transfer; a
\* transaction that is mined again may get another one.
EventIds == Payments \X {0, 1}

ASSUME TaskAssumption ==
    /\ Poller \notin Callers
    /\ NoTask \notin Tasks

ASSUME PaymentAssumption ==
    /\ KindOf \in [Payments -> Kinds]
    /\ TopUps \subseteq {p \in Payments : KindOf[p] = "native"}
    /\ QueuedTopUps \subseteq TopUps
    /\ "native" \in Sources /\ Sources \subseteq Kinds
    /\ NoId \notin EventIds

ASSUME BoundAssumption ==
    /\ MinConf \in Nat
    /\ StartBlock \in Nat \cup {NoBlock}
    /\ LastScanned \in Nat \cup {NoBlock}
    /\ MaxBlocks \in Nat
    /\ Erc20Chunk \in Nat \ {0}
    /\ MaxTip \in Nat \ {0}
    /\ MaxReorgs \in Nat
    /\ MaxFaults \in Nat
    /\ MaxErrors \in Nat

VARIABLES
    best,        \* height of the chain tip
    at,          \* the block of each payment, 0 while not mined
    ok,          \* execution status of its transaction
    idx,         \* log index of its transfer
    reorgs,
    assigned,    \* addresses given to users (Redis)
    swept,       \* payments whose funds have left their wallet
    first,       \* scanning began after this block
    mem,         \* EthereumState of the running process
    disk,        \* the state file
    pc,          \* where each task is
    loc,         \* the local variables of each task
    scanLock,
    creditLock,
    detected,    \* event ids whose payment_detected reached the backend
    credits,     \* how often payment_credited reached it, per event id
    unseen,      \* for the properties: events that were announced, swept or credited
                 \* although the node had no transaction when asked for the sender
    faults,
    errors

chainVars == <<best, at, ok, idx, reorgs>>
locks == <<scanLock, creditLock>>
backendVars == <<detected, credits, unseen>>
vars == <<chainVars, assigned, swept, first, mem, disk, pc, loc, locks,
          backendVars, faults, errors>>

----------------------------------------------------------------------------
(* Data *)

AtLeastOne(n) == IF n > 1 THEN n ELSE 1
Lower(m, n) == IF m < n THEN m ELSE n
Higher(m, n) == IF m > n THEN m ELSE n

Entry == [id : EventIds, height : Nat, notified : BOOLEAN]
NoEntry == [id |-> NoId, height |-> 0, notified |-> FALSE]
Found == [id : EventIds, height : Nat]

\* EthereumState.  Only a file without cursors makes last_scanned_block count.
Store == [cursor : [Kinds -> Nat \cup {NoBlock}], pending : SUBSET Entry,
          credited : SUBSET EventIds, ignored : SUBSET EventIds]

Id(p) == <<p, idx[p]>>

\* Mutant: our own gas is not told from a deposit.
NeverTopUp(p) == FALSE
IsTopUp(p) == p \in TopUps

\* Both read credited_events; is_known_event also the queue and the ignored.
Credited(s, id) == id \in s.credited
Known(s, id) ==
    Credited(s, id) \/ id \in s.ignored \/ \E e \in s.pending : e.id = id

\* Mutant: an unchecked subtraction.
SafeBlockUnderflow(tip) == tip - AtLeastOne(MinConf)

\* The last block no reorganisation is expected to reach.
SafeBlock(tip) == Higher(0, tip - (AtLeastOne(MinConf) - 1))

Confirmations(tip, mined) == IF tip >= mined THEN tip - mined + 1 ELSE 0
\* Mutant: one confirmation short.
DeepOneShort(tip, mined) == Confirmations(tip, mined) + 1 >= AtLeastOne(MinConf)
Deep(tip, mined) == Confirmations(tip, mined) >= AtLeastOne(MinConf)

Started(s) == \E k \in Kinds : s.cursor[k] # NoBlock
InitialCursor(safe) ==
    IF LastScanned # NoBlock THEN LastScanned
    ELSE IF StartBlock = NoBlock THEN safe ELSE NoBlock
WithCursors(s, safe) ==
    IF Started(s) THEN s ELSE [s EXCEPT !.cursor = [k \in Kinds |-> InitialCursor(safe)]]

\* Mutant: the block after the cursor is taken as scanned.
FromPastCursor(s, k, safe) ==
    IF s.cursor[k] # NoBlock THEN s.cursor[k] + 2
    ELSE IF StartBlock # NoBlock THEN StartBlock ELSE safe
From(s, k, safe) ==
    IF s.cursor[k] # NoBlock THEN s.cursor[k] + 1
    ELSE IF StartBlock # NoBlock THEN StartBlock ELSE safe
End(from, safe) == Lower(safe, from + AtLeastOne(MaxBlocks) - 1)
Chunk(k) ==
    CASE k = "native" -> 1
      [] k = "erc20" -> Erc20Chunk
      [] k = "internal" -> AtLeastOne(MaxBlocks)

\* Mutant: a slow cycle puts the cursor back.
SetCursorBack(s, k, block) == [s EXCEPT !.cursor[k] = block]
SetCursor(s, k, block) == [s EXCEPT !.cursor[k] = Higher(@, block)]

Push(s, f) ==
    IF Known(s, f.id) THEN s
    ELSE [s EXCEPT !.pending =
             @ \cup {[id |-> f.id, height |-> f.height, notified |-> FALSE]}]
Drop(s, id) == [s EXCEPT !.pending = {e \in @ : e.id # id}]
Ignore(s, id) == Drop([s EXCEPT !.ignored = @ \cup {id}], id)
Notified(s, id) ==
    [s EXCEPT !.pending = {IF e.id = id THEN [e EXCEPT !.notified = TRUE] ELSE e : e \in @}]
MarkCredited(s, id) == [s EXCEPT !.credited = @ \cup {id}]
Moved(s, id, height) ==
    [s EXCEPT !.pending = {IF e.id = id THEN [e EXCEPT !.height = height] ELSE e : e \in @}]

Locals == [tip : Nat, pass : {"before", "after", "recover"}, todo : SUBSET Entry,
           entry : Entry \cup {NoEntry}, deep : BOOLEAN, deferred : BOOLEAN,
           watched : SUBSET Addrs, kind : Kinds, next : Nat, end : Nat,
           found : SUBSET Found, partial : BOOLEAN]
InitLocals == [tip |-> 0, pass |-> "before", todo |-> {}, entry |-> NoEntry,
               deep |-> FALSE, deferred |-> FALSE, watched |-> {}, kind |-> "native",
               next |-> 0, end |-> 0, found |-> {}, partial |-> FALSE]

----------------------------------------------------------------------------
(* Steps that several actions share *)

Goto(t, label) == pc' = [pc EXCEPT ![t] = label]
Set(t, l) == loc' = [loc EXCEPT ![t] = l]
At(t, label, l) == Goto(t, label) /\ Set(t, l)

\* A budgeted fault or error, or none.
Fault(happens) == /\ happens => faults < MaxFaults
                  /\ faults' = IF happens THEN faults + 1 ELSE faults
Error(happens) == /\ happens => errors < MaxErrors
                  /\ errors' = IF happens THEN errors + 1 ELSE errors

\* persist_state: the file is replaced by the memory state, or left as it was.
Save(saved) == /\ disk' = IF saved THEN mem' ELSE disk
               /\ Fault(~saved)

Done(l) == [l EXCEPT !.entry = NoEntry, !.deep = FALSE, !.deferred = FALSE]
EntryDone(t) == Done(loc[t])
NextEntry(t) == At(t, "next", EntryDone(t))

\* The next source; after the last one the lock goes and the credits are
\* processed a second time, whether or not the scan failed.
AfterKind(k) == IF k = "native" THEN "erc20" ELSE "internal"
SecondPass(t) == [loc[t] EXCEPT !.pass = "after", !.watched = {}, !.kind = "native",
                                !.next = 0, !.end = 0, !.found = {}, !.partial = FALSE]
LeaveScan(t) == scanLock' = NoTask /\ At(t, "credits", SecondPass(t))
LeaveKind(t) ==
    IF loc[t].kind = "internal" THEN LeaveScan(t)
    ELSE /\ At(t, "source", [loc[t] EXCEPT !.kind = AfterKind(loc[t].kind), !.next = 0,
                                           !.end = 0, !.found = {}, !.partial = FALSE])
         /\ UNCHANGED scanLock

----------------------------------------------------------------------------
(* The chain, the users, the process (external) *)

\* An address is known to a payer only once it is assigned.
Payable == {p \in Payments : at[p] = 0 /\ AddrOf[p] \in assigned}

Mine ==
    /\ best < MaxTip
    /\ best' = best + 1
    /\ \E T \in SUBSET Payable : \E F \in SUBSET T :
         /\ at' = [p \in Payments |-> IF p \in T THEN best + 1 ELSE at[p]]
         /\ ok' = [p \in Payments |-> IF p \in T THEN p \notin F ELSE ok[p]]
    /\ UNCHANGED <<idx, reorgs, assigned, swept, first, mem, disk, pc, loc, locks,
                   backendVars, faults, errors>>

\* Fewer blocks than min_confirmations are replaced by a longer branch.  Their
\* transactions are mined again or not, with another outcome or log index.
Reorg ==
    /\ reorgs < MaxReorgs
    /\ best < MaxTip
    /\ reorgs' = reorgs + 1
    /\ best' = best + 1
    /\ \E d \in 1 .. AtLeastOne(MinConf) - 1 :
         LET base == best - d
             loose == {p \in Payments : at[p] > base}
         IN /\ base > 0
            /\ \E place \in [loose -> {0} \cup (base + 1 .. best + 1)],
                  fine \in SUBSET loose,
                  index \in [{p \in loose : KindOf[p] = "erc20"} -> {0, 1}] :
                 /\ at' = [p \in Payments |-> IF p \in loose THEN place[p] ELSE at[p]]
                 /\ ok' = [p \in Payments |-> IF p \in loose THEN p \in fine ELSE ok[p]]
                 /\ idx' = [p \in Payments |->
                              IF p \in DOMAIN index THEN index[p] ELSE idx[p]]
    /\ UNCHANGED <<assigned, swept, first, mem, disk, pc, loc, locks, backendVars,
                   faults, errors>>

\* The pool gives an address to a user, for good.
Assign ==
    /\ \E a \in Addrs \ assigned : assigned' = assigned \cup {a}
    /\ UNCHANGED <<chainVars, swept, first, mem, disk, pc, loc, locks, backendVars,
                   faults, errors>>

\* The process dies; a new one starts from the state file.
Crash ==
    /\ Fault(TRUE)
    /\ mem' = disk
    /\ pc' = [t \in Tasks |-> "idle"]
    /\ loc' = [t \in Tasks |-> InitLocals]
    /\ scanLock' = NoTask
    /\ creditLock' = NoTask
    /\ UNCHANGED <<chainVars, assigned, swept, first, disk, backendVars, errors>>

----------------------------------------------------------------------------
(* process_cycle *)

\* The tip is read before the assignments: a payment to an address assigned
\* later is above this tip.
CycleTip(t) ==
    /\ pc[t] = "idle"
    /\ At(t, "credits", [InitLocals EXCEPT !.tip = best])
    /\ UNCHANGED <<chainVars, assigned, swept, first, mem, disk, locks, backendVars,
                   faults, errors>>

ReadReservations(t) ==
    /\ pc[t] = "reservations"
    /\ \E error \in BOOLEAN :
         /\ Error(error)
         /\ IF error THEN At(t, "idle", InitLocals)
            ELSE At(t, "scan", [loc[t] EXCEPT !.watched = assigned])
    /\ UNCHANGED <<chainVars, assigned, swept, first, mem, disk, locks, backendVars, faults>>

\* scan_new_blocks: the cursors get their first values under scan_lock.
ScanLock(t) ==
    /\ pc[t] = "scan"
    /\ scanLock = NoTask
    /\ LET safe == SafeBlock(loc[t].tip)
       IN /\ mem' = WithCursors(mem, safe)
          /\ first' = IF Started(mem) THEN first
                      ELSE IF InitialCursor(safe) = NoBlock THEN StartBlock - 1
                      ELSE InitialCursor(safe)
    /\ \E saved \in BOOLEAN :
         /\ Save(saved)
         /\ IF saved THEN scanLock' = t /\ At(t, "source", loc[t])
            ELSE LeaveScan(t)
    /\ UNCHANGED <<chainVars, assigned, swept, creditLock, backendVars, errors>>

\* A source with nothing to look for follows the safe block.  A failed save
\* here ends the whole scan.
SkipSource(t) ==
    /\ pc[t] = "source"
    /\ loc[t].watched = {} \/ loc[t].kind \notin Sources
    /\ mem' = SetCursor(mem, loc[t].kind, SafeBlock(loc[t].tip))
    /\ \E saved \in BOOLEAN :
         /\ Save(saved)
         /\ IF saved THEN LeaveKind(t) ELSE LeaveScan(t)
    /\ UNCHANGED <<chainVars, assigned, swept, first, creditLock, backendVars, errors>>

\* scan_source, up to the first chunk.
StartSource(t) ==
    /\ pc[t] = "source"
    /\ loc[t].watched # {} /\ loc[t].kind \in Sources
    /\ LET safe == SafeBlock(loc[t].tip)
           from == From(mem, loc[t].kind, safe)
           end == End(from, safe)
       IN IF from > end THEN LeaveKind(t)
          ELSE /\ At(t, "fetch", [loc[t] EXCEPT !.next = from, !.end = end])
               /\ UNCHANGED scanLock
    /\ UNCHANGED <<chainVars, assigned, swept, first, mem, disk, creditLock, backendVars,
                   faults, errors>>

ChunkEnd(l) == Lower(l.end, l.next + Chunk(l.kind) - 1)

\* scan_native_eth, scan_erc20_logs, scan_internal_calls: the payments of a
\* chunk to the watched addresses.
Seen(l) ==
    {[id |-> Id(p), height |-> at[p]] : p \in
        {p \in Payments : /\ KindOf[p] = l.kind
                          /\ at[p] > 0 /\ at[p] \in l.next .. ChunkEnd(l)
                          /\ AddrOf[p] \in l.watched
                          /\ ok[p]
                          /\ ~IsTopUp(p)}}
New(s, F) == {f \in F : ~Known(s, f.id)}

\* An error pauses this source only.  Etherscan is asked address by address:
\* what the others returned is queued before the error ends the source.  Its
\* records are well formed and fit in 20 pages here: the code passes over one it
\* cannot parse, and over the pages beyond, without an error.
Fetch(t) ==
    /\ pc[t] = "fetch"
    /\ LET l == loc[t]
           new == New(mem, Seen(l))
       IN \/ /\ UNCHANGED <<scanLock, errors>>
             /\ At(t, IF new = {} THEN "advance" ELSE "enqueue", [l EXCEPT !.found = new])
          \/ /\ Error(TRUE)
             /\ LeaveKind(t)
          \/ /\ l.kind = "internal"
             /\ Error(TRUE)
             /\ \E A \in SUBSET l.watched :
                  /\ A # l.watched
                  /\ \E f \in new : AddrOf[f.id[1]] \in A
                  /\ At(t, "enqueue", [l EXCEPT !.partial = TRUE,
                                !.found = {f \in new : AddrOf[f.id[1]] \in A}])
             /\ UNCHANGED scanLock
    /\ UNCHANGED <<chainVars, assigned, swept, first, mem, disk, creditLock, backendVars,
                   faults>>

\* emit_detected_and_enqueue.  A known event is not saved again.
Enqueue(t) ==
    /\ pc[t] = "enqueue"
    /\ \E f \in loc[t].found :
         LET rest == loc[t].found \ {f}
             l == [loc[t] EXCEPT !.found = rest]
         IN /\ mem' = Push(mem, f)
            /\ \E saved \in BOOLEAN :
                 /\ IF Known(mem, f.id) THEN saved /\ UNCHANGED <<disk, faults>>
                    ELSE Save(saved)
                 /\ IF ~saved \/ (rest = {} /\ l.partial) THEN LeaveKind(t)
                    ELSE /\ At(t, IF rest = {} THEN "advance" ELSE "enqueue", l)
                         /\ UNCHANGED scanLock
    /\ UNCHANGED <<chainVars, assigned, swept, first, creditLock, backendVars, errors>>

\* The cursor follows the chunk.
Advance(t) ==
    /\ pc[t] = "advance"
    /\ LET to == ChunkEnd(loc[t])
       IN /\ mem' = SetCursor(mem, loc[t].kind, to)
          /\ \E saved \in BOOLEAN :
               /\ Save(saved)
               /\ IF saved /\ to < loc[t].end
                  THEN /\ At(t, "fetch", [loc[t] EXCEPT !.next = to + 1])
                       /\ UNCHANGED scanLock
                  ELSE LeaveKind(t)
    /\ UNCHANGED <<chainVars, assigned, swept, first, creditLock, backendVars, errors>>

\* maybe_maintain_gas_tank records the time of a maintenance that was due.
Maintain(t) ==
    /\ pc[t] = "maintain"
    /\ UNCHANGED mem
    /\ \/ UNCHANGED <<disk, faults>>
       \/ \E saved \in BOOLEAN : Save(saved)
    /\ At(t, "idle", InitLocals)
    /\ UNCHANGED <<chainVars, assigned, swept, first, locks, backendVars, errors>>

----------------------------------------------------------------------------
(* recover_txid *)

\* The transaction and its receipt.  Requests that change nothing are not steps.
RecoverFetch(t) ==
    /\ pc[t] = "idle"
    /\ \E p \in Payments :
         /\ AddrOf[p] \in assigned
         /\ at[p] > 0 /\ ok[p]
         /\ ~IsTopUp(p)
         /\ KindOf[p] \in Sources \ {"internal"}
         /\ ~Credited(mem, Id(p))
         /\ At(t, "rtip", [InitLocals EXCEPT !.pass = "recover",
                              !.found = {[id |-> Id(p), height |-> at[p]]}])
    /\ UNCHANGED <<chainVars, assigned, swept, first, mem, disk, locks, backendVars,
                   faults, errors>>

\* The tip, and emit_detected_and_enqueue.
RecoverTip(t) ==
    /\ pc[t] = "rtip"
    /\ \E f \in loc[t].found, saved \in BOOLEAN :
         /\ mem' = Push(mem, f)
         /\ IF Known(mem, f.id) THEN saved /\ UNCHANGED <<disk, faults>>
            ELSE Save(saved)
         /\ IF saved THEN At(t, "credits", [loc[t] EXCEPT !.tip = best, !.found = {}])
            ELSE At(t, "idle", InitLocals)
    /\ UNCHANGED <<chainVars, assigned, swept, first, locks, backendVars, errors>>

----------------------------------------------------------------------------
(* process_credits *)

\* Mutant: every task works on the queue at once.
CreditsNoLock(t) ==
    /\ pc[t] = "credits"
    /\ UNCHANGED mem
    /\ \E saved \in BOOLEAN :
         /\ Save(saved)
         /\ At(t, IF saved THEN "next" ELSE "idle",
                  IF saved THEN [loc[t] EXCEPT !.todo = mem.pending] ELSE InitLocals)
    /\ UNCHANGED <<chainVars, assigned, swept, first, locks, backendVars, errors>>

\* Under credit_lock, save, then copy the queue.  A failed save ends the cycle
\* or the request.
CreditsLock(t) ==
    /\ pc[t] = "credits"
    /\ creditLock = NoTask
    /\ UNCHANGED mem
    /\ \E saved \in BOOLEAN :
         /\ Save(saved)
         /\ IF saved
            THEN creditLock' = t /\ At(t, "next", [loc[t] EXCEPT !.todo = mem.pending])
            ELSE UNCHANGED creditLock /\ At(t, "idle", InitLocals)
    /\ UNCHANGED <<chainVars, assigned, swept, first, scanLock, backendVars, errors>>

CreditsDone(t) ==
    /\ pc[t] = "next"
    /\ loc[t].todo = {}
    /\ creditLock' = NoTask
    /\ CASE loc[t].pass = "before" -> At(t, "reservations", loc[t])
         [] loc[t].pass = "after" -> At(t, "maintain", loc[t])
         [] loc[t].pass = "recover" -> At(t, "idle", InitLocals)
    /\ UNCHANGED <<chainVars, assigned, swept, first, mem, disk, scanLock, backendVars,
                   faults, errors>>

\* process_credit_entry goes on with a payment: announce it, sweep it, or wait.
Announce(t, l) ==
    IF ~l.entry.notified THEN At(t, "detect", l)
    ELSE IF l.deep THEN At(t, "sweep", l)
    ELSE At(t, "next", Done(l))

\* process_credit_entry, the receipt.  Without one the entry waits; a failed
\* transaction is ignored for good; a transaction in another block gets its new
\* height.  Only coins can be our own gas.
EntryReceipt(t) ==
    /\ pc[t] = "next"
    /\ \E e \in loc[t].todo :
         LET p == e.id[1]
             started == [loc[t] EXCEPT !.todo = @ \ {e}, !.entry = e,
                                       !.deep = Deep(loc[t].tip, at[p])]
         IN \/ /\ Error(at[p] > 0)
               /\ At(t, "next", Done(started))
               /\ UNCHANGED <<mem, disk, faults>>
            \/ /\ at[p] > 0
               /\ ~ok[p]
               /\ mem' = Ignore(mem, e.id)
               /\ \E saved \in BOOLEAN : Save(saved)
               /\ At(t, "next", Done(started))
               /\ UNCHANGED errors
            \/ /\ at[p] > 0 /\ ok[p]
               /\ mem' = Moved(mem, e.id, at[p])
               /\ \E saved \in BOOLEAN :
                    /\ IF at[p] # e.height THEN Save(saved)
                       ELSE saved /\ UNCHANGED <<disk, faults>>
                    /\ IF ~saved THEN At(t, "next", Done(started))
                       ELSE IF KindOf[p] # "erc20" THEN At(t, "origin", started)
                       ELSE Announce(t, started)
               /\ UNCHANGED errors
    /\ UNCHANGED <<chainVars, assigned, swept, first, locks, backendVars>>

\* is_pending_gas_tank_top_up asks for the transaction itself: an error ends the
\* entry, a top-up is ignored for good.  A node that has no such transaction (it was
\* replaced since the receipt, or another server answers) makes it a payment.
EntryOrigin(t) ==
    /\ pc[t] = "origin"
    /\ LET id == loc[t].entry.id
       IN \E answer \in {"error", "none", "found"} :
            /\ Error(answer = "error" \/ (answer = "none" /\ at[id[1]] > 0))
            /\ IF answer = "found" /\ IsTopUp(id[1])
               THEN /\ mem' = Ignore(mem, id)
                    /\ \E saved \in BOOLEAN : Save(saved)
                    /\ NextEntry(t)
               ELSE /\ IF answer = "error" THEN NextEntry(t) ELSE Announce(t, loc[t])
                    /\ UNCHANGED <<mem, disk, faults>>
            /\ unseen' = IF answer = "none" THEN unseen \cup {id} ELSE unseen
    /\ UNCHANGED <<chainVars, assigned, swept, first, locks, detected, credits>>

\* send_webhook: not delivered; delivered with the reply lost; delivered.
Outcomes == {"refused", "lost", "delivered"}
Reached(o) == o # "refused"

Recorded(o) == o = "delivered"

Outcome(o) == Error(o = "refused") /\ Fault(o = "lost")

SendDetected(t) ==
    /\ pc[t] = "detect"
    /\ \E o \in Outcomes :
         /\ Outcome(o)
         /\ detected' = IF Reached(o) THEN detected \cup {loc[t].entry.id} ELSE detected
         /\ IF Recorded(o) THEN At(t, "flag", loc[t]) ELSE NextEntry(t)
    /\ UNCHANGED <<chainVars, assigned, swept, first, mem, disk, locks, credits, unseen>>

\* detected_notified; a failed save ends the entry.
FlagDetected(t) ==
    /\ pc[t] = "flag"
    /\ mem' = Notified(mem, loc[t].entry.id)
    /\ \E saved \in BOOLEAN :
         /\ Save(saved)
         /\ IF saved /\ loc[t].deep THEN At(t, "sweep", loc[t]) ELSE NextEntry(t)
    /\ UNCHANGED <<chainVars, assigned, swept, first, locks, backendVars, errors>>

Held(a) == {p \in Payments : AddrOf[p] = a /\ at[p] > 0 /\ ok[p] /\ p \notin swept}
Coins(a) == {p \in Held(a) : KindOf[p] # "erc20"}
Tokens(a) == {p \in Held(a) : KindOf[p] = "erc20"}

\* sweep_native_from_address sends the whole balance, sweep_erc20_from_address
\* the amount of the entry (all payments here have the same) and then the coins
\* left over.
Transfers(a, token) ==
    IF token THEN {{q} \cup C : q \in Tokens(a), C \in {{}, Coins(a)}} ELSE {Coins(a)}

\* A transfer of tokens that are gone reverts.  An error, also one after the
\* transfer was sent, ends the entry before the credit.
Sweep(t) ==
    /\ pc[t] = "sweep"
    /\ LET a == AddrOf[loc[t].entry.id[1]]
           token == KindOf[loc[t].entry.id[1]] = "erc20"
           funds == IF token THEN Tokens(a) ELSE Coins(a)
       IN \/ /\ Error(funds # {} \/ ~token)
             /\ NextEntry(t)
             /\ UNCHANGED <<swept, faults>>
          \/ /\ token \/ funds # {}
             /\ Error(TRUE)
             /\ At(t, "credit", [loc[t] EXCEPT !.deferred = TRUE])
             /\ UNCHANGED <<swept, faults>>
          \/ /\ ~token /\ funds = {}
             /\ At(t, "credit", loc[t])
             /\ UNCHANGED <<swept, faults, errors>>
          \/ /\ funds # {}
             /\ \E S \in Transfers(a, token), reported \in BOOLEAN :
                  /\ swept' = swept \cup S
                  /\ Fault(~reported)
                  /\ IF reported THEN At(t, "credit", loc[t]) ELSE NextEntry(t)
             /\ UNCHANGED errors
    /\ UNCHANGED <<chainVars, assigned, first, mem, disk, locks, backendVars>>

SendCredited(t) ==
    /\ pc[t] = "credit"
    /\ ~Credited(mem, loc[t].entry.id)
    /\ \E o \in Outcomes :
         /\ Outcome(o)
         /\ credits' = IF Reached(o) THEN [credits EXCEPT ![loc[t].entry.id] = @ + 1]
                       ELSE credits
         /\ IF Recorded(o) THEN At(t, "record", loc[t]) ELSE NextEntry(t)
    /\ UNCHANGED <<chainVars, assigned, swept, first, mem, disk, locks, detected, unseen>>

\* credited_events.  A deferred sweep keeps the entry in the queue.
RecordCredit(t) ==
    /\ pc[t] = "record"
    /\ mem' = MarkCredited(mem, loc[t].entry.id)
    /\ \E saved \in BOOLEAN :
         /\ Save(saved)
         /\ IF saved /\ ~loc[t].deferred THEN At(t, "remove", loc[t]) ELSE NextEntry(t)
    /\ UNCHANGED <<chainVars, assigned, swept, first, locks, backendVars, errors>>

\* The retry of a sweep whose payment was credited before.
AlreadyCredited(t) ==
    /\ pc[t] = "credit"
    /\ Credited(mem, loc[t].entry.id)
    /\ IF loc[t].deferred THEN NextEntry(t) ELSE At(t, "remove", loc[t])
    /\ UNCHANGED <<chainVars, assigned, swept, first, mem, disk, locks, backendVars,
                   faults, errors>>

Remove(t) ==
    /\ pc[t] = "remove"
    /\ mem' = Drop(mem, loc[t].entry.id)
    /\ \E saved \in BOOLEAN : Save(saved)
    /\ NextEntry(t)
    /\ UNCHANGED <<chainVars, assigned, swept, first, locks, backendVars, errors>>

----------------------------------------------------------------------------
FirstFile ==
    [cursor |-> [k \in Kinds |-> NoBlock],
     pending |-> {[id |-> <<p, 0>>, height |-> 1, notified |-> FALSE] : p \in QueuedTopUps},
     credited |-> {}, ignored |-> {}]

Init ==
    /\ best = 1
    /\ at = [p \in Payments |-> IF p \in QueuedTopUps THEN 1 ELSE 0]
    /\ ok = [p \in Payments |-> TRUE]
    /\ idx = [p \in Payments |-> 0]
    /\ reorgs = 0
    /\ assigned = {AddrOf[p] : p \in QueuedTopUps}
    /\ swept = {}
    /\ first = 0
    /\ mem = FirstFile
    /\ disk = FirstFile
    /\ pc = [t \in Tasks |-> "idle"]
    /\ loc = [t \in Tasks |-> InitLocals]
    /\ scanLock = NoTask
    /\ creditLock = NoTask
    /\ detected = {}
    /\ credits = [id \in EventIds |-> 0]
    /\ unseen = {}
    /\ faults = 0
    /\ errors = 0

CreditStep(t) ==
    \/ CreditsLock(t) \/ CreditsDone(t) \/ EntryReceipt(t) \/ EntryOrigin(t)
    \/ SendDetected(t) \/ FlagDetected(t) \/ Sweep(t) \/ SendCredited(t) \/ RecordCredit(t)
    \/ AlreadyCredited(t) \/ Remove(t)
CycleStep(t) ==
    \/ CycleTip(t) \/ ReadReservations(t)
    \/ ScanLock(t) \/ SkipSource(t) \/ StartSource(t) \/ Fetch(t) \/ Enqueue(t)
    \/ Advance(t) \/ Maintain(t)
RecoverStep(t) == RecoverFetch(t) \/ RecoverTip(t)

Next ==
    \/ Mine \/ Reorg \/ Assign \/ Crash
    \/ \E t \in Tasks : CycleStep(t) \/ CreditStep(t)
    \/ \E t \in Callers : RecoverStep(t)

Spec == Init /\ [][Next]_vars

\* Blocks keep coming, the poll loop polls, the runtime runs tasks that are ready.
Fairness ==
    /\ WF_vars(Mine)
    /\ WF_vars(CycleStep(Poller) \/ CreditStep(Poller))
    /\ \A t \in Callers : WF_vars((pc[t] # "idle" /\ CycleStep(t)) \/ CreditStep(t) \/ RecoverTip(t))

FairSpec == Spec /\ Fairness

----------------------------------------------------------------------------
(* Properties *)

Labels == {"idle", "reservations", "scan", "source", "fetch", "enqueue", "advance",
           "maintain", "rtip", "credits", "next", "origin", "detect", "flag", "sweep", "credit",
           "record", "remove"}

\* The type invariant of the detector's memory, file and task locals.
TypeOK ==
    /\ best \in Nat
    /\ at \in [Payments -> Nat]
    /\ ok \in [Payments -> BOOLEAN]
    /\ idx \in [Payments -> {0, 1}]
    /\ reorgs \in Nat
    /\ assigned \subseteq Addrs
    /\ swept \subseteq Payments
    /\ first \in Int
    /\ mem \in Store
    /\ disk \in Store
    /\ pc \in [Tasks -> Labels]
    /\ loc \in [Tasks -> Locals]
    /\ scanLock \in Tasks \cup {NoTask}
    /\ creditLock \in Tasks \cup {NoTask}
    /\ detected \subseteq EventIds
    /\ credits \in [EventIds -> Nat]
    /\ unseen \subseteq EventIds
    /\ faults \in Nat
    /\ errors \in Nat

\* README: "An unavailable source cannot discard progress from the other
\* sources", and "Partial or missing receipts retain the cursor."  A payment to
\* an assigned address, below its source's cursor, is queued, credited or
\* ignored: in memory and in the state file, whatever failed in between.
Tracked(s) ==
    \A p \in Payments \ TopUps :
        (/\ KindOf[p] \in Sources
         /\ at[p] > first /\ at[p] > 0 /\ ok[p]
         /\ at[p] <= s.cursor[KindOf[p]]) => Known(s, Id(p))
NoPaymentSkipped == Tracked(mem) /\ Tracked(disk)

\* The backend receives the credit of an event id once, and once more at most
\* for each crash, failed save or lost reply: refused deliveries, deferred
\* sweeps, rescans, concurrent cycles and recoveries cause no second one.
CreditedOncePerFault == \A id \in EventIds : credits[id] <= 1 + faults

\* README: "payment_detected precedes payment_credited."
DetectedBeforeCredited == \A id \in EventIds : credits[id] > 0 => id \in detected

\* config.rs: "Confirmations required before sweeping and emitting
\* payment_credited."  A credited payment stays in the chain, succeeded and
\* confirmed, though tip, receipt and block are read at different moments.
CreditedConfirmed ==
    \A id \in EventIds : credits[id] > 0 =>
        /\ at[id[1]] > 0 /\ ok[id[1]]
        /\ best - at[id[1]] + 1 >= AtLeastOne(MinConf)

\* is_native_gas_tank_top_up: our own gas is nobody's deposit, also when an older
\* release queued it as one, its transaction was moved by a reorganisation or the user
\* asks to recover it.  The log says "Ignoring previously queued gas tank top-up".  It
\* is announced or credited only if the node had no transaction when asked for its
\* sender.  (The code takes such an answer for "no top-up", so the condition stays.)
TopUpsNotCredited ==
    \A id \in EventIds :
        (id[1] \in TopUps /\ (credits[id] > 0 \/ id \in detected)) => id \in unseen

\* A saved cursor never goes back, though cycles with an older tip finish late.
CursorsKept == [][\A k \in Kinds : disk'.cursor[k] >= disk.cursor[k]]_vars

\* recover.rs on a queued deposit: "payment_credited will arrive once the
\* confirmation threshold is met (the credit no longer waits for a successful
\* sweep - funds on our managed wallet are sufficient to credit the user)".
QueuedCredited ==
    \A p \in Payments :
        ((\E e \in mem.pending : e.id = Id(p)) /\ at[p] > 0 /\ ok[p] /\ p \notin TopUps)
            ~> (credits[Id(p)] > 0)

\* The outbox keeps the promise of PaymentOutbox: an event is sealed while its
\* credit is recorded in memory, and from the acknowledgement on.
Sealed == mem.credited \cup {loc[t].entry.id : t \in {t \in Tasks : pc[t] = "record"}}
Outbox == INSTANCE PaymentOutbox WITH Ids <- EventIds, sealed <- Sealed
OutboxSpec == Outbox!Spec

====
