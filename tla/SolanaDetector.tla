--------------------------- MODULE SolanaDetector ---------------------------
(***************************************************************************)
(* The Solana detector: concurrent scans of the assigned addresses with a  *)
(* cursor per account, the outbox with the owner check, sweep and credit,  *)
(* recover_txid, the orphan sweep of the start, and the state file.        *)
(*                                                                         *)
(* Source: src/src/solana.rs, src/src/main.rs.                             *)
(*                                                                         *)
(* Tasks: the poll loop, its concurrent scans, the loop that retries       *)
(* pending payments, and HTTP requests (claim, webhook push, recovery).    *)
(* A step ends where another task can run: at an RPC call, a webhook, a    *)
(* lock.  A memory update and the save that follows it are one step whose  *)
(* save may fail.  A slot holds at most one transaction of interest; it    *)
(* stands for its signature, and a transaction may pay several accounts.   *)
(***************************************************************************)
EXTENDS Integers, FiniteSets

CONSTANTS
    Payments,      \* balance changes of managed accounts: (signature, account)
    AddrOf,        \* the wallet each belongs to
    AssetOf,       \* Native, or the token whose ATA is paid
    AmountOf,      \* "none" (failed, outgoing), "dust" or "full"
    Native,        \* SOL
    Users,
    NoUser,        \* nobody holds the address
    Poller,        \* the task of run_solana_detector
    Workers,       \* its concurrent scans (SOLANA_SCAN_CONCURRENCY)
    Confirmers,    \* run_solana_pending_confirmation_loop
    Callers,       \* tasks of the HTTP server
    Requests,      \* what they are asked: "claim", "push", "recover"
    NoTask,        \* holder of a free lock
    NoPayment,
    MinConf,       \* min_confirmations
    TankEmpties,   \* the gas tank may be out of SOL
    MaxSlot,       \* bound: slots
    MaxCancels,    \* bound: cancel-all requests
    MaxFaults,     \* bound: crashes, failed saves, lost replies
    MaxErrors      \* bound: RPC errors, refused webhooks, deferred sweeps

Tasks == {Poller} \cup Workers \cup Confirmers \cup Callers
Scanners == Workers \cup Callers
Creditors == {Poller} \cup Confirmers \cup Callers
Addrs == {AddrOf[p] : p \in Payments}
Assets == {Native} \cup {AssetOf[p] : p \in Payments}
Acct(p) == <<AddrOf[p], AssetOf[p]>>
Accounts == Addrs \X Assets

ASSUME TaskAssumption ==
    /\ Poller \notin Workers \cup Confirmers \cup Callers
    /\ Workers \cap (Confirmers \cup Callers) = {}
    /\ Confirmers \cap Callers = {}
    /\ NoTask \notin Tasks
    /\ Requests \subseteq {"claim", "push", "recover"}

ASSUME PaymentAssumption ==
    /\ DOMAIN AddrOf = Payments /\ DOMAIN AssetOf = Payments
    /\ AmountOf \in [Payments -> {"none", "dust", "full"}]
    /\ NoUser \notin Users
    /\ NoPayment \notin Payments

ASSUME BoundAssumption ==
    /\ MinConf \in Nat
    /\ TankEmpties \in BOOLEAN
    /\ MaxSlot \in Nat /\ MaxCancels \in Nat /\ MaxFaults \in Nat /\ MaxErrors \in Nat

VARIABLES
    slot,        \* the confirmed slot
    at,          \* the slot of each payment, 0 while not made
    owner,       \* the assignment of each address (Redis)
    entitled,    \* who held the address of a payment when it was made, or later
    cancels,
    swept,       \* payments whose funds have left their wallet
    mem,         \* SolanaState of the running process
    disk,        \* the state file
    pc,          \* where each task is
    loc,         \* the local variables of each task
    scanLocks,   \* the lock of each address
    creditLock,
    detected,    \* payments whose payment_detected reached the backend
    credits,     \* how often payment_credited reached it, per payment
    creditedTo,  \* and the users it named
    faults,
    errors

chainVars == <<slot, at>>
userVars == <<owner, entitled, cancels>>
locks == <<scanLocks, creditLock>>
backendVars == <<detected, credits, creditedTo>>
vars == <<chainVars, userVars, swept, mem, disk, pc, loc, locks, backendVars,
          faults, errors>>

----------------------------------------------------------------------------
(* Data *)

AtLeastOne(n) == IF n > 1 THEN n ELSE 1

Entry == [p : Payments, user : Users, notified : BOOLEAN]
NoEntry == [p |-> NoPayment, user |-> NoUser, notified |-> FALSE]
Reservation == [addr : Addrs, user : Users]

\* SolanaState.  A cursor is the slot of the last processed signature.
Store == [cursor : [Accounts -> Nat], pending : SUBSET Entry, credited : SUBSET Payments]
FirstFile == [cursor |-> [a \in Accounts |-> 0], pending |-> {}, credited |-> {}]

Credited(s, p) == p \in s.credited
Queued(s, p) == \E e \in s.pending : e.p = p

Known(s, p) == Credited(s, p) \/ Queued(s, p)

Push(s, p, user) ==
    IF Known(s, p) THEN s
    ELSE [s EXCEPT !.pending = @ \cup {[p |-> p, user |-> user, notified |-> FALSE]}]
SetCursor(s, p) == [s EXCEPT !.cursor[Acct(p)] = at[p]]
Notified(s, p) ==
    [s EXCEPT !.pending = {IF e.p = p THEN [e EXCEPT !.notified = TRUE] ELSE e : e \in @}]
\* Mutant: only the queue remembers.
MarkNothing(s, p) == s
MarkCredited(s, p) == [s EXCEPT !.credited = @ \cup {p}]
Drop(s, p) == [s EXCEPT !.pending = {e \in @ : e.p # p}]

Confirmations(now, p) == IF now >= at[p] THEN now - at[p] + 1 ELSE 0
Deep(now, p) == Confirmations(now, p) >= AtLeastOne(MinConf)

\* All assignments in Redis.
Reservations == {r \in Reservation : owner[r.addr] = r.user}

\* get_new_signatures.  The pages go back from the newest signature to the
\* cursor, so what arrives between two of them is in none.  Every node lists the
\* cursor's signature here; the code takes the whole history of one that does not
\* (pruned, or behind) for new.
NewSignatures(a) == {p \in Payments : Acct(p) = a /\ at[p] > mem.cursor[a]}
\* Mutant: in the order of the pages.
NewestFirst(P) == CHOOSE p \in P : \A q \in P : at[p] >= at[q]
Oldest(P) == CHOOSE p \in P : \A q \in P : at[p] <= at[q]

Kinds == {"none", "cycle", "claim", "push", "recover", "confirm"}
Locals == [kind : Kinds, slot : Nat, price : BOOLEAN, scans : SUBSET Reservation,
           res : Reservation \cup {NoEntry}, assets : SUBSET Assets,
           sigs : SUBSET Payments, failed : BOOLEAN, todo : SUBSET Entry,
           entry : Entry \cup {NoEntry}, deferred : BOOLEAN, orphans : SUBSET Accounts]
InitLocals == [kind |-> "none", slot |-> 0, price |-> FALSE, scans |-> {},
               res |-> NoEntry, assets |-> {}, sigs |-> {}, failed |-> FALSE,
               todo |-> {}, entry |-> NoEntry, deferred |-> FALSE, orphans |-> {}]

----------------------------------------------------------------------------
(* Steps that several actions share *)

Goto(t, label) == pc' = [pc EXCEPT ![t] = label]
Set(t, l) == loc' = [loc EXCEPT ![t] = l]
At(t, label, l) == Goto(t, label) /\ Set(t, l)
Idle(t) == At(t, "idle", InitLocals)

\* A budgeted fault or error, or none.
Fault(happens) == /\ happens => faults < MaxFaults
                  /\ faults' = IF happens THEN faults + 1 ELSE faults
Error(happens) == /\ happens => errors < MaxErrors
                  /\ errors' = IF happens THEN errors + 1 ELSE errors

\* persist_state: the file is replaced by the memory state, or left as it was.
Save(saved) == /\ disk' = IF saved THEN mem' ELSE disk
               /\ Fault(~saved)

\* The account under scan: SOL first, then the tokens.
Scanned(l) == IF Native \in l.assets THEN Native ELSE CHOOSE a \in l.assets : TRUE
Account(l) == <<l.res.addr, Scanned(l)>>

\* An account is done, with or without an error; the other accounts of the
\* address go on.  After the last one the lock is released: a concurrent scan
\* of the poll loop ends, a request goes to its next address.
AccountDone(t, failed) ==
    LET l == [loc[t] EXCEPT !.assets = @ \ {Scanned(loc[t])}, !.sigs = {},
                            !.failed = @ \/ failed]
    IN IF l.assets # {} THEN At(t, "list", l) /\ UNCHANGED scanLocks
       ELSE /\ scanLocks' = [scanLocks EXCEPT ![l.res.addr] = NoTask]
            /\ IF t \in Workers THEN Idle(t)
               ELSE At(t, "scan", [l EXCEPT !.res = NoEntry])

----------------------------------------------------------------------------
(* The chain, the users, the process (external) *)

\* A slot passes.  It may hold a transaction, which pays each account once.
\* Payers know addresses that are, or once were, assigned.
Payable == {p \in Payments : at[p] = 0 /\ (owner[AddrOf[p]] # NoUser \/ cancels > 0)}

NewSlot ==
    /\ slot < MaxSlot
    /\ slot' = slot + 1
    /\ \E T \in SUBSET Payable :
         /\ \A p, q \in T : Acct(p) = Acct(q) => p = q
         /\ at' = [p \in Payments |-> IF p \in T THEN slot + 1 ELSE at[p]]
         /\ entitled' = [p \in Payments |->
                           IF p \notin T THEN entitled[p]
                           ELSE IF owner[AddrOf[p]] = NoUser THEN Users
                           ELSE {owner[AddrOf[p]]}]
    /\ UNCHANGED <<owner, cancels, swept, mem, disk, pc, loc, locks, backendVars,
                   faults, errors>>

\* What the pool does to its assignments meanwhile; a user may hold several.
Book == INSTANCE AddressBook

\* An address goes to a user.
Assign ==
    /\ \E r \in Reservation :
         /\ Book!Claim(r.addr, r.user) \/ Book!WriteBack(r.addr, r.user)
         /\ entitled' = [p \in Payments |->
                           IF AddrOf[p] = r.addr /\ at[p] > 0 THEN entitled[p] \cup {r.user}
                           ELSE entitled[p]]
    /\ UNCHANGED <<chainVars, swept, mem, disk, pc, loc, locks, backendVars,
                   faults, errors>>

\* /admin/reservations/cancel-all
CancelAll ==
    /\ cancels < MaxCancels
    /\ Book!Delete
    /\ UNCHANGED <<chainVars, entitled, swept, mem, disk, pc, loc, locks, backendVars,
                   faults, errors>>

\* The process dies; a new one starts from the state file.
Crash ==
    /\ Fault(TRUE)
    /\ mem' = disk
    /\ pc' = [t \in Tasks |-> IF t = Poller THEN "boot" ELSE "idle"]
    /\ loc' = [t \in Tasks |-> InitLocals]
    /\ scanLocks' = [a \in Addrs |-> NoTask]
    /\ creditLock' = NoTask
    /\ UNCHANGED <<chainVars, userVars, swept, disk, backendVars, errors>>

----------------------------------------------------------------------------
(* sweep_orphan_balances, once before the poll loop *)

\* Wallets that are assigned are left alone, as Redis lists them now.
BootRead ==
    /\ pc[Poller] = "boot"
    /\ \E error \in BOOLEAN :
         /\ Error(error)
         /\ IF error THEN Idle(Poller)
            ELSE At(Poller, "orphans", [InitLocals EXCEPT !.orphans =
                      {a \in Accounts : owner[a[1]] = NoUser}])
    /\ UNCHANGED <<chainVars, userVars, swept, mem, disk, locks, backendVars, faults>>

Funds(a) == {p \in Payments : Acct(p) = a /\ at[p] > 0 /\ AmountOf[p] # "none" /\ p \notin swept}

\* The account is empty, swept, or left for good or ill.
BootSweep ==
    /\ pc[Poller] = "orphans"
    /\ \E a \in loc[Poller].orphans :
         /\ At(Poller, "orphans", [loc[Poller] EXCEPT !.orphans = @ \ {a}])
         /\ \/ swept' = swept \cup Funds(a) /\ UNCHANGED errors
            \/ Funds(a) # {} /\ Error(TRUE) /\ UNCHANGED swept
    /\ UNCHANGED <<chainVars, userVars, mem, disk, locks, backendVars, faults>>

BootDone ==
    /\ pc[Poller] = "orphans"
    /\ loc[Poller].orphans = {}
    /\ Idle(Poller)
    /\ UNCHANGED <<chainVars, userVars, swept, mem, disk, locks, backendVars, faults, errors>>

----------------------------------------------------------------------------
(* process_cycle, up to the credits *)

ReadReservations ==
    /\ pc[Poller] = "idle"
    /\ \E error \in BOOLEAN :
         /\ Error(error)
         /\ IF error THEN Idle(Poller)
            ELSE At(Poller, "slot", [InitLocals EXCEPT !.kind = "cycle", !.scans = Reservations])
    /\ UNCHANGED <<chainVars, userVars, swept, mem, disk, locks, backendVars, faults>>

\* get_current_slot ends the cycle or request if it fails, the price only
\* switches the dust filter off.
ReadSlot(t) ==
    /\ pc[t] = "slot"
    /\ \E error, price \in BOOLEAN :
         /\ Error(error)
         /\ IF error THEN Idle(t)
            ELSE At(t, "scan", [loc[t] EXCEPT !.slot = slot, !.price = price])
    /\ UNCHANGED <<chainVars, userVars, swept, mem, disk, locks, backendVars, faults>>

\* scan_reservations: a free worker takes the next address.
StartScan(w) ==
    /\ pc[w] = "idle"
    /\ pc[Poller] = "scan"
    /\ \E r \in loc[Poller].scans :
         /\ pc' = [pc EXCEPT ![w] = "lock"]
         /\ loc' = [loc EXCEPT ![Poller].scans = @ \ {r},
                               ![w] = [InitLocals EXCEPT !.kind = "cycle", !.res = r,
                                                         !.price = loc[Poller].price]]
    /\ UNCHANGED <<chainVars, userVars, swept, mem, disk, locks, backendVars, faults, errors>>

\* The price and the result of the scans are not used again.
AfterScans(l) == [l EXCEPT !.price = FALSE, !.failed = FALSE]

\* All scans have ended, failed ones too.  The slot is read again if possible.
ScansDone ==
    /\ pc[Poller] = "scan"
    /\ loc[Poller].scans = {}
    /\ \A w \in Workers : pc[w] = "idle"
    /\ \E error \in BOOLEAN :
         /\ Error(error)
         /\ At(Poller, "credits", AfterScans([loc[Poller] EXCEPT
                                                  !.slot = IF error THEN @ ELSE slot]))
    /\ UNCHANGED <<chainVars, userVars, swept, mem, disk, locks, backendVars, faults>>

\* maybe_maintain_gas_tank records the time of a maintenance that was due; an
\* error restarts the loop.
Maintain ==
    /\ pc[Poller] = "gas"
    /\ UNCHANGED mem
    /\ \/ UNCHANGED <<disk, faults>>
       \/ \E saved \in BOOLEAN : Save(saved)
    /\ Idle(Poller)
    /\ UNCHANGED <<chainVars, userVars, swept, locks, backendVars, errors>>

----------------------------------------------------------------------------
(* claim_for_user, process_address_set_now, confirm_pending_payments *)

Claim(t) ==
    /\ pc[t] = "idle"
    /\ \E r \in Reservations :
         At(t, "slot", [InitLocals EXCEPT !.kind = "claim", !.scans = {r}])
    /\ UNCHANGED <<chainVars, userVars, swept, mem, disk, locks, backendVars, faults, errors>>

\* A webhook push names some of the watched accounts.
PushSeen(t) ==
    /\ pc[t] = "idle"
    /\ \E R \in SUBSET Reservations :
         /\ R # {}
         /\ At(t, "slot", [InitLocals EXCEPT !.kind = "push", !.scans = R])
    /\ UNCHANGED <<chainVars, userVars, swept, mem, disk, locks, backendVars, faults, errors>>

\* The addresses of a request are scanned one after the other.  A claim ends
\* with the error of its scan, a push goes on.
NextScan(t) ==
    /\ pc[t] = "scan"
    /\ IF loc[t].failed /\ loc[t].kind = "claim" THEN Idle(t)
       ELSE IF loc[t].scans = {} THEN At(t, "credits", AfterScans(loc[t]))
       ELSE \E r \in loc[t].scans :
              At(t, "lock", [loc[t] EXCEPT !.scans = @ \ {r}, !.res = r])
    /\ UNCHANGED <<chainVars, userVars, swept, mem, disk, locks, backendVars, faults, errors>>

ConfirmPending(t) ==
    /\ pc[t] = "idle"
    /\ mem.pending # {}
    /\ \E error \in BOOLEAN :
         /\ Error(error)
         /\ IF error THEN Idle(t)
            ELSE At(t, "credits", [InitLocals EXCEPT !.kind = "confirm", !.slot = slot])
    /\ UNCHANGED <<chainVars, userVars, swept, mem, disk, locks, backendVars, faults>>

----------------------------------------------------------------------------
(* process_reservation: the accounts of an address, under its lock *)

\* Mutant: two scans of an address at once.
LockAddressNever(t) ==
    /\ pc[t] = "lock"
    /\ At(t, "list", [loc[t] EXCEPT !.assets = Assets])
    /\ UNCHANGED <<chainVars, userVars, swept, mem, disk, locks, backendVars, faults, errors>>
LockAddress(t) ==
    /\ pc[t] = "lock"
    /\ scanLocks[loc[t].res.addr] = NoTask
    /\ scanLocks' = [scanLocks EXCEPT ![loc[t].res.addr] = t]
    /\ At(t, "list", [loc[t] EXCEPT !.assets = Assets])
    /\ UNCHANGED <<chainVars, userVars, swept, mem, disk, creditLock, backendVars, faults, errors>>

ListSignatures(t) ==
    /\ pc[t] = "list"
    /\ LET new == NewSignatures(Account(loc[t]))
       IN \/ Error(TRUE) /\ AccountDone(t, TRUE)
          \/ /\ UNCHANGED errors
             /\ IF new = {} THEN AccountDone(t, FALSE)
                ELSE At(t, "load", [loc[t] EXCEPT !.sigs = new]) /\ UNCHANGED scanLocks
    /\ UNCHANGED <<chainVars, userVars, swept, mem, disk, creditLock, backendVars, faults>>

\* What pays nothing is ignored, and so is dust at a known price; the price of a
\* token is looked up now.
Ignored(p, l) ==
    AmountOf[p] = "none" \/ (AmountOf[p] = "dust" /\ (AssetOf[p] = Native => l.price))
Accepted(p, l) ==
    AmountOf[p] = "full" \/ (AmountOf[p] = "dust" /\ (AssetOf[p] = Native => ~l.price))

\* get_transaction and queue_payment.  A transaction that is missing or has no
\* metadata ends the account, as does a failed save; one that is ignored only
\* moves the cursor.  A known payment is saved too.
LoadTransaction(t) ==
    /\ pc[t] = "load"
    /\ LET p == Oldest(loc[t].sigs)
       IN \/ /\ Error(TRUE)
             /\ AccountDone(t, TRUE)
             /\ UNCHANGED <<mem, disk, faults>>
          \/ /\ Ignored(p, loc[t])
             /\ At(t, "cursor", loc[t])
             /\ UNCHANGED <<mem, disk, scanLocks, faults, errors>>
          \/ /\ Accepted(p, loc[t])
             /\ mem' = Push(mem, p, loc[t].res.user)
             /\ \E saved \in BOOLEAN :
                  /\ Save(saved)
                  /\ IF saved THEN At(t, "cursor", loc[t]) /\ UNCHANGED scanLocks
                     ELSE AccountDone(t, TRUE)
             /\ UNCHANGED errors
    /\ UNCHANGED <<chainVars, userVars, swept, creditLock, backendVars>>

\* update_last_processed_signature
MoveCursor(t) ==
    /\ pc[t] = "cursor"
    /\ LET p == Oldest(loc[t].sigs)
       IN /\ mem' = SetCursor(mem, p)
          /\ \E saved \in BOOLEAN :
               /\ Save(saved)
               /\ IF saved /\ loc[t].sigs # {p}
                  THEN At(t, "load", [loc[t] EXCEPT !.sigs = @ \ {p}]) /\ UNCHANGED scanLocks
                  ELSE AccountDone(t, ~saved)
    /\ UNCHANGED <<chainVars, userVars, swept, creditLock, backendVars, errors>>

----------------------------------------------------------------------------
(* recover_txid *)

\* What recover_txid finds in a transaction: SOL before any token.
Recovered(p) ==
    /\ at[p] > 0 /\ AmountOf[p] # "none"
    /\ AssetOf[p] = Native \/
       ~ \E q \in Payments :
           AddrOf[q] = AddrOf[p] /\ AssetOf[q] = Native /\ at[q] = at[p] /\ AmountOf[q] # "none"

\* The user's assignment and the transaction, which pays its address.
\* Requests that change nothing are not steps.
Recover(t) ==
    /\ pc[t] = "idle"
    /\ \E r \in Reservations, p \in Payments :
         /\ AddrOf[p] = r.addr /\ Recovered(p)
         /\ At(t, "recover", [InitLocals EXCEPT !.kind = "recover", !.res = r, !.sigs = {p}])
    /\ UNCHANGED <<chainVars, userVars, swept, mem, disk, locks, backendVars, faults, errors>>

\* enqueue_recovered_native, enqueue_recovered_token.
RecoverQueue(t) ==
    /\ pc[t] = "recover"
    /\ mem' = Push(mem, Oldest(loc[t].sigs), loc[t].res.user)
    /\ \E saved \in BOOLEAN :
         /\ Save(saved)
         /\ IF saved THEN At(t, "rslot", [loc[t] EXCEPT !.res = NoEntry, !.sigs = {}])
            ELSE Idle(t)
    /\ UNCHANGED <<chainVars, userVars, swept, locks, backendVars, errors>>

\* run_recovery_credit_cycle
RecoverSlot(t) ==
    /\ pc[t] = "rslot"
    /\ \E error \in BOOLEAN :
         /\ Error(error)
         /\ IF error THEN Idle(t) ELSE At(t, "credits", [loc[t] EXCEPT !.slot = slot])
    /\ UNCHANGED <<chainVars, userVars, swept, mem, disk, locks, backendVars, faults>>

----------------------------------------------------------------------------
(* process_credits *)

\* The end of process_credits, and of an entry.
AfterCredits(t) == IF loc[t].kind = "cycle" THEN At(t, "gas", InitLocals) ELSE Idle(t)
NextEntry(t, l) == At(t, "next", [l EXCEPT !.entry = NoEntry, !.deferred = FALSE])

\* Mutant: every task works on the queue at once.
CreditsNoLock(t) ==
    /\ pc[t] = "credits"
    /\ UNCHANGED mem
    /\ \E saved \in BOOLEAN :
         /\ Save(saved)
         /\ IF saved THEN At(t, "next", [loc[t] EXCEPT !.todo = mem.pending])
            ELSE AfterCredits(t)
    /\ UNCHANGED <<chainVars, userVars, swept, locks, backendVars, errors>>

\* Under credit_lock, save, then copy the queue.
CreditsLock(t) ==
    /\ pc[t] = "credits"
    /\ creditLock = NoTask
    /\ UNCHANGED mem
    /\ \E saved \in BOOLEAN :
         /\ Save(saved)
         /\ IF saved
            THEN creditLock' = t /\ At(t, "next", [loc[t] EXCEPT !.todo = mem.pending])
            ELSE UNCHANGED creditLock /\ AfterCredits(t)
    /\ UNCHANGED <<chainVars, userVars, swept, scanLocks, backendVars, errors>>

CreditsDone(t) ==
    /\ pc[t] = "next"
    /\ loc[t].todo = {}
    /\ creditLock' = NoTask
    /\ AfterCredits(t)
    /\ UNCHANGED <<chainVars, userVars, swept, mem, disk, scanLocks, backendVars, faults, errors>>

\* send_webhook: not delivered; delivered with the reply lost; delivered.
Outcomes == {"refused", "lost", "delivered"}
Reached(o) == o # "refused"
\* Mutant: any reply will do.
RecordedAnyway(o) == o \in Outcomes
Recorded(o) == o = "delivered"
Outcome(o) == Error(o = "refused") /\ Fault(o = "lost")

\* After the detection: too young, a sweep to retry, or a credit to check.
AfterDetection(t, l) ==
    IF ~Deep(l.slot, l.entry.p) THEN NextEntry(t, l)
    ELSE At(t, IF Credited(mem, l.entry.p) THEN "sweep" ELSE "owner", l)

\* process_credit_entry.  An entry that is not yet announced comes to nothing
\* else when the announcement fails.
SendDetected(t) ==
    /\ pc[t] = "next"
    /\ \E e \in loc[t].todo, o \in Outcomes :
         LET l == [loc[t] EXCEPT !.todo = @ \ {e}, !.entry = e]
         IN /\ ~e.notified
            /\ Outcome(o)
            /\ detected' = IF Reached(o) THEN detected \cup {e.p} ELSE detected
            /\ IF Recorded(o) THEN At(t, "flag", l) ELSE NextEntry(t, l)
    /\ UNCHANGED <<chainVars, userVars, swept, mem, disk, locks, credits, creditedTo>>

AlreadyDetected(t) ==
    /\ pc[t] = "next"
    /\ \E e \in loc[t].todo :
         /\ e.notified
         /\ AfterDetection(t, [loc[t] EXCEPT !.todo = @ \ {e}, !.entry = e])
    /\ UNCHANGED <<chainVars, userVars, swept, mem, disk, locks, backendVars, faults, errors>>

\* detected_notified; a failed save ends the entry.
FlagDetected(t) ==
    /\ pc[t] = "flag"
    /\ mem' = Notified(mem, loc[t].entry.p)
    /\ \E saved \in BOOLEAN :
         /\ Save(saved)
         /\ IF saved THEN AfterDetection(t, loc[t]) ELSE NextEntry(t, loc[t])
    /\ UNCHANGED <<chainVars, userVars, swept, locks, backendVars, errors>>

\* Mutant: the assignment is not asked.
NoOwnerCheck(t) ==
    /\ pc[t] = "owner"
    /\ At(t, "sweep", loc[t])
    /\ UNCHANGED <<chainVars, userVars, swept, mem, disk, locks, backendVars, faults, errors>>
\* An address that belongs to another user now keeps the entry in the queue.
\* One that belongs to nobody, or an unknown answer, lets it through.
CheckOwner(t) ==
    /\ pc[t] = "owner"
    /\ LET now == owner[AddrOf[loc[t].entry.p]]
       IN \/ Error(TRUE) /\ At(t, "sweep", loc[t])
          \/ /\ UNCHANGED errors
             /\ IF now \in Users \ {loc[t].entry.user} THEN NextEntry(t, loc[t])
                ELSE At(t, "sweep", loc[t])
    /\ UNCHANGED <<chainVars, userVars, swept, mem, disk, locks, backendVars, faults>>

\* What both sweeps share: an error ends the entry, fees that are too high defer
\* the sweep, or the whole balance is transferred; then the answer may be lost.
Transferred(t, funds) ==
    \/ /\ Error(TRUE)
       /\ NextEntry(t, loc[t])
       /\ UNCHANGED <<swept, faults>>
    \/ /\ funds # {}
       /\ Error(TRUE)
       /\ At(t, "credit", [loc[t] EXCEPT !.deferred = TRUE])
       /\ UNCHANGED <<swept, faults>>
    \/ /\ funds # {}
       /\ swept' = swept \cup funds
       /\ \E reported \in BOOLEAN :
            /\ Fault(~reported)
            /\ IF reported THEN At(t, "credit", loc[t]) ELSE NextEntry(t, loc[t])
       /\ UNCHANGED errors

\* is_account_drained_error: what the RPC calls drained counts as swept before.
\* It says the same of a gas tank that cannot pay the fee of a token transfer.
Drained(asset) == TankEmpties /\ asset # Native

\* sweep_native_sol_from_address: an empty wallet counts as swept.
SweepNative(t) ==
    /\ pc[t] = "sweep"
    /\ AssetOf[loc[t].entry.p] = Native
    /\ LET funds == Funds(Acct(loc[t].entry.p))
       IN \/ /\ funds = {}
             /\ At(t, "credit", loc[t])
             /\ UNCHANGED <<swept, faults, errors>>
          \/ Transferred(t, funds)
    /\ UNCHANGED <<chainVars, userVars, mem, disk, locks, backendVars>>

\* sweep_token_from_address
SweepToken(t) ==
    /\ pc[t] = "sweep"
    /\ AssetOf[loc[t].entry.p] # Native
    /\ LET funds == Funds(Acct(loc[t].entry.p))
       IN \/ /\ funds = {} \/ Drained(AssetOf[loc[t].entry.p])
             /\ At(t, "credit", loc[t])
             /\ UNCHANGED <<swept, faults, errors>>
          \/ Transferred(t, funds)
    /\ UNCHANGED <<chainVars, userVars, mem, disk, locks, backendVars>>

SendCredited(t) ==
    /\ pc[t] = "credit"
    /\ LET e == loc[t].entry
       IN /\ ~Credited(mem, e.p)
          /\ \E o \in Outcomes :
               /\ Outcome(o)
               /\ credits' = IF Reached(o) THEN [credits EXCEPT ![e.p] = @ + 1] ELSE credits
               /\ creditedTo' = IF Reached(o) THEN creditedTo \cup {<<e.p, e.user>>}
                                ELSE creditedTo
               /\ IF Recorded(o) THEN At(t, "record", loc[t]) ELSE NextEntry(t, loc[t])
    /\ UNCHANGED <<chainVars, userVars, swept, mem, disk, locks, detected>>

\* Mutant: a deferred sweep does not keep the entry.
RecordAndRemove(t) ==
    /\ pc[t] = "record"
    /\ mem' = MarkCredited(mem, loc[t].entry.p)
    /\ \E saved \in BOOLEAN :
         /\ Save(saved)
         /\ IF saved THEN At(t, "remove", loc[t]) ELSE NextEntry(t, loc[t])
    /\ UNCHANGED <<chainVars, userVars, swept, locks, backendVars, errors>>
\* credited_payments.  A deferred sweep keeps the entry in the queue.
RecordCredit(t) ==
    /\ pc[t] = "record"
    /\ mem' = MarkCredited(mem, loc[t].entry.p)
    /\ \E saved \in BOOLEAN :
         /\ Save(saved)
         /\ IF saved /\ ~loc[t].deferred THEN At(t, "remove", loc[t])
            ELSE NextEntry(t, loc[t])
    /\ UNCHANGED <<chainVars, userVars, swept, locks, backendVars, errors>>

\* The retry of a sweep whose payment was credited before.
AlreadyCredited(t) ==
    /\ pc[t] = "credit"
    /\ Credited(mem, loc[t].entry.p)
    /\ IF loc[t].deferred THEN NextEntry(t, loc[t]) ELSE At(t, "remove", loc[t])
    /\ UNCHANGED <<chainVars, userVars, swept, mem, disk, locks, backendVars, faults, errors>>

Remove(t) ==
    /\ pc[t] = "remove"
    /\ mem' = Drop(mem, loc[t].entry.p)
    /\ \E saved \in BOOLEAN : Save(saved)
    /\ NextEntry(t, loc[t])
    /\ UNCHANGED <<chainVars, userVars, swept, locks, backendVars, errors>>

----------------------------------------------------------------------------
Init ==
    /\ slot = 0
    /\ at = [p \in Payments |-> 0]
    /\ owner = [a \in Addrs |-> NoUser]
    /\ entitled = [p \in Payments |-> {}]
    /\ cancels = 0
    /\ swept = {}
    /\ mem = FirstFile
    /\ disk = FirstFile
    /\ pc = [t \in Tasks |-> IF t = Poller THEN "boot" ELSE "idle"]
    /\ loc = [t \in Tasks |-> InitLocals]
    /\ scanLocks = [a \in Addrs |-> NoTask]
    /\ creditLock = NoTask
    /\ detected = {}
    /\ credits = [p \in Payments |-> 0]
    /\ creditedTo = {}
    /\ faults = 0
    /\ errors = 0

BootStep == BootRead \/ BootSweep \/ BootDone
CycleStep == ReadReservations \/ ReadSlot(Poller) \/ ScansDone \/ Maintain
ScanStep(t) ==
    \/ LockAddress(t) \/ ListSignatures(t) \/ LoadTransaction(t) \/ MoveCursor(t)
CreditStep(t) ==
    \/ CreditsLock(t) \/ CreditsDone(t) \/ SendDetected(t) \/ AlreadyDetected(t)
    \/ FlagDetected(t) \/ CheckOwner(t) \/ SweepNative(t) \/ SweepToken(t)
    \/ SendCredited(t) \/ RecordCredit(t) \/ AlreadyCredited(t) \/ Remove(t)
Request(t) ==
    \/ "claim" \in Requests /\ Claim(t)
    \/ "push" \in Requests /\ PushSeen(t)
    \/ "recover" \in Requests /\ Recover(t)
RequestStep(t) == ReadSlot(t) \/ NextScan(t) \/ RecoverQueue(t) \/ RecoverSlot(t)

Next ==
    \/ NewSlot \/ Assign \/ CancelAll \/ Crash
    \/ BootStep \/ CycleStep
    \/ \E t \in Workers : StartScan(t)
    \/ \E t \in Confirmers : ConfirmPending(t)
    \/ \E t \in Callers : Request(t) \/ RequestStep(t)
    \/ \E t \in Scanners : ScanStep(t)
    \/ \E t \in Creditors : CreditStep(t)

Spec == Init /\ [][Next]_vars

\* Slots pass, the loops run, the runtime runs tasks that are ready.  A lock
\* is strongly fair: tokio::sync::Mutex serves its waiters in order.
Fairness ==
    /\ WF_vars(NewSlot)
    /\ WF_vars(BootStep \/ CycleStep \/ CreditStep(Poller))
    /\ \A t \in Workers : WF_vars(StartScan(t) \/ ScanStep(t))
    /\ \A t \in Confirmers : WF_vars(ConfirmPending(t) \/ CreditStep(t))
    /\ \A t \in Callers : WF_vars(RequestStep(t) \/ ScanStep(t) \/ CreditStep(t))
    /\ \A t \in Scanners : SF_vars(LockAddress(t))
    /\ \A t \in Creditors : SF_vars(CreditsLock(t))

FairSpec == Spec /\ Fairness

----------------------------------------------------------------------------
(* Properties *)

Labels == {"boot", "orphans", "idle", "slot", "scan", "lock", "list", "load", "cursor",
           "recover", "rslot", "credits", "next", "flag", "owner",
           "sweep", "credit", "record", "remove", "gas"}

\* The type invariant of the detector's memory, file and task locals.
TypeOK ==
    /\ slot \in Nat
    /\ at \in [Payments -> Nat]
    /\ owner \in [Addrs -> Users \cup {NoUser}]
    /\ entitled \in [Payments -> SUBSET Users]
    /\ cancels \in Nat
    /\ swept \subseteq Payments
    /\ mem \in Store
    /\ disk \in Store
    /\ pc \in [Tasks -> Labels]
    /\ loc \in [Tasks -> Locals]
    /\ scanLocks \in [Addrs -> Tasks \cup {NoTask}]
    /\ creditLock \in Tasks \cup {NoTask}
    /\ detected \subseteq Payments
    /\ credits \in [Payments -> Nat]
    /\ creditedTo \subseteq Payments \X Users
    /\ faults \in Nat
    /\ errors \in Nat

\* README: "A missing transaction stops that cursor for retry."  A deposit at or
\* below the cursor of its account is queued or credited, in memory and in the
\* state file, whatever failed and whoever scanned.
Tracked(s) ==
    \A p \in Payments :
        (AmountOf[p] = "full" /\ at[p] > 0 /\ at[p] <= s.cursor[Acct(p)]) => Known(s, p)
NoDepositSkipped == Tracked(mem) /\ Tracked(disk)

\* README: "Failed or deferred sweeps remain queued."  A credited payment whose
\* funds are still in its wallet stays in the queue, in memory and in the file.
Retried(s) == \A p \in s.credited : p \in swept \/ Queued(s, p)
SweptOrQueued == Retried(mem) /\ Retried(disk)

\* solana.rs: "make sure the address still belongs to the user_id captured at
\* detection time. If the assignment was rewritten (admin cancel-all + reclaim
\* [...]) we'd be about to credit the wrong user."  Nobody is credited with a
\* payment made after the address had gone to someone else, as long as Redis
\* answers: "Failed to verify Redis assignment [...] before credit (continuing)",
\* and the address is not taken away twice: from nobody's address the entry of
\* the user "captured at detection time" goes through.
NotToEarlierHolder ==
    (errors = 0 /\ cancels <= 1) => \A c \in creditedTo : c[2] \in entitled[c[1]]

\* A saved cursor never goes back to signatures that were processed, as long as the
\* nodes list the one it points to: concurrent scans of one address are serialized.
CursorsKept == [][\A a \in Accounts : disk'.cursor[a] >= disk.cursor[a]]_vars

\* However often an address changes hands and whatever is lost, a payment is
\* credited to one user.
OneBeneficiary == \A c, d \in creditedTo : c[1] = d[1] => c = d

\* The backend receives a credit once, and once more at most for each crash,
\* failed save or lost reply, and never before payment_detected.
CreditedOncePerFault ==
    \A p \in Payments : credits[p] <= 1 + faults /\ (credits[p] > 0 => p \in detected)

\* The outbox keeps the promise of PaymentOutbox: a payment is sealed while its
\* credit is recorded in memory, and from the acknowledgement on.
Sealed == mem.credited \cup {loc[t].entry.p : t \in {t \in Creditors : pc[t] = "record"}}
Outbox == INSTANCE PaymentOutbox WITH Ids <- Payments, sealed <- Sealed
OutboxSpec == Outbox!Spec

\* README: "failed deliveries remain pending" and "Failed or deferred sweeps
\* remain queued": every deposit to an assigned address is credited, if the
\* chain goes on long enough to confirm it and nobody cancels the assignments.
DepositCredited ==
    \A p \in Payments :
        (at[p] \in 1 .. MaxSlot - AtLeastOne(MinConf) + 1 /\ AmountOf[p] = "full"
            /\ owner[AddrOf[p]] # NoUser) ~> (credits[p] > 0 \/ cancels > 0)

====
