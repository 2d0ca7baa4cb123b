# TLA+ models and proofs for crypto_payment_detector

The repository is a Rust service that watches Bitcoin, Litecoin, Solana,
Ethereum and Base for payments to addresses it gave to users. Every payment
goes through a durable queue, is announced to a merchant backend by two webhooks
(`payment_detected`, `payment_credited`), and the money is swept to a ledger.
This directory holds TLA+ modules that model the parts of it where an order of
steps nobody wrote a test for can lose or double a payment, the TLC
configurations that check them on small instances, and proofs checked by TLAPS.

    tlc -workers 2 -config utxo_outbox.cfg MCUtxo      # one of the runs below
    tlapm UtxoDetectorProofs.tla                       # the proofs, in every *Proofs.tla

`PROJECT.json` is the index: components, runs, the source lines each definition
models, one mutant per property, findings and hazards.

## 1. Inventory

Paths are relative to `src/src/`.

| component | state it keeps | operations | talks to |
|---|---|---|---|
| BTC/LTC detector (`blockstream.rs`, restart loop in `main.rs`) | `SharedState`: scan position, known block hashes, pending payments, `notified_confirmed` | block scan, reorg check and rollback, `enqueue_or_confirm`, `process_confirmed`, `recover_txid` | explorer API, state file, sweep, webhook |
| State file (`persistence.rs`) | one JSON file per chain, replaced by write-and-rename | load, save | every detector |
| Webhook delivery (`webhook.rs`) | none | up to three attempts, permanent 4xx give up at once | backend |
| Ethereum/Base detector (`ethereum.rs`, `etherscan.rs`) | three scan cursors, pending payments, credited events | native, ERC-20 and internal scans, confirmation, sweep, gas tank, `recover_txid` | RPC endpoints, Etherscan, `ethereum_pool`, state file, webhook |
| Solana detector (`solana.rs`, `solana_tokens.rs`) | one cursor per wallet and token account, pending payments, processed and credited ids | concurrent address scans, push notifications, confirmation, sweep, `recover_txid` | RPC, `solana_pool`, state file, webhook |
| Gas tanks and scheduled transfers (`solana.rs`, `solana_scheduled.rs`, `ethereum.rs`) | the time of the last maintenance | pay what the backend scheduled, forward the excess to the ledger | RPC, Redis, backend, state file |
| Solana wallet pool (`solana_pool.rs`) | wallets in memory and in a file; assignments, user index and per-user locks in Redis | assign, rotate, look up, cancel all, consolidate at boot, grow | Redis, HTTP API, Solana detector |
| Ethereum/Base wallet pool (`ethereum_pool.rs`) | wallets; assignments in Redis or in memory | assign, list, cancel all, grow | Redis, HTTP API, detector |
| Offline reset (`reset.rs`, `reset_cli.rs`) | archives, receipts, `pending.json`, the lock file | prepare, commit, resume; `detector_guard` for daemons | all state and wallet files, Redis |
| BTC/LTC sweep (`bitcoin_sweep.rs`) | none | coin selection, fee, dust, signing | explorer |
| Stream clients (`quicknode.rs`, `helius_webhooks.rs`) | a watch list at the provider, what this process has put on it, a queue of pushes | keep the list in step with the pool, turn pushes into scans | detectors, pool |
| HTTP API (`api.rs`), configuration (`config.rs`, `remote_config.rs`) | none of their own | parse, authorise, dispatch; poll configuration and restart | all |
| Pure parts (`derivation.rs`, `litecoin_block.rs`, `pricing.rs`, `recover.rs`, `types.rs`, `error.rs`) | none | derivation, block decoding, prices, conversions | detectors |

The tasks of a process share memory behind mutexes that are held for a few lines
at a time; anything can happen at an `await` between two of them. What is hard:

* **Two tasks, one queue.** The scan loop and HTTP recoveries both enqueue,
  deliver, sweep and drop payments. `credit_lock` serialises delivery but not
  enqueueing.
* **Three views of the truth.** Memory, state file and backend differ after each
  failed save, lost reply or crash; the backend can only deduplicate by `event_id`.
* **A chain that changes.** Blocks are replaced between any two calls to the
  explorer.
* **Redis one command at a time.** Assignments, the index and the locks are
  separate keys; requests interleave between commands, locks expire under slow
  holders, and an error leaves a half-done operation behind.
* **Answers that do not come.** A webhook, a transfer or a Redis command may have
  been carried out although its caller saw an error.
* **An address that changes hands.** Cancel-all frees every address while payments
  to it are queued, credited and swept.
* **Read, change, write back.** The Helius list is one document without a version.
* **Journals.** A reset that stops between any two writes must be resumable and
  keep daemons out meanwhile.

What makes each component correct:

* outbox: detection before credit, at most one credit except for what a fault
  makes unavoidable, saved before delivered, credited in the end;
* block scan: no deposit of the chain is passed, none of an abandoned branch is
  credited beyond the confirmations asked for (the code keeps both only while each block
  it takes is the child of the one it recorded below, which it does not compare: section 5);
* wallet pools: an address belongs to one user for ever, its key is on disk
  before anyone is told of it (the first EVM pool file is written but not flushed: section 5),
  a user has one active address;
* reset: nothing is replaced that is not archived, no daemon runs on half a
  reset, a retry finishes what was begun and never repeats what was finished;
* EVM and Solana scans: a source that fails keeps its own cursor, no cursor
  passes a payment that is not queued, one identity per payment;
* owner check: one user is credited for a payment, and not one who had lost the address;
* gas tanks: a scheduled payment is executed once but for faults, and is not starved
  by the transfer of the excess, which leaves the reserve;
* watch lists: every wallet gets onto its list, and an accepted push is scanned.

## 2. The modules

### UtxoDetector

The block scan loop, any number of recoveries, the outbox they share, the state
file, the chain and the backend.

| in the model | in the code |
|---|---|
| `mem` | `SharedState` of the running process |
| `disk` | the state file |
| `pc`, `loc` | where each task stands between two awaits, with its locals |
| `lock` | `credit_lock` |
| `blocks`, `reorgs` | the best chain; a block's hash is the number of the reorganisation it was mined after |
| `detected`, `credits`, `paid` | what the backend has received |
| `owed` | deposits whose last sweep was deferred |
| `first` | the height the scan began at; no variable of the code |
| `unlinked` | the scan took a block whose parent was not the one recorded below it, or a rollback went below all that was recorded; no variable of the code, which compares no parents |

`ScanStart` .. `ScanAdvance` are the stretches of `run_block_scan_loop` and
`detect_reorg`; `RecoverFetch` and `RecoverTip` are `recover_txid`;
`EnqueuePush` and `EnqueueSave` are `enqueue_or_confirm`, split because the queue is
visible to others before it is saved; `CreditsLock`, `CreditsClone` and
`CreditsRelease` are `process_confirmed`; `EntryStart` .. `EntryFinish` are
`process_pending_payment`. `Crash` kills the process and loads the file. `Mine`
and `Reorg` are the chain.

Abstractions. A deposit is a (transaction, recipient) pair, the identity
`utxo_payment_key` gives it; amounts, addresses and prices are gone. The copies
of the queue are visited in any order. A delivery is one step with three outcomes: acknowledged,
delivered with the reply lost, refused; the three attempts inside a pass change
nothing else. A failed explorer call is an error wherever the code returns or
breaks on one. `start_height` is a constant; both binaries pass `None`, which the
runs use, and `skip_initial_block_sync` is modelled but off in the runs.
Recoveries that change nothing are not steps.

### WalletPool

The Solana pool: each Redis command is a step, so that two requests
interleave at every command. `assignment`, `index` and `locked` are the keys in Redis; wallets are numbered in
pool order, so the list in memory and the one in the file are their lengths
`pool` and `file`; `given` records the addresses each user was ever told.
`via` says what a read of the index is for: the four callers share the steps of
reading the index and the payload and differ in where they go on. The lock is a key
with a time to live and no owner, as `release_user_lock` deletes it whoever set it;
`LockExpires` may hit a slow holder. A Redis `SCAN` is one step. The order of
reservations is by second, then by address, as in the code; the address order is
the pool order, which loses nothing since the names are arbitrary. A cancel-all reads its keys in
several steps and counts, in `cancels`, from the `DEL` on.

### Reset

The maintenance process and the daemons it must keep out. `content` maps every
file and key to a version; two writes never make the same one. `archive`,
`receipts` and `pending` are the files under the reset root, each written by one
`durable_write`; `run` holds the exclusive lock, `up` the shared one, and both die
with their process. Daemons write files and keys while up; Redis is written by
other hosts at any time, and keys of older releases expire, since no file lock
reaches it. `erased` and `touched` record what resets replaced.

### EvmDetector

The Ethereum/Base detector. A task is the poll loop or an HTTP task; `pc` and `loc` say
where it stands. `CycleTip`, `ReadReservations`, `ScanLock`, `SkipSource`,
`StartSource`, `Fetch`, `Enqueue`, `Advance` and `Maintain` are `process_cycle` with
`scan_new_blocks` and `scan_source`; `RecoverFetch` and `RecoverTip` are `recover_txid`;
`CreditsLock` .. `Remove` are `process_credits` and `process_credit_entry`, where the
sending of a webhook (`SendDetected`, `SendCredited`) and the record of its reply
(`FlagDetected`, `RecordCredit`) are steps of their own, as are the receipt (`EntryReceipt`)
and the transaction a queued deposit of coins is asked for to know its sender (`EntryOrigin`). Claims and
pushes run the same cycle on an HTTP task.

A payment is a transfer of one kind to one address. `at`, `ok` and `idx` are what the chain
says of it: its block, the status of its transaction, its log index, each of which
a reorganisation may change; an event id is the payment with its log index. `first` is the block
after which scanning began, `swept` the payments whose funds left their wallet: all amounts of a
token are equal, and a transfer of tokens that are gone reverts. `unseen` records the entries for which a node had no
transaction: the code takes that for "no top-up". A memory update
and its save are one step; the window between them is the one described for
`UtxoDetector` in section 5. An RPC call ends in a result or an error, whatever the endpoints it
tried; one chain is behind all of them. Assignments only grow.

### SolanaDetector

Scans, requests and the confirmation loop over one state. A task is the poll loop
(`Poller`), one of its concurrent scans (`Workers`), the loop that retries what is
pending (`Confirmers`), or an HTTP request (`Callers`), which claims, is pushed or
recovers.

| in the model | in the code |
|---|---|
| `slot`, `at` | the confirmed slot, and that of each payment |
| `owner`, `cancels` | the assignments in Redis and how often they were deleted: the two variables of `AddressBook`, by whose steps they change (`Assign`, `CancelAll`) |
| `mem`, `disk` | `SolanaState` in memory and in its file: a cursor per account, the queue, the credited ids |
| `scanLocks`, `creditLock` | the lock of each address, and `credit_lock` |
| `swept` | payments whose funds left their wallet |
| `entitled` | who held the address when a payment was made, or later; only for the property |

`BootRead`, `BootSweep` and `BootDone` are `sweep_orphan_balances`; `ReadReservations`,
`ReadSlot`, `StartScan`, `ScansDone` and `Maintain` are `process_cycle`; `LockAddress`,
`ListSignatures`, `LoadTransaction` and `MoveCursor` scan an address under its lock, one account after the other;
`CreditsLock` .. `CreditsDone` are `process_credits`, with `CheckOwner` for the comparison of
the queued user with Redis, and the sweeps of SOL and of tokens. `AlreadyCredited` is the entry that
was credited before and only waits for its sweep; `Recover`, `RecoverQueue` and `RecoverSlot` are `recover_txid`. A payment is the pair of a signature and an account. An amount is `"none"`,
`"dust"` or `"full"`: whether dust is ignored depends on the price, which may be unknown. An
account lists its signatures newest first and works on the oldest; a missing transaction ends the
account and leaves its cursor.

### GasTank

One task maintains a tank: time and balance, on EVM the token sweep, on Solana the
payment the backend scheduled (choose, price, prepare, pay, report), then the excess.
Others spend from the tank at any step. `status` is the backend's database; what it publishes in Redis
are the pending payments, in the order of `since`. `chain` is fixed at the start and says which of the two
maintenance passes runs. A payment's answer or its report may be lost (a fault), a callback or an RPC
call may fail (an error), and an EVM error restarts the loop, while on Solana it ends the pass.

### EthereumPool

The EVM pool has no lock per user and no index: `Scan` and `GetKey` search the
assignments one command at a time, `Claim` is the SET NX, `Grow` adds a wallet to the file and the
list, and `Register` claims it for the request that grew the pool. `store` chooses between Redis and the in-memory variant, where each
critical section is a step (`MemoryExisting` .. `MemoryInsert`). The names of addresses are numbers in the order in which the strings sort,
so that the first of a user's several assignments is the least. `CreateFile` and `FillFile` make the
pool file at the first start; a start that finds it torn is refused until an operator removes it. The first file is
written and not flushed; growth flushes it (`synced`). A `Crash` leaves what was written, a `PowerLoss` may take a file
that was never flushed, and its keys go to `lost`. `overlapped` records the users who
had two requests at a time.

### WatchLists

Two lists at two providers. Helius keeps a document that is fetched and put back whole
(`BootGet`, `BootPut`, `GetWebhook`, `PutWebhook`); QuickNode takes additions, and the process remembers
under a mutex what was acknowledged (`LockSynced`, `PatchList`), from requests and from a keeper that
runs each minute. `Deliver` is a push that the bounded queue takes or refuses, and `BeginScan` / `EndScan` the worker that
coalesces what waits. Three attempts of a call are one outcome. `calm` says that the Helius calls of this
process succeeded and none overlapped, since an overlap is what that protocol does not survive (section 5).

### AddressBook

What the wallet pools promise of their assignments, and all that a detector reads of them: who holds an
address. An address is claimed while nobody holds it; what a rotation has read is written over what is
there only after a cancel-all, since until then it is the holder's own; a cancel-all deletes the keys that its
`SCAN` has found, perhaps not all. `WalletPool` and `EthereumPool` (with Redis) INSTANCE it as `Book` and are shown to implement
it; `SolanaDetector` takes its `Assign` and `CancelAll` from it. So pool and detector meet in this
module: the detector runs against every behaviour of the pool, a user with several
addresses and a half-finished cancel-all included, without the pool's requests in its state.

### PaymentOutbox

The promise the three detectors keep towards the backend, without queues, locks and
files: a payment is announced before it is credited, credited while it is not sealed,
and only a fault unseals it or leaves the sender in doubt. `UtxoDetector`, `EvmDetector` and
`SolanaDetector` each INSTANCE it as `Outbox`, with `Sealed` as the refinement
mapping: what memory records as credited, and the payment whose acknowledged credit a task
is about to record. Everything else about the detectors is stuttering.

### MCUtxo, MCEvm, MCSol, MCGas, MCPool, MCEthPool, MCWatch, MCReset

Instances for TLC: the model values and the functions a `.cfg` cannot write.

## 3. The runs

| run | states | question and answer |
|---|---|---|
| `utxo_outbox` | 1.0M | Two deposits in two transactions, one queued by an older release without an event id, a concurrent recovery, a reorganisation, a fault (crash, failed save or lost reply) and a refusal. Types hold; the outbox implements `PaymentOutbox` (`OutboxSpec`). |
| `utxo_scan` | 0.42M | The scan loop alone, two reorganisations of up to two blocks, with a fault and a refusal (an explorer error or a refused webhook) in between. `NoDepositSkipped` in memory and in the file: a recorded block has left nothing behind, and nothing below it was passed unless the scan took a block on a parent it had not recorded; `SavedBeforeDelivery`; under fairness `EventuallyCredited`, with the same exception. |
| `evm_cycle` | 2.9M | One task polls three sources for two addresses, with a reorganisation, a fault and an error, and a gas top-up queued by an older release. Types hold; `NoPaymentSkipped`; `TopUpsNotCredited`, unless the node had no transaction when asked for its sender. |
| `evm_race` | 3.2M | The poll loop beside an HTTP task that claims or recovers, with a reorganisation and a fault. `CreditedConfirmed`, `CursorsKept`, `OutboxSpec`. |
| `sol_scan` | 3.6M | A concurrent scan beside a request that claims, is pushed or recovers, a payment and a dust payment to one account, a fault and an error (a missing transaction, a failed call). `NoDepositSkipped`, `CursorsKept`. |
| `sol_owner` | 143k | A token payment, the poll loop and the confirmation loop on one queue, two users and a cancel-all in between, a fault and an error. `SweptOrQueued`, `NotToEarlierHolder`, `OneBeneficiary`, `OutboxSpec`, and under fairness `DepositCredited`. |
| `gas_tank` | 363k | Both kinds of tank, two scheduled payments (one larger than the target, one in EUR that expires), another spender, a fault and an error. Types hold; `PaidOncePerFault`, `ReserveKept`, and under fairness `PayoutSettled`. |
| `pool_assign` | 3.7M | Two users, two requests, a full pool, and one trouble (crash, Redis error, failed write, expired lock, cancel-all). `AttributionKept`, `KeyOnDisk`, `Consolidated`; the assignments implement `AddressBook` (`BookSpec`). |
| `eth_pool` | 2.1M | Three users, two requests at a time, a pool that grows to two of three possible keys, one trouble (crash, power loss, Redis error, failed write, cancel-all), with Redis and in memory. `AttributionKept`, `KeyOnDisk`, `SameAddress`, `BookSpec`; the type invariant includes `ETH_MAX_POOL_SIZE`. |
| `watch` | 133k | Two requests, the keeper, a pool that grows past the Helius limit, one trouble. `DriftConverges`, and under fairness `EventuallyWatched` and `HintScanned`. |
| `reset_journal` | 0.66M | Two operations with different selections over two chains, two early exits, three foreign writes. `NothingLost`, `DaemonSeesWholeReset`, `FinishedForGood`, and under fairness `ResumeFinishes`. |
| `evm_stuck` | | The finding of section 5, whose property TLC refutes under fairness. |

Bounds. Every counter that could grow without end is capped in a guard and
declared as a bound: `MaxHeight`, `MaxReorgs`, `MaxReorgDepth`, `MaxTip`, `MaxSlot`, `MaxTime`, `MaxClock` for the
chains and clocks, `MaxFaults`, `MaxRefusals`, `MaxErrors`, `MaxTrouble`, `MaxExits` for what fails,
`MaxCancels`, `MaxSpends`, `MaxTank`, `MaxNamed`, `MaxVersion` for what others do. They are enough
for what is asked:

* Two deposits and two tasks (scan loop and a recovery) are what every race in
  the outbox needs, since entries only interact through their identities; one
  fault with one refusal puts a fault between any two steps of a delivery. The
  proofs of section 4 remove these bounds.
* `utxo_scan` has a chain of five blocks with `MinConf + HashMargin` of three, so the
  pruning of old hashes happens, and reorganisations as deep as two, twice, so
  a rollback can meet a second reorganisation in the middle of its walk.
* In the EVM runs the chain has four blocks and two confirmations: a payment is mined,
  recovered unconfirmed, moved by a reorganisation, scanned, confirmed. `evm_cycle` has the
  variety of sources with one task, `evm_race` the two tasks with one payment:
  what two tasks share is the queue, the cursors and the two locks, and a payment of
  one kind is enough to reach each.
* `sol_scan` has two slots, one payment in each, so that a scan that lists before and one that lists after
  the second payment meet at the lock and at the cursor, and two confirmations, so that the first is credited and
  the second waits. `sol_owner` needs one slot: its
  question is who owns the address between payment, detection, sweep and credit, and one cancel-all
  with two users gives every order of these. `TankEmpties` is FALSE in both runs: `SweptOrQueued`
  is not true of a tank that cannot pay the fee of a token transfer, which the code takes for a drained account (section 5).
* `gas_tank` lets the tank hold up to four coins, target and fee being one, so that a payment
  larger than the target has to wait while the excess is not forwarded; two ticks cover a maintenance
  that is due, one that is not, and an expiry.
* In `pool_assign` the pool is as small as its users, so claims collide, growth
  hits the maximum, and both users want the same wallet; one second of clock is
  what tells the older reservation from the newer. One trouble budget is shared so
  each kind is met at every step; two troubles at once are
  left to the proofs, which bound none of it.
* `eth_pool` has more users than wallets and more keys than wallets, so that growth collides, is
  refused at the maximum, and draws keys that sort before or after the first. Users and
  requests are interchangeable, hence the symmetry, here and in `pool_assign`: `BookSpec` is a condition on the first state and on each step,
  and treats users alike; no property of these runs is about liveness.
* `watch` begins at the Helius limit and grows past it, so that both watch modes and the change between them
  occur; the queue holds two of the code's 64 pushes, enough to be full while a scan runs.
* `reset_journal` has enough versions for a daemon to write before the archive,
  between archive and marker, and after the end; two exits let the retry fail too.

Fairness. Five runs have it. All assume that the async runtime runs a task that is ready (WF on
the steps of each task), which tokio's scheduler does, and that loops are restarted after an error (`main.rs`) and
woken by their timers. A step that takes a lock is strongly fair where others contend for it, because `tokio::sync::Mutex` serves its
waiters in order. `utxo_scan` and `sol_owner` also assume that blocks or slots keep coming up to their bound; `gas_tank`
that the tank is topped up; `reset_journal` that a maintenance process runs on and that after a failure the operator retries the
same operation with the same selection, as `docs/reset.md` asks. No fairness makes a delivery, an RPC call or a transfer
succeed: faults and errors are bounded, which says that they stop some day.

Deadlock is checked in every run: where a bounded chain ends the loops still poll, daemons still come and go.

## 4. What is proved

`UtxoDetectorProofs` proves, for every set of deposits and recoveries, every
confirmation count and every bound:

* `TypeCorrect`: `Spec => []TypeOK`;
* `CreditedOnce`: `Spec => []CreditedOncePerFault`;
* `DetectedFirst`: `Spec => []DetectedBeforeCredited`;
* `UtxoImplementsOutbox`: `Spec => OutboxSpec`;
* `NothingSkipped`: `ScanAlone => (Spec => []NoDepositSkipped)`, where `ScanAlone` is no recoveries and
  the start height both binaries pass (none);
* `SavedFirst`: `Recoverers = {} /\ LegacyPending = {} => (Spec => []SavedBeforeDelivery)`.

None of them is inductive by itself. `TypeInv` adds to the types that the reorg walk
stays above height 0 (`DepthInv`: otherwise the rollback could set a negative
cursor) and that a task at work on an entry has one (`EntryInv`).

`CreditInv` says why a credit is not repeated. A task between `CreditsLock` and
`CreditsRelease` holds the lock, so two tasks never work on entries at once
(`LockInv`). A task that is about to send the credit of an id has not seen the id in
`notified_confirmed`, and nobody can have put it there since (`FreshInv`). And an
id in memory's or the file's `notified_confirmed`, or about to be recorded, has
been sent at most once per fault, while one that is not has been sent at most as
often as there were faults (`CountInv`): the step that sends without recording is
itself a fault, and a crash that forgets what memory knew is one too.

`NotifyInv` says why detection comes first: a queue entry flagged `notified`, in memory, in
the file or in a task's copy, belongs to an id the backend was told of
(`FlagInv`), and so does the entry of a task beyond the detection
(`ProgressInv`). A lost reply leaves the flag unset, so it causes a second
detection and never a credit without one.

`UtxoImplementsOutbox` maps every step: a delivery of a detection is `Announce`, one of a
credit is `Credit` or `CreditUnknown`, a crash or a failed save is `Fault`, and all else
stutters. It rests on the two invariants above (the credit that is sent is announced and
not sealed) and on the file never holding a credit that memory does not.

`NothingSkipped` rests on `ScanInv`. No stored hash is of a height beyond the cursor, or of an era
to come: so a block mined in a new era never matches an old hash (`HashesSound`). No
queue entry is more than one above the cursor, the block in work (`EntriesSound`). A deposit of a block whose
hash is stored is credited, or queued at a height not above the block's
(`BlocksTracked`): "queued" alone would not do, since a rollback drops entries by the height
they carry. The payments of the block in work are in hand after the fetch and known
from the push to the save of the hash, unless the chain has left that block
meanwhile (`BlockInv`), and what the outbox drops in between is credited (`HandInv`).

That is about recorded blocks. `PassedInv` is about the heights below them, where another
branch may stand by now: while each block taken was the child of the one recorded below (`~unlinked`), the chain's
deposits at every height up to a recorded hash that is the chain's are queued or credited, whatever is
recorded at their own heights. A reorganisation replaces everything above its fork, so a hash that matches
after it stood below the fork; a rollback ends at such a hash or at the start of the scan; and the block in work was taken
on a parent whose hash was recorded, of which the statement held already (`WorkInv`). `TopInv` says that the
block at the cursor is recorded, so that this parent exists. Without the condition the statement is `WalkSound`, which the code does not keep
(section 5). Both parts hold for every number and depth of reorganisations. With a recovery at work the
first fails: see the table of section 5.

`SavedFirst` is that argument for the file: between `CreditsClone` and the last entry,
what is still to be processed is in both queues, and processing one entry drops that one only
(`SavedInv`). With entries of an older release it drops two when they share a
txid, so these are excluded; `utxo_outbox` has them.

`CreditedOncePerFault` and `DetectedBeforeCredited` are stated in the module and proved, and no run checks them, since
`OutboxSpec` says more; so for `EvmDetector` and `SolanaDetector`.

`WalletPoolProofs` proves, for every set of users, number of requests and pool size:

* `TypeCorrect`: `Spec => []TypeOK`;
* `KeysOnDisk`: `Spec => []KeyOnDisk`;
* `AttributionForGood`: `Spec => []AttributionKept`;
* `BootConsolidates`: `Spec => []Consolidated`;
* `PoolKeepsBook`: `Spec => BookSpec`.

Here too `TypeInv` is the types strengthened: what a request knows of its locals at
each step (`CallerInv`), that none runs before the server listens and that a user
still to consolidate has an address (`BootInv`), and that the wallets in memory are
those in the file (`PoolInv`). That the address `consolidate_assignments` and the
lookup choose exists (`CanonicalActive`) is proved from the well-ordering of the
natural numbers.

`DiskInv` adds that no assignment, index or local goes beyond the file; since growth
writes the file before it touches memory or Redis, it is inductive. `AttrInv` says,
while nobody cancelled, that every given address is assigned to its user (`GivenInv`),
every index points to an address of its user (`IndexInv`), and from the read of a
payload to the answer so does what a request holds, the payload a rotation is to
write back included (`HoldInv`). It is inductive because no step hands an assigned
address over (`OwnersStay`): a claim is a SET NX, and a rotation writes back the
user it read. The lock is not part of the argument, so attribution does not
depend on it: an expired lock, or one released by somebody else, costs a second address
(`OneActiveAddress` in section 5), never a wrong owner. `PoolKeepsBook` needs `AttrInv` for one step only:
the payload a rotation writes back is its holder's own unless a cancel-all came in between, so `Archive` is a
stutter of the book before and a `WriteBack` after. `Claim` and `Register` are claims or stutters, `CancelDelete` is
`Delete`, and the boot, the index and the lock do not show.

`DoneInv` says of the consolidation that a user who is done has one active
address, in the index: what is archived later belongs to users who are not done, and
no request runs before the server listens, so nobody else writes meanwhile.
An interrupted boot starts over with whatever it left.

`EvmDetectorProofs` proves, for every set of payments, sources and tasks, every start block, chunk size and confirmation depth and every bound:

* `TypeCorrect`: `Spec => []TypeOK`;
* `CreditedOnce`: `Spec => []CreditedOncePerFault`;
* `DetectedFirst`: `Spec => []DetectedBeforeCredited`;
* `CreditsAreConfirmed`: `Spec => []CreditedConfirmed`;
* `TopUpsAreOurs`: `Spec => []TopUpsNotCredited`;
* `CursorsOnlyAdvance`: `Spec => CursorsKept`;
* `NothingSkipped`: `Spec => []NoPaymentSkipped`;
* `EvmImplementsOutbox`: `Spec => OutboxSpec`.

`OutboxInv` carries the first six. An id whose credit memory does not know, and which
no task is about to record, was sent at most as often as there were faults (`CountInv`).
Between a reply and its record another task would find the id uncredited and send
again: `credit_lock` is what keeps it out, since only its holder is past `CreditsLock`
(`LockInv`), and a task with a reply in hand (`Recording`) goes on to record it or
dies in a fault. The mutant `CreditsNoLock` of `evm_race` credits twice. A task that sweeps or credits found its
payment deep at a tip that was the chain's once, and that it is no top-up unless the node had no transaction for it (`TaskInv`), and no reorganisation
that leaves fewer than `min_confirmations` blocks standing reaches a payment that
deep (`Buried`, kept by `ChainBuried`); `SentInv` says the same of what was
credited. A flagged entry, in memory, in the file or in a task's copy, belongs to
an id the backend was told of (`QueueInv`), and the file's cursors are never ahead
of memory's (`OrderInv`), so that a crash takes none of them past the file. A step
that neither delivers nor reads a receipt is `Quiet`, and no step of a task puts a
cursor back or forgets a credit (`Calm`).

`ScanInv` carries the last one, in five parts. No cursor is above the block that
reorganisations leave alone, or the start of the scan (`HeightInv`), so that a
reorganisation moves no payment a cursor has passed (`ChainTracked`). A payment to
an address that a task does not watch is above the safe block of that task's tip
(`WatchInv`): this is where the order of tip and assignments in `process_cycle` is
needed. A chunk begins no later than one block after the cursor and ends at a safe block (`ChunkInv`).
Its payments are known or in hand after the fetch, and known when the cursor moves
(`SeenInv`): an error of one address keeps the task from getting there. A source
without a cursor begins at `start_block` (`FirstInv`). Entries only leave the
queue when they are ignored or their credit is recorded (`DoneInv`), so no step
forgets an event (`Remembers`). `scan_lock` is no part of the argument either: it spares
RPC calls, and the cursors are safe without it because `set_cursor` takes the maximum.

`SolanaDetectorProofs` proves, for every set of payments, users and tasks, every
configuration and every bound:

* `TypeCorrect`: `Spec => []TypeOK`;
* `NothingSkipped`: `Spec => []NoDepositSkipped`;
* `NothingForgotten`: `~TankEmpties => (Spec => []SweptOrQueued)`;
* `OneUser`: `Spec => []OneBeneficiary`;
* `NeverAnotherHolder`: `Spec => []NotToEarlierHolder`;
* `CursorsOnlyAdvance`: `Spec => CursorsKept`;
* `SolanaImplementsOutbox`: `Spec => OutboxSpec`;
* `PromiseKept`: `Outbox!Spec => [](Outbox!TypeOK /\ Outbox!OncePerFault)`;
* `CreditedOnce`: `Spec => []CreditedOncePerFault`.

The last two show what the refinement is for. `PromiseKept` is about the steps of `PaymentOutbox` and uses nothing of the
detector but the names of its variables; `CreditedOnce` then follows from it and `SolanaImplementsOutbox`, where the other
two detectors prove it from their own invariants.

One invariant carries all but one of the others. `StateInv`, of memory and of the file, says that
what lies at or below a cursor is queued or credited, that a payment is queued once,
that a flagged entry was announced, and that a credited payment is queued or its funds are gone.
`FileInv` puts the file behind memory; a crash, which makes it the memory, then keeps `StateInv` because
both have it. The cursor argument is `InHand`: a scan that holds the lock of its
address has all signatures of the account above the cursor, but for those that arrived since it
listed them, and those are newer than all it has. So moving the cursor to the oldest skips none (`OldestKnown`), and
the next slot's payment cannot be below. It needs that an account has one payment in a slot (`ChainInv`), and that
the lock is held from listing to cursor: with `LockAddressNever`, the mutant of `sol_scan`, a
slower scan puts the cursor back. `CreditInv` says that who works on the queue holds `credit_lock`, and that what he
copied still stands in memory and in the file for the same user (`Held`), since no step takes away what
others rely on (`Grows`, `LocksKept`). That is why two users are never credited with one payment: the first stays in
the books of memory and file (`CreditedInv`), whatever the assignments do.

That this user is the right one needs a second invariant, `OwnerInv`, of the states where no
Redis call failed and at most one cancel-all happened (`Calm`). The user of a reservation or of a queued payment owns
the address until the cancellation; afterwards he is entitled to whatever was paid there, unless another user
holds it (`Suits`). With another holder the owner check drops the entry, and after the check an
assignment cannot change what was paid before it: the entitled user stays entitled (`PlaceSuits`). A second cancel-all leaves
such an address without owner while the old entry is queued, which is the divergence in section 5. The assignments
change by the steps of `AddressBook`, which both pools implement (`PoolKeepsBook`): what is proved of the detector
holds beside the pool with all its requests.

`EthereumPoolProofs` proves, for every set of users, requests and keys, every pool size and
every bound:

* `TypeCorrect`: `Spec => []TypeOK`, with the pool's maximum size;
* `KeysOnDisk`: `Spec => []KeyOnDisk`;
* `AttributionForGood`: `Spec => []AttributionKept`;
* `OneAddress`: `Spec => []SameAddress`;
* `PoolKeepsBook`: `Spec => BookSpec`.

`DiskInv` says that what is assigned, in memory, or in a request's hands is in the file, or in Redis an address of a first
file that a power loss took: growth appends to the file, and flushes it, before anybody can claim the wallet. `UserInv` speaks of Redis before any cancel-all.
A claim is a SET NX, so no assignment changes hands (`GivenInv`), whatever requests overlap and whoever
grows the pool; no lock is part of the argument. For one user whose requests do not overlap
(`AloneInv`), a search that reads key by key has passed over none of his addresses (`ReadInv`), and a request
that goes on to claim found none (`ClaimInv`): so what he is told is always the first of his addresses.

`GasTankProofs` proves, for every set of payouts, every target, fee and interval and every bound:

* `TypeCorrect`: `Spec => []TypeOK` (no step overdraws the tank);
* `PaidOnce`: `Spec => []PaidOncePerFault`;
* `ReserveStays`: `Spec => ReserveKept`.

A payout in hand was pending when it was chosen, and meanwhile can only expire (`ChosenInv`). So an answered
transfer is reported or about to be (`Answered`), and one that nobody will report is a
fault: `CountInv` counts executions against these two.

`WatchListsProofs` proves, for every set of requests, every pool, limit and queue size and every bound:

* `TypeCorrect`: `Spec => []TypeOK`;
* `ListConverges`: `Spec => []DriftConverges`;
* `SkippedAreListed`: `Spec => []SyncedListed` (`synced` is part of `quick`);
* `HintsWait`: `Spec => []OwedQueued` (a hint that is owed is in the queue).

`TypeInv` adds that the start runs alone (`PlaceInv`), that only wallets of the pool are handled (`HandInv`), and that
the task that sends a PATCH holds the mutex and nobody else does (`MutexInv`). `DriftInv` carries `ListConverges`:
while it is calm one request at most edits the Helius list, so what it has fetched is still what is there when it
writes it back; one that empties the list finds nobody assigned, since an assignment meanwhile would be a second
edit. The last two are the safety under `EventuallyWatched` and `HintScanned`: no wallet is skipped by a sync that is not on the list,
and no order of arrivals and scans takes a hint out of the queue but the scan of its wallet or a crash.

`ResetProofs` proves, for every set of chains, files, keys, operations and daemons:

* `TypeCorrect`: `Spec => []TypeOK`, with the exclusion of daemon and reset;
* `WholeResetSeen`: `Spec => []DaemonSeesWholeReset`;
* `ReceiptIsFinal`: `Spec => FinishedForGood`;
* `ArchivedBeforeReplaced`: `Spec => []NothingLost`.

`JournalInv` says that an operation that replaced something keeps its journal
pending until its receipt, and that no other operation can take the marker.
`ArchiveInv` says that an archive is written once and that a process works by the
archived journal. `CommitInv` says that from the check of the files on they are as
checked: only the lock keeps daemons away between `VerifyFiles` and `WriteFile`.

Assumptions: the constants' typing (`TaskAssumption`, `IdAssumption`,
`BoundAssumption`, `PaymentAssumption`, `PoolAssumption`, `TankAssumption`, `WatchAssumption`, `ResetAssumption`), which TLC evaluates in the runs.

Only model-checked: liveness, which is out of the prover's reach (`EventuallyCredited`,
`DepositCredited`, `PayoutSettled`, `EventuallyWatched`, `HintScanned`, `ResumeFinishes`).

## 5. Where code and words disagree

### With a run

`evm_stuck`: `process_credit_entry` sweeps, then credits, and a sweep that fails ends
it. A token sweep does not ask the balance: once it has succeeded and the credit
webhook is refused, each retry sends a transfer that reverts (paying gas for it),
and the credit is never sent. `recover.rs:26` says "the credit no longer waits for a
successful sweep". The same run with a native payment holds: an empty balance counts
as swept.

### With a property and the instance that refutes it

Each property is in its module, beside the words it is taken from. To see the behaviour, give TLC the
constants of the named configuration with the changes listed, `SPECIFICATION Spec` and the property.

| property | instance | what happens |
|---|---|---|
| `CreditedOnChain` (UtxoDetector) | `utxo_scan.cfg` with `MinConf = 3`, `MaxHeight = 6`, `MaxReorgs = 1`, `MaxFaults = 0`, `MaxRefusals = 0` | The scan loop compares stored hashes, then asks for the next block's hash without checking its parent. A reorganisation in between is not seen by the walk, which stops at the first hash that matches; the orphaned deposit stays queued and is credited. `config.rs:543`: "Confirmations required before sweeping and emitting payment_credited." |
| `WalkSound` (UtxoDetector) | `utxo_scan.cfg` with `MaxReorgs = 1`, `MaxFaults = 0`, `MaxRefusals = 0`; or with `MaxReorgs = 1`, `MaxReorgDepth = 1`, `MaxFaults = 0` | The same lack of a parent check, for the deposits of the new branch: the next block is recorded on blocks that were replaced after the walk had compared them, and every later walk ends at its matching hash, so the blocks that replaced those below are never scanned and a deposit in them is never queued or credited. The second instance gets there by an explorer error, at which the walk gives up (`blockstream.rs:777`) while the scan goes on: with `MaxRefusals = 0` in addition the property holds there. No comment promises the property; `detect_reorg` relies on it. |
| `DeferredSweepQueued` (UtxoDetector) | `utxo_scan.cfg` with `MinConf = 1`, `MaxHeight = 4`, `MaxReorgs = 1`, `MaxReorgDepth = 1`, `MaxFaults = 0` | A rollback drops a credited entry that only waits for its deferred sweep, and the rescan does not queue it again because it is credited. `README.md:24`: "Failed or deferred sweeps remain queued." |
| `SavedBeforeDelivery` (UtxoDetector) | `utxo_scan.cfg` with `Recoverers = {r1}` | `process_confirmed` of one task delivers what another has queued but not saved. `blockstream.rs:838`: "The outbox is durable before a webhook or cursor advance can happen." It needs a failed save to matter. |
| `NoDepositSkipped` (UtxoDetector) | `utxo_scan.cfg` with `Recoverers = {r1}`, `MaxFaults = 0`, `MaxRefusals = 0` | A recovery queues a deposit at a height the scan has not reached. A reorganisation mines it lower, and the dedupe of `blockstream.rs:825` keeps the entry with the old height; a rollback to between the two heights drops it, although its block stays and is not scanned again. No comment promises this of recoveries; `NothingSkipped` has `Recoverers = {}` for it. |
| `TopUpsNotCredited` as `\A id \in EventIds : id[1] \in TopUps => credits[id] = 0` (EvmDetector) | `evm_cycle.cfg` | The node has the receipt of a queued top-up and answers null for its transaction; `is_pending_gas_tank_top_up` returns `Ok(false)` (`ethereum.rs:1455`), and the entry is announced, swept and credited. The log of `ethereum.rs:1332` says "Ignoring previously queued gas tank top-up". |
| `NotToEarlierHolder` without `cancels <= 1` (SolanaDetector) | `sol_owner.cfg` with `MaxCancels = 2` | A scan that began with an old reservation queues a payment for the earlier user; after a second cancel-all nobody owns the address, and `Ok(None)` (`solana.rs:1421`) credits the queued user. `solana.rs:1397` wants "to make sure the address still belongs to the user_id captured at detection time". |
| `SweptOrQueued` (SolanaDetector) | `sol_owner.cfg` with `TankEmpties = TRUE` | A gas tank that cannot pay the fee of a token transfer answers with one of the errors that `is_account_drained_error` (`solana.rs:2894`) reads as a drained account; the payment is credited, leaves the queue, and its tokens stay in the wallet. |
| `OneActiveAddress` (WalletPool) | `pool_assign.cfg` with `MaxPool = 3`, `MaxTrouble = 0` | `load_assignment_for_user` deletes the user index without the lock; racing a rotation it deletes the new index, and the next assignment gives the user a second active address. `solana_pool.rs:496`: "two parallel callers for the same user can't both assign different wallets". |
| `KeyNeverLost` (EthereumPool) | `eth_pool.cfg` | The first pool file is written without `sync_all` (`ethereum_pool.rs:205`), a user is told an address of it, and a power loss takes the file: the key is gone. `ethereum_pool.rs:363` says of a grown file: "Losing it to an unsynced rename would strand whatever gets deposited there", and `solana_pool.rs:221` flushes its first file for that reason. |
| `AttributionKeptInMemory` (EthereumPool) | `eth_pool.cfg` | The in-memory variant grows the pool outside its lock and inserts without looking: a request that claimed the new wallet in between loses it. `ethereum_pool.rs:60`: "Permanent assignment of a managed EVM wallet to a single user". |
| `KnownKept` (WatchLists) | `watch.cfg` | Two requests fetch the Helius list, and the second PUT drops the address of the first. `helius_webhooks.rs:189`: "already-known addresses are kept unchanged". |
| `JournalResumable` (Reset) | `reset_journal.cfg` with `Chains = {eth}`, `Files = {state, wallets}`, `ChainOf <- OneChain`, `Selections = {{eth}}`, `MaxExits = 1` | An operation that ended between archive and marker, followed by a daemon that writes, is retried into a journal that can never be committed and blocks every daemon. `reset.rs:645`: "A crash between durable archive and pending marker is also resumable." |

### Read in the code

* An internal transfer that Etherscan reports malformed is skipped, and so is what lies beyond its twentieth page (`etherscan.rs:259`
  to `288`); the cursor goes on in both cases. `Fetch` has neither: it returns every payment of the chunk or an error.
* A Solana account whose cursor is not on any page (`solana.rs:2327` to `2370`, `found_cursor` is not looked at afterwards) is scanned from
  its first signature; what was queued or credited is recognised, dust and foreign transactions are looked at again. `NewSignatures` always
  finds its cursor.
* A EUR price that cannot be fetched marks a scheduled payment failed for good (`solana.rs:953`), while
  `solana_scheduled.rs:94` says "Recoverable RPC blips should NOT call this". `GasTank` has it (`Unpriced`);
  `PayoutSettled` counts failed as settled.
* `solana.rs:766` and `1030` disagree on whether a scheduled payment may take the tank below its target; the code lets it,
  and `ReserveKept` exempts it.
* A Solana sweep is taken as executed once `sendTransaction` accepted it (`solana.rs:1736`); a transaction
  that the cluster drops leaves its funds behind a credited payment.
* `recover_txid` of Solana finds one payment per transaction, SOL before tokens (`solana.rs:2589`); the model has the same order.
* When Redis does not answer, the owner check lets the credit through (`solana.rs:1437`), to the user of the queue entry. An entry
  that is refused stays in the queue for good, and blocks a later entry of the same payment for the new user.
* Two get-or-create requests of one user at a time give two EVM addresses (`ethereum_pool.rs:480`): `SameAddress` excludes them.
  In memory even requests one after the other do, when the overwrite in the table above takes the first address away: it is stated for Redis.

## 6. Plan

What the project leaves for later, in this order; each module is written to be proved about
(constants with named assumptions, an action per operation, no recursive operators).

1. `EvmDetector`: the orphan sweep at the start, endpoints at different heights, and one credit per payment
   when a reorganisation changes a log index.
2. `SweepFee`: coin selection, fee and dust of the BTC/LTC sweep as operators against a reference.

## 7. Not modelled

* Cryptography (`derivation.rs`, signing, HMAC): addresses, keys and signatures are opaque values.
* `bitcoin_sweep.rs`: a function that selects coins and signs; a sweep is done or deferred in `UtxoDetector`.
* Parsing and encoding (`litecoin_block.rs`, RPC payloads, `pricing.rs`): no state; a price is known or not.
* The HTTP surface of `api.rs` apart from the handlers that change state, the panel, and configuration, which is read at the start: a change
  of the remote configuration restarts the process, which the models have as a crash.
* Inside one call: the RPC endpoints tried in turn, rate limits, intervals and timeouts (a timeout is an error of
  the call), and the three attempts of a webhook, whose outcome is one of acknowledged, delivered and unheard, refused.

`PROJECT.json` lists each component with its reason.
