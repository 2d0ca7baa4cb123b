----------------------------- MODULE WatchLists -----------------------------
(***************************************************************************)
(* The two push providers: which addresses they are told to watch, and     *)
(* what becomes of the hints they send.                                    *)
(*                                                                         *)
(* Source: src/src/helius_webhooks.rs and src/src/quicknode.rs, with the   *)
(* address, rotation, cancel-all and webhook handlers of api.rs.           *)
(*                                                                         *)
(* Helius keeps one document that is fetched, edited and written back      *)
(* whole; QuickNode keeps a list that takes additions, and the process     *)
(* remembers under a mutex what it has added.  The wallets of the pool are *)
(* 1 .. pool.  A wallet stands for its owner address and its token         *)
(* accounts, which are always registered together; how a wallet is         *)
(* assigned to a user is WalletPool and EthereumPool, one step here.       *)
(***************************************************************************)
EXTENDS Integers, Sequences, FiniteSets, FiniteSetsExt

CONSTANTS
    Callers,     \* address, rotation and cancel-all requests in flight
    Keeper,      \* the loop that syncs the QuickNode list every 60 seconds
    Starter,     \* the start of the server, which registers on Helius
    NoTask,
    InitPool,    \* bound: wallets at the first start
    MaxPool,     \* SOLANA_MAX_POOL_SIZE
    Limit,       \* HELIUS_MAX_WATCH_ADDRESSES, in wallets
    QueueSize,   \* hints the scan queue holds; 64 in the code
    MaxNamed,    \* bound: wallets one delivery names
    MaxTrouble   \* bound: crashes, provider errors and cancel-all requests together

ASSUME WatchAssumption ==
    /\ {Keeper, Starter} \cap Callers = {}
    /\ Keeper # Starter
    /\ NoTask \notin Callers \cup {Keeper, Starter}
    /\ InitPool \in 1 .. MaxPool
    /\ MaxPool \in Nat \ {0}
    /\ {Limit, MaxNamed, MaxTrouble} \subseteq Nat
    /\ QueueSize \in Nat \ {0}

Wallets == 1 .. MaxPool
Tasks == Callers \cup {Keeper, Starter}

VARIABLES
    pool,        \* wallets of the pool; the file follows it
    assigned,    \* wallets assigned in Redis, dormant ones included
    helius,      \* accountAddresses of the Helius webhook
    quick,       \* the QuickNode list
    synced,      \* what this process knows to be on it
    mutex,       \* who holds the mutex of synced
    queue,       \* the channel of the scan worker
    batch,       \* the candidates of the scan under way; {} when it is idle
    phase,       \* "boot", "ready" (Helius is registered), "serve"
    pc,
    loc,         \* the locals of each task
    owed,        \* wallets with an accepted hint and no scan begun since
    calm,        \* since this process registered on Helius, its calls there
                 \* have all succeeded and no two requests overlapped
    trouble

remote == <<helius, quick>>
worker == <<queue, batch, owed>>
sync == <<synced, mutex>>
vars == <<pool, assigned, remote, sync, worker, phase, pc, loc, calm, trouble>>

----------------------------------------------------------------------------
(* Data *)

Locals == [op : {"none", "add", "clear"}, wallet : 0 .. MaxPool,
           list : SUBSET Wallets, want : SUBSET Wallets]
InitLocals == [op |-> "none", wallet |-> 0, list |-> {}, want |-> {}]

Goto(t, label) == pc' = [pc EXCEPT ![t] = label]
SetLocals(t, l) == loc' = [loc EXCEPT ![t] = l]
Finish(t) == Goto(t, "idle") /\ SetLocals(t, InitLocals)

Trouble(happens) == /\ happens => trouble < MaxTrouble
                    /\ trouble' = IF happens THEN trouble + 1 ELSE trouble

\* webhook_address_set: the wallets in memory.
Managed == 1 .. pool

\* sync_addresses begins: the addresses are collected before the mutex is asked
\* for.
AskToSync(t) ==
    /\ SetLocals(t, [InitLocals EXCEPT !.want = Managed])
    /\ Goto(t, "lock")

\* helius_watch_mode
WholePool == pool <= Limit

----------------------------------------------------------------------------
(* The start: sync_helius_webhook_addresses, before the server listens *)

Targets == IF WholePool THEN Managed ELSE assigned

\* replace_addresses
Replacement == Targets

\* The list of assignments, or the GET, can fail: the start goes on without.
BootGet ==
    /\ pc[Starter] = "get"
    /\ \E ok \in BOOLEAN :
         /\ Trouble(~ok)
         /\ SetLocals(Starter, [loc[Starter] EXCEPT !.list = IF ok THEN helius ELSE @])
         /\ Goto(Starter, IF ok THEN "put" ELSE "idle")
         /\ phase' = IF ok THEN phase ELSE "serve"
    /\ UNCHANGED <<pool, assigned, remote, sync, worker, calm>>

BootPut ==
    /\ pc[Starter] = "put"
    /\ \E ok \in BOOLEAN :
         /\ Trouble(~ok)
         /\ helius' = IF ok THEN Replacement ELSE helius
         /\ phase' = IF ok THEN "ready" ELSE "serve"
         /\ calm' = ok
    /\ Finish(Starter)
    /\ UNCHANGED <<pool, assigned, quick, sync, worker>>

\* QuickNodeWebhook::start spawns the worker and the sync loop.
Listen ==
    /\ phase = "ready"
    /\ phase' = "serve"
    /\ UNCHANGED <<pool, assigned, remote, sync, worker, pc, loc, calm, trouble>>

----------------------------------------------------------------------------
(* /solana/address and /solana/rotate, once the wallet is assigned *)

\* Requests that fetch and write back the Helius document.
Editing == {c \in Callers : pc[c] \in {"get", "put"}}

StartAddress(c) ==
    /\ phase = "serve" /\ pc[c] = "idle"
    /\ \E w \in Wallets :
         /\ w <= pool + 1
         /\ pool' = Max({pool, w})
         /\ assigned' = assigned \cup {w}
         /\ SetLocals(c, [InitLocals EXCEPT !.op = "add", !.wallet = w])
    /\ Goto(c, "get")
    /\ calm' = (calm /\ Editing = {})
    /\ UNCHANGED <<remote, sync, worker, phase, trouble>>

\* add_addresses fetches the document...
GetWebhook(c) ==
    /\ pc[c] = "get"
    /\ \E ok \in BOOLEAN :
         /\ Trouble(~ok)
         /\ calm' = (calm /\ ok)
         /\ IF ok /\ loc[c].wallet \notin helius
            THEN Goto(c, "put") /\ SetLocals(c, [loc[c] EXCEPT !.list = helius])
            ELSE AskToSync(c)
    /\ UNCHANGED <<pool, assigned, remote, sync, worker, phase>>

\* Mutant: the list is replaced by the new addresses.
OnlyNew(c) == {loc[c].wallet}

Merged(c) == loc[c].list \cup {loc[c].wallet}

\* ... and writes it back merged, whatever has happened to it since.  After an
\* error the document may have been replaced all the same.
PutWebhook(c) ==
    /\ pc[c] = "put" /\ loc[c].op = "add"
    /\ \E answered, done \in BOOLEAN :
         /\ answered => done
         /\ Trouble(~answered)
         /\ calm' = (calm /\ answered)
         /\ helius' = IF done THEN Merged(c) ELSE helius
    /\ AskToSync(c)
    /\ UNCHANGED <<pool, assigned, quick, sync, worker, phase>>

----------------------------------------------------------------------------
(* sync_addresses, for a request and for the loop *)

KeeperWakes ==
    /\ phase = "serve" /\ pc[Keeper] = "idle"
    /\ AskToSync(Keeper)
    /\ UNCHANGED <<pool, assigned, remote, sync, worker, phase, calm, trouble>>

Missing(t) == loc[t].want \ synced

LockSynced(t) ==
    /\ pc[t] = "lock"
    /\ mutex = NoTask
    /\ IF Missing(t) = {}
       THEN Finish(t) /\ UNCHANGED mutex
       ELSE Goto(t, "patch") /\ mutex' = t /\ UNCHANGED loc
    /\ UNCHANGED <<pool, assigned, remote, synced, worker, phase, calm, trouble>>

\* Mutant: what was sent is remembered, whatever the answer.
RememberSent(t, ok) == synced \cup Missing(t)

Remembered(t, ok) == IF ok THEN synced \cup Missing(t) ELSE synced

\* PATCH addItems in chunks: after an error a part of them may be on the list.
PatchList(t) ==
    /\ pc[t] = "patch"
    /\ \E ok \in BOOLEAN :
         /\ Trouble(~ok)
         /\ \E added \in IF ok THEN {Missing(t)} ELSE SUBSET Missing(t) :
              quick' = quick \cup added
         /\ synced' = Remembered(t, ok)
    /\ mutex' = NoTask
    /\ Finish(t)
    /\ UNCHANGED <<pool, assigned, helius, worker, phase, calm>>

----------------------------------------------------------------------------
(* handle_admin_cancel_all_reservations *)

\* The assignments go first.  When only they are on the Helius list, it is then
\* replaced by the empty one; what the GET before the PUT finds does not matter.
StartCancel(c) ==
    /\ phase = "serve" /\ pc[c] = "idle"
    /\ Trouble(TRUE)
    /\ assigned' = {}
    /\ IF WholePool THEN UNCHANGED <<pc, loc, calm>>
       ELSE /\ Goto(c, "put") /\ SetLocals(c, [InitLocals EXCEPT !.op = "clear"])
            /\ calm' = (calm /\ Editing = {})
    /\ UNCHANGED <<pool, remote, sync, worker, phase>>

ClearPut(c) ==
    /\ pc[c] = "put" /\ loc[c].op = "clear"
    /\ \E done \in BOOLEAN :
         /\ Trouble(~done)
         /\ calm' = (calm /\ done)
         /\ helius' = IF done THEN {} ELSE helius
    /\ Finish(c)
    /\ UNCHANGED <<pool, assigned, quick, sync, worker, phase>>

----------------------------------------------------------------------------
(* QuickNode's deliveries and the scan worker *)

CanSend == Len(queue) < QueueSize

Queued(candidates) == IF candidates = {} \/ Len(queue) = QueueSize THEN queue
                      ELSE Append(queue, candidates)

\* accept: the payload names some wallets that are watched and perhaps addresses
\* that are not ours, which are dropped.  A full queue is answered with 503, and
\* the provider delivers again: this step is then taken later.
Deliver ==
    /\ phase = "serve"
    /\ \E named \in SUBSET quick :
         LET candidates == named \cap Managed
         IN /\ Cardinality(candidates) <= MaxNamed
            /\ CanSend
            /\ queue' = Queued(candidates)
            /\ owed' = owed \cup candidates
    /\ UNCHANGED <<pool, assigned, remote, sync, batch, phase, pc, loc, calm, trouble>>

\* Mutant: a later hint replaces the earlier ones.
LastOf(q) == q[Len(q)]

\* "Coalesce bursts while retaining at least one scan after arrivals."
Coalesced(q) == UNION {q[i] : i \in 1 .. Len(q)}

\* The worker takes all that has arrived and begins a scan.
BeginScan ==
    /\ phase = "serve"
    /\ batch = {} /\ queue # <<>>
    /\ batch' = Coalesced(queue)
    /\ queue' = <<>>
    /\ owed' = owed \ batch'
    /\ UNCHANGED <<pool, assigned, remote, sync, phase, pc, loc, calm, trouble>>

\* The scan ends, or fails: "polling will retry".
EndScan ==
    /\ batch # {}
    /\ batch' = {}
    /\ UNCHANGED <<pool, assigned, remote, sync, queue, owed, phase, pc, loc, calm, trouble>>

----------------------------------------------------------------------------
(* Failure *)

\* The queue, the mutex and what is synced are lost; the remote lists stay.
Crash ==
    /\ Trouble(TRUE)
    /\ phase' = "boot"
    /\ calm' = FALSE
    /\ synced' = {}
    /\ mutex' = NoTask
    /\ queue' = <<>>
    /\ batch' = {}
    /\ owed' = {}
    /\ pc' = [t \in Tasks |-> IF t = Starter THEN "get" ELSE "idle"]
    /\ loc' = [t \in Tasks |-> InitLocals]
    /\ UNCHANGED <<pool, assigned, remote>>

----------------------------------------------------------------------------

\* The providers' lists may hold anything of an earlier run.
Init ==
    /\ pool = InitPool
    /\ assigned \in SUBSET Managed
    /\ helius \in SUBSET Managed
    /\ quick \in SUBSET Managed
    /\ synced = {}
    /\ mutex = NoTask
    /\ queue = <<>>
    /\ batch = {}
    /\ owed = {}
    /\ phase = "boot"
    /\ pc = [t \in Tasks |-> IF t = Starter THEN "get" ELSE "idle"]
    /\ loc = [t \in Tasks |-> InitLocals]
    /\ calm = FALSE
    /\ trouble = 0

Syncing(t) == LockSynced(t) \/ PatchList(t)
Serving(c) == GetWebhook(c) \/ PutWebhook(c) \/ ClearPut(c) \/ Syncing(c)

Next ==
    \/ BootGet \/ BootPut \/ Listen \/ Crash
    \/ KeeperWakes \/ Syncing(Keeper)
    \/ Deliver \/ BeginScan \/ EndScan
    \/ \E c \in Callers : StartAddress(c) \/ StartCancel(c) \/ Serving(c)

Spec == Init /\ [][Next]_vars

\* Every task that can run does; HTTP calls end, by their timeout if need be.
\* The mutex is tokio's, which serves the tasks waiting for it in turn.
Fairness ==
    /\ WF_vars(BootGet \/ BootPut \/ Listen)
    /\ WF_vars(KeeperWakes \/ PatchList(Keeper))
    /\ SF_vars(LockSynced(Keeper))
    /\ \A c \in Callers : WF_vars(Serving(c))
    /\ WF_vars(BeginScan)
    /\ WF_vars(EndScan)

FairSpec == Spec /\ Fairness

----------------------------------------------------------------------------
(* Properties *)

Labels == {"idle", "get", "put", "lock", "patch"}

\* The type invariant; only wallets of the pool are ever registered or hinted.
TypeOK ==
    /\ pool \in 1 .. MaxPool
    /\ assigned \subseteq Managed /\ helius \subseteq Managed
    /\ synced \subseteq Managed /\ quick \subseteq Managed
    /\ mutex \in Tasks \cup {NoTask}
    /\ queue \in Seq(SUBSET Managed) /\ Len(queue) <= QueueSize
    /\ batch \subseteq Managed /\ owed \subseteq Managed
    /\ phase \in {"boot", "ready", "serve"}
    /\ pc \in [Tasks -> Labels]
    /\ loc \in [Tasks -> Locals]
    /\ calm \in BOOLEAN
    /\ trouble \in Nat

\* sync_helius_webhook_addresses: "Drift from either side ... converges on the
\* next call", and "addresses are added on `/solana/address` and cleared on
\* `/admin/reservations/cancel-all`".  Whatever the last process lost from the
\* list or left on it, a start that got through leaves the wallets to watch; from
\* then on every assigned wallet is registered or being registered, until a call
\* fails or two requests overlap.
DriftConverges ==
    calm => /\ phase = "ready" => helius = Targets
            /\ \A w \in assigned :
                 w \in helius \/ \E c \in Editing : loc[c].op = "add" /\ loc[c].wallet = w

\* sync_list: "Address sync will retry".  Every wallet of the pool gets onto the
\* QuickNode list, though a request that grew the pool failed to put it there,
\* a PATCH got half through, or the process died and forgot what it had synced.
EventuallyWatched == \A w \in Wallets : w <= pool ~> w \in quick

\* QuickNodeWebhook::start: "Coalesce bursts while retaining at least one scan
\* after arrivals".  An accepted hint is followed by a scan of its wallet begun
\* after it, unless the process dies first.
HintScanned == \A w \in Wallets : w \in owed ~> w \notin owed

\* add_addresses: "idempotent - already-known addresses are kept unchanged".
\* It fails: of two requests between their GET and their PUT, the later PUT
\* removes the address the earlier one has added.
KnownKept ==
    [][\A w \in helius :
         (\E c \in Callers : pc[c] = "put" /\ loc[c].op = "add" /\ PutWebhook(c)) => w \in helius']_vars

====
