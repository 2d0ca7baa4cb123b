---------------------------- MODULE EthereumPool ----------------------------
(***************************************************************************)
(* The Ethereum/Base deposit-address pool: the creation of its file, the   *)
(* get-or-create of a user's address, the lookup a claim starts with, and  *)
(* cancel-all, for either of its two stores: Redis and the process's own   *)
(* memory.                                                                 *)
(*                                                                         *)
(* Source: src/src/ethereum_pool.rs, with its callers in api.rs and        *)
(* ethereum.rs.                                                            *)
(*                                                                         *)
(* Unlike the Solana pool it keeps no index and takes no lock per user:    *)
(* the assignments are searched one GET at a time.  Every Redis command is *)
(* a step of its own.  An address is a number and the numbers are in the   *)
(* order the strings sort in; the key of a new wallet is random, so it can *)
(* be any number that is not taken yet.                                    *)
(***************************************************************************)
EXTENDS Integers, FiniteSets, SequencesExt

CONSTANTS
    Users,
    NoUser,      \* the user of an address nobody has
    Callers,     \* requests in flight
    Addrs,       \* the keys the random generator can draw
    InitPool,    \* ETH_WALLET_POOL_SIZE
    MaxPool,     \* ETH_MAX_POOL_SIZE
    MaxTrouble   \* bound: faults and cancel-all requests together

ASSUME PoolAssumption ==
    /\ NoUser \notin Users
    /\ Addrs \subseteq Nat \ {0}
    /\ IsFiniteSet(Addrs)
    /\ InitPool \in 1 .. MaxPool
    /\ MaxPool \in 1 .. Cardinality(Addrs)
    /\ MaxTrouble \in Nat

NoAddr == 0

VARIABLES
    store,       \* where the assignments are kept: "redis" or "memory"
    assignment,  \* <chain>:assignment:<addr>
    pool,        \* the wallets in memory, in pool order
    file,        \* the wallets in the pool file
    fileState,   \* "missing", "torn" (not all written) or "whole"
    synced,      \* the pool file has been flushed to the disk
    lost,        \* the wallets of pool files that a power loss took
    phase,       \* how far the start of the server has come
    pc,
    loc,         \* the locals of each request
    given,       \* the addresses each user was told
    overlapped,  \* users who had two get-or-create requests in flight at a time
    crashes,
    faults,      \* Redis errors and failed writes of the file
    cancels      \* cancel-all requests that have deleted the assignments

fileVars == <<file, fileState, synced, lost>>
poolVars == <<pool, fileVars, phase>>
history == <<given, overlapped>>
bounds == <<crashes, faults, cancels>>
vars == <<store, assignment, poolVars, pc, loc, history, bounds>>

----------------------------------------------------------------------------
(* Data *)

Locals == [op : {"none", "assign", "load", "cancel"}, user : Users \cup {NoUser},
           keys : SUBSET Addrs, found : SUBSET Addrs,
           candidates : SeqOf(Addrs, MaxPool), addr : Addrs \cup {NoAddr}]
InitLocals == [op |-> "none", user |-> NoUser, keys |-> {}, found |-> {},
               candidates |-> <<>>, addr |-> NoAddr]

\* Mutant: SET without NX.
AlwaysFree(a) == TRUE

\* SET NX succeeds; contains_key is false.
Free(a) == assignment[a] = NoUser

Assigned == {a \in Addrs : assignment[a] # NoUser}
Of(u) == {a \in Addrs : assignment[a] = u}

\* Mutant: the SCAN ends with its first batch, which may be empty.
FirstBatch == {}

\* scan_reservation_keys: SCAN until the cursor is back at zero.
ScanKeys == Assigned

\* load_active_ethereum_reservations sorts by address; the first one is taken.
First(addrs) == Min(addrs)

Goto(c, label) == pc' = [pc EXCEPT ![c] = label]
SetLocals(c, l) == loc' = [loc EXCEPT ![c] = l]
Finish(c) == Goto(c, "idle") /\ SetLocals(c, InitLocals)

\* The request ends and tells its user an address.
Answer(c, a) == /\ Finish(c)
                /\ given' = [given EXCEPT ![loc[c].user] = @ \cup {a}]
                /\ UNCHANGED overlapped

\* A cancel-all counts from its start.
Cancelling == {c \in Callers : loc[c].op = "cancel"}
CalmEnough == crashes + faults + cancels + Cardinality(Cancelling) < MaxTrouble
Fault(happens) == /\ happens => CalmEnough
                  /\ faults' = IF happens THEN faults + 1 ELSE faults
                  /\ UNCHANGED <<crashes, cancels>>

----------------------------------------------------------------------------
(* load_ethereum_wallet_pool, before the server listens *)

\* generate_ethereum_wallet_pool_json: InitPool random wallets, none of them seen
\* before.
Generated == {s \in SeqOf(Addrs, InitPool) :
                 /\ Len(s) = InitPool /\ IsInjective(s)
                 /\ Range(s) \cap lost = {}}

\* No file: it is created empty...
CreateFile ==
    /\ phase = "boot" /\ fileState = "missing"
    /\ fileState' = "torn"
    /\ phase' = "fill"
    /\ UNCHANGED <<store, assignment, pool, file, synced, lost, pc, loc, history, bounds>>

\* ... and then written, but not flushed: no sync_all, no sync of its directory.
\* The wallets in memory are those of the data written.
FillFile ==
    /\ phase = "fill"
    /\ \E wallets \in Generated : file' = wallets /\ pool' = wallets
    /\ fileState' = "whole"
    /\ phase' = "serve"
    /\ UNCHANGED <<store, assignment, synced, lost, pc, loc, history, bounds>>

LoadFile ==
    /\ phase = "boot" /\ fileState = "whole"
    /\ pool' = file
    /\ phase' = "serve"
    /\ UNCHANGED <<store, assignment, fileVars, pc, loc, history, bounds>>

\* A file that was created and never written does not parse: the server does
\* not start until an operator has removed it.
RefuseFile ==
    /\ phase = "boot" /\ fileState = "torn"
    /\ phase' = "refused"
    /\ UNCHANGED <<store, assignment, pool, fileVars, pc, loc, history, bounds>>

OperatorRemovesFile ==
    /\ phase = "refused"
    /\ fileState' = "missing"
    /\ phase' = "boot"
    /\ UNCHANGED <<store, assignment, pool, file, synced, lost, pc, loc, history, bounds>>

----------------------------------------------------------------------------
(* assign_ethereum_wallet_for_user and load_ethereum_assignment_for_user *)

InFlight(u) == \E c \in Callers : loc[c].op = "assign" /\ loc[c].user = u

Start(c, u, op) ==
    /\ phase = "serve" /\ pc[c] = "idle"
    /\ SetLocals(c, [InitLocals EXCEPT !.op = op, !.user = u])
    /\ Goto(c, IF store = "redis" THEN "scan" ELSE "lookup")
    /\ overlapped' = IF op = "assign" /\ InFlight(u) THEN overlapped \cup {u} ELSE overlapped
    /\ UNCHANGED <<store, assignment, poolVars, given, bounds>>

\* SCAN, for a search as for cancel-all.
Scan(c) ==
    /\ pc[c] = "scan"
    /\ SetLocals(c, [loc[c] EXCEPT !.keys = ScanKeys])
    /\ Goto(c, IF loc[c].op = "cancel" THEN "delete" ELSE "get")
    /\ UNCHANGED <<store, assignment, poolVars, history, bounds>>

\* GET of one of the keys; one deleted meanwhile is passed over.
GetKey(c) ==
    /\ pc[c] = "get"
    /\ \E a \in loc[c].keys :
         SetLocals(c, [loc[c] EXCEPT !.keys = @ \ {a},
                                     !.found = IF assignment[a] = loc[c].user
                                               THEN @ \cup {a} ELSE @])
    /\ UNCHANGED <<store, assignment, poolVars, pc, history, bounds>>

SearchDone(c) == pc[c] = "get" /\ loc[c].keys = {}

Existing(c) ==
    /\ SearchDone(c)
    /\ loc[c].found # {}
    /\ Answer(c, First(loc[c].found))
    /\ UNCHANGED <<store, assignment, poolVars, bounds>>

\* A claim of a user without an address is refused.
NoneToClaim(c) ==
    /\ SearchDone(c)
    /\ loc[c].found = {}
    /\ loc[c].op = "load"
    /\ Finish(c)
    /\ UNCHANGED <<store, assignment, poolVars, history, bounds>>

\* A copy of the wallets in memory, taken under the read lock.
Candidates(c) ==
    /\ SearchDone(c)
    /\ loc[c].found = {}
    /\ loc[c].op = "assign"
    /\ SetLocals(c, [loc[c] EXCEPT !.candidates = pool])
    /\ Goto(c, "claim")
    /\ UNCHANGED <<store, assignment, poolVars, history, bounds>>

\* SET NX of the next candidate.  An error ends the request; the command may
\* have been carried out all the same.
Claim(c) ==
    /\ pc[c] = "claim"
    /\ loc[c].candidates # <<>>
    /\ LET a == Head(loc[c].candidates)
       IN \E answered, done \in BOOLEAN :
            /\ answered => done
            /\ Fault(~answered)
            /\ assignment' = IF done /\ Free(a) THEN [assignment EXCEPT ![a] = loc[c].user]
                             ELSE assignment
            /\ CASE ~answered -> Finish(c) /\ UNCHANGED history
                 [] answered /\ Free(a) -> Answer(c, a)
                 [] OTHER -> /\ SetLocals(c, [loc[c] EXCEPT !.candidates = Tail(@)])
                             /\ UNCHANGED <<pc, history>>
    /\ UNCHANGED <<store, poolVars>>

----------------------------------------------------------------------------
(* grow_ethereum_pool, under the write lock *)

PoolExhausted(c) == \/ pc[c] = "claim" /\ loc[c].candidates = <<>>
                    \/ pc[c] = "grow"

\* Mutant: one wallet more than the maximum.
HasRoomForOneMore == Len(pool) <= MaxPool

HasRoom == Len(pool) < MaxPool

\* Mutant: the new wallet is not written to the file.
AppendNothing(a) == file

\* append_ethereum_wallet_to_pool_file reads the file and replaces it by one that
\* is flushed before and after it gets its name.
Appended(a) == Append(file, a)

Grow(c) ==
    /\ PoolExhausted(c)
    /\ HasRoom
    /\ \E a \in Addrs \ (Range(pool) \cup Range(file) \cup lost) :
         /\ file' = Appended(a)
         /\ pool' = Append(pool, a)
         /\ SetLocals(c, [loc[c] EXCEPT !.addr = a])
    /\ synced' = TRUE
    /\ Goto(c, IF store = "redis" THEN "register" ELSE "insert")
    /\ UNCHANGED <<store, assignment, fileState, lost, phase, history, bounds>>

\* The write of the file fails.
GrowFails(c) ==
    /\ PoolExhausted(c)
    /\ HasRoom
    /\ Fault(TRUE)
    /\ Finish(c)
    /\ UNCHANGED <<store, assignment, poolVars, history>>

PoolFull(c) ==
    /\ PoolExhausted(c)
    /\ ~HasRoom
    /\ Finish(c)
    /\ UNCHANGED <<store, assignment, poolVars, history, bounds>>

\* SET NX of the new wallet: another request may have found it in the pool and
\* claimed it already.
Register(c) ==
    /\ pc[c] = "register"
    /\ LET a == loc[c].addr
       IN \E answered, done \in BOOLEAN :
            /\ answered => done
            /\ Fault(~answered)
            /\ assignment' = IF done /\ Free(a) THEN [assignment EXCEPT ![a] = loc[c].user]
                             ELSE assignment
            /\ IF answered /\ Free(a) THEN Answer(c, a) ELSE Finish(c) /\ UNCHANGED history
    /\ UNCHANGED <<store, poolVars>>

----------------------------------------------------------------------------
(* The store in memory: one step per time its lock is held *)

MemoryExisting(c) ==
    /\ pc[c] = "lookup"
    /\ \E a \in Of(loc[c].user) : Answer(c, a)
    /\ UNCHANGED <<store, assignment, poolVars, bounds>>

MemoryNone(c) ==
    /\ pc[c] = "lookup"
    /\ loc[c].op = "load"
    /\ Of(loc[c].user) = {}
    /\ Finish(c)
    /\ UNCHANGED <<store, assignment, poolVars, history, bounds>>

FreeWallets == {i \in 1 .. Len(pool) : Free(pool[i])}

MemoryClaim(c) ==
    /\ pc[c] = "lookup"
    /\ loc[c].op = "assign"
    /\ Of(loc[c].user) = {}
    /\ IF FreeWallets # {}
       THEN LET a == pool[Min(FreeWallets)]
            IN assignment' = [assignment EXCEPT ![a] = loc[c].user] /\ Answer(c, a)
       ELSE Goto(c, "grow") /\ UNCHANGED <<assignment, loc, history>>
    /\ UNCHANGED <<store, poolVars, bounds>>

\* The lock was let go of for the growth, and the insertion asks no question.
MemoryInsert(c) ==
    /\ pc[c] = "insert"
    /\ assignment' = [assignment EXCEPT ![loc[c].addr] = loc[c].user]
    /\ Answer(c, loc[c].addr)
    /\ UNCHANGED <<store, poolVars, bounds>>

----------------------------------------------------------------------------
(* delete_all_ethereum_assignments *)

StartCancel(c) ==
    /\ phase = "serve" /\ pc[c] = "idle"
    /\ CalmEnough
    /\ IF store = "redis"
       THEN /\ SetLocals(c, [InitLocals EXCEPT !.op = "cancel"])
            /\ Goto(c, "scan")
            /\ UNCHANGED <<assignment, cancels>>
       ELSE /\ assignment' = [a \in Addrs |-> NoUser]
            /\ cancels' = cancels + 1
            /\ UNCHANGED <<pc, loc>>
    /\ UNCHANGED <<store, poolVars, history, crashes, faults>>

\* One DEL of all the keys found.
CancelDelete(c) ==
    /\ pc[c] = "delete"
    /\ assignment' = [a \in Addrs |-> IF a \in loc[c].keys THEN NoUser ELSE assignment[a]]
    /\ cancels' = cancels + 1
    /\ Finish(c)
    /\ UNCHANGED <<store, poolVars, history, crashes, faults>>

----------------------------------------------------------------------------
(* Failures *)

\* A SCAN, GET or DEL fails and ends the request.
RedisError(c) ==
    /\ \/ pc[c] \in {"scan", "delete"}
       \/ pc[c] = "get" /\ loc[c].keys # {}
    /\ Fault(TRUE)
    /\ Finish(c)
    /\ UNCHANGED <<store, assignment, poolVars, history>>

\* The process dies, and the store in memory with it.
Dies ==
    /\ CalmEnough
    /\ crashes' = crashes + 1
    /\ pool' = <<>>
    /\ phase' = "boot"
    /\ assignment' = IF store = "redis" THEN assignment ELSE [a \in Addrs |-> NoUser]
    /\ pc' = [c \in Callers |-> "idle"]
    /\ loc' = [c \in Callers |-> InitLocals]
    /\ UNCHANGED <<store, history, faults, cancels>>

Crash == Dies /\ UNCHANGED fileVars

\* The machine loses power: a file that was never flushed may be gone, or empty
\* or cut short.  (One that survives is the case of Crash.)
PowerLoss ==
    /\ Dies
    /\ fileState # "missing" /\ ~synced
    /\ fileState' \in {"missing", "torn"}
    /\ file' = <<>>
    /\ lost' = lost \cup Range(file)
    /\ UNCHANGED synced

----------------------------------------------------------------------------

\* The first start, without a file, or a later one: the pool may have grown, by
\* which its file was flushed, and a user may have several assignments, made by
\* requests that overlapped.
Init ==
    /\ store \in {"redis", "memory"}
    /\ \/ fileState = "missing" /\ file = <<>> /\ synced = FALSE
       \/ /\ fileState = "whole" /\ synced \in BOOLEAN
          /\ file \in {s \in SeqOf(Addrs, MaxPool) : Len(s) >= InitPool /\ IsInjective(s)}
          /\ Len(file) > InitPool => synced
    /\ lost = {}
    /\ \E owner \in [Range(file) -> Users \cup {NoUser}] :
         assignment = [a \in Addrs |->
             IF store = "redis" /\ a \in Range(file) THEN owner[a] ELSE NoUser]
    /\ pool = <<>>
    /\ phase = "boot"
    /\ pc = [c \in Callers |-> "idle"]
    /\ loc = [c \in Callers |-> InitLocals]
    /\ given = [u \in Users |-> {}]
    /\ overlapped = {}
    /\ crashes = 0
    /\ faults = 0
    /\ cancels = 0

Boot == CreateFile \/ FillFile \/ LoadFile \/ RefuseFile \/ OperatorRemovesFile
Search(c) == Scan(c) \/ GetKey(c) \/ Existing(c) \/ NoneToClaim(c) \/ Candidates(c)
Take(c) == Claim(c) \/ Grow(c) \/ GrowFails(c) \/ PoolFull(c) \/ Register(c)
Memory(c) == MemoryExisting(c) \/ MemoryNone(c) \/ MemoryClaim(c) \/ MemoryInsert(c)

Next ==
    \/ Boot \/ Crash \/ PowerLoss
    \/ \E c \in Callers :
         \/ \E u \in Users : Start(c, u, "assign") \/ Start(c, u, "load")
         \/ StartCancel(c)
         \/ Search(c) \/ Take(c) \/ Memory(c) \/ CancelDelete(c) \/ RedisError(c)

Spec == Init /\ [][Next]_vars

----------------------------------------------------------------------------
(* Properties *)

Labels == {"idle", "scan", "get", "claim", "register", "lookup", "grow", "insert", "delete"}

\* The type invariant; ETH_MAX_POOL_SIZE bounds both wallet lists, however many
\* requests grow the pool at a time.
TypeOK ==
    /\ store \in {"redis", "memory"}
    /\ assignment \in [Addrs -> Users \cup {NoUser}]
    /\ pool \in SeqOf(Addrs, MaxPool)
    /\ file \in SeqOf(Addrs, MaxPool)
    /\ fileState \in {"missing", "torn", "whole"}
    /\ synced \in BOOLEAN
    /\ lost \subseteq Addrs
    /\ phase \in {"boot", "fill", "refused", "serve"}
    /\ pc \in [Callers -> Labels]
    /\ loc \in [Callers -> Locals]
    /\ given \in [Users -> SUBSET Addrs]
    /\ overlapped \subseteq Users
    /\ crashes \in Nat /\ faults \in Nat /\ cancels \in Nat

\* "Permanent assignment of a managed EVM wallet to a single user"
\* (ethereum_pool.rs:60), with Redis: until an admin cancels everything, an
\* address somebody was told stays his, whatever requests race over a wallet the
\* pool has just grown by, and whatever fails.
AttributionKept ==
    store = "redis" /\ cancels = 0 => \A u \in Users : given[u] \subseteq Of(u)

\* With Redis the assignments keep the promise of AddressBook.
Book == INSTANCE AddressBook WITH
            owner <- [a \in Addrs |-> IF store = "redis" THEN assignment[a] ELSE NoUser],
            cancels <- IF store = "redis" THEN cancels ELSE 0
BookSpec == Book!Spec

\* append_ethereum_wallet_to_pool_file: "this file is the only copy of the new
\* wallet's private key, and the caller reserves the address for a user right
\* after".  The key of an address somebody was told is in the file, through failed
\* writes, crashes and power losses, unless it was of a first file that was never
\* flushed: create_ethereum_wallet_pool_file does not, and a power loss may take
\* that file.
KeyOnDisk == \A u \in Users : given[u] \subseteq Range(file) \cup lost

\* The same without the exception.  It fails: the first file is filled, a user is
\* told one of its addresses, and the power goes.
KeyNeverLost == \A u \in Users : given[u] \subseteq Range(file)

\* assign_ethereum_wallet_for_user "returns the same address every call".  There
\* is no lock per user, so this is for a user who never had two requests in
\* flight, with Redis; it includes a request that failed after its SET was carried
\* out, a restart, and an earlier release's several assignments of one user.
SameAddress ==
    store = "redis" /\ cancels = 0 =>
        \A u \in Users \ overlapped : Cardinality(given[u]) <= 1

\* The same sentence as AttributionKept, for the store in memory of a process
\* that never dies.  It fails: the insertion of a grown wallet overwrites what a
\* request in between has claimed.
AttributionKeptInMemory ==
    store = "memory" /\ cancels = 0 /\ crashes = 0 =>
        \A u \in Users : given[u] \subseteq Of(u)

====
