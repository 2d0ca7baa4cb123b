----------------------------- MODULE WalletPool -----------------------------
(***************************************************************************)
(* The Solana deposit-address pool: get-or-create, rotation, lookup,       *)
(* cancel-all and the boot consolidation, run by concurrent HTTP requests  *)
(* over the keys in Redis, the wallet list in memory and the pool file.    *)
(*                                                                         *)
(* Source: src/src/solana_pool.rs, with its callers in api.rs.             *)
(*                                                                         *)
(* Every Redis command is a step of its own: other requests run between    *)
(* any two.  Wallets are numbered in pool order, so the list in memory is  *)
(* 1 .. pool and the one in the file 1 .. file.                            *)
(***************************************************************************)
EXTENDS Integers, FiniteSets

CONSTANTS
    Users,
    NoUser,      \* the user of an address nobody has
    Callers,     \* requests in flight
    InitPool,    \* bound: wallets in the file at the first start
    MaxPool,     \* SOLANA_MAX_POOL_SIZE
    MaxClock,    \* bound: seconds that pass
    MaxTrouble   \* bound: faults, stalls and cancel-all requests together

ASSUME PoolAssumption ==
    /\ NoUser \notin Users
    /\ InitPool \in Nat \ {0}
    /\ MaxPool \in Nat
    /\ InitPool <= MaxPool
    /\ MaxClock \in Nat
    /\ MaxTrouble \in Nat

NoAddr == 0
Addrs == 1 .. MaxPool

VARIABLES
    assignment,  \* solana:assignment:<addr>
    index,       \* solana:user_assignment:<user>
    locked,      \* users with a solana:user_assignment_lock:<user>
    pool,        \* wallets in memory
    file,        \* wallets in the pool file
    phase,       \* how far the start of the server has come
    groups,      \* users that consolidate_assignments has still to do
    pc,
    loc,         \* the locals of each request
    given,       \* the addresses each user was told to pay to
    clock,
    faults,      \* crashes, Redis errors, failed writes of the file
    stalls,      \* locks that expired under a slow holder
    cancels      \* cancel-all requests that have deleted the assignments

redisVars == <<assignment, index, locked>>
poolVars == <<pool, file>>
bootVars == <<phase, groups>>
bounds == <<clock, faults, stalls, cancels>>
vars == <<redisVars, poolVars, bootVars, pc, loc, given, bounds>>

----------------------------------------------------------------------------
(* Data *)

\* SolanaReservation; None is a key that does not exist.
Payload == [user : Users, at : Nat, dormant : BOOLEAN]
None == [user |-> NoUser, at |-> 0, dormant |-> FALSE]
NewPayload(u, now) == [user |-> u, at |-> now, dormant |-> FALSE]

\* via: what a read of the index is for.  The fast path, the wait for the lock
\* and the check under it (assign), a rotation, or a lookup.
Locals == [op : {"none", "assign", "rotate", "load", "cancel"}, user : Users \cup {NoUser},
           via : {"fast", "wait", "held", "rotate", "load"}, now : Nat,
           addr : Addrs \cup {NoAddr}, old : Payload \cup {None}, last : 0 .. MaxPool,
           keys : SUBSET Addrs, users : SUBSET Users, locks : SUBSET Users]
InitLocals == [op |-> "none", user |-> NoUser, via |-> "fast", now |-> 0, addr |-> NoAddr,
               old |-> None, last |-> 0, keys |-> {}, users |-> {}, locks |-> {}]

\* Mutant: SET without NX.
AlwaysFree(a) == TRUE

\* SET NX of an assignment succeeds.
Free(a) == assignment[a] = None

Active(u) == {a \in Addrs : assignment[a].user = u /\ ~assignment[a].dormant}

\* The order by reserved_at_unix, then by address.
Earlier(a, b) == \/ assignment[a].at < assignment[b].at
                 \/ assignment[a].at = assignment[b].at /\ a <= b
Canonical(u) == CHOOSE a \in Active(u) : \A b \in Active(u) : Earlier(a, b)

Goto(c, label) == pc' = [pc EXCEPT ![c] = label]
SetLocals(c, l) == loc' = [loc EXCEPT ![c] = l]
Finish(c) == Goto(c, "idle") /\ SetLocals(c, InitLocals)

\* The request ends, and tells its user the address it found, if any.
Return(c) == /\ Finish(c)
             /\ given' = IF loc[c].addr = NoAddr THEN given
                         ELSE [given EXCEPT ![loc[c].user] = @ \cup {loc[c].addr}]

\* A cancel-all counts from its start.
Cancelling == {c \in Callers : loc[c].op = "cancel"}
CalmEnough == faults + stalls + cancels + Cardinality(Cancelling) < MaxTrouble
Fault(happens) == /\ happens => CalmEnough
                  /\ faults' = IF happens THEN faults + 1 ELSE faults

----------------------------------------------------------------------------
(* consolidate_assignments, before the server listens *)

BootLoad ==
    /\ phase = "boot"
    /\ groups' = {u \in Users : Active(u) # {}}
    /\ phase' = IF groups' = {} THEN "ready" ELSE "consolidate"
    /\ UNCHANGED <<redisVars, poolVars, pc, loc, given, bounds>>

\* Mutant: no duplicate is found.
NoDuplicates(u) == {}

Duplicates(u) == Active(u) \ {Canonical(u)}

BootArchive(u) ==
    /\ phase = "consolidate" /\ u \in groups
    /\ \E a \in Duplicates(u) :
         assignment' = [assignment EXCEPT ![a].dormant = TRUE]
    /\ UNCHANGED <<index, locked, poolVars, bootVars, pc, loc, given, bounds>>

\* Once the duplicates are archived, the index points at the canonical one.
BootIndex(u) ==
    /\ phase = "consolidate" /\ u \in groups
    /\ Duplicates(u) = {}
    /\ index' = [index EXCEPT ![u] = Canonical(u)]
    /\ groups' = groups \ {u}
    /\ phase' = IF groups' = {} THEN "ready" ELSE phase
    /\ UNCHANGED <<assignment, locked, poolVars, pc, loc, given, bounds>>

\* The start goes on without consolidation when Redis fails.
BootError ==
    /\ phase \in {"boot", "consolidate"}
    /\ Fault(TRUE)
    /\ phase' = "serve"
    /\ groups' = {}
    /\ UNCHANGED <<redisVars, poolVars, pc, loc, given, clock, stalls, cancels>>

Listen ==
    /\ phase = "ready"
    /\ phase' = "serve"
    /\ UNCHANGED <<redisVars, poolVars, groups, pc, loc, given, bounds>>

----------------------------------------------------------------------------
(* Reading the index and the payload it points at *)

StartAssign(c, u) ==
    /\ phase = "serve" /\ pc[c] = "idle"
    /\ SetLocals(c, [InitLocals EXCEPT !.op = "assign", !.user = u, !.now = clock])
    /\ Goto(c, "index")
    /\ UNCHANGED <<redisVars, poolVars, bootVars, given, bounds>>

StartRotate(c, u) ==
    /\ phase = "serve" /\ pc[c] = "idle"
    /\ SetLocals(c, [InitLocals EXCEPT !.op = "rotate", !.user = u])
    /\ Goto(c, "lock")
    /\ UNCHANGED <<redisVars, poolVars, bootVars, given, bounds>>

\* load_assignment_for_user, for /solana/claim and recoveries.
StartLoad(c, u) ==
    /\ phase = "serve" /\ pc[c] = "idle"
    /\ SetLocals(c, [InitLocals EXCEPT !.op = "load", !.user = u, !.via = "load"])
    /\ Goto(c, "index")
    /\ UNCHANGED <<redisVars, poolVars, bootVars, given, bounds>>

\* Where the request goes on when there is no index, or no payload behind it.
NoIndex(via) == CASE via \in {"fast", "wait"} -> "lock"
                  [] via = "held" -> "candidates"
                  [] via = "rotate" -> "release"
                  [] via = "load" -> "scan"
NoPayload(via) == IF via \in {"fast", "load"} THEN "unindex" ELSE NoIndex(via)

ReadIndex(c) ==
    /\ pc[c] = "index"
    /\ LET a == index[loc[c].user]
       IN /\ Goto(c, IF a = NoAddr THEN NoIndex(loc[c].via) ELSE "payload")
          /\ SetLocals(c, [loc[c] EXCEPT !.addr = a])
    /\ UNCHANGED <<redisVars, poolVars, bootVars, given, bounds>>

\* A rotation and a lookup do not take a dormant payload; assign does.
Usable(via, p) == p # None /\ (via \in {"rotate", "load"} => ~p.dormant)

PayloadMissing(c) ==
    /\ pc[c] = "payload"
    /\ ~Usable(loc[c].via, assignment[loc[c].addr])
    /\ Goto(c, NoPayload(loc[c].via))
    /\ SetLocals(c, [loc[c] EXCEPT !.addr = NoAddr])
    /\ UNCHANGED <<redisVars, poolVars, bootVars, given, bounds>>

PayloadFound(c) ==
    /\ pc[c] = "payload"
    /\ LET p == assignment[loc[c].addr]
       IN /\ Usable(loc[c].via, p)
          /\ CASE loc[c].via = "rotate" ->
                    /\ Goto(c, "archive")
                    /\ SetLocals(c, [loc[c] EXCEPT !.old = p])
                    /\ UNCHANGED given
               [] loc[c].via = "held" -> Goto(c, "release") /\ UNCHANGED <<loc, given>>
               [] OTHER -> Return(c)
    /\ UNCHANGED <<redisVars, poolVars, bootVars, bounds>>

\* DEL of the index: a stale one (assign, lookup), or the one rotated away from.
\* The lookup does so without the lock.
UnIndex(c) ==
    /\ pc[c] = "unindex"
    /\ index' = [index EXCEPT ![loc[c].user] = NoAddr]
    /\ Goto(c, CASE loc[c].via = "fast" -> "lock"
                 [] loc[c].via = "load" -> "scan"
                 [] loc[c].via = "rotate" -> "candidates")
    /\ UNCHANGED <<assignment, locked, poolVars, bootVars, loc, given, bounds>>

\* The lookup's slow path.  The SCAN and the GET of every key are one step here:
\* whichever address of the user it reads, the others do not matter.
Scan(c) ==
    /\ pc[c] = "scan"
    /\ LET u == loc[c].user
       IN given' = IF Active(u) = {} THEN given
                   ELSE [given EXCEPT ![u] = @ \cup {Canonical(u)}]
    /\ Finish(c)
    /\ UNCHANGED <<redisVars, poolVars, bootVars, bounds>>

----------------------------------------------------------------------------
(* The per-user lock: a key with a time to live and no owner *)

LockTaken(c) ==
    /\ pc[c] = "lock"
    /\ loc[c].user \notin locked
    /\ locked' = locked \cup {loc[c].user}
    /\ SetLocals(c, [loc[c] EXCEPT !.via = IF loc[c].op = "assign" THEN "held" ELSE "rotate"])
    /\ Goto(c, "index")
    /\ UNCHANGED <<assignment, index, poolVars, bootVars, given, bounds>>

\* assign looks at the index between two attempts; a rotation just tries again.
LockBusy(c) ==
    /\ pc[c] = "lock"
    /\ loc[c].user \in locked
    /\ loc[c].op = "assign"
    /\ SetLocals(c, [loc[c] EXCEPT !.via = "wait"])
    /\ Goto(c, "index")
    /\ UNCHANGED <<redisVars, poolVars, bootVars, given, bounds>>

\* The last of the attempts failed.
LockGivenUp(c) ==
    /\ pc[c] = "lock"
    /\ loc[c].user \in locked
    /\ Finish(c)
    /\ UNCHANGED <<redisVars, poolVars, bootVars, given, bounds>>

Holds(c) == loc[c].via \in {"held", "rotate"}

\* release_user_lock deletes the key, whoever set it; an error is only logged.
Release(c) ==
    /\ pc[c] = "release"
    /\ \E ok \in BOOLEAN :
         /\ locked' = IF ok THEN locked \ {loc[c].user} ELSE locked
         /\ Fault(~ok)
    /\ Return(c)
    /\ UNCHANGED <<assignment, index, poolVars, bootVars, clock, stalls, cancels>>

\* USER_LOCK_TTL_SECS have passed.
LockExpires(u) ==
    /\ u \in locked
    /\ locked' = locked \ {u}
    /\ LET held == \E c \in Callers : Holds(c) /\ loc[c].user = u
       IN /\ held => CalmEnough
          /\ stalls' = IF held THEN stalls + 1 ELSE stalls
    /\ UNCHANGED <<assignment, index, poolVars, bootVars, pc, loc, given, clock, faults, cancels>>

----------------------------------------------------------------------------
(* claim_first_unassigned_wallet, and what its two callers do around it *)

\* The old payload, as it was read, is written back as dormant.
Archive(c) ==
    /\ pc[c] = "archive"
    /\ assignment' = [assignment EXCEPT ![loc[c].addr] = [loc[c].old EXCEPT !.dormant = TRUE]]
    /\ SetLocals(c, [loc[c] EXCEPT !.addr = NoAddr])
    /\ Goto(c, "unindex")
    /\ UNCHANGED <<index, locked, poolVars, bootVars, given, bounds>>

\* A copy of the list in memory; a rotation reads the time only here.
Candidates(c) ==
    /\ pc[c] = "candidates"
    /\ SetLocals(c, [loc[c] EXCEPT !.addr = NoAddr, !.last = pool,
                                   !.now = IF loc[c].op = "rotate" THEN clock ELSE @])
    /\ Goto(c, "claim")
    /\ UNCHANGED <<redisVars, poolVars, bootVars, given, bounds>>

\* SET NX of the next candidate.
Claim(c) ==
    /\ pc[c] = "claim"
    /\ loc[c].addr < loc[c].last
    /\ LET a == loc[c].addr + 1
       IN /\ assignment' = IF Free(a)
                           THEN [assignment EXCEPT ![a] = NewPayload(loc[c].user, loc[c].now)]
                           ELSE assignment
          /\ Goto(c, IF Free(a) THEN "publish" ELSE "claim")
          /\ SetLocals(c, [loc[c] EXCEPT !.addr = a, !.last = IF Free(a) THEN 0 ELSE @])
    /\ UNCHANGED <<index, locked, poolVars, bootVars, given, bounds>>

\* Mutant: one wallet more than the maximum.
HasRoomForOneMore == pool <= MaxPool

HasRoom == pool < MaxPool

\* Mutant: the new wallet is not written to the file.
AppendNothing(ok) == file

\* append_solana_wallet_to_pool_file
Appended(ok) == IF ok THEN file + 1 ELSE file

\* No candidate was free: a new wallet goes to the file, then to memory.
Grow(c) ==
    /\ pc[c] = "claim"
    /\ loc[c].addr = loc[c].last
    /\ HasRoom
    /\ \E ok \in BOOLEAN :
         /\ Fault(~ok)
         /\ file' = Appended(ok)
         /\ pool' = IF ok THEN pool + 1 ELSE pool
         /\ SetLocals(c, [loc[c] EXCEPT !.addr = IF ok THEN pool + 1 ELSE NoAddr])
         /\ Goto(c, IF ok THEN "register" ELSE "release")
    /\ UNCHANGED <<redisVars, bootVars, given, clock, stalls, cancels>>

PoolFull(c) ==
    /\ pc[c] = "claim"
    /\ loc[c].addr = loc[c].last
    /\ ~HasRoom
    /\ SetLocals(c, [loc[c] EXCEPT !.addr = NoAddr])
    /\ Goto(c, "release")
    /\ UNCHANGED <<redisVars, poolVars, bootVars, given, bounds>>

\* SET NX of the new wallet: another request may have claimed it already.
Register(c) ==
    /\ pc[c] = "register"
    /\ LET a == loc[c].addr
       IN IF Free(a)
          THEN /\ assignment' = [assignment EXCEPT ![a] = NewPayload(loc[c].user, loc[c].now)]
               /\ Goto(c, "publish")
               /\ UNCHANGED loc
          ELSE /\ SetLocals(c, [loc[c] EXCEPT !.addr = NoAddr])
               /\ Goto(c, "release")
               /\ UNCHANGED assignment
    /\ UNCHANGED <<index, locked, poolVars, bootVars, given, bounds>>

Publish(c) ==
    /\ pc[c] = "publish"
    /\ index' = [index EXCEPT ![loc[c].user] = loc[c].addr]
    /\ Goto(c, "release")
    /\ UNCHANGED <<assignment, locked, poolVars, bootVars, loc, given, bounds>>

----------------------------------------------------------------------------
(* delete_all_assignments *)

StartCancel(c) ==
    /\ phase = "serve" /\ pc[c] = "idle"
    /\ CalmEnough
    /\ SetLocals(c, [InitLocals EXCEPT !.op = "cancel", !.keys = {a \in Addrs : ~Free(a)}])
    /\ Goto(c, "keys")
    /\ UNCHANGED <<redisVars, poolVars, bootVars, given, bounds>>

CancelScan(c) ==
    /\ pc[c] = "keys"
    /\ SetLocals(c, [loc[c] EXCEPT !.users = {u \in Users : index[u] # NoAddr},
                                   !.locks = locked])
    /\ Goto(c, "delete")
    /\ UNCHANGED <<redisVars, poolVars, bootVars, given, bounds>>

\* One DEL of all the keys found.
CancelDelete(c) ==
    /\ pc[c] = "delete"
    /\ assignment' = [a \in Addrs |-> IF a \in loc[c].keys THEN None ELSE assignment[a]]
    /\ index' = [u \in Users |-> IF u \in loc[c].users THEN NoAddr ELSE index[u]]
    /\ locked' = locked \ loc[c].locks
    /\ cancels' = cancels + 1
    /\ Finish(c)
    /\ UNCHANGED <<poolVars, bootVars, given, clock, faults, stalls>>

----------------------------------------------------------------------------
(* Failures and time *)

\* A command fails: the request ends.  A rotation, and a failed claim, delete the
\* lock first; assign leaves it behind in the other places.
RedisError(c) ==
    /\ pc[c] \notin {"idle", "candidates", "release"}
    /\ pc[c] = "claim" => loc[c].addr < loc[c].last
    /\ Fault(TRUE)
    /\ IF loc[c].via = "rotate" \/ pc[c] \in {"claim", "register"}
       THEN Goto(c, "release") /\ SetLocals(c, [loc[c] EXCEPT !.addr = NoAddr])
       ELSE Finish(c)
    /\ UNCHANGED <<redisVars, poolVars, bootVars, given, clock, stalls, cancels>>

\* The process dies; the new one loads the wallets from the file.
Crash ==
    /\ Fault(TRUE)
    /\ pool' = file
    /\ phase' = "boot"
    /\ groups' = {}
    /\ pc' = [c \in Callers |-> "idle"]
    /\ loc' = [c \in Callers |-> InitLocals]
    /\ UNCHANGED <<redisVars, file, given, clock, stalls, cancels>>

Tick ==
    /\ clock < MaxClock
    /\ clock' = clock + 1
    /\ UNCHANGED <<redisVars, poolVars, bootVars, pc, loc, given, faults, stalls, cancels>>

----------------------------------------------------------------------------

\* Redis may hold assignments of a release that kept no index and gave one
\* user several addresses.
Init ==
    /\ file \in 1 .. InitPool
    /\ pool = file
    /\ \E owner \in [1 .. file -> Users \cup {NoUser}] :
         assignment = [a \in Addrs |->
             IF a <= file /\ owner[a] # NoUser THEN NewPayload(owner[a], 0) ELSE None]
    /\ index = [u \in Users |-> NoAddr]
    /\ locked = {}
    /\ phase = "boot"
    /\ groups = {}
    /\ pc = [c \in Callers |-> "idle"]
    /\ loc = [c \in Callers |-> InitLocals]
    /\ given = [u \in Users |-> {}]
    /\ clock = 0
    /\ faults = 0
    /\ stalls = 0
    /\ cancels = 0

Boot == BootLoad \/ BootError \/ Listen \/ \E u \in Users : BootArchive(u) \/ BootIndex(u)
Start(c) == \/ StartCancel(c)
            \/ \E u \in Users : StartAssign(c, u) \/ StartRotate(c, u) \/ StartLoad(c, u)
Lookup(c) == ReadIndex(c) \/ PayloadMissing(c) \/ PayloadFound(c) \/ UnIndex(c) \/ Scan(c)
Lock(c) == LockTaken(c) \/ LockBusy(c) \/ LockGivenUp(c) \/ Release(c)
Take(c) == \/ Archive(c) \/ Candidates(c) \/ Claim(c) \/ Grow(c) \/ PoolFull(c)
           \/ Register(c) \/ Publish(c)
Cancel(c) == CancelScan(c) \/ CancelDelete(c)

Next ==
    \/ Boot \/ Crash \/ Tick
    \/ \E u \in Users : LockExpires(u)
    \/ \E c \in Callers : Start(c) \/ Lookup(c) \/ Lock(c) \/ Take(c) \/ Cancel(c) \/ RedisError(c)

Spec == Init /\ [][Next]_vars

----------------------------------------------------------------------------
(* Properties *)

Labels == {"idle", "index", "payload", "unindex", "scan", "lock", "release", "archive",
           "candidates", "claim", "register", "publish", "keys", "delete"}

\* The type invariant of Redis, the wallet lists and the requests in flight.
TypeOK ==
    /\ assignment \in [Addrs -> Payload \cup {None}]
    /\ index \in [Users -> Addrs \cup {NoAddr}]
    /\ locked \subseteq Users
    /\ pool \in 0 .. MaxPool
    /\ file \in 0 .. MaxPool
    /\ phase \in {"boot", "consolidate", "ready", "serve"}
    /\ groups \subseteq Users
    /\ pc \in [Callers -> Labels]
    /\ loc \in [Callers -> Locals]
    /\ given \in [Users -> SUBSET Addrs]
    /\ clock \in Nat
    /\ faults \in Nat
    /\ stalls \in Nat
    /\ cancels \in Nat

\* rotate_assignment: "the address never gets reassigned to anyone else; late
\* deposits keep crediting user_id".  Until an admin cancels everything, an
\* address a user was ever told to pay to stays assigned to that user, whatever
\* requests race, locks expire, commands fail or processes die.
AttributionKept ==
    cancels = 0 => \A u \in Users : \A a \in given[u] : assignment[a].user = u

\* What the detector may rely on is AddressBook: an address is claimed while
\* nobody has it, and rewritten only after a cancel-all.
Book == INSTANCE AddressBook WITH owner <- [a \in Addrs |-> assignment[a].user]
BookSpec == Book!Spec

\* append_solana_wallet_to_pool_file: "this file is the only copy of the new
\* wallet's private key, and the caller reserves the address for a user right
\* after".  Nobody is given an address whose key is not in the file.
KeyOnDisk == \A u \in Users : \A a \in given[u] : a <= file

\* consolidate_assignments: once it has run to its end, every user has at most
\* one active address, and the index of each user with one points at it.
Consolidated ==
    phase = "ready" => \A u \in Users : Active(u) # {} => Active(u) = {index[u]}

\* assign_wallet_for_user: the lock is there "so two parallel callers for the
\* same user can't both assign different wallets".  With no fault, no expired
\* lock and no cancel-all, a user has at most one active address while served.
OneActiveAddress ==
    (phase = "serve" /\ faults = 0 /\ stalls = 0 /\ cancels = 0) =>
        \A u \in Users : Cardinality(Active(u)) <= 1

====
