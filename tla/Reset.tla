------------------------------- MODULE Reset --------------------------------
(***************************************************************************)
(* The offline, journaled reset: the maintenance binary that archives and  *)
(* replaces a chain's files and Redis assignments, retried under the same  *)
(* operation id until it is done, and the daemons it must keep out.        *)
(*                                                                         *)
(* Source: src/src/reset.rs (execute_at, prepare, commit, detector_guard). *)
(*                                                                         *)
(* A durable_write and a Redis command are steps; the process may end,     *)
(* killed or with an error, between any two.  The file lock is advisory    *)
(* and dies with its process: run is the one maintenance process, up the   *)
(* daemons.  The bytes of a file or the value of a key are a version: two  *)
(* writes never produce the same one.                                      *)
(***************************************************************************)
EXTENDS Integers, FiniteSets

CONSTANTS
    Chains,
    Files,        \* state files and wallet pools (or wallet generations)
    Keys,         \* assignment keys in Redis
    ChainOf,      \* the chain of each file and key
    Selections,   \* sets of chains an operator may ask for
    Ops,          \* operation ids
    NoOp,
    Daemons,      \* processes of the API and the standalone detector
    MaxVersion,   \* bound: versions daemons and other hosts write
    MaxExits      \* bound: maintenance processes that end early

Items == Files \cup Keys
FilesOf(sel) == {f \in Files : ChainOf[f] \in sel}
KeysOf(sel) == {k \in Keys : ChainOf[k] \in sel}

ASSUME ResetAssumption ==
    /\ Files \cap Keys = {}
    /\ ChainOf \in [Items -> Chains]
    /\ Selections \subseteq SUBSET Chains
    /\ NoOp \notin Ops
    /\ MaxVersion \in Nat
    /\ MaxExits \in Nat

VARIABLES
    content,   \* the version of each file and key; 0 if it does not exist
    version,   \* the last version written
    archive,   \* archives/<id>/archive.json
    receipts,  \* operations with an archives/<id>/complete
    pending,   \* pending.json
    up,        \* daemons that hold the shared lock
    run,       \* the operation of the process that holds the exclusive lock
    sel,       \* its selection
    pc,
    journal,   \* its journal in memory
    left,      \* chains whose keys its commit has still to scan
    todo,      \* items its commit has still to visit
    erased,    \* versions a reset replaced or deleted
    touched,   \* items each operation replaced or deleted
    exits

disk == <<archive, receipts, pending>>
process == <<run, sel, pc, journal, left, todo>>
history == <<erased, touched>>
vars == <<content, version, disk, up, process, history, exits>>

----------------------------------------------------------------------------
(* Data *)

\* before and after of the files; the values of the archived keys in before.
Journal == [sel : SUBSET Chains, before : [Items -> Nat], after : [Items -> Nat]]
NoJournal == [sel |-> {}, before |-> [i \in Items |-> 0], after |-> [i \in Items |-> 0]]
Archived(op) == archive[op] # NoJournal

\* prepare: what is there now, and new versions of the files.
Prepared(s, fresh) ==
    [sel |-> s,
     before |-> [i \in Items |-> IF ChainOf[i] \in s THEN content[i] ELSE 0],
     after |-> [i \in Items |-> IF i \in FilesOf(s) THEN fresh ELSE 0]]

\* Mutant: a file that was written before the interruption is refused.
UntouchedBefore(j, f) == content[f] = j.before[f]

\* commit accepts a file as it was archived, or as it is to become.
Untouched(j, f) == content[f] \in {j.before[f], j.after[f]}

\* Compare-and-delete accepts a key as it was archived, or gone.
Deletable(j, k) == content[k] \in {0, j.before[k]}

Exited == /\ run' = NoOp
          /\ sel' = {}
          /\ pc' = "off"
          /\ journal' = NoJournal
          /\ left' = {}
          /\ todo' = {}
Goto(label) == pc' = label /\ UNCHANGED <<run, sel, journal>>
Replace(i, v) == /\ content' = [content EXCEPT ![i] = v]
                 /\ erased' = erased \cup {<<i, content[i]>>}
                 /\ touched' = [touched EXCEPT ![run] = @ \cup {i}]

----------------------------------------------------------------------------
(* Daemons and other writers *)

\* Mutant: the journal does not block the daemons.
GuardIgnoresJournal == run = NoOp

\* detector_guard: the shared lock, and no interrupted reset.
GuardPasses == run = NoOp /\ pending = NoOp

DaemonStart(d) ==
    /\ d \notin up
    /\ GuardPasses
    /\ up' = up \cup {d}
    /\ UNCHANGED <<content, version, disk, process, history, exits>>

DaemonStop(d) ==
    /\ d \in up
    /\ up' = up \ {d}
    /\ UNCHANGED <<content, version, disk, process, history, exits>>

\* A daemon saves its state, grows its pool or assigns an address.
DaemonWrite(i) ==
    /\ up # {}
    /\ version < MaxVersion
    /\ version' = version + 1
    /\ content' = [content EXCEPT ![i] = version']
    /\ UNCHANGED <<disk, up, process, history, exits>>

\* Redis is not behind the file lock: another host may assign an address there,
\* and a reservation of an older release expires.
ForeignAssign(k) ==
    /\ version < MaxVersion
    /\ version' = version + 1
    /\ content' = [content EXCEPT ![k] = version']
    /\ UNCHANGED <<disk, up, process, history, exits>>

KeyExpires(k) ==
    /\ content[k] # 0
    /\ content' = [content EXCEPT ![k] = 0]
    /\ UNCHANGED <<version, disk, up, process, history, exits>>

----------------------------------------------------------------------------
(* execute_at *)

\* Mutant: the receipt is not looked at.
NoReceipt(op) == FALSE

HasReceipt(op) == op \in receipts

\* Mutant: a live daemon is not in the way.
LockIgnoresDaemons == run = NoOp

LockFree == run = NoOp /\ up = {}

\* The exclusive lock, and the refusals that change nothing.
Invoke(op, s) ==
    /\ LockFree
    /\ pending \in {NoOp, op}
    /\ run' = op
    /\ sel' = s
    /\ UNCHANGED <<left, todo>>
    /\ IF HasReceipt(op)
       THEN archive[op].sel = s /\ pc' = "unmark" /\ UNCHANGED journal
       ELSE IF Archived(op)
       THEN archive[op].sel = s /\ pc' = "mark" /\ journal' = archive[op]
       ELSE pending = NoOp /\ pc' = "prepare" /\ UNCHANGED journal
    /\ UNCHANGED <<content, version, disk, up, history, exits>>

Prepare ==
    /\ pc = "prepare"
    /\ version' = version + 1
    /\ journal' = Prepared(sel, version')
    /\ pc' = "archive"
    /\ UNCHANGED <<content, disk, up, run, sel, left, todo, history, exits>>

\* Mutant: the archive is written without what was there before.
ArchiveAfterOnly(j) == [j EXCEPT !.before = j.after]

\* The journal as archive.json keeps it.
Manifest(j) == j

WriteArchive ==
    /\ pc = "archive"
    /\ archive' = [archive EXCEPT ![run] = Manifest(journal)]
    /\ Goto("mark")
    /\ UNCHANGED <<content, version, receipts, pending, up, left, todo, history, exits>>

WritePending ==
    /\ pc = "mark"
    /\ pending' = run
    /\ Goto("verify")
    /\ UNCHANGED <<content, version, archive, receipts, up, left, todo, history, exits>>

\* commit: all the files are checked first; a mismatch ends the process.
VerifyFiles ==
    /\ pc = "verify"
    /\ \A f \in FilesOf(sel) : Untouched(journal, f)
    /\ left' = sel
    /\ Goto("keys")
    /\ UNCHANGED <<content, version, disk, up, todo, history, exits>>

\* One chain after the other: the SCAN must find no key that is not archived ...
Unarchived(c) == {k \in KeysOf({c}) : journal.before[k] = 0 /\ content[k] # 0}

ScanKeys(c) ==
    /\ pc = "keys" /\ c \in left
    /\ Unarchived(c) = {}
    /\ left' = left \ {c}
    /\ todo' = {k \in KeysOf({c}) : journal.before[k] # 0}
    /\ Goto("delete")
    /\ UNCHANGED <<content, version, disk, up, history, exits>>

\* ... then the archived ones are deleted.
DeleteKey(k) ==
    /\ pc = "delete" /\ k \in todo
    /\ Deletable(journal, k)
    /\ IF content[k] = 0 THEN UNCHANGED <<content, history>> ELSE Replace(k, 0)
    /\ todo' = todo \ {k}
    /\ UNCHANGED <<version, disk, up, run, sel, pc, journal, left, exits>>

KeysDone ==
    /\ pc = "delete" /\ todo = {}
    /\ IF left = {}
       THEN todo' = FilesOf(sel) /\ Goto("write")
       ELSE Goto("keys") /\ UNCHANGED todo
    /\ UNCHANGED <<content, version, disk, up, left, history, exits>>

WriteFile(f) ==
    /\ pc = "write" /\ f \in todo
    /\ Replace(f, journal.after[f])
    /\ todo' = todo \ {f}
    /\ UNCHANGED <<version, disk, up, run, sel, pc, journal, left, exits>>

WriteReceipt ==
    /\ pc = "write" /\ todo = {}
    /\ receipts' = receipts \cup {run}
    /\ Goto("unmark")
    /\ UNCHANGED <<content, version, archive, pending, up, left, todo, history, exits>>

RemovePending ==
    /\ pc = "unmark"
    /\ pending' = IF pending = run THEN NoOp ELSE pending
    /\ Exited
    /\ UNCHANGED <<content, version, archive, receipts, up, history, exits>>

\* commit refuses what somebody else changed: the journal stays.
Refuse ==
    /\ \/ pc = "verify" /\ \E f \in FilesOf(sel) : ~Untouched(journal, f)
       \/ pc = "keys" /\ \E c \in left : Unarchived(c) # {}
       \/ pc = "delete" /\ \E k \in todo : ~Deletable(journal, k)
    /\ Exited
    /\ UNCHANGED <<content, version, disk, up, history, exits>>

\* The process is killed, or a write, Redis or a provider fails, or the
\* configuration is no longer the archived one.
Exit ==
    /\ run # NoOp
    /\ exits < MaxExits
    /\ exits' = exits + 1
    /\ Exited
    /\ UNCHANGED <<content, version, disk, up, history>>

----------------------------------------------------------------------------

Init ==
    /\ content \in [Items -> {0, 1}]
    /\ version = 1
    /\ archive = [op \in Ops |-> NoJournal]
    /\ receipts = {}
    /\ pending = NoOp
    /\ up = {}
    /\ run = NoOp
    /\ sel = {}
    /\ pc = "off"
    /\ journal = NoJournal
    /\ left = {}
    /\ todo = {}
    /\ erased = {}
    /\ touched = [op \in Ops |-> {}]
    /\ exits = 0

Outside == \/ \E d \in Daemons : DaemonStart(d) \/ DaemonStop(d)
           \/ \E i \in Items : DaemonWrite(i)
           \/ \E k \in Keys : ForeignAssign(k) \/ KeyExpires(k)
ResetStep == \/ Prepare \/ WriteArchive \/ WritePending \/ VerifyFiles
             \/ KeysDone \/ WriteReceipt \/ RemovePending \/ Refuse
             \/ \E c \in Chains : ScanKeys(c)
             \/ \E k \in Keys : DeleteKey(k)
             \/ \E f \in Files : WriteFile(f)

Next ==
    \/ Outside \/ ResetStep \/ Exit
    \/ \E op \in Ops, s \in Selections : Invoke(op, s)

Spec == Init /\ [][Next]_vars

\* A maintenance process runs on, and after a failure the operator retries the
\* same operation with the same selection (docs/reset.md).
Fairness ==
    /\ WF_vars(ResetStep)
    /\ \A op \in Ops, s \in Selections : WF_vars(pending = op /\ Invoke(op, s))
FairSpec == Spec /\ Fairness

----------------------------------------------------------------------------
(* Properties *)

Labels == {"off", "prepare", "archive", "mark", "verify", "keys", "delete", "write", "unmark"}

\* The type invariant of the storage and of the maintenance process, which runs
\* while no daemon does.
TypeOK ==
    /\ content \in [Items -> Nat]
    /\ version \in Nat
    /\ archive \in [Ops -> Journal]
    /\ receipts \subseteq Ops
    /\ pending \in Ops \cup {NoOp}
    /\ up \subseteq Daemons
    /\ run \in Ops \cup {NoOp}
    /\ sel \in SUBSET Chains
    /\ pc \in Labels
    /\ journal \in Journal
    /\ left \subseteq Chains
    /\ todo \subseteq Items
    /\ erased \subseteq Items \X Nat
    /\ touched \in [Ops -> SUBSET Items]
    /\ exits \in Nat
    /\ run # NoOp => up = {}
    /\ run = NoOp <=> pc = "off"

\* docs/reset.md: old keys and assignments are archived before any replacement.
\* Every version of a file or an assignment that a reset replaced is in an
\* archive, or was itself written by a reset: through crashes, retries, daemons
\* started in between and assignments made behind the lock.
NothingLost ==
    \A e \in erased : e[2] # 0 =>
        \E op \in Ops : e[2] \in {archive[op].before[e[1]], archive[op].after[e[1]]}

\* "A pending journal blocks daemons": while one is up, no reset is half done;
\* what an operation began to replace it has replaced, down to the receipt.
DaemonSeesWholeReset ==
    up # {} => \A op \in Ops : touched[op] = {} \/ op \in receipts

\* "A receipt makes an initContainer retry idempotent": once a finished reset has
\* cleared its journal, no retry of it reopens it, changes a file or deletes a key.
FinishedForGood ==
    [][\A op \in receipts : /\ pending' = op => pending = op
                            /\ touched'[op] = touched[op]]_vars

\* Nobody else has changed what the operation archived.
Intact(op) ==
    LET j == archive[op]
    IN /\ \A f \in FilesOf(j.sel) : content[f] \in {j.before[f], j.after[f]}
       /\ \A k \in KeysOf(j.sel) : content[k] \in {0, j.before[k]}

\* An interrupted reset that is retried is finished in the end, unless somebody
\* changed its files or keys behind it.
ResumeFinishes ==
    \A op \in Ops : pending = op ~> (pending # op \/ ~Intact(op))

\* execute_at: "A crash between durable archive and pending marker is also
\* resumable."  The files of an operation whose journal blocks the daemons are as
\* it archived them or as it is to leave them, so that commit accepts them.
JournalResumable ==
    \A op \in Ops : (pending = op /\ run = NoOp /\ op \notin receipts) =>
        \A f \in FilesOf(archive[op].sel) :
            content[f] \in {archive[op].before[f], archive[op].after[f]}

====
