----------------------------- MODULE ResetProofs -----------------------------
(***************************************************************************)
(* Proofs about Reset for every set of chains, files, keys, operations and *)
(* daemons, any number of interrupted processes and any number of writes.  *)
(***************************************************************************)
EXTENDS Reset, TLAPS

Committing == pc \in {"verify", "keys", "delete", "write"}
Unfinished == pc \in {"prepare", "archive", "mark"} \/ Committing

\* A daemon runs only while no journal is pending; a journal stays pending until
\* its operation, once it has replaced something, has its receipt.
JournalInv ==
    /\ up # {} => pending = NoOp
    /\ \A op \in Ops : touched[op] # {} => op \in receipts \/ pending = op
    /\ run # NoOp => pending \in {NoOp, run}
    /\ Committing => pending = run
    /\ Unfinished => run \notin receipts
    /\ pc = "unmark" => run \in receipts

\* An archive is written once, and what a process works by is the archived journal.
ArchiveInv ==
    /\ pc \in {"prepare", "archive"} => archive[run] = NoJournal
    /\ pc = "mark" \/ Committing => journal = archive[run]

\* From the check of the files on nobody else writes them.
CommitInv ==
    /\ pc \in {"keys", "delete", "write"} => \A f \in FilesOf(sel) : Untouched(journal, f)
    /\ pc = "delete" => todo \subseteq Keys
    /\ pc = "write" => todo \subseteq FilesOf(sel)

----------------------------------------------------------------------------
(* The type invariant *)

LEMMA NoJournalType == NoJournal \in Journal
  BY DEF NoJournal, Journal

LEMMA JournalType ==
    ASSUME NEW j \in Journal
    PROVE  /\ j.sel \subseteq Chains
           /\ \A i \in Items : j.before[i] \in Nat /\ j.after[i] \in Nat
  BY DEF Journal

LEMMA PreparedType ==
    ASSUME TypeOK, NEW s \in SUBSET Chains, NEW fresh \in Nat
    PROVE  Prepared(s, fresh) \in Journal
  <1>1. [i \in Items |-> IF ChainOf[i] \in s THEN content[i] ELSE 0] \in [Items -> Nat]
    BY DEF TypeOK
  <1>2. [i \in Items |-> IF i \in FilesOf(s) THEN fresh ELSE 0] \in [Items -> Nat]
    OBVIOUS
  <1> QED BY <1>1, <1>2 DEF Prepared, Journal

LEMMA ExitedType ==
    ASSUME TypeOK, Exited, UNCHANGED <<content, version, receipts, archive, up, history>>,
           pending' \in Ops \cup {NoOp}, exits' \in Nat
    PROVE  TypeOK'
  BY NoJournalType DEF TypeOK, Exited, Labels, history

LEMMA ReplaceType ==
    ASSUME TypeOK, run # NoOp, NEW i \in Items, NEW v \in Nat, Replace(i, v)
    PROVE  /\ content' \in [Items -> Nat] /\ erased' \subseteq Items \X Nat
           /\ touched' \in [Ops -> SUBSET Items]
  BY DEF TypeOK, Replace

LEMMA OutsideType == TypeOK /\ Outside => TypeOK'
  <1> SUFFICES ASSUME TypeOK, Outside PROVE TypeOK'
    OBVIOUS
  <1> USE DEF TypeOK, disk, process, history
  <1>1. ASSUME NEW d \in Daemons, DaemonStart(d) PROVE TypeOK'
    BY <1>1 DEF DaemonStart, GuardPasses
  <1>2. ASSUME NEW d \in Daemons, DaemonStop(d) PROVE TypeOK'
    BY <1>2 DEF DaemonStop
  <1>3. ASSUME NEW i \in Items, DaemonWrite(i) PROVE TypeOK'
    BY <1>3 DEF DaemonWrite
  <1>4. ASSUME NEW k \in Keys, ForeignAssign(k) PROVE TypeOK'
    <2>1. version' \in Nat
      BY <1>4 DEF ForeignAssign
    <2>2. content' = [content EXCEPT ![k] = version']
      BY <1>4 DEF ForeignAssign
    <2>3. content' \in [Items -> Nat]
      BY <2>1, <2>2
    <2> QED BY <1>4, <2>1, <2>3 DEF ForeignAssign
  <1>5. ASSUME NEW k \in Keys, KeyExpires(k) PROVE TypeOK'
    BY <1>5 DEF KeyExpires
  <1> QED BY <1>1, <1>2, <1>3, <1>4, <1>5, Zenon DEF Outside

LEMMA InvokeType ==
    ASSUME TypeOK, NEW op \in Ops, NEW s \in Selections, Invoke(op, s)
    PROVE  TypeOK'
  <1>1. s \in SUBSET Chains /\ op # NoOp
    BY ResetAssumption
  <1>2. pc' \in {"unmark", "mark", "prepare"} /\ journal' \in {journal, archive[op]}
    BY DEF Invoke
  <1>3. journal' \in Journal /\ pc' \in Labels /\ pc' # "off" /\ up = {}
    BY <1>2 DEF TypeOK, Labels, Invoke, LockFree
  <1> QED BY <1>1, <1>3 DEF Invoke, TypeOK, disk, history

LEMMA ResetStepType == TypeOK /\ ResetStep => TypeOK'
  <1> SUFFICES ASSUME TypeOK, ResetStep PROVE TypeOK'
    OBVIOUS
  <1> USE DEF disk, history, Goto, Labels
  <1>0. pc # "off" => run \in Ops /\ run # NoOp /\ up = {}
    BY DEF TypeOK
  <1>1. CASE Prepare
    <2>1. journal' \in Journal /\ version' \in Nat
      BY <1>1, PreparedType DEF Prepare, TypeOK
    <2> QED BY <1>1, <2>1 DEF Prepare, TypeOK
  <1>2. CASE WriteArchive
    BY <1>0, <1>2 DEF WriteArchive, Manifest, TypeOK
  <1>3. CASE WritePending
    BY <1>0, <1>3 DEF WritePending, TypeOK
  <1>4. CASE VerifyFiles
    BY <1>0, <1>4 DEF VerifyFiles, TypeOK
  <1>5. CASE KeysDone
    BY <1>0, <1>5 DEF KeysDone, TypeOK, FilesOf, Items
  <1>6. CASE WriteReceipt
    BY <1>0, <1>6 DEF WriteReceipt, TypeOK
  <1>7. CASE RemovePending
    BY <1>7, ExitedType DEF RemovePending, TypeOK
  <1>8. CASE Refuse
    BY <1>8, ExitedType DEF Refuse, TypeOK
  <1>9. ASSUME NEW c \in Chains, ScanKeys(c) PROVE TypeOK'
    BY <1>0, <1>9 DEF ScanKeys, TypeOK, KeysOf, Items
  <1>10. ASSUME NEW k \in Keys, DeleteKey(k) PROVE TypeOK'
    <2>1. /\ content' \in [Items -> Nat] /\ erased' \subseteq Items \X Nat
          /\ touched' \in [Ops -> SUBSET Items]
      BY <1>0, <1>10, ReplaceType DEF DeleteKey, TypeOK, Items
    <2> QED BY <1>10, <2>1 DEF DeleteKey, TypeOK
  <1>11. ASSUME NEW f \in Files, WriteFile(f) PROVE TypeOK'
    <2>0. f \in Items /\ journal.after[f] \in Nat
      BY JournalType DEF TypeOK, Items
    <2>1. /\ content' \in [Items -> Nat] /\ erased' \subseteq Items \X Nat
          /\ touched' \in [Ops -> SUBSET Items]
      BY <1>0, <1>11, <2>0, ReplaceType DEF WriteFile
    <2> QED BY <1>11, <2>1 DEF WriteFile, TypeOK
  <1> QED BY <1>1, <1>2, <1>3, <1>4, <1>5, <1>6, <1>7, <1>8, <1>9, <1>10, <1>11 DEF ResetStep

LEMMA TypeInit == Init => TypeOK
  <1> SUFFICES ASSUME Init PROVE TypeOK
    OBVIOUS
  <1>1. content \in [Items -> Nat]
    BY DEF Init
  <1> QED BY <1>1, NoJournalType DEF Init, TypeOK, Labels

LEMMA TypeNext == TypeOK /\ [Next]_vars => TypeOK'
  <1> SUFFICES ASSUME TypeOK, [Next]_vars PROVE TypeOK'
    OBVIOUS
  <1>1. CASE Exit
    BY <1>1, ExitedType DEF Exit, TypeOK, disk
  <1>2. CASE UNCHANGED vars
    BY <1>2 DEF vars, disk, process, history, TypeOK
  <1> QED BY <1>1, <1>2, OutsideType, InvokeType, ResetStepType DEF Next

\* Files, keys, archives and markers keep their types, and the exclusive lock
\* of the maintenance process keeps the daemons out.
THEOREM TypeCorrect == Spec => []TypeOK
  BY TypeInit, TypeNext, PTL DEF Spec

----------------------------------------------------------------------------
(* The pending journal *)

LEMMA JournalNext == TypeOK /\ JournalInv /\ [Next]_vars => JournalInv'
  <1> SUFFICES ASSUME TypeOK, JournalInv, [Next]_vars PROVE JournalInv'
    OBVIOUS
  <1> USE DEF JournalInv, Committing, Unfinished, disk, process, history, Goto
  <1>0. /\ pc # "off" => run \in Ops /\ run # NoOp /\ up = {}
        /\ touched \in [Ops -> SUBSET Items] /\ NoOp \notin Ops
    BY ResetAssumption DEF TypeOK
  <1>1. CASE Outside
    BY <1>1 DEF Outside, DaemonStart, DaemonStop, DaemonWrite, ForeignAssign, KeyExpires, GuardPasses
  <1>2. CASE Exit
    BY <1>0, <1>2 DEF Exit, Exited
  <1>3. ASSUME NEW op \in Ops, NEW s \in Selections, Invoke(op, s) PROVE JournalInv'
    BY <1>0, <1>3 DEF Invoke, LockFree, HasReceipt
  <1>4. CASE Prepare \/ WriteArchive
    BY <1>0, <1>4 DEF Prepare, WriteArchive
  <1>5. CASE WritePending
    BY <1>0, <1>5 DEF WritePending
  <1>6. CASE VerifyFiles \/ KeysDone \/ \E c \in Chains : ScanKeys(c)
    BY <1>0, <1>6 DEF VerifyFiles, KeysDone, ScanKeys
  <1>7. CASE (\E k \in Keys : DeleteKey(k)) \/ \E f \in Files : WriteFile(f)
    <2>1. /\ pc \in {"delete", "write"}
          /\ UNCHANGED <<pc, run, up, disk>>
          /\ \A op \in Ops \ {run} : touched'[op] = touched[op]
      BY <1>0, <1>7 DEF DeleteKey, WriteFile, Replace
    <2> QED BY <1>0, <2>1
  <1>8. CASE WriteReceipt
    BY <1>0, <1>8 DEF WriteReceipt
  <1>9. CASE RemovePending
    BY <1>0, <1>9 DEF RemovePending, Exited
  <1>10. CASE Refuse
    BY <1>0, <1>10 DEF Refuse, Exited
  <1>11. CASE UNCHANGED vars
    BY <1>11 DEF vars
  <1> QED BY <1>1, <1>2, <1>3, <1>4, <1>5, <1>6, <1>7, <1>8, <1>9, <1>10, <1>11 DEF Next, ResetStep

LEMMA JournalInit == Init => JournalInv
  BY DEF Init, JournalInv, Committing, Unfinished

\* docs/reset.md: a pending journal blocks the daemons.  While one is up, what any
\* reset began to replace it has replaced, down to the receipt.
THEOREM WholeResetSeen == Spec => []DaemonSeesWholeReset
  <1>1. TypeOK /\ JournalInv => DaemonSeesWholeReset
    BY ResetAssumption DEF TypeOK, JournalInv, DaemonSeesWholeReset
  <1> QED BY <1>1, TypeInit, TypeNext, JournalInit, JournalNext, PTL DEF Spec

\* docs/reset.md: a receipt makes a retry idempotent.  A retry of a finished reset
\* neither reopens its journal nor replaces or deletes anything.
THEOREM ReceiptIsFinal == Spec => FinishedForGood
  <1> DEFINE Final == \A op \in receipts : /\ pending' = op => pending = op
                                           /\ touched'[op] = touched[op]
  <1>1. TypeOK /\ JournalInv /\ [Next]_vars => [Final]_vars
    <2> SUFFICES ASSUME TypeOK, JournalInv, Next, NEW op \in receipts
                 PROVE  (pending' = op => pending = op) /\ touched'[op] = touched[op]
      OBVIOUS
    <2>0. op \in Ops /\ op # NoOp /\ touched \in [Ops -> SUBSET Items] /\ run \in Ops \cup {NoOp}
      BY ResetAssumption DEF TypeOK
    <2>1. CASE WritePending \/ (\E k \in Keys : DeleteKey(k)) \/ \E f \in Files : WriteFile(f)
      <3>1. run # op
        BY <2>1 DEF WritePending, DeleteKey, WriteFile, JournalInv, Unfinished, Committing
      <3> QED BY <2>0, <2>1, <3>1 DEF WritePending, DeleteKey, WriteFile, Replace, disk, history
    <2>2. CASE RemovePending
      BY <2>0, <2>2 DEF RemovePending, history
    <2>3. CASE Outside \/ Exit \/ \E o \in Ops, s \in Selections : Invoke(o, s)
      BY <2>3 DEF Outside, DaemonStart, DaemonStop, DaemonWrite, ForeignAssign, KeyExpires, Exit,
                  Invoke, disk, history
    <2>4. CASE \/ Prepare \/ WriteArchive \/ VerifyFiles \/ KeysDone \/ WriteReceipt \/ Refuse
               \/ \E c \in Chains : ScanKeys(c)
      BY <2>4 DEF Prepare, WriteArchive, VerifyFiles, KeysDone, WriteReceipt, Refuse, ScanKeys,
                  disk, history
    <2> QED BY <2>1, <2>2, <2>3, <2>4 DEF Next, ResetStep
  <1> QED BY <1>1, TypeInit, TypeNext, JournalInit, JournalNext, PTL DEF Spec, FinishedForGood

----------------------------------------------------------------------------
(* What a reset replaces is archived. *)

LEMMA ArchiveInit == Init => ArchiveInv
  BY DEF Init, ArchiveInv, Committing

LEMMA ArchiveNext == TypeOK /\ ArchiveInv /\ [Next]_vars => ArchiveInv'
  <1> SUFFICES ASSUME TypeOK, ArchiveInv, [Next]_vars PROVE ArchiveInv'
    OBVIOUS
  <1> USE DEF ArchiveInv, Committing, disk, process, history, Goto
  <1>0. archive \in [Ops -> Journal] /\ (pc # "off" => run \in Ops)
    BY DEF TypeOK
  <1>1. CASE Outside
    BY <1>1 DEF Outside, DaemonStart, DaemonStop, DaemonWrite, ForeignAssign, KeyExpires
  <1>2. CASE Exit \/ RemovePending \/ Refuse
    BY <1>2 DEF Exit, RemovePending, Refuse, Exited
  <1>3. ASSUME NEW op \in Ops, NEW s \in Selections, Invoke(op, s) PROVE ArchiveInv'
    BY <1>3 DEF Invoke, Archived
  <1>4. CASE Prepare
    BY <1>4 DEF Prepare
  <1>5. CASE WriteArchive
    BY <1>0, <1>5 DEF WriteArchive, Manifest
  <1>6. CASE WritePending \/ VerifyFiles \/ KeysDone \/ WriteReceipt
    BY <1>6 DEF WritePending, VerifyFiles, KeysDone, WriteReceipt
  <1>7. CASE \/ \E c \in Chains : ScanKeys(c)
             \/ \E k \in Keys : DeleteKey(k)
             \/ \E f \in Files : WriteFile(f)
    BY <1>7 DEF ScanKeys, DeleteKey, WriteFile
  <1>8. CASE UNCHANGED vars
    BY <1>8 DEF vars
  <1> QED BY <1>1, <1>2, <1>3, <1>4, <1>5, <1>6, <1>7, <1>8 DEF Next, ResetStep

LEMMA CommitInit == Init => CommitInv
  BY DEF Init, CommitInv

LEMMA CommitNext == TypeOK /\ CommitInv /\ [Next]_vars => CommitInv'
  <1> SUFFICES ASSUME TypeOK, CommitInv, [Next]_vars PROVE CommitInv'
    OBVIOUS
  <1> USE DEF CommitInv, disk, process, history, Goto
  <1>0. /\ content \in [Items -> Nat] /\ Files \cap Keys = {} /\ Items = Files \cup Keys
        /\ \A s : FilesOf(s) \subseteq Files /\ KeysOf(s) \subseteq Keys
        /\ pc # "off" => up = {}
    BY ResetAssumption DEF TypeOK, Items, FilesOf, KeysOf
  \* Untouched looks at the content of the file and at the journal, no more.
  <1>a. ASSUME UNCHANGED <<journal, sel>>, \A f \in Files : content'[f] = content[f],
               \A f \in FilesOf(sel) : Untouched(journal, f)
        PROVE  \A f \in FilesOf(sel)' : Untouched(journal, f)'
    BY <1>0, <1>a DEF Untouched, FilesOf
  <1>1. CASE \E d \in Daemons : DaemonStart(d) \/ DaemonStop(d)
    <2>1. UNCHANGED <<content, pc, journal, sel, todo>>
      BY <1>1 DEF DaemonStart, DaemonStop
    <2> QED BY <2>1 DEF Untouched, FilesOf
  <1>2. ASSUME NEW i \in Items, DaemonWrite(i) PROVE CommitInv'
    BY <1>0, <1>2 DEF DaemonWrite
  <1>3. ASSUME NEW k \in Keys, ForeignAssign(k) \/ KeyExpires(k) PROVE CommitInv'
    <2>1. UNCHANGED <<pc, journal, sel, todo>> /\ \A f \in Files : content'[f] = content[f]
      BY <1>0, <1>3 DEF ForeignAssign, KeyExpires
    <2>2. FilesOf(sel)' = FilesOf(sel)
      BY <2>1 DEF FilesOf
    <2> QED BY <1>a, <2>1, <2>2
  <1>4. CASE Exit \/ RemovePending \/ Refuse
    BY <1>4 DEF Exit, RemovePending, Refuse, Exited
  <1>5. CASE \/ Prepare \/ WriteArchive \/ WritePending \/ WriteReceipt
             \/ \E op \in Ops, s \in Selections : Invoke(op, s)
    BY <1>5 DEF Prepare, WriteArchive, WritePending, WriteReceipt, Invoke
  <1>6. CASE VerifyFiles
    BY <1>6 DEF VerifyFiles, Untouched, FilesOf
  <1>7. ASSUME NEW c \in Chains, ScanKeys(c) PROVE CommitInv'
    <2>1. /\ UNCHANGED <<content, journal, sel>> /\ pc = "keys" /\ pc' = "delete"
          /\ todo' \subseteq Keys
      BY <1>0, <1>7 DEF ScanKeys
    <2> QED BY <1>a, <2>1
  <1>8. CASE KeysDone
    <2>1. /\ UNCHANGED <<content, journal, sel>> /\ pc = "delete"
          /\ pc' = "keys" \/ (pc' = "write" /\ todo' = FilesOf(sel))
      BY <1>8 DEF KeysDone
    <2>2. FilesOf(sel)' = FilesOf(sel)
      BY <2>1 DEF FilesOf
    <2> QED BY <1>a, <2>1, <2>2
  <1>9. ASSUME NEW k \in Keys, DeleteKey(k) PROVE CommitInv'
    <2>1. /\ UNCHANGED <<pc, journal, sel>> /\ pc = "delete" /\ todo' \subseteq todo
          /\ \A f \in Files : content'[f] = content[f]
      BY <1>0, <1>9 DEF DeleteKey, Replace
    <2> QED BY <1>a, <2>1
  <1>10. ASSUME NEW f \in Files, WriteFile(f) PROVE CommitInv'
    <2>1. /\ UNCHANGED <<pc, journal, sel>> /\ pc = "write" /\ todo' \subseteq todo
          /\ \A g \in Files : content'[g] = IF g = f THEN journal.after[f] ELSE content[g]
      BY <1>0, <1>10 DEF WriteFile, Replace
    <2>2. FilesOf(sel)' = FilesOf(sel)
      BY <2>1 DEF FilesOf
    <2> QED BY <1>0, <2>1, <2>2 DEF Untouched
  <1>11. CASE UNCHANGED vars
    BY <1>11 DEF vars, Untouched, FilesOf
  <1> QED BY <1>1, <1>2, <1>3, <1>4, <1>5, <1>6, <1>7, <1>8, <1>9, <1>10, <1>11
          DEF Next, Outside, ResetStep

\* What is in an archive stays there.
LEMMA LostStep ==
    ASSUME NothingLost, NEW i, NEW v,
           \A op \in Ops : archive[op] = NoJournal \/ archive'[op] = archive[op],
           erased' \subseteq erased \cup {<<i, v>>}, erased \subseteq Items \X Nat,
           <<i, v>> \in erased \/ v = 0 \/
             \E op \in Ops : v \in {archive'[op].before[i], archive'[op].after[i]}
    PROVE  NothingLost'
  <1> SUFFICES ASSUME NEW e \in erased', e[2] # 0
               PROVE  \E op \in Ops : e[2] \in {archive'[op].before[e[1]], archive'[op].after[e[1]]}
    BY DEF NothingLost
  <1>1. CASE e \in erased
    <2>1. e[1] \in Items
      BY <1>1
    <2>2. PICK op \in Ops : e[2] \in {archive[op].before[e[1]], archive[op].after[e[1]]}
      BY <1>1 DEF NothingLost
    <2>3. archive[op] # NoJournal
      BY <2>1, <2>2 DEF NoJournal
    <2> QED BY <2>2, <2>3
  <1>2. CASE e \notin erased
    BY <1>2
  <1> QED BY <1>1, <1>2

LEMMA LostNext ==
    TypeOK /\ ArchiveInv /\ CommitInv /\ NothingLost /\ [Next]_vars => NothingLost'
  <1> SUFFICES ASSUME TypeOK, ArchiveInv, CommitInv, NothingLost, [Next]_vars PROVE NothingLost'
    OBVIOUS
  <1>0. /\ erased \subseteq Items \X Nat /\ archive \in [Ops -> Journal]
        /\ pc # "off" => run \in Ops
    BY DEF TypeOK
  <1>1. CASE WriteArchive
    <2>1. erased' = erased /\ \A op \in Ops : archive[op] = NoJournal \/ archive'[op] = archive[op]
      BY <1>0, <1>1 DEF WriteArchive, ArchiveInv, history
    <2>2. erased' \subseteq erased \cup {<<0, 0>>}
      BY <2>1
    <2> QED BY <1>0, <2>1, <2>2, LostStep
  <1>2. ASSUME NEW k \in Keys, DeleteKey(k) PROVE NothingLost'
    <2>1. /\ pc = "delete" /\ content[k] \in {0, journal.before[k]} /\ archive' = archive
          /\ erased' \subseteq erased \cup {<<k, content[k]>>}
      BY <1>2 DEF DeleteKey, Deletable, Replace, disk, history
    <2>2. journal = archive[run] /\ run \in Ops
      BY <1>0, <2>1 DEF ArchiveInv, Committing
    <2> QED BY <1>0, <2>1, <2>2, LostStep
  <1>3. ASSUME NEW f \in Files, WriteFile(f) PROVE NothingLost'
    <2>1. /\ pc = "write" /\ f \in todo /\ archive' = archive
          /\ erased' \subseteq erased \cup {<<f, content[f]>>}
      BY <1>3 DEF WriteFile, Replace, disk
    <2>2. journal = archive[run] /\ run \in Ops
      BY <1>0, <2>1 DEF ArchiveInv, Committing
    <2>3. content[f] \in {journal.before[f], journal.after[f]}
      BY <2>1 DEF CommitInv, Untouched
    <2> QED BY <1>0, <2>1, <2>2, <2>3, LostStep
  <1>4. CASE UNCHANGED <<archive, erased>>
    BY <1>4 DEF NothingLost
  <1>5. CASE \/ Outside \/ Exit \/ (\E op \in Ops, s \in Selections : Invoke(op, s))
             \/ UNCHANGED vars
    BY <1>4, <1>5, Zenon DEF Outside, DaemonStart, DaemonStop, DaemonWrite, ForeignAssign, KeyExpires,
                      Exit, Invoke, vars, disk, history
  <1>6. CASE \/ Prepare \/ WritePending \/ VerifyFiles \/ KeysDone \/ WriteReceipt
             \/ RemovePending \/ Refuse \/ \E c \in Chains : ScanKeys(c)
    BY <1>4, <1>6, Zenon DEF Prepare, WritePending, VerifyFiles, KeysDone, WriteReceipt, RemovePending,
                      Refuse, ScanKeys, disk, history
  <1> QED BY <1>1, <1>2, <1>3, <1>5, <1>6 DEF Next, ResetStep

\* docs/reset.md: old keys and assignments are archived before any replacement.
\* Whatever a reset ever replaced or deleted is in an archive.
THEOREM ArchivedBeforeReplaced == Spec => []NothingLost
  <1>1. Init => NothingLost
    BY DEF Init, NothingLost
  <1> QED BY <1>1, TypeInit, TypeNext, ArchiveInit, ArchiveNext, CommitInit, CommitNext, LostNext,
             PTL DEF Spec
====
