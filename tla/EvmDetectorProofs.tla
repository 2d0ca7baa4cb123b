-------------------------- MODULE EvmDetectorProofs --------------------------
(***************************************************************************)
(* Proofs about EvmDetector for every set of payments, sources and tasks,  *)
(* every configuration and every bound: what is credited, and when, that   *)
(* the outbox implements PaymentOutbox, and that no payment is passed.     *)
(***************************************************************************)
EXTENDS EvmDetector, TLAPS

\* Where a task is at work on one entry of the queue.
EntryLabels == {"origin", "detect", "flag", "sweep", "credit", "record", "remove"}

\* A task at work has an entry.
EntryInv == \A t \in Tasks : pc[t] \in EntryLabels => loc[t].entry \in Entry

TypeInv == TypeOK /\ EntryInv

----------------------------------------------------------------------------
(* The helpers keep the types. *)

LEMMA Constants ==
    /\ AtLeastOne(MinConf) \in Nat \ {0} /\ AtLeastOne(MaxBlocks) \in Nat \ {0}
    /\ \A p \in Payments : AddrOf[p] \in Addrs /\ KindOf[p] \in Kinds
    /\ "native" \in Kinds /\ NoBlock \notin Nat /\ NoBlock \in Int
  BY BoundAssumption, PaymentAssumption DEF AtLeastOne, Addrs, Kinds, NoBlock

LEMMA IdType == TypeOK => \A p \in Payments : Id(p) \in EventIds
  BY DEF TypeOK, Id, EventIds

LEMMA PayeeType == \A id \in EventIds : id[1] \in Payments
  BY DEF EventIds

LEMMA SafeBlockType == \A n \in Nat : SafeBlock(n) \in Nat /\ SafeBlock(n) <= n
  BY Constants DEF SafeBlock, Higher

LEMMA PushType ==
    ASSUME NEW s \in Store, NEW f \in Found
    PROVE  Push(s, f) \in Store
  <1>1. [id |-> f.id, height |-> f.height, notified |-> FALSE] \in Entry
    BY DEF Found, Entry
  <1> QED BY <1>1 DEF Push, Store

LEMMA QueueHelperType ==
    ASSUME NEW s \in Store, NEW id \in EventIds, NEW h \in Nat
    PROVE  /\ Drop(s, id) \in Store
           /\ Ignore(s, id) \in Store
           /\ Notified(s, id) \in Store
           /\ MarkCredited(s, id) \in Store
           /\ Moved(s, id, h) \in Store
  <1>1. \A e \in s.pending : [e EXCEPT !.notified = TRUE] \in Entry /\ [e EXCEPT !.height = h] \in Entry
    BY DEF Store, Entry
  <1>2. Drop(s, id) \in Store /\ MarkCredited(s, id) \in Store
    BY DEF Store, Drop, MarkCredited
  <1>3. Ignore(s, id) \in Store
    BY DEF Store, Ignore, Drop
  <1>4. Notified(s, id) \in Store /\ Moved(s, id, h) \in Store
    BY <1>1 DEF Store, Notified, Moved
  <1> QED BY <1>2, <1>3, <1>4

LEMMA CursorType ==
    ASSUME NEW s \in Store, NEW k \in Kinds, NEW n \in Nat
    PROVE  /\ SetCursor(s, k, n) \in Store
           /\ WithCursors(s, n) \in Store
           /\ InitialCursor(n) \in Nat \cup {NoBlock}
           /\ From(s, k, n) \in Nat
           /\ \A m \in Nat : End(m, n) \in Nat /\ End(m, n) <= n
  <1>1. InitialCursor(n) \in Nat \cup {NoBlock}
    BY BoundAssumption DEF InitialCursor
  <1>2. Higher(s.cursor[k], n) \in Nat
    BY DEF Store, Higher, NoBlock
  <1>3. SetCursor(s, k, n) \in Store
    BY <1>2 DEF SetCursor, Store
  <1>4. WithCursors(s, n) \in Store
    BY <1>1 DEF WithCursors, Store
  <1>5. From(s, k, n) \in Nat
    BY BoundAssumption DEF From, Store
  <1>6. \A m \in Nat : End(m, n) \in Nat /\ End(m, n) <= n
    BY Constants DEF End, Lower
  <1> QED BY <1>1, <1>3, <1>4, <1>5, <1>6

LEMMA ChunkType ==
    ASSUME NEW l \in Locals
    PROVE  ChunkEnd(l) \in Nat /\ ChunkEnd(l) <= l.end
  <1>1. l.kind \in Kinds /\ l.next \in Nat /\ l.end \in Nat
    BY DEF Locals
  <1>2. Chunk(l.kind) \in Nat \ {0}
    BY <1>1, Constants, BoundAssumption DEF Chunk, Kinds
  <1> QED BY <1>1, <1>2 DEF ChunkEnd, Lower

LEMMA SeenType ==
    ASSUME TypeOK, NEW l \in Locals
    PROVE  Seen(l) \subseteq Found /\ New(mem, Seen(l)) \subseteq Found
  BY IdType DEF Seen, New, Found, TypeOK

LEMMA InitLocalsType == InitLocals \in Locals
  BY Constants DEF InitLocals, Locals, NoEntry

LEMMA LocalsType ==
    ASSUME TypeInv, NEW t \in Tasks
    PROVE  /\ EntryDone(t) \in Locals
           /\ SecondPass(t) \in Locals
           /\ [loc[t] EXCEPT !.kind = AfterKind(loc[t].kind), !.next = 0,
                             !.end = 0, !.found = {}, !.partial = FALSE] \in Locals
  <1>1. loc[t] \in Locals
    BY DEF TypeInv, TypeOK
  <1>2. EntryDone(t) \in Locals
    BY <1>1 DEF EntryDone, Done, Locals, NoEntry
  <1>3. SecondPass(t) \in Locals
    BY <1>1, Constants DEF SecondPass, Locals
  <1>4. AfterKind(loc[t].kind) \in Kinds
    BY DEF AfterKind, Kinds
  <1> QED BY <1>1, <1>2, <1>3, <1>4 DEF Locals

----------------------------------------------------------------------------
(* The type invariant *)

\* What a step of task t needs to show: the others stand still.
LEMMA TaskStep ==
    ASSUME TypeInv, NEW t \in Tasks, NEW label \in Labels, NEW l \in Locals,
           At(t, label, l), label \in EntryLabels => l.entry \in Entry
    PROVE  pc' \in [Tasks -> Labels] /\ loc' \in [Tasks -> Locals] /\ EntryInv'
  BY DEF TypeInv, TypeOK, At, Goto, Set, EntryInv

\* A save leaves the file well typed.
LEMMA SaveType ==
    ASSUME TypeInv, mem' \in Store, NEW saved \in BOOLEAN, Save(saved)
    PROVE  disk' \in Store /\ faults' \in Nat
  BY DEF TypeInv, TypeOK, Save, Fault

LEMMA ErrorType ==
    ASSUME TypeInv, NEW happens \in BOOLEAN
    PROVE  (Error(happens) => errors' \in Nat) /\ (Fault(happens) => faults' \in Nat)
  BY DEF TypeInv, TypeOK, Error, Fault

\* Leaving a source, or the scan.
LEMMA LeaveType ==
    ASSUME TypeInv, NEW t \in Tasks, LeaveKind(t) \/ LeaveScan(t)
    PROVE  /\ pc' \in [Tasks -> Labels] /\ loc' \in [Tasks -> Locals] /\ EntryInv'
           /\ scanLock' \in Tasks \cup {NoTask}
  <1>1. CASE LeaveScan(t)
    <2>1. "credits" \in Labels /\ "credits" \notin EntryLabels
      BY DEF Labels, EntryLabels
    <2> QED BY <1>1, <2>1, LocalsType, TaskStep DEF LeaveScan
  <1>2. CASE ~LeaveScan(t)
    <2>1. "source" \in Labels /\ "source" \notin EntryLabels
      BY DEF Labels, EntryLabels
    <2> DEFINE l == [loc[t] EXCEPT !.kind = AfterKind(loc[t].kind), !.next = 0,
                                   !.end = 0, !.found = {}, !.partial = FALSE]
    <2>2. At(t, "source", l) /\ UNCHANGED scanLock
      BY <1>2 DEF LeaveKind
    <2>3. l \in Locals
      BY LocalsType
    <2> HIDE DEF l
    <2> QED BY <2>1, <2>2, <2>3, TaskStep DEF TypeInv, TypeOK
  <1> QED BY <1>1, <1>2

LEMMA TypeInit == Init => TypeInv
  <1> SUFFICES ASSUME Init PROVE TypeInv
    OBVIOUS
  <1>1. FirstFile \in Store
    <2>1. \A p \in QueuedTopUps : [id |-> <<p, 0>>, height |-> 1, notified |-> FALSE] \in Entry
      BY PaymentAssumption DEF Entry, EventIds
    <2>2. [k \in Kinds |-> NoBlock] \in [Kinds -> Nat \cup {NoBlock}]
      OBVIOUS
    <2> QED BY <2>1, <2>2 DEF FirstFile, Store
  <1>2. /\ at \in [Payments -> Nat] /\ ok \in [Payments -> BOOLEAN]
        /\ idx \in [Payments -> {0, 1}]
    BY DEF Init
  <1>3. assigned \subseteq Addrs
    BY PaymentAssumption DEF Init, Addrs
  <1>4. pc \in [Tasks -> Labels] /\ loc \in [Tasks -> Locals] /\ EntryInv
    BY InitLocalsType DEF Init, Labels, EntryInv, EntryLabels
  <1> QED BY <1>1, <1>2, <1>3, <1>4 DEF Init, TypeInv, TypeOK

LEMMA EnvironmentType ==
    ASSUME TypeInv, Mine \/ Reorg \/ Assign \/ Crash
    PROVE  TypeInv'
  <1> USE DEF TypeInv
  <1>1. CASE Mine
    <2>1. PICK T \in SUBSET Payable : \E F \in SUBSET T :
            /\ at' = [p \in Payments |-> IF p \in T THEN best + 1 ELSE at[p]]
            /\ ok' = [p \in Payments |-> IF p \in T THEN p \notin F ELSE ok[p]]
      BY <1>1 DEF Mine
    <2>2. PICK F \in SUBSET T :
            /\ at' = [p \in Payments |-> IF p \in T THEN best + 1 ELSE at[p]]
            /\ ok' = [p \in Payments |-> IF p \in T THEN p \notin F ELSE ok[p]]
      BY <2>1
    <2>3. \A p \in Payments : (IF p \in T THEN p \notin F ELSE ok[p]) \in BOOLEAN
      BY DEF TypeOK
    <2>4. ok' \in [Payments -> BOOLEAN]
      BY <2>2, <2>3, Zenon
    <2>5. best' \in Nat /\ best + 1 \in Nat
      BY <1>1 DEF Mine, TypeOK
    <2>6. at' \in [Payments -> Nat]
      BY <2>2, <2>5, Zenon DEF TypeOK
    <2>7. /\ best' \in Nat /\ at' \in [Payments -> Nat] /\ ok' \in [Payments -> BOOLEAN]
      BY <2>4, <2>5, <2>6
    <2>8. UNCHANGED <<idx, reorgs, assigned, swept, first, mem, disk, pc, loc, locks,
                      backendVars, faults, errors>>
      BY <1>1 DEF Mine
    <2> QED BY <2>7, <2>8 DEF TypeOK, EntryInv, locks, backendVars
  <1>2. CASE Reorg
    <2>1. best' \in Nat /\ reorgs' \in Nat
      BY <1>2 DEF Reorg, TypeOK
    <2>2. PICK d \in 1 .. AtLeastOne(MinConf) - 1 :
            LET base == best - d
                loose == {p \in Payments : at[p] > base}
            IN /\ base > 0
               /\ \E place \in [loose -> {0} \cup (base + 1 .. best + 1)],
                     fine \in SUBSET loose,
                     index \in [{p \in loose : KindOf[p] = "erc20"} -> {0, 1}] :
                    /\ at' = [p \in Payments |-> IF p \in loose THEN place[p] ELSE at[p]]
                    /\ ok' = [p \in Payments |-> IF p \in loose THEN p \in fine ELSE ok[p]]
                    /\ idx' = [p \in Payments |->
                                 IF p \in DOMAIN index THEN index[p] ELSE idx[p]]
      BY <1>2 DEF Reorg
    <2> DEFINE base == best - d
               loose == {p \in Payments : at[p] > base}
               tokens == {p \in loose : KindOf[p] = "erc20"}
    <2>3. base \in Nat /\ {0} \cup (base + 1 .. best + 1) \subseteq Nat
      BY <2>2, Constants DEF TypeOK
    <2>4. PICK place \in [loose -> {0} \cup (base + 1 .. best + 1)], fine \in SUBSET loose,
               index \in [tokens -> {0, 1}] :
            /\ at' = [p \in Payments |-> IF p \in loose THEN place[p] ELSE at[p]]
            /\ ok' = [p \in Payments |-> IF p \in loose THEN p \in fine ELSE ok[p]]
            /\ idx' = [p \in Payments |-> IF p \in DOMAIN index THEN index[p] ELSE idx[p]]
      BY <2>2
    <2>5. at' \in [Payments -> Nat]
      <3> HIDE DEF base, loose
      <3> QED BY <2>3, <2>4 DEF TypeOK
    <2>6. ok' \in [Payments -> BOOLEAN]
      <3>1. ok' = [p \in Payments |-> IF p \in loose THEN p \in fine ELSE ok[p]]
        BY <2>4
      <3>2. \A p \in Payments : ok[p] \in BOOLEAN
        BY DEF TypeOK
      <3> HIDE DEF loose
      <3>3. \A p \in Payments : (IF p \in loose THEN p \in fine ELSE ok[p]) \in BOOLEAN
        <4> SUFFICES ASSUME NEW p \in Payments
                     PROVE  (IF p \in loose THEN p \in fine ELSE ok[p]) \in BOOLEAN
          OBVIOUS
        <4> DEFINE b == p \in fine
        <4>1. b \in BOOLEAN
          OBVIOUS
        <4> HIDE DEF b
        <4>2. (IF p \in loose THEN b ELSE ok[p]) \in BOOLEAN
          BY <3>2, <4>1
        <4> QED BY <4>2 DEF b
      <3> QED BY <3>1, <3>3, Zenon
    <2>7. idx' \in [Payments -> {0, 1}]
      <3>1. \A p \in tokens : index[p] \in {0, 1}
        BY <2>4, Zenon
      <3>2. DOMAIN index = tokens
        BY <2>4, Zenon
      <3> HIDE DEF tokens
      <3>3. \A p \in Payments : (IF p \in DOMAIN index THEN index[p] ELSE idx[p]) \in {0, 1}
        BY <3>1, <3>2 DEF TypeOK
      <3> QED BY <2>4, <3>3, Zenon
    <2>8. UNCHANGED <<assigned, swept, first, mem, disk, pc, loc, locks, backendVars,
                      faults, errors>>
      BY <1>2 DEF Reorg
    <2> QED BY <2>1, <2>5, <2>6, <2>7, <2>8 DEF TypeOK, EntryInv, locks, backendVars
  <1>3. CASE Assign
    <2>1. assigned' \subseteq Addrs
      BY <1>3 DEF Assign, TypeOK
    <2> QED BY <1>3, <2>1 DEF Assign, TypeOK, EntryInv, chainVars, locks, backendVars
  <1>4. CASE Crash
    <2>1. pc' \in [Tasks -> Labels] /\ loc' \in [Tasks -> Locals] /\ EntryInv'
      BY <1>4, InitLocalsType DEF Crash, Labels, EntryInv, EntryLabels
    <2>2. faults' \in Nat
      BY <1>4, ErrorType DEF Crash
    <2> QED BY <1>4, <2>1, <2>2 DEF Crash, TypeOK, chainVars, backendVars
  <1> QED BY <1>1, <1>2, <1>3, <1>4


LEMMA CycleType ==
    ASSUME TypeInv, NEW t \in Tasks,
           CycleTip(t) \/ ReadReservations(t) \/ ScanLock(t) \/ SkipSource(t)
             \/ StartSource(t) \/ Maintain(t)
    PROVE  TypeInv'
  <1> USE DEF TypeInv
  <1>0. loc[t] \in Locals /\ mem \in Store /\ best \in Nat /\ assigned \subseteq Addrs
    BY DEF TypeOK
  <1>a. loc[t].tip \in Nat /\ loc[t].kind \in Kinds /\ SafeBlock(loc[t].tip) \in Nat
    BY <1>0, SafeBlockType DEF Locals
  <1>1. CASE CycleTip(t)
    <2> DEFINE l == [InitLocals EXCEPT !.tip = best]
    <2>1. l \in Locals
      BY <1>0, InitLocalsType DEF Locals
    <2>2. At(t, "credits", l)
      BY <1>1 DEF CycleTip
    <2>3. "credits" \in Labels /\ "credits" \notin EntryLabels
      BY DEF Labels, EntryLabels
    <2> HIDE DEF l
    <2> QED BY <1>1, <2>1, <2>2, <2>3, TaskStep DEF CycleTip, TypeOK, chainVars, locks, backendVars
  <1>2. CASE ReadReservations(t)
    <2> DEFINE l == [loc[t] EXCEPT !.watched = assigned]
    <2>1. l \in Locals
      BY <1>0 DEF Locals
    <2>2. PICK error \in BOOLEAN :
            Error(error) /\ IF error THEN At(t, "idle", InitLocals) ELSE At(t, "scan", l)
      BY <1>2 DEF ReadReservations
    <2>3. /\ "idle" \in Labels /\ "idle" \notin EntryLabels
          /\ "scan" \in Labels /\ "scan" \notin EntryLabels
      BY DEF Labels, EntryLabels
    <2> HIDE DEF l
    <2>4. pc' \in [Tasks -> Labels] /\ loc' \in [Tasks -> Locals] /\ EntryInv'
      BY <2>1, <2>2, <2>3, InitLocalsType, TaskStep
    <2>5. errors' \in Nat
      BY <2>2, ErrorType
    <2> QED BY <1>2, <2>4, <2>5 DEF ReadReservations, TypeOK, chainVars, locks, backendVars
  <1>3. CASE ScanLock(t)
    <2> DEFINE safe == SafeBlock(loc[t].tip)
    <2>1. mem' \in Store /\ first' \in Int
      <3>1. InitialCursor(safe) \in Nat \cup {NoBlock} /\ WithCursors(mem, safe) \in Store
        BY <1>0, <1>a, CursorType
      <3>2. first \in Int /\ StartBlock - 1 \in Int
        BY BoundAssumption DEF TypeOK, NoBlock
      <3> HIDE DEF safe
      <3>3. /\ mem' = WithCursors(mem, safe)
            /\ first' = IF Started(mem) THEN first
                        ELSE IF InitialCursor(safe) = NoBlock THEN StartBlock - 1
                        ELSE InitialCursor(safe)
        BY <1>3 DEF ScanLock, safe
      <3> QED BY <3>1, <3>2, <3>3
    <2>2. PICK saved \in BOOLEAN :
            /\ Save(saved)
            /\ IF saved THEN scanLock' = t /\ At(t, "source", loc[t]) ELSE LeaveScan(t)
      BY <1>3 DEF ScanLock
    <2>3. "source" \in Labels /\ "source" \notin EntryLabels
      BY DEF Labels, EntryLabels
    <2>4. /\ pc' \in [Tasks -> Labels] /\ loc' \in [Tasks -> Locals] /\ EntryInv'
          /\ scanLock' \in Tasks \cup {NoTask}
      BY <1>0, <2>2, <2>3, TaskStep, LeaveType
    <2>5. disk' \in Store /\ faults' \in Nat
      BY <2>1, <2>2, SaveType
    <2> QED BY <1>3, <2>1, <2>4, <2>5 DEF ScanLock, TypeOK, chainVars, backendVars
  <1>4. CASE SkipSource(t)
    <2>1. mem' \in Store
      BY <1>0, <1>a, <1>4, CursorType DEF SkipSource
    <2>2. PICK saved \in BOOLEAN : Save(saved) /\ (LeaveKind(t) \/ LeaveScan(t))
      BY <1>4 DEF SkipSource
    <2>3. disk' \in Store /\ faults' \in Nat
      BY <2>1, <2>2, SaveType
    <2>4. /\ pc' \in [Tasks -> Labels] /\ loc' \in [Tasks -> Locals] /\ EntryInv'
          /\ scanLock' \in Tasks \cup {NoTask}
      BY <2>2, LeaveType
    <2> QED BY <1>4, <2>1, <2>3, <2>4 DEF SkipSource, TypeOK, chainVars, backendVars
  <1>5. CASE StartSource(t)
    <2> DEFINE safe == SafeBlock(loc[t].tip)
               from == From(mem, loc[t].kind, safe)
               l == [loc[t] EXCEPT !.next = from, !.end = End(from, safe)]
    <2>1. from \in Nat /\ End(from, safe) \in Nat
      BY <1>0, <1>a, CursorType
    <2>2. l \in Locals
      <3> HIDE DEF from, safe
      <3> QED BY <1>0, <2>1 DEF Locals
    <2>3. LeaveKind(t) \/ (At(t, "fetch", l) /\ UNCHANGED scanLock)
      BY <1>5 DEF StartSource
    <2>4. "fetch" \in Labels /\ "fetch" \notin EntryLabels
      BY DEF Labels, EntryLabels
    <2> HIDE DEF l
    <2>5. /\ pc' \in [Tasks -> Labels] /\ loc' \in [Tasks -> Locals] /\ EntryInv'
          /\ scanLock' \in Tasks \cup {NoTask}
      BY <2>2, <2>3, <2>4, TaskStep, LeaveType DEF TypeOK
    <2> QED BY <1>5, <2>5 DEF StartSource, TypeOK, chainVars, backendVars
  <1>6. CASE Maintain(t)
    <2>1. disk' \in Store /\ faults' \in Nat
      BY <1>0, <1>6, SaveType DEF Maintain, TypeOK
    <2>2. "idle" \in Labels /\ "idle" \notin EntryLabels
      BY DEF Labels, EntryLabels
    <2> QED BY <1>6, <2>1, <2>2, InitLocalsType, TaskStep
            DEF Maintain, TypeOK, chainVars, locks, backendVars
  <1> QED BY <1>1, <1>2, <1>3, <1>4, <1>5, <1>6

\* A fetch leaves the source, or keeps some of the new payments.
LEMMA FetchEffect ==
    ASSUME NEW t, loc[t] \in Locals, Fetch(t)
    PROVE  \/ LeaveKind(t)
           \/ \E F \in SUBSET New(mem, Seen(loc[t])), b \in BOOLEAN,
                label \in {"enqueue", "advance"} :
                /\ At(t, label, [loc[t] EXCEPT !.found = F, !.partial = b])
                /\ UNCHANGED scanLock
  <1> DEFINE new == New(mem, Seen(loc[t]))
  <1> HIDE DEF new
  <1>1. \/ /\ At(t, IF new = {} THEN "advance" ELSE "enqueue", [loc[t] EXCEPT !.found = new])
           /\ UNCHANGED scanLock
        \/ LeaveKind(t)
        \/ \E A : /\ At(t, "enqueue", [loc[t] EXCEPT !.partial = TRUE,
                            !.found = {f \in new : AddrOf[f.id[1]] \in A}])
                  /\ UNCHANGED scanLock
    BY DEF Fetch, new
  <1>2. [loc[t] EXCEPT !.found = new] = [loc[t] EXCEPT !.found = new, !.partial = loc[t].partial]
    BY DEF Locals
  <1>3. \A F : [loc[t] EXCEPT !.partial = TRUE, !.found = F]
                 = [loc[t] EXCEPT !.found = F, !.partial = TRUE]
    BY DEF Locals
  <1>4. \A A : {f \in new : AddrOf[f.id[1]] \in A} \in SUBSET new
    OBVIOUS
  <1>5. loc[t].partial \in BOOLEAN
    BY DEF Locals
  <1>6. \/ LeaveKind(t)
        \/ \E F \in SUBSET new, b \in BOOLEAN, label \in {"enqueue", "advance"} :
             /\ At(t, label, [loc[t] EXCEPT !.found = F, !.partial = b])
             /\ UNCHANGED scanLock
    BY <1>1, <1>2, <1>3, <1>4, <1>5
  <1> QED BY <1>6 DEF new

LEMMA ChunkStepType ==
    ASSUME TypeInv, NEW t \in Tasks, Fetch(t) \/ Enqueue(t) \/ Advance(t)
    PROVE  TypeInv'
  <1> USE DEF TypeInv
  <1>0. loc[t] \in Locals /\ mem \in Store /\ loc[t].kind \in Kinds /\ loc[t].found \subseteq Found
    BY DEF TypeOK, Locals
  <1>a. \A label \in {"fetch", "enqueue", "advance"} : label \in Labels /\ label \notin EntryLabels
    BY DEF Labels, EntryLabels
  <1>1. CASE Fetch(t)
    <2> DEFINE new == New(mem, Seen(loc[t]))
    <2>1. new \subseteq Found
      BY <1>0, SeenType
    <2>2. errors' \in Nat
      BY <1>1, ErrorType DEF Fetch, TypeOK
    <2>3. \/ LeaveKind(t)
          \/ \E F \in SUBSET new, b \in BOOLEAN, label \in {"enqueue", "advance"} :
               /\ At(t, label, [loc[t] EXCEPT !.found = F, !.partial = b])
               /\ UNCHANGED scanLock
      BY <1>0, <1>1, FetchEffect
    <2>4. \A F \in SUBSET new, b \in BOOLEAN : [loc[t] EXCEPT !.found = F, !.partial = b] \in Locals
      <3> HIDE DEF new
      <3> QED BY <1>0, <2>1 DEF Locals
    <2> HIDE DEF new
    <2>5. /\ pc' \in [Tasks -> Labels] /\ loc' \in [Tasks -> Locals] /\ EntryInv'
          /\ scanLock' \in Tasks \cup {NoTask}
      BY <1>a, <2>3, <2>4, TaskStep, LeaveType DEF TypeOK
    <2> QED BY <1>1, <2>2, <2>5 DEF Fetch, TypeOK, chainVars, backendVars
  <1>2. CASE Enqueue(t)
    <2>1. PICK f \in loc[t].found :
            LET rest == loc[t].found \ {f}
                l == [loc[t] EXCEPT !.found = rest]
            IN /\ mem' = Push(mem, f)
               /\ \E saved \in BOOLEAN :
                    /\ IF Known(mem, f.id) THEN saved /\ UNCHANGED <<disk, faults>>
                       ELSE Save(saved)
                    /\ IF ~saved \/ (rest = {} /\ l.partial) THEN LeaveKind(t)
                       ELSE /\ At(t, IF rest = {} THEN "advance" ELSE "enqueue", l)
                            /\ UNCHANGED scanLock
      BY <1>2 DEF Enqueue
    <2> DEFINE rest == loc[t].found \ {f}
               l == [loc[t] EXCEPT !.found = rest]
               label == IF rest = {} THEN "advance" ELSE "enqueue"
    <2>2. mem' \in Store
      BY <1>0, <2>1, PushType
    <2>3. \/ UNCHANGED <<disk, faults>>
          \/ \E saved \in BOOLEAN : Save(saved)
      BY <2>1
    <2>4. disk' \in Store /\ faults' \in Nat
      BY <2>2, <2>3, SaveType DEF TypeOK
    <2>5. l \in Locals /\ label \in {"fetch", "enqueue", "advance"}
      BY <1>0 DEF Locals
    <2>6. LeaveKind(t) \/ (At(t, label, l) /\ UNCHANGED scanLock)
      BY <2>1
    <2> HIDE DEF l, label
    <2>7. /\ pc' \in [Tasks -> Labels] /\ loc' \in [Tasks -> Locals] /\ EntryInv'
          /\ scanLock' \in Tasks \cup {NoTask}
      BY <1>a, <2>5, <2>6, TaskStep, LeaveType DEF TypeOK
    <2> QED BY <1>2, <2>2, <2>4, <2>7 DEF Enqueue, TypeOK, chainVars, backendVars
  <1>3. CASE Advance(t)
    <2> DEFINE to == ChunkEnd(loc[t])
               l == [loc[t] EXCEPT !.next = to + 1]
    <2>1. to \in Nat /\ mem' \in Store
      BY <1>0, <1>3, ChunkType, CursorType DEF Advance
    <2>2. l \in Locals
      <3> HIDE DEF to
      <3> QED BY <1>0, <2>1 DEF Locals
    <2>3. PICK saved \in BOOLEAN :
            /\ Save(saved)
            /\ LeaveKind(t) \/ (At(t, "fetch", l) /\ UNCHANGED scanLock)
      BY <1>3 DEF Advance
    <2>4. disk' \in Store /\ faults' \in Nat
      BY <2>1, <2>3, SaveType
    <2> HIDE DEF l
    <2>5. /\ pc' \in [Tasks -> Labels] /\ loc' \in [Tasks -> Locals] /\ EntryInv'
          /\ scanLock' \in Tasks \cup {NoTask}
      BY <1>a, <2>2, <2>3, TaskStep, LeaveType DEF TypeOK
    <2> QED BY <1>3, <2>1, <2>4, <2>5 DEF Advance, TypeOK, chainVars, backendVars
  <1> QED BY <1>1, <1>2, <1>3

LEMMA RecoverType ==
    ASSUME TypeInv, NEW t \in Tasks, RecoverStep(t)
    PROVE  TypeInv'
  <1> USE DEF TypeInv
  <1>0. loc[t] \in Locals /\ mem \in Store /\ best \in Nat /\ loc[t].found \subseteq Found
    BY DEF TypeOK, Locals
  <1>a. \A label \in {"rtip", "credits", "idle"} : label \in Labels /\ label \notin EntryLabels
    BY DEF Labels, EntryLabels
  <1>1. CASE RecoverFetch(t)
    <2>1. PICK p \in Payments :
            At(t, "rtip", [InitLocals EXCEPT !.pass = "recover",
                             !.found = {[id |-> Id(p), height |-> at[p]]}])
      BY <1>1 DEF RecoverFetch
    <2> DEFINE F == {[id |-> Id(p), height |-> at[p]]}
               l == [InitLocals EXCEPT !.pass = "recover", !.found = F]
    <2>2. F \subseteq Found
      BY IdType DEF Found, TypeOK
    <2>3. l \in Locals
      <3> HIDE DEF F
      <3> QED BY <2>2, InitLocalsType DEF Locals
    <2>4. At(t, "rtip", l)
      BY <2>1
    <2> HIDE DEF l
    <2> QED BY <1>1, <1>a, <2>3, <2>4, TaskStep
            DEF RecoverFetch, TypeOK, chainVars, locks, backendVars
  <1>2. CASE RecoverTip(t)
    <2>1. PICK f \in loc[t].found, saved \in BOOLEAN :
            /\ mem' = Push(mem, f)
            /\ IF Known(mem, f.id) THEN saved /\ UNCHANGED <<disk, faults>>
               ELSE Save(saved)
            /\ IF saved THEN At(t, "credits", [loc[t] EXCEPT !.tip = best, !.found = {}])
               ELSE At(t, "idle", InitLocals)
      BY <1>2 DEF RecoverTip
    <2> DEFINE l == [loc[t] EXCEPT !.tip = best, !.found = {}]
    <2>2. mem' \in Store
      BY <1>0, <2>1, PushType
    <2>3. disk' \in Store /\ faults' \in Nat
      BY <2>1, <2>2, SaveType DEF TypeOK
    <2>4. l \in Locals
      BY <1>0 DEF Locals
    <2>5. At(t, "credits", l) \/ At(t, "idle", InitLocals)
      BY <2>1
    <2> HIDE DEF l
    <2>6. pc' \in [Tasks -> Labels] /\ loc' \in [Tasks -> Locals] /\ EntryInv'
      BY <1>a, <2>4, <2>5, InitLocalsType, TaskStep
    <2> QED BY <1>2, <2>2, <2>3, <2>6 DEF RecoverTip, TypeOK, chainVars, locks, backendVars
  <1> QED BY <1>1, <1>2 DEF RecoverStep

LEMMA QueueType ==
    ASSUME TypeInv, NEW t \in Tasks, CreditsLock(t) \/ CreditsDone(t) \/ EntryReceipt(t)
    PROVE  TypeInv'
  <1> USE DEF TypeInv
  <1>0. loc[t] \in Locals /\ mem \in Store /\ mem.pending \subseteq Entry /\ loc[t].todo \subseteq Entry
    BY DEF TypeOK, Locals, Store
  <1>a. /\ \A label \in {"next", "idle", "reservations", "maintain"} :
             label \in Labels /\ label \notin EntryLabels
        /\ \A label \in {"origin", "detect", "sweep"} : label \in Labels
    BY DEF Labels, EntryLabels
  <1>1. CASE CreditsLock(t)
    <2> DEFINE l == [loc[t] EXCEPT !.todo = mem.pending]
    <2>1. l \in Locals
      BY <1>0 DEF Locals
    <2>2. PICK saved \in BOOLEAN :
            /\ Save(saved)
            /\ IF saved THEN creditLock' = t /\ At(t, "next", l)
               ELSE UNCHANGED creditLock /\ At(t, "idle", InitLocals)
      BY <1>1 DEF CreditsLock
    <2> HIDE DEF l
    <2>3. /\ pc' \in [Tasks -> Labels] /\ loc' \in [Tasks -> Locals] /\ EntryInv'
          /\ creditLock' \in Tasks \cup {NoTask}
      BY <1>a, <2>1, <2>2, InitLocalsType, TaskStep DEF TypeOK
    <2>4. mem' \in Store
      BY <1>0, <1>1 DEF CreditsLock
    <2>5. disk' \in Store /\ faults' \in Nat
      BY <2>2, <2>4, SaveType
    <2> QED BY <1>1, <2>3, <2>4, <2>5 DEF CreditsLock, TypeOK, chainVars, backendVars
  <1>2. CASE CreditsDone(t)
    <2>1. loc[t].pass \in {"before", "after", "recover"}
      BY <1>0 DEF Locals
    <2>2. \/ At(t, "reservations", loc[t]) \/ At(t, "maintain", loc[t])
          \/ At(t, "idle", InitLocals)
      BY <1>2, <2>1 DEF CreditsDone
    <2>3. pc' \in [Tasks -> Labels] /\ loc' \in [Tasks -> Locals] /\ EntryInv'
      BY <1>0, <1>a, <2>2, InitLocalsType, TaskStep
    <2> QED BY <1>2, <2>3 DEF CreditsDone, TypeOK, chainVars, backendVars
  <1>3. CASE EntryReceipt(t)
    <2> DEFINE started(e) == [loc[t] EXCEPT !.todo = @ \ {e}, !.entry = e,
                                            !.deep = Deep(loc[t].tip, at[e.id[1]])]
               skipped(e) == Done(started(e))
    <2>1. PICK e \in loc[t].todo :
            /\ \/ At(t, "next", skipped(e))
               \/ At(t, "origin", started(e))
               \/ At(t, "detect", started(e))
               \/ At(t, "sweep", started(e))
            /\ \/ mem' = mem \/ mem' = Ignore(mem, e.id) \/ mem' = Moved(mem, e.id, at[e.id[1]])
            /\ \/ UNCHANGED <<disk, faults>>
               \/ \E saved \in BOOLEAN : Save(saved)
      <3> HIDE DEF skipped
      <3>1. PICK e \in loc[t].todo :
              \/ /\ At(t, "next", skipped(e))
                 /\ UNCHANGED <<mem, disk, faults>>
              \/ /\ mem' = Ignore(mem, e.id)
                 /\ \E saved \in BOOLEAN : Save(saved)
                 /\ At(t, "next", skipped(e))
              \/ /\ mem' = Moved(mem, e.id, at[e.id[1]])
                 /\ \E saved \in BOOLEAN :
                      /\ IF at[e.id[1]] # e.height THEN Save(saved)
                         ELSE saved /\ UNCHANGED <<disk, faults>>
                      /\ IF ~saved THEN At(t, "next", skipped(e))
                         ELSE IF KindOf[e.id[1]] # "erc20" THEN At(t, "origin", started(e))
                         ELSE Announce(t, started(e))
        BY <1>3 DEF EntryReceipt, skipped
      <3>2. ASSUME Announce(t, started(e))
            PROVE  At(t, "next", skipped(e)) \/ At(t, "detect", started(e)) \/ At(t, "sweep", started(e))
        BY <3>2 DEF Announce, skipped
      <3> HIDE DEF started
      <3> QED BY <3>1, <3>2
    <2>2. e \in Entry /\ e.id \in EventIds /\ e.id[1] \in Payments
      BY <1>0, PayeeType DEF Entry
    <2>3. at[e.id[1]] \in Nat
      BY <2>2 DEF TypeOK
    <2>4. mem' \in Store
      BY <1>0, <2>1, <2>2, <2>3, QueueHelperType
    <2>5. disk' \in Store /\ faults' \in Nat
      BY <2>1, <2>4, SaveType DEF TypeOK
    <2>6. skipped(e) \in Locals /\ started(e) \in Locals /\ started(e).entry = e
      <3>1. Deep(loc[t].tip, at[e.id[1]]) \in BOOLEAN
        BY DEF Deep
      <3>2. \A b \in BOOLEAN, T \in SUBSET Entry :
              /\ [loc[t] EXCEPT !.todo = T, !.entry = e, !.deep = b] \in Locals
              /\ [loc[t] EXCEPT !.todo = T, !.entry = e, !.deep = b].entry = e
        BY <1>0, <2>2 DEF Locals
      <3>3. loc[t].todo \ {e} \in SUBSET Entry
        BY <1>0
      <3>4. started(e) \in Locals /\ started(e).entry = e
        BY <3>1, <3>2, <3>3
      <3>5. \A l \in Locals : Done(l) \in Locals
        BY DEF Done, Locals, NoEntry
      <3> QED BY <3>4, <3>5
    <2>7. errors' \in Nat
      <3>1. errors' = errors \/ errors' = errors + 1
        BY <1>3 DEF EntryReceipt, Error
      <3> QED BY <3>1 DEF TypeOK
    <2> HIDE DEF started, skipped
    <2>8. pc' \in [Tasks -> Labels] /\ loc' \in [Tasks -> Locals] /\ EntryInv'
      BY <1>a, <2>1, <2>2, <2>6, TaskStep
    <2> QED BY <1>3, <2>4, <2>5, <2>7, <2>8 DEF EntryReceipt, TypeOK, chainVars, locks, backendVars
  <1> QED BY <1>1, <1>2, <1>3

\* What the question for the sender changes, whichever way it ends.
LEMMA OriginEffect ==
    ASSUME NEW t \in Tasks, EntryOrigin(t)
    PROVE  /\ pc[t] = "origin"
           /\ \/ NextEntry(t)
              \/ /\ \/ At(t, "detect", loc[t])
                    \/ At(t, "sweep", loc[t]) /\ loc[t].deep /\ loc[t].entry.notified
                 /\ IsTopUp(loc[t].entry.id[1]) => loc[t].entry.id \in unseen'
           /\ \/ mem' = mem /\ UNCHANGED <<disk, faults>>
              \/ mem' = Ignore(mem, loc[t].entry.id) /\ \E saved \in BOOLEAN : Save(saved)
           /\ unseen' = unseen \/ unseen' = unseen \cup {loc[t].entry.id}
           /\ errors' = errors \/ errors' = errors + 1
           /\ UNCHANGED <<chainVars, assigned, swept, first, locks, detected, credits>>
  <1> DEFINE id == loc[t].entry.id
  <1>1. Announce(t, loc[t]) =>
          \/ NextEntry(t)
          \/ At(t, "detect", loc[t])
          \/ At(t, "sweep", loc[t]) /\ loc[t].deep /\ loc[t].entry.notified
    BY DEF Announce, NextEntry, EntryDone
  <1>2. PICK answer \in {"error", "none", "found"} :
          /\ Error(answer = "error" \/ (answer = "none" /\ at[id[1]] > 0))
          /\ IF answer = "found" /\ IsTopUp(id[1])
             THEN /\ mem' = Ignore(mem, id)
                  /\ \E saved \in BOOLEAN : Save(saved)
                  /\ NextEntry(t)
             ELSE /\ IF answer = "error" THEN NextEntry(t) ELSE Announce(t, loc[t])
                  /\ UNCHANGED <<mem, disk, faults>>
          /\ unseen' = IF answer = "none" THEN unseen \cup {id} ELSE unseen
    BY DEF EntryOrigin
  <1>3. errors' = errors \/ errors' = errors + 1
    BY <1>2 DEF Error
  <1>4. pc[t] = "origin" /\ UNCHANGED <<chainVars, assigned, swept, first, locks, detected, credits>>
    BY DEF EntryOrigin
  <1> HIDE DEF id
  <1>5. \/ mem' = mem /\ UNCHANGED <<disk, faults>>
        \/ mem' = Ignore(mem, id) /\ \E saved \in BOOLEAN : Save(saved)
    BY <1>2
  <1>6. \/ NextEntry(t)
        \/ /\ \/ At(t, "detect", loc[t])
              \/ At(t, "sweep", loc[t]) /\ loc[t].deep /\ loc[t].entry.notified
           /\ IsTopUp(id[1]) => id \in unseen'
    <2>1. CASE answer = "error"
      BY <1>2, <2>1
    <2>2. CASE answer = "none"
      BY <1>1, <1>2, <2>2
    <2>3. CASE answer = "found"
      BY <1>1, <1>2, <2>3
    <2> QED BY <2>1, <2>2, <2>3
  <1>7. unseen' = unseen \/ unseen' = unseen \cup {id}
    BY <1>2
  <1> QED BY <1>3, <1>4, <1>5, <1>6, <1>7 DEF id

LEMMA OriginType ==
    ASSUME TypeInv, NEW t \in Tasks, EntryOrigin(t)
    PROVE  TypeInv'
  <1> USE DEF TypeInv
  <1>1. pc[t] = "origin" /\ loc[t] \in Locals /\ loc[t].entry \in Entry /\ loc[t].entry.id \in EventIds
    BY OriginEffect DEF TypeOK, EntryInv, EntryLabels, Entry
  <1>2. /\ "next" \in Labels /\ "next" \notin EntryLabels
        /\ "detect" \in Labels /\ "sweep" \in Labels
    BY DEF Labels, EntryLabels
  <1>3. NextEntry(t) \/ At(t, "detect", loc[t]) \/ At(t, "sweep", loc[t])
    BY OriginEffect
  <1>4. pc' \in [Tasks -> Labels] /\ loc' \in [Tasks -> Locals] /\ EntryInv'
    BY <1>1, <1>2, <1>3, LocalsType, TaskStep DEF NextEntry
  <1>5. mem' \in Store
    BY <1>1, OriginEffect, QueueHelperType DEF TypeOK
  <1>6. disk' \in Store /\ faults' \in Nat
    BY <1>5, OriginEffect, SaveType DEF TypeOK
  <1>7. unseen' \subseteq EventIds /\ errors' \in Nat
    BY <1>1, OriginEffect DEF TypeOK
  <1>8. UNCHANGED <<chainVars, assigned, swept, first, locks, detected, credits>>
    BY OriginEffect
  <1> QED BY <1>4, <1>5, <1>6, <1>7, <1>8 DEF TypeOK, chainVars, locks

\* What a sweep changes, whichever way it ends.
LEMMA SweepEffect ==
    ASSUME NEW t \in Tasks, Sweep(t)
    PROVE  /\ pc[t] = "sweep"
           /\ \/ NextEntry(t)
              \/ At(t, "credit", loc[t])
              \/ At(t, "credit", [loc[t] EXCEPT !.deferred = TRUE])
           /\ swept' = swept \/ \E S \in SUBSET Payments : swept' = swept \cup S
           /\ faults' = faults \/ faults' = faults + 1
           /\ errors' = errors \/ errors' = errors + 1
           /\ UNCHANGED <<chainVars, assigned, first, mem, disk, locks, backendVars>>
  <1> DEFINE a == AddrOf[loc[t].entry.id[1]]
             token == KindOf[loc[t].entry.id[1]] = "erc20"
             funds == IF token THEN Tokens(a) ELSE Coins(a)
             sent == Transfers(a, token)
  <1>1. /\ pc[t] = "sweep"
        /\ \/ /\ Error(funds # {} \/ ~token)
              /\ NextEntry(t)
              /\ UNCHANGED <<swept, faults>>
           \/ /\ token \/ funds # {}
              /\ Error(TRUE)
              /\ At(t, "credit", [loc[t] EXCEPT !.deferred = TRUE])
              /\ UNCHANGED <<swept, faults>>
           \/ /\ ~token /\ funds = {}
              /\ At(t, "credit", loc[t])
              /\ UNCHANGED <<swept, faults, errors>>
           \/ /\ funds # {}
              /\ \E S \in sent, reported \in BOOLEAN :
                   /\ swept' = swept \cup S
                   /\ Fault(~reported)
                   /\ IF reported THEN At(t, "credit", loc[t]) ELSE NextEntry(t)
              /\ UNCHANGED errors
        /\ UNCHANGED <<chainVars, assigned, first, mem, disk, locks, backendVars>>
    BY DEF Sweep
  <1>2. sent \subseteq SUBSET Payments
    BY DEF Transfers, Tokens, Coins, Held
  <1> HIDE DEF a, token, funds, sent
  <1>3. CASE funds # {} /\ \E S \in sent, reported \in BOOLEAN :
                 /\ swept' = swept \cup S
                 /\ Fault(~reported)
                 /\ IF reported THEN At(t, "credit", loc[t]) ELSE NextEntry(t)
    <2>1. PICK S \in sent, reported \in BOOLEAN :
            /\ swept' = swept \cup S
            /\ Fault(~reported)
            /\ IF reported THEN At(t, "credit", loc[t]) ELSE NextEntry(t)
      BY <1>3
    <2>2. faults' = faults \/ faults' = faults + 1
      BY <2>1 DEF Fault
    <2>3. NextEntry(t) \/ At(t, "credit", loc[t])
      BY <2>1
    <2>4. S \in SUBSET Payments
      BY <1>2
    <2>5. errors' = errors \/ errors' = errors + 1
      BY <1>1 DEF Error
    <2> QED BY <1>1, <2>1, <2>2, <2>3, <2>4, <2>5
  <1>4. CASE Error(funds # {} \/ ~token) /\ NextEntry(t) /\ UNCHANGED <<swept, faults>>
    BY <1>1, <1>4 DEF Error
  <1>5. CASE /\ Error(TRUE)
             /\ At(t, "credit", [loc[t] EXCEPT !.deferred = TRUE])
             /\ UNCHANGED <<swept, faults>>
    BY <1>1, <1>5 DEF Error
  <1>6. CASE At(t, "credit", loc[t]) /\ UNCHANGED <<swept, faults, errors>>
    BY <1>1, <1>6
  <1> QED BY <1>1, <1>3, <1>4, <1>5, <1>6

LEMMA DeliveryType ==
    ASSUME TypeInv, NEW t \in Tasks,
           SendDetected(t) \/ FlagDetected(t) \/ Sweep(t) \/ SendCredited(t) \/ RecordCredit(t)
             \/ AlreadyCredited(t) \/ Remove(t)
    PROVE  TypeInv'
  <1> USE DEF TypeInv
  <1>0. loc[t] \in Locals /\ mem \in Store /\ disk \in Store /\ credits \in [EventIds -> Nat]
    BY DEF TypeOK
  <1>a. pc[t] \in EntryLabels
    <2>1. SendDetected(t) \/ FlagDetected(t) => pc[t] \in {"detect", "flag"}
      BY DEF SendDetected, FlagDetected
    <2>2. Sweep(t) => pc[t] = "sweep"
      BY SweepEffect
    <2>3. SendCredited(t) \/ RecordCredit(t) \/ AlreadyCredited(t) => pc[t] \in {"credit", "record"}
      BY DEF SendCredited, RecordCredit, AlreadyCredited
    <2>4. Remove(t) => pc[t] = "remove"
      BY DEF Remove
    <2> QED BY <2>1, <2>2, <2>3, <2>4 DEF EntryLabels
  <1>b. loc[t].entry \in Entry /\ loc[t].entry.id \in EventIds
    BY <1>a DEF EntryInv, Entry
  <1>c. "next" \in Labels /\ "next" \notin EntryLabels /\ \A label \in EntryLabels : label \in Labels
    BY DEF Labels, EntryLabels
  <1>d. NextEntry(t) => pc' \in [Tasks -> Labels] /\ loc' \in [Tasks -> Locals] /\ EntryInv'
    BY <1>c, LocalsType, TaskStep DEF NextEntry
  <1>e. ASSUME NEW label \in EntryLabels, At(t, label, loc[t])
        PROVE  pc' \in [Tasks -> Labels] /\ loc' \in [Tasks -> Locals] /\ EntryInv'
    BY <1>0, <1>b, <1>c, <1>e, TaskStep
  <1>f. ASSUME NEW o \in Outcomes, Outcome(o)
        PROVE  faults' \in Nat /\ errors' \in Nat
    <2>1. faults' = faults \/ faults' = faults + 1
      BY <1>f DEF Outcome, Fault
    <2>2. errors' = errors \/ errors' = errors + 1
      BY <1>f DEF Outcome, Error
    <2> QED BY <2>1, <2>2 DEF TypeOK
  <1>1. CASE SendDetected(t)
    <2> DEFINE id == loc[t].entry.id
    <2>1. PICK o \in Outcomes :
            /\ Outcome(o)
            /\ detected' = IF Reached(o) THEN detected \cup {id} ELSE detected
            /\ IF Recorded(o) THEN At(t, "flag", loc[t]) ELSE NextEntry(t)
      BY <1>1 DEF SendDetected
    <2>2. detected' \subseteq EventIds
      BY <1>b, <2>1 DEF TypeOK
    <2>3. faults' \in Nat /\ errors' \in Nat
      BY <1>f, <2>1
    <2>4. pc' \in [Tasks -> Labels] /\ loc' \in [Tasks -> Locals] /\ EntryInv'
      BY <1>d, <1>e, <2>1 DEF EntryLabels
    <2> QED BY <1>1, <2>2, <2>3, <2>4 DEF SendDetected, TypeOK, chainVars, locks
  <1>2. CASE Sweep(t)
    <2>1. /\ \/ NextEntry(t)
             \/ At(t, "credit", loc[t])
             \/ At(t, "credit", [loc[t] EXCEPT !.deferred = TRUE])
          /\ swept' = swept \/ \E S \in SUBSET Payments : swept' = swept \cup S
          /\ faults' = faults \/ faults' = faults + 1
          /\ errors' = errors \/ errors' = errors + 1
          /\ UNCHANGED <<chainVars, assigned, first, mem, disk, locks, backendVars>>
      BY <1>2, SweepEffect
    <2> DEFINE l == [loc[t] EXCEPT !.deferred = TRUE]
    <2>2. l \in Locals /\ l.entry = loc[t].entry
      BY <1>0 DEF Locals
    <2> HIDE DEF l
    <2>3. At(t, "credit", l) => pc' \in [Tasks -> Labels] /\ loc' \in [Tasks -> Locals] /\ EntryInv'
      BY <1>b, <1>c, <2>2, TaskStep DEF EntryLabels
    <2>4. pc' \in [Tasks -> Labels] /\ loc' \in [Tasks -> Locals] /\ EntryInv'
      BY <1>d, <1>e, <2>1, <2>3 DEF EntryLabels, l
    <2>5. swept' \subseteq Payments /\ faults' \in Nat /\ errors' \in Nat
      BY <2>1 DEF TypeOK
    <2> QED BY <2>1, <2>4, <2>5 DEF TypeOK, chainVars, locks, backendVars
  <1>3. CASE SendCredited(t)
    <2> DEFINE id == loc[t].entry.id
    <2>1. PICK o \in Outcomes :
            /\ Outcome(o)
            /\ credits' = IF Reached(o) THEN [credits EXCEPT ![id] = @ + 1] ELSE credits
            /\ IF Recorded(o) THEN At(t, "record", loc[t]) ELSE NextEntry(t)
      BY <1>3 DEF SendCredited
    <2>2. credits' \in [EventIds -> Nat]
      BY <1>0, <1>b, <2>1
    <2>3. faults' \in Nat /\ errors' \in Nat
      BY <1>f, <2>1
    <2>4. pc' \in [Tasks -> Labels] /\ loc' \in [Tasks -> Locals] /\ EntryInv'
      BY <1>d, <1>e, <2>1 DEF EntryLabels
    <2> QED BY <1>3, <2>2, <2>3, <2>4 DEF SendCredited, TypeOK, chainVars, locks
  <1>4. CASE AlreadyCredited(t)
    <2>1. pc' \in [Tasks -> Labels] /\ loc' \in [Tasks -> Locals] /\ EntryInv'
      BY <1>4, <1>d, <1>e DEF AlreadyCredited, EntryLabels
    <2> QED BY <1>4, <2>1 DEF AlreadyCredited, TypeOK, chainVars, locks, backendVars
  <1>5. CASE Remove(t)
    <2>1. mem' \in Store
      BY <1>0, <1>b, <1>5, QueueHelperType DEF Remove
    <2>2. disk' \in Store /\ faults' \in Nat
      BY <1>5, <2>1, SaveType DEF Remove
    <2> QED BY <1>5, <1>d, <2>1, <2>2 DEF Remove, TypeOK, chainVars, locks, backendVars
  <1>6. CASE FlagDetected(t) \/ RecordCredit(t)
    <2>1. mem' \in Store
      BY <1>0, <1>b, <1>6, QueueHelperType DEF FlagDetected, RecordCredit
    <2>2. PICK saved \in BOOLEAN :
            Save(saved) /\ (NextEntry(t) \/ At(t, "sweep", loc[t]) \/ At(t, "remove", loc[t]))
      BY <1>6 DEF FlagDetected, RecordCredit
    <2>3. disk' \in Store /\ faults' \in Nat
      BY <2>1, <2>2, SaveType
    <2>4. pc' \in [Tasks -> Labels] /\ loc' \in [Tasks -> Locals] /\ EntryInv'
      BY <1>d, <1>e, <2>2 DEF EntryLabels
    <2>5. UNCHANGED <<chainVars, assigned, swept, first, locks, backendVars, errors>>
      BY <1>6 DEF FlagDetected, RecordCredit
    <2> QED BY <2>1, <2>3, <2>4, <2>5 DEF TypeOK, chainVars, locks, backendVars
  <1> QED BY <1>1, <1>2, <1>3, <1>4, <1>5, <1>6

LEMMA TypeStep == TypeInv /\ [Next]_vars => TypeInv'
  <1> SUFFICES ASSUME TypeInv, [Next]_vars PROVE TypeInv'
    OBVIOUS
  <1>1. CASE Mine \/ Reorg \/ Assign \/ Crash
    BY <1>1, EnvironmentType
  <1>2. ASSUME NEW t \in Tasks, CycleStep(t) PROVE TypeInv'
    BY <1>2, CycleType, ChunkStepType DEF CycleStep
  <1>3. ASSUME NEW t \in Tasks, CreditStep(t) PROVE TypeInv'
    BY <1>3, QueueType, OriginType, DeliveryType DEF CreditStep
  <1>4. ASSUME NEW t \in Callers, RecoverStep(t) PROVE TypeInv'
    BY <1>4, RecoverType DEF Tasks
  <1>5. CASE UNCHANGED vars
    BY <1>5 DEF vars, chainVars, locks, backendVars, TypeInv, TypeOK, EntryInv
  <1> QED BY <1>1, <1>2, <1>3, <1>4, <1>5 DEF Next

\* The memory, the file and the locals of every task stay well typed, and a
\* task at work on an entry of the queue has one.
THEOREM TypeCorrect == Spec => []TypeOK
  <1>1. Spec => []TypeInv
    BY TypeInit, TypeStep, PTL DEF Spec
  <1> QED BY <1>1, PTL DEF TypeInv

----------------------------------------------------------------------------
(* The invariant behind what is credited *)

Announced(Q) == \A e \in Q : e.notified => e.id \in detected

\* No reorganisation reaches the payment any more.
Buried(p) == at[p] > 0 /\ ok[p] /\ Deep(best, at[p])

\* A flagged entry belongs to an id the backend was told of.
QueueInv == Announced(mem.pending) /\ Announced(disk.pending)

\* A top-up that is treated as a payment had no transaction when it was looked for.
Excused(id) == IsTopUp(id[1]) => id \in unseen

\* What a task knows of its copies: it found the entry's payment deep at an
\* older tip, and does not sweep or credit it otherwise; it has asked who sent it.
TaskInv(t) ==
    /\ loc[t].tip <= best
    /\ Announced(loc[t].todo)
    /\ pc[t] \in EntryLabels =>
         /\ loc[t].entry.notified => loc[t].entry.id \in detected
         /\ loc[t].deep => Buried(loc[t].entry.id[1])
    /\ pc[t] \in EntryLabels \ {"origin"} => Excused(loc[t].entry.id)
    /\ pc[t] \in {"sweep", "credit"} => loc[t].deep
    /\ pc[t] \in {"flag", "sweep", "credit"} => loc[t].entry.id \in detected

\* One task at a time works on the queue.
InQueue == {"next"} \cup EntryLabels
LockInv == \A t \in Tasks : pc[t] \in InQueue => creditLock = t

\* A task has the reply to a credit and has not recorded it yet.
Recording(id) == \E t \in Tasks : pc[t] = "record" /\ loc[t].entry.id = id

\* An id that is neither recorded as credited nor about to be was sent at most
\* as often as there were faults.
CountInv ==
    \A id \in EventIds :
        credits[id] <= faults + (IF Credited(mem, id) \/ Recording(id) THEN 1 ELSE 0)

\* What was credited is buried and announced, what was announced is no top-up or had
\* no transaction.
SentInv ==
    \A id \in EventIds :
        /\ credits[id] > 0 => Buried(id[1]) /\ id \in detected
        /\ id \in detected => Excused(id)

\* The file is never ahead of memory.
OrderInv == \A k \in Kinds : disk.cursor[k] <= mem.cursor[k]

OutboxInv ==
    QueueInv /\ (\A t \in Tasks : TaskInv(t)) /\ LockInv /\ CountInv /\ SentInv /\ OrderInv

\* What a step of a task never does to the rest of the state.
Calm ==
    /\ \A k \in Kinds : mem.cursor[k] <= mem'.cursor[k]
    /\ \A id \in EventIds : Credited(mem, id) => Credited(mem', id)
    /\ disk' = disk \/ disk' = mem'
    /\ faults' >= faults
    /\ UNCHANGED chainVars

\* What a step of task t to a label does with the credit lock.
LockMoves(t, label) ==
    \/ (label \in InQueue => pc[t] \in InQueue) /\ creditLock' = creditLock
    \/ creditLock = NoTask /\ creditLock' = t
    \/ pc[t] \in InQueue /\ label \notin InQueue /\ creditLock' = NoTask

\* No reply is forgotten.
RecordKept == \A id \in EventIds : Recording(id) => Recording(id)' \/ Credited(mem', id)

\* A step outside the delivery of an entry.
Quiet(t) ==
    /\ pc[t] \notin EntryLabels
    /\ \E label \in Labels \ EntryLabels, l \in Locals :
         /\ At(t, label, l)
         /\ LockMoves(t, label)
         /\ l.tip <= best
         /\ l.todo \subseteq loc[t].todo \cup mem.pending
    /\ \A e \in mem'.pending : e.notified => e \in mem.pending
    /\ UNCHANGED backendVars

\* The helpers credit nothing, announce nothing and put no cursor back.
LEMMA SetCursorEffect ==
    ASSUME NEW s \in Store, NEW k \in Kinds, NEW n \in Nat
    PROVE  /\ SetCursor(s, k, n).pending = s.pending
           /\ SetCursor(s, k, n).credited = s.credited
           /\ SetCursor(s, k, n).ignored = s.ignored
           /\ SetCursor(s, k, n).cursor = [s.cursor EXCEPT ![k] = Higher(@, n)]
           /\ \A j \in Kinds : s.cursor[j] <= SetCursor(s, k, n).cursor[j]
  <1>1. /\ SetCursor(s, k, n).pending = s.pending /\ SetCursor(s, k, n).credited = s.credited
        /\ SetCursor(s, k, n).ignored = s.ignored
        /\ SetCursor(s, k, n).cursor = [s.cursor EXCEPT ![k] = Higher(@, n)]
    BY DEF SetCursor, Store
  <1>2. \A j \in Kinds : s.cursor[j] <= SetCursor(s, k, n).cursor[j]
    BY <1>1 DEF Store, Higher, NoBlock
  <1> QED BY <1>1, <1>2

LEMMA WithCursorsEffect ==
    ASSUME NEW s \in Store, NEW n \in Nat
    PROVE  /\ WithCursors(s, n).pending = s.pending
           /\ WithCursors(s, n).credited = s.credited
           /\ WithCursors(s, n).ignored = s.ignored
           /\ \A j \in Kinds : WithCursors(s, n).cursor[j]
                                 = IF Started(s) THEN s.cursor[j] ELSE InitialCursor(n)
           /\ \A j \in Kinds : s.cursor[j] <= WithCursors(s, n).cursor[j]
  <1>1. /\ WithCursors(s, n).pending = s.pending /\ WithCursors(s, n).credited = s.credited
        /\ WithCursors(s, n).ignored = s.ignored
        /\ \A j \in Kinds : WithCursors(s, n).cursor[j]
                              = IF Started(s) THEN s.cursor[j] ELSE InitialCursor(n)
    BY DEF WithCursors, Store
  <1>2. InitialCursor(n) \in Nat \cup {NoBlock}
    BY BoundAssumption DEF InitialCursor
  <1>3. ~Started(s) => \A j \in Kinds : s.cursor[j] = NoBlock
    BY DEF Started
  <1>4. \A j \in Kinds : s.cursor[j] \in Nat \cup {NoBlock}
    BY DEF Store
  <1> QED BY <1>1, <1>2, <1>3, <1>4 DEF NoBlock

LEMMA PushEffect ==
    ASSUME NEW s \in Store, NEW f \in Found
    PROVE  /\ Push(s, f).credited = s.credited
           /\ Push(s, f).ignored = s.ignored
           /\ Push(s, f).cursor = s.cursor
           /\ s.pending \subseteq Push(s, f).pending
           /\ \A e \in Push(s, f).pending : e.notified => e \in s.pending
  <1>1. CASE Known(s, f.id)
    BY <1>1 DEF Push
  <1>2. CASE ~Known(s, f.id)
    <2> DEFINE x == [id |-> f.id, height |-> f.height, notified |-> FALSE]
    <2>1. Push(s, f) = [s EXCEPT !.pending = s.pending \cup {x}]
      BY <1>2 DEF Push
    <2>2. ~x.notified
      OBVIOUS
    <2> HIDE DEF x
    <2> QED BY <2>1, <2>2 DEF Store
  <1> QED BY <1>1, <1>2

LEMMA HelperEffect ==
    ASSUME NEW s \in Store, NEW n \in Nat, NEW id \in EventIds
    PROVE  /\ \A r \in {Drop(s, id), Ignore(s, id), Notified(s, id), Moved(s, id, n)} :
                r.credited = s.credited /\ r.cursor = s.cursor
           /\ MarkCredited(s, id).credited = s.credited \cup {id}
           /\ MarkCredited(s, id).cursor = s.cursor
           /\ MarkCredited(s, id).pending = s.pending
           /\ Drop(s, id).pending \subseteq s.pending
           /\ Ignore(s, id).pending \subseteq s.pending
           /\ \A e \in Notified(s, id).pending : e.id = id \/ e \in s.pending
           /\ \A e \in Moved(s, id, n).pending :
                \E x \in s.pending : x.id = e.id /\ x.notified = e.notified
  <1>1. /\ Drop(s, id).credited = s.credited /\ Drop(s, id).cursor = s.cursor
        /\ Ignore(s, id).credited = s.credited /\ Ignore(s, id).cursor = s.cursor
        /\ Drop(s, id).pending \subseteq s.pending /\ Ignore(s, id).pending \subseteq s.pending
    BY DEF Drop, Ignore, Store
  <1>2. /\ Notified(s, id).credited = s.credited /\ Notified(s, id).cursor = s.cursor
        /\ Moved(s, id, n).credited = s.credited /\ Moved(s, id, n).cursor = s.cursor
        /\ MarkCredited(s, id).credited = s.credited \cup {id}
        /\ MarkCredited(s, id).cursor = s.cursor /\ MarkCredited(s, id).pending = s.pending
    BY DEF Notified, Moved, MarkCredited, Store
  <1>3. \A e \in Notified(s, id).pending : e.id = id \/ e \in s.pending
    <2>1. Notified(s, id).pending
            = {IF e.id = id THEN [e EXCEPT !.notified = TRUE] ELSE e : e \in s.pending}
      BY DEF Notified, Store
    <2>2. \A e \in s.pending : [e EXCEPT !.notified = TRUE].id = e.id
      BY DEF Store, Entry
    <2> QED BY <2>1, <2>2
  <1>4. \A e \in Moved(s, id, n).pending : \E x \in s.pending : x.id = e.id /\ x.notified = e.notified
    <2>1. Moved(s, id, n).pending
            = {IF e.id = id THEN [e EXCEPT !.height = n] ELSE e : e \in s.pending}
      BY DEF Moved, Store
    <2>2. \A e \in s.pending : /\ [e EXCEPT !.height = n].id = e.id
                               /\ [e EXCEPT !.height = n].notified = e.notified
      BY DEF Store, Entry
    <2> QED BY <2>1, <2>2
  <1> QED BY <1>1, <1>2, <1>3, <1>4

\* A save writes memory, or nothing.
LEMMA SaveEffect ==
    ASSUME TypeInv, NEW saved \in BOOLEAN, Save(saved)
    PROVE  (disk' = disk \/ disk' = mem') /\ faults' >= faults
  BY DEF Save, Fault, TypeInv, TypeOK

LEMMA LeaveQuiet ==
    ASSUME TypeInv, NEW t \in Tasks, loc[t].tip <= best, LeaveKind(t) \/ LeaveScan(t)
    PROVE  \E label \in Labels \ InQueue, l \in Locals :
             At(t, label, l) /\ l.tip <= best /\ l.todo \subseteq loc[t].todo \cup mem.pending
  <1>0. loc[t] \in Locals
    BY DEF TypeInv, TypeOK
  <1>1. CASE LeaveScan(t)
    <2>1. At(t, "credits", SecondPass(t)) /\ "credits" \in Labels \ InQueue
      BY <1>1 DEF LeaveScan, Labels, InQueue, EntryLabels
    <2>2. SecondPass(t).tip = loc[t].tip /\ SecondPass(t).todo = loc[t].todo
      BY <1>0 DEF SecondPass, Locals
    <2>3. SecondPass(t) \in Locals
      BY LocalsType
    <2> QED BY <2>1, <2>2, <2>3
  <1>2. CASE ~LeaveScan(t)
    <2> DEFINE l == [loc[t] EXCEPT !.kind = AfterKind(loc[t].kind), !.next = 0,
                                   !.end = 0, !.found = {}, !.partial = FALSE]
    <2>1. At(t, "source", l) /\ "source" \in Labels \ InQueue
      BY <1>2 DEF LeaveKind, Labels, InQueue, EntryLabels
    <2>2. l.tip = loc[t].tip /\ l.todo = loc[t].todo
      BY <1>0 DEF Locals
    <2>3. l \in Locals
      BY LocalsType
    <2> HIDE DEF l
    <2> QED BY <2>1, <2>2, <2>3
  <1> QED BY <1>1, <1>2

\* A task that starts over, or goes on with the locals it has.
LEMMA SimpleQuiet ==
    ASSUME TypeInv, NEW t \in Tasks, loc[t].tip <= best, NEW label \in Labels \ InQueue,
           At(t, label, loc[t]) \/ At(t, label, InitLocals)
    PROVE  \E x \in Labels \ InQueue, m \in Locals :
             At(t, x, m) /\ m.tip <= best /\ m.todo \subseteq loc[t].todo \cup mem.pending
  <1>1. InitLocals \in Locals /\ InitLocals.tip = 0 /\ InitLocals.todo = {}
    BY InitLocalsType DEF InitLocals
  <1>2. best \in Nat /\ loc[t] \in Locals
    BY DEF TypeInv, TypeOK
  <1> QED BY <1>1, <1>2

LEMMA CycleQuiet ==
    ASSUME TypeInv, NEW t \in Tasks, loc[t].tip <= best,
           CycleTip(t) \/ ReadReservations(t) \/ ScanLock(t) \/ SkipSource(t)
             \/ StartSource(t) \/ Maintain(t)
    PROVE  Quiet(t) /\ Calm
  <1>0. /\ loc[t] \in Locals /\ mem \in Store /\ best \in Nat /\ faults \in Nat
        /\ assigned \subseteq Addrs
        /\ \A k \in Kinds : mem.cursor[k] \in Int
    BY DEF TypeInv, TypeOK, Store, NoBlock
  <1>a. loc[t].tip \in Nat /\ loc[t].kind \in Kinds /\ SafeBlock(loc[t].tip) \in Nat
    BY <1>0, SafeBlockType DEF Locals
  <1>b. \A label \in {"idle", "scan", "source", "credits", "fetch"} : label \in Labels \ InQueue
    BY DEF Labels, InQueue, EntryLabels
  <1>1. CASE CycleTip(t)
    <2> DEFINE l == [InitLocals EXCEPT !.tip = best]
    <2>1. l \in Locals /\ l.tip = best /\ l.todo = {}
      BY <1>0, InitLocalsType DEF Locals, InitLocals
    <2>2. At(t, "credits", l)
      BY <1>1 DEF CycleTip
    <2> HIDE DEF l
    <2> QED BY <1>0, <1>1, <1>b, <2>1, <2>2 DEF CycleTip, Quiet, Calm, LockMoves, locks, InQueue, EntryLabels
  <1>2. CASE ReadReservations(t)
    <2> DEFINE l == [loc[t] EXCEPT !.watched = assigned]
    <2>1. l \in Locals /\ l.tip = loc[t].tip /\ l.todo = loc[t].todo
      BY <1>0 DEF Locals
    <2>2. At(t, "idle", InitLocals) \/ At(t, "scan", l)
      BY <1>2 DEF ReadReservations
    <2> HIDE DEF l
    <2>3. \E x \in Labels \ InQueue, m \in Locals :
            At(t, x, m) /\ m.tip <= best /\ m.todo \subseteq loc[t].todo \cup mem.pending
      BY <1>b, <2>1, <2>2, SimpleQuiet
    <2> QED BY <1>0, <1>2, <2>3 DEF ReadReservations, Quiet, Calm, LockMoves, locks, InQueue, EntryLabels
  <1>3. CASE ScanLock(t)
    <2>1. PICK saved \in BOOLEAN :
            /\ Save(saved)
            /\ At(t, "source", loc[t]) \/ LeaveScan(t)
      BY <1>3 DEF ScanLock
    <2>2. (disk' = disk \/ disk' = mem') /\ faults' >= faults
      BY <2>1, SaveEffect
    <2>3. \E x \in Labels \ InQueue, m \in Locals :
            At(t, x, m) /\ m.tip <= best /\ m.todo \subseteq loc[t].todo \cup mem.pending
      BY <1>b, <2>1, SimpleQuiet, LeaveQuiet
    <2>4. mem' = WithCursors(mem, SafeBlock(loc[t].tip))
      BY <1>3 DEF ScanLock
    <2>5. /\ mem'.pending = mem.pending /\ mem'.credited = mem.credited
          /\ \A k \in Kinds : mem.cursor[k] <= mem'.cursor[k]
      BY <1>0, <1>a, <2>4, WithCursorsEffect
    <2> QED BY <1>3, <2>2, <2>3, <2>5 DEF ScanLock, Quiet, Calm, LockMoves, locks, InQueue, EntryLabels, Credited
  <1>4. CASE SkipSource(t)
    <2>1. PICK saved \in BOOLEAN : Save(saved) /\ (LeaveKind(t) \/ LeaveScan(t))
      BY <1>4 DEF SkipSource
    <2>2. (disk' = disk \/ disk' = mem') /\ faults' >= faults
      BY <2>1, SaveEffect
    <2>3. \E x \in Labels \ InQueue, m \in Locals :
            At(t, x, m) /\ m.tip <= best /\ m.todo \subseteq loc[t].todo \cup mem.pending
      BY <2>1, LeaveQuiet
    <2>4. mem' = SetCursor(mem, loc[t].kind, SafeBlock(loc[t].tip))
      BY <1>4 DEF SkipSource
    <2>5. /\ mem'.pending = mem.pending /\ mem'.credited = mem.credited
          /\ \A k \in Kinds : mem.cursor[k] <= mem'.cursor[k]
      BY <1>0, <1>a, <2>4, SetCursorEffect
    <2> QED BY <1>4, <2>2, <2>3, <2>5 DEF SkipSource, Quiet, Calm, LockMoves, locks, InQueue, EntryLabels, Credited
  <1>5. CASE StartSource(t)
    <2> DEFINE safe == SafeBlock(loc[t].tip)
               from == From(mem, loc[t].kind, safe)
               l == [loc[t] EXCEPT !.next = from, !.end = End(from, safe)]
    <2>1. from \in Nat /\ End(from, safe) \in Nat
      BY <1>0, <1>a, CursorType
    <2>2. l \in Locals /\ l.tip = loc[t].tip /\ l.todo = loc[t].todo
      <3> HIDE DEF from, safe
      <3> QED BY <1>0, <2>1 DEF Locals
    <2>3. LeaveKind(t) \/ At(t, "fetch", l)
      BY <1>5 DEF StartSource
    <2> HIDE DEF l
    <2>4. \E x \in Labels \ InQueue, m \in Locals :
            At(t, x, m) /\ m.tip <= best /\ m.todo \subseteq loc[t].todo \cup mem.pending
      BY <1>b, <2>2, <2>3, LeaveQuiet
    <2> QED BY <1>0, <1>5, <2>4 DEF StartSource, Quiet, Calm, LockMoves, locks, InQueue, EntryLabels
  <1>6. CASE Maintain(t)
    <2>1. (disk' = disk \/ disk' = mem') /\ faults' >= faults
      BY <1>0, <1>6, SaveEffect DEF Maintain
    <2>2. \E x \in Labels \ InQueue, m \in Locals :
            At(t, x, m) /\ m.tip <= best /\ m.todo \subseteq loc[t].todo \cup mem.pending
      BY <1>6, <1>b, SimpleQuiet DEF Maintain
    <2> QED BY <1>0, <1>6, <2>1, <2>2 DEF Maintain, Quiet, Calm, LockMoves, locks, InQueue, EntryLabels
  <1> QED BY <1>1, <1>2, <1>3, <1>4, <1>5, <1>6

LEMMA ChunkQuiet ==
    ASSUME TypeInv, NEW t \in Tasks, loc[t].tip <= best, Fetch(t) \/ Enqueue(t) \/ Advance(t)
    PROVE  Quiet(t) /\ Calm
  <1>0. /\ loc[t] \in Locals /\ mem \in Store /\ faults \in Nat
        /\ loc[t].kind \in Kinds /\ loc[t].found \subseteq Found
        /\ \A k \in Kinds : mem.cursor[k] \in Int
    BY DEF TypeInv, TypeOK, Locals, Store, NoBlock
  <1>a. \A label \in {"fetch", "enqueue", "advance"} : label \in Labels \ InQueue
    BY DEF Labels, InQueue, EntryLabels
  <1>1. CASE Fetch(t)
    <2> DEFINE new == New(mem, Seen(loc[t]))
    <2>1. new \subseteq Found
      BY <1>0, SeenType DEF TypeInv
    <2>2. \/ LeaveKind(t)
          \/ \E F \in SUBSET new, b \in BOOLEAN, label \in {"enqueue", "advance"} :
               At(t, label, [loc[t] EXCEPT !.found = F, !.partial = b])
      BY <1>0, <1>1, FetchEffect
    <2>3. \A F \in SUBSET new, b \in BOOLEAN :
            /\ [loc[t] EXCEPT !.found = F, !.partial = b] \in Locals
            /\ [loc[t] EXCEPT !.found = F, !.partial = b].tip = loc[t].tip
            /\ [loc[t] EXCEPT !.found = F, !.partial = b].todo = loc[t].todo
      <3> HIDE DEF new
      <3> QED BY <1>0, <2>1 DEF Locals
    <2> HIDE DEF new
    <2>4. \E x \in Labels \ InQueue, m \in Locals :
            At(t, x, m) /\ m.tip <= best /\ m.todo \subseteq loc[t].todo \cup mem.pending
      <3>1. CASE LeaveKind(t)
        BY <3>1, LeaveQuiet
      <3>2. ASSUME NEW F \in SUBSET new, NEW b \in BOOLEAN, NEW label \in {"enqueue", "advance"},
                   At(t, label, [loc[t] EXCEPT !.found = F, !.partial = b])
            PROVE  \E x \in Labels \ InQueue, m \in Locals :
                     At(t, x, m) /\ m.tip <= best /\ m.todo \subseteq loc[t].todo \cup mem.pending
        <4> DEFINE l == [loc[t] EXCEPT !.found = F, !.partial = b]
        <4>1. l \in Locals /\ l.tip <= best /\ l.todo \subseteq loc[t].todo \cup mem.pending
          BY <2>3
        <4>2. At(t, label, l) /\ label \in Labels \ InQueue
          BY <1>a, <3>2
        <4> HIDE DEF l
        <4> QED BY <4>1, <4>2
      <3> QED BY <2>2, <3>1, <3>2
    <2>5. UNCHANGED <<chainVars, mem, disk, faults, backendVars, creditLock>> /\ pc[t] = "fetch"
      BY <1>1 DEF Fetch
    <2> QED BY <1>0, <2>4, <2>5 DEF Quiet, Calm, LockMoves, InQueue, EntryLabels
  <1>2. CASE Enqueue(t)
    <2>1. PICK f \in loc[t].found :
            LET rest == loc[t].found \ {f}
                l == [loc[t] EXCEPT !.found = rest]
            IN /\ mem' = Push(mem, f)
               /\ \E saved \in BOOLEAN :
                    /\ IF Known(mem, f.id) THEN saved /\ UNCHANGED <<disk, faults>>
                       ELSE Save(saved)
                    /\ IF ~saved \/ (rest = {} /\ l.partial) THEN LeaveKind(t)
                       ELSE /\ At(t, IF rest = {} THEN "advance" ELSE "enqueue", l)
                            /\ UNCHANGED scanLock
      BY <1>2 DEF Enqueue
    <2> DEFINE rest == loc[t].found \ {f}
               l == [loc[t] EXCEPT !.found = rest]
               label == IF rest = {} THEN "advance" ELSE "enqueue"
    <2>2. (disk' = disk \/ disk' = mem') /\ faults' >= faults
      BY <1>0, <2>1, SaveEffect
    <2>3. l \in Locals /\ l.tip = loc[t].tip /\ l.todo = loc[t].todo
      BY <1>0 DEF Locals
    <2>4. LeaveKind(t) \/ At(t, label, l)
      BY <2>1
    <2>5. label \in Labels \ InQueue
      BY <1>a
    <2> HIDE DEF l, label
    <2>6. \E x \in Labels \ InQueue, m \in Locals :
            At(t, x, m) /\ m.tip <= best /\ m.todo \subseteq loc[t].todo \cup mem.pending
      BY <2>3, <2>4, <2>5, LeaveQuiet
    <2>7. mem' = Push(mem, f) /\ f \in Found
      BY <1>0, <2>1
    <2>8. /\ mem'.credited = mem.credited /\ mem'.cursor = mem.cursor
          /\ \A e \in mem'.pending : e.notified => e \in mem.pending
      BY <1>0, <2>7, PushEffect
    <2> QED BY <1>0, <1>2, <2>2, <2>6, <2>8 DEF Enqueue, Quiet, Calm, LockMoves, locks, InQueue, EntryLabels, Credited
  <1>3. CASE Advance(t)
    <2> DEFINE to == ChunkEnd(loc[t])
               l == [loc[t] EXCEPT !.next = to + 1]
    <2>1. to \in Nat /\ mem' = SetCursor(mem, loc[t].kind, to)
      BY <1>0, <1>3, ChunkType DEF Advance
    <2>2. l \in Locals /\ l.tip = loc[t].tip /\ l.todo = loc[t].todo
      <3> HIDE DEF to
      <3> QED BY <1>0, <2>1 DEF Locals
    <2>3. PICK saved \in BOOLEAN : Save(saved) /\ (LeaveKind(t) \/ At(t, "fetch", l))
      BY <1>3 DEF Advance
    <2>4. (disk' = disk \/ disk' = mem') /\ faults' >= faults
      BY <2>3, SaveEffect
    <2> HIDE DEF l
    <2>5. \E x \in Labels \ InQueue, m \in Locals :
            At(t, x, m) /\ m.tip <= best /\ m.todo \subseteq loc[t].todo \cup mem.pending
      BY <1>a, <2>2, <2>3, LeaveQuiet
    <2>6. /\ mem'.pending = mem.pending /\ mem'.credited = mem.credited
          /\ \A k \in Kinds : mem.cursor[k] <= mem'.cursor[k]
      <3> HIDE DEF to
      <3> QED BY <1>0, <2>1, SetCursorEffect
    <2> QED BY <1>3, <2>4, <2>5, <2>6 DEF Advance, Quiet, Calm, LockMoves, locks, InQueue, EntryLabels, Credited
  <1> QED BY <1>1, <1>2, <1>3

LEMMA RecoverQuiet ==
    ASSUME TypeInv, NEW t \in Tasks, loc[t].tip <= best, RecoverStep(t)
    PROVE  Quiet(t) /\ Calm
  <1>0. /\ loc[t] \in Locals /\ mem \in Store /\ faults \in Nat /\ best \in Nat
        /\ loc[t].found \subseteq Found
        /\ \A k \in Kinds : mem.cursor[k] \in Int
    BY DEF TypeInv, TypeOK, Locals, Store, NoBlock
  <1>a. \A label \in {"rtip", "credits", "idle"} : label \in Labels \ InQueue
    BY DEF Labels, InQueue, EntryLabels
  <1>1. CASE RecoverFetch(t)
    <2>1. PICK p \in Payments :
            At(t, "rtip", [InitLocals EXCEPT !.pass = "recover",
                             !.found = {[id |-> Id(p), height |-> at[p]]}])
      BY <1>1 DEF RecoverFetch
    <2> DEFINE F == {[id |-> Id(p), height |-> at[p]]}
               l == [InitLocals EXCEPT !.pass = "recover", !.found = F]
    <2>2. F \subseteq Found
      BY IdType DEF Found, TypeInv, TypeOK
    <2>3. l \in Locals /\ l.tip = 0 /\ l.todo = {}
      <3> HIDE DEF F
      <3>1. InitLocals.tip = 0 /\ InitLocals.todo = {}
        BY DEF InitLocals
      <3> QED BY <2>2, <3>1, InitLocalsType DEF Locals
    <2>4. At(t, "rtip", l)
      BY <2>1
    <2> HIDE DEF l
    <2>5. \E x \in Labels \ InQueue, m \in Locals :
            At(t, x, m) /\ m.tip <= best /\ m.todo \subseteq loc[t].todo \cup mem.pending
      BY <1>0, <1>a, <2>3, <2>4
    <2> QED BY <1>0, <1>1, <2>5 DEF RecoverFetch, Quiet, Calm, LockMoves, locks, InQueue, EntryLabels
  <1>2. CASE RecoverTip(t)
    <2>1. PICK f \in loc[t].found, saved \in BOOLEAN :
            /\ mem' = Push(mem, f)
            /\ IF Known(mem, f.id) THEN saved /\ UNCHANGED <<disk, faults>>
               ELSE Save(saved)
            /\ IF saved THEN At(t, "credits", [loc[t] EXCEPT !.tip = best, !.found = {}])
               ELSE At(t, "idle", InitLocals)
      BY <1>2 DEF RecoverTip
    <2> DEFINE l == [loc[t] EXCEPT !.tip = best, !.found = {}]
    <2>2. (disk' = disk \/ disk' = mem') /\ faults' >= faults
      BY <1>0, <2>1, SaveEffect
    <2>3. l \in Locals /\ l.tip = best /\ l.todo = loc[t].todo
      BY <1>0 DEF Locals
    <2>4. At(t, "credits", l) \/ At(t, "idle", InitLocals)
      BY <2>1
    <2> HIDE DEF l
    <2>5. \E x \in Labels \ InQueue, m \in Locals :
            At(t, x, m) /\ m.tip <= best /\ m.todo \subseteq loc[t].todo \cup mem.pending
      BY <1>0, <1>a, <2>3, <2>4, SimpleQuiet
    <2>6. mem' = Push(mem, f) /\ f \in Found
      BY <1>0, <2>1
    <2>7. /\ mem'.credited = mem.credited /\ mem'.cursor = mem.cursor
          /\ \A e \in mem'.pending : e.notified => e \in mem.pending
      BY <1>0, <2>6, PushEffect
    <2> QED BY <1>0, <1>2, <2>2, <2>5, <2>7 DEF RecoverTip, Quiet, Calm, LockMoves, locks, InQueue, EntryLabels, Credited
  <1> QED BY <1>1, <1>2 DEF RecoverStep

LEMMA CreditsQuiet ==
    ASSUME TypeInv, NEW t \in Tasks, loc[t].tip <= best, CreditsLock(t) \/ CreditsDone(t)
    PROVE  Quiet(t) /\ Calm
  <1>0. /\ loc[t] \in Locals /\ mem \in Store /\ faults \in Nat /\ best \in Nat
        /\ mem.pending \subseteq Entry
        /\ \A k \in Kinds : mem.cursor[k] \in Int
    BY DEF TypeInv, TypeOK, Store, NoBlock
  <1>a. /\ \A label \in {"next", "idle", "reservations", "maintain"} : label \in Labels \ EntryLabels
        /\ \A label \in {"idle", "reservations", "maintain"} : label \notin InQueue
        /\ "next" \in InQueue
    BY DEF Labels, InQueue, EntryLabels
  <1>b. InitLocals \in Locals /\ InitLocals.tip <= best /\ InitLocals.todo = {}
    BY <1>0, InitLocalsType DEF InitLocals
  <1>1. CASE CreditsLock(t)
    <2> DEFINE l == [loc[t] EXCEPT !.todo = mem.pending]
    <2>1. l \in Locals /\ l.tip = loc[t].tip /\ l.todo = mem.pending
      BY <1>0 DEF Locals
    <2>2. PICK saved \in BOOLEAN :
            /\ Save(saved)
            /\ \/ creditLock' = t /\ At(t, "next", l)
               \/ UNCHANGED creditLock /\ At(t, "idle", InitLocals)
      BY <1>1 DEF CreditsLock
    <2>3. (disk' = disk \/ disk' = mem') /\ faults' >= faults
      BY <2>2, SaveEffect
    <2>4. /\ pc[t] = "credits" /\ creditLock = NoTask
          /\ UNCHANGED <<mem, chainVars, backendVars>>
      BY <1>1 DEF CreditsLock
    <2> HIDE DEF l
    <2>5. \E x \in Labels \ EntryLabels, m \in Locals :
            /\ At(t, x, m) /\ LockMoves(t, x)
            /\ m.tip <= best /\ m.todo \subseteq loc[t].todo \cup mem.pending
      <3>1. CASE creditLock' = t /\ At(t, "next", l)
        BY <1>a, <2>1, <2>4, <3>1 DEF LockMoves
      <3>2. CASE UNCHANGED creditLock /\ At(t, "idle", InitLocals)
        BY <1>a, <1>b, <3>2 DEF LockMoves
      <3> QED BY <2>2, <3>1, <3>2
    <2>6. pc[t] \notin EntryLabels
      BY <2>4 DEF EntryLabels
    <2> QED BY <1>0, <2>3, <2>4, <2>5, <2>6 DEF Quiet, Calm
  <1>2. CASE CreditsDone(t)
    <2>1. loc[t].pass \in {"before", "after", "recover"}
      BY <1>0 DEF Locals
    <2>2. \/ At(t, "reservations", loc[t]) \/ At(t, "maintain", loc[t])
          \/ At(t, "idle", InitLocals)
      BY <1>2, <2>1 DEF CreditsDone
    <2>3. pc[t] = "next" /\ creditLock' = NoTask /\ UNCHANGED <<mem, disk, faults, chainVars, backendVars>>
      BY <1>2 DEF CreditsDone
    <2>4. \A x \in {"idle", "reservations", "maintain"} : LockMoves(t, x)
      BY <1>a, <2>3 DEF LockMoves
    <2>5. \E x \in Labels \ EntryLabels, m \in Locals :
            /\ At(t, x, m) /\ LockMoves(t, x)
            /\ m.tip <= best /\ m.todo \subseteq loc[t].todo \cup mem.pending
      BY <1>0, <1>a, <1>b, <2>2, <2>4
    <2>6. pc[t] \notin EntryLabels
      BY <2>3 DEF EntryLabels
    <2> QED BY <1>0, <2>3, <2>5, <2>6 DEF Quiet, Calm
  <1> QED BY <1>1, <1>2

----------------------------------------------------------------------------
(* The invariant holds. *)

LEMMA OutboxInit == Init => OutboxInv
  <1> SUFFICES ASSUME Init PROVE OutboxInv
    OBVIOUS
  <1>1. QueueInv /\ OrderInv
    <2>1. \A e \in FirstFile.pending : ~e.notified
      BY DEF FirstFile
    <2>2. \A k \in Kinds : FirstFile.cursor[k] <= FirstFile.cursor[k]
      BY DEF FirstFile, NoBlock
    <2> QED BY <2>1, <2>2 DEF Init, QueueInv, Announced, OrderInv
  <1>2. ASSUME NEW t \in Tasks PROVE TaskInv(t)
    <2>1. pc[t] = "idle" /\ loc[t].tip = 0 /\ loc[t].todo = {} /\ best = 1
      BY DEF Init, InitLocals
    <2> QED BY <2>1 DEF TaskInv, EntryLabels, Announced
  <1>3. CountInv /\ SentInv /\ LockInv
    <2>0. LockInv
      BY DEF Init, LockInv, InQueue, EntryLabels
    <2>1. \A id \in EventIds : credits[id] = 0
      BY DEF Init
    <2>2. faults = 0
      BY DEF Init
    <2>3. detected = {}
      BY DEF Init
    <2> QED BY <2>0, <2>1, <2>2, <2>3 DEF CountInv, SentInv
  <1> QED BY <1>1, <1>2, <1>3 DEF OutboxInv

\* A buried payment stays where it is.
LEMMA ChainBuried ==
    ASSUME TypeOK, Mine \/ Reorg
    PROVE  /\ best' >= best
           /\ \A p \in Payments : Buried(p) => Buried(p)'
           /\ \A p \in Payments : at[p] > 0 /\ at[p] <= SafeBlock(best)
                => at'[p] = at[p] /\ ok'[p] = ok[p] /\ idx'[p] = idx[p]
  <1>0. best \in Nat /\ at \in [Payments -> Nat]
    BY DEF TypeOK
  <1>1. \A n \in Nat, p \in Payments : at[p] > 0 =>
          (Deep(n, at[p]) <=> at[p] <= n - (AtLeastOne(MinConf) - 1))
    BY <1>0, Constants DEF Deep, Confirmations
  <1>2. best' = best + 1
    BY DEF Mine, Reorg
  <1>3. ASSUME NEW p \in Payments, at[p] > 0, at[p] <= best - (AtLeastOne(MinConf) - 1)
        PROVE  at'[p] = at[p] /\ ok'[p] = ok[p] /\ idx'[p] = idx[p]
    <2>1. CASE Mine
      <3>1. PICK T \in SUBSET Payable : \E F \in SUBSET T :
              /\ at' = [q \in Payments |-> IF q \in T THEN best + 1 ELSE at[q]]
              /\ ok' = [q \in Payments |-> IF q \in T THEN q \notin F ELSE ok[q]]
        BY <2>1 DEF Mine
      <3>2. p \notin T
        BY <1>3 DEF Payable
      <3>3. PICK F \in SUBSET T :
              /\ at' = [q \in Payments |-> IF q \in T THEN best + 1 ELSE at[q]]
              /\ ok' = [q \in Payments |-> IF q \in T THEN q \notin F ELSE ok[q]]
        BY <3>1
      <3>4. at'[p] = at[p]
        BY <3>2, <3>3
      <3>5. ok'[p] = ok[p]
        BY <3>2, <3>3, Zenon
      <3>6. idx' = idx
        BY <2>1 DEF Mine
      <3> QED BY <3>4, <3>5, <3>6
    <2>2. CASE Reorg
      <3>1. PICK d \in 1 .. AtLeastOne(MinConf) - 1 :
              LET base == best - d
                  loose == {q \in Payments : at[q] > base}
              IN /\ base > 0
                 /\ \E place \in [loose -> {0} \cup (base + 1 .. best + 1)],
                       fine \in SUBSET loose,
                       index \in [{q \in loose : KindOf[q] = "erc20"} -> {0, 1}] :
                      /\ at' = [q \in Payments |-> IF q \in loose THEN place[q] ELSE at[q]]
                      /\ ok' = [q \in Payments |-> IF q \in loose THEN q \in fine ELSE ok[q]]
                      /\ idx' = [q \in Payments |->
                                   IF q \in DOMAIN index THEN index[q] ELSE idx[q]]
        BY <2>2 DEF Reorg
      <3> DEFINE base == best - d
                 loose == {q \in Payments : at[q] > base}
                 tokens == {q \in loose : KindOf[q] = "erc20"}
      <3>2. PICK place \in [loose -> {0} \cup (base + 1 .. best + 1)], fine \in SUBSET loose,
                 index \in [tokens -> {0, 1}] :
              /\ at' = [q \in Payments |-> IF q \in loose THEN place[q] ELSE at[q]]
              /\ ok' = [q \in Payments |-> IF q \in loose THEN q \in fine ELSE ok[q]]
              /\ idx' = [q \in Payments |-> IF q \in DOMAIN index THEN index[q] ELSE idx[q]]
        BY <3>1
      <3>3. p \notin loose
        BY <1>0, <1>3, Constants
      <3>4. p \notin tokens /\ DOMAIN index = tokens
        BY <3>2, <3>3
      <3> HIDE DEF loose, tokens
      <3>5. at'[p] = at[p]
        BY <3>2, <3>3
      <3>6. ok' = [q \in Payments |-> IF q \in loose THEN q \in fine ELSE ok[q]]
        BY <3>2
      <3>7. ok'[p] = ok[p]
        BY <3>3, <3>6, Zenon
      <3>8. idx'[p] = idx[p]
        BY <3>2, <3>4
      <3> QED BY <3>5, <3>7, <3>8
    <2> QED BY <2>1, <2>2
  <1>4. ASSUME NEW p \in Payments, Buried(p) PROVE Buried(p)'
    <2>1. at[p] > 0 /\ ok[p] /\ at[p] <= best - (AtLeastOne(MinConf) - 1)
      BY <1>0, <1>1, <1>4 DEF Buried
    <2>2. at'[p] = at[p] /\ ok'[p] = ok[p]
      BY <1>3, <2>1
    <2>3. Deep(best', at'[p])
      <3>1. best + 1 \in Nat /\ at[p] <= (best + 1) - (AtLeastOne(MinConf) - 1)
        BY <1>0, <2>1, Constants
      <3>2. Deep(best + 1, at[p])
        BY <1>1, <2>1, <3>1
      <3> QED BY <1>2, <2>2, <3>2
    <2> QED BY <2>1, <2>2, <2>3 DEF Buried
  <1>5. ASSUME NEW p \in Payments, at[p] > 0, at[p] <= SafeBlock(best)
        PROVE  at[p] <= best - (AtLeastOne(MinConf) - 1)
    BY <1>0, <1>5, Constants DEF SafeBlock, Higher
  <1> QED BY <1>0, <1>2, <1>3, <1>4, <1>5

LEMMA EnvironmentOutbox ==
    ASSUME TypeInv, OutboxInv, Mine \/ Reorg \/ Assign \/ Crash
    PROVE  OutboxInv'
  <1> USE DEF OutboxInv
  <1>0. /\ \A t \in Tasks : loc[t] \in Locals
        /\ \A id \in EventIds : credits[id] \in Nat /\ id[1] \in Payments
        /\ faults \in Nat /\ best \in Nat /\ disk \in Store
    BY PayeeType DEF TypeInv, TypeOK
  <1>1. CASE Mine \/ Reorg
    <2>1. UNCHANGED <<mem, disk, pc, loc, detected, credits, unseen, faults, creditLock>>
      BY <1>1 DEF Mine, Reorg, backendVars, locks
    <2>2. best' >= best /\ best' \in Nat /\ \A p \in Payments : Buried(p) => Buried(p)'
      BY <1>1, ChainBuried, TypeStep DEF TypeInv, TypeOK, Next
    <2>3. QueueInv' /\ LockInv' /\ CountInv' /\ OrderInv'
      BY <2>1 DEF QueueInv, Announced, LockInv, CountInv, Recording, OrderInv
    <2>4. SentInv'
      BY <1>0, <2>1, <2>2 DEF SentInv, Excused
    <2>5. ASSUME NEW t \in Tasks PROVE TaskInv(t)'
      <3>1. pc[t] \in EntryLabels => loc[t].entry.id[1] \in Payments
        BY PayeeType DEF TypeInv, EntryInv, Entry
      <3>2. loc[t].tip \in Nat /\ loc[t].tip <= best
        BY <1>0 DEF Locals, TaskInv
      <3> QED BY <1>0, <2>1, <2>2, <3>1, <3>2 DEF TaskInv, Announced, Excused
    <2> QED BY <2>3, <2>4, <2>5
  <1>2. CASE Assign
    <2>1. UNCHANGED <<mem, disk, pc, loc, detected, credits, unseen, faults, creditLock, best, at, ok>>
      BY <1>2 DEF Assign, backendVars, chainVars, locks
    <2> QED BY <2>1 DEF QueueInv, Announced, LockInv, CountInv, Recording, OrderInv, SentInv,
                        TaskInv, Buried, Excused
  <1>3. CASE Crash
    <2>1. /\ mem' = disk /\ UNCHANGED <<disk, detected, credits, unseen, best, at, ok>>
          /\ faults' = faults + 1
      BY <1>3 DEF Crash, backendVars, chainVars, Fault
    <2>2. \A t \in Tasks : pc'[t] = "idle" /\ loc'[t] = InitLocals
      BY <1>3 DEF Crash
    <2>3. \A t \in Tasks : TaskInv(t)'
      BY <1>0, <2>1, <2>2 DEF TaskInv, InitLocals, EntryLabels, Announced
    <2>4. CountInv' /\ LockInv'
      <3>1. \A id \in EventIds : credits[id] <= faults + 1
        BY <1>0 DEF CountInv
      <3>2. LockInv'
        BY <2>2 DEF LockInv, InQueue, EntryLabels
      <3> QED BY <1>0, <2>1, <3>1, <3>2 DEF CountInv
    <2>5. OrderInv'
      BY <1>0, <2>1 DEF OrderInv, Store, NoBlock
    <2> QED BY <2>1, <2>3, <2>4, <2>5 DEF QueueInv, Announced, SentInv, Buried, Excused
  <1> QED BY <1>1, <1>2, <1>3

\* What a step of task t needs to show: what the others know stays true.
LEMMA TaskKnows ==
    ASSUME TypeInv, \A u \in Tasks : TaskInv(u), UNCHANGED chainVars,
           detected \subseteq detected', unseen \subseteq unseen', NEW t \in Tasks, NEW label, NEW l, At(t, label, l),
           l.tip <= best,
           \A e \in l.todo : e.notified => e.id \in detected',
           label \in EntryLabels => /\ l.entry.notified => l.entry.id \in detected'
                                    /\ l.deep => Buried(l.entry.id[1]),
           label \in EntryLabels \ {"origin"} => (IsTopUp(l.entry.id[1]) => l.entry.id \in unseen'),
           label \in {"sweep", "credit"} => l.deep,
           label \in {"flag", "sweep", "credit"} => l.entry.id \in detected'
    PROVE  \A u \in Tasks : TaskInv(u)'
  <1>1. UNCHANGED <<best, at, ok>>
    BY DEF chainVars
  <1>2. TaskInv(t)'
    <2>1. pc'[t] = label /\ loc'[t] = l
      BY DEF At, Goto, Set, TypeInv, TypeOK
    <2> QED BY <1>1, <2>1 DEF TaskInv, Announced, Buried, Excused
  <1>3. ASSUME NEW u \in Tasks, u # t PROVE TaskInv(u)'
    <2>1. pc'[u] = pc[u] /\ loc'[u] = loc[u]
      BY <1>3 DEF At, Goto, Set, TypeInv, TypeOK
    <2> QED BY <1>1, <2>1 DEF TaskInv, Announced, Buried, Excused
  <1> QED BY <1>2, <1>3

\* Whoever works on the queue holds the lock.
LEMMA LockKept ==
    ASSUME TypeInv, LockInv, NEW t \in Tasks, NEW label, NEW l, At(t, label, l), LockMoves(t, label)
    PROVE  LockInv'
  <1>1. pc'[t] = label /\ \A u \in Tasks : u # t => pc'[u] = pc[u]
    BY DEF At, Goto, TypeInv, TypeOK
  <1> QED BY <1>1, TaskAssumption DEF LockInv, LockMoves

\* Only the task that has a reply can forget it.
LEMMA RecordStays ==
    ASSUME TypeInv, NEW t \in Tasks, NEW label, NEW l, At(t, label, l),
           pc[t] = "record" => Credited(mem', loc[t].entry.id)
    PROVE  RecordKept
  <1>1. \A u \in Tasks : u # t => pc'[u] = pc[u] /\ loc'[u] = loc[u]
    BY DEF At, Goto, Set, TypeInv, TypeOK
  <1>2. SUFFICES ASSUME NEW id \in EventIds, Recording(id), ~Credited(mem', id)
                 PROVE  Recording(id)'
    BY DEF RecordKept
  <1>3. PICK u \in Tasks : pc[u] = "record" /\ loc[u].entry.id = id
    BY <1>2 DEF Recording
  <1> QED BY <1>1, <1>2, <1>3 DEF Recording

\* The parts a calm step keeps when it announces and credits nothing new.
LEMMA CalmKeeps ==
    ASSUME TypeInv, TypeInv', OutboxInv, Calm, RecordKept, detected \subseteq detected',
           unseen \subseteq unseen'
    PROVE  /\ OrderInv'
           /\ (\A e \in mem'.pending : e.notified => e.id \in detected') => QueueInv'
           /\ credits' = credits => CountInv'
           /\ credits' = credits /\ detected' = detected => SentInv'
  <1>0. /\ \A id \in EventIds : credits[id] \in Nat
        /\ faults \in Nat /\ faults' \in Nat
        /\ \A k \in Kinds : mem.cursor[k] \in Int /\ mem'.cursor[k] \in Int /\ disk.cursor[k] \in Int
    BY DEF TypeInv, TypeOK, Store, NoBlock
  <1>1. OrderInv'
    BY <1>0 DEF OutboxInv, OrderInv, Calm
  <1>2. ASSUME \A e \in mem'.pending : e.notified => e.id \in detected'
        PROVE  QueueInv'
    BY <1>2 DEF OutboxInv, QueueInv, Announced, Calm
  <1>3. ASSUME credits' = credits PROVE CountInv'
    BY <1>0, <1>3 DEF OutboxInv, CountInv, Calm, RecordKept
  <1>4. ASSUME credits' = credits, detected' = detected PROVE SentInv'
    <2>1. UNCHANGED <<best, at, ok>>
      BY DEF Calm, chainVars
    <2> QED BY <1>4, <2>1 DEF OutboxInv, SentInv, Buried, Excused
  <1> QED BY <1>1, <1>2, <1>3, <1>4

LEMMA QuietOutbox ==
    ASSUME TypeInv, TypeInv', OutboxInv, NEW t \in Tasks, Quiet(t), Calm
    PROVE  OutboxInv'
  <1>1. UNCHANGED <<detected, credits, unseen>> /\ UNCHANGED chainVars
    BY DEF Quiet, Calm, backendVars
  <1>2. \A e \in mem'.pending : e.notified => e.id \in detected'
    BY <1>1 DEF Quiet, OutboxInv, QueueInv, Announced
  <1>3. PICK label \in Labels \ EntryLabels, l \in Locals :
          /\ At(t, label, l) /\ LockMoves(t, label)
          /\ l.tip <= best /\ l.todo \subseteq loc[t].todo \cup mem.pending
    BY DEF Quiet
  <1>4. \A e \in l.todo : e.notified => e.id \in detected'
    BY <1>1, <1>3 DEF OutboxInv, QueueInv, TaskInv, Announced
  <1>5. label \notin {"flag", "sweep", "credit"} /\ pc[t] # "record"
    BY DEF EntryLabels, Quiet
  <1>6. \A u \in Tasks : TaskInv(u)'
    BY <1>1, <1>3, <1>4, <1>5, TaskKnows DEF OutboxInv
  <1>7. LockInv' /\ RecordKept
    BY <1>3, <1>5, LockKept, RecordStays DEF OutboxInv
  <1> QED BY <1>1, <1>2, <1>6, <1>7, CalmKeeps DEF OutboxInv

LEMMA ReceiptOutbox ==
    ASSUME TypeInv, TypeInv', OutboxInv, NEW t \in Tasks, EntryReceipt(t)
    PROVE  OutboxInv' /\ Calm
  <1>0. /\ loc[t] \in Locals /\ loc[t].todo \subseteq Entry /\ mem \in Store
        /\ at \in [Payments -> Nat] /\ best \in Nat /\ loc[t].tip \in Nat
        /\ TaskInv(t) /\ faults \in Nat
        /\ \A k \in Kinds : mem.cursor[k] \in Int
    BY DEF TypeInv, TypeOK, OutboxInv, Locals, Store, NoBlock
  <1> DEFINE started(e) == [loc[t] EXCEPT !.todo = @ \ {e}, !.entry = e,
                                          !.deep = Deep(loc[t].tip, at[e.id[1]])]
             skipped(e) == Done(started(e))
  <1>1. PICK e \in loc[t].todo :
          /\ \/ At(t, "next", skipped(e))
             \/ /\ At(t, "origin", started(e))
                /\ at[e.id[1]] > 0 /\ ok[e.id[1]]
             \/ /\ At(t, "detect", started(e)) \/ (At(t, "sweep", started(e)) /\ started(e).deep /\ e.notified)
                /\ at[e.id[1]] > 0 /\ ok[e.id[1]] /\ KindOf[e.id[1]] = "erc20"
          /\ mem' = mem \/ mem' = Ignore(mem, e.id) \/ mem' = Moved(mem, e.id, at[e.id[1]])
          /\ UNCHANGED <<disk, faults>> \/ \E saved \in BOOLEAN : Save(saved)
    <2> HIDE DEF skipped
    <2>1. PICK e \in loc[t].todo :
            \/ /\ At(t, "next", skipped(e))
               /\ UNCHANGED <<mem, disk, faults>>
            \/ /\ mem' = Ignore(mem, e.id)
               /\ \E saved \in BOOLEAN : Save(saved)
               /\ At(t, "next", skipped(e))
            \/ /\ at[e.id[1]] > 0 /\ ok[e.id[1]]
               /\ mem' = Moved(mem, e.id, at[e.id[1]])
               /\ \E saved \in BOOLEAN :
                    /\ IF at[e.id[1]] # e.height THEN Save(saved)
                       ELSE saved /\ UNCHANGED <<disk, faults>>
                    /\ IF ~saved THEN At(t, "next", skipped(e))
                       ELSE IF KindOf[e.id[1]] # "erc20" THEN At(t, "origin", started(e))
                       ELSE Announce(t, started(e))
      BY DEF EntryReceipt, skipped
    <2>2. started(e).entry = e
      BY <1>0 DEF Locals
    <2>3. ASSUME Announce(t, started(e))
          PROVE  \/ At(t, "next", skipped(e))
                 \/ At(t, "detect", started(e))
                 \/ At(t, "sweep", started(e)) /\ started(e).deep /\ e.notified
      <3> HIDE DEF started
      <3> QED BY <2>2, <2>3 DEF Announce, skipped
    <2> HIDE DEF started
    <2> QED BY <2>1, <2>3
  <1>2. e \in Entry /\ e.id \in EventIds /\ e.id[1] \in Payments /\ at[e.id[1]] \in Nat
    BY <1>0, PayeeType DEF Entry
  <1>3. UNCHANGED <<chainVars, backendVars>>
    BY DEF EntryReceipt
  <1>4. Calm
    <2>1. (disk' = disk \/ disk' = mem') /\ faults' >= faults
      BY <1>0, <1>1, SaveEffect
    <2>2. mem'.credited = mem.credited /\ mem'.cursor = mem.cursor
      BY <1>0, <1>1, <1>2, HelperEffect
    <2> QED BY <1>0, <1>3, <2>1, <2>2 DEF Calm, Credited
  <1>5. \A x \in mem'.pending : x.notified => x.id \in detected'
    <2>1. \A x \in mem.pending : x.notified => x.id \in detected
      BY DEF OutboxInv, QueueInv, Announced
    <2>2. detected' = detected
      BY <1>3 DEF backendVars
    <2> QED BY <1>0, <1>1, <1>2, <2>1, <2>2, HelperEffect
  <1>6. QueueInv' /\ OrderInv' /\ LockInv' /\ CountInv' /\ SentInv'
    <2>1. pc[t] = "next" /\ UNCHANGED creditLock
      BY DEF EntryReceipt, locks
    <2>2. \E label, l : At(t, label, l) /\ LockMoves(t, label)
      BY <1>1, <2>1 DEF LockMoves, InQueue
    <2>3. LockInv' /\ RecordKept
      BY <2>1, <2>2, LockKept, RecordStays DEF OutboxInv
    <2> QED BY <1>3, <1>4, <1>5, <2>3, CalmKeeps DEF backendVars
  <1>7. \A u \in Tasks : TaskInv(u)'
    <2>1. /\ skipped(e).tip = loc[t].tip /\ skipped(e).todo \subseteq loc[t].todo
          /\ started(e).tip = loc[t].tip /\ started(e).todo \subseteq loc[t].todo
          /\ started(e).entry = e
          /\ started(e).deep = Deep(loc[t].tip, at[e.id[1]])
      <3> DEFINE b == Deep(loc[t].tip, at[e.id[1]])
      <3> HIDE DEF b
      <3>1. /\ [loc[t] EXCEPT !.todo = @ \ {e}, !.entry = e, !.deep = b].tip = loc[t].tip
            /\ [loc[t] EXCEPT !.todo = @ \ {e}, !.entry = e, !.deep = b].todo \subseteq loc[t].todo
            /\ [loc[t] EXCEPT !.todo = @ \ {e}, !.entry = e, !.deep = b].entry = e
            /\ [loc[t] EXCEPT !.todo = @ \ {e}, !.entry = e, !.deep = b].deep = b
            /\ Done([loc[t] EXCEPT !.todo = @ \ {e}, !.entry = e, !.deep = b]).tip = loc[t].tip
            /\ Done([loc[t] EXCEPT !.todo = @ \ {e}, !.entry = e, !.deep = b]).todo \subseteq loc[t].todo
        BY <1>0 DEF Locals, Done
      <3> QED BY <3>1 DEF b
    <2>2. Deep(loc[t].tip, at[e.id[1]]) => Deep(best, at[e.id[1]])
      BY <1>0, <1>2, Constants DEF Deep, Confirmations, TaskInv
    <2>3. loc[t].tip <= best /\ \A x \in loc[t].todo : x.notified => x.id \in detected
      BY <1>0 DEF TaskInv, Announced
    <2>4. detected' = detected /\ unseen' = unseen /\ UNCHANGED chainVars
      BY <1>3 DEF backendVars
    <2>5. e.notified => e.id \in detected
      BY <2>3
    <2>6. KindOf[e.id[1]] = "erc20" => ~IsTopUp(e.id[1])
      BY PaymentAssumption DEF IsTopUp
    <2>7. at[e.id[1]] > 0 /\ ok[e.id[1]] => (started(e).deep => Buried(e.id[1]))
      BY <2>1, <2>2 DEF Buried
    <2> HIDE DEF started, skipped
    <2>8. CASE At(t, "next", skipped(e))
      BY <2>1, <2>3, <2>4, <2>8, TaskKnows DEF OutboxInv, EntryLabels
    <2>9. CASE At(t, "origin", started(e)) /\ at[e.id[1]] > 0 /\ ok[e.id[1]]
      <3>1. /\ \A x \in started(e).todo : x.notified => x.id \in detected'
            /\ started(e).deep => Buried(started(e).entry.id[1])
            /\ started(e).entry.notified => started(e).entry.id \in detected'
        BY <2>1, <2>3, <2>4, <2>5, <2>7, <2>9
      <3> QED BY <2>1, <2>3, <2>4, <2>9, <3>1, TaskKnows DEF OutboxInv
    <2>10. CASE /\ At(t, "detect", started(e)) \/ (At(t, "sweep", started(e)) /\ started(e).deep /\ e.notified)
                /\ at[e.id[1]] > 0 /\ ok[e.id[1]] /\ KindOf[e.id[1]] = "erc20"
      <3>1. /\ \A x \in started(e).todo : x.notified => x.id \in detected'
            /\ started(e).deep => Buried(started(e).entry.id[1])
            /\ started(e).entry.notified => started(e).entry.id \in detected'
            /\ ~IsTopUp(started(e).entry.id[1])
        BY <2>1, <2>3, <2>4, <2>5, <2>6, <2>7, <2>10
      <3>2. CASE At(t, "detect", started(e))
        BY <2>1, <2>3, <2>4, <3>1, <3>2, TaskKnows DEF OutboxInv
      <3>3. CASE At(t, "sweep", started(e)) /\ started(e).deep /\ e.notified
        <4>1. started(e).entry.id \in detected'
          BY <2>1, <3>1, <3>3
        <4> QED BY <2>1, <2>3, <2>4, <3>1, <3>3, <4>1, TaskKnows DEF OutboxInv
      <3> QED BY <2>10, <3>2, <3>3
    <2> QED BY <1>1, <2>8, <2>9, <2>10
  <1> QED BY <1>4, <1>6, <1>7 DEF OutboxInv

LEMMA OriginOutbox ==
    ASSUME TypeInv, TypeInv', OutboxInv, NEW t \in Tasks, EntryOrigin(t)
    PROVE  OutboxInv' /\ Calm
  <1> DEFINE id == loc[t].entry.id
  <1>0. /\ loc[t] \in Locals /\ mem \in Store /\ faults \in Nat /\ pc[t] = "origin"
        /\ TaskInv(t) /\ id \in EventIds
        /\ \A k \in Kinds : mem.cursor[k] \in Int
    BY OriginEffect DEF TypeInv, TypeOK, OutboxInv, Store, NoBlock, EntryInv, EntryLabels, Entry
  <1>1. /\ UNCHANGED <<chainVars, detected, credits>> /\ unseen \subseteq unseen' /\ UNCHANGED creditLock
    BY OriginEffect DEF locks
  <1>2. /\ mem'.credited = mem.credited /\ mem'.cursor = mem.cursor
        /\ mem'.pending \subseteq mem.pending
    BY <1>0, OriginEffect, HelperEffect
  <1>3. (disk' = disk \/ disk' = mem') /\ faults' >= faults
    BY <1>0, OriginEffect, SaveEffect
  <1>4. Calm
    BY <1>0, <1>1, <1>2, <1>3 DEF Calm, Credited
  <1>5. \A x \in mem'.pending : x.notified => x.id \in detected'
    BY <1>1, <1>2 DEF OutboxInv, QueueInv, Announced
  <1>6. /\ EntryDone(t).tip = loc[t].tip /\ EntryDone(t).todo = loc[t].todo
        /\ "next" \notin EntryLabels
    BY <1>0 DEF EntryDone, Done, Locals, EntryLabels
  <1>7. /\ loc[t].tip <= best
        /\ \A x \in loc[t].todo : x.notified => x.id \in detected'
        /\ loc[t].entry.notified => id \in detected'
        /\ loc[t].deep => Buried(id[1])
    BY <1>0, <1>1 DEF TaskInv, Announced, EntryLabels
  <1>8. \/ At(t, "next", EntryDone(t))
        \/ At(t, "detect", loc[t]) /\ (IsTopUp(id[1]) => id \in unseen')
        \/ At(t, "sweep", loc[t]) /\ loc[t].deep /\ loc[t].entry.notified /\ (IsTopUp(id[1]) => id \in unseen')
    BY OriginEffect DEF NextEntry
  <1>9. QueueInv' /\ OrderInv' /\ LockInv' /\ CountInv' /\ SentInv'
    <2>1. \E label, l : At(t, label, l) /\ LockMoves(t, label)
      BY <1>0, <1>1, <1>8 DEF LockMoves, InQueue, EntryLabels
    <2>2. LockInv' /\ RecordKept
      BY <1>0, <2>1, LockKept, RecordStays DEF OutboxInv
    <2> QED BY <1>1, <1>4, <1>5, <2>2, CalmKeeps
  <1>10. \A u \in Tasks : TaskInv(u)'
    <2>1. CASE At(t, "next", EntryDone(t))
      BY <1>1, <1>6, <1>7, <2>1, TaskKnows DEF OutboxInv
    <2>2. CASE At(t, "detect", loc[t]) /\ (IsTopUp(id[1]) => id \in unseen')
      BY <1>1, <1>7, <2>2, TaskKnows DEF OutboxInv
    <2>3. CASE At(t, "sweep", loc[t]) /\ loc[t].deep /\ loc[t].entry.notified /\ (IsTopUp(id[1]) => id \in unseen')
      BY <1>1, <1>7, <2>3, TaskKnows DEF OutboxInv
    <2> QED BY <1>8, <2>1, <2>2, <2>3
  <1> QED BY <1>4, <1>9, <1>10 DEF OutboxInv

LEMMA DeliveryOutbox ==
    ASSUME TypeInv, TypeInv', OutboxInv, NEW t \in Tasks,
           SendDetected(t) \/ FlagDetected(t) \/ Sweep(t) \/ SendCredited(t) \/ RecordCredit(t)
             \/ AlreadyCredited(t) \/ Remove(t)
    PROVE  OutboxInv' /\ Calm
  <1>0. /\ loc[t] \in Locals /\ mem \in Store /\ faults \in Nat
        /\ credits \in [EventIds -> Nat] /\ detected \subseteq EventIds
        /\ TaskInv(t) /\ CountInv /\ SentInv /\ LockInv
        /\ \A k \in Kinds : mem.cursor[k] \in Int
        /\ \A e \in mem.pending : e.notified => e.id \in detected
        /\ \A e \in loc[t].todo : e.notified => e.id \in detected
    BY DEF TypeInv, TypeOK, OutboxInv, Store, NoBlock, QueueInv, TaskInv, Announced
  <1>a. /\ SendDetected(t) => pc[t] = "detect"
        /\ FlagDetected(t) => pc[t] = "flag"
        /\ Sweep(t) => pc[t] = "sweep"
        /\ SendCredited(t) \/ AlreadyCredited(t) => pc[t] = "credit"
        /\ RecordCredit(t) => pc[t] = "record"
        /\ Remove(t) => pc[t] = "remove"
        /\ pc[t] \in EntryLabels /\ pc[t] # "origin"
        /\ UNCHANGED creditLock
    <2>1. /\ SendDetected(t) => pc[t] = "detect" /\ UNCHANGED locks
          /\ FlagDetected(t) => pc[t] = "flag" /\ UNCHANGED locks
          /\ Remove(t) => pc[t] = "remove" /\ UNCHANGED locks
      BY DEF SendDetected, FlagDetected, Remove
    <2>2. Sweep(t) => pc[t] = "sweep" /\ UNCHANGED locks
      BY SweepEffect
    <2>3. /\ SendCredited(t) \/ AlreadyCredited(t) => pc[t] = "credit" /\ UNCHANGED locks
          /\ RecordCredit(t) => pc[t] = "record" /\ UNCHANGED locks
      BY DEF SendCredited, AlreadyCredited, RecordCredit
    <2> QED BY <2>1, <2>2, <2>3 DEF EntryLabels, locks
  <1> DEFINE id == loc[t].entry.id
  <1>b. id \in EventIds /\ id[1] \in Payments
    BY <1>a, PayeeType DEF TypeInv, EntryInv, Entry
  <1>c. /\ loc[t].tip <= best /\ Excused(id)
        /\ loc[t].entry.notified => id \in detected
        /\ loc[t].deep => Buried(id[1])
        /\ pc[t] \in {"sweep", "credit"} => loc[t].deep
        /\ pc[t] \in {"flag", "sweep", "credit"} => id \in detected
    BY <1>0, <1>a DEF TaskInv
  <1>d. ASSUME NextEntry(t), UNCHANGED chainVars, detected \subseteq detected', unseen' = unseen
        PROVE  \A u \in Tasks : TaskInv(u)'
    <2>1. EntryDone(t).tip = loc[t].tip /\ EntryDone(t).todo = loc[t].todo
      BY <1>0 DEF EntryDone, Done, Locals
    <2>2. At(t, "next", EntryDone(t)) /\ "next" \notin EntryLabels
      BY <1>d DEF NextEntry, EntryLabels
    <2> QED BY <1>0, <1>c, <1>d, <2>1, <2>2, TaskKnows DEF OutboxInv, EntryLabels
  <1>e. ASSUME NEW label, NEW l, At(t, label, l), UNCHANGED chainVars, detected \subseteq detected',
               unseen' = unseen, label # "origin",
               l.tip = loc[t].tip, l.todo = loc[t].todo, l.entry = loc[t].entry, l.deep = loc[t].deep,
               label \in {"sweep", "credit"} => loc[t].deep,
               label \in {"flag", "sweep", "credit"} => id \in detected'
        PROVE  \A u \in Tasks : TaskInv(u)'
    BY <1>0, <1>c, <1>e, TaskKnows DEF OutboxInv, Excused
  <1>f. ASSUME NEW label, At(t, label, loc[t]), UNCHANGED chainVars, detected \subseteq detected',
               unseen' = unseen, label # "origin",
               label \in {"sweep", "credit"} => loc[t].deep,
               label \in {"flag", "sweep", "credit"} => id \in detected'
        PROVE  \A u \in Tasks : TaskInv(u)'
    BY <1>e, <1>f
  <1>g. ASSUME NEW o \in Outcomes, Outcome(o)
        PROVE  faults' = IF o = "lost" THEN faults + 1 ELSE faults
    BY <1>g DEF Outcome, Fault
  <1>h. ASSUME NEW label, NEW l, At(t, label, l) PROVE LockInv'
    <2>1. LockMoves(t, label)
      BY <1>a DEF LockMoves, InQueue
    <2> QED BY <1>0, <1>h, <2>1, LockKept
  <1>i. NextEntry(t) => \E label, l : At(t, label, l)
    BY DEF NextEntry
  <1>j. ASSUME NEW label, NEW l, At(t, label, l), pc[t] = "record" => Credited(mem', id)
        PROVE  RecordKept
    BY <1>j, RecordStays
  <1> HIDE DEF id
  <1>1. CASE SendDetected(t)
    <2>1. PICK o \in Outcomes :
            /\ Outcome(o)
            /\ detected' = IF Reached(o) THEN detected \cup {id} ELSE detected
            /\ IF Recorded(o) THEN At(t, "flag", loc[t]) ELSE NextEntry(t)
      BY <1>1 DEF SendDetected, id
    <2>2. UNCHANGED <<chainVars, credits, unseen, mem, disk>> /\ detected \subseteq detected'
      BY <1>1, <2>1 DEF SendDetected
    <2>3. Recorded(o) => id \in detected'
      BY <2>1 DEF Recorded, Reached
    <2>4. Calm
      BY <1>0, <1>g, <2>1, <2>2 DEF Calm
    <2>5. \A u \in Tasks : TaskInv(u)'
      BY <1>d, <1>f, <2>1, <2>2, <2>3
    <2>6. LockInv' /\ RecordKept
      BY <1>1, <1>a, <1>h, <1>i, <1>j, <2>1
    <2>7. SentInv'
      <3>1. UNCHANGED <<best, at, ok>>
        BY <2>2 DEF chainVars
      <3>2. \A x \in detected' : x \in detected \/ x = id
        BY <2>1
      <3> QED BY <1>0, <1>c, <2>2, <3>1, <3>2 DEF SentInv, Buried, Excused
    <2> QED BY <1>0, <2>2, <2>4, <2>5, <2>6, <2>7, CalmKeeps DEF OutboxInv
  <1>2. CASE FlagDetected(t)
    <2>1. PICK saved \in BOOLEAN :
            /\ Save(saved)
            /\ IF saved /\ loc[t].deep THEN At(t, "sweep", loc[t]) ELSE NextEntry(t)
      BY <1>2 DEF FlagDetected
    <2>2. mem' = Notified(mem, id) /\ UNCHANGED <<chainVars, detected, credits, unseen>>
      BY <1>2 DEF FlagDetected, backendVars, id
    <2>3. id \in detected
      BY <1>2, <1>a, <1>c
    <2>4. (disk' = disk \/ disk' = mem') /\ faults' >= faults
      BY <2>1, SaveEffect
    <2>5. /\ mem'.credited = mem.credited /\ mem'.cursor = mem.cursor
          /\ \A e \in mem'.pending : e.id = id \/ e \in mem.pending
      BY <1>0, <1>b, <2>2, HelperEffect
    <2>6. Calm
      BY <1>0, <2>2, <2>4, <2>5 DEF Calm, Credited
    <2>7. \A e \in mem'.pending : e.notified => e.id \in detected'
      BY <1>0, <2>2, <2>3, <2>5
    <2>8. \A u \in Tasks : TaskInv(u)'
      BY <1>d, <1>f, <2>1, <2>2, <2>3
    <2>9. LockInv' /\ RecordKept
      BY <1>2, <1>a, <1>h, <1>i, <1>j, <2>1
    <2> QED BY <2>2, <2>6, <2>7, <2>8, <2>9, CalmKeeps DEF OutboxInv
  <1>3. CASE Sweep(t)
    <2>1. /\ pc[t] = "sweep"
          /\ \/ NextEntry(t)
             \/ At(t, "credit", loc[t])
             \/ At(t, "credit", [loc[t] EXCEPT !.deferred = TRUE])
          /\ faults' = faults \/ faults' = faults + 1
          /\ UNCHANGED <<chainVars, mem, disk, backendVars>>
      BY <1>3, SweepEffect
    <2>2. UNCHANGED <<chainVars, mem, disk, detected, credits, unseen>>
      BY <2>1 DEF backendVars
    <2>3. Calm
      BY <1>0, <2>1, <2>2 DEF Calm
    <2> DEFINE l == [loc[t] EXCEPT !.deferred = TRUE]
    <2>4. l.tip = loc[t].tip /\ l.todo = loc[t].todo /\ l.entry = loc[t].entry /\ l.deep = loc[t].deep
      BY <1>0 DEF Locals
    <2>5. NextEntry(t) \/ At(t, "credit", loc[t]) \/ At(t, "credit", l)
      BY <2>1
    <2> HIDE DEF l
    <2>6. \A u \in Tasks : TaskInv(u)'
      BY <1>c, <1>d, <1>e, <1>f, <2>1, <2>2, <2>4, <2>5
    <2>7. LockInv' /\ RecordKept
      BY <1>h, <1>i, <1>j, <2>1, <2>5
    <2> QED BY <1>0, <2>2, <2>3, <2>6, <2>7, CalmKeeps DEF OutboxInv
  <1>4. CASE SendCredited(t)
    <2>1. PICK o \in Outcomes :
            /\ Outcome(o)
            /\ credits' = IF Reached(o) THEN [credits EXCEPT ![id] = @ + 1] ELSE credits
            /\ IF Recorded(o) THEN At(t, "record", loc[t]) ELSE NextEntry(t)
      BY <1>4 DEF SendCredited, id
    <2>2. /\ UNCHANGED <<chainVars, detected, unseen, mem, disk>> /\ ~Credited(mem, id)
          /\ loc[t].deep /\ id \in detected
      BY <1>4, <1>a, <1>c DEF SendCredited, id
    <2>3. faults' = IF o = "lost" THEN faults + 1 ELSE faults
      BY <1>g, <2>1
    <2>4. Calm
      BY <1>0, <2>2, <2>3 DEF Calm
    <2>5. LockInv' /\ RecordKept
      BY <1>4, <1>a, <1>h, <1>i, <1>j, <2>1
    <2>6. QueueInv' /\ OrderInv'
      BY <1>0, <2>2, <2>4, <2>5, CalmKeeps
    <2>7. CountInv'
      <3> SUFFICES ASSUME NEW x \in EventIds
                   PROVE  credits'[x] <= faults' + (IF Credited(mem', x) \/ Recording(x)' THEN 1 ELSE 0)
        BY DEF CountInv
      <3>1. /\ credits[x] \in Nat
            /\ credits[x] <= faults + (IF Credited(mem, x) \/ Recording(x) THEN 1 ELSE 0)
        BY <1>0 DEF CountInv
      <3>2. CASE x # id
        <4>1. credits'[x] = credits[x]
          BY <1>0, <2>1, <3>2
        <4>2. Credited(mem, x) \/ Recording(x) => Credited(mem', x) \/ Recording(x)'
          BY <2>2, <2>5 DEF RecordKept
        <4> QED BY <1>0, <2>3, <3>1, <4>1, <4>2
      <3>3. CASE x = id
        <4>1. ~Recording(id)
          <5>1. pc[t] = "credit" /\ creditLock = t
            BY <1>0, <1>4, <1>a DEF LockInv, InQueue
          <5>2. \A u \in Tasks : pc[u] = "record" => u = t
            BY <1>0, <5>1 DEF LockInv, InQueue, EntryLabels
          <5> QED BY <5>1, <5>2 DEF Recording
        <4>2. credits[x] <= faults
          BY <1>0, <2>2, <3>1, <3>3, <4>1
        <4>3. credits'[x] = IF Reached(o) THEN credits[x] + 1 ELSE credits[x]
          BY <1>0, <1>b, <2>1, <3>3
        <4>4. CASE o = "refused"
          BY <1>0, <2>3, <3>1, <4>2, <4>3, <4>4 DEF Reached
        <4>5. CASE o = "lost"
          BY <1>0, <2>3, <3>1, <4>2, <4>3, <4>5 DEF Reached
        <4>6. CASE o = "delivered"
          <5>1. At(t, "record", loc[t])
            BY <2>1, <4>6 DEF Recorded
          <5>2. pc'[t] = "record" /\ loc'[t] = loc[t]
            BY <5>1 DEF At, Goto, Set, TypeInv, TypeOK
          <5>3. loc'[t].entry.id = x
            BY <3>3, <5>2 DEF id
          <5>4. Recording(x)'
            BY <5>2, <5>3 DEF Recording
          <5>5. faults' = faults /\ credits'[x] = credits[x] + 1
            BY <2>3, <4>3, <4>6 DEF Reached
          <5> QED BY <1>0, <3>1, <4>2, <5>4, <5>5
        <4> QED BY <4>4, <4>5, <4>6 DEF Outcomes
      <3> QED BY <3>2, <3>3
    <2>8. SentInv'
      <3>1. UNCHANGED <<best, at, ok>>
        BY <2>2 DEF chainVars
      <3>2. Buried(id[1])
        BY <1>c, <2>2
      <3>3. \A x \in EventIds : x # id => credits'[x] = credits[x]
        BY <1>0, <2>1
      <3> QED BY <1>0, <2>2, <3>1, <3>2, <3>3 DEF SentInv, Buried, Excused
    <2>9. \A u \in Tasks : TaskInv(u)'
      BY <1>d, <1>f, <2>1, <2>2
    <2> QED BY <2>4, <2>5, <2>6, <2>7, <2>8, <2>9 DEF OutboxInv
  <1>5. CASE RecordCredit(t)
    <2>1. PICK saved \in BOOLEAN :
            /\ Save(saved)
            /\ IF saved /\ ~loc[t].deferred THEN At(t, "remove", loc[t]) ELSE NextEntry(t)
      BY <1>5 DEF RecordCredit
    <2>2. mem' = MarkCredited(mem, id) /\ UNCHANGED <<chainVars, detected, credits, unseen>>
      BY <1>5 DEF RecordCredit, backendVars, id
    <2>3. (disk' = disk \/ disk' = mem') /\ faults' >= faults
      BY <2>1, SaveEffect
    <2>4. /\ mem'.credited = mem.credited \cup {id} /\ mem'.cursor = mem.cursor
          /\ mem'.pending = mem.pending
      BY <1>0, <1>b, <2>2, HelperEffect
    <2>5. Calm /\ Credited(mem', id)
      BY <1>0, <2>2, <2>3, <2>4 DEF Calm, Credited
    <2>6. \A u \in Tasks : TaskInv(u)'
      BY <1>d, <1>f, <2>1, <2>2
    <2>7. LockInv' /\ RecordKept
      BY <1>h, <1>i, <1>j, <2>1, <2>5
    <2> QED BY <1>0, <2>2, <2>4, <2>5, <2>6, <2>7, CalmKeeps DEF OutboxInv
  <1>6. CASE AlreadyCredited(t)
    <2>1. UNCHANGED <<chainVars, mem, disk, detected, credits, unseen, faults>>
      BY <1>6 DEF AlreadyCredited, backendVars
    <2>2. Calm
      BY <1>0, <2>1 DEF Calm
    <2>3. NextEntry(t) \/ At(t, "remove", loc[t])
      BY <1>6 DEF AlreadyCredited
    <2>4. \A u \in Tasks : TaskInv(u)'
      BY <1>d, <1>f, <2>1, <2>3
    <2>5. LockInv' /\ RecordKept
      BY <1>6, <1>a, <1>h, <1>i, <1>j, <2>3
    <2> QED BY <1>0, <2>1, <2>2, <2>4, <2>5, CalmKeeps DEF OutboxInv
  <1>7. CASE Remove(t)
    <2>1. mem' = Drop(mem, id) /\ UNCHANGED <<chainVars, detected, credits, unseen>> /\ NextEntry(t)
      BY <1>7 DEF Remove, backendVars, id
    <2>2. (disk' = disk \/ disk' = mem') /\ faults' >= faults
      BY <1>7, SaveEffect DEF Remove
    <2>3. mem'.credited = mem.credited /\ mem'.cursor = mem.cursor /\ mem'.pending \subseteq mem.pending
      BY <1>0, <1>b, <2>1, HelperEffect
    <2>4. Calm
      BY <1>0, <2>1, <2>2, <2>3 DEF Calm, Credited
    <2>5. \A u \in Tasks : TaskInv(u)'
      BY <1>d, <2>1
    <2>6. LockInv' /\ RecordKept
      BY <1>7, <1>a, <1>h, <1>i, <1>j, <2>1
    <2> QED BY <1>0, <2>1, <2>3, <2>4, <2>5, <2>6, CalmKeeps DEF OutboxInv
  <1> QED BY <1>1, <1>2, <1>3, <1>4, <1>5, <1>6, <1>7

LEMMA OutboxStep == TypeInv /\ OutboxInv /\ [Next]_vars => OutboxInv'
  <1> SUFFICES ASSUME TypeInv, OutboxInv, [Next]_vars PROVE OutboxInv'
    OBVIOUS
  <1>0. TypeInv' /\ \A t \in Tasks : loc[t].tip <= best
    BY TypeStep DEF OutboxInv, TaskInv
  <1>1. CASE Mine \/ Reorg \/ Assign \/ Crash
    BY <1>1, EnvironmentOutbox
  <1>2. ASSUME NEW t \in Tasks, CycleStep(t) PROVE OutboxInv'
    <2>1. Quiet(t) /\ Calm
      BY <1>0, <1>2, CycleQuiet, ChunkQuiet DEF CycleStep
    <2> QED BY <1>0, <2>1, QuietOutbox
  <1>3. ASSUME NEW t \in Tasks, CreditStep(t) PROVE OutboxInv'
    <2>1. CASE CreditsLock(t) \/ CreditsDone(t)
      BY <1>0, <2>1, CreditsQuiet, QuietOutbox
    <2>2. CASE ~(CreditsLock(t) \/ CreditsDone(t))
      BY <1>0, <1>3, <2>2, ReceiptOutbox, OriginOutbox, DeliveryOutbox DEF CreditStep
    <2> QED BY <2>1, <2>2
  <1>4. ASSUME NEW t \in Callers, RecoverStep(t) PROVE OutboxInv'
    BY <1>0, <1>4, RecoverQuiet, QuietOutbox DEF Tasks
  <1>5. CASE UNCHANGED vars
    BY <1>5 DEF vars, chainVars, backendVars, locks, OutboxInv, QueueInv, TaskInv, LockInv, CountInv,
                Recording, SentInv, OrderInv, Announced, Buried, Excused
  <1> QED BY <1>1, <1>2, <1>3, <1>4, <1>5 DEF Next

LEMMA OutboxInductive == Spec => [](TypeInv /\ OutboxInv)
  BY TypeInit, TypeStep, OutboxInit, OutboxStep, PTL DEF Spec

\* However cycles, claims, recoveries and deferred sweeps interleave, the
\* backend receives one credit of an event id and at most one more per fault.
THEOREM CreditedOnce == Spec => []CreditedOncePerFault
  <1>1. TypeInv /\ OutboxInv => CreditedOncePerFault
    <2> SUFFICES ASSUME TypeInv, OutboxInv, NEW id \in EventIds
                 PROVE  credits[id] <= 1 + faults
      BY DEF CreditedOncePerFault
    <2>1. credits[id] \in Nat /\ faults \in Nat
      BY DEF TypeInv, TypeOK
    <2>2. credits[id] <= faults + (IF Credited(mem, id) \/ Recording(id) THEN 1 ELSE 0)
      BY DEF OutboxInv, CountInv
    <2> QED BY <2>1, <2>2
  <1> QED BY <1>1, OutboxInductive, PTL

\* payment_detected of an event id reaches the backend before payment_credited
\* of it: the flag that skips it is only ever set after the delivery.
THEOREM DetectedFirst == Spec => []DetectedBeforeCredited
  <1>1. OutboxInv => DetectedBeforeCredited
    BY DEF OutboxInv, SentInv, DetectedBeforeCredited
  <1> QED BY <1>1, OutboxInductive, PTL

\* No reorganisation shorter than min_confirmations takes back a payment that
\* was credited, although tip, receipt and block are read one after the other.
THEOREM CreditsAreConfirmed == Spec => []CreditedConfirmed
  <1>1. TypeInv /\ OutboxInv => CreditedConfirmed
    <2> SUFFICES ASSUME TypeInv, OutboxInv, NEW id \in EventIds, credits[id] > 0
                 PROVE  /\ at[id[1]] > 0 /\ ok[id[1]]
                        /\ best - at[id[1]] + 1 >= AtLeastOne(MinConf)
      BY DEF CreditedConfirmed
    <2>1. Buried(id[1])
      BY DEF OutboxInv, SentInv
    <2>2. best \in Nat /\ at[id[1]] \in Nat
      BY PayeeType DEF TypeInv, TypeOK
    <2> QED BY <2>1, <2>2, Constants DEF Buried, Deep, Confirmations
  <1> QED BY <1>1, OutboxInductive, PTL

\* Our own gas is announced and credited to nobody, also when an older release queued
\* it, unless the node had no transaction when it was asked who sent it: is_pending_-
\* gas_tank_top_up takes that answer for "no top-up".
THEOREM TopUpsAreOurs == Spec => []TopUpsNotCredited
  <1>1. OutboxInv => TopUpsNotCredited
    BY DEF OutboxInv, SentInv, Excused, IsTopUp, TopUpsNotCredited
  <1> QED BY <1>1, OutboxInductive, PTL

\* A saved cursor never goes back: neither does the one in memory, which the
\* file is written from, and a crash only forgets what is ahead of the file.
THEOREM CursorsOnlyAdvance == Spec => CursorsKept
  <1>1. ASSUME TypeInv, OutboxInv, [Next]_vars
        PROVE  [\A k \in Kinds : disk'.cursor[k] >= disk.cursor[k]]_vars
    <2>1. \A k \in Kinds : disk.cursor[k] \in Int /\ mem.cursor[k] \in Int /\ mem'.cursor[k] \in Int
      BY <1>1, TypeStep DEF TypeInv, TypeOK, Store, NoBlock
    <2>2. TypeInv' /\ \A t \in Tasks : loc[t].tip <= best
      BY <1>1, TypeStep DEF OutboxInv, TaskInv
    <2>3. Calm => \A k \in Kinds : disk'.cursor[k] >= disk.cursor[k]
      BY <1>1, <2>1 DEF Calm, OutboxInv, OrderInv
    <2>4. CASE Mine \/ Reorg \/ Assign \/ Crash
      <3>1. disk' = disk
        BY <2>4 DEF Mine, Reorg, Assign, Crash
      <3> QED BY <2>1, <3>1
    <2>5. ASSUME NEW t \in Tasks, CycleStep(t) PROVE Calm
      BY <1>1, <2>2, <2>5, CycleQuiet, ChunkQuiet DEF CycleStep
    <2>6. ASSUME NEW t \in Tasks, CreditStep(t) PROVE Calm
      BY <1>1, <2>2, <2>6, CreditsQuiet, ReceiptOutbox, OriginOutbox, DeliveryOutbox DEF CreditStep
    <2>7. ASSUME NEW t \in Callers, RecoverStep(t) PROVE Calm
      BY <1>1, <2>2, <2>7, RecoverQuiet DEF Tasks
    <2> QED BY <1>1, <2>3, <2>4, <2>5, <2>6, <2>7 DEF Next
  <1> QED BY <1>1, OutboxInductive, PTL DEF Spec, CursorsKept

----------------------------------------------------------------------------
(* The refinement of PaymentOutbox.  Most steps neither send a webhook nor *)
(* touch what is credited: they are stutters, or faults when a save fails. *)
(* What is left is the delivery of an entry and the crash; the crash needs *)
(* that the file never holds a credit that memory does not.                *)

FileBehind == disk.credited \subseteq mem.credited

Implements == [Outbox!Next]_(Outbox!vars)

\* What a step outside the deliveries does to what the abstraction sees.
Plain ==
    /\ mem'.credited = mem.credited
    /\ faults' \in {faults, faults + 1}
    /\ UNCHANGED <<detected, credits>>

----------------------------------------------------------------------------
(* The file *)

LEMMA FileInit == Init => FileBehind
  BY DEF Init, FileBehind

LEMMA FileStep == TypeInv /\ OutboxInv /\ FileBehind /\ [Next]_vars => FileBehind'
  <1> SUFFICES ASSUME TypeInv, OutboxInv, FileBehind, [Next]_vars PROVE FileBehind'
    OBVIOUS
  <1>0. TypeInv' /\ (\A t \in Tasks : loc[t].tip <= best) /\ mem.credited \subseteq EventIds
    BY TypeStep DEF TypeInv, TypeOK, Store, OutboxInv, TaskInv
  <1>1. Calm => FileBehind'
    BY <1>0 DEF Calm, FileBehind, Credited
  <1>2. CASE Mine \/ Reorg \/ Assign
    BY <1>2 DEF Mine, Reorg, Assign, FileBehind
  <1>3. CASE Crash
    BY <1>3 DEF Crash, FileBehind
  <1>4. ASSUME NEW t \in Tasks, CycleStep(t) PROVE Calm
    BY <1>0, <1>4, CycleQuiet, ChunkQuiet DEF CycleStep
  <1>5. ASSUME NEW t \in Tasks, CreditStep(t) PROVE Calm
    BY <1>0, <1>5, CreditsQuiet, ReceiptOutbox, OriginOutbox, DeliveryOutbox DEF CreditStep
  <1>6. ASSUME NEW t \in Callers, RecoverStep(t) PROVE Calm
    BY <1>0, <1>6, RecoverQuiet DEF Tasks
  <1>7. CASE UNCHANGED vars
    BY <1>7 DEF vars, FileBehind
  <1> QED BY <1>1, <1>2, <1>3, <1>4, <1>5, <1>6, <1>7 DEF Next

----------------------------------------------------------------------------
(* The steps that the abstraction does not see *)

\* Only the task that moves can leave "record" or arrive there.
LEMMA OthersSealed ==
    ASSUME TypeInv, NEW t \in Tasks, NEW label, NEW l, At(t, label, l)
    PROVE  /\ pc'[t] = label /\ loc'[t] = l
           /\ \A u \in Tasks : u # t => pc'[u] = pc[u] /\ loc'[u] = loc[u]
  BY DEF At, Goto, Set, TypeInv, TypeOK

LEMMA SealedKept ==
    ASSUME TypeInv, NEW t \in Tasks, NEW label, NEW l, At(t, label, l),
           pc[t] # "record", label # "record", mem'.credited = mem.credited
    PROVE  Sealed' = Sealed
  <1>1. {u \in Tasks : pc'[u] = "record"} = {u \in Tasks : pc[u] = "record"}
    BY OthersSealed
  <1>2. \A u \in Tasks : pc[u] = "record" => loc'[u] = loc[u]
    BY OthersSealed
  <1> QED BY <1>1, <1>2 DEF Sealed

LEMMA PlainImplements ==
    ASSUME TypeInv, NEW t \in Tasks, NEW label, NEW l, At(t, label, l),
           pc[t] # "record", label # "record", Plain
    PROVE  Implements
  <1>1. Sealed' = Sealed
    BY SealedKept DEF Plain
  <1>2. CASE faults' = faults + 1
    BY <1>1, <1>2 DEF Plain, Implements, Outbox!Next, Outbox!Fault
  <1>3. CASE faults' = faults
    BY <1>1, <1>3 DEF Plain, Implements, Outbox!vars
  <1> QED BY <1>2, <1>3 DEF Plain

LEMMA SaveFaults ==
    ASSUME NEW saved \in BOOLEAN, Save(saved)
    PROVE  faults' \in {faults, faults + 1}
  BY DEF Save, Fault

LEMMA CyclePlain ==
    ASSUME TypeInv, NEW t \in Tasks,
           CycleTip(t) \/ ReadReservations(t) \/ ScanLock(t) \/ SkipSource(t)
             \/ StartSource(t) \/ Maintain(t)
    PROVE  Plain
  <1>0. /\ mem \in Store /\ loc[t].tip \in Nat /\ loc[t].kind \in Kinds
        /\ SafeBlock(loc[t].tip) \in Nat
    BY SafeBlockType DEF TypeInv, TypeOK, Locals
  <1>1. CASE CycleTip(t) \/ ReadReservations(t) \/ StartSource(t)
    BY <1>1 DEF CycleTip, ReadReservations, StartSource, Plain, backendVars
  <1>2. CASE ScanLock(t)
    <2>1. mem'.credited = mem.credited
      BY <1>0, <1>2, WithCursorsEffect DEF ScanLock
    <2> QED BY <1>2, <2>1, SaveFaults DEF ScanLock, Plain, backendVars
  <1>3. CASE SkipSource(t)
    <2>1. mem'.credited = mem.credited
      BY <1>0, <1>3, SetCursorEffect DEF SkipSource
    <2> QED BY <1>3, <2>1, SaveFaults DEF SkipSource, Plain, backendVars
  <1>4. CASE Maintain(t)
    BY <1>4, SaveFaults DEF Maintain, Plain, backendVars
  <1> QED BY <1>1, <1>2, <1>3, <1>4

LEMMA ChunkPlain ==
    ASSUME TypeInv, NEW t \in Tasks, Fetch(t) \/ Enqueue(t) \/ Advance(t)
    PROVE  Plain
  <1>0. /\ mem \in Store /\ loc[t] \in Locals /\ loc[t].kind \in Kinds
        /\ loc[t].found \subseteq Found /\ ChunkEnd(loc[t]) \in Nat
    BY ChunkType DEF TypeInv, TypeOK, Locals
  <1>1. CASE Fetch(t)
    BY <1>1 DEF Fetch, Plain, backendVars
  <1>2. CASE Enqueue(t)
    <2>1. PICK f \in loc[t].found, saved \in BOOLEAN :
            /\ mem' = Push(mem, f)
            /\ Save(saved) \/ UNCHANGED <<disk, faults>>
      BY <1>2 DEF Enqueue
    <2>2. mem'.credited = mem.credited
      BY <1>0, <2>1, PushEffect
    <2> QED BY <1>2, <2>1, <2>2, SaveFaults DEF Enqueue, Plain, backendVars
  <1>3. CASE Advance(t)
    <2>1. mem'.credited = mem.credited
      BY <1>0, <1>3, SetCursorEffect DEF Advance
    <2> QED BY <1>3, <2>1, SaveFaults DEF Advance, Plain, backendVars
  <1> QED BY <1>1, <1>2, <1>3

LEMMA RecoverPlain ==
    ASSUME TypeInv, NEW t \in Tasks, RecoverStep(t)
    PROVE  Plain
  <1>0. mem \in Store /\ loc[t].found \subseteq Found
    BY DEF TypeInv, TypeOK, Locals
  <1>1. CASE RecoverFetch(t)
    BY <1>1 DEF RecoverFetch, Plain, backendVars
  <1>2. CASE RecoverTip(t)
    <2>1. PICK f \in loc[t].found, saved \in BOOLEAN :
            /\ mem' = Push(mem, f)
            /\ Save(saved) \/ UNCHANGED <<disk, faults>>
      BY <1>2 DEF RecoverTip
    <2>2. mem'.credited = mem.credited
      BY <1>0, <2>1, PushEffect
    <2> QED BY <1>2, <2>1, <2>2, SaveFaults DEF RecoverTip, Plain, backendVars
  <1> QED BY <1>1, <1>2 DEF RecoverStep

LEMMA CreditsPlain ==
    ASSUME TypeInv, NEW t \in Tasks, CreditsLock(t) \/ CreditsDone(t)
    PROVE  Plain
  BY SaveFaults DEF CreditsLock, CreditsDone, Plain, backendVars

----------------------------------------------------------------------------
(* The steps of a delivery *)

LEMMA ReceiptImplements ==
    ASSUME TypeInv, NEW t \in Tasks, EntryReceipt(t)
    PROVE  Implements
  <1>0. /\ mem \in Store /\ loc[t].todo \subseteq Entry /\ pc[t] = "next"
        /\ at \in [Payments -> Nat]
    BY DEF TypeInv, TypeOK, Locals, EntryReceipt
  <1>1. PICK e \in loc[t].todo :
          /\ \/ mem' = mem
             \/ mem' = Ignore(mem, e.id)
             \/ mem' = Moved(mem, e.id, at[e.id[1]])
          /\ UNCHANGED faults \/ \E saved \in BOOLEAN : Save(saved)
          /\ \E label \in {"next", "origin", "detect", "sweep"} : \E l : At(t, label, l)
    BY DEF EntryReceipt, Announce
  <1>2. e.id \in EventIds /\ at[e.id[1]] \in Nat
    BY <1>0, <1>1, PayeeType DEF Entry
  <1>3. mem'.credited = mem.credited
    BY <1>0, <1>1, <1>2, HelperEffect
  <1>4. Plain
    BY <1>1, <1>3, SaveFaults DEF EntryReceipt, Plain, backendVars
  <1> QED BY <1>0, <1>1, <1>4, PlainImplements

LEMMA OriginImplements ==
    ASSUME TypeInv, NEW t \in Tasks, EntryOrigin(t)
    PROVE  Implements
  <1>0. mem \in Store /\ pc[t] = "origin" /\ loc[t].entry.id \in EventIds
    BY OriginEffect DEF TypeInv, TypeOK, EntryInv, EntryLabels, Entry
  <1>1. \E label \in {"next", "detect", "sweep"} : \E l : At(t, label, l)
    BY OriginEffect DEF NextEntry
  <1>2. mem'.credited = mem.credited
    BY <1>0, OriginEffect, HelperEffect
  <1>3. Plain
    BY <1>2, OriginEffect, SaveFaults DEF Plain
  <1> QED BY <1>0, <1>1, <1>3, PlainImplements

LEMMA DeliveryImplements ==
    ASSUME TypeInv, OutboxInv, NEW t \in Tasks,
           SendDetected(t) \/ FlagDetected(t) \/ Sweep(t) \/ SendCredited(t) \/ RecordCredit(t)
             \/ AlreadyCredited(t) \/ Remove(t)
    PROVE  Implements
  <1> DEFINE id == loc[t].entry.id
  <1>0. /\ mem \in Store /\ TaskInv(t) /\ LockInv
        /\ (pc[t] \in EntryLabels => id \in EventIds)
    BY DEF TypeInv, TypeOK, OutboxInv, EntryInv, Entry
  <1>1. NextEntry(t) => At(t, "next", EntryDone(t))
    BY DEF NextEntry
  <1>2. ASSUME NEW o \in Outcomes, Outcome(o)
        PROVE  faults' = IF o = "lost" THEN faults + 1 ELSE faults
    BY <1>2 DEF Outcome, Fault
  <1>3. CASE SendDetected(t)
    <2>1. PICK o \in Outcomes :
            /\ Outcome(o)
            /\ detected' = IF Reached(o) THEN detected \cup {id} ELSE detected
            /\ IF Recorded(o) THEN At(t, "flag", loc[t]) ELSE NextEntry(t)
      BY <1>3 DEF SendDetected
    <2>2. pc[t] = "detect" /\ UNCHANGED <<mem, credits>> /\ id \in EventIds
      BY <1>0, <1>3 DEF SendDetected, EntryLabels
    <2>3. Sealed' = Sealed
      BY <1>1, <2>1, <2>2, SealedKept
    <2>4. CASE Reached(o)
      <3>1. Outbox!Announce(id)
        BY <1>2, <2>1, <2>2, <2>3, <2>4 DEF Outbox!Announce
      <3> QED BY <2>2, <3>1 DEF Implements, Outbox!Next
    <2>5. CASE ~Reached(o)
      <3>1. o = "refused"
        BY <2>5 DEF Reached
      <3> QED BY <1>2, <2>1, <2>2, <2>3, <2>5, <3>1 DEF Implements, Outbox!vars
    <2> QED BY <2>4, <2>5
  <1>4. CASE FlagDetected(t)
    <2>1. /\ At(t, "sweep", loc[t]) \/ NextEntry(t)
          /\ pc[t] = "flag" /\ mem' = Notified(mem, id)
          /\ UNCHANGED backendVars
      BY <1>4 DEF FlagDetected
    <2>2. mem'.credited = mem.credited
      BY <1>0, <2>1, HelperEffect DEF EntryLabels
    <2>3. Plain
      BY <1>4, <2>1, <2>2, SaveFaults DEF FlagDetected, Plain, backendVars
    <2> QED BY <1>1, <2>1, <2>3, PlainImplements
  <1>5. CASE Sweep(t)
    <2>1. /\ pc[t] = "sweep"
          /\ \/ NextEntry(t)
             \/ At(t, "credit", loc[t])
             \/ At(t, "credit", [loc[t] EXCEPT !.deferred = TRUE])
          /\ faults' = faults \/ faults' = faults + 1
          /\ UNCHANGED <<chainVars, mem, disk, backendVars>>
      BY <1>5, SweepEffect
    <2>2. Plain
      BY <2>1 DEF Plain, backendVars
    <2> QED BY <1>1, <2>1, <2>2, PlainImplements
  <1>6. CASE SendCredited(t)
    <2>1. PICK o \in Outcomes :
            /\ Outcome(o)
            /\ credits' = IF Reached(o) THEN [credits EXCEPT ![id] = @ + 1] ELSE credits
            /\ IF Recorded(o) THEN At(t, "record", loc[t]) ELSE NextEntry(t)
      BY <1>6 DEF SendCredited
    <2>2. /\ pc[t] = "credit" /\ UNCHANGED <<mem, detected>> /\ ~Credited(mem, id)
          /\ id \in EventIds /\ id \in detected
      BY <1>0, <1>6 DEF SendCredited, EntryLabels, TaskInv
    <2>3. id \notin Sealed
      <3>1. \A u \in Tasks : pc[u] # "record"
        BY <1>0, <2>2 DEF LockInv, InQueue, EntryLabels
      <3> QED BY <2>2, <3>1 DEF Sealed, Credited
    <2>4. CASE o = "refused"
      <3>1. Sealed' = Sealed
        BY <1>1, <2>1, <2>2, <2>4, SealedKept DEF Recorded
      <3> QED BY <1>2, <2>1, <2>2, <2>4, <3>1 DEF Reached, Implements, Outbox!vars
    <2>5. CASE o = "lost"
      <3>1. Sealed' = Sealed
        BY <1>1, <2>1, <2>2, <2>5, SealedKept DEF Recorded
      <3>2. Outbox!CreditUnknown(id)
        BY <1>2, <2>1, <2>2, <2>3, <2>5, <3>1 DEF Reached, Outbox!CreditUnknown
      <3> QED BY <2>2, <3>2 DEF Implements, Outbox!Next
    <2>6. CASE o = "delivered"
      <3>1. At(t, "record", loc[t])
        BY <2>1, <2>6 DEF Recorded
      <3>2. Sealed' = Sealed \cup {id}
        <4>1. {u \in Tasks : pc'[u] = "record"} = {u \in Tasks : pc[u] = "record"} \cup {t}
          BY <3>1, OthersSealed
        <4>2. \A u \in Tasks : loc'[u] = loc[u]
          BY <3>1, OthersSealed
        <4> QED BY <2>2, <4>1, <4>2 DEF Sealed
      <3>3. Outbox!Credit(id)
        BY <1>2, <2>1, <2>2, <2>3, <2>6, <3>2 DEF Reached, Outbox!Credit
      <3> QED BY <2>2, <3>3 DEF Implements, Outbox!Next
    <2> QED BY <2>4, <2>5, <2>6 DEF Outcomes
  <1>7. CASE RecordCredit(t)
    <2>1. PICK label, l : At(t, label, l) /\ label \in {"remove", "next"}
      BY <1>1, <1>7 DEF RecordCredit
    <2>2. /\ pc[t] = "record" /\ mem' = MarkCredited(mem, id) /\ UNCHANGED <<detected, credits>>
      BY <1>7 DEF RecordCredit, backendVars
    <2>3. mem'.credited = mem.credited \cup {id}
      BY <1>0, <2>2, HelperEffect DEF EntryLabels
    <2>4. faults' \in {faults, faults + 1}
      BY <1>7, SaveFaults DEF RecordCredit
    <2>5. Sealed' = Sealed
      <3>1. {u \in Tasks : pc[u] = "record"} = {u \in Tasks : pc'[u] = "record"} \cup {t}
        BY <2>1, <2>2, OthersSealed
      <3>2. \A u \in Tasks : pc'[u] = "record" => loc'[u] = loc[u]
        BY <2>1, OthersSealed
      <3> QED BY <2>3, <3>1, <3>2 DEF Sealed
    <2>6. CASE faults' = faults + 1
      BY <2>2, <2>5, <2>6 DEF Implements, Outbox!Next, Outbox!Fault
    <2>7. CASE faults' = faults
      BY <2>2, <2>5, <2>7 DEF Implements, Outbox!vars
    <2> QED BY <2>4, <2>6, <2>7
  <1>8. CASE AlreadyCredited(t)
    <2>1. /\ NextEntry(t) \/ At(t, "remove", loc[t])
          /\ pc[t] = "credit"
          /\ UNCHANGED <<mem, backendVars, faults>>
      BY <1>8 DEF AlreadyCredited
    <2>2. Plain
      BY <2>1 DEF Plain, backendVars
    <2> QED BY <1>1, <2>1, <2>2, PlainImplements
  <1>9. CASE Remove(t)
    <2>1. /\ NextEntry(t) /\ pc[t] = "remove" /\ mem' = Drop(mem, id)
          /\ UNCHANGED backendVars
      BY <1>9 DEF Remove
    <2>2. mem'.credited = mem.credited
      BY <1>0, <2>1, HelperEffect DEF EntryLabels
    <2>3. Plain
      BY <1>9, <2>1, <2>2, SaveFaults DEF Remove, Plain, backendVars
    <2> QED BY <1>1, <2>1, <2>3, PlainImplements
  <1> QED BY <1>3, <1>4, <1>5, <1>6, <1>7, <1>8, <1>9

\* What the world does is a stutter; a crash forgets the credits it had not saved.
LEMMA EnvironmentImplements ==
    ASSUME TypeInv, FileBehind, Mine \/ Reorg \/ Assign \/ Crash
    PROVE  Implements
  <1>1. CASE Mine \/ Reorg \/ Assign
    <2>1. UNCHANGED <<mem, pc, loc, detected, credits, faults>>
      BY <1>1 DEF Mine, Reorg, Assign, backendVars
    <2>2. Sealed' = Sealed
      BY <2>1 DEF Sealed
    <2> QED BY <2>1, <2>2 DEF Implements, Outbox!vars
  <1>2. CASE Crash
    <2>1. /\ faults' = faults + 1 /\ mem' = disk /\ UNCHANGED <<detected, credits>>
          /\ \A u \in Tasks : pc'[u] = "idle"
      BY <1>2 DEF Crash, Fault, backendVars
    <2>2. Sealed' \subseteq Sealed
      BY <2>1 DEF Sealed, FileBehind
    <2> QED BY <2>1, <2>2 DEF Implements, Outbox!Next, Outbox!Fault
  <1> QED BY <1>1, <1>2

----------------------------------------------------------------------------
(* The refinement *)

LEMMA ImplementsInit == Init => Outbox!Init
  <1> SUFFICES ASSUME Init PROVE Outbox!Init
    OBVIOUS
  <1>1. Sealed = {}
    BY DEF Init, FirstFile, Sealed
  <1> QED BY <1>1 DEF Init, Outbox!Init

LEMMA ImplementsStep ==
    TypeInv /\ OutboxInv /\ FileBehind /\ [Next]_vars => [Outbox!Next]_(Outbox!vars)
  <1> SUFFICES ASSUME TypeInv, OutboxInv, FileBehind, [Next]_vars PROVE Implements
    BY DEF Implements
  <1>0. \A t \in Tasks : loc[t].tip <= best
    BY DEF OutboxInv, TaskInv
  <1>a. ASSUME NEW t \in Tasks, Quiet(t), Plain PROVE Implements
    <2>1. PICK label \in Labels \ EntryLabels, l \in Locals : At(t, label, l)
      BY <1>a DEF Quiet
    <2>2. pc[t] # "record" /\ label # "record"
      BY <1>a DEF Quiet, EntryLabels
    <2> QED BY <1>a, <2>1, <2>2, PlainImplements
  <1>1. CASE Mine \/ Reorg \/ Assign \/ Crash
    BY <1>1, EnvironmentImplements
  <1>2. ASSUME NEW t \in Tasks, CycleStep(t) PROVE Implements
    <2>1. Quiet(t)
      BY <1>0, <1>2, CycleQuiet, ChunkQuiet DEF CycleStep
    <2>2. Plain
      BY <1>2, CyclePlain, ChunkPlain DEF CycleStep
    <2> QED BY <1>a, <2>1, <2>2
  <1>3. ASSUME NEW t \in Tasks, CreditStep(t) PROVE Implements
    <2>1. CASE CreditsLock(t) \/ CreditsDone(t)
      BY <1>0, <1>a, <2>1, CreditsQuiet, CreditsPlain
    <2>2. CASE ~(CreditsLock(t) \/ CreditsDone(t))
      BY <1>3, <2>2, ReceiptImplements, OriginImplements, DeliveryImplements DEF CreditStep
    <2> QED BY <2>1, <2>2
  <1>4. ASSUME NEW t \in Callers, RecoverStep(t) PROVE Implements
    BY <1>0, <1>a, <1>4, RecoverQuiet, RecoverPlain DEF Tasks
  <1>5. CASE UNCHANGED vars
    <2>1. Sealed' = Sealed
      BY <1>5 DEF vars, Sealed
    <2> QED BY <1>5, <2>1 DEF vars, backendVars, Implements, Outbox!vars
  <1> QED BY <1>1, <1>2, <1>3, <1>4, <1>5 DEF Next

\* The Ethereum/Base outbox keeps the promise of PaymentOutbox, however its
\* cycles, claims and recoveries interleave, and whatever save, delivery or
\* process fails: README "payment_detected precedes payment_credited" and no
\* credit beyond the first one without a fault.
THEOREM EvmImplementsOutbox == Spec => OutboxSpec
  <1>1. Init /\ [][Next]_vars => [](TypeInv /\ OutboxInv /\ FileBehind)
    BY TypeInit, TypeStep, OutboxInit, OutboxStep, FileInit, FileStep, PTL
  <1> QED BY <1>1, ImplementsInit, ImplementsStep, PTL DEF Spec, OutboxSpec, Outbox!Spec

----------------------------------------------------------------------------
(***************************************************************************)
(* EvmDetector passes no payment: whatever fails, restarts or runs at the  *)
(* same time, a payment below its source's cursor is known.                *)
(***************************************************************************)

\* Where a task is between the cursors' first values and the end of the scan,
\* and where it has a chunk of blocks in hand.
ScanLabels == {"source", "fetch", "enqueue", "advance"}
ChunkLabels == {"fetch", "enqueue", "advance"}

\* A source that has no cursor yet begins at start_block.
FirstOf(s) ==
    \A k \in Kinds : s.cursor[k] = NoBlock =>
        LastScanned = NoBlock /\ StartBlock # NoBlock /\ first = StartBlock - 1

AssignedInv == \A p \in Payments : at[p] > 0 => AddrOf[p] \in assigned

\* No cursor is above the blocks that reorganisations leave alone.
HeightInv == \A k \in Kinds : mem.cursor[k] <= Higher(first, SafeBlock(best))

FirstInv ==
    /\ Started(mem) => FirstOf(mem)
    /\ Started(disk) => FirstOf(disk)
    /\ \A t \in Tasks : pc[t] \in ScanLabels => FirstOf(mem)

\* Addresses assigned after a task read the assignments are paid above its tip.
WatchInv(t) ==
    pc[t] \in ScanLabels \cup {"scan"} =>
        \A p \in Payments : at[p] > 0 /\ AddrOf[p] \notin loc[t].watched
                              => at[p] > SafeBlock(loc[t].tip)

\* A chunk begins at the cursor and ends at a safe block.
ChunkInv(t) ==
    pc[t] \in ChunkLabels =>
        /\ loc[t].kind \in Sources
        /\ loc[t].next - 1 <= Higher(first, mem.cursor[loc[t].kind])
        /\ loc[t].end <= SafeBlock(loc[t].tip)

\* The payments p of the chunk that task t has in hand.
InChunk(t, p) ==
    /\ KindOf[p] = loc[t].kind /\ ok[p] /\ at[p] > 0
    /\ loc[t].next <= at[p] /\ at[p] <= ChunkEnd(loc[t])

\* After the fetch they are known or found, and known when the cursor moves.
SeenInv(t) ==
    pc[t] \in {"enqueue", "advance"} =>
        \A p \in Payments \ TopUps : InChunk(t, p) =>
            \/ Known(mem, Id(p))
            \/ pc[t] = "enqueue" /\ (loc[t].partial \/ \E f \in loc[t].found : f.id = Id(p))

\* An entry is removed after its credit was recorded.
DoneInv(t) == pc[t] = "remove" => Credited(mem, loc[t].entry.id)

TaskScan(t) == WatchInv(t) /\ ChunkInv(t) /\ SeenInv(t) /\ DoneInv(t)

ScanInv ==
    /\ AssignedInv /\ HeightInv /\ FirstInv /\ NoPaymentSkipped
    /\ \A t \in Tasks : TaskScan(t)

Inv == TypeInv /\ OutboxInv /\ ScanInv

\* A step forgets no event.
Remembers == \A id \in EventIds : Known(mem, id) => Known(mem', id)

----------------------------------------------------------------------------
(* What the helpers remember *)

LEMMA PushKnown ==
    ASSUME NEW s \in Store, NEW f \in Found
    PROVE  Known(Push(s, f), f.id) /\ \A id \in EventIds : Known(s, id) => Known(Push(s, f), id)
  <1>1. CASE Known(s, f.id)
    BY <1>1 DEF Push
  <1>2. CASE ~Known(s, f.id)
    <2> DEFINE x == [id |-> f.id, height |-> f.height, notified |-> FALSE]
               r == Push(s, f)
    <2>1. r = [s EXCEPT !.pending = s.pending \cup {x}] /\ x.id = f.id
      BY <1>2 DEF Push
    <2> HIDE DEF x
    <2>2. r.pending = s.pending \cup {x} /\ r.credited = s.credited /\ r.ignored = s.ignored
      BY <2>1 DEF Store
    <2> HIDE DEF r
    <2>3. Known(r, f.id) /\ \A id \in EventIds : Known(s, id) => Known(r, id)
      BY <2>1, <2>2 DEF Known, Credited
    <2> QED BY <2>3 DEF r
  <1> QED BY <1>1, <1>2

LEMMA QueueKnown ==
    ASSUME NEW s \in Store, NEW id \in EventIds, NEW n \in Nat, NEW x \in EventIds, Known(s, x)
    PROVE  /\ Known(Ignore(s, id), x)
           /\ Known(Notified(s, id), x)
           /\ Known(MarkCredited(s, id), x)
           /\ Known(Moved(s, id, n), x)
           /\ Credited(s, id) => Known(Drop(s, id), x)
  <1>1. \A r \in {Ignore(s, id), Drop(s, id)} :
          r.credited = s.credited /\ \A e \in s.pending : e.id # id => e \in r.pending
    BY DEF Ignore, Drop, Store
  <1>2. Ignore(s, id).ignored = s.ignored \cup {id} /\ Drop(s, id).ignored = s.ignored
    BY DEF Ignore, Drop, Store
  <1>3. Known(Ignore(s, id), x) /\ (Credited(s, id) => Known(Drop(s, id), x))
    BY <1>1, <1>2 DEF Known, Credited
  <1>4. Known(MarkCredited(s, id), x)
    BY DEF MarkCredited, Store, Known, Credited
  <1>5. Known(Notified(s, id), x)
    <2> DEFINE r == Notified(s, id)
    <2>1. /\ r.pending = {IF e.id = id THEN [e EXCEPT !.notified = TRUE] ELSE e : e \in s.pending}
          /\ r.credited = s.credited /\ r.ignored = s.ignored
      BY DEF Notified, Store
    <2>2. \A e \in s.pending : [e EXCEPT !.notified = TRUE].id = e.id
      BY DEF Store, Entry
    <2> HIDE DEF r
    <2>3. \A e \in s.pending : \E y \in r.pending : y.id = e.id
      BY <2>1, <2>2
    <2>4. Known(r, x)
      BY <2>1, <2>3 DEF Known, Credited
    <2> QED BY <2>4 DEF r
  <1>6. Known(Moved(s, id, n), x)
    <2> DEFINE r == Moved(s, id, n)
    <2>1. /\ r.pending = {IF e.id = id THEN [e EXCEPT !.height = n] ELSE e : e \in s.pending}
          /\ r.credited = s.credited /\ r.ignored = s.ignored
      BY DEF Moved, Store
    <2>2. \A e \in s.pending : [e EXCEPT !.height = n].id = e.id
      BY DEF Store, Entry
    <2> HIDE DEF r
    <2>3. \A e \in s.pending : \E y \in r.pending : y.id = e.id
      BY <2>1, <2>2
    <2>4. Known(r, x)
      BY <2>1, <2>3 DEF Known, Credited
    <2> QED BY <2>4 DEF r
  <1> QED BY <1>3, <1>4, <1>5, <1>6

\* Only the cursors differ.
LEMMA CursorKnown ==
    ASSUME NEW s, NEW r, r.pending = s.pending, r.credited = s.credited, r.ignored = s.ignored
    PROVE  \A id : Known(r, id) <=> Known(s, id)
  BY DEF Known, Credited

\* Where a payment is after a step of the chain.
LEMMA ChainMoves ==
    ASSUME TypeOK, Mine \/ Reorg, NEW p \in Payments, at'[p] > 0
    PROVE  /\ at[p] > 0 \/ AddrOf[p] \in assigned
           /\ \/ at'[p] = at[p] /\ ok'[p] = ok[p] /\ idx'[p] = idx[p]
              \/ at'[p] > SafeBlock(best)
  <1>0. best \in Nat /\ at \in [Payments -> Nat]
    BY DEF TypeOK
  <1>1. CASE Mine
    <2>1. PICK T \in SUBSET Payable : \E F \in SUBSET T :
            /\ at' = [q \in Payments |-> IF q \in T THEN best + 1 ELSE at[q]]
            /\ ok' = [q \in Payments |-> IF q \in T THEN q \notin F ELSE ok[q]]
      BY <1>1 DEF Mine
    <2>2. PICK F \in SUBSET T :
            /\ at' = [q \in Payments |-> IF q \in T THEN best + 1 ELSE at[q]]
            /\ ok' = [q \in Payments |-> IF q \in T THEN q \notin F ELSE ok[q]]
      BY <2>1
    <2>3. SafeBlock(best) <= best
      BY <1>0, SafeBlockType
    <2>4. CASE p \in T
      <3>1. AddrOf[p] \in assigned
        BY <2>4 DEF Payable
      <3>2. at'[p] = best + 1
        BY <2>2, <2>4
      <3> QED BY <1>0, <2>3, <3>1, <3>2, SafeBlockType
    <2>5. CASE p \notin T
      <3>1. at'[p] = at[p]
        BY <2>2, <2>5
      <3>2. ok'[p] = ok[p]
        BY <2>2, <2>5, Zenon
      <3>3. idx' = idx
        BY <1>1 DEF Mine
      <3> QED BY <3>1, <3>2, <3>3
    <2> QED BY <2>4, <2>5
  <1>2. CASE Reorg
    <2>1. PICK d \in 1 .. AtLeastOne(MinConf) - 1 :
            LET base == best - d
                loose == {q \in Payments : at[q] > base}
            IN /\ base > 0
               /\ \E place \in [loose -> {0} \cup (base + 1 .. best + 1)],
                     fine \in SUBSET loose,
                     index \in [{q \in loose : KindOf[q] = "erc20"} -> {0, 1}] :
                    /\ at' = [q \in Payments |-> IF q \in loose THEN place[q] ELSE at[q]]
                    /\ ok' = [q \in Payments |-> IF q \in loose THEN q \in fine ELSE ok[q]]
                    /\ idx' = [q \in Payments |->
                                 IF q \in DOMAIN index THEN index[q] ELSE idx[q]]
      BY <1>2 DEF Reorg
    <2> DEFINE base == best - d
               loose == {q \in Payments : at[q] > base}
               tokens == {q \in loose : KindOf[q] = "erc20"}
    <2>2. PICK place \in [loose -> {0} \cup (base + 1 .. best + 1)], fine \in SUBSET loose,
               index \in [tokens -> {0, 1}] :
            /\ at' = [q \in Payments |-> IF q \in loose THEN place[q] ELSE at[q]]
            /\ ok' = [q \in Payments |-> IF q \in loose THEN q \in fine ELSE ok[q]]
            /\ idx' = [q \in Payments |-> IF q \in DOMAIN index THEN index[q] ELSE idx[q]]
      BY <2>1
    <2>3. base > 0 /\ base >= SafeBlock(best) /\ base \in Nat
      BY <1>0, <2>1, Constants DEF SafeBlock, Higher
    <2>4. CASE p \in loose
      <3>1. at[p] > 0
        BY <1>0, <2>3, <2>4
      <3>2. at'[p] = place[p] /\ place[p] \in {0} \cup (base + 1 .. best + 1)
        <4> HIDE DEF loose, base
        <4> QED BY <2>2, <2>4
      <3>3. at'[p] > base
        BY <1>0, <2>3, <3>2
      <3> QED BY <1>0, <2>3, <3>1, <3>2, <3>3, SafeBlockType
    <2>5. CASE p \notin loose
      <3>1. p \notin tokens /\ DOMAIN index = tokens
        BY <2>2, <2>5
      <3> HIDE DEF loose, tokens
      <3>2. at'[p] = at[p]
        BY <2>2, <2>5
      <3>3. ok' = [q \in Payments |-> IF q \in loose THEN q \in fine ELSE ok[q]]
        BY <2>2
      <3>4. ok'[p] = ok[p]
        BY <2>5, <3>3, Zenon
      <3>5. idx'[p] = idx[p]
        BY <2>2, <3>1
      <3> QED BY <3>2, <3>4, <3>5
    <2> QED BY <2>4, <2>5
  <1> QED BY <1>1, <1>2

----------------------------------------------------------------------------
(* The chain, the users, the process *)

LEMMA ScanInit == Init => ScanInv
  <1> SUFFICES ASSUME Init PROVE ScanInv
    OBVIOUS
  <1>1. /\ mem = FirstFile /\ disk = FirstFile /\ \A t \in Tasks : pc[t] = "idle"
        /\ \A k \in Kinds : FirstFile.cursor[k] = NoBlock
        /\ \A p \in Payments : at[p] \in Nat /\ (at[p] > 0 => p \in QueuedTopUps)
    BY DEF Init, FirstFile
  <1>2. AssignedInv
    BY <1>1 DEF AssignedInv, Init
  <1>3. HeightInv
    <2>1. SafeBlock(best) \in Nat /\ first = 0
      BY SafeBlockType DEF Init
    <2> QED BY <1>1, <2>1 DEF HeightInv, Higher, NoBlock
  <1>4. FirstInv /\ \A t \in Tasks : TaskScan(t)
    BY <1>1 DEF FirstInv, Started, TaskScan, WatchInv, ChunkInv, SeenInv, DoneInv,
                ScanLabels, ChunkLabels
  <1>5. NoPaymentSkipped
    <2>1. \A p \in Payments : KindOf[p] \in Kinds
      BY Constants
    <2> QED BY <1>1, <2>1 DEF NoPaymentSkipped, Tracked, NoBlock
  <1> QED BY <1>2, <1>3, <1>4, <1>5 DEF ScanInv

\* A payment at or below a safe block was there before a step of the chain.
LEMMA SettledBefore ==
    ASSUME TypeInv, TypeInv', Mine \/ Reorg, NEW p \in Payments,
           at'[p] > 0, at'[p] <= SafeBlock(best)
    PROVE  at'[p] = at[p] /\ ok'[p] = ok[p] /\ Id(p)' = Id(p)
  <1>1. SafeBlock(best) \in Nat /\ at'[p] \in Nat
    BY SafeBlockType DEF TypeInv, TypeOK
  <1>2. at'[p] = at[p] /\ ok'[p] = ok[p] /\ idx'[p] = idx[p]
    BY <1>1, ChainMoves DEF TypeInv
  <1> QED BY <1>2 DEF Id

LEMMA SafeBlockMonotone ==
    \A m, n \in Nat : m <= n => SafeBlock(m) <= SafeBlock(n)
  BY Constants DEF SafeBlock, Higher

\* What a cursor has behind it stays tracked when the chain moves.
LEMMA ChainTracked ==
    ASSUME TypeInv, TypeInv', Mine \/ Reorg, NEW s \in Store, Tracked(s), UNCHANGED first,
           \A k \in Kinds : s.cursor[k] <= Higher(first, SafeBlock(best))
    PROVE  Tracked(s)'
  <1> SUFFICES ASSUME NEW p \in Payments \ TopUps, KindOf[p] \in Sources,
                      at'[p] > first, at'[p] > 0, ok'[p], at'[p] <= s.cursor[KindOf[p]]
               PROVE  Known(s, Id(p)')
    BY DEF Tracked
  <1>1. /\ KindOf[p] \in Kinds /\ first \in Int /\ at'[p] \in Nat /\ SafeBlock(best) \in Nat
        /\ s.cursor[KindOf[p]] \in Int
    BY Constants, SafeBlockType DEF TypeInv, TypeOK, Store, NoBlock
  <1>2. at'[p] <= SafeBlock(best)
    BY <1>1 DEF Higher
  <1>3. at'[p] = at[p] /\ ok'[p] = ok[p] /\ Id(p)' = Id(p)
    BY <1>2, SettledBefore
  <1> QED BY <1>3 DEF Tracked

LEMMA ChainScan ==
    ASSUME Inv, TypeInv', Mine \/ Reorg
    PROVE  ScanInv'
  <1>0. /\ UNCHANGED <<mem, disk, pc, loc, first, assigned>>
        /\ best \in Nat /\ best' \in Nat /\ best <= best' /\ first \in Int
        /\ mem \in Store /\ disk \in Store /\ \A t \in Tasks : loc[t] \in Locals
        /\ \A k \in Kinds : mem.cursor[k] \in Int /\ disk.cursor[k] \in Int
        /\ SafeBlock(best) \in Nat /\ SafeBlock(best') \in Nat
        /\ SafeBlock(best) <= SafeBlock(best')
    <2>1. UNCHANGED <<mem, disk, pc, loc, first, assigned>> /\ best' = best + 1
      BY DEF Mine, Reorg
    <2>2. /\ best \in Nat /\ first \in Int /\ mem \in Store /\ disk \in Store
          /\ \A t \in Tasks : loc[t] \in Locals
          /\ \A k \in Kinds : mem.cursor[k] \in Int /\ disk.cursor[k] \in Int
      BY DEF Inv, TypeInv, TypeOK, Store, NoBlock
    <2> QED BY <2>1, <2>2, SafeBlockType, SafeBlockMonotone
  <1>1. AssignedInv'
    BY <1>0, ChainMoves DEF Inv, ScanInv, AssignedInv, TypeInv
  <1>2. HeightInv'
    BY <1>0 DEF Inv, ScanInv, HeightInv, Higher
  <1>3. FirstInv'
    BY <1>0 DEF Inv, ScanInv, FirstInv, FirstOf, Started
  <1>4. NoPaymentSkipped'
    <2>1. /\ \A k \in Kinds : mem.cursor[k] <= Higher(first, SafeBlock(best))
          /\ \A k \in Kinds : disk.cursor[k] <= mem.cursor[k]
          /\ Higher(first, SafeBlock(best)) \in Int
      BY <1>0 DEF Inv, ScanInv, HeightInv, OutboxInv, OrderInv, Higher
    <2>2. \A k \in Kinds : disk.cursor[k] <= Higher(first, SafeBlock(best))
      BY <1>0, <2>1
    <2>3. Tracked(mem) /\ Tracked(disk) /\ TypeInv
      BY DEF Inv, ScanInv, NoPaymentSkipped
    <2>4. ASSUME NEW s \in {mem, disk} PROVE Tracked(s)'
      BY <1>0, <2>1, <2>2, <2>3, ChainTracked
    <2> QED BY <1>0, <2>4 DEF NoPaymentSkipped, Tracked
  <1>5. ASSUME NEW t \in Tasks PROVE TaskScan(t)'
    <2>0. /\ TaskScan(t) /\ TypeInv /\ loc[t].tip \in Nat /\ loc[t].tip <= best
          /\ SafeBlock(loc[t].tip) \in Nat /\ SafeBlock(loc[t].tip) <= SafeBlock(best)
          /\ loc[t].end \in Nat /\ ChunkEnd(loc[t]) \in Nat /\ ChunkEnd(loc[t]) <= loc[t].end
          /\ \A p \in Payments : at'[p] \in Nat
      <3>1. loc[t].tip \in Nat /\ loc[t].tip <= best /\ loc[t].end \in Nat
        BY <1>0 DEF Inv, OutboxInv, TaskInv, Locals
      <3>2. \A p \in Payments : at'[p] \in Nat
        BY DEF TypeInv, TypeOK
      <3> QED BY <1>0, <3>1, <3>2, SafeBlockType, SafeBlockMonotone, ChunkType DEF Inv, ScanInv
    <2>1. WatchInv(t)'
      <3> SUFFICES ASSUME pc[t] \in ScanLabels \cup {"scan"}, NEW p \in Payments, at'[p] > 0,
                          AddrOf[p] \notin loc[t].watched, at'[p] <= SafeBlock(loc[t].tip)
                   PROVE  FALSE
        BY <1>0, <2>0 DEF WatchInv
      <3>1. at'[p] <= SafeBlock(best)
        BY <1>0, <2>0
      <3>2. at'[p] = at[p]
        BY <2>0, <3>1, SettledBefore
      <3> QED BY <2>0, <3>2 DEF TaskScan, WatchInv
    <2>2. ChunkInv(t)' /\ DoneInv(t)'
      BY <1>0, <2>0 DEF TaskScan, ChunkInv, DoneInv
    <2>3. SeenInv(t)'
      <3> SUFFICES ASSUME pc[t] \in {"enqueue", "advance"}, NEW p \in Payments \ TopUps,
                          InChunk(t, p)'
                   PROVE  \/ Known(mem, Id(p)')
                          \/ /\ pc[t] = "enqueue"
                             /\ loc[t].partial \/ \E f \in loc[t].found : f.id = Id(p)'
        BY <1>0 DEF SeenInv
      <3>1. at'[p] <= ChunkEnd(loc[t]) /\ at'[p] > 0
        BY <1>0 DEF InChunk
      <3>2. loc[t].end <= SafeBlock(loc[t].tip)
        BY <2>0 DEF TaskScan, ChunkInv, ChunkLabels
      <3>3. at'[p] <= SafeBlock(best)
        BY <1>0, <2>0, <3>1, <3>2
      <3>4. at'[p] = at[p] /\ ok'[p] = ok[p] /\ Id(p)' = Id(p)
        BY <2>0, <3>1, <3>3, SettledBefore
      <3>5. InChunk(t, p)
        BY <1>0, <3>4 DEF InChunk
      <3> QED BY <2>0, <3>4, <3>5 DEF TaskScan, SeenInv
    <2> QED BY <2>1, <2>2, <2>3 DEF TaskScan
  <1> QED BY <1>1, <1>2, <1>3, <1>4, <1>5 DEF ScanInv

LEMMA RestScan ==
    ASSUME Inv, Assign \/ Crash
    PROVE  ScanInv'
  <1>0. /\ first \in Int /\ best \in Nat /\ mem \in Store /\ disk \in Store
        /\ SafeBlock(best) \in Nat
        /\ \A k \in Kinds : mem.cursor[k] \in Int /\ disk.cursor[k] \in Int
    BY SafeBlockType DEF Inv, TypeInv, TypeOK, Store, NoBlock
  <1>1. CASE Assign
    <2>1. UNCHANGED <<best, at, ok, idx, first, mem, disk, pc, loc>> /\ assigned \subseteq assigned'
      BY <1>1 DEF Assign, chainVars
    <2>2. AssignedInv' /\ HeightInv' /\ FirstInv' /\ NoPaymentSkipped'
      BY <2>1 DEF Inv, ScanInv, AssignedInv, HeightInv, FirstInv, FirstOf, Started,
                  NoPaymentSkipped, Tracked, Id
    <2>3. ASSUME NEW t \in Tasks PROVE TaskScan(t)'
      BY <2>1 DEF Inv, ScanInv, TaskScan, WatchInv, ChunkInv, SeenInv, DoneInv, InChunk, Id
    <2> QED BY <2>2, <2>3 DEF ScanInv
  <1>2. CASE Crash
    <2>1. /\ UNCHANGED <<best, at, ok, idx, assigned, first, disk>> /\ mem' = disk
          /\ \A t \in Tasks : pc'[t] = "idle"
      BY <1>2 DEF Crash, chainVars
    <2>2. AssignedInv'
      BY <2>1 DEF Inv, ScanInv, AssignedInv
    <2>3. HeightInv'
      BY <1>0, <2>1 DEF Inv, ScanInv, HeightInv, OutboxInv, OrderInv, Higher
    <2>4. FirstInv' /\ \A t \in Tasks : TaskScan(t)'
      BY <2>1 DEF Inv, ScanInv, FirstInv, FirstOf, Started, TaskScan, WatchInv, ChunkInv,
                  SeenInv, DoneInv, ScanLabels, ChunkLabels
    <2>5. NoPaymentSkipped'
      BY <2>1 DEF Inv, ScanInv, NoPaymentSkipped, Tracked, Id
    <2> QED BY <2>2, <2>3, <2>4, <2>5 DEF ScanInv
  <1> QED BY <1>1, <1>2

----------------------------------------------------------------------------
(* What a step of a task leaves as it was *)

\* A cursor without a value had none before.
LEMMA FirstKept ==
    ASSUME TypeInv, TypeInv', Calm, first' = first, FirstOf(mem)
    PROVE  FirstOf(mem)'
  <1>1. \A k \in Kinds : mem.cursor[k] \in Nat \cup {NoBlock} /\ mem.cursor[k] <= mem'.cursor[k]
    BY DEF TypeInv, TypeOK, Store, Calm
  <1>2. \A k \in Kinds : mem'.cursor[k] = NoBlock => mem.cursor[k] = NoBlock
    BY <1>1 DEF NoBlock
  <1> QED BY <1>2 DEF FirstOf

\* The other tasks.
LEMMA OthersScan ==
    ASSUME Inv, TypeInv', Calm, Remembers, FirstOf(mem) => first' = first,
           NEW u \in Tasks, pc'[u] = pc[u], loc'[u] = loc[u]
    PROVE  TaskScan(u)' /\ (pc'[u] \in ScanLabels => FirstOf(mem)')
  <1>0. /\ TaskScan(u) /\ UNCHANGED <<best, at, ok, idx>> /\ TypeInv
        /\ \A p \in Payments : Id(p)' = Id(p) /\ Id(p) \in EventIds
        /\ pc[u] \in ScanLabels => FirstOf(mem)
        /\ pc[u] \in ChunkLabels => pc[u] \in ScanLabels
    BY IdType DEF Inv, ScanInv, FirstInv, Calm, chainVars, Id, TypeInv, ScanLabels, ChunkLabels
  <1>1. WatchInv(u)'
    BY <1>0 DEF TaskScan, WatchInv
  <1>2. ChunkInv(u)'
    <2> SUFFICES ASSUME pc[u] \in ChunkLabels
                 PROVE  /\ loc[u].kind \in Sources
                        /\ loc[u].next - 1 <= Higher(first', mem'.cursor[loc[u].kind])
                        /\ loc[u].end <= SafeBlock(loc[u].tip)
      BY DEF ChunkInv
    <2>1. loc[u].kind \in Kinds /\ loc[u].next \in Nat /\ first \in Int /\ first' = first
      BY <1>0 DEF TypeInv, TypeOK, Locals
    <2>2. /\ mem.cursor[loc[u].kind] <= mem'.cursor[loc[u].kind]
          /\ mem.cursor[loc[u].kind] \in Int /\ mem'.cursor[loc[u].kind] \in Int
      BY <1>0, <2>1 DEF Calm, TypeInv, TypeOK, Store, NoBlock
    <2>3. /\ loc[u].kind \in Sources /\ loc[u].end <= SafeBlock(loc[u].tip)
          /\ loc[u].next - 1 <= Higher(first, mem.cursor[loc[u].kind])
      BY <1>0 DEF TaskScan, ChunkInv
    <2> QED BY <2>1, <2>2, <2>3 DEF Higher
  <1>3. SeenInv(u)'
    <2>1. \A p \in Payments : InChunk(u, p)' <=> InChunk(u, p)
      BY <1>0 DEF InChunk
    <2> QED BY <1>0, <2>1 DEF TaskScan, SeenInv, Remembers
  <1>4. DoneInv(u)'
    <2>1. pc[u] = "remove" => loc[u].entry.id \in EventIds
      BY <1>0 DEF TypeInv, EntryInv, EntryLabels, Entry
    <2> QED BY <1>0, <2>1 DEF TaskScan, DoneInv, Calm
  <1>5. pc'[u] \in ScanLabels => FirstOf(mem)'
    BY <1>0, FirstKept
  <1> QED BY <1>1, <1>2, <1>3, <1>4, <1>5 DEF TaskScan

\* What remains to show of a step of task t: its own part, and the cursors.
LEMMA StepScan ==
    ASSUME Inv, TypeInv', Calm, Remembers, UNCHANGED assigned,
           FirstOf(mem) => first' = first,
           NEW t \in Tasks, NEW label, NEW l, At(t, label, l),
           TaskScan(t)', label \in ScanLabels => FirstOf(mem)',
           HeightInv', Tracked(mem)', Started(mem') => FirstOf(mem)'
    PROVE  ScanInv'
  <1>0. /\ UNCHANGED <<best, at, ok, idx>> /\ TypeInv
        /\ \A k \in Kinds : /\ disk.cursor[k] \in Nat \cup {NoBlock}
                            /\ mem.cursor[k] \in Nat \cup {NoBlock}
                            /\ disk.cursor[k] <= mem.cursor[k]
        /\ \A p \in Payments : KindOf[p] \in Kinds /\ at[p] \in Nat
        /\ disk' = disk \/ disk' = mem'
    BY Constants DEF Inv, Calm, chainVars, TypeInv, TypeOK, Store, OutboxInv, OrderInv
  <1>1. pc'[t] = label /\ \A u \in Tasks : u # t => pc'[u] = pc[u] /\ loc'[u] = loc[u]
    BY <1>0 DEF At, Goto, Set, TypeInv, TypeOK
  <1>2. \A u \in Tasks : TaskScan(u)' /\ (pc'[u] \in ScanLabels => FirstOf(mem)')
    BY <1>1, OthersScan
  <1>3. AssignedInv'
    BY <1>0 DEF Inv, ScanInv, AssignedInv
  <1>4. Started(disk) => first' = first
    <2>1. Started(disk) => Started(mem)
      BY <1>0 DEF Started, NoBlock
    <2> QED BY <2>1 DEF Inv, ScanInv, FirstInv
  <1>5. FirstInv'
    <2>1. Started(disk') => FirstOf(disk)'
      <3>1. CASE disk' = mem'
        BY <3>1 DEF FirstOf
      <3>2. CASE disk' = disk
        BY <1>4, <3>2 DEF Inv, ScanInv, FirstInv, FirstOf, Started
      <3> QED BY <1>0, <3>1, <3>2
    <2> QED BY <1>2, <2>1 DEF FirstInv, Started
  <1>6. NoPaymentSkipped'
    <2>1. Tracked(disk)'
      <3>1. CASE disk' = mem'
        BY <3>1 DEF Tracked
      <3>2. CASE disk' = disk /\ Started(disk)
        BY <1>0, <1>4, <3>2 DEF Inv, ScanInv, NoPaymentSkipped, Tracked, Id
      <3>3. CASE disk' = disk /\ ~Started(disk)
        BY <1>0, <3>3 DEF Tracked, Started, NoBlock
      <3> QED BY <1>0, <3>1, <3>2, <3>3
    <2> QED BY <2>1 DEF NoPaymentSkipped
  <1> QED BY <1>2, <1>3, <1>5, <1>6 DEF ScanInv

\* A step that moves no cursor.
LEMMA SteadyScan ==
    ASSUME Inv, TypeInv', Calm, Remembers, UNCHANGED <<assigned, first>>,
           mem'.cursor = mem.cursor,
           NEW t \in Tasks, NEW label, NEW l, At(t, label, l),
           TaskScan(t)', label \in ScanLabels => pc[t] \in ScanLabels
    PROVE  ScanInv'
  <1>0. UNCHANGED <<best, at, ok, idx>> /\ \A p \in Payments : Id(p) \in EventIds
    BY IdType DEF Inv, TypeInv, Calm, chainVars
  <1>1. HeightInv' /\ (Started(mem') => FirstOf(mem)') /\ (label \in ScanLabels => FirstOf(mem)')
    BY <1>0 DEF Inv, ScanInv, HeightInv, FirstInv, FirstOf, Started
  <1>2. Tracked(mem)'
    BY <1>0 DEF Inv, ScanInv, NoPaymentSkipped, Tracked, Remembers, Id
  <1> QED BY <1>1, <1>2, StepScan

\* A task outside the scan has nothing to show.
LEMMA FreeTask ==
    ASSUME TypeInv, NEW t \in Tasks, NEW label, NEW l, At(t, label, l),
           label \notin ScanLabels \cup {"scan", "remove"}
    PROVE  TaskScan(t)'
  <1>1. pc'[t] = label
    BY DEF At, Goto, TypeInv, TypeOK
  <1> QED BY <1>1 DEF TaskScan, WatchInv, ChunkInv, SeenInv, DoneInv, ScanLabels, ChunkLabels

----------------------------------------------------------------------------
(* Leaving a source *)

LEMMA LeaveScanTask ==
    ASSUME Inv, TypeInv', Calm, NEW t \in Tasks, pc[t] \in ScanLabels \cup {"scan"},
           LeaveScan(t) \/ (pc[t] \in ScanLabels /\ LeaveKind(t))
    PROVE  /\ TaskScan(t)'
           /\ \E label, l : /\ At(t, label, l)
                            /\ label \in ScanLabels => pc[t] \in ScanLabels
  <1>0. /\ TypeInv /\ loc[t] \in Locals /\ WatchInv(t) /\ UNCHANGED <<best, at, ok, idx>>
    BY DEF Inv, ScanInv, TaskScan, TypeInv, TypeOK, Calm, chainVars
  <1>1. CASE LeaveScan(t)
    <2>1. At(t, "credits", SecondPass(t)) /\ "credits" \notin ScanLabels \cup {"scan", "remove"}
      BY <1>1 DEF LeaveScan, ScanLabels
    <2> QED BY <1>0, <2>1, FreeTask
  <1>2. CASE ~LeaveScan(t)
    <2> DEFINE l == [loc[t] EXCEPT !.kind = AfterKind(loc[t].kind), !.next = 0,
                                   !.end = 0, !.found = {}, !.partial = FALSE]
    <2>1. At(t, "source", l) /\ pc[t] \in ScanLabels
      BY <1>2 DEF LeaveKind
    <2>2. l.watched = loc[t].watched /\ l.tip = loc[t].tip
      BY <1>0 DEF Locals
    <2> HIDE DEF l
    <2>3. pc'[t] = "source" /\ loc'[t] = l
      BY <1>0, <2>1 DEF At, Goto, Set, TypeInv, TypeOK
    <2>4. WatchInv(t)'
      BY <1>0, <2>1, <2>2, <2>3 DEF WatchInv
    <2> QED BY <2>1, <2>3, <2>4 DEF TaskScan, ChunkInv, SeenInv, DoneInv, ChunkLabels
  <1> QED BY <1>1, <1>2

----------------------------------------------------------------------------
(* The queue *)

\* The steps that leave the scan's locals and the cursors alone.
LEMMA FreeScan ==
    ASSUME Inv, TypeInv', Calm, Remembers, UNCHANGED <<assigned, first>>,
           mem'.cursor = mem.cursor,
           NEW t \in Tasks, NEW label, NEW l, At(t, label, l),
           label \notin ScanLabels \cup {"scan", "remove"}
    PROVE  ScanInv'
  BY FreeTask, SteadyScan DEF Inv

\* The entry leaves the queue next: its credit is recorded.
LEMMA RemoveNext ==
    ASSUME Inv, TypeInv', Calm, Remembers, UNCHANGED <<assigned, first>>,
           mem'.cursor = mem.cursor,
           NEW t \in Tasks, NEW l, At(t, "remove", l), Credited(mem', l.entry.id)
    PROVE  ScanInv'
  <1>1. pc'[t] = "remove" /\ loc'[t] = l
    BY DEF At, Goto, Set, Inv, TypeInv, TypeOK
  <1>2. TaskScan(t)' /\ "remove" \notin ScanLabels
    BY <1>1 DEF TaskScan, WatchInv, ChunkInv, SeenInv, DoneInv, ScanLabels, ChunkLabels
  <1> QED BY <1>2, SteadyScan

LEMMA QueueScan ==
    ASSUME Inv, TypeInv', Calm, NEW t \in Tasks, CreditStep(t)
    PROVE  ScanInv'
  <1>0. /\ loc[t] \in Locals /\ mem \in Store /\ TypeInv
        /\ at \in [Payments -> Nat]
    BY DEF Inv, TypeInv, TypeOK
  <1>a. \A label \in {"credits", "next", "idle", "reservations", "maintain", "origin", "detect", "flag", "sweep", "credit", "record"} :
          label \notin ScanLabels \cup {"scan", "remove"}
    BY DEF ScanLabels
  <1>b. mem' = mem => Remembers /\ mem'.cursor = mem.cursor
    BY DEF Remembers
  <1>c. NextEntry(t) => \E l : At(t, "next", l)
    BY DEF NextEntry
  <1> DEFINE id == loc[t].entry.id
  <1>d. pc[t] \in EntryLabels => id \in EventIds
    BY <1>0 DEF TypeInv, EntryInv, Entry
  <1> HIDE DEF id
  <1>1. CASE CreditsLock(t)
    <2>1. UNCHANGED <<assigned, first, mem>>
      BY <1>1 DEF CreditsLock
    <2>2. \E label \in {"next", "idle"} : \E l : At(t, label, l)
      BY <1>1 DEF CreditsLock
    <2> QED BY <1>a, <1>b, <2>1, <2>2, FreeScan
  <1>2. CASE CreditsDone(t)
    <2>1. UNCHANGED <<assigned, first, mem>>
      BY <1>2 DEF CreditsDone
    <2>2. loc[t].pass \in {"before", "after", "recover"}
      BY <1>0 DEF Locals
    <2>3. \E label \in {"reservations", "maintain", "idle"} : \E l : At(t, label, l)
      BY <1>2, <2>2 DEF CreditsDone
    <2> QED BY <1>a, <1>b, <2>1, <2>3, FreeScan
  <1>3. CASE EntryReceipt(t)
    <2>1. PICK e \in loc[t].todo :
            /\ mem' = mem \/ mem' = Ignore(mem, e.id) \/ mem' = Moved(mem, e.id, at[e.id[1]])
            /\ \E label \in {"next", "origin", "detect", "sweep"} : \E l : At(t, label, l)
      BY <1>3 DEF EntryReceipt, Announce
    <2>2. e.id \in EventIds /\ at[e.id[1]] \in Nat
      BY <1>0, PayeeType DEF Locals, Entry
    <2>3. Remembers /\ mem'.cursor = mem.cursor
      BY <1>0, <1>b, <2>1, <2>2, QueueKnown, HelperEffect DEF Remembers
    <2>4. UNCHANGED <<assigned, first>>
      BY <1>3 DEF EntryReceipt
    <2> QED BY <1>a, <2>1, <2>3, <2>4, FreeScan
  <1>4. CASE SendDetected(t)
    <2>1. /\ NextEntry(t) \/ At(t, "flag", loc[t])
          /\ UNCHANGED <<assigned, first, mem>>
      BY <1>4 DEF SendDetected
    <2> QED BY <1>a, <1>b, <1>c, <2>1, FreeScan
  <1>5. CASE FlagDetected(t)
    <2>1. /\ mem' = Notified(mem, id)
          /\ NextEntry(t) \/ At(t, "sweep", loc[t])
          /\ UNCHANGED <<assigned, first>> /\ id \in EventIds
      BY <1>5, <1>d DEF FlagDetected, EntryLabels, id
    <2>2. Remembers /\ mem'.cursor = mem.cursor
      BY <1>0, <1>b, <2>1, QueueKnown, HelperEffect DEF Remembers
    <2> QED BY <1>a, <1>c, <2>1, <2>2, FreeScan
  <1>6. CASE Sweep(t)
    <2>1. /\ NextEntry(t) \/ \E l : At(t, "credit", l)
          /\ UNCHANGED <<assigned, first, mem>>
      BY <1>6, SweepEffect
    <2> QED BY <1>a, <1>b, <1>c, <2>1, FreeScan
  <1>7. CASE SendCredited(t)
    <2>1. /\ NextEntry(t) \/ At(t, "record", loc[t])
          /\ UNCHANGED <<assigned, first, mem>>
      BY <1>7 DEF SendCredited
    <2> QED BY <1>a, <1>b, <1>c, <2>1, FreeScan
  <1>8. CASE RecordCredit(t)
    <2>1. /\ mem' = MarkCredited(mem, id)
          /\ NextEntry(t) \/ At(t, "remove", loc[t])
          /\ UNCHANGED <<assigned, first>> /\ id \in EventIds
      BY <1>8, <1>d DEF RecordCredit, EntryLabels, id
    <2>2. Remembers /\ mem'.cursor = mem.cursor
      BY <1>0, <1>b, <2>1, QueueKnown, HelperEffect DEF Remembers
    <2>3. Credited(mem', id)
      BY <1>0, <2>1, HelperEffect DEF Credited
    <2>4. CASE NextEntry(t)
      BY <1>a, <1>c, <2>1, <2>2, <2>4, FreeScan
    <2>5. CASE At(t, "remove", loc[t])
      BY <2>1, <2>2, <2>3, <2>5, RemoveNext DEF id
    <2> QED BY <2>1, <2>4, <2>5
  <1>9. CASE AlreadyCredited(t)
    <2>1. /\ NextEntry(t) \/ At(t, "remove", loc[t])
          /\ UNCHANGED <<assigned, first, mem>> /\ Credited(mem, loc[t].entry.id)
      BY <1>9 DEF AlreadyCredited
    <2>2. CASE NextEntry(t)
      BY <1>a, <1>b, <1>c, <2>1, <2>2, FreeScan
    <2>3. CASE At(t, "remove", loc[t])
      BY <1>b, <2>1, <2>3, RemoveNext
    <2> QED BY <2>1, <2>2, <2>3
  <1>10. CASE Remove(t)
    <2>1. /\ mem' = Drop(mem, id) /\ NextEntry(t) /\ pc[t] = "remove"
          /\ UNCHANGED <<assigned, first>> /\ id \in EventIds
      BY <1>10, <1>d DEF Remove, EntryLabels, id
    <2>2. Credited(mem, id)
      BY <2>1 DEF Inv, ScanInv, TaskScan, DoneInv, id
    <2>3. Remembers /\ mem'.cursor = mem.cursor
      BY <1>0, <2>1, <2>2, QueueKnown, HelperEffect DEF Remembers
    <2> QED BY <1>a, <1>c, <2>1, <2>3, FreeScan
  <1>11. CASE EntryOrigin(t)
    <2>1. /\ mem' = mem \/ mem' = Ignore(mem, id)
          /\ \E label \in {"next", "detect", "sweep"} : \E l : At(t, label, l)
          /\ UNCHANGED <<assigned, first>> /\ id \in EventIds
      BY <1>11, <1>d, OriginEffect DEF EntryLabels, NextEntry, id
    <2>2. Remembers /\ mem'.cursor = mem.cursor
      BY <1>0, <1>b, <2>1, QueueKnown, HelperEffect DEF Remembers
    <2> QED BY <1>a, <2>1, <2>2, FreeScan
  <1> QED BY <1>1, <1>2, <1>3, <1>4, <1>5, <1>6, <1>7, <1>8, <1>9, <1>10, <1>11 DEF CreditStep

LEMMA RecoverScan ==
    ASSUME Inv, TypeInv', Calm, NEW t \in Tasks, RecoverStep(t)
    PROVE  ScanInv'
  <1>0. mem \in Store /\ loc[t].found \subseteq Found
    BY DEF Inv, TypeInv, TypeOK, Locals
  <1>a. \A label \in {"rtip", "credits", "idle"} : label \notin ScanLabels \cup {"scan", "remove"}
    BY DEF ScanLabels
  <1>1. CASE RecoverFetch(t)
    <2>1. UNCHANGED <<assigned, first, mem>> /\ \E l : At(t, "rtip", l)
      BY <1>1 DEF RecoverFetch
    <2>2. Remembers
      BY <2>1 DEF Remembers
    <2> QED BY <1>a, <2>1, <2>2, FreeScan
  <1>2. CASE RecoverTip(t)
    <2>1. PICK f \in loc[t].found :
            mem' = Push(mem, f) /\ \E label \in {"credits", "idle"} : \E l : At(t, label, l)
      BY <1>2 DEF RecoverTip
    <2>2. f \in Found /\ UNCHANGED <<assigned, first>>
      BY <1>0, <1>2 DEF RecoverTip
    <2>3. Remembers /\ mem'.cursor = mem.cursor
      BY <1>0, <2>1, <2>2, PushKnown, PushEffect DEF Remembers
    <2> QED BY <1>a, <2>1, <2>2, <2>3, FreeScan
  <1> QED BY <1>1, <1>2 DEF RecoverStep

----------------------------------------------------------------------------
(* The scan, while the cursors stand *)

\* A task leaves the source, or the scan, and no cursor moves.
LEMMA LeaveSteady ==
    ASSUME Inv, TypeInv', Calm, Remembers, UNCHANGED <<assigned, first>>,
           mem'.cursor = mem.cursor, NEW t \in Tasks, pc[t] \in ScanLabels, LeaveKind(t)
    PROVE  ScanInv'
  BY LeaveScanTask, SteadyScan

LEMMA CycleScan ==
    ASSUME Inv, TypeInv', Calm, NEW t \in Tasks,
           CycleTip(t) \/ ReadReservations(t) \/ Maintain(t)
    PROVE  ScanInv'
  <1>0. TypeInv /\ loc[t] \in Locals /\ UNCHANGED at
    BY DEF Inv, TypeInv, TypeOK, Calm, chainVars
  <1>1. /\ UNCHANGED <<assigned, first, mem>>
        /\ \/ \E label \in {"credits", "idle"} : \E l : At(t, label, l)
           \/ At(t, "scan", [loc[t] EXCEPT !.watched = assigned])
    BY DEF CycleTip, ReadReservations, Maintain
  <1>2. Remembers /\ mem'.cursor = mem.cursor
    BY <1>1 DEF Remembers
  <1>3. CASE \E label \in {"credits", "idle"} : \E l : At(t, label, l)
    <2>1. \A label \in {"credits", "idle"} : label \notin ScanLabels \cup {"scan", "remove"}
      BY DEF ScanLabels
    <2> QED BY <1>1, <1>2, <1>3, <2>1, FreeScan
  <1>4. CASE At(t, "scan", [loc[t] EXCEPT !.watched = assigned])
    <2> DEFINE l == [loc[t] EXCEPT !.watched = assigned]
    <2>1. l.watched = assigned
      BY <1>0 DEF Locals
    <2>2. At(t, "scan", l)
      BY <1>4
    <2> HIDE DEF l
    <2>3. pc'[t] = "scan" /\ loc'[t] = l
      BY <1>0, <2>2 DEF At, Goto, Set, TypeInv, TypeOK
    <2>4. WatchInv(t)'
      BY <1>0, <2>1, <2>3 DEF WatchInv, Inv, ScanInv, AssignedInv
    <2>5. TaskScan(t)' /\ "scan" \notin ScanLabels
      BY <2>3, <2>4 DEF TaskScan, ChunkInv, SeenInv, DoneInv, ScanLabels, ChunkLabels
    <2> QED BY <1>1, <1>2, <2>2, <2>5, SteadyScan
  <1> QED BY <1>1, <1>3, <1>4

LEMMA StartScan ==
    ASSUME Inv, TypeInv', Calm, NEW t \in Tasks, StartSource(t)
    PROVE  ScanInv'
  <1> DEFINE safe == SafeBlock(loc[t].tip)
             from == From(mem, loc[t].kind, safe)
             l == [loc[t] EXCEPT !.next = from, !.end = End(from, safe)]
  <1>0. /\ TypeInv /\ loc[t] \in Locals /\ mem \in Store /\ first \in Int
        /\ loc[t].kind \in Kinds /\ safe \in Nat /\ TaskScan(t)
        /\ UNCHANGED <<best, at, ok, idx>>
    BY SafeBlockType DEF Inv, ScanInv, TypeInv, TypeOK, Locals, Calm, chainVars
  <1>1. /\ UNCHANGED <<assigned, first, mem>> /\ pc[t] = "source" /\ loc[t].kind \in Sources
        /\ LeaveKind(t) \/ At(t, "fetch", l)
    BY DEF StartSource
  <1>2. Remembers /\ mem'.cursor = mem.cursor /\ pc[t] \in ScanLabels
    BY <1>1 DEF Remembers, ScanLabels
  <1>3. from \in Nat /\ End(from, safe) <= safe
    BY <1>0, CursorType
  <1>4. from - 1 <= Higher(first, mem.cursor[loc[t].kind])
    <2>1. mem.cursor[loc[t].kind] \in Int
      BY <1>0 DEF Store, NoBlock
    <2>2. mem.cursor[loc[t].kind] = NoBlock => StartBlock # NoBlock /\ first = StartBlock - 1
      BY <1>0, <1>2 DEF Inv, ScanInv, FirstInv, FirstOf
    <2>3. StartBlock \in Int
      BY BoundAssumption DEF NoBlock
    <2> HIDE DEF safe
    <2> QED BY <1>0, <2>1, <2>2, <2>3 DEF From, Higher
  <1>5. /\ l.next = from /\ l.end = End(from, safe) /\ l.kind = loc[t].kind
        /\ l.tip = loc[t].tip /\ l.watched = loc[t].watched
    <2> HIDE DEF from, safe
    <2> QED BY <1>0 DEF Locals
  <1>6. CASE At(t, "fetch", l)
    <2> HIDE DEF l, from
    <2>1. pc'[t] = "fetch" /\ loc'[t] = l
      BY <1>0, <1>6 DEF At, Goto, Set, TypeInv, TypeOK
    <2>2. WatchInv(t)'
      BY <1>0, <1>2, <1>5, <2>1 DEF TaskScan, WatchInv
    <2>3. ChunkInv(t)'
      BY <1>1, <1>2, <1>3, <1>4, <1>5, <2>1 DEF ChunkInv
    <2>4. TaskScan(t)'
      BY <2>1, <2>2, <2>3 DEF TaskScan, SeenInv, DoneInv
    <2> QED BY <1>1, <1>2, <1>6, <2>4, SteadyScan
  <1>7. CASE LeaveKind(t)
    BY <1>1, <1>2, <1>7, LeaveSteady
  <1> QED BY <1>1, <1>6, <1>7

\* The payments of a chunk go to watched addresses, so the fetch sees them.
LEMMA ChunkSeen ==
    ASSUME TypeInv, NEW t \in Tasks, TaskScan(t), pc[t] = "fetch",
           NEW p \in Payments \ TopUps, InChunk(t, p), ~Known(mem, Id(p))
    PROVE  \E f \in New(mem, Seen(loc[t])) : f.id = Id(p)
  <1>0. /\ loc[t] \in Locals /\ loc[t].tip \in Nat /\ loc[t].end \in Nat
        /\ loc[t].next \in Nat /\ at[p] \in Nat
    BY DEF TypeInv, TypeOK, Locals
  <1>1. ChunkEnd(loc[t]) \in Nat /\ ChunkEnd(loc[t]) <= loc[t].end
    BY <1>0, ChunkType
  <1>2. SafeBlock(loc[t].tip) \in Nat /\ loc[t].end <= SafeBlock(loc[t].tip)
    BY <1>0, SafeBlockType DEF TaskScan, ChunkInv, ChunkLabels
  <1>3. AddrOf[p] \in loc[t].watched
    BY <1>0, <1>1, <1>2 DEF InChunk, TaskScan, WatchInv, ScanLabels
  <1>4. at[p] \in loc[t].next .. ChunkEnd(loc[t])
    BY <1>0, <1>1 DEF InChunk
  <1>5. [id |-> Id(p), height |-> at[p]] \in Seen(loc[t])
    BY <1>3, <1>4 DEF Seen, InChunk, IsTopUp
  <1> QED BY <1>5 DEF New

LEMMA FetchScan ==
    ASSUME Inv, TypeInv', Calm, NEW t \in Tasks, Fetch(t)
    PROVE  ScanInv'
  <1>0. /\ TypeInv /\ loc[t] \in Locals /\ TaskScan(t) /\ UNCHANGED <<best, at, ok, idx>>
        /\ \A p \in Payments : Id(p)' = Id(p)
    BY DEF Inv, ScanInv, TypeInv, TypeOK, Calm, chainVars, Id
  <1>1. UNCHANGED <<assigned, first, mem>> /\ pc[t] = "fetch"
    BY DEF Fetch
  <1>2. Remembers /\ mem'.cursor = mem.cursor /\ pc[t] \in ScanLabels \cap ChunkLabels
    BY <1>1 DEF Remembers, ScanLabels, ChunkLabels
  <1>3. CASE LeaveKind(t)
    BY <1>1, <1>2, <1>3, LeaveSteady
  <1> DEFINE new == New(mem, Seen(loc[t]))
  <1> HIDE DEF new
  <1>4. ASSUME NEW label \in {"enqueue", "advance"}, NEW l, At(t, label, l),
               l.next = loc[t].next, l.end = loc[t].end, l.kind = loc[t].kind,
               l.tip = loc[t].tip, l.watched = loc[t].watched,
               l.partial \/ l.found = new, label = "advance" => new = {}
        PROVE  ScanInv'
    <2>1. pc'[t] = label /\ loc'[t] = l
      BY <1>0, <1>4 DEF At, Goto, Set, TypeInv, TypeOK
    <2>2. WatchInv(t)' /\ ChunkInv(t)' /\ DoneInv(t)'
      BY <1>0, <1>1, <1>2, <1>4, <2>1 DEF TaskScan, WatchInv, ChunkInv, DoneInv
    <2>3. SeenInv(t)'
      <3> SUFFICES ASSUME NEW p \in Payments \ TopUps, InChunk(t, p)', ~Known(mem', Id(p))
                   PROVE  label = "enqueue" /\ (l.partial \/ \E f \in l.found : f.id = Id(p))
        BY <1>0, <2>1 DEF SeenInv
      <3>1. ChunkEnd(loc'[t]) = ChunkEnd(loc[t])
        BY <1>4, <2>1 DEF ChunkEnd
      <3>2. InChunk(t, p)
        BY <1>0, <1>4, <2>1, <3>1 DEF InChunk
      <3>3. \E f \in new : f.id = Id(p)
        BY <1>0, <1>1, <3>2, ChunkSeen DEF new
      <3> QED BY <1>4, <3>3
    <2>4. TaskScan(t)'
      BY <2>2, <2>3 DEF TaskScan
    <2> QED BY <1>1, <1>2, <1>4, <2>4, SteadyScan
  <1>5. \/ new = {} /\ At(t, "advance", [loc[t] EXCEPT !.found = new])
        \/ At(t, "enqueue", [loc[t] EXCEPT !.found = new])
        \/ LeaveKind(t)
        \/ \E A : At(t, "enqueue", [loc[t] EXCEPT !.partial = TRUE,
                                  !.found = {f \in new : AddrOf[f.id[1]] \in A}])
    BY DEF Fetch, new
  <1>6. ASSUME NEW label \in {"enqueue", "advance"}, At(t, label, [loc[t] EXCEPT !.found = new]),
               label = "advance" => new = {}
        PROVE  ScanInv'
    <2> DEFINE l == [loc[t] EXCEPT !.found = new]
    <2>1. /\ l.next = loc[t].next /\ l.end = loc[t].end /\ l.kind = loc[t].kind
          /\ l.tip = loc[t].tip /\ l.watched = loc[t].watched /\ l.found = new
      BY <1>0 DEF Locals
    <2>2. At(t, label, l)
      BY <1>6
    <2> HIDE DEF l
    <2> QED BY <1>4, <1>6, <2>1, <2>2
  <1>7. ASSUME NEW A, At(t, "enqueue", [loc[t] EXCEPT !.partial = TRUE,
                                  !.found = {f \in new : AddrOf[f.id[1]] \in A}])
        PROVE  ScanInv'
    <2> DEFINE F == {f \in new : AddrOf[f.id[1]] \in A}
               l == [loc[t] EXCEPT !.partial = TRUE, !.found = F]
    <2>1. /\ l.next = loc[t].next /\ l.end = loc[t].end /\ l.kind = loc[t].kind
          /\ l.tip = loc[t].tip /\ l.watched = loc[t].watched /\ l.partial
      <3> HIDE DEF F
      <3> QED BY <1>0 DEF Locals
    <2>2. At(t, "enqueue", l)
      BY <1>7
    <2> HIDE DEF l
    <2> QED BY <1>4, <2>1, <2>2
  <1> QED BY <1>3, <1>5, <1>6, <1>7

LEMMA EnqueueScan ==
    ASSUME Inv, TypeInv', Calm, NEW t \in Tasks, Enqueue(t)
    PROVE  ScanInv'
  <1>0. /\ TypeInv /\ loc[t] \in Locals /\ TaskScan(t) /\ UNCHANGED <<best, at, ok, idx>>
        /\ \A p \in Payments : Id(p)' = Id(p) /\ Id(p) \in EventIds
        /\ mem \in Store /\ loc[t].found \subseteq Found
    BY IdType DEF Inv, ScanInv, TypeInv, TypeOK, Calm, chainVars, Id, Locals
  <1>1. UNCHANGED <<assigned, first>> /\ pc[t] = "enqueue" /\ pc[t] \in ScanLabels \cap ChunkLabels
    BY DEF Enqueue, ScanLabels, ChunkLabels
  <1>2. PICK f \in loc[t].found :
          LET rest == loc[t].found \ {f}
              l == [loc[t] EXCEPT !.found = rest]
          IN /\ mem' = Push(mem, f)
             /\ \/ LeaveKind(t)
                \/ /\ ~(rest = {} /\ l.partial)
                   /\ At(t, IF rest = {} THEN "advance" ELSE "enqueue", l)
    BY DEF Enqueue
  <1> DEFINE rest == loc[t].found \ {f}
             l == [loc[t] EXCEPT !.found = rest]
             label == IF rest = {} THEN "advance" ELSE "enqueue"
  <1>3. f \in Found /\ mem' = Push(mem, f)
    BY <1>0, <1>2
  <1>4. Remembers /\ mem'.cursor = mem.cursor /\ Known(mem', f.id)
    BY <1>0, <1>3, PushKnown, PushEffect DEF Remembers
  <1>5. CASE LeaveKind(t)
    BY <1>1, <1>4, <1>5, LeaveSteady
  <1>6. CASE ~LeaveKind(t)
    <2>1. At(t, label, l) /\ ~(rest = {} /\ l.partial)
      BY <1>2, <1>6
    <2>2. /\ l.next = loc[t].next /\ l.end = loc[t].end /\ l.kind = loc[t].kind
          /\ l.tip = loc[t].tip /\ l.watched = loc[t].watched
          /\ l.found = rest /\ l.partial = loc[t].partial
      <3> HIDE DEF rest
      <3> QED BY <1>0 DEF Locals
    <2>3. label \in {"advance", "enqueue"} /\ (rest # {} => label = "enqueue")
      OBVIOUS
    <2> HIDE DEF l, label
    <2>4. pc'[t] = label /\ loc'[t] = l
      BY <1>0, <2>1 DEF At, Goto, Set, TypeInv, TypeOK
    <2>5. WatchInv(t)' /\ ChunkInv(t)' /\ DoneInv(t)'
      BY <1>0, <1>1, <1>4, <2>2, <2>3, <2>4 DEF TaskScan, WatchInv, ChunkInv, DoneInv
    <2>6. SeenInv(t)'
      <3> SUFFICES ASSUME NEW p \in Payments \ TopUps, InChunk(t, p)', ~Known(mem', Id(p))
                   PROVE  label = "enqueue" /\ (loc[t].partial \/ \E g \in rest : g.id = Id(p))
        BY <1>0, <2>2, <2>4 DEF SeenInv
      <3>1. ChunkEnd(loc'[t]) = ChunkEnd(loc[t])
        BY <2>2, <2>4 DEF ChunkEnd
      <3>2. InChunk(t, p)
        BY <1>0, <2>2, <2>4, <3>1 DEF InChunk
      <3>3. loc[t].partial \/ \E g \in loc[t].found : g.id = Id(p)
        BY <1>0, <1>1, <1>4, <3>2 DEF TaskScan, SeenInv, Remembers
      <3>4. loc[t].partial => rest # {}
        BY <2>1, <2>2
      <3> QED BY <1>4, <2>3, <3>3, <3>4
    <2>7. TaskScan(t)'
      BY <2>5, <2>6 DEF TaskScan
    <2> QED BY <1>1, <1>4, <2>1, <2>7, SteadyScan
  <1> QED BY <1>5, <1>6

----------------------------------------------------------------------------
(* The scan, where the cursors move *)

\* The cursors' first values: scanning begins after them.
LEMMA LockScan ==
    ASSUME Inv, TypeInv', Calm, NEW t \in Tasks, ScanLock(t)
    PROVE  ScanInv'
  <1> DEFINE safe == SafeBlock(loc[t].tip)
  <1>0. /\ TypeInv /\ TaskScan(t) /\ UNCHANGED <<best, at, ok, idx>>
        /\ mem \in Store /\ safe \in Nat /\ SafeBlock(best) \in Nat /\ first \in Int
        /\ first' \in Int
        /\ \A k \in Kinds : mem.cursor[k] \in Nat \cup {NoBlock}
        /\ \A p \in Payments : KindOf[p] \in Kinds /\ at[p] \in Nat
    BY SafeBlockType, Constants
       DEF Inv, ScanInv, TypeInv, TypeOK, Locals, Store, Calm, chainVars
  <1> HIDE DEF safe
  <1>1. /\ mem' = WithCursors(mem, safe)
        /\ first' = IF Started(mem) THEN first
                    ELSE IF InitialCursor(safe) = NoBlock THEN StartBlock - 1
                    ELSE InitialCursor(safe)
        /\ pc[t] = "scan" /\ UNCHANGED assigned
        /\ At(t, "source", loc[t]) \/ LeaveScan(t)
    BY DEF ScanLock, safe
  <1>2. /\ \A k \in Kinds : mem'.cursor[k]
                              = IF Started(mem) THEN mem.cursor[k] ELSE InitialCursor(safe)
        /\ mem'.pending = mem.pending /\ mem'.credited = mem.credited
        /\ mem'.ignored = mem.ignored
    BY <1>0, <1>1, WithCursorsEffect
  <1>3. /\ InitialCursor(safe) \in Nat \cup {NoBlock}
        /\ InitialCursor(safe) = NoBlock => LastScanned = NoBlock /\ StartBlock # NoBlock
        /\ LastScanned = NoBlock /\ StartBlock # NoBlock => InitialCursor(safe) = NoBlock
    BY <1>0, BoundAssumption DEF InitialCursor, NoBlock
  <1>4. Remembers
    BY <1>2, CursorKnown DEF Remembers
  <1>5. FirstOf(mem) => first' = first
    <2>1. ~Started(mem) => mem.cursor["native"] = NoBlock
      BY Constants DEF Started
    <2> QED BY <1>1, <1>3, <2>1, Constants DEF FirstOf
  <1>6. FirstOf(mem)'
    <2>1. CASE Started(mem)
      BY <1>1, <1>2, <2>1 DEF Inv, ScanInv, FirstInv, FirstOf
    <2>2. CASE ~Started(mem)
      BY <1>1, <1>2, <1>3, <2>2 DEF FirstOf
    <2> QED BY <2>1, <2>2
  <1>7. HeightInv'
    <2>1. CASE Started(mem)
      BY <1>0, <1>1, <1>2, <2>1 DEF Inv, ScanInv, HeightInv
    <2>2. CASE ~Started(mem)
      <3>1. InitialCursor(safe) <= Higher(first', SafeBlock(best))
        BY <1>0, <1>1, <1>3, <2>2 DEF Higher, NoBlock
      <3> QED BY <1>0, <1>2, <2>2, <3>1 DEF HeightInv
    <2> QED BY <2>1, <2>2
  <1>8. Tracked(mem)'
    <2>1. CASE Started(mem)
      BY <1>0, <1>1, <1>2, <2>1, CursorKnown DEF Inv, ScanInv, NoPaymentSkipped, Tracked, Id
    <2>2. CASE ~Started(mem)
      <3> SUFFICES ASSUME NEW p \in Payments, at[p] > first', at[p] > 0,
                          at[p] <= mem'.cursor[KindOf[p]]
                   PROVE  FALSE
        BY <1>0 DEF Tracked
      <3>1. mem'.cursor[KindOf[p]] = InitialCursor(safe)
        BY <1>0, <1>2, <2>2
      <3> QED BY <1>0, <1>1, <1>3, <2>2, <3>1 DEF NoBlock
    <2> QED BY <2>1, <2>2
  <1>9. CASE At(t, "source", loc[t])
    <2>1. pc'[t] = "source" /\ loc'[t] = loc[t]
      BY <1>0, <1>9 DEF At, Goto, Set, TypeInv, TypeOK
    <2>2. TaskScan(t)'
      BY <1>0, <1>1, <2>1 DEF TaskScan, WatchInv, ChunkInv, SeenInv, DoneInv, ChunkLabels
    <2> QED BY <1>1, <1>4, <1>5, <1>6, <1>7, <1>8, <1>9, <2>2, StepScan
  <1>10. CASE LeaveScan(t)
    BY <1>1, <1>4, <1>5, <1>6, <1>7, <1>8, <1>10, LeaveScanTask, StepScan
  <1> QED BY <1>1, <1>9, <1>10

\* The payments that task t's source passes with its cursor at block n.
PassedKnown(t, n) ==
    \A p \in Payments \ TopUps :
        (/\ KindOf[p] = loc[t].kind /\ KindOf[p] \in Sources
         /\ at[p] > first /\ at[p] > 0 /\ ok[p]
         /\ at[p] > mem.cursor[KindOf[p]] /\ at[p] <= n) => Known(mem, Id(p))

\* A cursor may follow to block n if what it passes is known.
LEMMA CursorMoves ==
    ASSUME Inv, TypeInv', Calm, UNCHANGED <<assigned, first>>,
           NEW t \in Tasks, pc[t] \in ScanLabels, NEW n \in Nat,
           mem' = SetCursor(mem, loc[t].kind, n), n <= SafeBlock(loc[t].tip),
           PassedKnown(t, n),
           NEW label, NEW l, At(t, label, l), TaskScan(t)'
    PROVE  ScanInv'
  <1>0. /\ TypeInv /\ UNCHANGED <<best, at, ok, idx>> /\ mem \in Store /\ loc[t].kind \in Kinds
        /\ loc[t].tip \in Nat /\ best \in Nat /\ loc[t].tip <= best /\ first \in Int
        /\ \A k \in Kinds : mem.cursor[k] \in Int
        /\ \A p \in Payments : KindOf[p] \in Kinds /\ at[p] \in Nat
    BY Constants DEF Inv, TypeInv, TypeOK, Calm, chainVars, Locals, Store, NoBlock, OutboxInv, TaskInv
  <1>1. /\ mem'.pending = mem.pending /\ mem'.credited = mem.credited
        /\ mem'.ignored = mem.ignored
        /\ \A k \in Kinds : mem'.cursor[k] = IF k = loc[t].kind THEN Higher(mem.cursor[k], n)
                                                              ELSE mem.cursor[k]
    <2>1. /\ mem'.pending = mem.pending /\ mem'.credited = mem.credited
          /\ mem'.ignored = mem.ignored
          /\ mem'.cursor = [mem.cursor EXCEPT ![loc[t].kind] = Higher(@, n)]
      BY <1>0, SetCursorEffect
    <2> QED BY <1>0, <2>1 DEF Store
  <1>2. Remembers
    BY <1>1, CursorKnown DEF Remembers
  <1>3. FirstOf(mem)'
    BY <1>0, FirstKept DEF Inv, ScanInv, FirstInv
  <1>4. HeightInv'
    <2>1. SafeBlock(loc[t].tip) \in Nat /\ SafeBlock(best) \in Nat
      BY <1>0, SafeBlockType
    <2>2. n <= SafeBlock(best)
      BY <1>0, <2>1, SafeBlockMonotone
    <2>3. \A k \in Kinds : mem.cursor[k] <= Higher(first, SafeBlock(best))
      BY DEF Inv, ScanInv, HeightInv
    <2>4. \A k \in Kinds : mem'.cursor[k] <= Higher(first, SafeBlock(best))
      BY <1>0, <1>1, <2>1, <2>2, <2>3 DEF Higher
    <2> QED BY <1>0, <2>4 DEF HeightInv
  <1>5. Tracked(mem)'
    <2> SUFFICES ASSUME NEW p \in Payments \ TopUps, KindOf[p] \in Sources,
                        at[p] > first, at[p] > 0, ok[p], at[p] <= mem'.cursor[KindOf[p]]
                 PROVE  Known(mem, Id(p))
      BY <1>0, <1>1, CursorKnown DEF Tracked, Id
    <2>1. CASE at[p] <= mem.cursor[KindOf[p]]
      BY <2>1 DEF Inv, ScanInv, NoPaymentSkipped, Tracked
    <2>2. CASE at[p] > mem.cursor[KindOf[p]]
      <3>1. KindOf[p] = loc[t].kind /\ at[p] <= n
        BY <1>0, <1>1, <2>2 DEF Higher
      <3> QED BY <2>2, <3>1 DEF PassedKnown
    <2> QED BY <1>0, <2>1, <2>2
  <1> QED BY <1>2, <1>3, <1>4, <1>5, StepScan

\* A source without addresses to look for has nothing below the safe block.
LEMMA SkipScan ==
    ASSUME Inv, TypeInv', Calm, NEW t \in Tasks, SkipSource(t)
    PROVE  ScanInv'
  <1> DEFINE n == SafeBlock(loc[t].tip)
  <1>0. /\ TypeInv /\ TaskScan(t) /\ n \in Nat /\ \A p \in Payments : at[p] \in Nat
    BY SafeBlockType DEF Inv, ScanInv, TypeInv, TypeOK, Locals
  <1> HIDE DEF n
  <1>1. /\ mem' = SetCursor(mem, loc[t].kind, n) /\ UNCHANGED <<assigned, first>>
        /\ loc[t].watched = {} \/ loc[t].kind \notin Sources
        /\ LeaveKind(t) \/ LeaveScan(t)
        /\ pc[t] \in ScanLabels
    BY DEF SkipSource, ScanLabels, n
  <1>2. /\ TaskScan(t)' /\ \E label, l : At(t, label, l)
    BY <1>1, LeaveScanTask
  <1>3. \A p \in Payments : KindOf[p] = loc[t].kind /\ KindOf[p] \in Sources /\ at[p] > 0 => at[p] > n
    BY <1>0, <1>1 DEF TaskScan, WatchInv, n
  <1>4. n <= SafeBlock(loc[t].tip) /\ PassedKnown(t, n)
    BY <1>0, <1>3 DEF n, PassedKnown
  <1> QED BY <1>0, <1>1, <1>2, <1>4, CursorMoves

LEMMA AdvanceScan ==
    ASSUME Inv, TypeInv', Calm, NEW t \in Tasks, Advance(t)
    PROVE  ScanInv'
  <1> DEFINE to == ChunkEnd(loc[t])
  <1>0. /\ TypeInv /\ TaskScan(t) /\ loc[t] \in Locals /\ to \in Nat /\ to <= loc[t].end
        /\ loc[t].kind \in Kinds /\ mem \in Store /\ first \in Int
        /\ mem.cursor[loc[t].kind] \in Int /\ loc[t].next \in Nat /\ loc[t].end \in Nat
        /\ SafeBlock(loc[t].tip) \in Nat
        /\ UNCHANGED <<best, at, ok, idx>>
        /\ \A p \in Payments : at[p] \in Nat
    BY ChunkType, SafeBlockType
       DEF Inv, ScanInv, TypeInv, TypeOK, Locals, Store, NoBlock, Calm, chainVars
  <1> HIDE DEF to
  <1>1. /\ mem' = SetCursor(mem, loc[t].kind, to) /\ UNCHANGED <<assigned, first>>
        /\ LeaveKind(t) \/ At(t, "fetch", [loc[t] EXCEPT !.next = to + 1])
        /\ pc[t] = "advance" /\ pc[t] \in ScanLabels \cap ChunkLabels
    BY DEF Advance, ScanLabels, ChunkLabels, to
  <1>2. /\ loc[t].kind \in Sources /\ loc[t].end <= SafeBlock(loc[t].tip)
        /\ loc[t].next - 1 <= Higher(first, mem.cursor[loc[t].kind])
    BY <1>0, <1>1 DEF TaskScan, ChunkInv
  <1>3. to <= SafeBlock(loc[t].tip)
    BY <1>0, <1>2
  <1>4. PassedKnown(t, to)
    <2> SUFFICES ASSUME NEW p \in Payments \ TopUps, KindOf[p] = loc[t].kind, at[p] > first,
                        at[p] > 0, ok[p], at[p] > mem.cursor[KindOf[p]], at[p] <= to
                 PROVE  Known(mem, Id(p))
      BY DEF PassedKnown
    <2>1. loc[t].next <= at[p]
      BY <1>0, <1>2 DEF Higher
    <2>2. InChunk(t, p)
      BY <2>1 DEF InChunk, to
    <2> QED BY <1>0, <1>1, <2>2 DEF TaskScan, SeenInv
  <1>5. CASE LeaveKind(t)
    <2>1. TaskScan(t)' /\ \E label, l : At(t, label, l)
      BY <1>1, <1>5, LeaveScanTask
    <2> QED BY <1>0, <1>1, <1>3, <1>4, <2>1, CursorMoves
  <1>6. CASE At(t, "fetch", [loc[t] EXCEPT !.next = to + 1])
    <2> DEFINE l == [loc[t] EXCEPT !.next = to + 1]
    <2>1. /\ l.next = to + 1 /\ l.end = loc[t].end /\ l.kind = loc[t].kind
          /\ l.tip = loc[t].tip /\ l.watched = loc[t].watched
      BY <1>0 DEF Locals
    <2>2. At(t, "fetch", l)
      BY <1>6
    <2> HIDE DEF l
    <2>3. pc'[t] = "fetch" /\ loc'[t] = l
      BY <1>0, <2>2 DEF At, Goto, Set, TypeInv, TypeOK
    <2>4. mem'.cursor[loc[t].kind] = Higher(mem.cursor[loc[t].kind], to)
      <3>1. mem'.cursor = [mem.cursor EXCEPT ![loc[t].kind] = Higher(@, to)]
        BY <1>0, <1>1, SetCursorEffect
      <3> QED BY <1>0, <3>1 DEF Store
    <2>5. to <= Higher(first', mem'.cursor[loc[t].kind])
      BY <1>0, <1>1, <2>4 DEF Higher
    <2>6. ChunkInv(t)'
      BY <1>0, <1>2, <2>1, <2>3, <2>5 DEF ChunkInv
    <2>7. WatchInv(t)'
      BY <1>0, <1>1, <2>1, <2>3 DEF TaskScan, WatchInv
    <2>8. TaskScan(t)'
      BY <2>3, <2>6, <2>7 DEF TaskScan, SeenInv, DoneInv
    <2> QED BY <1>0, <1>1, <1>3, <1>4, <2>2, <2>8, CursorMoves
  <1> QED BY <1>1, <1>5, <1>6

----------------------------------------------------------------------------
(* The theorem *)

LEMMA ScanStep == Inv /\ [Next]_vars => ScanInv'
  <1> SUFFICES ASSUME Inv, [Next]_vars PROVE ScanInv'
    OBVIOUS
  <1>0. TypeInv /\ TypeInv' /\ OutboxInv /\ \A t \in Tasks : loc[t].tip <= best
    BY TypeStep DEF Inv, OutboxInv, TaskInv
  <1>1. CASE Mine \/ Reorg \/ Assign \/ Crash
    BY <1>0, <1>1, ChainScan, RestScan
  <1>2. ASSUME NEW t \in Tasks, CycleStep(t) PROVE ScanInv'
    <2>1. Calm
      BY <1>0, <1>2, CycleQuiet, ChunkQuiet DEF CycleStep
    <2> QED BY <1>0, <1>2, <2>1, CycleScan, LockScan, SkipScan, StartScan, FetchScan,
               EnqueueScan, AdvanceScan DEF CycleStep
  <1>3. ASSUME NEW t \in Tasks, CreditStep(t) PROVE ScanInv'
    <2>1. Calm
      BY <1>0, <1>3, CreditsQuiet, ReceiptOutbox, OriginOutbox, DeliveryOutbox DEF CreditStep
    <2> QED BY <1>0, <1>3, <2>1, QueueScan
  <1>4. ASSUME NEW t \in Callers, RecoverStep(t) PROVE ScanInv'
    <2>1. t \in Tasks
      BY DEF Tasks
    <2> QED BY <1>0, <1>4, <2>1, RecoverQuiet, RecoverScan
  <1>5. CASE UNCHANGED vars
    <2>1. UNCHANGED <<best, at, ok, idx, assigned, first, mem, disk, pc, loc>>
      BY <1>5 DEF vars, chainVars
    <2>2. AssignedInv' /\ HeightInv' /\ FirstInv' /\ NoPaymentSkipped'
      BY <2>1 DEF Inv, ScanInv, AssignedInv, HeightInv, FirstInv, FirstOf, Started,
                  NoPaymentSkipped, Tracked, Id
    <2>3. \A t \in Tasks : TaskScan(t)'
      BY <2>1 DEF Inv, ScanInv, TaskScan, WatchInv, ChunkInv, SeenInv, DoneInv, InChunk, Id
    <2> QED BY <2>2, <2>3 DEF ScanInv
  <1> QED BY <1>1, <1>2, <1>3, <1>4, <1>5 DEF Next

\* No deposit is passed over: below its source's cursor a payment is queued,
\* credited or ignored, in memory and in the state file, for every chunk size,
\* start block and confirmation depth, whatever fails and whoever scans.
THEOREM NothingSkipped == Spec => []NoPaymentSkipped
  <1>1. Init => Inv
    BY TypeInit, OutboxInit, ScanInit DEF Inv
  <1>2. Inv /\ [Next]_vars => Inv'
    BY TypeStep, OutboxStep, ScanStep DEF Inv
  <1>3. Inv => NoPaymentSkipped
    BY DEF Inv, ScanInv
  <1> QED BY <1>1, <1>2, <1>3, PTL DEF Spec

==============================================================================
