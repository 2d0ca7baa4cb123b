------------------------- MODULE UtxoDetectorProofs -------------------------
(***************************************************************************)
(* Proofs about UtxoDetector for every set of deposits, every number of    *)
(* concurrent recoveries, every bound and every configuration.             *)
(***************************************************************************)
EXTENDS UtxoDetector, TLAPS

\* Where a task is at work on one entry of the queue.
EntryLabels == {"detect", "notified", "sweep", "credit", "record", "remove"}

\* The reorg walk stays above height 0, and a task at work has an entry.
DepthInv == \A t \in Tasks : loc[t].depth = 0 \/ loc[t].depth < loc[t].cur
EntryInv == \A t \in Tasks : pc[t] \in EntryLabels => loc[t].entry \in Entry

TypeInv == TypeOK /\ DepthInv /\ EntryInv

----------------------------------------------------------------------------
(* The helpers keep the types. *)

USE DEF NoHeight, NoHash, Tasks, Heights, LockFree, Acknowledged

LEMMA EntrySubset == Store(Entry) \subseteq Store(FileEntry)
  BY DEF Store, Entry, FileEntry

LEMMA LoadStateType ==
    ASSUME NEW s \in Store(FileEntry)
    PROVE  LoadState(s) \in Store(Entry)
  <1>1. \A e \in s.pending :
          [e EXCEPT !.id = IF @ = NoId THEN TxOf[e.dep] ELSE @] \in Entry
    BY IdAssumption DEF Store, FileEntry, Entry, EventIds
  <1> QED BY <1>1 DEF Store, LoadState

LEMMA EnqueueType ==
    ASSUME NEW s \in Store(Entry), NEW deps \in SUBSET Deposits, NEW h \in Nat
    PROVE  Enqueue(s, deps, h) \in Store(Entry)
  <1>1. \A d \in Fresh(s, deps) :
          [dep |-> d, id |-> d, height |-> h, notified |-> FALSE] \in Entry
    BY DEF Fresh, Entry, EventIds
  <1> QED BY <1>1 DEF Store, Enqueue

LEMMA NotifiedType ==
    ASSUME NEW s \in Store(Entry), NEW id, NEW r \in NotifiedStores(s, id)
    PROVE  r \in Store(Entry)
  <1>1. \A e \in s.pending : [e EXCEPT !.notified = TRUE] \in Entry
    BY DEF Store, Entry
  <1> QED BY <1>1 DEF Store, NotifiedStores

LEMMA CreditType ==
    ASSUME NEW s \in Store(Entry), NEW id \in EventIds
    PROVE  /\ MarkCredited(s, id) \in Store(Entry)
           /\ DropEntry(s, id) \in Store(Entry)
  BY DEF Store, MarkCredited, DropEntry

LEMMA RollBackType ==
    ASSUME NEW s \in Store(Entry), NEW from \in Nat, NEW cur \in Nat
    PROVE  RollBack(s, from, cur) \in Store(Entry)
  <1>1. from - 1 \in Nat \cup {NoHeight}
    OBVIOUS
  <1>2. [k \in Heights |-> IF k \in from .. cur - 1 THEN NoHash ELSE s.hashes[k]]
          \in [Heights -> Nat \cup {NoHash}]
    BY DEF Store
  <1>3. {e \in s.pending : e.height < from} \in SUBSET Entry
    BY DEF Store
  <1> QED BY <1>1, <1>2, <1>3 DEF Store, RollBack

LEMMA AdvanceType ==
    ASSUME NEW s \in Store(Entry), NEW h \in Nat, NEW era \in Nat
    PROVE  Advance(s, h, era) \in Store(Entry)
  BY BoundAssumption DEF Store, Advance

LEMMA InitLocalsType == InitLocals \in Locals
  BY DEF InitLocals, Locals, NoEntry

----------------------------------------------------------------------------
(* The type invariant *)

LEMMA TypeInit == Init => TypeInv
  <1> SUFFICES ASSUME Init PROVE TypeInv
    OBVIOUS
  <1>1. FirstFile \in Store(FileEntry)
    <2>1. \A d \in LegacyPending : LegacyEntry(d) \in FileEntry
      BY IdAssumption DEF LegacyEntry, FileEntry
    <2>2. NoHashes \in [Heights -> Nat \cup {NoHash}]
      BY DEF NoHashes
    <2> QED BY <2>1, <2>2, IdAssumption, BoundAssumption DEF FirstFile, Store, EventIds
  <1>2. mem \in Store(Entry) /\ disk \in Store(FileEntry)
    BY <1>1, LoadStateType DEF Init
  <1>3. blocks \in [Heights -> Block]
    BY IdAssumption DEF Init, Block, NoBlock
  <1>4. loc \in [Tasks -> Locals] /\ pc \in [Tasks -> Labels]
    BY InitLocalsType DEF Init, Labels
  <1>5. /\ best \in Heights /\ reorgs \in Nat /\ lock \in Tasks \cup {NoTask}
        /\ detected \subseteq EventIds /\ credits \in [EventIds -> Nat]
        /\ paid \subseteq Deposits /\ owed \subseteq Deposits
        /\ faults \in Nat /\ refusals \in Nat
    BY BoundAssumption DEF Init
  <1>6. DepthInv /\ EntryInv
    BY DEF Init, DepthInv, EntryInv, EntryLabels, InitLocals
  <1>7. first \in Nat \ {0} /\ unlinked \in BOOLEAN
    <2>1. mem.cursor \in Nat \cup {NoHeight}
      BY <1>2 DEF Store
    <2>2. FirstHeight \in Nat \ {0}
      BY <1>5, <2>1, BoundAssumption DEF FirstHeight
    <2>3. first = FirstHeight /\ unlinked = FALSE
      BY DEF Init
    <2> QED BY <2>2, <2>3
  <1> QED BY <1>2, <1>3, <1>4, <1>5, <1>6, <1>7 DEF TypeInv, TypeOK

\* What a step of task t needs to show: the others stand still.
LEMMA TaskStep ==
    ASSUME TypeInv, NEW t \in Tasks, NEW label \in Labels, NEW l \in Locals,
           Goto(t, label), SetLocals(t, l),
           label \in EntryLabels => l.entry \in Entry,
           l.depth = 0 \/ l.depth < l.cur
    PROVE  /\ pc' \in [Tasks -> Labels] /\ loc' \in [Tasks -> Locals]
           /\ DepthInv' /\ EntryInv'
  BY DEF TypeInv, TypeOK, Goto, SetLocals, DepthInv, EntryInv

\* A save leaves the file well typed.
LEMMA SaveType ==
    ASSUME TypeInv, mem' \in Store(Entry), NEW ok \in BOOLEAN, SaveState(ok)
    PROVE  disk' \in Store(FileEntry) /\ faults' \in Nat
  BY EntrySubset DEF TypeInv, TypeOK, SaveState, Fault

LEMMA ScanType ==
    ASSUME TypeInv, ScanStep
    PROVE  TypeInv'
  <1> USE DEF TypeInv
  <1> DEFINE L == loc[Scanner]
  <1>0. /\ Scanner \in Tasks /\ L \in Locals /\ mem \in Store(Entry)
        /\ best \in Nat /\ L.cur \in Nat /\ L.depth \in Nat
        /\ L.depth = 0 \/ L.depth < L.cur
    BY DEF TypeOK, Locals, DepthInv
  <1>1. CASE ScanStart
    <2>1. FirstHeight \in Nat /\ FirstHeight - 1 \in Nat \cup {NoHeight}
      BY <1>0, BoundAssumption DEF FirstHeight, TypeOK, Store
    <2>2. mem' \in Store(Entry)
      BY <1>0, <1>1, <2>1 DEF ScanStart, Store, NoHashes
    <2>3. PICK ok \in BOOLEAN :
            /\ IF SkipInitialSync THEN SaveState(ok) ELSE ok /\ UNCHANGED <<disk, faults>>
            /\ Goto(Scanner, IF ok THEN "tip" ELSE "start")
            /\ SetLocals(Scanner, IF ok THEN [InitLocals EXCEPT !.cur = FirstHeight] ELSE InitLocals)
      BY <1>1 DEF ScanStart
    <2>4. disk' \in Store(FileEntry) /\ faults' \in Nat
      BY <2>2, <2>3, SaveType DEF TypeOK
    <2> DEFINE l == IF ok THEN [InitLocals EXCEPT !.cur = FirstHeight] ELSE InitLocals
               label == IF ok THEN "tip" ELSE "start"
    <2>5. l \in Locals /\ l.depth = 0 /\ label \in Labels /\ label \notin EntryLabels
      BY <2>1, InitLocalsType DEF Locals, InitLocals, Labels, EntryLabels
    <2>6. /\ pc' \in [Tasks -> Labels] /\ loc' \in [Tasks -> Locals]
          /\ DepthInv' /\ EntryInv'
      <3> HIDE DEF l, label
      <3>1. Goto(Scanner, label) /\ SetLocals(Scanner, l)
        BY <2>3 DEF l, label
      <3> QED BY <1>0, <2>5, <3>1, TaskStep
    <2>7. first' \in Nat \ {0} /\ unlinked' \in BOOLEAN
      <3>1. FirstHeight \in Nat \ {0}
        BY <1>0, BoundAssumption DEF FirstHeight, TypeOK, Store
      <3> QED BY <1>1, <3>1 DEF ScanStart, TypeOK
    <2> QED BY <1>1, <2>2, <2>4, <2>6, <2>7 DEF ScanStart, TypeOK, chainVars, backendVars
  <1>2. CASE ScanTip
    <2> DEFINE l == [L EXCEPT !.tip = best, !.depth = 0]
               label == IF L.cur > best THEN "lock" ELSE "reorg"
    <2>1. l \in Locals /\ l.depth = 0 /\ label \in Labels /\ label \notin EntryLabels
      BY <1>0 DEF Locals, Labels, EntryLabels
    <2>2. Goto(Scanner, label) /\ SetLocals(Scanner, l)
      BY <1>2 DEF ScanTip
    <2> HIDE DEF l, label
    <2> QED BY <1>0, <1>2, <2>1, <2>2, TaskStep DEF ScanTip, TypeOK, chainVars, backendVars, scanVars
  <1>3. CASE ScanReorg
    <2> DEFINE l == [L EXCEPT !.depth = @ + 1]
               label == IF L.depth > 0 THEN "rollback" ELSE "fetch"
    <2>1. l \in Locals /\ label \in Labels /\ label \notin EntryLabels
      BY <1>0 DEF Locals, Labels, EntryLabels
    <2>2. \/ /\ SetLocals(Scanner, l) /\ UNCHANGED pc
             /\ L.cur - 1 - L.depth \in Heights
          \/ /\ Goto(Scanner, label) /\ UNCHANGED loc
      BY <1>3 DEF ScanReorg
    <2>3. /\ pc' \in [Tasks -> Labels] /\ loc' \in [Tasks -> Locals]
          /\ DepthInv' /\ EntryInv'
      <3>1. CASE SetLocals(Scanner, l) /\ UNCHANGED pc /\ L.cur - 1 - L.depth \in Heights
        <4>1. l.depth < l.cur /\ l.entry = L.entry
          BY <1>0, <3>1 DEF Locals
        <4> QED BY <1>0, <2>1, <3>1, <4>1 DEF TypeOK, SetLocals, DepthInv, EntryInv
      <3>2. CASE Goto(Scanner, label) /\ UNCHANGED loc
        BY <1>0, <2>1, <3>2 DEF TypeOK, Goto, DepthInv, EntryInv
      <3> QED BY <2>2, <3>1, <3>2
    <2>4. refusals' \in Nat
      BY <1>3 DEF ScanReorg, Refusal, TypeOK
    <2> QED BY <1>3, <2>3, <2>4 DEF ScanReorg, TypeOK, chainVars, backendVars, scanVars
  <1>4. CASE ScanRollback
    <2> DEFINE from == L.cur - L.depth
               l == [L EXCEPT !.cur = from, !.depth = 0]
    <2>1. from \in Nat
      BY <1>0
    <2>2. l \in Locals /\ l.depth = 0
      BY <1>0, <2>1 DEF Locals
    <2>3. Goto(Scanner, "reorg") /\ SetLocals(Scanner, l) /\ mem' = RollBack(mem, from, L.cur)
      BY <1>4 DEF ScanRollback
    <2>4. "reorg" \in Labels /\ "reorg" \notin EntryLabels
      BY DEF Labels, EntryLabels
    <2> HIDE DEF l, from
    <2>5. mem' \in Store(Entry)
      BY <1>0, <2>1, <2>3, RollBackType
    <2> QED BY <1>0, <1>4, <2>2, <2>3, <2>4, <2>5, TaskStep
            DEF ScanRollback, TypeOK, chainVars, backendVars, scanVars
  <1>5. CASE ScanFetch
    <2>1. PICK error \in BOOLEAN :
            /\ Refusal(error)
            /\ L.cur \notin Heights => error
            /\ IF error
               THEN Goto(Scanner, "tip") /\ UNCHANGED loc
               ELSE LET blk == blocks[L.cur]
                    IN /\ SetLocals(Scanner, [L EXCEPT !.era = blk.era, !.found = DepositsOf(blk)])
                       /\ Goto(Scanner, IF DepositsOf(blk) = {} THEN "lock" ELSE "enqueue")
      BY <1>5 DEF ScanFetch
    <2>2. refusals' \in Nat
      BY <2>1 DEF Refusal, TypeOK
    <2>3. /\ pc' \in [Tasks -> Labels] /\ loc' \in [Tasks -> Locals]
          /\ DepthInv' /\ EntryInv'
      <3>1. CASE error
        BY <1>0, <2>1, <3>1 DEF TypeOK, Goto, DepthInv, EntryInv, Labels, EntryLabels
      <3>2. CASE ~error
        <4> DEFINE blk == blocks[L.cur]
                   l == [L EXCEPT !.era = blk.era, !.found = DepositsOf(blk)]
                   label == IF DepositsOf(blk) = {} THEN "lock" ELSE "enqueue"
        <4>1. blk \in Block
          BY <2>1, <3>2 DEF TypeOK
        <4>2. l \in Locals /\ l.depth = L.depth /\ l.cur = L.cur
          BY <1>0, <4>1 DEF Locals, Block, DepositsOf
        <4>3. label \in Labels /\ label \notin EntryLabels
          BY DEF Labels, EntryLabels
        <4>4. Goto(Scanner, label) /\ SetLocals(Scanner, l)
          BY <2>1, <3>2
        <4> HIDE DEF l, label
        <4> QED BY <1>0, <4>2, <4>3, <4>4, TaskStep
      <3> QED BY <3>1, <3>2
    <2> QED BY <1>5, <2>2, <2>3 DEF ScanFetch, TypeOK, chainVars, backendVars, scanVars
  <1>6. CASE ScanAdvance
    <2>1. mem' \in Store(Entry)
      BY <1>0, <1>6, AdvanceType DEF ScanAdvance, Locals
    <2>2. PICK ok \in BOOLEAN :
            /\ SaveState(ok)
            /\ IF ok
               THEN /\ Goto(Scanner, IF L.cur + 1 <= L.tip THEN "reorg" ELSE "tip")
                    /\ SetLocals(Scanner, [L EXCEPT !.cur = @ + 1, !.era = 0])
               ELSE /\ Goto(Scanner, "start")
                    /\ SetLocals(Scanner, InitLocals)
      BY <1>6 DEF ScanAdvance
    <2> DEFINE label == IF ok THEN IF L.cur + 1 <= L.tip THEN "reorg" ELSE "tip" ELSE "start"
               l == IF ok THEN [L EXCEPT !.cur = @ + 1, !.era = 0] ELSE InitLocals
    <2>3. label \in Labels /\ label \notin EntryLabels
      BY DEF Labels, EntryLabels
    <2>4. l \in Locals /\ (l.depth = 0 \/ l.depth < l.cur)
      <3> DEFINE m == [L EXCEPT !.cur = @ + 1, !.era = 0]
      <3>0. m \in Locals /\ m.depth = L.depth /\ m.cur = L.cur + 1
        <4>1. L.cur + 1 \in Nat /\ 0 \in Nat
          BY <1>0
        <4>2. \A c, x \in Nat : /\ [L EXCEPT !.cur = c, !.era = x] \in Locals
                               /\ [L EXCEPT !.cur = c, !.era = x].depth = L.depth
                               /\ [L EXCEPT !.cur = c, !.era = x].cur = c
          <5> HIDE DEF L
          <5> QED BY <1>0 DEF Locals
        <4> QED BY <4>1, <4>2
      <3>1. CASE ok
        <4> HIDE DEF m
        <4>1. l = m
          BY <3>1 DEF m
        <4> QED BY <1>0, <3>0, <4>1
      <3>2. CASE ~ok
        BY <3>2, InitLocalsType DEF InitLocals
      <3> QED BY <3>1, <3>2
    <2>5. Goto(Scanner, label) /\ SetLocals(Scanner, l)
      BY <2>2
    <2> HIDE DEF l, label
    <2>6. disk' \in Store(FileEntry) /\ faults' \in Nat
      BY <2>1, <2>2, SaveType
    <2> QED BY <1>0, <1>6, <2>1, <2>3, <2>4, <2>5, <2>6, TaskStep
            DEF ScanAdvance, TypeOK, chainVars, backendVars, scanVars
  <1> QED BY <1>1, <1>2, <1>3, <1>4, <1>5, <1>6 DEF ScanStep

LEMMA RecoverType ==
    ASSUME TypeInv, NEW t \in Recoverers, RecoverStep(t)
    PROVE  TypeInv'
  <1> USE DEF TypeInv
  <1>0. t \in Tasks /\ loc[t] \in Locals /\ best \in Nat
    BY DEF TypeOK
  <1>1. CASE RecoverFetch(t)
    <2>1. PICK d \in Deposits, h \in 1 .. best :
            SetLocals(t, [InitLocals EXCEPT !.cur = h, !.found = {d}])
      BY <1>1 DEF RecoverFetch
    <2> DEFINE l == [InitLocals EXCEPT !.cur = h, !.found = {d}]
    <2>2. l \in Locals /\ l.depth = 0
      <3>1. InitLocals.depth = 0
        BY DEF InitLocals
      <3>2. h \in Nat /\ {d} \in SUBSET Deposits
        BY <1>0
      <3>3. \A c \in Nat, D \in SUBSET Deposits :
              /\ [InitLocals EXCEPT !.cur = c, !.found = D] \in Locals
              /\ [InitLocals EXCEPT !.cur = c, !.found = D].depth = InitLocals.depth
        BY InitLocalsType DEF Locals
      <3> QED BY <3>1, <3>2, <3>3
    <2>3. "rtip" \in Labels /\ "rtip" \notin EntryLabels
      BY DEF Labels, EntryLabels
    <2>4. Goto(t, "rtip") /\ SetLocals(t, l)
      BY <1>1, <2>1 DEF RecoverFetch
    <2> HIDE DEF l
    <2> QED BY <1>0, <1>1, <2>2, <2>3, <2>4, TaskStep DEF RecoverFetch, TypeOK, chainVars, backendVars, scanVars
  <1>2. CASE RecoverTip(t)
    <2> DEFINE l == [loc[t] EXCEPT !.tip = best]
    <2>1. l \in Locals /\ (l.depth = 0 \/ l.depth < l.cur)
      BY <1>0 DEF Locals, DepthInv
    <2>2. "enqueue" \in Labels /\ "enqueue" \notin EntryLabels
      BY DEF Labels, EntryLabels
    <2>3. Goto(t, "enqueue") /\ SetLocals(t, l)
      BY <1>2 DEF RecoverTip
    <2> HIDE DEF l
    <2> QED BY <1>0, <1>2, <2>1, <2>2, <2>3, TaskStep DEF RecoverTip, TypeOK, chainVars, backendVars, scanVars
  <1> QED BY <1>1, <1>2 DEF RecoverStep

LEMMA EntryDoneType ==
    ASSUME TypeInv, NEW t \in Tasks
    PROVE  /\ EntryDone(t) \in Locals
           /\ EntryDone(t).depth = 0 \/ EntryDone(t).depth < EntryDone(t).cur
  BY DEF TypeInv, TypeOK, Locals, EntryDone, DepthInv, NoEntry

LEMMA QueueType ==
    ASSUME TypeInv, NEW t \in Tasks,
           EnqueuePush(t) \/ EnqueueSave(t) \/ CreditsLock(t) \/ CreditsClone(t)
             \/ CreditsRelease(t) \/ EntryStart(t)
    PROVE  TypeInv'
  <1> USE DEF TypeInv
  <1>0. /\ loc[t] \in Locals /\ mem \in Store(Entry)
        /\ loc[t].depth = 0 \/ loc[t].depth < loc[t].cur
    BY DEF TypeOK, DepthInv
  <1>a. AfterCredits(t) \in Labels /\ AfterCredits(t) \notin EntryLabels
    BY DEF AfterCredits, Labels, EntryLabels
  <1>b. InitLocals \in Locals /\ InitLocals.depth = 0
    BY InitLocalsType DEF InitLocals
  <1>1. CASE EnqueuePush(t)
    <2> DEFINE l == [loc[t] EXCEPT !.found = {}]
    <2>1. l \in Locals /\ (l.depth = 0 \/ l.depth < l.cur)
      BY <1>0 DEF Locals
    <2>2. "save" \in Labels /\ "save" \notin EntryLabels
      BY DEF Labels, EntryLabels
    <2>3. Goto(t, "save") /\ SetLocals(t, l)
      BY <1>1 DEF EnqueuePush
    <2>4. mem' \in Store(Entry)
      BY <1>0, <1>1, EnqueueType DEF EnqueuePush, Locals
    <2> HIDE DEF l
    <2> QED BY <1>1, <2>1, <2>2, <2>3, <2>4, TaskStep DEF EnqueuePush, TypeOK, chainVars, backendVars, scanVars
  <1>2. CASE EnqueueSave(t)
    <2>1. PICK ok \in BOOLEAN :
            /\ SaveState(ok)
            /\ Goto(t, IF ok THEN "lock" ELSE IF t = Scanner THEN "start" ELSE "idle")
            /\ SetLocals(t, IF ok THEN loc[t] ELSE InitLocals)
      BY <1>2 DEF EnqueueSave
    <2> DEFINE label == IF ok THEN "lock" ELSE IF t = Scanner THEN "start" ELSE "idle"
               l == IF ok THEN loc[t] ELSE InitLocals
    <2>2. label \in Labels /\ label \notin EntryLabels
      BY DEF Labels, EntryLabels
    <2>3. l \in Locals /\ (l.depth = 0 \/ l.depth < l.cur)
      BY <1>0, <1>b
    <2>4. Goto(t, label) /\ SetLocals(t, l)
      BY <2>1
    <2> HIDE DEF l, label
    <2>5. mem' \in Store(Entry) /\ disk' \in Store(FileEntry) /\ faults' \in Nat
      BY <1>0, <1>2, <2>1, SaveType DEF EnqueueSave
    <2> QED BY <1>2, <2>2, <2>3, <2>4, <2>5, TaskStep DEF EnqueueSave, TypeOK, chainVars, backendVars, scanVars
  <1>3. CASE CreditsLock(t)
    <2>1. PICK ok \in BOOLEAN :
            /\ SaveState(ok)
            /\ lock' = IF ok THEN t ELSE NoTask
            /\ Goto(t, IF ok THEN "clone" ELSE AfterCredits(t))
            /\ SetLocals(t, IF ok \/ t = Scanner THEN loc[t] ELSE InitLocals)
      BY <1>3 DEF CreditsLock
    <2> DEFINE label == IF ok THEN "clone" ELSE AfterCredits(t)
               l == IF ok \/ t = Scanner THEN loc[t] ELSE InitLocals
    <2>2. label \in Labels /\ label \notin EntryLabels
      BY <1>a DEF Labels, EntryLabels
    <2>3. l \in Locals /\ (l.depth = 0 \/ l.depth < l.cur)
      BY <1>0, <1>b
    <2>4. Goto(t, label) /\ SetLocals(t, l) /\ lock' \in Tasks \cup {NoTask}
      BY <2>1
    <2> HIDE DEF l, label
    <2>5. mem' \in Store(Entry) /\ disk' \in Store(FileEntry) /\ faults' \in Nat
      BY <1>0, <1>3, <2>1, SaveType DEF CreditsLock
    <2> QED BY <1>3, <2>2, <2>3, <2>4, <2>5, TaskStep DEF CreditsLock, TypeOK, chainVars, backendVars, scanVars
  <1>4. CASE CreditsClone(t)
    <2> DEFINE l == [loc[t] EXCEPT !.todo = mem.pending]
    <2>1. l \in Locals /\ (l.depth = 0 \/ l.depth < l.cur)
      BY <1>0 DEF Locals, Store
    <2>2. "next" \in Labels /\ "next" \notin EntryLabels
      BY DEF Labels, EntryLabels
    <2>3. Goto(t, "next") /\ SetLocals(t, l)
      BY <1>4 DEF CreditsClone
    <2> HIDE DEF l
    <2> QED BY <1>4, <2>1, <2>2, <2>3, TaskStep DEF CreditsClone, TypeOK, chainVars, backendVars, scanVars
  <1>5. CASE CreditsRelease(t)
    <2> DEFINE l == IF t = Scanner THEN loc[t] ELSE InitLocals
    <2>1. l \in Locals /\ (l.depth = 0 \/ l.depth < l.cur)
      BY <1>0, <1>b
    <2>2. Goto(t, AfterCredits(t)) /\ SetLocals(t, l)
      BY <1>5 DEF CreditsRelease
    <2> HIDE DEF l
    <2> QED BY <1>a, <1>5, <2>1, <2>2, TaskStep DEF CreditsRelease, TypeOK, chainVars, backendVars, scanVars
  <1>6. CASE EntryStart(t)
    <2>1. PICK e \in loc[t].todo :
            LET already == IsCredited(mem, e.dep, e.id)
                started == [loc[t] EXCEPT !.todo = @ \ {e}, !.entry = e, !.already = already]
            IN IF ~e.notified /\ ~already
               THEN Goto(t, "detect") /\ SetLocals(t, started)
               ELSE IF Confirmed(e, loc[t].tip)
               THEN Goto(t, "sweep") /\ SetLocals(t, started)
               ELSE /\ Goto(t, "next")
                    /\ SetLocals(t, [loc[t] EXCEPT !.todo = @ \ {e}])
      BY <1>6 DEF EntryStart
    <2> DEFINE already == IsCredited(mem, e.dep, e.id)
               started == [loc[t] EXCEPT !.todo = @ \ {e}, !.entry = e, !.already = already]
               passed == [loc[t] EXCEPT !.todo = @ \ {e}]
    <2>2. e \in Entry /\ already \in BOOLEAN
      BY <1>0, <2>1 DEF Locals, IsCredited
    <2>3. /\ started \in Locals /\ started.entry = e
          /\ started.depth = 0 \/ started.depth < started.cur
      <3> HIDE DEF already
      <3> QED BY <1>0, <2>2 DEF Locals
    <2>4. passed \in Locals /\ (passed.depth = 0 \/ passed.depth < passed.cur)
      BY <1>0 DEF Locals
    <2>5. "detect" \in Labels /\ "sweep" \in Labels /\ "next" \in Labels /\ "next" \notin EntryLabels
      BY DEF Labels, EntryLabels
    <2>6. \/ (Goto(t, "detect") /\ SetLocals(t, started))
          \/ (Goto(t, "sweep") /\ SetLocals(t, started))
          \/ (Goto(t, "next") /\ SetLocals(t, passed))
      BY <2>1
    <2> HIDE DEF already, started, passed
    <2> QED BY <1>6, <2>2, <2>3, <2>4, <2>5, <2>6, TaskStep DEF EntryStart, TypeOK, chainVars, backendVars, scanVars
  <1> QED BY <1>1, <1>2, <1>3, <1>4, <1>5, <1>6

LEMMA DeliveryType ==
    ASSUME TypeInv, NEW t \in Tasks,
           SendDetected(t) \/ RecordDetected(t) \/ Sweep(t) \/ SendCredited(t)
             \/ RecordCredited(t) \/ EntryFinish(t)
    PROVE  TypeInv'
  <1> USE DEF TypeInv
  <1>0. /\ loc[t] \in Locals /\ mem \in Store(Entry)
        /\ loc[t].depth = 0 \/ loc[t].depth < loc[t].cur
    BY DEF TypeOK, DepthInv
  <1>a. loc[t].entry \in Entry /\ loc[t].entry.id \in EventIds /\ loc[t].entry.dep \in Deposits
    <2>1. pc[t] \in EntryLabels
      BY DEF SendDetected, RecordDetected, Sweep, SendCredited, RecordCredited, EntryFinish, EntryLabels
    <2> QED BY <2>1 DEF EntryInv, Entry
  <1>b. /\ EntryDone(t) \in Locals
        /\ EntryDone(t).depth = 0 \/ EntryDone(t).depth < EntryDone(t).cur
    BY EntryDoneType
  <1>c. EntryLabels \subseteq Labels /\ "next" \in Labels /\ "next" \notin EntryLabels
    BY DEF Labels, EntryLabels
  \* The task goes on with its entry, or is done with it.
  <1>d. ASSUME NEW goOn \in BOOLEAN, NEW label \in EntryLabels,
               Goto(t, IF goOn THEN label ELSE "next"),
               SetLocals(t, IF goOn THEN loc[t] ELSE EntryDone(t))
        PROVE  /\ pc' \in [Tasks -> Labels] /\ loc' \in [Tasks -> Locals]
               /\ DepthInv' /\ EntryInv'
    BY <1>0, <1>a, <1>b, <1>c, <1>d, TaskStep
  <1>1. CASE SendDetected(t)
    <2>1. PICK o \in Outcomes :
            /\ Outcome(o)
            /\ detected' = IF o = "refused" THEN detected ELSE detected \cup {loc[t].entry.id}
            /\ Goto(t, IF o = "acked" THEN "notified" ELSE "next")
            /\ SetLocals(t, IF o = "acked" THEN loc[t] ELSE EntryDone(t))
      BY <1>1 DEF SendDetected
    <2>2. faults' \in Nat /\ refusals' \in Nat
      BY <2>1 DEF Outcome, Fault, Refusal, TypeOK
    <2>3. detected' \subseteq EventIds
      BY <1>a, <2>1 DEF TypeOK
    <2>4. "notified" \in EntryLabels /\ (o = "acked") \in BOOLEAN
      BY DEF EntryLabels
    <2> QED BY <1>1, <1>d, <2>1, <2>2, <2>3, <2>4 DEF SendDetected, TypeOK, chainVars, scanVars
  <1>2. CASE RecordDetected(t)
    <2>1. mem' \in Store(Entry)
      BY <1>0, <1>2, NotifiedType DEF RecordDetected
    <2>2. PICK ok \in BOOLEAN :
            LET goOn == ok /\ Confirmed(loc[t].entry, loc[t].tip)
            IN /\ SaveState(ok)
               /\ Goto(t, IF goOn THEN "sweep" ELSE "next")
               /\ SetLocals(t, IF goOn THEN loc[t] ELSE EntryDone(t))
      BY <1>2 DEF RecordDetected
    <2>3. disk' \in Store(FileEntry) /\ faults' \in Nat
      BY <2>1, <2>2, SaveType
    <2>4. "sweep" \in EntryLabels /\ (ok /\ Confirmed(loc[t].entry, loc[t].tip)) \in BOOLEAN
      BY DEF EntryLabels, Confirmed
    <2> QED BY <1>2, <1>d, <2>1, <2>2, <2>3, <2>4 DEF RecordDetected, TypeOK, chainVars, backendVars, scanVars
  <1>3. CASE Sweep(t)
    <2>1. PICK deferred \in BOOLEAN :
            /\ Refusal(deferred)
            /\ owed' = IF deferred THEN owed \cup {loc[t].entry.dep}
                       ELSE owed \ {loc[t].entry.dep}
            /\ SetLocals(t, [loc[t] EXCEPT !.deferred = deferred])
      BY <1>3 DEF Sweep
    <2> DEFINE l == [loc[t] EXCEPT !.deferred = deferred]
               label == IF ~loc[t].already THEN "credit" ELSE "remove"
    <2>2. l \in Locals /\ l.entry = loc[t].entry /\ (l.depth = 0 \/ l.depth < l.cur)
      BY <1>0 DEF Locals
    <2>3. label \in Labels
      BY DEF Labels
    <2>4. Goto(t, label) /\ SetLocals(t, l)
      BY <1>3, <2>1 DEF Sweep
    <2>5. refusals' \in Nat /\ owed' \subseteq Deposits
      BY <1>a, <2>1 DEF Refusal, TypeOK
    <2> HIDE DEF l, label
    <2> QED BY <1>a, <1>3, <2>2, <2>3, <2>4, <2>5, TaskStep DEF Sweep, TypeOK, chainVars, backendVars, scanVars
  <1>4. CASE SendCredited(t)
    <2>1. PICK o \in Outcomes :
            /\ Outcome(o)
            /\ IF o = "refused" THEN UNCHANGED <<credits, paid>>
               ELSE /\ credits' = [credits EXCEPT ![loc[t].entry.id] = @ + 1]
                    /\ paid' = paid \cup {loc[t].entry.dep}
            /\ Goto(t, IF o = "acked" THEN "record" ELSE "next")
            /\ SetLocals(t, IF o = "acked" THEN loc[t] ELSE EntryDone(t))
      BY <1>4 DEF SendCredited
    <2>2. faults' \in Nat /\ refusals' \in Nat
      BY <2>1 DEF Outcome, Fault, Refusal, TypeOK
    <2>3. credits' \in [EventIds -> Nat] /\ paid' \subseteq Deposits
      BY <1>a, <2>1 DEF TypeOK
    <2>4. "record" \in EntryLabels /\ (o = "acked") \in BOOLEAN
      BY DEF EntryLabels
    <2> QED BY <1>4, <1>d, <2>1, <2>2, <2>3, <2>4 DEF SendCredited, TypeOK, chainVars, scanVars
  <1>5. CASE RecordCredited(t)
    <2>1. mem' \in Store(Entry)
      BY <1>0, <1>a, <1>5, CreditType DEF RecordCredited
    <2>2. PICK ok \in BOOLEAN :
            /\ SaveState(ok)
            /\ Goto(t, IF ok THEN "remove" ELSE "next")
            /\ SetLocals(t, IF ok THEN loc[t] ELSE EntryDone(t))
      BY <1>5 DEF RecordCredited
    <2>3. disk' \in Store(FileEntry) /\ faults' \in Nat
      BY <2>1, <2>2, SaveType
    <2>4. "remove" \in EntryLabels
      BY DEF EntryLabels
    <2> QED BY <1>5, <1>d, <2>1, <2>2, <2>3, <2>4 DEF RecordCredited, TypeOK, chainVars, backendVars, scanVars
  <1>6. CASE EntryFinish(t)
    <2>1. PICK ok \in BOOLEAN :
            IF loc[t].deferred
            THEN ok /\ UNCHANGED <<mem, disk, faults>>
            ELSE mem' = DropEntry(mem, loc[t].entry.id) /\ SaveState(ok)
      BY <1>6 DEF EntryFinish
    <2>2. mem' \in Store(Entry)
      BY <1>0, <1>a, <2>1, CreditType
    <2>3. disk' \in Store(FileEntry) /\ faults' \in Nat
      BY <2>1, <2>2, SaveType DEF TypeOK
    <2>4. Goto(t, "next") /\ SetLocals(t, EntryDone(t))
      BY <1>6 DEF EntryFinish
    <2> QED BY <1>b, <1>c, <1>6, <2>2, <2>3, <2>4, TaskStep DEF EntryFinish, TypeOK, chainVars, backendVars, scanVars
  <1> QED BY <1>1, <1>2, <1>3, <1>4, <1>5, <1>6

LEMMA EnvironmentType ==
    ASSUME TypeInv, Mine \/ Reorg \/ Crash
    PROVE  TypeInv'
  <1> USE DEF TypeInv
  <1>1. CASE Mine
    <2>1. best' \in Heights
      BY <1>1, BoundAssumption DEF Mine, TypeOK
    <2>2. blocks' \in [Heights -> Block]
      BY <1>1, <2>1 DEF Mine, TypeOK, Block
    <2> QED BY <1>1, <2>1, <2>2 DEF Mine, TypeOK, DepthInv, EntryInv, backendVars, scanVars
  <1>2. CASE Reorg
    <2>1. best' \in Heights /\ reorgs' \in Nat /\ reorgs + 1 \in Nat
      BY <1>2, BoundAssumption DEF Reorg, TypeOK
    <2>a. PICK d \in 1 .. MaxReorgDepth :
            LET base == best - d
                kept == {tx \in Txs : \E h \in 1 .. base : tx \in blocks[h].txs}
            IN \E place \in [Txs \ kept -> {0} \cup (base + 1 .. best + 1)] :
                 blocks' = [h \in Heights |->
                     IF h <= base THEN blocks[h]
                     ELSE IF h <= best + 1
                          THEN [era |-> reorgs + 1,
                                txs |-> {tx \in Txs \ kept : place[tx] = h}]
                     ELSE NoBlock]
      BY <1>2 DEF Reorg
    <2> DEFINE base == best - d
               kept == {tx \in Txs : \E h \in 1 .. base : tx \in blocks[h].txs}
    <2>2. PICK place \in [Txs \ kept -> {0} \cup (base + 1 .. best + 1)] :
            blocks' = [h \in Heights |->
                        IF h <= base THEN blocks[h]
                        ELSE IF h <= best + 1
                             THEN [era |-> reorgs + 1,
                                   txs |-> {tx \in Txs \ kept : place[tx] = h}]
                        ELSE NoBlock]
      BY <2>a
    <2> HIDE DEF base, kept
    <2>3. \A h \in Heights : [era |-> reorgs + 1, txs |-> {tx \in Txs \ kept : place[tx] = h}] \in Block
      BY <2>1 DEF Block
    <2>4. NoBlock \in Block
      BY DEF NoBlock, Block
    <2>5. blocks' \in [Heights -> Block]
      BY <2>2, <2>3, <2>4 DEF TypeOK
    <2> QED BY <1>2, <2>1, <2>5 DEF Reorg, TypeOK, DepthInv, EntryInv, backendVars, scanVars
  <1>3. CASE Crash
    <2>1. mem' \in Store(Entry)
      BY <1>3, LoadStateType DEF Crash, TypeOK
    <2>2. faults' \in Nat
      BY <1>3 DEF Crash, Fault, TypeOK
    <2>3. /\ pc' \in [Tasks -> Labels] /\ loc' \in [Tasks -> Locals]
          /\ DepthInv' /\ EntryInv'
      BY <1>3, InitLocalsType DEF Crash, DepthInv, EntryInv, Labels, EntryLabels, InitLocals
    <2> QED BY <1>3, <2>1, <2>2, <2>3 DEF Crash, TypeOK, chainVars, backendVars, scanVars
  <1> QED BY <1>1, <1>2, <1>3

LEMMA TypeStep == TypeInv /\ [Next]_vars => TypeInv'
  <1> SUFFICES ASSUME TypeInv, [Next]_vars PROVE TypeInv'
    OBVIOUS
  <1>1. CASE Mine \/ Reorg \/ Crash
    BY <1>1, EnvironmentType
  <1>2. CASE ScanStep
    BY <1>2, ScanType
  <1>3. ASSUME NEW t \in Recoverers, RecoverStep(t) PROVE TypeInv'
    BY <1>3, RecoverType
  <1>4. ASSUME NEW t \in Tasks, OutboxStep(t) PROVE TypeInv'
    BY <1>4, QueueType, DeliveryType DEF OutboxStep
  <1>5. CASE UNCHANGED vars
    BY <1>5 DEF vars, chainVars, backendVars, scanVars, TypeInv, TypeOK, DepthInv, EntryInv
  <1> QED BY <1>1, <1>2, <1>3, <1>4, <1>5 DEF Next

\* Whatever the scan loop, the recoveries, reorganisations, failed saves and
\* restarts do, memory, state file and task locals keep their types; only a file
\* of an older release ever holds an entry without an event id.
THEOREM TypeCorrect == Spec => []TypeOK
  <1>1. Spec => []TypeInv
    BY TypeInit, TypeStep, PTL DEF Spec
  <1> QED BY <1>1, PTL DEF TypeInv

----------------------------------------------------------------------------
(* Credits *)

Critical == {"clone", "next"} \cup EntryLabels
Undelivered == {"detect", "notified", "sweep", "credit"}

\* credit_lock is held from the copy of the queue to the end of its processing.
LockInv == \A t \in Tasks : pc[t] \in Critical => lock = t

\* What process_pending_payment read at its start still holds when it sends.
FreshInv ==
    \A t \in Tasks :
        /\ pc[t] \in Undelivered /\ ~loc[t].already => loc[t].entry.id \notin mem.credited
        /\ pc[t] \in {"detect", "notified", "credit"} => ~loc[t].already

\* A delivered credit is recorded, about to be recorded, or lost to a fault.
Accounted(id) ==
    \/ id \in mem.credited
    \/ \E t \in Tasks : pc[t] = "record" /\ loc[t].entry.id = id
CountInv ==
    \A id \in EventIds :
        /\ credits[id] <= 1 + faults
        /\ ~Accounted(id) => credits[id] <= faults

CreditInv == LockInv /\ FreshInv /\ CountInv

LEMMA CreditInit == Init => CreditInv
  BY DEF Init, CreditInv, LockInv, FreshInv, CountInv, Critical, EntryLabels, Undelivered

LEMMA HolderAlone ==
    ASSUME LockInv, NEW t \in Tasks, pc[t] \in Critical
    PROVE  lock = t /\ \A u \in Tasks : u # t => pc[u] \notin Critical
  BY DEF LockInv

\* A step outside the critical section that neither credits nor forgets one.
LEMMA QuietStep ==
    ASSUME TypeInv, CreditInv, NEW t \in Tasks, NEW label, NEW l,
           pc[t] \notin Critical, label \notin Critical,
           Goto(t, label), SetLocals(t, l), lock' = lock,
           mem'.credited = mem.credited, credits' = credits,
           faults' \in Nat, faults' >= faults
    PROVE  CreditInv'
  <1> USE DEF TypeInv, TypeOK, Goto, SetLocals
  <1>0. "record" \in Critical /\ Undelivered \subseteq Critical
        /\ {"detect", "notified", "credit"} \subseteq Critical
    BY DEF Critical, Undelivered, EntryLabels
  <1>1. LockInv'
    BY DEF CreditInv, LockInv
  <1>2. FreshInv'
    BY <1>0 DEF CreditInv, FreshInv
  <1>3. \A id \in EventIds : Accounted(id) => Accounted(id)'
    BY <1>0 DEF Accounted
  <1>4. CountInv'
    BY <1>3 DEF CreditInv, CountInv
  <1> QED BY <1>1, <1>2, <1>4 DEF CreditInv

\* A step of the holder of credit_lock: the others are elsewhere.
LEMMA HolderStep ==
    ASSUME TypeInv, CreditInv, NEW t \in Tasks, NEW label, NEW l,
           pc[t] \in Critical, Goto(t, label), SetLocals(t, l),
           label \in Critical => lock' = t,
           label \in Undelivered /\ ~l.already => l.entry.id \notin mem'.credited,
           label \in {"detect", "notified", "credit"} => ~l.already
    PROVE  LockInv' /\ FreshInv'
  <1> USE DEF TypeInv, TypeOK, Goto, SetLocals
  <1>0. Undelivered \subseteq Critical /\ {"detect", "notified", "credit"} \subseteq Critical
    BY DEF Critical, Undelivered, EntryLabels
  <1>1. \A u \in Tasks : u # t => pc'[u] \notin Critical
    BY HolderAlone DEF CreditInv
  <1>2. pc'[t] = label /\ loc'[t] = l
    OBVIOUS
  <1> QED BY <1>0, <1>1, <1>2 DEF LockInv, FreshInv

LEMMA SaveCounts ==
    ASSUME TypeInv, NEW ok \in BOOLEAN, SaveState(ok)
    PROVE  faults' \in Nat /\ faults' >= faults
  BY DEF SaveState, Fault, TypeInv, TypeOK

LEMMA HelpersKeepCredits ==
    ASSUME NEW s \in Store(Entry)
    PROVE  /\ \A from, cur : RollBack(s, from, cur).credited = s.credited
           /\ \A h, era : Advance(s, h, era).credited = s.credited
           /\ \A deps, h : Enqueue(s, deps, h).credited = s.credited
           /\ \A id : DropEntry(s, id).credited = s.credited
           /\ \A id : \A r \in NotifiedStores(s, id) : r.credited = s.credited
  BY DEF Store, RollBack, Advance, Enqueue, DropEntry, NotifiedStores

LEMMA ScanCredit ==
    ASSUME TypeInv, CreditInv, ScanStep
    PROVE  CreditInv'
  <1>0. /\ Scanner \in Tasks /\ mem \in Store(Entry) /\ faults \in Nat
        /\ pc \in [Tasks -> Labels] /\ loc \in [Tasks -> Locals]
    BY DEF TypeInv, TypeOK
  <1>a. \A x \in {"start", "tip", "reorg", "rollback", "fetch", "advance", "lock", "enqueue"} :
          x \notin Critical
    BY DEF Critical, EntryLabels
  <1> USE DEF backendVars
  <1>1. CASE ScanStart
    <2>1. mem'.credited = mem.credited
      BY <1>0, <1>1 DEF ScanStart, Store
    <2>2. PICK ok \in BOOLEAN :
            /\ IF SkipInitialSync THEN SaveState(ok) ELSE ok /\ UNCHANGED <<disk, faults>>
            /\ Goto(Scanner, IF ok THEN "tip" ELSE "start")
            /\ SetLocals(Scanner, IF ok THEN [InitLocals EXCEPT !.cur = FirstHeight] ELSE InitLocals)
      BY <1>1 DEF ScanStart
    <2>3. faults' \in Nat /\ faults' >= faults
      BY <1>0, <2>2, SaveCounts
    <2> QED BY <1>0, <1>a, <1>1, <2>1, <2>2, <2>3, QuietStep DEF ScanStart
  <1>2. CASE ScanTip
    BY <1>0, <1>a, <1>2, QuietStep DEF ScanTip
  <1>3. CASE ScanReorg
    <2>1. PICK label, l :
            /\ label \notin Critical
            /\ Goto(Scanner, label) /\ SetLocals(Scanner, l)
      <3>1. \/ \E l : SetLocals(Scanner, l) /\ UNCHANGED pc
            \/ \E label \in {"rollback", "fetch"} : Goto(Scanner, label) /\ UNCHANGED loc
        BY <1>3 DEF ScanReorg
      <3>2. pc = [pc EXCEPT ![Scanner] = "reorg"] /\ loc = [loc EXCEPT ![Scanner] = loc[Scanner]]
        BY <1>0, <1>3 DEF ScanReorg
      <3> QED BY <1>a, <3>1, <3>2 DEF Goto, SetLocals
    <2> QED BY <1>0, <1>a, <1>3, <2>1, QuietStep DEF ScanReorg
  <1>4. CASE ScanRollback
    <2>1. mem'.credited = mem.credited
      BY <1>0, <1>4, HelpersKeepCredits DEF ScanRollback
    <2> QED BY <1>0, <1>a, <1>4, <2>1, QuietStep DEF ScanRollback
  <1>5. CASE ScanFetch
    <2>1. PICK label, l :
            /\ label \in {"tip", "lock", "enqueue"}
            /\ Goto(Scanner, label) /\ SetLocals(Scanner, l)
      <3>1. loc = [loc EXCEPT ![Scanner] = loc[Scanner]]
        BY <1>0
      <3>2. \/ Goto(Scanner, "tip") /\ UNCHANGED loc
            \/ \E l : \E label \in {"lock", "enqueue"} : Goto(Scanner, label) /\ SetLocals(Scanner, l)
        BY <1>5 DEF ScanFetch
      <3> QED BY <3>1, <3>2 DEF SetLocals
    <2> QED BY <1>0, <1>a, <1>5, <2>1, QuietStep DEF ScanFetch
  <1>6. CASE ScanAdvance
    <2>1. mem'.credited = mem.credited
      BY <1>0, <1>6, HelpersKeepCredits DEF ScanAdvance
    <2>2. PICK ok \in BOOLEAN : SaveState(ok)
      BY <1>6 DEF ScanAdvance
    <2>3. PICK label, l :
            /\ label \in {"reorg", "tip", "start"}
            /\ Goto(Scanner, label) /\ SetLocals(Scanner, l)
      BY <1>6 DEF ScanAdvance
    <2> QED BY <1>0, <1>a, <1>6, <2>1, <2>2, <2>3, SaveCounts, QuietStep DEF ScanAdvance
  <1> QED BY <1>1, <1>2, <1>3, <1>4, <1>5, <1>6 DEF ScanStep

LEMMA RecoverCredit ==
    ASSUME TypeInv, CreditInv, NEW t \in Recoverers, RecoverStep(t)
    PROVE  CreditInv'
  <1>0. t \in Tasks /\ faults \in Nat
    BY DEF TypeInv, TypeOK
  <1>a. \A x \in {"idle", "rtip", "enqueue"} : x \notin Critical
    BY DEF Critical, EntryLabels
  <1>1. CASE RecoverFetch(t)
    BY <1>0, <1>a, <1>1, QuietStep DEF RecoverFetch, backendVars
  <1>2. CASE RecoverTip(t)
    BY <1>0, <1>a, <1>2, QuietStep DEF RecoverTip, backendVars
  <1> QED BY <1>1, <1>2 DEF RecoverStep

LEMMA QueueCredit ==
    ASSUME TypeInv, CreditInv, NEW t \in Tasks,
           EnqueuePush(t) \/ EnqueueSave(t) \/ CreditsLock(t) \/ CreditsClone(t)
             \/ CreditsRelease(t) \/ EntryStart(t)
    PROVE  CreditInv'
  <1>0. /\ mem \in Store(Entry) /\ faults \in Nat
        /\ pc \in [Tasks -> Labels] /\ loc \in [Tasks -> Locals]
    BY DEF TypeInv, TypeOK
  <1>a. /\ \A x \in {"start", "idle", "tip", "advance", "lock", "enqueue", "save"} : x \notin Critical
        /\ "clone" \in Critical /\ "next" \in Critical
        /\ \A x \in {"start", "idle", "tip", "advance", "clone", "next"} :
              x \notin Undelivered \cup {"detect", "notified", "credit", "record"}
    BY DEF Critical, EntryLabels, Undelivered
  <1>b. AfterCredits(t) \in {"idle", "tip", "advance"}
    BY DEF AfterCredits
  <1> USE DEF backendVars
  <1>1. CASE EnqueuePush(t)
    <2>1. mem'.credited = mem.credited
      BY <1>0, <1>1, HelpersKeepCredits DEF EnqueuePush
    <2> QED BY <1>0, <1>a, <1>1, <2>1, QuietStep DEF EnqueuePush
  <1>2. CASE EnqueueSave(t)
    <2>1. PICK ok \in BOOLEAN : SaveState(ok)
      BY <1>2 DEF EnqueueSave
    <2>2. PICK label, l :
            /\ label \in {"lock", "start", "idle"}
            /\ Goto(t, label) /\ SetLocals(t, l)
      BY <1>2 DEF EnqueueSave
    <2> QED BY <1>0, <1>a, <1>2, <2>1, <2>2, SaveCounts, QuietStep DEF EnqueueSave
  <1>3. CASE CreditsLock(t)
    <2>1. PICK ok \in BOOLEAN :
            /\ SaveState(ok)
            /\ lock' = IF ok THEN t ELSE NoTask
            /\ Goto(t, IF ok THEN "clone" ELSE AfterCredits(t))
            /\ SetLocals(t, IF ok \/ t = Scanner THEN loc[t] ELSE InitLocals)
      BY <1>3 DEF CreditsLock
    <2>2. faults' \in Nat /\ faults' >= faults
      BY <2>1, SaveCounts
    <2>3. CASE ~ok
      BY <1>0, <1>a, <1>b, <1>3, <2>1, <2>2, <2>3, QuietStep DEF CreditsLock
    <2>4. CASE ok
      <3>1. \A u \in Tasks : pc[u] \notin Critical
        BY <1>3, TaskAssumption DEF CreditInv, LockInv, CreditsLock
      <3>2. \A u \in Tasks : pc'[u] = IF u = t THEN "clone" ELSE pc[u]
        BY <1>0, <2>1, <2>4 DEF Goto
      <3>3. LockInv' /\ FreshInv'
        BY <1>a, <2>1, <2>4, <3>1, <3>2 DEF LockInv, FreshInv, Undelivered, Critical, EntryLabels
      <3>4. \A id \in EventIds : Accounted(id) => Accounted(id)'
        BY <1>3, <3>1, <3>2 DEF Accounted, CreditsLock, Critical, EntryLabels
      <3>5. CountInv'
        BY <1>0, <1>3, <2>2, <3>4 DEF CreditInv, CountInv, CreditsLock, TypeInv, TypeOK
      <3> QED BY <3>3, <3>5 DEF CreditInv
    <2> QED BY <2>3, <2>4
  <1>4. CASE CreditsClone(t)
    <2>1. pc[t] \in Critical /\ lock = t
      BY <1>a, <1>4, HolderAlone DEF CreditInv, CreditsClone
    <2>2. LockInv' /\ FreshInv'
      BY <1>0, <1>a, <1>4, <2>1, HolderStep DEF CreditsClone
    <2>3. \A id \in EventIds : Accounted(id) => Accounted(id)'
      BY <1>0, <1>4 DEF Accounted, CreditsClone, Goto, SetLocals
    <2> QED BY <1>4, <2>2, <2>3 DEF CreditInv, CountInv, CreditsClone
  <1>5. CASE CreditsRelease(t)
    <2>1. pc[t] \in Critical
      BY <1>a, <1>5 DEF CreditsRelease
    <2>2. AfterCredits(t) \notin Critical \cup Undelivered \cup {"detect", "notified", "credit"}
      BY <1>a, <1>b
    <2>3. LockInv' /\ FreshInv'
      BY <1>0, <1>5, <2>1, <2>2, HolderStep DEF CreditsRelease
    <2>4. \A id \in EventIds : Accounted(id) => Accounted(id)'
      BY <1>0, <1>5 DEF Accounted, CreditsRelease, Goto, SetLocals
    <2> QED BY <1>5, <2>3, <2>4 DEF CreditInv, CountInv, CreditsRelease
  <1>6. CASE EntryStart(t)
    <2>1. pc[t] \in Critical /\ lock = t
      BY <1>a, <1>6, HolderAlone DEF CreditInv, EntryStart
    <2>2. PICK e \in loc[t].todo :
            LET already == IsCredited(mem, e.dep, e.id)
                started == [loc[t] EXCEPT !.todo = @ \ {e}, !.entry = e, !.already = already]
            IN IF ~e.notified /\ ~already
               THEN Goto(t, "detect") /\ SetLocals(t, started)
               ELSE IF Confirmed(e, loc[t].tip)
               THEN Goto(t, "sweep") /\ SetLocals(t, started)
               ELSE /\ Goto(t, "next")
                    /\ SetLocals(t, [loc[t] EXCEPT !.todo = @ \ {e}])
      BY <1>6 DEF EntryStart
    <2> DEFINE already == IsCredited(mem, e.dep, e.id)
               started == [loc[t] EXCEPT !.todo = @ \ {e}, !.entry = e, !.already = already]
               passed == [loc[t] EXCEPT !.todo = @ \ {e}]
    <2>3. loc[t] \in Locals /\ already \in BOOLEAN
      BY <1>0 DEF IsCredited
    <2>4. started.already = already /\ started.entry = e
      <3> HIDE DEF already
      <3> QED BY <2>3 DEF Locals
    <2>5. ~already => e.id \notin mem.credited
      BY DEF IsCredited
    <2>6. \/ (Goto(t, "detect") /\ SetLocals(t, started) /\ ~already)
          \/ (Goto(t, "sweep") /\ SetLocals(t, started))
          \/ (Goto(t, "next") /\ SetLocals(t, passed))
      BY <2>2
    <2>7. mem' = mem /\ lock' = lock /\ credits' = credits /\ faults' = faults /\ pc[t] = "next"
      BY <1>6 DEF EntryStart
    <2>8. "sweep" \notin {"detect", "notified", "credit"}
      OBVIOUS
    <2> HIDE DEF already, started, passed
    <2>9. LockInv' /\ FreshInv'
      BY <1>0, <1>a, <2>1, <2>3, <2>4, <2>5, <2>6, <2>7, <2>8, HolderStep
    <2>10. \A id \in EventIds : Accounted(id) => Accounted(id)'
      BY <1>0, <2>6, <2>7 DEF Accounted, Goto, SetLocals
    <2> QED BY <2>7, <2>9, <2>10 DEF CreditInv, CountInv
  <1> QED BY <1>1, <1>2, <1>3, <1>4, <1>5, <1>6

LEMMA DeliveryCredit ==
    ASSUME TypeInv, CreditInv, NEW t \in Tasks,
           SendDetected(t) \/ RecordDetected(t) \/ Sweep(t) \/ SendCredited(t)
             \/ RecordCredited(t) \/ EntryFinish(t)
    PROVE  CreditInv'
  <1>0. /\ mem \in Store(Entry) /\ faults \in Nat /\ credits \in [EventIds -> Nat]
        /\ pc \in [Tasks -> Labels] /\ loc \in [Tasks -> Locals] /\ loc[t] \in Locals
    BY DEF TypeInv, TypeOK
  <1>1. pc[t] \in EntryLabels /\ loc[t].entry.id \in EventIds
    <2>1. pc[t] \in EntryLabels
      BY DEF SendDetected, RecordDetected, Sweep, SendCredited, RecordCredited, EntryFinish, EntryLabels
    <2> QED BY <2>1 DEF TypeInv, EntryInv, Entry
  <1>2. pc[t] \in Critical /\ lock = t /\ \A u \in Tasks : u # t => pc[u] \notin Critical
    BY <1>1, HolderAlone DEF CreditInv, Critical
  <1>a. "next" \notin Undelivered \cup {"detect", "notified", "credit", "record"} /\ "record" \in Critical
    BY DEF Undelivered, Critical, EntryLabels
  <1>b. FreshInv /\ CountInv
    BY DEF CreditInv
  <1>3. CASE SendDetected(t)
    <2>1. PICK o \in Outcomes :
            /\ Outcome(o)
            /\ Goto(t, IF o = "acked" THEN "notified" ELSE "next")
            /\ SetLocals(t, IF o = "acked" THEN loc[t] ELSE EntryDone(t))
      BY <1>3 DEF SendDetected
    <2>2. /\ pc[t] = "detect" /\ mem' = mem /\ lock' = lock /\ credits' = credits
          /\ faults' \in Nat /\ faults' >= faults
      BY <1>0, <1>3, <2>1 DEF SendDetected, Outcome, Fault
    <2>3. LockInv' /\ FreshInv'
      BY <1>a, <1>b, <1>2, <2>1, <2>2, HolderStep DEF FreshInv, Undelivered
    <2>4. \A id \in EventIds : Accounted(id) => Accounted(id)'
      BY <1>0, <2>1, <2>2 DEF Accounted, Goto, SetLocals
    <2> QED BY <1>0, <1>b, <2>2, <2>3, <2>4 DEF CreditInv, CountInv
  <1>4. CASE RecordDetected(t)
    <2>1. PICK ok \in BOOLEAN :
            LET goOn == ok /\ Confirmed(loc[t].entry, loc[t].tip)
            IN /\ SaveState(ok)
               /\ Goto(t, IF goOn THEN "sweep" ELSE "next")
               /\ SetLocals(t, IF goOn THEN loc[t] ELSE EntryDone(t))
      BY <1>4 DEF RecordDetected
    <2>2. /\ pc[t] = "notified" /\ lock' = lock /\ credits' = credits
          /\ mem'.credited = mem.credited
      BY <1>0, <1>4, HelpersKeepCredits DEF RecordDetected, backendVars
    <2>3. faults' \in Nat /\ faults' >= faults
      BY <2>1, SaveCounts
    <2>4. \/ Goto(t, "sweep") /\ SetLocals(t, loc[t])
          \/ Goto(t, "next") /\ SetLocals(t, EntryDone(t))
      BY <2>1
    <2>5. LockInv' /\ FreshInv'
      BY <1>a, <1>b, <1>2, <2>2, <2>4, HolderStep DEF FreshInv, Undelivered
    <2>6. \A id \in EventIds : Accounted(id) => Accounted(id)'
      BY <1>0, <2>2, <2>4 DEF Accounted, Goto, SetLocals
    <2> QED BY <1>0, <1>b, <2>2, <2>3, <2>5, <2>6 DEF CreditInv, CountInv
  <1>5. CASE Sweep(t)
    <2>1. PICK deferred \in BOOLEAN : SetLocals(t, [loc[t] EXCEPT !.deferred = deferred])
      BY <1>5 DEF Sweep
    <2> DEFINE l == [loc[t] EXCEPT !.deferred = deferred]
               label == IF ~loc[t].already THEN "credit" ELSE "remove"
    <2>2. l.entry = loc[t].entry /\ l.already = loc[t].already
      BY <1>0 DEF Locals
    <2>3. /\ pc[t] = "sweep" /\ mem' = mem /\ lock' = lock /\ credits' = credits /\ faults' = faults
          /\ Goto(t, label) /\ SetLocals(t, l)
      BY <1>5, <2>1 DEF Sweep, backendVars
    <2>4. /\ label \in Undelivered \cup {"detect", "notified", "credit"} => ~loc[t].already
          /\ label # "record"
      BY DEF Undelivered
    <2> HIDE DEF l, label
    <2>5. LockInv' /\ FreshInv'
      BY <1>b, <1>2, <2>2, <2>3, <2>4, HolderStep DEF FreshInv, Undelivered
    <2>6. \A id \in EventIds : Accounted(id) => Accounted(id)'
      BY <1>0, <2>3 DEF Accounted, Goto, SetLocals
    <2> QED BY <1>b, <2>3, <2>5, <2>6 DEF CreditInv, CountInv
  <1>6. CASE SendCredited(t)
    <2> DEFINE id0 == loc[t].entry.id
    <2>1. PICK o \in Outcomes :
            /\ Outcome(o)
            /\ IF o = "refused" THEN UNCHANGED <<credits, paid>>
               ELSE /\ credits' = [credits EXCEPT ![id0] = @ + 1]
                    /\ paid' = paid \cup {loc[t].entry.dep}
            /\ Goto(t, IF o = "acked" THEN "record" ELSE "next")
            /\ SetLocals(t, IF o = "acked" THEN loc[t] ELSE EntryDone(t))
      BY <1>6 DEF SendCredited
    <2>2. pc[t] = "credit" /\ mem' = mem /\ lock' = lock
      BY <1>6 DEF SendCredited
    <2>3. /\ faults' = IF o = "lost" THEN faults + 1 ELSE faults
          /\ o \in {"acked", "lost", "refused"}
      BY <2>1 DEF Outcome, Fault, Outcomes
    <2>4. "record" \notin Undelivered \cup {"detect", "notified", "credit"}
      BY DEF Undelivered
    <2>5. LockInv' /\ FreshInv'
      BY <1>a, <1>2, <2>1, <2>2, <2>4, HolderStep
    <2>6. ~Accounted(id0)
      <3>1. id0 \notin mem.credited
        BY <1>b, <2>2 DEF FreshInv, Undelivered
      <3>2. \A u \in Tasks : pc[u] # "record"
        BY <1>2, <1>a, <2>2
      <3> QED BY <3>1, <3>2 DEF Accounted
    <2>7. \A id \in EventIds : Accounted(id) => Accounted(id)'
      BY <1>0, <2>1, <2>2 DEF Accounted, Goto, SetLocals
    <2>8. \A id \in EventIds : id = id0 /\ o = "acked" => Accounted(id)'
      BY <1>0, <2>1 DEF Accounted, Goto, SetLocals
    <2>9. CountInv'
      <3>1. \A id \in EventIds : id # id0 => credits'[id] = credits[id]
        BY <1>0, <2>1
      <3>2. credits[id0] <= faults
        BY <1>b, <1>1, <2>6 DEF CountInv
      <3>3. credits'[id0] = IF o = "refused" THEN credits[id0] ELSE credits[id0] + 1
        BY <1>0, <1>1, <2>1
      <3> HIDE DEF id0
      <3>4. ASSUME NEW id \in EventIds
            PROVE  /\ credits'[id] <= 1 + faults'
                   /\ ~Accounted(id)' => credits'[id] <= faults'
        <4>1. credits[id] \in Nat /\ credits[id] <= 1 + faults
              /\ (~Accounted(id) => credits[id] <= faults)
          BY <1>0, <1>b DEF CountInv
        <4>2. CASE id # id0
          BY <1>0, <2>3, <2>7, <3>1, <4>1, <4>2
        <4>3. CASE id = id0
          <5>1. credits[id] <= faults
            BY <3>2, <4>3
          <5>2. credits'[id] = IF o = "refused" THEN credits[id] ELSE credits[id] + 1
            BY <3>3, <4>3
          <5>3. o = "acked" => Accounted(id)'
            BY <2>8, <4>3
          <5> HIDE DEF Accounted
          <5> QED BY <1>0, <2>3, <4>1, <5>1, <5>2, <5>3
        <4> QED BY <4>2, <4>3
      <3> QED BY <3>4 DEF CountInv
    <2> QED BY <2>5, <2>9 DEF CreditInv
  <1>7. CASE RecordCredited(t)
    <2>1. PICK ok \in BOOLEAN :
            /\ SaveState(ok)
            /\ Goto(t, IF ok THEN "remove" ELSE "next")
            /\ SetLocals(t, IF ok THEN loc[t] ELSE EntryDone(t))
      BY <1>7 DEF RecordCredited
    <2>2. /\ pc[t] = "record" /\ lock' = lock /\ credits' = credits
          /\ mem'.credited = mem.credited \cup {loc[t].entry.id}
      BY <1>0, <1>7 DEF RecordCredited, backendVars, MarkCredited, Store
    <2>3. faults' \in Nat /\ faults' >= faults
      BY <2>1, SaveCounts
    <2>4. "remove" \notin Undelivered \cup {"detect", "notified", "credit"}
      BY DEF Undelivered
    <2>5. LockInv' /\ FreshInv'
      BY <1>a, <1>2, <2>1, <2>2, <2>4, HolderStep
    <2>6. \A id \in EventIds : Accounted(id) => Accounted(id)'
      BY <1>0, <2>1, <2>2 DEF Accounted, Goto, SetLocals
    <2> QED BY <1>0, <1>b, <2>2, <2>3, <2>5, <2>6 DEF CreditInv, CountInv
  <1>8. CASE EntryFinish(t)
    <2>1. PICK ok \in BOOLEAN :
            IF loc[t].deferred
            THEN ok /\ UNCHANGED <<mem, disk, faults>>
            ELSE mem' = DropEntry(mem, loc[t].entry.id) /\ SaveState(ok)
      BY <1>8 DEF EntryFinish
    <2>2. /\ pc[t] = "remove" /\ lock' = lock /\ credits' = credits
          /\ Goto(t, "next") /\ SetLocals(t, EntryDone(t))
      BY <1>8 DEF EntryFinish, backendVars
    <2>3. mem'.credited = mem.credited
      BY <1>0, <2>1, HelpersKeepCredits
    <2>4. faults' \in Nat /\ faults' >= faults
      BY <1>0, <2>1, SaveCounts
    <2>5. LockInv' /\ FreshInv'
      BY <1>a, <1>2, <2>2, HolderStep
    <2>6. \A id \in EventIds : Accounted(id) => Accounted(id)'
      BY <1>0, <2>2, <2>3 DEF Accounted, Goto, SetLocals
    <2> QED BY <1>0, <1>b, <2>2, <2>3, <2>4, <2>5, <2>6 DEF CreditInv, CountInv
  <1> QED BY <1>3, <1>4, <1>5, <1>6, <1>7, <1>8

LEMMA EnvironmentCredit ==
    ASSUME TypeInv, CreditInv, Mine \/ Reorg \/ Crash
    PROVE  CreditInv'
  <1>1. CASE Mine \/ Reorg
    <2>1. UNCHANGED <<mem, pc, loc, lock, credits, faults>>
      BY <1>1 DEF Mine, Reorg, backendVars
    <2> QED BY <2>1 DEF CreditInv, LockInv, FreshInv, CountInv, Accounted
  <1>2. CASE Crash
    <2>1. \A t \in Tasks : pc'[t] \in {"start", "idle"}
      BY <1>2 DEF Crash
    <2>2. LockInv' /\ FreshInv'
      BY <2>1 DEF LockInv, FreshInv, Critical, EntryLabels, Undelivered
    <2>3. faults' = faults + 1 /\ credits' = credits
      BY <1>2 DEF Crash, Fault, backendVars
    <2>4. CountInv'
      BY <2>3 DEF CreditInv, CountInv, TypeInv, TypeOK
    <2> QED BY <2>2, <2>4 DEF CreditInv
  <1> QED BY <1>1, <1>2

LEMMA CreditStep == TypeInv /\ CreditInv /\ [Next]_vars => CreditInv'
  <1> SUFFICES ASSUME TypeInv, CreditInv, [Next]_vars PROVE CreditInv'
    OBVIOUS
  <1>1. CASE Mine \/ Reorg \/ Crash
    BY <1>1, EnvironmentCredit
  <1>2. CASE ScanStep
    BY <1>2, ScanCredit
  <1>3. ASSUME NEW t \in Recoverers, RecoverStep(t) PROVE CreditInv'
    BY <1>3, RecoverCredit
  <1>4. ASSUME NEW t \in Tasks, OutboxStep(t) PROVE CreditInv'
    BY <1>4, QueueCredit, DeliveryCredit DEF OutboxStep
  <1>5. CASE UNCHANGED vars
    BY <1>5 DEF vars, backendVars, CreditInv, LockInv, FreshInv, CountInv, Accounted
  <1> QED BY <1>1, <1>2, <1>3, <1>4, <1>5 DEF Next

\* The credit of an event id reaches the backend once, and once more at most for
\* each crash, failed save or lost reply: process_confirmed decides from a copy
\* and an earlier read of notified_confirmed, and credit_lock keeps both valid.
THEOREM CreditedOnce == Spec => []CreditedOncePerFault
  <1>1. Spec => [](TypeInv /\ CreditInv)
    BY TypeInit, TypeStep, CreditInit, CreditStep, PTL DEF Spec
  <1>2. CreditInv => CreditedOncePerFault
    BY DEF CreditInv, CountInv, CreditedOncePerFault
  <1> QED BY <1>1, <1>2, PTL

----------------------------------------------------------------------------
(* Announcements *)

Announced(E) == \A e \in E : e.notified => e.id \in detected

\* A detected_notified flag is true of the backend wherever it is: in memory, in
\* the state file, in a copy of the queue; and so is the progress of a task.
FlagInv ==
    /\ Announced(mem.pending) /\ Announced(disk.pending)
    /\ \A t \in Tasks : Announced(loc[t].todo)
ProgressInv ==
    \A t \in Tasks :
        \/ pc[t] \in {"notified", "credit"}
        \/ pc[t] = "sweep" /\ ~loc[t].already
        => loc[t].entry.id \in detected

NotifyInv == FlagInv /\ ProgressInv /\ DetectedBeforeCredited

LEMMA LoadStateFlags ==
    ASSUME NEW s \in Store(FileEntry), NEW D \in SUBSET EventIds,
           \A e \in s.pending : e.notified => e.id \in D
    PROVE  \A e \in LoadState(s).pending : e.notified => e.id \in D
  <1> DEFINE f(e) == [e EXCEPT !.id = IF @ = NoId THEN TxOf[e.dep] ELSE @]
  <1>1. LoadState(s).pending = {f(e) : e \in s.pending}
    BY DEF LoadState, Store
  <1>2. \A e \in s.pending : f(e).notified => f(e).id \in D
    BY IdAssumption DEF Store, FileEntry, EventIds
  <1> HIDE DEF f
  <1> QED BY <1>1, <1>2

LEMMA HelperFlags ==
    ASSUME NEW s \in Store(Entry)
    PROVE  /\ \A from, cur : RollBack(s, from, cur).pending \subseteq s.pending
           /\ \A h, era : Advance(s, h, era).pending = s.pending
           /\ \A id : DropEntry(s, id).pending \subseteq s.pending
           /\ \A id : MarkCredited(s, id).pending = s.pending
           /\ \A deps, h : \A e \in Enqueue(s, deps, h).pending : e.notified => e \in s.pending
           /\ \A id : \A r \in NotifiedStores(s, id) : \A e \in r.pending : e \in s.pending \/ e.id = id
  <1>1. /\ \A from, cur : RollBack(s, from, cur).pending \subseteq s.pending
        /\ \A h, era : Advance(s, h, era).pending = s.pending
        /\ \A id : DropEntry(s, id).pending \subseteq s.pending
        /\ \A id : MarkCredited(s, id).pending = s.pending
    BY DEF Store, RollBack, Advance, DropEntry, MarkCredited
  <1>2. \A deps, h : \A e \in Enqueue(s, deps, h).pending : e.notified => e \in s.pending
    BY DEF Store, Enqueue
  <1>3. \A id : \A r \in NotifiedStores(s, id) : \A e \in r.pending : e \in s.pending \/ e.id = id
    BY DEF Store, Entry, NotifiedStores
  <1> QED BY <1>1, <1>2, <1>3

LEMMA NotifyInit == Init => NotifyInv
  <1> SUFFICES ASSUME Init PROVE NotifyInv
    OBVIOUS
  <1>1. \A e \in disk.pending : ~e.notified
    BY DEF Init, FirstFile, LegacyEntry
  <1>2. TypeOK
    BY TypeInit DEF TypeInv
  <1>3. disk.pending = FirstFile.pending /\ mem = LoadState(disk) /\ disk \in Store(FileEntry)
    BY <1>2 DEF Init, TypeOK
  <1>4. \A e \in mem.pending : e.notified => e.id \in {}
    <2> DEFINE D == {}
    <2>1. D \in SUBSET EventIds /\ \A e \in disk.pending : e.notified => e.id \in D
      BY <1>1
    <2> HIDE DEF D
    <2>2. \A e \in LoadState(disk).pending : e.notified => e.id \in D
      BY <1>3, <2>1, LoadStateFlags
    <2> QED BY <1>3, <2>2 DEF D
  <1> QED BY <1>1, <1>4 DEF Init, NotifyInv, FlagInv, ProgressInv, Announced, DetectedBeforeCredited, InitLocals

\* A step of task t that announces at most its own entry and credits nothing.
LEMMA NotifyTask ==
    ASSUME TypeInv, NotifyInv, NEW t \in Tasks, NEW label, NEW l,
           Goto(t, label), SetLocals(t, l), detected \subseteq detected',
           Announced(mem.pending)', Announced(disk.pending)',
           \A e \in l.todo : e.notified => e.id \in detected,
           (label \in {"notified", "credit"} \/ (label = "sweep" /\ ~l.already))
              => l.entry.id \in detected',
           DetectedBeforeCredited'
    PROVE  NotifyInv'
  <1> USE DEF TypeInv, TypeOK, Goto, SetLocals
  <1>1. \A u \in Tasks : /\ pc'[u] = IF u = t THEN label ELSE pc[u]
                         /\ loc'[u] = IF u = t THEN l ELSE loc[u]
    OBVIOUS
  <1>2. FlagInv'
    BY <1>1 DEF NotifyInv, FlagInv, Announced
  <1>3. ProgressInv'
    BY <1>1 DEF NotifyInv, ProgressInv
  <1> QED BY <1>2, <1>3 DEF NotifyInv

\* Saving keeps the flags true.
LEMMA SaveFlags ==
    ASSUME NotifyInv, detected \subseteq detected', Announced(mem.pending)',
           NEW ok \in BOOLEAN, SaveState(ok)
    PROVE  Announced(disk.pending)'
  BY DEF NotifyInv, FlagInv, Announced, SaveState

LEMMA ScanNotify ==
    ASSUME TypeInv, NotifyInv, ScanStep
    PROVE  NotifyInv'
  <1>0. /\ Scanner \in Tasks /\ mem \in Store(Entry)
        /\ pc \in [Tasks -> Labels] /\ loc \in [Tasks -> Locals] /\ loc[Scanner] \in Locals
    BY DEF TypeInv, TypeOK
  <1>1. UNCHANGED <<detected, credits>>
    BY DEF ScanStep, ScanStart, ScanTip, ScanReorg, ScanRollback, ScanFetch, ScanAdvance, backendVars
  <1>2. mem'.pending \subseteq mem.pending
    <2>1. CASE ScanStart
      BY <1>0, <2>1 DEF ScanStart, Store
    <2>2. CASE ScanTip \/ ScanReorg \/ ScanFetch
      BY <2>2 DEF ScanTip, ScanReorg, ScanFetch
    <2>3. CASE ScanRollback
      BY <1>0, <2>3, HelperFlags DEF ScanRollback
    <2>4. CASE ScanAdvance
      BY <1>0, <2>4, HelperFlags DEF ScanAdvance
    <2> QED BY <2>1, <2>2, <2>3, <2>4 DEF ScanStep
  <1>3. Announced(mem.pending)'
    BY <1>1, <1>2 DEF NotifyInv, FlagInv, Announced
  <1>4. Announced(disk.pending)'
    <2>1. (\E ok \in BOOLEAN : SaveState(ok)) \/ disk' = disk
      BY DEF ScanStep, ScanStart, ScanTip, ScanReorg, ScanRollback, ScanFetch, ScanAdvance
    <2>2. CASE disk' = disk
      BY <1>1, <2>2 DEF NotifyInv, FlagInv, Announced
    <2> QED BY <1>1, <1>3, <2>1, <2>2, SaveFlags
  <1>5. DetectedBeforeCredited'
    BY <1>1 DEF NotifyInv, DetectedBeforeCredited
  <1>6. PICK label, l :
          /\ Goto(Scanner, label) /\ SetLocals(Scanner, l)
          /\ label \notin {"notified", "credit", "sweep"}
          /\ l.todo \subseteq loc[Scanner].todo
    <2>1. pc = [pc EXCEPT ![Scanner] = pc[Scanner]] /\ loc = [loc EXCEPT ![Scanner] = loc[Scanner]]
      BY <1>0
    <2>2. InitLocals.todo = {} /\ [InitLocals EXCEPT !.cur = FirstHeight].todo = {}
      BY DEF InitLocals
    <2>3. CASE ScanStart
      BY <2>2, <2>3 DEF ScanStart
    <2>4. CASE ScanTip
      <3>1. [loc[Scanner] EXCEPT !.tip = best, !.depth = 0].todo = loc[Scanner].todo
        BY <1>0 DEF Locals
      <3> QED BY <2>4, <3>1 DEF ScanTip
    <2>5. CASE ScanReorg
      <3>1. [loc[Scanner] EXCEPT !.depth = @ + 1].todo = loc[Scanner].todo
        BY <1>0 DEF Locals
      <3>2. \/ SetLocals(Scanner, [loc[Scanner] EXCEPT !.depth = @ + 1]) /\ UNCHANGED pc
            \/ UNCHANGED loc /\ \E label \in {"rollback", "fetch"} : Goto(Scanner, label)
        BY <2>5 DEF ScanReorg
      <3>3. pc[Scanner] = "reorg"
        BY <2>5 DEF ScanReorg
      <3>4. CASE SetLocals(Scanner, [loc[Scanner] EXCEPT !.depth = @ + 1]) /\ UNCHANGED pc
        BY <2>1, <3>1, <3>3, <3>4 DEF Goto
      <3>5. CASE UNCHANGED loc /\ \E label \in {"rollback", "fetch"} : Goto(Scanner, label)
        BY <2>1, <3>5 DEF SetLocals
      <3> QED BY <3>2, <3>4, <3>5
    <2>6. CASE ScanRollback
      <3>1. \A c : [loc[Scanner] EXCEPT !.cur = c, !.depth = 0].todo = loc[Scanner].todo
        BY <1>0 DEF Locals
      <3> QED BY <2>6, <3>1 DEF ScanRollback
    <2>7. CASE ScanFetch
      <3>1. \A x, D : [loc[Scanner] EXCEPT !.era = x, !.found = D].todo = loc[Scanner].todo
        BY <1>0 DEF Locals
      <3>2. \/ UNCHANGED loc /\ Goto(Scanner, "tip")
            \/ \E x, D : \E label \in {"lock", "enqueue"} :
                  SetLocals(Scanner, [loc[Scanner] EXCEPT !.era = x, !.found = D]) /\ Goto(Scanner, label)
        BY <2>7 DEF ScanFetch
      <3>3. CASE UNCHANGED loc /\ Goto(Scanner, "tip")
        <4>1. SetLocals(Scanner, loc[Scanner])
          BY <2>1, <3>3 DEF SetLocals
        <4> QED BY <3>3, <4>1
      <3>4. ASSUME NEW x, NEW D, NEW label \in {"lock", "enqueue"}, Goto(Scanner, label),
                   SetLocals(Scanner, [loc[Scanner] EXCEPT !.era = x, !.found = D])
            PROVE  \E l : /\ Goto(Scanner, label) /\ SetLocals(Scanner, l)
                          /\ label \notin {"notified", "credit", "sweep"}
                          /\ l.todo \subseteq loc[Scanner].todo
        BY <3>1, <3>4
      <3> QED BY <3>2, <3>3, <3>4
    <2>8. CASE ScanAdvance
      <3>1. [loc[Scanner] EXCEPT !.cur = @ + 1, !.era = 0].todo = loc[Scanner].todo
        BY <1>0 DEF Locals
      <3>2. \/ /\ SetLocals(Scanner, [loc[Scanner] EXCEPT !.cur = @ + 1, !.era = 0])
               /\ \E label \in {"reorg", "tip"} : Goto(Scanner, label)
            \/ SetLocals(Scanner, InitLocals) /\ Goto(Scanner, "start")
        BY <2>8 DEF ScanAdvance
      <3> QED BY <2>2, <3>1, <3>2
    <2> QED BY <2>3, <2>4, <2>5, <2>6, <2>7, <2>8 DEF ScanStep
  <1>7. \A e \in l.todo : e.notified => e.id \in detected
    BY <1>0, <1>6 DEF NotifyInv, FlagInv, Announced
  <1> QED BY <1>0, <1>1, <1>3, <1>4, <1>5, <1>6, <1>7, NotifyTask

LEMMA RecoverNotify ==
    ASSUME TypeInv, NotifyInv, NEW t \in Recoverers, RecoverStep(t)
    PROVE  NotifyInv'
  <1>0. t \in Tasks /\ loc[t] \in Locals
    BY DEF TypeInv, TypeOK
  <1>1. UNCHANGED <<mem, disk, detected, credits>>
    BY DEF RecoverStep, RecoverFetch, RecoverTip, backendVars
  <1>2. /\ Announced(mem.pending)' /\ Announced(disk.pending)' /\ DetectedBeforeCredited'
    BY <1>1 DEF NotifyInv, FlagInv, Announced, DetectedBeforeCredited
  <1>3. PICK label, l :
          /\ Goto(t, label) /\ SetLocals(t, l) /\ l.todo \subseteq loc[t].todo
          /\ label \in {"rtip", "enqueue"}
    <2>1. \A c, D : [InitLocals EXCEPT !.cur = c, !.found = D].todo = {}
      BY DEF InitLocals
    <2>2. [loc[t] EXCEPT !.tip = best].todo = loc[t].todo
      BY <1>0 DEF Locals
    <2>3. CASE RecoverFetch(t)
      BY <2>1, <2>3 DEF RecoverFetch
    <2>4. CASE RecoverTip(t)
      BY <2>2, <2>4 DEF RecoverTip
    <2> QED BY <2>3, <2>4 DEF RecoverStep
  <1>4. \A e \in l.todo : e.notified => e.id \in detected
    BY <1>0, <1>3 DEF NotifyInv, FlagInv, Announced
  <1> QED BY <1>0, <1>1, <1>2, <1>3, <1>4, NotifyTask

LEMMA QueueNotify ==
    ASSUME TypeInv, NotifyInv, NEW t \in Tasks,
           EnqueuePush(t) \/ EnqueueSave(t) \/ CreditsLock(t) \/ CreditsClone(t)
             \/ CreditsRelease(t) \/ EntryStart(t)
    PROVE  NotifyInv'
  <1>0. mem \in Store(Entry) /\ loc \in [Tasks -> Locals] /\ loc[t] \in Locals
    BY DEF TypeInv, TypeOK
  <1>1. UNCHANGED <<detected, credits>>
    BY DEF EnqueuePush, EnqueueSave, CreditsLock, CreditsClone, CreditsRelease, EntryStart, backendVars
  <1>2. Announced(mem.pending)'
    <2>1. CASE EnqueuePush(t)
      BY <1>0, <1>1, <2>1, HelperFlags DEF EnqueuePush, NotifyInv, FlagInv, Announced
    <2>2. CASE mem' = mem
      BY <1>1, <2>2 DEF NotifyInv, FlagInv, Announced
    <2> QED BY <2>1, <2>2 DEF EnqueueSave, CreditsLock, CreditsClone, CreditsRelease, EntryStart
  <1>3. Announced(disk.pending)'
    <2>1. (\E ok \in BOOLEAN : SaveState(ok)) \/ disk' = disk
      BY DEF EnqueuePush, EnqueueSave, CreditsLock, CreditsClone, CreditsRelease, EntryStart
    <2>2. CASE disk' = disk
      BY <1>1, <2>2 DEF NotifyInv, FlagInv, Announced
    <2> QED BY <1>1, <1>2, <2>1, <2>2, SaveFlags
  <1>4. DetectedBeforeCredited'
    BY <1>1 DEF NotifyInv, DetectedBeforeCredited
  <1>5. /\ \A e \in loc[t].todo : e.notified => e.id \in detected
        /\ \A e \in mem.pending : e.notified => e.id \in detected
    BY DEF NotifyInv, FlagInv, Announced
  <1>6. InitLocals.todo = {} /\ AfterCredits(t) \notin {"notified", "credit", "sweep"}
    BY DEF InitLocals, AfterCredits
  <1>7. CASE EnqueuePush(t)
    <2>1. [loc[t] EXCEPT !.found = {}].todo = loc[t].todo
      BY <1>0 DEF Locals
    <2> QED BY <1>1, <1>2, <1>3, <1>4, <1>5, <1>7, <2>1, NotifyTask DEF EnqueuePush
  <1>8. CASE EnqueueSave(t)
    <2>1. \E l \in {loc[t], InitLocals}, label \in {"lock", "start", "idle"} : Goto(t, label) /\ SetLocals(t, l)
      BY <1>8 DEF EnqueueSave
    <2> QED BY <1>1, <1>2, <1>3, <1>4, <1>5, <1>6, <2>1, NotifyTask
  <1>9. CASE CreditsLock(t)
    <2>1. \E l \in {loc[t], InitLocals}, label \in {"clone", AfterCredits(t)} : Goto(t, label) /\ SetLocals(t, l)
      BY <1>9 DEF CreditsLock
    <2> QED BY <1>1, <1>2, <1>3, <1>4, <1>5, <1>6, <2>1, NotifyTask
  <1>10. CASE CreditsClone(t)
    <2>1. [loc[t] EXCEPT !.todo = mem.pending].todo = mem.pending
      BY <1>0 DEF Locals
    <2> QED BY <1>1, <1>2, <1>3, <1>4, <1>5, <1>10, <2>1, NotifyTask DEF CreditsClone
  <1>11. CASE CreditsRelease(t)
    <2>1. \E l \in {loc[t], InitLocals} : Goto(t, AfterCredits(t)) /\ SetLocals(t, l)
      BY <1>11 DEF CreditsRelease
    <2> QED BY <1>1, <1>2, <1>3, <1>4, <1>5, <1>6, <2>1, NotifyTask
  <1>12. CASE EntryStart(t)
    <2>1. PICK e \in loc[t].todo :
            LET already == IsCredited(mem, e.dep, e.id)
                started == [loc[t] EXCEPT !.todo = @ \ {e}, !.entry = e, !.already = already]
            IN IF ~e.notified /\ ~already
               THEN Goto(t, "detect") /\ SetLocals(t, started)
               ELSE IF Confirmed(e, loc[t].tip)
               THEN Goto(t, "sweep") /\ SetLocals(t, started)
               ELSE /\ Goto(t, "next")
                    /\ SetLocals(t, [loc[t] EXCEPT !.todo = @ \ {e}])
      BY <1>12 DEF EntryStart
    <2> DEFINE already == IsCredited(mem, e.dep, e.id)
               started == [loc[t] EXCEPT !.todo = @ \ {e}, !.entry = e, !.already = already]
               passed == [loc[t] EXCEPT !.todo = @ \ {e}]
    <2>2. already \in BOOLEAN /\ e \in Entry
      BY <1>0 DEF IsCredited, Locals
    <2>3. /\ started.already = already /\ started.entry = e
          /\ started.todo \subseteq loc[t].todo /\ passed.todo \subseteq loc[t].todo
      <3> HIDE DEF already
      <3> QED BY <1>0, <2>2 DEF Locals
    <2>4. \/ (Goto(t, "detect") /\ SetLocals(t, started))
          \/ (Goto(t, "sweep") /\ SetLocals(t, started) /\ (already \/ e.notified))
          \/ (Goto(t, "next") /\ SetLocals(t, passed))
      BY <2>1, <2>2 DEF Entry
    <2>5. already \/ e.notified => (already \/ e.id \in detected)
      BY <1>5
    <2> HIDE DEF already, started, passed
    <2>6. CASE Goto(t, "detect") /\ SetLocals(t, started)
      BY <1>1, <1>2, <1>3, <1>4, <1>5, <2>3, <2>6, NotifyTask
    <2>7. CASE Goto(t, "sweep") /\ SetLocals(t, started) /\ (already \/ e.notified)
      BY <1>1, <1>2, <1>3, <1>4, <1>5, <2>3, <2>5, <2>7, NotifyTask
    <2>8. CASE Goto(t, "next") /\ SetLocals(t, passed)
      BY <1>1, <1>2, <1>3, <1>4, <1>5, <2>3, <2>8, NotifyTask
    <2> QED BY <2>4, <2>6, <2>7, <2>8
  <1> QED BY <1>7, <1>8, <1>9, <1>10, <1>11, <1>12

LEMMA DeliveryNotify ==
    ASSUME TypeInv, NotifyInv, NEW t \in Tasks,
           SendDetected(t) \/ RecordDetected(t) \/ Sweep(t) \/ SendCredited(t)
             \/ RecordCredited(t) \/ EntryFinish(t)
    PROVE  NotifyInv'
  <1>0. /\ mem \in Store(Entry) /\ loc \in [Tasks -> Locals] /\ loc[t] \in Locals
        /\ credits \in [EventIds -> Nat] /\ detected \subseteq EventIds
    BY DEF TypeInv, TypeOK
  <1>1. detected \subseteq detected'
    BY DEF SendDetected, RecordDetected, Sweep, SendCredited, RecordCredited, EntryFinish, backendVars
  <1>2. Announced(mem.pending)'
    <2>1. CASE RecordDetected(t)
      <3>1. loc[t].entry.id \in detected
        BY <2>1 DEF NotifyInv, ProgressInv, RecordDetected
      <3> QED BY <1>0, <1>1, <2>1, <3>1, HelperFlags DEF RecordDetected, NotifyInv, FlagInv, Announced
    <2>2. CASE ~RecordDetected(t)
      <3>1. mem'.pending \subseteq mem.pending
        <4>1. CASE mem' = mem
          BY <4>1
        <4>2. CASE mem' = MarkCredited(mem, loc[t].entry.id) \/ mem' = DropEntry(mem, loc[t].entry.id)
          BY <1>0, <4>2, HelperFlags
        <4> QED BY <2>2, <4>1, <4>2 DEF SendDetected, Sweep, SendCredited, RecordCredited, EntryFinish
      <3> QED BY <1>1, <3>1 DEF NotifyInv, FlagInv, Announced
    <2> QED BY <2>1, <2>2
  <1>3. Announced(disk.pending)'
    <2>1. (\E ok \in BOOLEAN : SaveState(ok)) \/ disk' = disk
      BY DEF SendDetected, RecordDetected, Sweep, SendCredited, RecordCredited, EntryFinish
    <2>2. CASE disk' = disk
      BY <1>1, <2>2 DEF NotifyInv, FlagInv, Announced
    <2> QED BY <1>1, <1>2, <2>1, <2>2, SaveFlags
  <1>4. DetectedBeforeCredited'
    <2>1. CASE SendCredited(t)
      <3>1. loc[t].entry.id \in detected
        BY <2>1 DEF NotifyInv, ProgressInv, SendCredited
      <3>2. \A id \in EventIds : credits'[id] = credits[id] \/ id = loc[t].entry.id
        BY <1>0, <2>1 DEF SendCredited
      <3> QED BY <1>1, <3>1, <3>2 DEF NotifyInv, DetectedBeforeCredited
    <2>2. CASE credits' = credits
      BY <1>1, <2>2 DEF NotifyInv, DetectedBeforeCredited
    <2> QED BY <2>1, <2>2 DEF SendDetected, RecordDetected, Sweep, RecordCredited, EntryFinish, backendVars
  <1>5. \A e \in loc[t].todo : e.notified => e.id \in detected
    BY DEF NotifyInv, FlagInv, Announced
  <1>6. EntryDone(t).todo = loc[t].todo
    BY <1>0 DEF EntryDone, Locals
  <1>7. CASE SendDetected(t)
    <2>1. \/ Goto(t, "next") /\ SetLocals(t, EntryDone(t))
          \/ Goto(t, "notified") /\ SetLocals(t, loc[t]) /\ loc[t].entry.id \in detected'
      BY <1>7 DEF SendDetected
    <2> QED BY <1>1, <1>2, <1>3, <1>4, <1>5, <1>6, <2>1, NotifyTask
  <1>8. CASE RecordDetected(t)
    <2>1. loc[t].entry.id \in detected
      BY <1>8 DEF NotifyInv, ProgressInv, RecordDetected
    <2>2. \/ Goto(t, "next") /\ SetLocals(t, EntryDone(t))
          \/ Goto(t, "sweep") /\ SetLocals(t, loc[t])
      BY <1>8 DEF RecordDetected
    <2> QED BY <1>1, <1>2, <1>3, <1>4, <1>5, <1>6, <2>1, <2>2, NotifyTask
  <1>9. CASE Sweep(t)
    <2>1. PICK deferred \in BOOLEAN : SetLocals(t, [loc[t] EXCEPT !.deferred = deferred])
      BY <1>9 DEF Sweep
    <2> DEFINE l == [loc[t] EXCEPT !.deferred = deferred]
    <2>2. l.todo = loc[t].todo /\ l.entry = loc[t].entry
      BY <1>0 DEF Locals
    <2>3. \/ Goto(t, "credit") /\ ~loc[t].already
          \/ Goto(t, "remove")
      BY <1>9 DEF Sweep
    <2>4. ~loc[t].already => loc[t].entry.id \in detected
      BY <1>9 DEF NotifyInv, ProgressInv, Sweep
    <2>5. SetLocals(t, l)
      BY <2>1
    <2> HIDE DEF l
    <2> QED BY <1>1, <1>2, <1>3, <1>4, <1>5, <2>2, <2>3, <2>4, <2>5, NotifyTask
  <1>10. CASE SendCredited(t) \/ RecordCredited(t) \/ EntryFinish(t)
    <2>1. \E l \in {loc[t], EntryDone(t)}, label \in {"record", "remove", "next"} :
            Goto(t, label) /\ SetLocals(t, l)
      BY <1>10 DEF SendCredited, RecordCredited, EntryFinish
    <2> QED BY <1>1, <1>2, <1>3, <1>4, <1>5, <1>6, <2>1, NotifyTask
  <1> QED BY <1>7, <1>8, <1>9, <1>10

LEMMA EnvironmentNotify ==
    ASSUME TypeInv, NotifyInv, Mine \/ Reorg \/ Crash
    PROVE  NotifyInv'
  <1>1. CASE Mine \/ Reorg
    <2>1. UNCHANGED <<mem, disk, pc, loc, detected, credits>>
      BY <1>1 DEF Mine, Reorg, backendVars
    <2> QED BY <2>1 DEF NotifyInv, FlagInv, ProgressInv, Announced, DetectedBeforeCredited
  <1>2. CASE Crash
    <2>1. UNCHANGED <<disk, detected, credits>> /\ mem' = LoadState(disk)
      BY <1>2 DEF Crash, backendVars
    <2>2. \A e \in mem'.pending : e.notified => e.id \in detected
      BY <2>1, LoadStateFlags DEF NotifyInv, FlagInv, Announced, TypeInv, TypeOK
    <2>3. \A t \in Tasks : pc'[t] \in {"start", "idle"} /\ loc'[t].todo = {}
      BY <1>2 DEF Crash, InitLocals
    <2> QED BY <2>1, <2>2, <2>3 DEF NotifyInv, FlagInv, ProgressInv, Announced, DetectedBeforeCredited
  <1> QED BY <1>1, <1>2

LEMMA NotifyStep == TypeInv /\ NotifyInv /\ [Next]_vars => NotifyInv'
  <1> SUFFICES ASSUME TypeInv, NotifyInv, [Next]_vars PROVE NotifyInv'
    OBVIOUS
  <1>1. CASE Mine \/ Reorg \/ Crash
    BY <1>1, EnvironmentNotify
  <1>2. CASE ScanStep
    BY <1>2, ScanNotify
  <1>3. ASSUME NEW t \in Recoverers, RecoverStep(t) PROVE NotifyInv'
    BY <1>3, RecoverNotify
  <1>4. ASSUME NEW t \in Tasks, OutboxStep(t) PROVE NotifyInv'
    BY <1>4, QueueNotify, DeliveryNotify DEF OutboxStep
  <1>5. CASE UNCHANGED vars
    BY <1>5 DEF vars, backendVars, NotifyInv, FlagInv, ProgressInv, Announced, DetectedBeforeCredited
  <1> QED BY <1>1, <1>2, <1>3, <1>4, <1>5 DEF Next

\* payment_detected of an event id reaches the backend before payment_credited
\* of it, for new and for legacy ids, across rollbacks that drop an entry,
\* rescans that queue it again, recoveries and restarts.
THEOREM DetectedFirst == Spec => []DetectedBeforeCredited
  <1>1. Spec => [](TypeInv /\ NotifyInv)
    BY TypeInit, TypeStep, NotifyInit, NotifyStep, PTL DEF Spec
  <1> QED BY <1>1, PTL DEF NotifyInv

----------------------------------------------------------------------------
(* The outbox implements PaymentOutbox.  Most steps neither send a webhook *)
(* nor touch what is credited: they are stutters, or faults when a save    *)
(* fails.  The crash needs that the file holds no credit memory does not.  *)

FileBehind == disk.credited \subseteq mem.credited
Implements == [Outbox!Next]_(Outbox!vars)

\* The file is left alone or written from memory; a failed save is a fault.
Kept ==
    /\ disk' \in {disk, mem'}
    /\ faults' \in {faults, faults + 1}

\* What a step outside the deliveries does to what the abstraction sees.
Plain == Kept /\ mem'.credited = mem.credited /\ UNCHANGED <<detected, credits>>

LEMMA SaveKept ==
    ASSUME NEW ok \in BOOLEAN, SaveState(ok)
    PROVE  Kept
  BY DEF SaveState, Fault, Kept

LEMMA PlainFile ==
    ASSUME FileBehind, Kept, mem.credited \subseteq mem'.credited
    PROVE  FileBehind'
  BY DEF FileBehind, Kept

LEMMA OthersStay ==
    ASSUME TypeInv, NEW t \in Tasks, NEW label, NEW l, Goto(t, label), SetLocals(t, l)
    PROVE  /\ pc'[t] = label /\ loc'[t] = l
           /\ \A u \in Tasks : u # t => pc'[u] = pc[u] /\ loc'[u] = loc[u]
  BY DEF Goto, SetLocals, TypeInv, TypeOK

LEMMA PlainImplements ==
    ASSUME TypeInv, FileBehind, NEW t \in Tasks, NEW label, NEW l,
           Goto(t, label), SetLocals(t, l), pc[t] # "record", label # "record", Plain
    PROVE  Implements /\ FileBehind'
  <1>1. Sealed' = Sealed
    <2>1. {u \in Tasks : pc'[u] = "record"} = {u \in Tasks : pc[u] = "record"}
      BY OthersStay
    <2>2. \A u \in Tasks : pc[u] = "record" => loc'[u] = loc[u]
      BY OthersStay
    <2> QED BY <2>1, <2>2 DEF Sealed, Plain
  <1>2. faults' = faults + 1 => Implements
    BY <1>1 DEF Plain, Implements, Outbox!Next, Outbox!Fault
  <1>3. faults' = faults => Implements
    BY <1>1 DEF Plain, Implements, Outbox!vars
  <1> QED BY <1>2, <1>3, PlainFile DEF Plain, Kept

LEMMA ScanImplements ==
    ASSUME TypeInv, FileBehind, ScanStep
    PROVE  Implements /\ FileBehind'
  <1>0. /\ Scanner \in Tasks /\ mem \in Store(Entry)
        /\ pc = [pc EXCEPT ![Scanner] = pc[Scanner]]
        /\ loc = [loc EXCEPT ![Scanner] = loc[Scanner]]
    BY DEF TypeInv, TypeOK
  <1> USE DEF backendVars
  <1>1. pc[Scanner] # "record"
    BY DEF ScanStep, ScanStart, ScanTip, ScanReorg, ScanRollback, ScanFetch, ScanAdvance
  <1>2. \E label, l : label # "record" /\ Goto(Scanner, label) /\ SetLocals(Scanner, l)
    <2>1. CASE ScanStart
      BY <2>1 DEF ScanStart
    <2>2. CASE ScanTip
      BY <2>2 DEF ScanTip
    <2>3. CASE ScanReorg
      <3>1. \/ pc[Scanner] = "reorg" /\ UNCHANGED pc /\ \E l : SetLocals(Scanner, l)
            \/ UNCHANGED loc /\ \E label \in {"rollback", "fetch"} : Goto(Scanner, label)
        BY <2>3 DEF ScanReorg
      <3> QED BY <1>0, <3>1 DEF Goto, SetLocals
    <2>4. CASE ScanRollback
      BY <2>4 DEF ScanRollback
    <2>5. CASE ScanFetch
      <3>1. \/ UNCHANGED loc /\ Goto(Scanner, "tip")
            \/ \E label \in {"lock", "enqueue"} : \E l : Goto(Scanner, label) /\ SetLocals(Scanner, l)
        BY <2>5 DEF ScanFetch
      <3> QED BY <1>0, <3>1 DEF SetLocals
    <2>6. CASE ScanAdvance
      BY <2>6 DEF ScanAdvance
    <2> QED BY <2>1, <2>2, <2>3, <2>4, <2>5, <2>6 DEF ScanStep
  <1>3. Plain
    <2>1. CASE ScanStart
      <3>1. mem'.credited = mem.credited
        BY <1>0, <2>1 DEF ScanStart, Store
      <3> QED BY <2>1, <3>1, SaveKept DEF ScanStart, Plain, Kept
    <2>2. CASE ScanTip \/ ScanReorg \/ ScanFetch
      BY <2>2 DEF ScanTip, ScanReorg, ScanFetch, Plain, Kept
    <2>3. CASE ScanRollback
      BY <1>0, <2>3, HelpersKeepCredits DEF ScanRollback, Plain, Kept
    <2>4. CASE ScanAdvance
      <3>1. mem'.credited = mem.credited
        BY <1>0, <2>4, HelpersKeepCredits DEF ScanAdvance
      <3> QED BY <2>4, <3>1, SaveKept DEF ScanAdvance, Plain
    <2> QED BY <2>1, <2>2, <2>3, <2>4 DEF ScanStep
  <1> QED BY <1>0, <1>1, <1>2, <1>3, PlainImplements

LEMMA RecoverImplements ==
    ASSUME TypeInv, FileBehind, NEW t \in Recoverers, RecoverStep(t)
    PROVE  Implements /\ FileBehind'
  <1>1. t \in Tasks /\ Plain /\ pc[t] # "record"
    BY DEF RecoverStep, RecoverFetch, RecoverTip, Plain, Kept, backendVars
  <1>2. \E label, l : label # "record" /\ Goto(t, label) /\ SetLocals(t, l)
    BY DEF RecoverStep, RecoverFetch, RecoverTip
  <1> QED BY <1>1, <1>2, PlainImplements

LEMMA QueueImplements ==
    ASSUME TypeInv, FileBehind, NEW t \in Tasks,
           EnqueuePush(t) \/ EnqueueSave(t) \/ CreditsLock(t) \/ CreditsClone(t)
             \/ CreditsRelease(t) \/ EntryStart(t)
    PROVE  Implements /\ FileBehind'
  <1>0. mem \in Store(Entry) /\ AfterCredits(t) \in {"idle", "tip", "advance"}
    BY DEF TypeInv, TypeOK, AfterCredits
  <1>1. pc[t] # "record"
    BY DEF EnqueuePush, EnqueueSave, CreditsLock, CreditsClone, CreditsRelease, EntryStart
  <1>2. \E label, l : label # "record" /\ Goto(t, label) /\ SetLocals(t, l)
    <2>1. CASE EnqueuePush(t) \/ EnqueueSave(t)
      BY <2>1 DEF EnqueuePush, EnqueueSave
    <2>2. CASE CreditsLock(t)
      BY <1>0, <2>2 DEF CreditsLock
    <2>3. CASE CreditsClone(t) \/ CreditsRelease(t)
      BY <1>0, <2>3 DEF CreditsClone, CreditsRelease
    <2>4. CASE EntryStart(t)
      <3>1. \E label \in {"detect", "sweep", "next"} : \E l : Goto(t, label) /\ SetLocals(t, l)
        BY <2>4 DEF EntryStart
      <3> QED BY <3>1
    <2> QED BY <2>1, <2>2, <2>3, <2>4
  <1>3. Plain
    <2> USE DEF backendVars
    <2>1. CASE EnqueuePush(t)
      BY <1>0, <2>1, HelpersKeepCredits DEF EnqueuePush, Plain, Kept
    <2>2. CASE EnqueueSave(t) \/ CreditsLock(t)
      BY <2>2, SaveKept DEF EnqueueSave, CreditsLock, Plain
    <2>3. CASE CreditsClone(t) \/ CreditsRelease(t) \/ EntryStart(t)
      BY <2>3 DEF CreditsClone, CreditsRelease, EntryStart, Plain, Kept
    <2> QED BY <2>1, <2>2, <2>3
  <1> QED BY <1>1, <1>2, <1>3, PlainImplements

LEMMA DeliveryImplements ==
    ASSUME TypeInv, CreditInv, NotifyInv, FileBehind, NEW t \in Tasks,
           SendDetected(t) \/ RecordDetected(t) \/ Sweep(t) \/ SendCredited(t)
             \/ RecordCredited(t) \/ EntryFinish(t)
    PROVE  Implements /\ FileBehind'
  <1> DEFINE id == loc[t].entry.id
  <1>0. /\ mem \in Store(Entry)
        /\ pc[t] \in EntryLabels => id \in EventIds
    BY DEF TypeInv, TypeOK, EntryInv, Entry
  <1>1. ASSUME NEW o \in Outcomes, Outcome(o)
        PROVE  faults' = IF o = "lost" THEN faults + 1 ELSE faults
    BY <1>1 DEF Outcome, Fault
  <1>2. ASSUME NEW label, NEW l, Goto(t, label), SetLocals(t, l),
               pc[t] # "record", label # "record", mem'.credited = mem.credited
        PROVE  Sealed' = Sealed
    <2>1. {u \in Tasks : pc'[u] = "record"} = {u \in Tasks : pc[u] = "record"}
      BY <1>2, OthersStay
    <2>2. \A u \in Tasks : pc[u] = "record" => loc'[u] = loc[u]
      BY <1>2, OthersStay
    <2> QED BY <1>2, <2>1, <2>2 DEF Sealed
  <1>3. CASE SendDetected(t)
    <2>1. PICK o \in Outcomes :
            /\ Outcome(o)
            /\ detected' = IF o = "refused" THEN detected ELSE detected \cup {id}
            /\ \E label \in {"notified", "next"} : \E l : Goto(t, label) /\ SetLocals(t, l)
      BY <1>3 DEF SendDetected
    <2>2. pc[t] = "detect" /\ UNCHANGED <<mem, disk, credits>> /\ id \in EventIds
      BY <1>0, <1>3 DEF SendDetected, EntryLabels
    <2>3. Sealed' = Sealed
      BY <1>2, <2>1, <2>2
    <2>4. CASE o # "refused"
      <3>1. Outbox!Announce(id)
        BY <1>1, <2>1, <2>2, <2>3, <2>4 DEF Outbox!Announce
      <3> QED BY <2>2, <3>1 DEF Implements, Outbox!Next, FileBehind
    <2>5. CASE o = "refused"
      BY <1>1, <2>1, <2>2, <2>3, <2>5 DEF Implements, Outbox!vars, FileBehind
    <2> QED BY <2>4, <2>5
  <1>4. CASE RecordDetected(t)
    <2>1. PICK ok \in BOOLEAN :
            /\ SaveState(ok)
            /\ \E label \in {"sweep", "next"} : \E l : Goto(t, label) /\ SetLocals(t, l)
      BY <1>4 DEF RecordDetected
    <2>2. /\ pc[t] = "notified" /\ mem' \in NotifiedStores(mem, id)
          /\ UNCHANGED <<detected, credits>>
      BY <1>4 DEF RecordDetected, backendVars
    <2>3. Plain
      BY <1>0, <2>1, <2>2, HelpersKeepCredits, SaveKept DEF Plain
    <2> QED BY <2>1, <2>2, <2>3, PlainImplements
  <1>5. CASE Sweep(t)
    <2>1. \E label \in {"credit", "remove"} : \E l : Goto(t, label) /\ SetLocals(t, l)
      BY <1>5 DEF Sweep
    <2>2. Plain /\ pc[t] = "sweep"
      BY <1>5 DEF Sweep, Plain, Kept, backendVars
    <2> QED BY <2>1, <2>2, PlainImplements
  <1>6. CASE SendCredited(t)
    <2>1. PICK o \in Outcomes :
            /\ Outcome(o)
            /\ credits' = IF o = "refused" THEN credits ELSE [credits EXCEPT ![id] = @ + 1]
            /\ Goto(t, IF o = "acked" THEN "record" ELSE "next")
            /\ SetLocals(t, IF o = "acked" THEN loc[t] ELSE EntryDone(t))
      BY <1>6 DEF SendCredited
    <2>2. /\ pc[t] = "credit" /\ UNCHANGED <<mem, disk, detected>> /\ id \in EventIds
      BY <1>0, <1>6 DEF SendCredited, EntryLabels
    <2>3. id \notin mem.credited /\ id \in detected
      BY <2>2 DEF CreditInv, FreshInv, Undelivered, NotifyInv, ProgressInv
    <2>4. id \notin Sealed
      <3>1. \A u \in Tasks : pc[u] # "record"
        BY <2>2, HolderAlone DEF CreditInv, Critical, EntryLabels
      <3> QED BY <2>3, <3>1 DEF Sealed
    <2>5. CASE o = "refused"
      <3>1. Sealed' = Sealed
        BY <1>2, <2>1, <2>2, <2>5
      <3> QED BY <1>1, <2>1, <2>2, <2>5, <3>1 DEF Implements, Outbox!vars, FileBehind
    <2>6. CASE o = "lost"
      <3>1. Sealed' = Sealed
        BY <1>2, <2>1, <2>2, <2>6
      <3>2. Outbox!CreditUnknown(id)
        BY <1>1, <2>1, <2>2, <2>3, <2>4, <2>6, <3>1 DEF Outbox!CreditUnknown
      <3> QED BY <2>2, <3>2 DEF Implements, Outbox!Next, FileBehind
    <2>7. CASE o = "acked"
      <3>1. Sealed' = Sealed \cup {id}
        <4>1. {u \in Tasks : pc'[u] = "record"} = {u \in Tasks : pc[u] = "record"} \cup {t}
          BY <2>1, <2>7, OthersStay
        <4>2. \A u \in Tasks : loc'[u] = loc[u]
          BY <2>1, <2>7, OthersStay
        <4> QED BY <2>2, <4>1, <4>2 DEF Sealed
      <3>2. Outbox!Credit(id)
        BY <1>1, <2>1, <2>2, <2>3, <2>4, <2>7, <3>1 DEF Outbox!Credit
      <3> QED BY <2>2, <3>2 DEF Implements, Outbox!Next, FileBehind
    <2> QED BY <2>5, <2>6, <2>7 DEF Outcomes
  <1>7. CASE RecordCredited(t)
    <2>1. PICK ok \in BOOLEAN :
            /\ SaveState(ok)
            /\ \E label, l : label # "record" /\ Goto(t, label) /\ SetLocals(t, l)
      BY <1>7 DEF RecordCredited
    <2>2. /\ pc[t] = "record" /\ mem' = MarkCredited(mem, id) /\ UNCHANGED <<detected, credits>>
      BY <1>7 DEF RecordCredited, backendVars
    <2>3. mem'.credited = mem.credited \cup {id}
      BY <1>0, <2>2 DEF MarkCredited, Store
    <2>4. Sealed' = Sealed
      <3>1. {u \in Tasks : pc[u] = "record"} = {u \in Tasks : pc'[u] = "record"} \cup {t}
        BY <2>1, <2>2, OthersStay
      <3>2. \A u \in Tasks : pc'[u] = "record" => loc'[u] = loc[u]
        BY <2>1, OthersStay
      <3> QED BY <2>3, <3>1, <3>2 DEF Sealed
    <2>5. Kept
      BY <2>1, SaveKept
    <2>6. faults' = faults + 1 => Implements
      BY <2>2, <2>4 DEF Implements, Outbox!Next, Outbox!Fault
    <2>7. faults' = faults => Implements
      BY <2>2, <2>4 DEF Implements, Outbox!vars
    <2>8. FileBehind'
      BY <2>3, <2>5, PlainFile
    <2> QED BY <2>5, <2>6, <2>7, <2>8 DEF Kept
  <1>8. CASE EntryFinish(t)
    <2>1. PICK ok \in BOOLEAN :
            IF loc[t].deferred THEN UNCHANGED <<mem, disk, faults>>
            ELSE mem' = DropEntry(mem, id) /\ SaveState(ok)
      BY <1>8 DEF EntryFinish
    <2>2. /\ pc[t] = "remove" /\ Goto(t, "next") /\ SetLocals(t, EntryDone(t))
          /\ UNCHANGED <<detected, credits>>
      BY <1>8 DEF EntryFinish, backendVars
    <2>3. Kept
      BY <2>1, SaveKept DEF Kept
    <2>4. mem'.credited = mem.credited
      BY <1>0, <2>1, HelpersKeepCredits
    <2>5. Plain
      BY <2>2, <2>3, <2>4 DEF Plain
    <2> QED BY <2>2, <2>5, PlainImplements
  <1> QED BY <1>3, <1>4, <1>5, <1>6, <1>7, <1>8

\* New blocks are stutters; a crash forgets the credits it had not saved.
LEMMA EnvironmentImplements ==
    ASSUME TypeInv, FileBehind, Mine \/ Reorg \/ Crash
    PROVE  Implements /\ FileBehind'
  <1>1. CASE Mine \/ Reorg
    <2>1. UNCHANGED <<mem, disk, pc, loc, detected, credits, faults>>
      BY <1>1 DEF Mine, Reorg, backendVars
    <2>2. Sealed' = Sealed
      BY <2>1 DEF Sealed
    <2> QED BY <2>1, <2>2 DEF Implements, Outbox!vars, FileBehind
  <1>2. CASE Crash
    <2>1. /\ faults' = faults + 1 /\ mem' = LoadState(disk)
          /\ UNCHANGED <<disk, detected, credits>>
          /\ \A u \in Tasks : pc'[u] \in {"start", "idle"}
      BY <1>2 DEF Crash, Fault, backendVars
    <2>2. mem'.credited = disk.credited
      BY <2>1 DEF LoadState, TypeInv, TypeOK, Store
    <2>3. Sealed' \subseteq Sealed
      <3>1. {u \in Tasks : pc'[u] = "record"} = {}
        BY <2>1
      <3> QED BY <2>2, <3>1 DEF Sealed, FileBehind
    <2> QED BY <2>1, <2>2, <2>3 DEF Implements, Outbox!Next, Outbox!Fault, FileBehind
  <1> QED BY <1>1, <1>2

LEMMA ImplementsInit == Init => Outbox!Init /\ FileBehind
  <1> SUFFICES ASSUME Init PROVE Outbox!Init /\ FileBehind
    OBVIOUS
  <1>1. mem \in Store(Entry)
    BY TypeInit DEF TypeInv, TypeOK
  <1>2. mem.credited = disk.credited
    BY DEF Init, LoadState, FirstFile
  <1>3. Sealed \subseteq EventIds
    <2>1. \A t \in Tasks : pc[t] # "record"
      BY DEF Init
    <2> QED BY <1>1, <2>1 DEF Sealed, Store
  <1> QED BY <1>2, <1>3 DEF Init, Outbox!Init, FileBehind

LEMMA ImplementsStep ==
    TypeInv /\ CreditInv /\ NotifyInv /\ FileBehind /\ [Next]_vars
      => [Outbox!Next]_(Outbox!vars) /\ FileBehind'
  <1> SUFFICES ASSUME TypeInv, CreditInv, NotifyInv, FileBehind, [Next]_vars
               PROVE  Implements /\ FileBehind'
    BY DEF Implements
  <1>1. CASE Mine \/ Reorg \/ Crash
    BY <1>1, EnvironmentImplements
  <1>2. CASE ScanStep
    BY <1>2, ScanImplements
  <1>3. ASSUME NEW t \in Recoverers, RecoverStep(t) PROVE Implements /\ FileBehind'
    BY <1>3, RecoverImplements
  <1>4. ASSUME NEW t \in Tasks, OutboxStep(t) PROVE Implements /\ FileBehind'
    BY <1>4, QueueImplements, DeliveryImplements DEF OutboxStep
  <1>5. CASE UNCHANGED vars
    <2>1. Sealed' = Sealed
      BY <1>5 DEF vars, Sealed
    <2> QED BY <1>5, <2>1 DEF vars, backendVars, Implements, Outbox!vars, FileBehind
  <1> QED BY <1>1, <1>2, <1>3, <1>4, <1>5 DEF Next

\* The Bitcoin/Litecoin outbox keeps the promise of PaymentOutbox through
\* reorganisations, rollbacks, concurrent recoveries, crashes and failed saves.
THEOREM UtxoImplementsOutbox == Spec => OutboxSpec
  <1>1. Init /\ [][Next]_vars => [](TypeInv /\ CreditInv /\ NotifyInv /\ FileBehind)
    BY TypeInit, TypeStep, CreditInit, CreditStep, NotifyInit, NotifyStep,
       ImplementsInit, ImplementsStep, PTL
  <1> QED BY <1>1, ImplementsInit, ImplementsStep, PTL DEF Spec, OutboxSpec, Outbox!Spec

----------------------------------------------------------------------------
(* The scan loop passes no deposit.                                         *)
(* Every height whose stored hash is the chain's has its payments tracked:  *)
(* queued by that height, or credited.  The inductive invariant ScanInv     *)
(* carries this from the fetch of a block to the save of its hash, through  *)
(* the delivery of the queue in between.                                    *)

\* The scan loop without recoveries, started as both binaries start it.
ScanAlone == Recoverers = {} /\ StartHeight = NoHeight

\* Queued by the height h, or credited: what a rollback to a block above h keeps.
TrackedAt(s, d, h) ==
    \/ IsCredited(s, d, d)
    \/ \E e \in s.pending : e.dep = d /\ e.height <= h

IdKnown(e) == e.id \in {e.dep, TxOf[e.dep], NoId}

\* A store s is sound on the chain bl with tip b in era r.  No stored hash is of a
\* block beyond the cursor, or of an era to come; no entry is of a block beyond the
\* one in work; a block with the stored hash has left nothing behind.
HashesSound(s, b, r) ==
    \A h \in Heights : s.hashes[h] # NoHash =>
        h <= s.cursor /\ h <= b /\ s.hashes[h] <= r
EntriesSound(s, b) ==
    \A e \in s.pending :
        /\ IdKnown(e)
        /\ e.height <= b
        /\ s.cursor # NoHeight => e.height <= s.cursor + 1
BlocksTracked(s, b, bl) ==
    \A h \in 1 .. b : s.hashes[h] = bl[h].era =>
        \A d \in DepositsOf(bl[h]) : TrackedAt(s, d, h)
Sound(s, b, bl, r) ==
    HashesSound(s, b, r) /\ EntriesSound(s, b) /\ BlocksTracked(s, b, bl)

\* Between two awaits of the loop.
ChunkLabels == {"reorg", "rollback", "fetch", "enqueue", "save", "advance"}
EraInv ==
    /\ \A h \in 1 .. best : blocks[h].era <= reorgs
    /\ loc[Scanner].era <= reorgs
LoopInv ==
    pc[Scanner] # "start" =>
        /\ mem.cursor \in Nat
        /\ loc[Scanner].cur = mem.cursor + 1
        /\ loc[Scanner].tip <= best
        /\ pc[Scanner] \in ChunkLabels => loc[Scanner].cur <= loc[Scanner].tip

\* The block in work: its payments are in hand after the fetch, and known from
\* the push to the advance, unless the block is not the chain's any more.
InChain == blocks[loc[Scanner].cur].era = loc[Scanner].era
BlockInv ==
    (pc[Scanner] \in {"enqueue", "save", "lock", "advance"} \cup Critical /\ loc[Scanner].cur <= loc[Scanner].tip /\ InChain) =>
        IF pc[Scanner] = "enqueue" THEN loc[Scanner].found = DepositsOf(blocks[loc[Scanner].cur])
        ELSE \A d \in DepositsOf(blocks[loc[Scanner].cur]) : TrackedAt(mem, d, loc[Scanner].cur)

\* What is dropped from the queue is credited.
HandInv ==
    /\ \A e \in loc[Scanner].todo : IdKnown(e)
    /\ pc[Scanner] \in EntryLabels =>
         /\ IdKnown(loc[Scanner].entry)
         /\ loc[Scanner].already \/ pc[Scanner] = "remove" =>
              IsCredited(mem, loc[Scanner].entry.dep, loc[Scanner].entry.id)

ScanInv ==
    /\ Sound(mem, best, blocks, reorgs) /\ Sound(disk, best, blocks, reorgs)
    /\ EraInv /\ LoopInv /\ BlockInv /\ HandInv

\* Where a fetched block is in work after the push.
Pushed == {"save", "lock", "advance"} \cup Critical

\* The blocks f .. top of the chain bl have left nothing behind; and so it is below
\* each recorded hash that is the chain's.
TrackedTo(s, f, top, bl) ==
    \A h \in f .. top : \A d \in DepositsOf(bl[h]) : TrackedAt(s, d, h)
Passed(s, f, b, bl) ==
    \A top \in 1 .. b : s.hashes[top] = bl[top].era => TrackedTo(s, f, top, bl)

\* While the block in work is the chain's, nothing was passed below it.
WorkInv ==
    (pc[Scanner] \in {"enqueue"} \cup Pushed /\ loc[Scanner].cur <= loc[Scanner].tip /\ InChain) =>
        TrackedTo(mem, first, loc[Scanner].cur - 1, blocks)
PassedInv ==
    ~unlinked => /\ Passed(mem, first, best, blocks) /\ Passed(disk, first, best, blocks)
                 /\ WorkInv

\* The block at the cursor is recorded, once the scan has begun.
TopRecorded(s, f) == s.cursor >= f => s.hashes[s.cursor] # NoHash
TopInv ==
    /\ mem.cursor = NoHeight => disk.cursor = NoHeight
    /\ ~unlinked /\ (pc[Scanner] # "start" \/ ~SkipInitialSync) => TopRecorded(mem, first)
    /\ ~unlinked /\ ~SkipInitialSync => TopRecorded(disk, first)

\* Entries of today's releases have the payment's own id, and one entry each.
OwnEntries(E) ==
    /\ \A e \in E : e.id = e.dep
    /\ \A e, f \in E : e.dep = f.dep => e = f
QueuedIn(s, d) == \E e \in s.pending : e.dep = d

\* What is still to be processed is queued, in memory and in the file.
SavedInv ==
    /\ OwnEntries(mem.pending) /\ OwnEntries(disk.pending) /\ OwnEntries(loc[Scanner].todo)
    /\ pc[Scanner] = "clone" => disk.pending = mem.pending
    /\ pc[Scanner] \in {"next"} \cup EntryLabels =>
         \A e \in loc[Scanner].todo : QueuedIn(mem, e.dep) /\ QueuedIn(disk, e.dep)
    /\ pc[Scanner] \in EntryLabels =>
         /\ loc[Scanner].entry.id = loc[Scanner].entry.dep
         /\ \A e \in loc[Scanner].todo : e.dep # loc[Scanner].entry.dep
         /\ QueuedIn(mem, loc[Scanner].entry.dep) /\ QueuedIn(disk, loc[Scanner].entry.dep)

----------------------------------------------------------------------------
(* Stores *)

\* What s tracks and holds is still in r, which differs in flags, credits and
\* entries that are not needed any more.
Grown(s, r) ==
    /\ r.hashes = s.hashes /\ r.cursor = s.cursor
    /\ \A e \in r.pending : IdKnown(e) /\ \E f \in s.pending : f.height = e.height
    /\ \A d \in Deposits, h \in Nat : TrackedAt(s, d, h) => TrackedAt(r, d, h)

LEMMA GrownSound ==
    ASSUME NEW s, NEW r, NEW b \in Heights, NEW bl \in [Heights -> Block], NEW era \in Nat, Sound(s, b, bl, era), Grown(s, r)
    PROVE  Sound(r, b, bl, era)
  <1>1. HashesSound(r, b, era)
    BY DEF Sound, HashesSound, Grown
  <1>2. EntriesSound(r, b)
    BY DEF Sound, EntriesSound, Grown
  <1>3. BlocksTracked(r, b, bl)
    BY DEF Sound, BlocksTracked, Grown, DepositsOf
  <1> QED BY <1>1, <1>2, <1>3 DEF Sound

LEMMA SameGrown ==
    ASSUME NEW s, \A e \in s.pending : IdKnown(e)
    PROVE  Grown(s, s)
  BY DEF Grown

LEMMA LoadStateGrown ==
    ASSUME NEW s \in Store(FileEntry), \A e \in s.pending : IdKnown(e)
    PROVE  Grown(s, LoadState(s))
  <1> DEFINE Own(e) == [e EXCEPT !.id = IF @ = NoId THEN TxOf[e.dep] ELSE @]
  <1>1. /\ LoadState(s).hashes = s.hashes /\ LoadState(s).cursor = s.cursor
        /\ LoadState(s).credited = s.credited
        /\ LoadState(s).pending = {Own(e) : e \in s.pending}
    BY DEF LoadState, Store
  <1>2. \A e \in s.pending : /\ Own(e).dep = e.dep /\ Own(e).height = e.height
                             /\ IdKnown(Own(e))
    BY DEF Store, FileEntry, IdKnown
  <1> HIDE DEF Own
  <1>3. ASSUME NEW d \in Deposits, NEW h \in Nat, TrackedAt(s, d, h)
        PROVE  TrackedAt(LoadState(s), d, h)
    BY <1>1, <1>2, <1>3 DEF TrackedAt, IsCredited
  <1> QED BY <1>1, <1>2, <1>3 DEF Grown

LEMMA NotifiedGrown ==
    ASSUME NEW s \in Store(Entry), NEW id, NEW r \in NotifiedStores(s, id),
           \A e \in s.pending : IdKnown(e)
    PROVE  Grown(s, r)
  <1>1. CASE r = s
    BY <1>1, SameGrown
  <1>2. CASE r # s
    <2>1. PICK e \in s.pending :
            r = [s EXCEPT !.pending = (@ \ {e}) \cup {[e EXCEPT !.notified = TRUE]}]
      BY <1>2 DEF NotifiedStores
    <2> DEFINE f == [e EXCEPT !.notified = TRUE]
    <2>2. /\ r.hashes = s.hashes /\ r.cursor = s.cursor /\ r.credited = s.credited
          /\ r.pending = (s.pending \ {e}) \cup {f}
      BY <2>1 DEF Store
    <2>3. f.dep = e.dep /\ f.height = e.height /\ f.id = e.id
      BY DEF Store, Entry
    <2>4. IdKnown(f)
      BY <2>3 DEF IdKnown
    <2> HIDE DEF f
    <2>5. ASSUME NEW d \in Deposits, NEW h \in Nat, TrackedAt(s, d, h)
          PROVE  TrackedAt(r, d, h)
      BY <2>2, <2>3, <2>5 DEF TrackedAt, IsCredited
    <2> QED BY <2>2, <2>3, <2>4, <2>5 DEF Grown
  <1> QED BY <1>1, <1>2

LEMMA MarkGrown ==
    ASSUME NEW s \in Store(Entry), NEW id, \A e \in s.pending : IdKnown(e)
    PROVE  Grown(s, MarkCredited(s, id))
  BY DEF Grown, MarkCredited, Store, TrackedAt, IsCredited

\* Entries with the id of a credited payment are not needed: they are credited too.
LEMMA DropGrown ==
    ASSUME NEW s \in Store(Entry), \A e \in s.pending : IdKnown(e),
           NEW e \in Entry, IdKnown(e), IsCredited(s, e.dep, e.id)
    PROVE  Grown(s, DropEntry(s, e.id))
  <1>1. /\ DropEntry(s, e.id).hashes = s.hashes /\ DropEntry(s, e.id).cursor = s.cursor
        /\ DropEntry(s, e.id).credited = s.credited
        /\ DropEntry(s, e.id).pending = {f \in s.pending : f.id # e.id}
    BY DEF DropEntry, Store
  <1>2. ASSUME NEW f \in s.pending, f.id = e.id
        PROVE  IsCredited(s, f.dep, f.dep)
    <2>1. f \in Entry /\ IdKnown(f)
      BY DEF Store
    <2>2. /\ e.dep \in Deposits /\ f.dep \in Deposits
          /\ TxOf[e.dep] \in Txs /\ TxOf[f.dep] \in Txs /\ e.id \in EventIds
      BY <2>1, IdAssumption DEF Entry
    <2>3. CASE e.id = e.dep
      <3>1. f.dep = e.dep
        BY <1>2, <2>1, <2>2, <2>3, IdAssumption DEF IdKnown, EventIds
      <3> QED BY <2>3, <3>1
    <2>4. CASE e.id = TxOf[e.dep]
      <3>1. TxOf[f.dep] = e.id
        BY <1>2, <2>1, <2>2, <2>4, IdAssumption DEF IdKnown, EventIds
      <3> QED BY <2>4, <3>1 DEF IsCredited
    <2> QED BY <2>2, <2>3, <2>4, IdAssumption DEF IdKnown
  <1>3. ASSUME NEW d \in Deposits, NEW h \in Nat, TrackedAt(s, d, h)
        PROVE  TrackedAt(DropEntry(s, e.id), d, h)
    BY <1>1, <1>2, <1>3 DEF TrackedAt, IsCredited
  <1> QED BY <1>1, <1>3 DEF Grown

\* A block pushed at the height after the cursor is tracked there.
LEMMA EnqueueSound ==
    ASSUME NEW s \in Store(Entry), NEW deps \in SUBSET Deposits, NEW h \in Nat,
           NEW b \in Heights, NEW bl \in [Heights -> Block], NEW era \in Nat,
           Sound(s, b, bl, era), s.cursor \in Nat, h = s.cursor + 1, h <= b
    PROVE  /\ Sound(Enqueue(s, deps, h), b, bl, era)
           /\ Enqueue(s, deps, h).cursor = s.cursor
           /\ \A d \in deps : TrackedAt(Enqueue(s, deps, h), d, h)
  <1> DEFINE r == Enqueue(s, deps, h)
             New(d) == [dep |-> d, id |-> d, height |-> h, notified |-> FALSE]
  <1>1. /\ r.hashes = s.hashes /\ r.cursor = s.cursor /\ r.credited = s.credited
        /\ r.pending = s.pending \cup {New(d) : d \in Fresh(s, deps)}
    BY DEF Enqueue, Store
  <1>2. \A d : New(d).dep = d /\ New(d).height = h /\ IdKnown(New(d))
    BY DEF IdKnown
  <1> HIDE DEF r, New
  <1>3. \A d \in Deposits, k \in Nat : TrackedAt(s, d, k) => TrackedAt(r, d, k)
    BY <1>1 DEF TrackedAt, IsCredited
  <1>4. HashesSound(r, b, era)
    BY <1>1 DEF Sound, HashesSound
  <1>5. EntriesSound(r, b)
    BY <1>1, <1>2 DEF Sound, EntriesSound
  <1>6. BlocksTracked(r, b, bl)
    BY <1>1, <1>3 DEF Sound, BlocksTracked, DepositsOf
  <1>7. ASSUME NEW d \in deps PROVE TrackedAt(r, d, h)
    <2>1. CASE IsCredited(s, d, d)
      BY <1>1, <2>1 DEF TrackedAt, IsCredited
    <2>2. CASE \E e \in s.pending : e.dep = d
      BY <1>1, <2>2 DEF TrackedAt, Sound, EntriesSound
    <2>3. CASE d \in Fresh(s, deps)
      <3>1. New(d) \in r.pending /\ New(d).dep = d /\ New(d).height <= h
        BY <1>1, <1>2, <2>3
      <3> QED BY <3>1 DEF TrackedAt
    <2> QED BY <2>1, <2>2, <2>3 DEF Fresh
  <1> QED BY <1>1, <1>4, <1>5, <1>6, <1>7 DEF Sound, r

\* A rollback drops what is above it, hashes and entries alike.
LEMMA RollBackSound ==
    ASSUME NEW s \in Store(Entry), NEW from \in Nat \ {0}, NEW cur \in Nat,
           NEW b \in Heights, NEW bl \in [Heights -> Block], NEW era \in Nat,
           Sound(s, b, bl, era), cur = s.cursor + 1, s.cursor \in Nat, from <= cur
    PROVE  Sound(RollBack(s, from, cur), b, bl, era)
  <1> DEFINE r == RollBack(s, from, cur)
  <1>1. /\ r.cursor = from - 1 /\ r.credited = s.credited
        /\ r.pending = {e \in s.pending : e.height < from}
        /\ r.hashes = [k \in Heights |-> IF k \in from .. cur - 1 THEN NoHash ELSE s.hashes[k]]
    BY DEF RollBack, Store
  <1> HIDE DEF r
  <1>2. \A h \in Heights : r.hashes[h] # NoHash =>
          r.hashes[h] = s.hashes[h] /\ h < from
    <2> SUFFICES ASSUME NEW h \in Heights, r.hashes[h] # NoHash
                 PROVE  r.hashes[h] = s.hashes[h] /\ h < from
      OBVIOUS
    <2>1. h \notin from .. cur - 1 /\ r.hashes[h] = s.hashes[h]
      BY <1>1
    <2>2. h <= s.cursor
      BY <2>1 DEF Sound, HashesSound
    <2> QED BY <2>1, <2>2
  <1>3. HashesSound(r, b, era)
    BY <1>1, <1>2 DEF Sound, HashesSound
  <1>4. EntriesSound(r, b)
    BY <1>1 DEF Sound, EntriesSound, Store, Entry
  <1>5. BlocksTracked(r, b, bl)
    <2> SUFFICES ASSUME NEW h \in 1 .. b, r.hashes[h] = bl[h].era,
                        NEW d \in DepositsOf(bl[h])
                 PROVE  TrackedAt(r, d, h)
      BY DEF BlocksTracked
    <2>1. h \in Heights /\ bl[h].era # NoHash
      BY BoundAssumption DEF Block
    <2>2. r.hashes[h] = s.hashes[h] /\ h < from
      BY <1>2, <2>1
    <2>3. TrackedAt(s, d, h)
      BY <2>2 DEF Sound, BlocksTracked
    <2> QED BY <1>1, <2>2, <2>3 DEF TrackedAt, IsCredited, Store, Entry
  <1> QED BY <1>3, <1>4, <1>5 DEF Sound, r

\* The block in work is done: its hash is stored, old ones are forgotten.
LEMMA AdvanceSound ==
    ASSUME NEW s \in Store(Entry), NEW h \in Heights, NEW found \in Nat,
           NEW b \in Heights, NEW bl \in [Heights -> Block], NEW era \in Nat,
           Sound(s, b, bl, era), s.cursor \in Nat, h = s.cursor + 1, h <= b, found <= era,
           found = bl[h].era => \A d \in DepositsOf(bl[h]) : TrackedAt(s, d, h)
    PROVE  Sound(Advance(s, h, found), b, bl, era)
  <1> DEFINE r == Advance(s, h, found)
  <1>1. /\ r.cursor = h /\ r.credited = s.credited /\ r.pending = s.pending
        /\ r.hashes \in [Heights -> Nat \cup {NoHash}]
        /\ r.hashes[h] = found
        /\ \A k \in Heights : k # h => r.hashes[k] \in {NoHash, s.hashes[k]}
    BY DEF Advance, Store
  <1> HIDE DEF r
  <1>2. HashesSound(r, b, era)
    <2> SUFFICES ASSUME NEW k \in Heights, r.hashes[k] # NoHash
                 PROVE  k <= r.cursor /\ k <= b /\ r.hashes[k] <= era
      BY DEF HashesSound
    <2>1. CASE k = h
      BY <1>1, <2>1
    <2>2. CASE k # h
      <3>1. r.hashes[k] = s.hashes[k]
        BY <1>1, <2>2
      <3>2. k <= s.cursor /\ k <= b /\ s.hashes[k] <= era
        BY <3>1 DEF Sound, HashesSound
      <3> QED BY <1>1, <3>1, <3>2
    <2> QED BY <2>1, <2>2
  <1>3. EntriesSound(r, b)
    BY <1>1 DEF Sound, EntriesSound, Store, Entry
  <1>4. BlocksTracked(r, b, bl)
    <2> SUFFICES ASSUME NEW k \in 1 .. b, r.hashes[k] = bl[k].era,
                        NEW d \in DepositsOf(bl[k])
                 PROVE  TrackedAt(r, d, k)
      BY DEF BlocksTracked
    <2>1. k \in Heights /\ bl[k].era # NoHash
      BY BoundAssumption DEF Block
    <2>2. TrackedAt(s, d, k)
      <3>1. CASE k = h
        BY <1>1, <3>1
      <3>2. CASE k # h
        BY <1>1, <2>1, <3>2 DEF Sound, BlocksTracked
      <3> QED BY <3>1, <3>2
    <2> QED BY <1>1, <2>2 DEF TrackedAt, IsCredited
  <1> QED BY <1>2, <1>3, <1>4 DEF Sound, r

\* A new start keeps the cursor, moves it to a first tip, or, when the initial
\* sync is skipped, moves it to the tip and forgets the hashes.
LEMMA StartSound ==
    ASSUME NEW s \in Store(Entry), NEW r \in Store(Entry),
           NEW b \in Heights, NEW bl \in [Heights -> Block], NEW era \in Nat,
           Sound(s, b, bl, era), r.pending = s.pending, r.credited = s.credited,
           \/ r.hashes = s.hashes /\ r.cursor = s.cursor
           \/ r.hashes = s.hashes /\ s.cursor = NoHeight /\ r.cursor = b - 1
           \/ r.hashes = NoHashes /\ r.cursor = b
    PROVE  Sound(r, b, bl, era)
  <1>1. HashesSound(r, b, era)
    <2> SUFFICES ASSUME NEW h \in Heights, r.hashes[h] # NoHash
                 PROVE  h <= r.cursor /\ h <= b /\ r.hashes[h] <= era
      BY DEF HashesSound
    <2>1. r.hashes # NoHashes
      BY DEF NoHashes
    <2>2. r.hashes = s.hashes
      BY <2>1
    <2>3. h <= s.cursor /\ h <= b /\ s.hashes[h] <= era
      BY <2>2 DEF Sound, HashesSound
    <2>4. s.cursor # NoHeight
      BY <2>3
    <2> QED BY <2>1, <2>2, <2>3, <2>4
  <1>2. EntriesSound(r, b)
    BY DEF Sound, EntriesSound, Store, Entry
  <1>3. BlocksTracked(r, b, bl)
    <2> SUFFICES ASSUME NEW k \in 1 .. b, r.hashes[k] = bl[k].era,
                        NEW d \in DepositsOf(bl[k])
                 PROVE  TrackedAt(r, d, k)
      BY DEF BlocksTracked
    <2>1. k \in Heights /\ bl[k].era # NoHash
      BY BoundAssumption DEF Block
    <2>2. r.hashes = s.hashes
      BY <2>1 DEF NoHashes
    <2> QED BY <2>2 DEF Sound, BlocksTracked, TrackedAt, IsCredited
  <1> QED BY <1>1, <1>2, <1>3 DEF Sound

\* What a reorganisation does to a block of the new branch, or leaves below it.
LEMMA ReorgBlocks ==
    ASSUME TypeOK, Reorg, NEW h \in Heights, h <= best + 1
    PROVE  \/ h <= best /\ blocks'[h] = blocks[h]
           \/ blocks'[h].era = reorgs + 1
  <1>1. PICK d \in 1 .. MaxReorgDepth :
          /\ d < best
          /\ LET base == best - d
                 kept == {tx \in Txs : \E k \in 1 .. base : tx \in blocks[k].txs}
             IN \E place \in [Txs \ kept -> {0} \cup (base + 1 .. best + 1)] :
                  blocks' = [k \in Heights |->
                      IF k <= base THEN blocks[k]
                      ELSE IF k <= best + 1
                           THEN [era |-> reorgs + 1,
                                 txs |-> {tx \in Txs \ kept : place[tx] = k}]
                      ELSE NoBlock]
    BY DEF Reorg
  <1> DEFINE base == best - d
             kept == {tx \in Txs : \E k \in 1 .. base : tx \in blocks[k].txs}
  <1>2. PICK place \in [Txs \ kept -> {0} \cup (base + 1 .. best + 1)] :
          blocks' = [k \in Heights |->
                      IF k <= base THEN blocks[k]
                      ELSE IF k <= best + 1
                           THEN [era |-> reorgs + 1,
                                 txs |-> {tx \in Txs \ kept : place[tx] = k}]
                      ELSE NoBlock]
    BY <1>1
  <1>3. best \in Nat /\ d \in Nat /\ d >= 1 /\ base < best
    BY <1>1, BoundAssumption DEF TypeOK
  <1> HIDE DEF kept, base
  <1>4. CASE h <= base
    <2>1. blocks'[h] = blocks[h]
      BY <1>2, <1>4
    <2> QED BY <1>3, <1>4, <2>1 DEF base
  <1>5. CASE ~(h <= base)
    <2>1. blocks'[h] = [era |-> reorgs + 1, txs |-> {tx \in Txs \ kept : place[tx] = h}]
      BY <1>2, <1>5
    <2> QED BY <2>1
  <1> QED BY <1>4, <1>5

\* Neither a new block nor a reorganisation brings back a hash that is stored.
LEMMA ChainSound ==
    ASSUME NEW s \in Store(FileEntry), TypeOK, Sound(s, best, blocks, reorgs), Mine \/ Reorg
    PROVE  Sound(s, best', blocks', reorgs')
  <1>1. /\ best' = best + 1 /\ best \in Heights /\ best' \in Heights /\ reorgs \in Nat
        /\ reorgs' = reorgs \/ reorgs' = reorgs + 1
    BY BoundAssumption DEF Mine, Reorg, TypeOK
  <1>2. HashesSound(s, best', reorgs')
    <2> SUFFICES ASSUME NEW h \in Heights, s.hashes[h] # NoHash
                 PROVE  h <= s.cursor /\ h <= best' /\ s.hashes[h] <= reorgs'
      BY DEF HashesSound
    <2>1. h <= s.cursor /\ h <= best /\ s.hashes[h] <= reorgs
      BY DEF Sound, HashesSound
    <2>2. s.hashes[h] \in Nat
      BY DEF Store
    <2> QED BY <1>1, <2>1, <2>2
  <1>3. EntriesSound(s, best')
    BY <1>1 DEF Sound, EntriesSound, Store, FileEntry
  <1>4. \A h \in 1 .. best' : s.hashes[h] = blocks'[h].era => h <= best /\ blocks'[h] = blocks[h]
    <2> SUFFICES ASSUME NEW h \in 1 .. best', s.hashes[h] = blocks'[h].era
                 PROVE  h <= best /\ blocks'[h] = blocks[h]
      OBVIOUS
    <2>1. h \in Heights
      BY <1>1, BoundAssumption
    <2>2. s.hashes[h] # NoHash => h <= best /\ s.hashes[h] <= reorgs
      BY <2>1 DEF Sound, HashesSound
    <2>3. CASE Mine
      <3>1. /\ h = best + 1 => blocks'[h].era = reorgs
            /\ h # best + 1 => blocks'[h] = blocks[h]
        BY <1>1, <2>1, <2>3 DEF Mine, TypeOK
      <3> QED BY <1>1, <2>1, <2>2, <3>1
    <2>4. CASE Reorg
      <3>1. \/ h <= best /\ blocks'[h] = blocks[h]
            \/ blocks'[h].era = reorgs + 1
        BY <1>1, <2>1, <2>4, ReorgBlocks
      <3> QED BY <1>1, <2>1, <2>2, <3>1
    <2> QED BY <2>3, <2>4
  <1>5. BlocksTracked(s, best', blocks')
    BY <1>1, <1>4 DEF Sound, BlocksTracked
  <1> QED BY <1>2, <1>3, <1>5 DEF Sound

----------------------------------------------------------------------------
(* Steps *)

LEMMA ScannerLocals ==
    ASSUME TypeInv
    PROVE  /\ Scanner \in Tasks /\ loc[Scanner] \in Locals /\ pc[Scanner] \in Labels
           /\ mem \in Store(Entry) /\ disk \in Store(FileEntry)
           /\ best \in Heights /\ blocks \in [Heights -> Block] /\ reorgs \in Nat
           /\ loc[Scanner].cur \in Nat /\ loc[Scanner].tip \in Nat
           /\ loc[Scanner].era \in Nat /\ loc[Scanner].depth \in Nat
  BY DEF TypeInv, TypeOK, Locals

LEMMA ScannerMoves ==
    ASSUME TypeInv, NEW label, Goto(Scanner, label)
    PROVE  pc'[Scanner] = label
  BY DEF TypeInv, TypeOK, Goto

LEMMA ScannerSets ==
    ASSUME TypeInv, NEW l, SetLocals(Scanner, l)
    PROVE  loc'[Scanner] = l
  BY DEF TypeInv, TypeOK, SetLocals

LEMMA KnownIds ==
    ASSUME ScanInv
    PROVE  /\ \A e \in mem.pending : IdKnown(e)
           /\ \A e \in disk.pending : IdKnown(e)
  BY DEF ScanInv, Sound, EntriesSound

\* A step of the outbox, or of the loop beside it, that keeps what is tracked and
\* the block in work.
LEMMA KeepStep ==
    ASSUME TypeInv, ScanInv, UNCHANGED chainVars, Grown(mem, mem'),
           disk' = disk \/ disk' = mem',
           loc'[Scanner].cur = loc[Scanner].cur, loc'[Scanner].tip = loc[Scanner].tip,
           loc'[Scanner].era = loc[Scanner].era,
           pc[Scanner] # "start", pc'[Scanner] # "start", pc'[Scanner] # "enqueue",
           pc'[Scanner] \in ChunkLabels => loc[Scanner].cur <= loc[Scanner].tip,
           pc'[Scanner] \in Pushed =>
             \/ pc[Scanner] \in Pushed
             \/ loc[Scanner].cur > loc[Scanner].tip,
           HandInv'
    PROVE  ScanInv'
  <1> USE ScannerLocals DEF chainVars
  <1>1. Sound(mem', best, blocks, reorgs)
    BY GrownSound DEF ScanInv
  <1>2. Sound(disk', best, blocks, reorgs)
    BY <1>1 DEF ScanInv
  <1>3. EraInv'
    BY DEF ScanInv, EraInv
  <1>4. LoopInv'
    BY DEF ScanInv, LoopInv, Grown
  <1>5. BlockInv'
    <2> SUFFICES ASSUME pc'[Scanner] \in Pushed, loc[Scanner].cur <= loc[Scanner].tip, InChain,
                        NEW d \in DepositsOf(blocks[loc[Scanner].cur])
                 PROVE  TrackedAt(mem', d, loc[Scanner].cur)
      BY DEF BlockInv, InChain, Pushed
    <2>1. pc[Scanner] \in Pushed /\ pc[Scanner] # "enqueue"
      BY DEF Pushed, Critical, EntryLabels
    <2>2. TrackedAt(mem, d, loc[Scanner].cur)
      BY <2>1 DEF ScanInv, BlockInv, Pushed
    <2> QED BY <2>2 DEF Grown, DepositsOf
  <1> QED BY <1>1, <1>2, <1>3, <1>4, <1>5 DEF ScanInv

\* The scan task begins again.
LEMMA RestartStep ==
    ASSUME TypeInv, ScanInv, UNCHANGED chainVars, pc'[Scanner] = "start",
           loc'[Scanner] = InitLocals,
           Sound(mem', best, blocks, reorgs), Sound(disk', best, blocks, reorgs)
    PROVE  ScanInv'
  <1> USE ScannerLocals DEF chainVars
  <1>1. /\ loc'[Scanner].era = 0 /\ loc'[Scanner].todo = {}
    BY DEF InitLocals
  <1>2. EraInv'
    BY <1>1 DEF ScanInv, EraInv
  <1>3. LoopInv' /\ BlockInv' /\ HandInv'
    BY <1>1 DEF LoopInv, BlockInv, HandInv, Critical, EntryLabels
  <1> QED BY <1>2, <1>3 DEF ScanInv

\* A step between two blocks: no block is in work afterwards, and no entry.
LEMMA LoopStep ==
    ASSUME TypeInv, ScanInv, UNCHANGED chainVars,
           Sound(mem', best, blocks, reorgs), Sound(disk', best, blocks, reorgs),
           pc'[Scanner] \in {"tip", "reorg", "rollback", "fetch"},
           loc'[Scanner].todo = loc[Scanner].todo,
           loc'[Scanner].era \in {0, loc[Scanner].era},
           mem'.cursor \in Nat, loc'[Scanner].cur = mem'.cursor + 1, loc'[Scanner].tip <= best,
           pc'[Scanner] # "tip" => loc'[Scanner].cur <= loc'[Scanner].tip
    PROVE  ScanInv'
  <1> USE ScannerLocals DEF chainVars
  <1>1. EraInv'
    BY DEF ScanInv, EraInv
  <1>2. LoopInv'
    BY DEF LoopInv, ChunkLabels
  <1>3. BlockInv' /\ HandInv'
    BY DEF BlockInv, HandInv, Critical, EntryLabels, ScanInv
  <1> QED BY <1>1, <1>2, <1>3 DEF ScanInv

LEMMA ScanTracks ==
    ASSUME TypeInv, TypeInv', ScanInv, StartHeight = NoHeight, ScanStep
    PROVE  ScanInv'
  <1> USE ScannerLocals
  <1> DEFINE L == loc[Scanner]
  <1>0. /\ Sound(mem, best, blocks, reorgs) /\ Sound(disk, best, blocks, reorgs)
        /\ mem' \in Store(Entry) /\ disk' \in Store(FileEntry)
        /\ InitLocals.tip = 0 /\ InitLocals.era = 0 /\ InitLocals.todo = {}
    BY DEF ScanInv, TypeInv, TypeOK, InitLocals
  <1>1. CASE ScanStart
    <2>1. /\ mem'.cursor = FirstHeight - 1
          /\ mem'.hashes = IF SkipInitialSync THEN NoHashes ELSE mem.hashes
          /\ mem'.pending = mem.pending /\ mem'.credited = mem.credited
          /\ UNCHANGED chainVars
      BY <1>1 DEF ScanStart, Store
    <2>2. Sound(mem', best, blocks, reorgs)
      <3>1. \/ mem'.hashes = mem.hashes /\ mem'.cursor = mem.cursor
            \/ mem'.hashes = mem.hashes /\ mem.cursor = NoHeight /\ mem'.cursor = best - 1
            \/ mem'.hashes = NoHashes /\ mem'.cursor = best
        BY <2>1 DEF FirstHeight, Store
      <3> QED BY <1>0, <3>1, <2>1, StartSound
    <2>3. PICK ok \in BOOLEAN :
            /\ IF SkipInitialSync THEN SaveState(ok) ELSE ok /\ UNCHANGED <<disk, faults>>
            /\ Goto(Scanner, IF ok THEN "tip" ELSE "start")
            /\ SetLocals(Scanner, IF ok THEN [InitLocals EXCEPT !.cur = FirstHeight] ELSE InitLocals)
      BY <1>1 DEF ScanStart
    <2>4. Sound(disk', best, blocks, reorgs)
      BY <1>0, <2>2, <2>3 DEF SaveState
    <2>5. CASE ~ok
      BY <2>1, <2>2, <2>3, <2>4, <2>5, ScannerMoves, ScannerSets, RestartStep
    <2>6. CASE ok
      <3>1. FirstHeight \in Nat /\ mem'.cursor \in Nat /\ FirstHeight = mem'.cursor + 1
        BY <2>1 DEF FirstHeight, Store
      <3>2. /\ pc'[Scanner] = "tip"
            /\ loc'[Scanner] = [InitLocals EXCEPT !.cur = FirstHeight]
        BY <2>3, <2>6, ScannerMoves, ScannerSets
      <3>3. /\ loc'[Scanner].cur = FirstHeight /\ loc'[Scanner].tip = 0
            /\ loc'[Scanner].era = 0 /\ loc'[Scanner].todo = {}
        BY <3>2 DEF InitLocals
      <3>4. EraInv'
        BY <2>1, <3>3 DEF ScanInv, EraInv, chainVars
      <3>5. LoopInv'
        BY <2>1, <3>1, <3>2, <3>3 DEF LoopInv, ChunkLabels, chainVars
      <3>6. BlockInv' /\ HandInv'
        BY <3>2, <3>3 DEF BlockInv, HandInv, Critical, EntryLabels
      <3> QED BY <2>1, <2>2, <2>4, <3>4, <3>5, <3>6 DEF ScanInv, chainVars
    <2> QED BY <2>5, <2>6
  <1>2. CASE ScanTip
    <2> DEFINE l == [L EXCEPT !.tip = best, !.depth = 0]
    <2>1. /\ l.cur = L.cur /\ l.tip = best /\ l.era = L.era /\ l.todo = L.todo
      BY DEF Locals
    <2>2. /\ pc[Scanner] = "tip"
          /\ pc'[Scanner] = IF L.cur > best THEN "lock" ELSE "reorg"
          /\ loc'[Scanner] = l
          /\ mem' = mem /\ disk' = disk /\ UNCHANGED chainVars
      BY <1>2, ScannerMoves, ScannerSets DEF ScanTip
    <2> HIDE DEF l
    <2>3. mem.cursor \in Nat /\ L.cur = mem.cursor + 1
      BY <2>2 DEF ScanInv, LoopInv
    <2>4. CASE L.cur > best
      <3>1. EraInv'
        BY <2>1, <2>2 DEF ScanInv, EraInv, chainVars
      <3>2. LoopInv'
        BY <2>1, <2>2, <2>3, <2>4 DEF LoopInv, ChunkLabels, chainVars
      <3>3. BlockInv'
        BY <2>1, <2>2, <2>4 DEF BlockInv, chainVars
      <3>4. HandInv'
        BY <2>1, <2>2, <2>4 DEF ScanInv, HandInv, EntryLabels
      <3> QED BY <1>0, <2>2, <3>1, <3>2, <3>3, <3>4 DEF ScanInv, chainVars
    <2>5. CASE ~(L.cur > best)
      BY <1>0, <2>1, <2>2, <2>3, <2>5, LoopStep
    <2> QED BY <2>4, <2>5
  <1>3. CASE ScanReorg
    <2>1. /\ pc[Scanner] = "reorg"
          /\ \/ loc'[Scanner] = [L EXCEPT !.depth = @ + 1] /\ pc'[Scanner] = "reorg"
             \/ loc'[Scanner] = L /\ pc'[Scanner] \in {"rollback", "fetch"}
          /\ mem' = mem /\ disk' = disk /\ UNCHANGED chainVars
      BY <1>3, ScannerMoves, ScannerSets DEF ScanReorg
    <2>2. /\ loc'[Scanner].cur = L.cur /\ loc'[Scanner].tip = L.tip
          /\ loc'[Scanner].era = L.era /\ loc'[Scanner].todo = L.todo
      BY <2>1 DEF Locals
    <2>3. mem.cursor \in Nat /\ L.cur = mem.cursor + 1 /\ L.tip <= best /\ L.cur <= L.tip
      BY <2>1 DEF ScanInv, LoopInv, ChunkLabels
    <2> QED BY <1>0, <2>1, <2>2, <2>3, LoopStep
  <1>4. CASE ScanRollback
    <2> DEFINE from == L.cur - L.depth
               l == [L EXCEPT !.cur = from, !.depth = 0]
    <2>1. /\ l.cur = from /\ l.tip = L.tip /\ l.era = L.era /\ l.todo = L.todo
      BY DEF Locals
    <2>2. /\ pc[Scanner] = "rollback" /\ pc'[Scanner] = "reorg" /\ loc'[Scanner] = l
          /\ mem' = RollBack(mem, from, L.cur) /\ disk' = disk /\ UNCHANGED chainVars
      BY <1>4, ScannerMoves, ScannerSets DEF ScanRollback
    <2>3. mem.cursor \in Nat /\ L.cur = mem.cursor + 1 /\ L.tip <= best /\ L.cur <= L.tip
      BY <2>2 DEF ScanInv, LoopInv, ChunkLabels
    <2>4. from \in Nat \ {0} /\ from <= L.cur
      BY <2>3 DEF TypeInv, DepthInv
    <2> HIDE DEF l, from
    <2>5. Sound(mem', best, blocks, reorgs)
      BY <1>0, <2>2, <2>3, <2>4, RollBackSound
    <2>6. mem'.cursor = from - 1
      BY <2>2 DEF RollBack, Store
    <2> QED BY <1>0, <2>1, <2>2, <2>3, <2>4, <2>5, <2>6, LoopStep
  <1>5. CASE ScanFetch
    <2>1. PICK error \in BOOLEAN :
            /\ L.cur \notin Heights => error
            /\ IF error
               THEN Goto(Scanner, "tip") /\ UNCHANGED loc
               ELSE LET blk == blocks[L.cur]
                    IN /\ SetLocals(Scanner, [L EXCEPT !.era = blk.era, !.found = DepositsOf(blk)])
                       /\ Goto(Scanner, IF DepositsOf(blk) = {} THEN "lock" ELSE "enqueue")
      BY <1>5 DEF ScanFetch
    <2>2. pc[Scanner] = "fetch" /\ mem' = mem /\ disk' = disk /\ UNCHANGED chainVars
      BY <1>5 DEF ScanFetch
    <2>3. mem.cursor \in Nat /\ L.cur = mem.cursor + 1 /\ L.tip <= best /\ L.cur <= L.tip
      BY <2>2 DEF ScanInv, LoopInv, ChunkLabels
    <2>4. CASE error
      BY <1>0, <2>1, <2>2, <2>3, <2>4, ScannerMoves, LoopStep
    <2>5. CASE ~error
      <3> DEFINE blk == blocks[L.cur]
                 l == [L EXCEPT !.era = blk.era, !.found = DepositsOf(blk)]
      <3>1. /\ l.cur = L.cur /\ l.tip = L.tip /\ l.era = blk.era /\ l.todo = L.todo
            /\ l.found = DepositsOf(blk)
        BY DEF Locals
      <3>2. /\ pc'[Scanner] = IF DepositsOf(blk) = {} THEN "lock" ELSE "enqueue"
            /\ loc'[Scanner] = l
        BY <2>1, <2>5, ScannerMoves, ScannerSets
      <3> HIDE DEF l
      <3>3. L.cur \in 1 .. best
        BY <2>1, <2>3, <2>5
      <3>4. EraInv'
        BY <2>2, <3>1, <3>2, <3>3 DEF ScanInv, EraInv, chainVars
      <3>5. LoopInv'
        BY <2>2, <2>3, <3>1, <3>2 DEF LoopInv, ChunkLabels, chainVars
      <3>6. BlockInv'
        BY <2>2, <3>1, <3>2 DEF BlockInv, chainVars
      <3>7. HandInv'
        BY <2>2, <3>1, <3>2 DEF ScanInv, HandInv, EntryLabels
      <3> QED BY <1>0, <2>2, <3>4, <3>5, <3>6, <3>7 DEF ScanInv, chainVars
    <2> QED BY <2>4, <2>5
  <1>6. CASE ScanAdvance
    <2>1. /\ pc[Scanner] = "advance" /\ mem' = Advance(mem, L.cur, L.era) /\ UNCHANGED chainVars
      BY <1>6 DEF ScanAdvance
    <2>2. PICK ok \in BOOLEAN :
            /\ SaveState(ok)
            /\ IF ok
               THEN /\ Goto(Scanner, IF L.cur + 1 <= L.tip THEN "reorg" ELSE "tip")
                    /\ SetLocals(Scanner, [L EXCEPT !.cur = @ + 1, !.era = 0])
               ELSE /\ Goto(Scanner, "start")
                    /\ SetLocals(Scanner, InitLocals)
      BY <1>6 DEF ScanAdvance
    <2>3. mem.cursor \in Nat /\ L.cur = mem.cursor + 1 /\ L.tip <= best /\ L.cur <= L.tip
      BY <2>1 DEF ScanInv, LoopInv, ChunkLabels
    <2>4. L.cur \in Heights /\ L.cur <= best
      BY <2>3, BoundAssumption
    <2>5. Sound(mem', best, blocks, reorgs)
      <3>1. L.era = blocks[L.cur].era =>
              \A d \in DepositsOf(blocks[L.cur]) : TrackedAt(mem, d, L.cur)
        BY <2>1, <2>3 DEF ScanInv, BlockInv, InChain
      <3>2. L.era <= reorgs
        BY DEF ScanInv, EraInv
      <3> QED BY <1>0, <2>1, <2>3, <2>4, <3>1, <3>2, AdvanceSound
    <2>6. Sound(disk', best, blocks, reorgs)
      BY <1>0, <2>2, <2>5 DEF SaveState
    <2>7. CASE ~ok
      BY <2>1, <2>2, <2>5, <2>6, <2>7, ScannerMoves, ScannerSets, RestartStep
    <2>8. CASE ok
      <3> DEFINE l == [L EXCEPT !.cur = @ + 1, !.era = 0]
      <3>1. /\ l.cur = L.cur + 1 /\ l.tip = L.tip /\ l.era = 0 /\ l.todo = L.todo
        BY DEF Locals
      <3>2. /\ pc'[Scanner] = IF L.cur + 1 <= L.tip THEN "reorg" ELSE "tip"
            /\ loc'[Scanner] = l
        BY <2>2, <2>8, ScannerMoves, ScannerSets
      <3> HIDE DEF l
      <3>3. mem'.cursor = L.cur
        BY <2>1 DEF Advance, Store
      <3> QED BY <2>1, <2>3, <2>5, <2>6, <3>1, <3>2, <3>3, LoopStep
    <2> QED BY <2>7, <2>8
  <1> QED BY <1>1, <1>2, <1>3, <1>4, <1>5, <1>6 DEF ScanStep

LEMMA QueueTracks ==
    ASSUME TypeInv, TypeInv', ScanInv,
           \/ EnqueuePush(Scanner) \/ EnqueueSave(Scanner) \/ CreditsLock(Scanner)
           \/ CreditsClone(Scanner) \/ CreditsRelease(Scanner) \/ EntryStart(Scanner)
    PROVE  ScanInv'
  <1> USE ScannerLocals
  <1> DEFINE L == loc[Scanner]
  <1>0. /\ Sound(mem, best, blocks, reorgs) /\ Sound(disk, best, blocks, reorgs)
        /\ Grown(mem, mem) /\ HandInv
    BY KnownIds, SameGrown DEF ScanInv
  <1>a. /\ AfterCredits(Scanner) = IF L.cur > L.tip THEN "tip" ELSE "advance"
        /\ AfterCredits(Scanner) \notin EntryLabels
    BY DEF AfterCredits, EntryLabels
  <1>1. CASE EnqueuePush(Scanner)
    <2> DEFINE l == [L EXCEPT !.found = {}]
    <2>1. /\ l.cur = L.cur /\ l.tip = L.tip /\ l.era = L.era /\ l.todo = L.todo
      BY DEF Locals
    <2>2. /\ pc[Scanner] = "enqueue" /\ pc'[Scanner] = "save" /\ loc'[Scanner] = l
          /\ mem' = Enqueue(mem, L.found, L.cur) /\ disk' = disk /\ UNCHANGED chainVars
      BY <1>1, ScannerMoves, ScannerSets DEF EnqueuePush
    <2> HIDE DEF l
    <2>3. mem.cursor \in Nat /\ L.cur = mem.cursor + 1 /\ L.tip <= best /\ L.cur <= L.tip
      BY <2>2 DEF ScanInv, LoopInv, ChunkLabels
    <2>4. L.found \subseteq Deposits /\ L.cur <= best
      BY <2>3 DEF Locals
    <2>5. /\ Sound(mem', best, blocks, reorgs) /\ mem'.cursor = mem.cursor
          /\ \A d \in L.found : TrackedAt(mem', d, L.cur)
      <3>1. /\ Sound(Enqueue(mem, L.found, L.cur), best, blocks, reorgs)
            /\ Enqueue(mem, L.found, L.cur).cursor = mem.cursor
            /\ \A d \in L.found : TrackedAt(Enqueue(mem, L.found, L.cur), d, L.cur)
        BY <1>0, <2>3, <2>4, EnqueueSound
      <3> QED BY <2>2, <3>1
    <2>6. EraInv'
      BY <2>1, <2>2 DEF ScanInv, EraInv, chainVars
    <2>7. LoopInv'
      BY <2>1, <2>2, <2>3, <2>5 DEF LoopInv, chainVars
    <2>8. BlockInv'
      <3>1. InChain => L.found = DepositsOf(blocks[L.cur])
        BY <2>2, <2>3 DEF ScanInv, BlockInv
      <3> QED BY <2>1, <2>2, <2>5, <3>1 DEF BlockInv, InChain, chainVars
    <2>9. HandInv'
      BY <1>0, <2>1, <2>2 DEF HandInv, EntryLabels
    <2> QED BY <1>0, <2>2, <2>5, <2>6, <2>7, <2>8, <2>9 DEF ScanInv, chainVars
  <1>2. CASE EnqueueSave(Scanner)
    <2>1. PICK ok \in BOOLEAN :
            /\ SaveState(ok)
            /\ Goto(Scanner, IF ok THEN "lock" ELSE "start")
            /\ SetLocals(Scanner, IF ok THEN L ELSE InitLocals)
      BY <1>2 DEF EnqueueSave
    <2>2. /\ pc[Scanner] = "save" /\ mem' = mem /\ (disk' = disk \/ disk' = mem')
          /\ UNCHANGED chainVars
      BY <1>2, <2>1 DEF EnqueueSave, SaveState
    <2>3. CASE ok
      <3>1. pc'[Scanner] = "lock" /\ loc'[Scanner] = L
        BY <2>1, <2>3, ScannerMoves, ScannerSets
      <3>2. HandInv'
        BY <1>0, <3>1 DEF HandInv, EntryLabels
      <3>3. Grown(mem, mem')
        BY <1>0, <2>2
      <3> QED BY <2>2, <3>1, <3>2, <3>3, KeepStep DEF ChunkLabels, Pushed
    <2>4. CASE ~ok
      BY <1>0, <2>1, <2>2, <2>4, ScannerMoves, ScannerSets, RestartStep
    <2> QED BY <2>3, <2>4
  <1>3. CASE CreditsLock(Scanner)
    <2>1. PICK ok \in BOOLEAN :
            /\ SaveState(ok)
            /\ Goto(Scanner, IF ok THEN "clone" ELSE AfterCredits(Scanner))
            /\ SetLocals(Scanner, L)
      BY <1>3 DEF CreditsLock
    <2>2. /\ pc[Scanner] = "lock" /\ mem' = mem /\ (disk' = disk \/ disk' = mem')
          /\ UNCHANGED chainVars
      BY <1>3, <2>1 DEF CreditsLock, SaveState
    <2>3. /\ pc'[Scanner] = IF ok THEN "clone" ELSE AfterCredits(Scanner)
          /\ loc'[Scanner] = L
      BY <2>1, ScannerMoves, ScannerSets
    <2>4. HandInv'
      BY <1>0, <1>a, <2>3 DEF HandInv, EntryLabels
    <2>5. Grown(mem, mem')
      BY <1>0, <2>2
    <2>6. /\ pc'[Scanner] # "start" /\ pc'[Scanner] # "enqueue"
          /\ pc'[Scanner] \in ChunkLabels => L.cur <= L.tip
      BY <1>a, <2>3 DEF ChunkLabels
    <2> QED BY <2>2, <2>3, <2>4, <2>5, <2>6, KeepStep DEF Pushed
  <1>4. CASE CreditsClone(Scanner)
    <2> DEFINE l == [L EXCEPT !.todo = mem.pending]
    <2>1. /\ l.cur = L.cur /\ l.tip = L.tip /\ l.era = L.era /\ l.todo = mem.pending
      BY DEF Locals
    <2>2. /\ pc[Scanner] = "clone" /\ pc'[Scanner] = "next" /\ loc'[Scanner] = l
          /\ mem' = mem /\ disk' = disk /\ UNCHANGED chainVars
      BY <1>4, ScannerMoves, ScannerSets DEF CreditsClone
    <2> HIDE DEF l
    <2>3. HandInv'
      BY <2>1, <2>2, KnownIds DEF HandInv, EntryLabels
    <2>4. Grown(mem, mem')
      BY <1>0, <2>2
    <2> QED BY <2>1, <2>2, <2>3, <2>4, KeepStep DEF Pushed, Critical, ChunkLabels
  <1>5. CASE CreditsRelease(Scanner)
    <2>1. /\ pc[Scanner] = "next" /\ pc'[Scanner] = AfterCredits(Scanner) /\ loc'[Scanner] = L
          /\ mem' = mem /\ disk' = disk /\ UNCHANGED chainVars
      BY <1>5, ScannerMoves, ScannerSets DEF CreditsRelease
    <2>2. HandInv'
      BY <1>0, <1>a, <2>1 DEF HandInv
    <2>3. Grown(mem, mem')
      BY <1>0, <2>1
    <2>4. /\ pc'[Scanner] # "start" /\ pc'[Scanner] # "enqueue"
          /\ pc'[Scanner] \in ChunkLabels => L.cur <= L.tip
      BY <1>a, <2>1 DEF ChunkLabels
    <2> QED BY <2>1, <2>2, <2>3, <2>4, KeepStep DEF Pushed, Critical
  <1>6. CASE EntryStart(Scanner)
    <2>1. PICK e \in L.todo :
            LET already == IsCredited(mem, e.dep, e.id)
                started == [L EXCEPT !.todo = @ \ {e}, !.entry = e, !.already = already]
            IN IF ~e.notified /\ ~already
               THEN Goto(Scanner, "detect") /\ SetLocals(Scanner, started)
               ELSE IF Confirmed(e, L.tip)
               THEN Goto(Scanner, "sweep") /\ SetLocals(Scanner, started)
               ELSE /\ Goto(Scanner, "next")
                    /\ SetLocals(Scanner, [L EXCEPT !.todo = @ \ {e}])
      BY <1>6 DEF EntryStart
    <2> DEFINE already == IsCredited(mem, e.dep, e.id)
               started == [L EXCEPT !.todo = @ \ {e}, !.entry = e, !.already = already]
               passed == [L EXCEPT !.todo = @ \ {e}]
    <2>2. /\ started.cur = L.cur /\ started.tip = L.tip /\ started.era = L.era
          /\ started.todo = L.todo \ {e} /\ started.entry = e
          /\ started.already <=> already
          /\ passed.cur = L.cur /\ passed.tip = L.tip /\ passed.era = L.era
          /\ passed.todo = L.todo \ {e}
      <3> HIDE DEF already
      <3> QED BY DEF Locals
    <2>3. /\ pc[Scanner] = "next" /\ mem' = mem /\ disk' = disk /\ UNCHANGED chainVars
          /\ \/ pc'[Scanner] \in {"detect", "sweep"} /\ loc'[Scanner] = started
             \/ pc'[Scanner] = "next" /\ loc'[Scanner] = passed
      <3>1. \/ Goto(Scanner, "detect") /\ SetLocals(Scanner, started)
            \/ Goto(Scanner, "sweep") /\ SetLocals(Scanner, started)
            \/ Goto(Scanner, "next") /\ SetLocals(Scanner, passed)
        BY <2>1
      <3> HIDE DEF started, passed
      <3> QED BY <1>6, <3>1, ScannerMoves, ScannerSets DEF EntryStart
    <2> HIDE DEF started, passed
    <2>4. HandInv'
      <3>1. IdKnown(e) /\ \A f \in L.todo \ {e} : IdKnown(f)
        BY <1>0 DEF HandInv
      <3>2. pc'[Scanner] # "remove"
        BY <2>3
      <3> QED BY <2>2, <2>3, <3>1, <3>2 DEF HandInv, EntryLabels
    <2>5. Grown(mem, mem')
      BY <1>0, <2>3
    <2> QED BY <2>2, <2>3, <2>4, <2>5, KeepStep DEF Pushed, Critical, EntryLabels, ChunkLabels
  <1> QED BY <1>1, <1>2, <1>3, <1>4, <1>5, <1>6

\* The steps of one delivery, which change the store by Grown steps only.
LEMMA DeliveryTracks ==
    ASSUME TypeInv, TypeInv', ScanInv,
           \/ SendDetected(Scanner) \/ RecordDetected(Scanner) \/ Sweep(Scanner)
           \/ SendCredited(Scanner) \/ RecordCredited(Scanner) \/ EntryFinish(Scanner)
    PROVE  ScanInv'
  <1> USE ScannerLocals
  <1> DEFINE L == loc[Scanner]
             Done == EntryDone(Scanner)
  <1>0. /\ Grown(mem, mem) /\ HandInv /\ pc[Scanner] \in EntryLabels
        /\ IdKnown(L.entry) /\ L.entry \in Entry
    <2>1. pc[Scanner] \in EntryLabels
      BY DEF SendDetected, RecordDetected, Sweep, SendCredited, RecordCredited, EntryFinish, EntryLabels
    <2> QED BY <2>1, KnownIds, SameGrown DEF ScanInv, HandInv, TypeInv, EntryInv
  <1>1. /\ Done.cur = L.cur /\ Done.tip = L.tip /\ Done.era = L.era /\ Done.todo = L.todo
    BY DEF EntryDone, Locals
  <1> HIDE DEF Done
  \* The task is done with its entry, or goes on with it.
  <1>2. ASSUME UNCHANGED chainVars, Grown(mem, mem'), disk' = disk \/ disk' = mem',
               pc'[Scanner] = "next", loc'[Scanner] = Done
        PROVE  ScanInv'
    <2>1. HandInv'
      BY <1>0, <1>1, <1>2 DEF HandInv, EntryLabels
    <2> QED BY <1>0, <1>1, <1>2, <2>1, KeepStep DEF Pushed, Critical, EntryLabels, ChunkLabels
  <1>3. ASSUME UNCHANGED chainVars, Grown(mem, mem'), disk' = disk \/ disk' = mem',
               pc'[Scanner] \in EntryLabels,
               loc'[Scanner].cur = L.cur, loc'[Scanner].tip = L.tip, loc'[Scanner].era = L.era,
               loc'[Scanner].todo = L.todo, loc'[Scanner].entry = L.entry,
               loc'[Scanner].already \/ pc'[Scanner] = "remove" =>
                 IsCredited(mem', L.entry.dep, L.entry.id)
        PROVE  ScanInv'
    <2>1. HandInv'
      BY <1>0, <1>3 DEF HandInv
    <2> QED BY <1>0, <1>3, <2>1, KeepStep DEF Pushed, Critical, EntryLabels, ChunkLabels
  <1>4. L.already \/ pc[Scanner] = "remove" => IsCredited(mem, L.entry.dep, L.entry.id)
    BY <1>0 DEF HandInv
  <1>5. CASE SendDetected(Scanner)
    <2>1. /\ UNCHANGED <<chainVars, mem, disk>>
          /\ \/ pc'[Scanner] = "notified" /\ loc'[Scanner] = L
             \/ pc'[Scanner] = "next" /\ loc'[Scanner] = Done
      <3>1. \/ Goto(Scanner, "notified") /\ SetLocals(Scanner, L)
            \/ Goto(Scanner, "next") /\ SetLocals(Scanner, Done)
        BY <1>5 DEF SendDetected, Done
      <3> QED BY <1>5, <3>1, ScannerMoves, ScannerSets DEF SendDetected
    <2> QED BY <1>0, <1>2, <1>3, <1>4, <2>1 DEF EntryLabels
  <1>6. CASE RecordDetected(Scanner)
    <2>1. /\ UNCHANGED chainVars
          /\ mem' \in NotifiedStores(mem, L.entry.id)
          /\ disk' = disk \/ disk' = mem'
          /\ \/ pc'[Scanner] = "sweep" /\ loc'[Scanner] = L
             \/ pc'[Scanner] = "next" /\ loc'[Scanner] = Done
      <3>1. PICK ok \in BOOLEAN :
              LET goOn == ok /\ Confirmed(loc[Scanner].entry, loc[Scanner].tip)
              IN /\ SaveState(ok)
                 /\ Goto(Scanner, IF goOn THEN "sweep" ELSE "next")
                 /\ SetLocals(Scanner, IF goOn THEN loc[Scanner] ELSE EntryDone(Scanner))
        BY <1>6 DEF RecordDetected
      <3>2. \/ Goto(Scanner, "sweep") /\ SetLocals(Scanner, L)
            \/ Goto(Scanner, "next") /\ SetLocals(Scanner, Done)
        BY <3>1 DEF Done
      <3> QED BY <1>6, <3>1, <3>2, ScannerMoves, ScannerSets DEF RecordDetected, SaveState
    <2>2. Grown(mem, mem')
      BY <2>1, KnownIds, NotifiedGrown
    <2>3. mem'.credited = mem.credited
      BY <2>1 DEF NotifiedStores, Store
    <2>4. CASE loc'[Scanner] = Done /\ pc'[Scanner] = "next"
      BY <1>2, <2>1, <2>2, <2>4
    <2>5. CASE loc'[Scanner] = L /\ pc'[Scanner] = "sweep"
      <3>1. L.already => IsCredited(mem', L.entry.dep, L.entry.id)
        BY <1>4, <2>3 DEF IsCredited
      <3> QED BY <1>3, <2>1, <2>2, <2>5, <3>1 DEF EntryLabels
    <2> QED BY <2>1, <2>4, <2>5
  <1>7. CASE Sweep(Scanner)
    <2>1. PICK deferred \in BOOLEAN : SetLocals(Scanner, [L EXCEPT !.deferred = deferred])
      BY <1>7 DEF Sweep
    <2> DEFINE l == [L EXCEPT !.deferred = deferred]
    <2>2. /\ l.cur = L.cur /\ l.tip = L.tip /\ l.era = L.era /\ l.todo = L.todo
          /\ l.entry = L.entry /\ l.already = L.already
      BY DEF Locals
    <2>3. /\ loc'[Scanner] = l /\ UNCHANGED <<chainVars, mem, disk>>
          /\ pc'[Scanner] = IF ~L.already THEN "credit" ELSE "remove"
      BY <1>7, <2>1, ScannerMoves, ScannerSets DEF Sweep
    <2> HIDE DEF l
    <2> QED BY <1>0, <1>3, <1>4, <2>2, <2>3 DEF EntryLabels
  <1>8. CASE SendCredited(Scanner)
    <2>1. /\ UNCHANGED <<chainVars, mem, disk>>
          /\ \/ pc'[Scanner] = "record" /\ loc'[Scanner] = L
             \/ pc'[Scanner] = "next" /\ loc'[Scanner] = Done
      <3>1. \/ Goto(Scanner, "record") /\ SetLocals(Scanner, L)
            \/ Goto(Scanner, "next") /\ SetLocals(Scanner, Done)
        BY <1>8 DEF SendCredited, Done
      <3> QED BY <1>8, <3>1, ScannerMoves, ScannerSets DEF SendCredited
    <2> QED BY <1>0, <1>2, <1>3, <1>4, <2>1 DEF EntryLabels
  <1>9. CASE RecordCredited(Scanner)
    <2>1. /\ UNCHANGED chainVars
          /\ mem' = MarkCredited(mem, L.entry.id)
          /\ disk' = disk \/ disk' = mem'
          /\ \/ pc'[Scanner] = "remove" /\ loc'[Scanner] = L
             \/ pc'[Scanner] = "next" /\ loc'[Scanner] = Done
      <3>1. PICK ok \in BOOLEAN :
              /\ SaveState(ok)
              /\ Goto(Scanner, IF ok THEN "remove" ELSE "next")
              /\ SetLocals(Scanner, IF ok THEN L ELSE EntryDone(Scanner))
        BY <1>9 DEF RecordCredited
      <3>2. \/ Goto(Scanner, "remove") /\ SetLocals(Scanner, L)
            \/ Goto(Scanner, "next") /\ SetLocals(Scanner, Done)
        BY <3>1 DEF Done
      <3> QED BY <1>9, <3>1, <3>2, ScannerMoves, ScannerSets DEF RecordCredited, SaveState
    <2>2. Grown(mem, mem')
      BY <2>1, KnownIds, MarkGrown
    <2>3. IsCredited(mem', L.entry.dep, L.entry.id)
      BY <2>1 DEF MarkCredited, Store, IsCredited
    <2> QED BY <1>2, <1>3, <2>1, <2>2, <2>3 DEF EntryLabels
  <1>10. CASE EntryFinish(Scanner)
    <2>1. /\ UNCHANGED chainVars
          /\ \/ mem' = mem /\ disk' = disk
             \/ mem' = DropEntry(mem, L.entry.id) /\ (disk' = disk \/ disk' = mem')
          /\ pc'[Scanner] = "next" /\ loc'[Scanner] = Done
      BY <1>10, ScannerMoves, ScannerSets DEF EntryFinish, SaveState, Done
    <2>2. IsCredited(mem, L.entry.dep, L.entry.id)
      BY <1>4, <1>10 DEF EntryFinish
    <2>3. Grown(mem, mem')
      <3>1. Grown(mem, DropEntry(mem, L.entry.id))
        BY <1>0, <2>2, KnownIds, DropGrown
      <3> QED BY <1>0, <2>1, <3>1
    <2> QED BY <1>2, <2>1, <2>3
  <1> QED BY <1>5, <1>6, <1>7, <1>8, <1>9, <1>10

LEMMA EnvironmentTracks ==
    ASSUME TypeInv, TypeInv', ScanInv, Mine \/ Reorg \/ Crash
    PROVE  ScanInv'
  <1> USE ScannerLocals
  <1>0. Sound(mem, best, blocks, reorgs) /\ Sound(disk, best, blocks, reorgs)
    BY DEF ScanInv
  <1>1. CASE Mine \/ Reorg
    <2>1. UNCHANGED <<mem, disk, pc, loc>>
      BY <1>1 DEF Mine, Reorg
    <2>2. Sound(mem', best', blocks', reorgs') /\ Sound(disk', best', blocks', reorgs')
      <3>1. mem \in Store(FileEntry)
        BY EntrySubset
      <3>2. \A s \in Store(FileEntry) :
              Sound(s, best, blocks, reorgs) => Sound(s, best', blocks', reorgs')
        BY <1>1, ChainSound DEF TypeInv
      <3> QED BY <1>0, <2>1, <3>1, <3>2
    <2>3. best' = best + 1 /\ reorgs' \in {reorgs, reorgs + 1} /\ best' \in Heights
      BY <1>1, BoundAssumption DEF Mine, Reorg
    <2>4. \A h \in 1 .. best' :
            \/ h <= best /\ blocks'[h] = blocks[h]
            \/ blocks'[h].era = reorgs' /\ (h = best + 1 \/ reorgs' = reorgs + 1)
      <3> SUFFICES ASSUME NEW h \in 1 .. best'
                   PROVE  \/ h <= best /\ blocks'[h] = blocks[h]
                          \/ blocks'[h].era = reorgs' /\ (h = best + 1 \/ reorgs' = reorgs + 1)
        OBVIOUS
      <3>1. h \in Heights /\ h <= best + 1
        BY <2>3, BoundAssumption
      <3>2. CASE Mine
        BY <3>1, <3>2 DEF Mine
      <3>3. CASE Reorg
        BY <3>1, <3>3, ReorgBlocks DEF Reorg, TypeInv
      <3> QED BY <1>1, <3>2, <3>3
    <2>5. EraInv'
      <3>1. \A h \in 1 .. best' : blocks'[h].era <= reorgs'
        <4> SUFFICES ASSUME NEW h \in 1 .. best' PROVE blocks'[h].era <= reorgs'
          OBVIOUS
        <4>1. h <= best => blocks[h].era <= reorgs /\ blocks[h].era \in Nat
          BY <2>3, BoundAssumption DEF ScanInv, EraInv, Block
        <4> QED BY <2>3, <2>4, <4>1
      <3> QED BY <2>1, <2>3, <3>1 DEF ScanInv, EraInv
    <2>6. LoopInv'
      BY <2>1, <2>3 DEF ScanInv, LoopInv
    <2>7. BlockInv'
      <3> SUFFICES ASSUME pc[Scanner] \in {"enqueue"} \cup Pushed,
                          loc[Scanner].cur <= loc[Scanner].tip, InChain'
                   PROVE  blocks'[loc[Scanner].cur] = blocks[loc[Scanner].cur] /\ InChain
        BY <2>1 DEF ScanInv, BlockInv, Pushed
      <3>1. loc[Scanner].cur \in 1 .. best /\ loc[Scanner].era <= reorgs
        BY DEF ScanInv, LoopInv, EraInv, Pushed, Critical, EntryLabels
      <3> QED BY <2>1, <2>3, <2>4, <3>1 DEF InChain
    <2>8. HandInv'
      BY <2>1 DEF ScanInv, HandInv
    <2> QED BY <2>2, <2>5, <2>6, <2>7, <2>8 DEF ScanInv
  <1>2. CASE Crash
    <2>1. /\ mem' = LoadState(disk) /\ disk' = disk /\ UNCHANGED chainVars
          /\ pc'[Scanner] = "start" /\ loc'[Scanner] = InitLocals
      BY <1>2 DEF Crash
    <2>2. Sound(mem', best, blocks, reorgs)
      BY <1>0, <2>1, KnownIds, LoadStateGrown, GrownSound
    <2> QED BY <1>0, <2>1, <2>2, RestartStep
  <1> QED BY <1>1, <1>2

LEMMA ScanInit ==
    ASSUME Init
    PROVE  ScanInv
  <1>1. TypeInv
    BY TypeInit
  <1> USE <1>1, ScannerLocals
  <1>2. Sound(disk, best, blocks, reorgs)
    <2>1. /\ disk.hashes = NoHashes /\ disk.cursor = InitCursor
          /\ disk.pending = {LegacyEntry(d) : d \in LegacyPending}
          /\ best = 1
      BY DEF Init, FirstFile
    <2>2. \A e \in disk.pending : IdKnown(e) /\ e.height = 1
      BY <2>1 DEF LegacyEntry, IdKnown
    <2>3. HashesSound(disk, best, reorgs)
      BY <2>1 DEF HashesSound, NoHashes
    <2>4. EntriesSound(disk, best)
      BY <2>1, <2>2, BoundAssumption DEF EntriesSound
    <2>5. BlocksTracked(disk, best, blocks)
      <3> SUFFICES ASSUME NEW h \in 1 .. best PROVE disk.hashes[h] # blocks[h].era
        BY DEF BlocksTracked
      <3>1. h \in Heights /\ blocks[h].era \in Nat
        BY <2>1, BoundAssumption DEF Block
      <3> QED BY <2>1, <3>1 DEF NoHashes
    <2> QED BY <2>3, <2>4, <2>5 DEF Sound
  <1>3. Sound(mem, best, blocks, reorgs)
    <2>1. mem = LoadState(disk)
      BY DEF Init
    <2>2. \A e \in disk.pending : IdKnown(e)
      BY <1>2 DEF Sound, EntriesSound
    <2> QED BY <1>2, <2>1, <2>2, LoadStateGrown, GrownSound
  <1>4. EraInv
    BY DEF Init, EraInv, InitLocals
  <1>5. LoopInv /\ BlockInv /\ HandInv
    BY DEF Init, LoopInv, BlockInv, HandInv, InitLocals, Critical, EntryLabels
  <1> QED BY <1>2, <1>3, <1>4, <1>5 DEF ScanInv

LEMMA ScanInvStep ==
    ASSUME ScanAlone, TypeInv, ScanInv, [Next]_vars
    PROVE  ScanInv'
  <1>1. TypeInv'
    BY TypeStep
  <1>2. Tasks = {Scanner} /\ StartHeight = NoHeight
    BY DEF ScanAlone
  <1>3. CASE Mine \/ Reorg \/ Crash
    BY <1>1, <1>3, EnvironmentTracks
  <1>4. CASE ScanStep
    BY <1>1, <1>2, <1>4, ScanTracks
  <1>5. CASE \E t \in Tasks : OutboxStep(t)
    BY <1>1, <1>2, <1>5, QueueTracks, DeliveryTracks DEF OutboxStep
  <1>6. CASE UNCHANGED vars
    BY <1>6 DEF vars, chainVars, ScanInv, EraInv, LoopInv, BlockInv, InChain, HandInv
  <1> QED BY <1>2, <1>3, <1>4, <1>5, <1>6 DEF Next, ScanAlone

----------------------------------------------------------------------------
(* Nothing is passed below a recorded block *)

\* A store with the same hashes that tracks no less has passed no more.
LEMMA PassedStays ==
    ASSUME NEW s, NEW r, NEW f \in Nat, NEW b \in Heights, NEW bl \in [Heights -> Block],
           Passed(s, f, b, bl), r.hashes = s.hashes,
           \A d \in Deposits, h \in Nat : TrackedAt(s, d, h) => TrackedAt(r, d, h)
    PROVE  Passed(r, f, b, bl)
  BY DEF Passed, TrackedTo, DepositsOf

\* A scan that begins at the tip has nothing below it.
LEMMA PassedAtTip ==
    ASSUME NEW s, NEW f \in Nat, NEW b \in Heights, NEW bl \in [Heights -> Block],
           NEW era \in Nat, Sound(s, b, bl, era), f >= b
    PROVE  Passed(s, f, b, bl)
  <1> SUFFICES ASSUME NEW top \in 1 .. b, s.hashes[top] = bl[top].era,
                      NEW h \in f .. top, NEW d \in DepositsOf(bl[h])
               PROVE  TrackedAt(s, d, h)
    BY DEF Passed, TrackedTo
  <1>1. h = top
    OBVIOUS
  <1> QED BY <1>1 DEF Sound, BlocksTracked

\* A rollback keeps the entries below it, and no hash above.
LEMMA RollBackPassed ==
    ASSUME NEW s \in Store(Entry), NEW from \in Nat \ {0}, NEW cur \in Nat, NEW f \in Nat \ {0},
           NEW b \in Heights, NEW bl \in [Heights -> Block], NEW era \in Nat,
           Sound(s, b, bl, era), cur = s.cursor + 1, s.cursor \in Nat, from <= cur,
           Passed(s, f, b, bl)
    PROVE  Passed(RollBack(s, from, cur), f, b, bl)
  <1> DEFINE r == RollBack(s, from, cur)
  <1>1. /\ r.credited = s.credited
        /\ r.pending = {e \in s.pending : e.height < from}
        /\ r.hashes = [k \in Heights |-> IF k \in from .. cur - 1 THEN NoHash ELSE s.hashes[k]]
    BY DEF RollBack, Store
  <1> HIDE DEF r
  <1> SUFFICES ASSUME NEW top \in 1 .. b, r.hashes[top] = bl[top].era,
                      NEW h \in f .. top, NEW d \in DepositsOf(bl[h])
               PROVE  TrackedAt(r, d, h)
    BY DEF Passed, TrackedTo, r
  <1>2. top \in Heights /\ bl[top].era \in Nat
    BY BoundAssumption DEF Block
  <1>3. s.hashes[top] = bl[top].era /\ top \notin from .. cur - 1
    BY <1>1, <1>2
  <1>4. top < from
    BY <1>2, <1>3 DEF Sound, HashesSound
  <1>5. TrackedAt(s, d, h)
    BY <1>3 DEF Passed, TrackedTo
  <1>6. \A e \in s.pending : e.height \in Nat
    BY DEF Store, Entry
  <1> QED BY <1>1, <1>4, <1>5, <1>6 DEF TrackedAt, IsCredited

\* The block that is recorded has left nothing behind, and nothing was passed below it.
LEMMA AdvancePassed ==
    ASSUME NEW s \in Store(Entry), NEW h \in Heights, NEW found \in Nat, NEW f \in Nat \ {0},
           NEW b \in Heights, NEW bl \in [Heights -> Block], Passed(s, f, b, bl),
           found = bl[h].era => TrackedTo(s, f, h, bl)
    PROVE  Passed(Advance(s, h, found), f, b, bl)
  <1> DEFINE r == Advance(s, h, found)
  <1>1. /\ r.credited = s.credited /\ r.pending = s.pending
        /\ r.hashes[h] = found
        /\ \A k \in Heights : k # h => r.hashes[k] \in {NoHash, s.hashes[k]}
    BY DEF Advance, Store
  <1> HIDE DEF r
  <1> SUFFICES ASSUME NEW top \in 1 .. b, r.hashes[top] = bl[top].era,
                      NEW k \in f .. top, NEW d \in DepositsOf(bl[k])
               PROVE  TrackedAt(r, d, k)
    BY DEF Passed, TrackedTo, r
  <1>2. top \in Heights /\ bl[top].era \in Nat
    BY BoundAssumption DEF Block
  <1>3. TrackedAt(s, d, k)
    <2>1. CASE top = h
      BY <1>1, <2>1 DEF TrackedTo
    <2>2. CASE top # h
      BY <1>1, <1>2, <2>2 DEF Passed, TrackedTo
    <2> QED BY <2>1, <2>2
  <1> QED BY <1>1, <1>3 DEF TrackedAt, IsCredited

\* A reorganisation that leaves a block alone leaves those below it alone.
LEMMA ReorgKeepsBelow ==
    ASSUME TypeOK, Reorg, NEW h \in Heights, h <= best + 1, blocks'[h].era # reorgs + 1,
           NEW k \in 1 .. h
    PROVE  blocks'[k] = blocks[k]
  <1>1. PICK d \in 1 .. MaxReorgDepth :
          /\ d < best
          /\ LET base == best - d
                 kept == {tx \in Txs : \E j \in 1 .. base : tx \in blocks[j].txs}
             IN \E place \in [Txs \ kept -> {0} \cup (base + 1 .. best + 1)] :
                  blocks' = [j \in Heights |->
                      IF j <= base THEN blocks[j]
                      ELSE IF j <= best + 1
                           THEN [era |-> reorgs + 1,
                                 txs |-> {tx \in Txs \ kept : place[tx] = j}]
                      ELSE NoBlock]
    BY DEF Reorg
  <1> DEFINE base == best - d
             kept == {tx \in Txs : \E j \in 1 .. base : tx \in blocks[j].txs}
  <1>2. PICK place \in [Txs \ kept -> {0} \cup (base + 1 .. best + 1)] :
          blocks' = [j \in Heights |->
                      IF j <= base THEN blocks[j]
                      ELSE IF j <= best + 1
                           THEN [era |-> reorgs + 1,
                                 txs |-> {tx \in Txs \ kept : place[tx] = j}]
                      ELSE NoBlock]
    BY <1>1
  <1>3. best \in Nat /\ d \in Nat /\ base \in Int /\ k \in Heights /\ k <= h
    BY <1>1, BoundAssumption DEF TypeOK
  <1> HIDE DEF kept, base
  <1>4. h <= base
    <2> SUFFICES ASSUME ~(h <= base) PROVE FALSE
      BY <1>3
    <2>1. blocks'[h] = [era |-> reorgs + 1, txs |-> {tx \in Txs \ kept : place[tx] = h}]
      BY <1>2
    <2> QED BY <2>1
  <1>5. k <= base
    BY <1>3, <1>4
  <1> QED BY <1>2, <1>3, <1>5

\* A block of the old chain that the new one has too stands on the same blocks.
LEMMA ChainKeepsBelow ==
    ASSUME TypeOK, Mine \/ Reorg, NEW h \in 1 .. best', NEW era \in Nat,
           era <= reorgs, blocks'[h].era = era, h <= best, NEW k \in 1 .. h
    PROVE  blocks'[k] = blocks[k]
  <1>1. best \in Heights /\ reorgs \in Nat /\ h \in Heights /\ k \in Heights /\ k <= h
    BY BoundAssumption DEF TypeOK, Mine, Reorg
  <1>2. CASE Mine
    BY <1>1, <1>2 DEF Mine, TypeOK
  <1>3. CASE Reorg
    BY <1>1, <1>3, ReorgKeepsBelow
  <1> QED BY <1>2, <1>3

LEMMA ChainPassed ==
    ASSUME NEW s \in Store(FileEntry), TypeOK, Sound(s, best, blocks, reorgs), Mine \/ Reorg,
           Passed(s, first, best, blocks)
    PROVE  Passed(s, first, best', blocks')
  <1>1. best \in Heights /\ first \in Nat \ {0} /\ reorgs \in Nat /\ best' \in Heights
        /\ best' = best + 1
    BY BoundAssumption DEF TypeOK, Mine, Reorg
  <1> SUFFICES ASSUME NEW top \in 1 .. best', s.hashes[top] = blocks'[top].era,
                      NEW h \in first .. top, NEW d \in DepositsOf(blocks'[h])
               PROVE  TrackedAt(s, d, h)
    BY DEF Passed, TrackedTo
  <1>2. top \in Heights
    BY <1>1, BoundAssumption
  <1>3. s.hashes[top] \in Nat /\ s.hashes[top] # NoHash
    <2>1. blocks'[top].era \in Nat
      <3>1. CASE Mine
        BY <1>1, <1>2, <3>1 DEF Mine, TypeOK, Block
      <3>2. CASE Reorg
        <4>1. \/ blocks'[top] = blocks[top]
              \/ blocks'[top].era = reorgs + 1
          BY <1>1, <1>2, <3>2, ReorgBlocks
        <4>2. blocks[top].era \in Nat
          BY <1>2 DEF TypeOK, Block
        <4> QED BY <1>1, <4>1, <4>2
      <3> QED BY <3>1, <3>2
    <2> QED BY <2>1
  <1>4. top <= best /\ s.hashes[top] <= reorgs
    BY <1>2, <1>3 DEF Sound, HashesSound
  <1>5. \A k \in 1 .. top : blocks'[k] = blocks[k]
    BY <1>3, <1>4, ChainKeepsBelow
  <1>6. blocks'[top] = blocks[top] /\ blocks'[h] = blocks[h]
    BY <1>1, <1>5
  <1> QED BY <1>1, <1>4, <1>6 DEF Passed, TrackedTo, DepositsOf

\* What the outbox keeps: hashes, what is tracked, and the block in work.
OutboxKeeps ==
    /\ UNCHANGED <<chainVars, scanVars>>
    /\ disk' = disk \/ disk' = mem'
    /\ mem'.hashes = mem.hashes /\ mem'.cursor = mem.cursor
    /\ pc[Scanner] # "start"
    /\ \A d \in Deposits, h \in Nat : TrackedAt(mem, d, h) => TrackedAt(mem', d, h)
    /\ pc'[Scanner] \in {"enqueue"} \cup Pushed /\ loc'[Scanner].cur <= loc'[Scanner].tip =>
         /\ pc[Scanner] \in {"enqueue"} \cup Pushed
         /\ loc'[Scanner].cur = loc[Scanner].cur /\ loc'[Scanner].tip = loc[Scanner].tip
         /\ loc'[Scanner].era = loc[Scanner].era

LEMMA QueueKeeps ==
    ASSUME TypeInv, ScanInv,
           \/ EnqueuePush(Scanner) \/ EnqueueSave(Scanner) \/ CreditsLock(Scanner)
           \/ CreditsClone(Scanner) \/ CreditsRelease(Scanner) \/ EntryStart(Scanner)
    PROVE  OutboxKeeps
  <1> USE ScannerLocals
  <1> DEFINE L == loc[Scanner]
  <1>1. /\ UNCHANGED <<chainVars, scanVars>>
        /\ pc[Scanner] \in {"enqueue"} \cup Pushed
    BY DEF EnqueuePush, EnqueueSave, CreditsLock, CreditsClone, CreditsRelease, EntryStart,
           Pushed, Critical
  <1>2. disk' = disk \/ disk' = mem'
    BY DEF EnqueuePush, EnqueueSave, CreditsLock, CreditsClone, CreditsRelease, EntryStart, SaveState
  <1>3. /\ mem'.hashes = mem.hashes /\ mem'.cursor = mem.cursor
        /\ \A d \in Deposits, h \in Nat : TrackedAt(mem, d, h) => TrackedAt(mem', d, h)
    <2>1. CASE EnqueuePush(Scanner)
      <3>1. /\ mem'.hashes = mem.hashes /\ mem'.credited = mem.credited /\ mem'.cursor = mem.cursor
            /\ mem.pending \subseteq mem'.pending
        BY <2>1 DEF EnqueuePush, Enqueue, Store
      <3> QED BY <3>1 DEF TrackedAt, IsCredited
    <2>2. CASE ~EnqueuePush(Scanner)
      <3>1. mem' = mem
        BY <2>2 DEF EnqueueSave, CreditsLock, CreditsClone, CreditsRelease, EntryStart
      <3> QED BY <3>1
    <2> QED BY <2>1, <2>2
  <1>4. pc'[Scanner] \in {"enqueue"} \cup Pushed =>
          /\ loc'[Scanner].cur = L.cur /\ loc'[Scanner].tip = L.tip /\ loc'[Scanner].era = L.era
    <2>1. \/ SetLocals(Scanner, L)
          \/ SetLocals(Scanner, [L EXCEPT !.found = {}])
          \/ SetLocals(Scanner, [L EXCEPT !.todo = mem.pending])
          \/ \E e \in L.todo, a \in BOOLEAN :
               SetLocals(Scanner, [L EXCEPT !.todo = @ \ {e}, !.entry = e, !.already = a])
          \/ \E e \in L.todo : SetLocals(Scanner, [L EXCEPT !.todo = @ \ {e}])
          \/ Goto(Scanner, "start")
      <3>1. CASE EnqueuePush(Scanner) \/ CreditsClone(Scanner) \/ CreditsRelease(Scanner)
        BY <3>1 DEF EnqueuePush, CreditsClone, CreditsRelease
      <3>2. CASE EnqueueSave(Scanner)
        BY <3>2 DEF EnqueueSave
      <3>3. CASE CreditsLock(Scanner)
        BY <3>3 DEF CreditsLock
      <3>4. CASE EntryStart(Scanner)
        <4>1. PICK e \in L.todo :
                LET already == IsCredited(mem, e.dep, e.id)
                    started == [L EXCEPT !.todo = @ \ {e}, !.entry = e, !.already = already]
                IN \/ SetLocals(Scanner, started)
                   \/ SetLocals(Scanner, [L EXCEPT !.todo = @ \ {e}])
          BY <3>4 DEF EntryStart
        <4>2. IsCredited(mem, e.dep, e.id) \in BOOLEAN
          BY DEF IsCredited
        <4> QED BY <4>1, <4>2
      <3> QED BY <3>1, <3>2, <3>3, <3>4
    <2>2. Goto(Scanner, "start") => pc'[Scanner] \notin {"enqueue"} \cup Pushed
      BY ScannerMoves DEF Pushed, Critical, EntryLabels
    <2>3. ASSUME NEW l, SetLocals(Scanner, l), l.cur = L.cur, l.tip = L.tip, l.era = L.era
          PROVE  /\ loc'[Scanner].cur = L.cur /\ loc'[Scanner].tip = L.tip
                 /\ loc'[Scanner].era = L.era
      BY <2>3, ScannerSets
    <2>4. \A D : /\ [L EXCEPT !.found = D].cur = L.cur /\ [L EXCEPT !.found = D].tip = L.tip
                 /\ [L EXCEPT !.found = D].era = L.era
                 /\ [L EXCEPT !.todo = D].cur = L.cur /\ [L EXCEPT !.todo = D].tip = L.tip
                 /\ [L EXCEPT !.todo = D].era = L.era
      BY DEF Locals
    <2>5. \A D, e, a : LET l == [L EXCEPT !.todo = D, !.entry = e, !.already = a]
                       IN l.cur = L.cur /\ l.tip = L.tip /\ l.era = L.era
      BY DEF Locals
    <2> HIDE DEF L
    <2>6. CASE SetLocals(Scanner, L)
      BY <2>3, <2>6
    <2>7. CASE SetLocals(Scanner, [L EXCEPT !.found = {}])
      BY <2>3, <2>4, <2>7
    <2>8. CASE SetLocals(Scanner, [L EXCEPT !.todo = mem.pending])
      BY <2>3, <2>4, <2>8
    <2>9. CASE \E e \in L.todo, a \in BOOLEAN :
                 SetLocals(Scanner, [L EXCEPT !.todo = @ \ {e}, !.entry = e, !.already = a])
      <3>1. PICK e \in L.todo, a \in BOOLEAN :
              SetLocals(Scanner, [L EXCEPT !.todo = @ \ {e}, !.entry = e, !.already = a])
        BY <2>9
      <3> DEFINE l == [L EXCEPT !.todo = L.todo \ {e}, !.entry = e, !.already = a]
      <3>2. l.cur = L.cur /\ l.tip = L.tip /\ l.era = L.era
        BY <2>5
      <3>3. SetLocals(Scanner, l)
        BY <3>1
      <3> HIDE DEF l
      <3> QED BY <2>3, <3>2, <3>3
    <2>10. CASE \E e \in L.todo : SetLocals(Scanner, [L EXCEPT !.todo = @ \ {e}])
      BY <2>3, <2>4, <2>10
    <2> QED BY <2>1, <2>2, <2>6, <2>7, <2>8, <2>9, <2>10
  <1>5. pc[Scanner] # "start"
    BY <1>1 DEF Pushed, Critical, EntryLabels
  <1> QED BY <1>1, <1>2, <1>3, <1>4, <1>5 DEF OutboxKeeps

LEMMA DeliveryKeeps ==
    ASSUME TypeInv, ScanInv,
           \/ SendDetected(Scanner) \/ RecordDetected(Scanner) \/ Sweep(Scanner)
           \/ SendCredited(Scanner) \/ RecordCredited(Scanner) \/ EntryFinish(Scanner)
    PROVE  OutboxKeeps
  <1> USE ScannerLocals
  <1> DEFINE L == loc[Scanner]
  <1>0. /\ pc[Scanner] \in EntryLabels /\ L.entry \in Entry /\ IdKnown(L.entry)
        /\ pc[Scanner] = "remove" => IsCredited(mem, L.entry.dep, L.entry.id)
    <2>1. pc[Scanner] \in EntryLabels
      BY DEF SendDetected, RecordDetected, Sweep, SendCredited, RecordCredited, EntryFinish, EntryLabels
    <2> QED BY <2>1 DEF ScanInv, HandInv, TypeInv, EntryInv
  <1>1. /\ UNCHANGED <<chainVars, scanVars>>
        /\ pc[Scanner] \in {"enqueue"} \cup Pushed
    BY <1>0 DEF SendDetected, RecordDetected, Sweep, SendCredited, RecordCredited, EntryFinish,
           Pushed, Critical
  <1>2. disk' = disk \/ disk' = mem'
    BY DEF SendDetected, RecordDetected, Sweep, SendCredited, RecordCredited, EntryFinish, SaveState
  <1>3. Grown(mem, mem')
    <2>1. Grown(mem, mem)
      BY KnownIds, SameGrown
    <2>2. CASE SendDetected(Scanner) \/ Sweep(Scanner) \/ SendCredited(Scanner)
      BY <2>1, <2>2 DEF SendDetected, Sweep, SendCredited
    <2>3. CASE RecordDetected(Scanner)
      BY <2>3, KnownIds, NotifiedGrown DEF RecordDetected
    <2>4. CASE RecordCredited(Scanner)
      BY <2>4, KnownIds, MarkGrown DEF RecordCredited
    <2>5. CASE EntryFinish(Scanner)
      <3>1. IsCredited(mem, L.entry.dep, L.entry.id)
        BY <1>0, <2>5 DEF EntryFinish
      <3>2. Grown(mem, DropEntry(mem, L.entry.id))
        BY <1>0, <3>1, KnownIds, DropGrown
      <3>3. mem' = mem \/ mem' = DropEntry(mem, L.entry.id)
        BY <2>5 DEF EntryFinish
      <3> QED BY <2>1, <3>2, <3>3
    <2> QED BY <2>2, <2>3, <2>4, <2>5
  <1>4. /\ loc'[Scanner].cur = L.cur /\ loc'[Scanner].tip = L.tip /\ loc'[Scanner].era = L.era
    <2>1. \/ SetLocals(Scanner, L) \/ SetLocals(Scanner, EntryDone(Scanner))
          \/ \E deferred \in BOOLEAN : SetLocals(Scanner, [L EXCEPT !.deferred = deferred])
      <3>1. CASE SendDetected(Scanner)
        BY <3>1 DEF SendDetected
      <3>2. CASE RecordDetected(Scanner)
        BY <3>2 DEF RecordDetected
      <3>3. CASE Sweep(Scanner)
        BY <3>3 DEF Sweep
      <3>4. CASE SendCredited(Scanner)
        BY <3>4 DEF SendCredited
      <3>5. CASE RecordCredited(Scanner)
        BY <3>5 DEF RecordCredited
      <3>6. CASE EntryFinish(Scanner)
        BY <3>6 DEF EntryFinish
      <3> QED BY <3>1, <3>2, <3>3, <3>4, <3>5, <3>6
    <2>2. LET l == EntryDone(Scanner) IN l.cur = L.cur /\ l.tip = L.tip /\ l.era = L.era
      BY DEF EntryDone, Locals
    <2>3. \A a : LET l == [L EXCEPT !.deferred = a] IN l.cur = L.cur /\ l.tip = L.tip /\ l.era = L.era
      BY DEF Locals
    <2>4. ASSUME NEW l, SetLocals(Scanner, l), l.cur = L.cur, l.tip = L.tip, l.era = L.era
          PROVE  /\ loc'[Scanner].cur = L.cur /\ loc'[Scanner].tip = L.tip
                 /\ loc'[Scanner].era = L.era
      BY <2>4, ScannerSets
    <2> HIDE DEF L
    <2>5. CASE SetLocals(Scanner, L)
      BY <2>4, <2>5
    <2>6. CASE SetLocals(Scanner, EntryDone(Scanner))
      BY <2>2, <2>4, <2>6
    <2>7. CASE \E deferred \in BOOLEAN : SetLocals(Scanner, [L EXCEPT !.deferred = deferred])
      BY <2>3, <2>4, <2>7
    <2> QED BY <2>1, <2>5, <2>6, <2>7
  <1>5. pc[Scanner] # "start"
    BY <1>0 DEF EntryLabels
  <1> QED BY <1>1, <1>2, <1>3, <1>4, <1>5 DEF OutboxKeeps, Grown

LEMMA OutboxPassed ==
    ASSUME TypeInv, PassedInv, OutboxKeeps
    PROVE  PassedInv'
  <1> USE ScannerLocals
  <1> SUFFICES ASSUME ~unlinked
               PROVE  Passed(mem', first, best, blocks) /\ Passed(disk', first, best, blocks) /\ WorkInv'
    BY DEF PassedInv, OutboxKeeps, chainVars, scanVars
  <1>0. /\ first \in Nat /\ Passed(mem, first, best, blocks) /\ Passed(disk, first, best, blocks)
        /\ WorkInv
    BY DEF PassedInv, TypeInv, TypeOK
  <1>1. Passed(mem', first, best, blocks)
    BY <1>0, PassedStays DEF OutboxKeeps
  <1>2. Passed(disk', first, best, blocks)
    BY <1>0, <1>1 DEF OutboxKeeps
  <1>3. WorkInv'
    <2> SUFFICES ASSUME pc'[Scanner] \in {"enqueue"} \cup Pushed,
                        loc'[Scanner].cur <= loc'[Scanner].tip, InChain'
                 PROVE  TrackedTo(mem', first, loc'[Scanner].cur - 1, blocks)
      BY DEF WorkInv, OutboxKeeps, chainVars, scanVars
    <2>1. /\ pc[Scanner] \in {"enqueue"} \cup Pushed
          /\ loc'[Scanner].cur = loc[Scanner].cur /\ loc'[Scanner].tip = loc[Scanner].tip
          /\ loc'[Scanner].era = loc[Scanner].era
      BY DEF OutboxKeeps
    <2>2. InChain
      BY <2>1 DEF InChain, OutboxKeeps, chainVars
    <2>3. TrackedTo(mem, first, loc[Scanner].cur - 1, blocks)
      BY <1>0, <2>1, <2>2 DEF WorkInv
    <2> QED BY <1>0, <2>1, <2>3 DEF TrackedTo, DepositsOf, OutboxKeeps
  <1> QED BY <1>1, <1>2, <1>3

LEMMA ScanPassed ==
    ASSUME TypeInv, TypeInv', ScanInv, ScanInv', PassedInv, TopInv, StartHeight = NoHeight, ScanStep
    PROVE  PassedInv'
  <1> USE ScannerLocals
  <1> DEFINE L == loc[Scanner]
             Idle == pc'[Scanner] \notin {"enqueue"} \cup Pushed
  <1>0. /\ Sound(mem, best, blocks, reorgs) /\ Sound(disk, best, blocks, reorgs)
        /\ Sound(mem', best', blocks', reorgs') /\ Sound(disk', best', blocks', reorgs')
        /\ first \in Nat \ {0} /\ first' \in Nat \ {0} /\ mem' \in Store(Entry)
        /\ UNCHANGED chainVars
    <2>1. Sound(mem', best', blocks', reorgs') /\ Sound(disk', best', blocks', reorgs')
      BY DEF ScanInv
    <2>2. first \in Nat \ {0} /\ first' \in Nat \ {0} /\ mem' \in Store(Entry)
      BY DEF TypeInv, TypeOK
    <2>3. UNCHANGED chainVars
      BY DEF ScanStep, ScanStart, ScanTip, ScanReorg, ScanRollback, ScanFetch, ScanAdvance
    <2> QED BY <2>1, <2>2, <2>3 DEF ScanInv
  <1> SUFFICES ASSUME ~unlinked'
               PROVE  Passed(mem', first', best, blocks) /\ Passed(disk', first', best, blocks) /\ WorkInv'
    BY <1>0 DEF PassedInv, chainVars
  <1>a. ~unlinked
    BY DEF ScanStep, ScanStart, ScanTip, ScanReorg, ScanRollback, ScanFetch, ScanAdvance, scanVars
  <1>b. Passed(mem, first, best, blocks) /\ Passed(disk, first, best, blocks)
    BY <1>a DEF PassedInv
  <1>c. Idle => WorkInv'
    BY DEF WorkInv
  <1>1. CASE ScanStart
    <2>1. PICK ok \in BOOLEAN :
            /\ IF SkipInitialSync THEN SaveState(ok) ELSE ok /\ UNCHANGED <<disk, faults>>
            /\ Goto(Scanner, IF ok THEN "tip" ELSE "start")
      BY <1>1 DEF ScanStart
    <2>2. Idle
      BY <2>1, ScannerMoves DEF Pushed, Critical, EntryLabels
    <2>3. disk' = disk \/ disk' = mem'
      BY <2>1 DEF SaveState
    <2>4. first' = IF Resumes THEN first ELSE FirstHeight
      BY <1>1 DEF ScanStart
    <2>5. CASE Resumes
      <3>1. mem'.hashes = mem.hashes /\ mem'.pending = mem.pending /\ mem'.credited = mem.credited
        BY <1>1, <2>5 DEF ScanStart, Resumes, Store
      <3>2. \A d \in Deposits, h \in Nat : TrackedAt(mem, d, h) => TrackedAt(mem', d, h)
        BY <3>1 DEF TrackedAt, IsCredited
      <3>3. Passed(mem', first, best, blocks)
        BY <1>0, <1>b, <3>1, <3>2, PassedStays
      <3> QED BY <1>b, <1>c, <2>2, <2>3, <2>4, <2>5, <3>3
    <2>6. CASE ~Resumes
      <3>1. first' >= best
        BY <2>4, <2>6 DEF Resumes, FirstHeight
      <3>2. Passed(mem', first', best, blocks) /\ Passed(disk', first', best, blocks)
        BY <1>0, <3>1, PassedAtTip DEF chainVars
      <3> QED BY <1>c, <2>2, <3>2
    <2> QED BY <2>5, <2>6
  <1>2. CASE ScanTip
    <2>1. /\ mem' = mem /\ disk' = disk /\ first' = first
          /\ SetLocals(Scanner, [L EXCEPT !.tip = best, !.depth = 0])
          /\ Goto(Scanner, IF L.cur > best THEN "lock" ELSE "reorg")
      BY <1>2 DEF ScanTip, scanVars
    <2>2. loc'[Scanner].cur = L.cur /\ loc'[Scanner].tip = best
      <3>1. loc'[Scanner] = [L EXCEPT !.tip = best, !.depth = 0]
        BY <2>1, ScannerSets
      <3> QED BY <3>1 DEF Locals
    <2>3. WorkInv'
      <3>1. CASE L.cur > best
        BY <2>2, <3>1 DEF WorkInv
      <3>2. CASE ~(L.cur > best)
        BY <1>c, <2>1, <3>2, ScannerMoves DEF Pushed, Critical, EntryLabels
      <3> QED BY <3>1, <3>2
    <2> QED BY <1>b, <2>1, <2>3
  <1>3. CASE ScanReorg
    <2>1. /\ mem' = mem /\ disk' = disk /\ first' = first
          /\ pc'[Scanner] \in {"reorg", "rollback", "fetch"}
      BY <1>3, ScannerMoves DEF ScanReorg, scanVars
    <2> QED BY <1>b, <1>c, <2>1 DEF Pushed, Critical, EntryLabels
  <1>4. CASE ScanRollback
    <2> DEFINE from == L.cur - L.depth
    <2>1. /\ pc[Scanner] = "rollback" /\ mem' = RollBack(mem, from, L.cur)
          /\ disk' = disk /\ first' = first /\ pc'[Scanner] = "reorg"
      BY <1>4, ScannerMoves DEF ScanRollback
    <2>2. mem.cursor \in Nat /\ L.cur = mem.cursor + 1
      BY <2>1 DEF ScanInv, LoopInv
    <2>3. from \in Nat \ {0} /\ from <= L.cur
      <3>1. L.depth = 0 \/ L.depth < L.cur
        BY DEF TypeInv, DepthInv
      <3>2. L.depth \in Nat /\ L.cur \in Nat /\ L.cur >= 1
        BY <2>2
      <3> QED BY <3>1, <3>2
    <2> HIDE DEF from
    <2>4. Passed(mem', first, best, blocks)
      BY <1>0, <1>b, <2>1, <2>2, <2>3, RollBackPassed
    <2> QED BY <1>b, <1>c, <2>1, <2>4 DEF Pushed, Critical, EntryLabels
  <1>5. CASE ScanFetch
    <2>1. /\ pc[Scanner] = "fetch" /\ mem' = mem /\ disk' = disk /\ first' = first
      BY <1>5 DEF ScanFetch
    <2>2. PICK error \in BOOLEAN :
            /\ L.cur \notin Heights => error
            /\ IF error
               THEN Goto(Scanner, "tip")
               ELSE LET blk == blocks[L.cur]
                    IN /\ SetLocals(Scanner, [L EXCEPT !.era = blk.era, !.found = DepositsOf(blk)])
                       /\ unlinked' = (unlinked \/ ~Linked(L.cur))
      BY <1>5 DEF ScanFetch
    <2>3. CASE error
      BY <1>b, <1>c, <2>1, <2>2, <2>3, ScannerMoves DEF Pushed, Critical, EntryLabels
    <2>4. CASE ~error
      <3>1. Linked(L.cur) /\ L.cur \in Heights
        BY <2>2, <2>4
      <3>2. loc'[Scanner].cur = L.cur
        <4>1. loc'[Scanner] = [L EXCEPT !.era = blocks[L.cur].era, !.found = DepositsOf(blocks[L.cur])]
          BY <2>2, <2>4, ScannerSets
        <4> QED BY <4>1 DEF Locals
      <3>3. TrackedTo(mem, first, L.cur - 1, blocks)
        <4>1. CASE L.cur > first
          <5>1. L.cur <= best
            BY <2>1 DEF ScanInv, LoopInv, ChunkLabels
          <5>2. mem.hashes[L.cur - 1] # NoHash
            <6>1. mem.cursor = L.cur - 1
              BY <2>1 DEF ScanInv, LoopInv
            <6>2. TopRecorded(mem, first)
              BY <1>a, <2>1 DEF TopInv
            <6> QED BY <1>0, <4>1, <6>1, <6>2 DEF TopRecorded
          <5>3. L.cur - 1 \in 1 .. best /\ mem.hashes[L.cur - 1] = blocks[L.cur - 1].era
            BY <1>0, <3>1, <4>1, <5>1, <5>2 DEF Linked
          <5> QED BY <1>b, <5>3 DEF Passed
        <4>2. CASE ~(L.cur > first)
          BY <1>0, <4>2 DEF TrackedTo
        <4> QED BY <4>1, <4>2
      <3>4. WorkInv'
        BY <1>0, <2>1, <3>2, <3>3 DEF WorkInv, chainVars
      <3> QED BY <1>b, <2>1, <3>4
    <2> QED BY <2>3, <2>4
  <1>6. CASE ScanAdvance
    <2>1. /\ pc[Scanner] = "advance" /\ mem' = Advance(mem, L.cur, L.era) /\ first' = first
      BY <1>6 DEF ScanAdvance, scanVars
    <2>2. PICK ok \in BOOLEAN :
            /\ SaveState(ok)
            /\ Goto(Scanner, IF ok THEN IF L.cur + 1 <= L.tip THEN "reorg" ELSE "tip" ELSE "start")
      BY <1>6 DEF ScanAdvance
    <2>3. Idle
      BY <2>2, ScannerMoves DEF Pushed, Critical, EntryLabels
    <2>4. /\ mem.cursor \in Nat /\ L.cur = mem.cursor + 1 /\ L.tip <= best /\ L.cur <= L.tip
          /\ L.cur \in Heights
      BY <2>1, BoundAssumption DEF ScanInv, LoopInv, ChunkLabels
    <2>5. L.era = blocks[L.cur].era => TrackedTo(mem, first, L.cur, blocks)
      <3> SUFFICES ASSUME InChain, NEW h \in first .. L.cur, NEW d \in DepositsOf(blocks[h])
                   PROVE  TrackedAt(mem, d, h)
        BY DEF InChain, TrackedTo
      <3>1. CASE h = L.cur
        BY <2>1, <2>4, <3>1 DEF ScanInv, BlockInv
      <3>2. CASE h # L.cur
        <4>1. TrackedTo(mem, first, L.cur - 1, blocks)
          BY <1>a, <2>1, <2>4 DEF PassedInv, WorkInv, Pushed
        <4>2. h \in first .. L.cur - 1
          BY <1>0, <2>4, <3>2
        <4> QED BY <4>1, <4>2 DEF TrackedTo
      <3> QED BY <3>1, <3>2
    <2>6. Passed(mem', first, best, blocks)
      BY <1>0, <1>b, <2>1, <2>4, <2>5, AdvancePassed
    <2>7. disk' = disk \/ disk' = mem'
      BY <2>2 DEF SaveState
    <2> QED BY <1>b, <1>c, <2>1, <2>3, <2>6, <2>7
  <1> QED BY <1>1, <1>2, <1>3, <1>4, <1>5, <1>6 DEF ScanStep

\* The cursor of a scan step, and the record of its block.
LEMMA ScanTop ==
    ASSUME TypeInv, TypeInv', ScanInv, TopInv, StartHeight = NoHeight, ScanStep
    PROVE  TopInv'
  <1> USE ScannerLocals
  <1> DEFINE L == loc[Scanner]
  <1>0. /\ first \in Nat \ {0} /\ first' \in Nat \ {0}
        /\ unlinked \in BOOLEAN /\ unlinked' \in BOOLEAN
        /\ mem.cursor \in Nat \cup {NoHeight} /\ disk.cursor \in Nat \cup {NoHeight}
    BY DEF TypeInv, TypeOK, Store
  <1>1. CASE ScanStart
    <2>1. PICK ok \in BOOLEAN :
            /\ IF SkipInitialSync THEN SaveState(ok) ELSE ok /\ UNCHANGED <<disk, faults>>
            /\ Goto(Scanner, IF ok THEN "tip" ELSE "start")
      BY <1>1 DEF ScanStart
    <2>2. /\ mem'.cursor = FirstHeight - 1 /\ unlinked' = unlinked
          /\ mem'.hashes = IF SkipInitialSync THEN NoHashes ELSE mem.hashes
          /\ first' = IF Resumes THEN first ELSE FirstHeight
      BY <1>1 DEF ScanStart, Store
    <2>3. FirstHeight \in Nat \ {0}
      BY <1>0 DEF FirstHeight
    <2>4. CASE Resumes
      BY <1>0, <2>1, <2>2, <2>4 DEF TopInv, TopRecorded, Resumes, FirstHeight
    <2>5. CASE ~Resumes /\ SkipInitialSync
      BY <1>0, <2>2, <2>3, <2>5 DEF TopInv, TopRecorded
    <2>6. CASE ~Resumes /\ ~SkipInitialSync
      <3>1. mem.cursor = NoHeight /\ disk' = disk /\ disk.cursor = NoHeight
        BY <2>1, <2>6 DEF TopInv, Resumes
      <3> QED BY <1>0, <2>2, <2>3, <2>6, <3>1 DEF TopInv, TopRecorded
    <2> QED BY <2>4, <2>5, <2>6
  <1>2. CASE ScanTip \/ ScanReorg \/ ScanFetch
    <2>1. mem' = mem /\ disk' = disk /\ first' = first /\ (unlinked => unlinked')
          /\ pc[Scanner] # "start"
      BY <1>2 DEF ScanTip, ScanReorg, ScanFetch, scanVars
    <2> QED BY <2>1 DEF TopInv
  <1>3. CASE ScanRollback
    <2> DEFINE from == L.cur - L.depth
    <2>1. /\ pc[Scanner] = "rollback" /\ mem' = RollBack(mem, from, L.cur)
          /\ disk' = disk /\ first' = first
          /\ unlinked' = (unlinked \/ (from > first /\ mem.hashes[from - 1] = NoHash))
      BY <1>3 DEF ScanRollback
    <2>2. mem.cursor \in Nat /\ L.cur = mem.cursor + 1 /\ L.cur <= best
      BY <2>1 DEF ScanInv, LoopInv, ChunkLabels
    <2>3. from \in Nat \ {0} /\ from <= L.cur
      <3>1. L.depth = 0 \/ L.depth < L.cur
        BY DEF TypeInv, DepthInv
      <3>2. L.depth \in Nat /\ L.cur \in Nat /\ L.cur >= 1
        BY <2>2
      <3> QED BY <3>1, <3>2
    <2> HIDE DEF from
    <2>4. /\ mem'.cursor = from - 1
          /\ mem'.hashes = [k \in Heights |-> IF k \in from .. L.cur - 1 THEN NoHash ELSE mem.hashes[k]]
      BY <2>1 DEF RollBack, Store
    <2>5. ASSUME ~unlinked', from - 1 >= first
          PROVE  mem'.hashes[from - 1] # NoHash
      <3>0. from > first
        BY <1>0, <2>3, <2>5
      <3>1. ~(from > first /\ mem.hashes[from - 1] = NoHash)
        BY <2>1, <2>5
      <3>1a. mem.hashes[from - 1] # NoHash
        BY <3>0, <3>1
      <3>2. from - 1 \in Heights /\ from - 1 \notin from .. L.cur - 1
        BY <1>0, <2>2, <2>3, <2>5, BoundAssumption
      <3> QED BY <2>4, <3>1a, <3>2
    <2>6. ~unlinked' => TopRecorded(mem', first')
      BY <2>1, <2>4, <2>5 DEF TopRecorded
    <2>7. mem'.cursor # NoHeight
      BY <2>3, <2>4
    <2>8. unlinked => unlinked'
      BY <2>1
    <2> QED BY <2>1, <2>6, <2>7, <2>8 DEF TopInv
  <1>4. CASE ScanAdvance
    <2>1. /\ pc[Scanner] = "advance" /\ mem' = Advance(mem, L.cur, L.era)
          /\ first' = first /\ unlinked' = unlinked
      BY <1>4 DEF ScanAdvance, scanVars
    <2>2. disk' = disk \/ disk' = mem'
      BY <1>4 DEF ScanAdvance, SaveState
    <2>3. L.cur \in Heights
      BY <2>1, BoundAssumption DEF ScanInv, LoopInv, ChunkLabels
    <2>4. mem'.cursor = L.cur /\ mem'.hashes[L.cur] = L.era
      BY <2>1, <2>3 DEF Advance, Store
    <2>5. mem'.cursor # NoHeight /\ TopRecorded(mem', first')
      BY <2>4 DEF TopRecorded
    <2> QED BY <2>1, <2>2, <2>5 DEF TopInv
  <1> QED BY <1>1, <1>2, <1>3, <1>4 DEF ScanStep

LEMMA OtherTop ==
    ASSUME TypeInv, TopInv, OutboxKeeps \/ Mine \/ Reorg \/ Crash
    PROVE  TopInv'
  <1> USE ScannerLocals
  <1>1. CASE OutboxKeeps
    BY <1>1 DEF OutboxKeeps, TopInv, TopRecorded, scanVars
  <1>2. CASE Mine \/ Reorg
    BY <1>2 DEF Mine, Reorg, TopInv, TopRecorded, scanVars
  <1>3. CASE Crash
    <2>1. /\ mem'.cursor = disk.cursor /\ mem'.hashes = disk.hashes /\ disk' = disk
          /\ pc'[Scanner] = "start" /\ UNCHANGED scanVars
      BY <1>3 DEF Crash, LoadState, Store
    <2> QED BY <2>1 DEF TopInv, TopRecorded, scanVars
  <1> QED BY <1>1, <1>2, <1>3

LEMMA EnvironmentPassed ==
    ASSUME TypeInv, ScanInv, PassedInv, Mine \/ Reorg \/ Crash
    PROVE  PassedInv'
  <1> USE ScannerLocals
  <1> DEFINE L == loc[Scanner]
  <1>0. /\ Sound(mem, best, blocks, reorgs) /\ Sound(disk, best, blocks, reorgs)
        /\ first \in Nat \ {0} /\ UNCHANGED scanVars
    BY DEF ScanInv, TypeInv, TypeOK, Mine, Reorg, Crash
  <1> SUFFICES ASSUME ~unlinked
               PROVE  Passed(mem', first, best', blocks') /\ Passed(disk', first, best', blocks') /\ WorkInv'
    BY <1>0 DEF PassedInv, scanVars
  <1>b. /\ Passed(mem, first, best, blocks) /\ Passed(disk, first, best, blocks) /\ WorkInv
    BY DEF PassedInv
  <1>1. CASE Mine \/ Reorg
    <2>1. UNCHANGED <<mem, disk, pc, loc>>
      BY <1>1 DEF Mine, Reorg
    <2>2. Passed(mem, first, best', blocks') /\ Passed(disk, first, best', blocks')
      <3>1. mem \in Store(FileEntry)
        BY EntrySubset
      <3> QED BY <1>0, <1>1, <1>b, <3>1, ChainPassed DEF TypeInv
    <2>3. WorkInv'
      <3> SUFFICES ASSUME pc[Scanner] \in {"enqueue"} \cup Pushed, L.cur <= L.tip, InChain'
                   PROVE  TrackedTo(mem, first, L.cur - 1, blocks')
        BY <1>0, <2>1 DEF WorkInv, scanVars
      <3>1. L.cur \in 1 .. best /\ L.era <= reorgs
        BY DEF ScanInv, LoopInv, EraInv, Pushed, Critical, EntryLabels
      <3>2. L.cur \in 1 .. best' /\ blocks'[L.cur].era = L.era
        BY <1>1, <2>1, <3>1 DEF InChain, Mine, Reorg
      <3>3. \A k \in 1 .. L.cur : blocks'[k] = blocks[k]
        BY <1>1, <3>1, <3>2, ChainKeepsBelow DEF TypeInv
      <3>4. InChain
        BY <3>1, <3>2, <3>3 DEF InChain
      <3>5. TrackedTo(mem, first, L.cur - 1, blocks)
        BY <1>b, <3>4 DEF WorkInv
      <3>6. \A h \in first .. L.cur - 1 : blocks'[h] = blocks[h]
        BY <1>0, <3>3
      <3> QED BY <3>5, <3>6 DEF TrackedTo
    <2> QED BY <2>1, <2>2, <2>3
  <1>2. CASE Crash
    <2>1. /\ mem' = LoadState(disk) /\ disk' = disk /\ UNCHANGED chainVars
          /\ pc'[Scanner] = "start"
      BY <1>2 DEF Crash
    <2>2. Grown(disk, mem')
      BY <2>1, KnownIds, LoadStateGrown
    <2>3. Passed(mem', first, best, blocks)
      BY <1>0, <1>b, <2>2, PassedStays DEF Grown
    <2>4. WorkInv'
      BY <2>1 DEF WorkInv, Pushed, Critical, EntryLabels
    <2> QED BY <1>b, <2>1, <2>3, <2>4 DEF chainVars
  <1> QED BY <1>1, <1>2

LEMMA PassedInit ==
    ASSUME Init, ScanAlone
    PROVE  PassedInv /\ TopInv
  <1>1. TypeInv /\ ScanInv
    BY TypeInit, ScanInit
  <1> USE <1>1, ScannerLocals
  <1>2. best = 1 /\ first \in Nat \ {0} /\ first >= best
    BY DEF Init, TypeInv, TypeOK
  <1>3. Passed(mem, first, best, blocks) /\ Passed(disk, first, best, blocks)
    BY <1>2, PassedAtTip DEF ScanInv
  <1>4. WorkInv
    BY DEF Init, WorkInv, Pushed, Critical, EntryLabels
  <1>5. TopInv
    <2>1. mem.cursor = InitCursor /\ disk.cursor = InitCursor
      BY DEF Init, FirstFile, LoadState
    <2>2. pc[Scanner] = "start" /\ (~SkipInitialSync => InitCursor < first)
      <3>1. pc[Scanner] = "start" /\ first = FirstHeight
        BY DEF Init
      <3>2. StartHeight = NoHeight /\ ~SkipInitialSync => InitCursor < FirstHeight
        BY <1>2, <2>1, BoundAssumption DEF FirstHeight
      <3> QED BY <3>1, <3>2 DEF ScanAlone
    <2> QED BY <1>2, <2>1, <2>2, BoundAssumption DEF TopInv, TopRecorded
  <1> QED BY <1>3, <1>4, <1>5 DEF PassedInv

LEMMA PassedStep ==
    ASSUME ScanAlone, TypeInv, ScanInv, PassedInv, TopInv, [Next]_vars
    PROVE  PassedInv' /\ TopInv'
  <1>1. TypeInv' /\ ScanInv'
    BY TypeStep, ScanInvStep
  <1>2. Tasks = {Scanner} /\ StartHeight = NoHeight
    BY DEF ScanAlone
  <1>3. CASE Mine \/ Reorg \/ Crash
    BY <1>3, EnvironmentPassed, OtherTop
  <1>4. CASE ScanStep
    BY <1>1, <1>2, <1>4, ScanPassed, ScanTop
  <1>5. CASE \E t \in Tasks : OutboxStep(t)
    BY <1>2, <1>5, QueueKeeps, DeliveryKeeps, OutboxPassed, OtherTop DEF OutboxStep
  <1>6. CASE UNCHANGED vars
    BY <1>6 DEF vars, chainVars, scanVars, PassedInv, WorkInv, InChain, TopInv
  <1> QED BY <1>2, <1>3, <1>4, <1>5, <1>6 DEF Next, ScanAlone

\* Without concurrent recoveries a recorded block has left no deposit behind; and unless the
\* scan took a block over a parent that was not the recorded one, or rolled back below all
\* it had recorded, no deposit was passed at any height below a recorded block of the
\* chain: through any number of reorganisations, explorer errors in the middle of a walk,
\* failed saves and restarts.
THEOREM NothingSkipped == ScanAlone => (Spec => []NoDepositSkipped)
  <1> SUFFICES ASSUME ScanAlone PROVE Spec => []NoDepositSkipped
    OBVIOUS
  <1> DEFINE Inv == TypeInv /\ ScanInv /\ PassedInv /\ TopInv
  <1>1. Init => Inv
    BY TypeInit, ScanInit, PassedInit
  <1>2. Inv /\ [Next]_vars => Inv'
    BY TypeStep, ScanInvStep, PassedStep
  <1>3. Inv => NoDepositSkipped
    <2> SUFFICES ASSUME Inv PROVE NoDepositSkipped
      OBVIOUS
    <2>1. ScannedKnown(mem) /\ ScannedKnown(disk)
      BY DEF ScanInv, Sound, BlocksTracked, TrackedAt, ScannedKnown, Known
    <2>2. ~unlinked => WalkSound
      BY DEF PassedInv, Passed, TrackedTo, TrackedAt, WalkSound, NothingPassed, Known
    <2> QED BY <2>1, <2>2 DEF NoDepositSkipped
  <1> HIDE DEF Inv
  <1> QED BY <1>1, <1>2, <1>3, PTL DEF Spec

----------------------------------------------------------------------------
(* The queue is saved before a delivery. *)

LEMMA SavedStep ==
    ASSUME Recoverers = {}, TypeInv, TypeInv', SavedInv, [Next]_vars
    PROVE  SavedInv'
  <1> USE ScannerLocals
  <1> DEFINE L == loc[Scanner]
  <1>0. /\ OwnEntries(mem.pending) /\ OwnEntries(disk.pending) /\ OwnEntries(L.todo)
        /\ InitLocals.todo = {}
    BY DEF SavedInv, InitLocals
  \* Outside the processing of the queue, the file is saved or left alone.
  <1>1. ASSUME OwnEntries(mem'.pending), disk' = disk \/ disk' = mem',
               pc'[Scanner] \notin Critical,
               loc'[Scanner].todo = L.todo \/ loc'[Scanner].todo = {}
        PROVE  SavedInv'
    <2>1. OwnEntries(disk'.pending) /\ OwnEntries(loc'[Scanner].todo)
      BY <1>0, <1>1 DEF OwnEntries
    <2> QED BY <1>1, <2>1 DEF SavedInv, Critical, EntryLabels
  <1>2. CASE Mine \/ Reorg \/ UNCHANGED vars
    BY <1>2 DEF Mine, Reorg, vars, SavedInv
  <1>3. CASE Crash
    <2>1. mem' = LoadState(disk) /\ disk' = disk /\ pc'[Scanner] = "start" /\ loc'[Scanner] = InitLocals
      BY <1>3 DEF Crash
    <2>2. LoadState(disk).pending = disk.pending
      <3>1. \A e \in disk.pending : [e EXCEPT !.id = IF @ = NoId THEN TxOf[e.dep] ELSE @] = e
        <4> SUFFICES ASSUME NEW e \in disk.pending
                     PROVE  [e EXCEPT !.id = IF @ = NoId THEN TxOf[e.dep] ELSE @] = e
          OBVIOUS
        <4>1. e \in FileEntry /\ e.id = e.dep
          BY <1>0 DEF Store, OwnEntries
        <4>2. e.id # NoId
          BY <4>1, IdAssumption DEF FileEntry, EventIds
        <4> QED BY <4>1, <4>2 DEF FileEntry
      <3> QED BY <3>1 DEF LoadState, Store
    <2> QED BY <1>0, <1>1, <2>1, <2>2 DEF Critical, EntryLabels
  <1>4. CASE ScanStep
    <2>1. /\ OwnEntries(mem'.pending) /\ (disk' = disk \/ disk' = mem')
          /\ pc'[Scanner] \notin Critical
          /\ loc'[Scanner].todo = L.todo \/ loc'[Scanner].todo = {}
      <3>1. CASE ScanStart
        <4>1. /\ mem'.pending = mem.pending /\ (disk' = disk \/ disk' = mem')
              /\ pc'[Scanner] \in {"tip", "start"}
              /\ loc'[Scanner] = InitLocals
                   \/ loc'[Scanner] = [InitLocals EXCEPT !.cur = FirstHeight]
          <5>1. PICK ok \in BOOLEAN :
                  /\ IF SkipInitialSync THEN SaveState(ok) ELSE ok /\ UNCHANGED <<disk, faults>>
                  /\ Goto(Scanner, IF ok THEN "tip" ELSE "start")
                  /\ SetLocals(Scanner, IF ok THEN [InitLocals EXCEPT !.cur = FirstHeight] ELSE InitLocals)
            BY <3>1 DEF ScanStart
          <5> QED BY <3>1, <5>1, ScannerMoves, ScannerSets DEF ScanStart, SaveState, Store
        <4>2. loc'[Scanner].todo = {}
          BY <4>1 DEF InitLocals
        <4> QED BY <1>0, <4>1, <4>2 DEF Critical, EntryLabels
      <3>2. CASE ScanTip
        <4>1. /\ mem' = mem /\ disk' = disk /\ pc'[Scanner] \in {"lock", "reorg"}
              /\ loc'[Scanner] = [L EXCEPT !.tip = best, !.depth = 0]
          BY <3>2, ScannerMoves, ScannerSets DEF ScanTip
        <4>2. loc'[Scanner].todo = L.todo
          BY <4>1 DEF Locals
        <4> QED BY <1>0, <4>1, <4>2 DEF Critical, EntryLabels
      <3>3. CASE ScanReorg
        <4>1. /\ mem' = mem /\ disk' = disk /\ pc'[Scanner] \in {"reorg", "rollback", "fetch"}
              /\ loc'[Scanner] = L \/ loc'[Scanner] = [L EXCEPT !.depth = @ + 1]
          BY <3>3, ScannerMoves, ScannerSets DEF ScanReorg
        <4>2. loc'[Scanner].todo = L.todo
          BY <4>1 DEF Locals
        <4> QED BY <1>0, <4>1, <4>2 DEF Critical, EntryLabels
      <3>4. CASE ScanRollback
        <4>1. /\ disk' = disk /\ pc'[Scanner] = "reorg"
              /\ mem'.pending \subseteq mem.pending
              /\ loc'[Scanner] = [L EXCEPT !.cur = L.cur - L.depth, !.depth = 0]
          BY <3>4, ScannerMoves, ScannerSets DEF ScanRollback, RollBack, Store
        <4>2. loc'[Scanner].todo = L.todo
          BY <4>1 DEF Locals
        <4> QED BY <1>0, <4>1, <4>2 DEF Critical, EntryLabels, OwnEntries
      <3>5. CASE ScanFetch
        <4>1. /\ mem' = mem /\ disk' = disk /\ pc'[Scanner] \in {"tip", "lock", "enqueue"}
              /\ \/ loc'[Scanner] = L
                 \/ loc'[Scanner] = [L EXCEPT !.era = blocks[L.cur].era,
                                              !.found = DepositsOf(blocks[L.cur])]
          BY <3>5, ScannerMoves, ScannerSets DEF ScanFetch
        <4>2. loc'[Scanner].todo = L.todo
          BY <4>1 DEF Locals
        <4> QED BY <1>0, <4>1, <4>2 DEF Critical, EntryLabels
      <3>6. CASE ScanAdvance
        <4>1. /\ mem'.pending = mem.pending /\ (disk' = disk \/ disk' = mem')
              /\ pc'[Scanner] \in {"tip", "reorg", "start"}
              /\ loc'[Scanner] = InitLocals
                   \/ loc'[Scanner] = [L EXCEPT !.cur = @ + 1, !.era = 0]
          BY <3>6, ScannerMoves, ScannerSets DEF ScanAdvance, SaveState, Advance, Store
        <4>2. loc'[Scanner].todo = L.todo \/ loc'[Scanner].todo = {}
          BY <1>0, <4>1 DEF Locals
        <4> QED BY <1>0, <4>1, <4>2 DEF Critical, EntryLabels
      <3> QED BY <1>4, <3>1, <3>2, <3>3, <3>4, <3>5, <3>6 DEF ScanStep
    <2> QED BY <1>1, <2>1
  <1>5. CASE EnqueuePush(Scanner)
    <2>1. /\ mem' = Enqueue(mem, L.found, L.cur) /\ disk' = disk /\ pc'[Scanner] = "save"
          /\ loc'[Scanner] = [L EXCEPT !.found = {}]
      BY <1>5, ScannerMoves, ScannerSets DEF EnqueuePush
    <2>2. loc'[Scanner].todo = L.todo
      BY <2>1 DEF Locals
    <2>3. OwnEntries(mem'.pending)
      <3> DEFINE New(d) == [dep |-> d, id |-> d, height |-> L.cur, notified |-> FALSE]
      <3>1. mem'.pending = mem.pending \cup {New(d) : d \in Fresh(mem, L.found)}
        BY <2>1 DEF Enqueue, Store
      <3>2. \A d : New(d).dep = d /\ New(d).id = d
        OBVIOUS
      <3>3. \A d \in Fresh(mem, L.found), e \in mem.pending : e.dep # d
        BY DEF Fresh
      <3> HIDE DEF New
      <3> QED BY <1>0, <3>1, <3>2, <3>3 DEF OwnEntries
    <2> QED BY <1>1, <2>1, <2>2, <2>3 DEF Critical, EntryLabels
  <1>6. CASE EnqueueSave(Scanner)
    <2>1. /\ mem' = mem /\ (disk' = disk \/ disk' = mem') /\ pc'[Scanner] \in {"lock", "start"}
          /\ loc'[Scanner] = L \/ loc'[Scanner] = InitLocals
      BY <1>6, ScannerMoves, ScannerSets DEF EnqueueSave, SaveState
    <2> QED BY <1>0, <1>1, <2>1 DEF Critical, EntryLabels
  <1>7. CASE CreditsLock(Scanner)
    <2>1. PICK ok \in BOOLEAN :
            /\ SaveState(ok)
            /\ Goto(Scanner, IF ok THEN "clone" ELSE AfterCredits(Scanner))
            /\ SetLocals(Scanner, L)
      BY <1>7 DEF CreditsLock
    <2>2. /\ mem' = mem /\ loc'[Scanner] = L /\ disk' = (IF ok THEN mem' ELSE disk)
          /\ pc'[Scanner] = IF ok THEN "clone" ELSE AfterCredits(Scanner)
      BY <1>7, <2>1, ScannerMoves, ScannerSets DEF CreditsLock, SaveState
    <2>3. CASE ok
      BY <1>0, <2>2, <2>3 DEF SavedInv, EntryLabels
    <2>4. CASE ~ok
      BY <1>0, <1>1, <2>2, <2>4 DEF AfterCredits, Critical, EntryLabels
    <2> QED BY <2>3, <2>4
  <1>8. CASE CreditsClone(Scanner)
    <2>1. /\ mem' = mem /\ disk' = disk /\ pc[Scanner] = "clone" /\ pc'[Scanner] = "next"
          /\ loc'[Scanner] = [L EXCEPT !.todo = mem.pending]
      BY <1>8, ScannerMoves, ScannerSets DEF CreditsClone
    <2>2. loc'[Scanner].todo = mem.pending
      BY <2>1 DEF Locals
    <2>3. disk.pending = mem.pending
      BY <2>1 DEF SavedInv
    <2>4. \A e \in mem.pending : QueuedIn(mem, e.dep) /\ QueuedIn(disk, e.dep)
      BY <2>3 DEF QueuedIn
    <2> QED BY <1>0, <2>1, <2>2, <2>4 DEF SavedInv, EntryLabels
  <1>9. CASE CreditsRelease(Scanner)
    <2>1. /\ mem' = mem /\ disk' = disk /\ pc'[Scanner] = AfterCredits(Scanner)
          /\ loc'[Scanner] = L
      BY <1>9, ScannerMoves, ScannerSets DEF CreditsRelease
    <2> QED BY <1>0, <1>1, <2>1 DEF AfterCredits, Critical, EntryLabels
  <1>10. CASE EntryStart(Scanner)
    <2>1. PICK e \in L.todo :
            LET already == IsCredited(mem, e.dep, e.id)
                started == [L EXCEPT !.todo = @ \ {e}, !.entry = e, !.already = already]
            IN IF ~e.notified /\ ~already
               THEN Goto(Scanner, "detect") /\ SetLocals(Scanner, started)
               ELSE IF Confirmed(e, L.tip)
               THEN Goto(Scanner, "sweep") /\ SetLocals(Scanner, started)
               ELSE /\ Goto(Scanner, "next")
                    /\ SetLocals(Scanner, [L EXCEPT !.todo = @ \ {e}])
      BY <1>10 DEF EntryStart
    <2> DEFINE already == IsCredited(mem, e.dep, e.id)
               started == [L EXCEPT !.todo = @ \ {e}, !.entry = e, !.already = already]
               passed == [L EXCEPT !.todo = @ \ {e}]
    <2>2. started.todo = L.todo \ {e} /\ started.entry = e /\ passed.todo = L.todo \ {e}
      <3> HIDE DEF already
      <3> QED BY DEF Locals
    <2>3. /\ pc[Scanner] = "next" /\ mem' = mem /\ disk' = disk
          /\ \/ pc'[Scanner] \in {"detect", "sweep"} /\ loc'[Scanner] = started
             \/ pc'[Scanner] = "next" /\ loc'[Scanner] = passed
      <3>1. \/ Goto(Scanner, "detect") /\ SetLocals(Scanner, started)
            \/ Goto(Scanner, "sweep") /\ SetLocals(Scanner, started)
            \/ Goto(Scanner, "next") /\ SetLocals(Scanner, passed)
        BY <2>1
      <3> HIDE DEF started, passed
      <3> QED BY <1>10, <3>1, ScannerMoves, ScannerSets DEF EntryStart
    <2> HIDE DEF started, passed
    <2>4. /\ e.id = e.dep /\ \A f \in L.todo \ {e} : f.dep # e.dep
          /\ OwnEntries(L.todo \ {e})
      BY <1>0 DEF OwnEntries
    <2>5. \A f \in L.todo : QueuedIn(mem, f.dep) /\ QueuedIn(disk, f.dep)
      BY <2>3 DEF SavedInv
    <2> QED BY <1>0, <2>2, <2>3, <2>4, <2>5 DEF SavedInv, EntryLabels
  \* While an entry is processed, the queue loses at most that entry.
  <1> DEFINE Done == EntryDone(Scanner)
  <1>11. Done.todo = L.todo
    BY DEF EntryDone, Locals
  <1> HIDE DEF Done
  <1>12. ASSUME pc[Scanner] \in EntryLabels, disk' = disk \/ disk' = mem',
                OwnEntries(mem'.pending),
                \A d \in Deposits : QueuedIn(mem, d) => QueuedIn(mem', d) \/ d = L.entry.dep,
                \/ /\ pc'[Scanner] \in EntryLabels
                   /\ QueuedIn(mem, L.entry.dep) => QueuedIn(mem', L.entry.dep)
                   /\ loc'[Scanner].todo = L.todo /\ loc'[Scanner].entry = L.entry
                \/ /\ pc'[Scanner] = "next"
                   /\ loc'[Scanner].todo = L.todo
         PROVE  SavedInv'
    <2>1. /\ L.entry.id = L.entry.dep
          /\ QueuedIn(mem, L.entry.dep) /\ QueuedIn(disk, L.entry.dep)
          /\ \A e \in L.todo : /\ e.dep # L.entry.dep
                               /\ QueuedIn(mem, e.dep) /\ QueuedIn(disk, e.dep)
      BY <1>12 DEF SavedInv
    <2>2. \A e \in L.todo : e.dep \in Deposits
      BY DEF Locals, Entry
    <2>3. \A e \in L.todo : QueuedIn(mem', e.dep) /\ QueuedIn(disk', e.dep)
      BY <1>12, <2>1, <2>2
    <2>4. OwnEntries(disk'.pending)
      BY <1>0, <1>12
    <2>5. CASE pc'[Scanner] = "next"
      BY <1>0, <1>12, <2>3, <2>4, <2>5 DEF SavedInv, EntryLabels
    <2>6. CASE pc'[Scanner] # "next"
      <3>1. QueuedIn(mem', L.entry.dep) /\ QueuedIn(disk', L.entry.dep)
        BY <1>12, <2>1, <2>6
      <3> QED BY <1>0, <1>12, <2>1, <2>3, <2>4, <2>6, <3>1 DEF SavedInv, EntryLabels
    <2> QED BY <2>5, <2>6
  <1>13. CASE SendDetected(Scanner)
    <2>1. /\ pc[Scanner] = "detect" /\ mem' = mem /\ disk' = disk
          /\ \/ pc'[Scanner] = "notified" /\ loc'[Scanner] = L
             \/ pc'[Scanner] = "next" /\ loc'[Scanner] = Done
      <3>1. \/ Goto(Scanner, "notified") /\ SetLocals(Scanner, L)
            \/ Goto(Scanner, "next") /\ SetLocals(Scanner, Done)
        BY <1>13 DEF SendDetected, Done
      <3> QED BY <1>13, <3>1, ScannerMoves, ScannerSets DEF SendDetected
    <2> QED BY <1>0, <1>11, <1>12, <2>1 DEF EntryLabels
  <1>14. CASE RecordDetected(Scanner)
    <2>1. /\ pc[Scanner] = "notified" /\ mem' \in NotifiedStores(mem, L.entry.id)
          /\ disk' = disk \/ disk' = mem'
          /\ \/ pc'[Scanner] = "sweep" /\ loc'[Scanner] = L
             \/ pc'[Scanner] = "next" /\ loc'[Scanner] = Done
      <3>1. PICK ok \in BOOLEAN :
              LET goOn == ok /\ Confirmed(loc[Scanner].entry, loc[Scanner].tip)
              IN /\ SaveState(ok)
                 /\ Goto(Scanner, IF goOn THEN "sweep" ELSE "next")
                 /\ SetLocals(Scanner, IF goOn THEN loc[Scanner] ELSE EntryDone(Scanner))
        BY <1>14 DEF RecordDetected
      <3>2. \/ Goto(Scanner, "sweep") /\ SetLocals(Scanner, L)
            \/ Goto(Scanner, "next") /\ SetLocals(Scanner, Done)
        BY <3>1 DEF Done
      <3> QED BY <1>14, <3>1, <3>2, ScannerMoves, ScannerSets DEF RecordDetected, SaveState
    <2>2. /\ OwnEntries(mem'.pending)
          /\ \A d \in Deposits : QueuedIn(mem, d) => QueuedIn(mem', d)
      <3>1. CASE mem' = mem
        BY <1>0, <3>1
      <3>2. CASE mem' # mem
        <4>1. \E e \in mem.pending :
                mem'.pending = (mem.pending \ {e}) \cup {[e EXCEPT !.notified = TRUE]}
          BY <2>1, <3>2 DEF NotifiedStores, Store
        <4>2. PICK e \in mem.pending :
                mem'.pending = (mem.pending \ {e}) \cup {[e EXCEPT !.notified = TRUE]}
          BY <4>1
        <4> DEFINE f == [e EXCEPT !.notified = TRUE]
        <4>3. f.dep = e.dep /\ f.id = e.id
          BY DEF Store, Entry
        <4> HIDE DEF f
        <4>4. mem'.pending = (mem.pending \ {e}) \cup {f}
          BY <4>2 DEF f
        <4> QED BY <1>0, <4>3, <4>4 DEF OwnEntries, QueuedIn
      <3> QED BY <3>1, <3>2
    <2>3. L.entry.dep \in Deposits
      BY <2>1 DEF TypeInv, EntryInv, EntryLabels, Entry
    <2> QED BY <1>11, <1>12, <2>1, <2>2, <2>3 DEF EntryLabels
  <1>15. CASE Sweep(Scanner)
    <2>1. PICK deferred \in BOOLEAN : SetLocals(Scanner, [L EXCEPT !.deferred = deferred])
      BY <1>15 DEF Sweep
    <2>2. /\ pc[Scanner] = "sweep" /\ pc'[Scanner] \in {"credit", "remove"}
          /\ loc'[Scanner] = [L EXCEPT !.deferred = deferred] /\ mem' = mem /\ disk' = disk
      BY <1>15, <2>1, ScannerMoves, ScannerSets DEF Sweep
    <2>3. loc'[Scanner].todo = L.todo /\ loc'[Scanner].entry = L.entry
      BY <2>2 DEF Locals
    <2> QED BY <1>0, <1>12, <2>2, <2>3 DEF EntryLabels
  <1>16. CASE SendCredited(Scanner)
    <2>1. /\ pc[Scanner] = "credit" /\ mem' = mem /\ disk' = disk
          /\ \/ pc'[Scanner] = "record" /\ loc'[Scanner] = L
             \/ pc'[Scanner] = "next" /\ loc'[Scanner] = Done
      <3>1. \/ Goto(Scanner, "record") /\ SetLocals(Scanner, L)
            \/ Goto(Scanner, "next") /\ SetLocals(Scanner, Done)
        BY <1>16 DEF SendCredited, Done
      <3> QED BY <1>16, <3>1, ScannerMoves, ScannerSets DEF SendCredited
    <2> QED BY <1>0, <1>11, <1>12, <2>1 DEF EntryLabels
  <1>17. CASE RecordCredited(Scanner)
    <2>1. /\ pc[Scanner] = "record" /\ mem'.pending = mem.pending
          /\ disk' = disk \/ disk' = mem'
          /\ \/ pc'[Scanner] = "remove" /\ loc'[Scanner] = L
             \/ pc'[Scanner] = "next" /\ loc'[Scanner] = Done
      <3>1. PICK ok \in BOOLEAN :
              /\ SaveState(ok)
              /\ Goto(Scanner, IF ok THEN "remove" ELSE "next")
              /\ SetLocals(Scanner, IF ok THEN L ELSE EntryDone(Scanner))
        BY <1>17 DEF RecordCredited
      <3>2. \/ Goto(Scanner, "remove") /\ SetLocals(Scanner, L)
            \/ Goto(Scanner, "next") /\ SetLocals(Scanner, Done)
        BY <3>1 DEF Done
      <3> QED BY <1>17, <3>1, <3>2, ScannerMoves, ScannerSets
              DEF RecordCredited, SaveState, MarkCredited, Store
    <2>2. \A d : QueuedIn(mem', d) <=> QueuedIn(mem, d)
      BY <2>1 DEF QueuedIn
    <2> QED BY <1>0, <1>11, <1>12, <2>1, <2>2 DEF EntryLabels
  <1>18. CASE EntryFinish(Scanner)
    <2>1. /\ \/ mem' = mem /\ disk' = disk
             \/ mem' = DropEntry(mem, L.entry.id) /\ (disk' = disk \/ disk' = mem')
          /\ pc[Scanner] = "remove" /\ pc'[Scanner] = "next" /\ loc'[Scanner] = Done
      BY <1>18, ScannerMoves, ScannerSets DEF EntryFinish, SaveState, Done
    <2>2. L.entry.id = L.entry.dep
      BY <2>1 DEF SavedInv, EntryLabels
    <2>3. /\ OwnEntries(mem'.pending)
          /\ \A d \in Deposits : QueuedIn(mem, d) => QueuedIn(mem', d) \/ d = L.entry.dep
      <3>1. CASE mem' = mem
        BY <1>0, <3>1
      <3>2. CASE mem' = DropEntry(mem, L.entry.id)
        <4>1. mem'.pending = {e \in mem.pending : e.id # L.entry.id}
          BY <3>2 DEF DropEntry, Store
        <4> QED BY <1>0, <2>2, <4>1 DEF OwnEntries, QueuedIn
      <3> QED BY <2>1, <3>1, <3>2
    <2> QED BY <1>11, <1>12, <2>1, <2>3 DEF EntryLabels
  <1> QED
    BY <1>2, <1>3, <1>4, <1>5, <1>6, <1>7, <1>8, <1>9, <1>10, <1>13, <1>14, <1>15, <1>16,
       <1>17, <1>18 DEF Next, OutboxStep

\* Without concurrent recoveries, and without entries of an older release that share
\* a transaction, what is announced, swept or credited is in the file's queue.
THEOREM SavedFirst ==
    Recoverers = {} /\ LegacyPending = {} => (Spec => []SavedBeforeDelivery)
  <1> SUFFICES ASSUME Recoverers = {}, LegacyPending = {}
               PROVE  Spec => []SavedBeforeDelivery
    OBVIOUS
  <1>1. Init => TypeInv /\ SavedInv
    <2>1. Init => mem.pending = {} /\ disk.pending = {}
      BY DEF Init, FirstFile, LoadState
    <2>2. Init => SavedInv
      BY <2>1 DEF Init, SavedInv, OwnEntries, InitLocals, EntryLabels
    <2> QED BY <2>2, TypeInit
  <1>2. TypeInv /\ SavedInv /\ [Next]_vars => (TypeInv /\ SavedInv)'
    BY TypeStep, SavedStep
  <1>3. TypeInv /\ SavedInv => SavedBeforeDelivery
    BY DEF SavedInv, SavedBeforeDelivery, EntryLabels, QueuedIn
  <1> QED BY <1>1, <1>2, <1>3, PTL DEF Spec

============================================================================
