--------------------------- MODULE WatchListsProofs ---------------------------
(***************************************************************************)
(* Proofs about WatchLists for every number of requests, every pool, limit *)
(* and queue size and every bound: what the Helius list converges to, what *)
(* the process believes of the QuickNode list, and what becomes of hints.  *)
(***************************************************************************)
EXTENDS WatchLists, SequenceTheorems, TLAPS

----------------------------------------------------------------------------
(* Types *)

\* The start runs before the server listens, nothing else does; the loop only
\* syncs.
PlaceInv ==
    /\ pc[Starter] \in {"idle", "get", "put"}
    /\ pc[Keeper] \in {"idle", "lock", "patch"}
    /\ phase = "boot" <=> pc[Starter] # "idle"
    /\ phase # "serve" => \A t \in Callers \cup {Keeper} : pc[t] = "idle"

\* What a request fetches the Helius list for.
EditInv ==
    \A c \in Callers :
        /\ pc[c] = "get" => loc[c].op = "add"
        /\ pc[c] = "put" => loc[c].op \in {"add", "clear"}

\* A task works with wallets of the pool only.
HandInv ==
    \A t \in Tasks : /\ loc[t].list \subseteq Managed
                     /\ loc[t].want \subseteq Managed
                     /\ loc[t].wallet \in 0 .. pool
                     /\ loc[t].op = "add" => loc[t].wallet # 0

\* The task that sends a PATCH holds the mutex, and nobody else does.
MutexInv == \A t \in Tasks : pc[t] = "patch" <=> mutex = t

TypeInv == TypeOK /\ PlaceInv /\ EditInv /\ HandInv /\ MutexInv

LEMMA TaskSets ==
    /\ Callers \subseteq Tasks /\ Keeper \in Tasks /\ Starter \in Tasks
    /\ Keeper \notin Callers /\ Starter \notin Callers /\ Keeper # Starter
    /\ NoTask \notin Tasks
  BY WatchAssumption DEF Tasks

LEMMA Larger == \A x, y \in Int : Max({x, y}) = IF x >= y THEN x ELSE y
  BY DEF Max

LEMMA InitLocalsType ==
    /\ InitLocals \in Locals /\ InitLocals.list = {} /\ InitLocals.want = {}
    /\ InitLocals.wallet = 0 /\ InitLocals.op = "none"
  BY WatchAssumption DEF InitLocals, Locals, Wallets

LEMMA TypeInit == Init => TypeInv
  <1> SUFFICES ASSUME Init PROVE TypeInv
    OBVIOUS
  <1>1. pool \in 1 .. MaxPool
    BY WatchAssumption DEF Init
  <1>2. queue \in Seq(SUBSET Managed) /\ Len(queue) <= QueueSize
    BY WatchAssumption, EmptySeq DEF Init
  <1>3. TypeOK
    BY <1>1, <1>2, InitLocalsType DEF Init, TypeOK, Labels
  <1>4. PlaceInv /\ EditInv /\ HandInv /\ MutexInv
    BY <1>1, TaskSets, InitLocalsType
       DEF Init, PlaceInv, EditInv, HandInv, MutexInv, Managed
  <1> QED BY <1>3, <1>4 DEF TypeInv

\* A step that leaves the pool, the providers and the worker alone is one of the
\* tasks: where it goes is all there is to check.
LEMMA TaskStep ==
    ASSUME TypeInv, UNCHANGED <<pool, assigned, quick, worker>>, helius' \subseteq Managed,
           synced' \subseteq Managed, calm' \in BOOLEAN, trouble' \in Nat,
           phase' \in {"boot", "ready", "serve"},
           NEW t \in Tasks, NEW label \in Labels, NEW l \in Locals,
           Goto(t, label), SetLocals(t, l),
           l.list \subseteq Managed, l.want \subseteq Managed, l.wallet \in 0 .. pool,
           l.op = "add" => l.wallet # 0,
           t \in Callers /\ label \in {"get", "put"} => l.op \in {"add", "clear"},
           t \in Callers /\ label = "get" => l.op = "add",
           t = Starter => label \in {"idle", "get", "put"},
           t = Keeper => label \in {"idle", "lock", "patch"},
           phase' = "boot" <=> pc'[Starter] # "idle",
           phase' # "serve" => t = Starter /\ phase # "serve",
           mutex' = IF label = "patch" THEN t ELSE IF mutex = t THEN NoTask ELSE mutex,
           label = "patch" => mutex = NoTask
    PROVE  TypeInv'
  <1>0. /\ pc \in [Tasks -> Labels] /\ loc \in [Tasks -> Locals]
        /\ pc' = [pc EXCEPT ![t] = label] /\ loc' = [loc EXCEPT ![t] = l]
    BY DEF TypeInv, TypeOK, Goto, SetLocals
  <1>1. TypeOK'
    BY <1>0, TaskSets DEF TypeInv, TypeOK, Managed, worker
  <1>2. PlaceInv'
    BY <1>0, TaskSets DEF TypeInv, PlaceInv
  <1>3. EditInv'
    BY <1>0, TaskSets DEF TypeInv, EditInv
  <1>4. HandInv'
    BY <1>0 DEF TypeInv, HandInv, Managed
  <1>5. MutexInv'
    BY <1>0, TaskSets DEF TypeInv, MutexInv
  <1> QED BY <1>1, <1>2, <1>3, <1>4, <1>5 DEF TypeInv

LEMMA Busy ==
    ASSUME TypeInv, NEW t \in Callers \cup {Keeper}, pc[t] # "idle"
    PROVE  phase = "serve"
  BY DEF TypeInv, PlaceInv

LEMMA LocalsOf ==
    ASSUME TypeInv, NEW t \in Tasks
    PROVE  /\ loc[t] \in Locals /\ loc[t].list \subseteq Managed /\ loc[t].want \subseteq Managed
           /\ loc[t].wallet \in 0 .. pool
           /\ loc[t].op = "add" => loc[t].wallet \in Managed
           /\ Managed \subseteq Wallets /\ pool \in 1 .. MaxPool /\ Missing(t) \subseteq Managed
           /\ pc[t] \in Labels
  BY WatchAssumption DEF TypeInv, TypeOK, HandInv, Managed, Wallets, Missing

LEMMA TroubleType ==
    ASSUME TypeInv, NEW b \in BOOLEAN, Trouble(b)
    PROVE  trouble' \in Nat
  BY DEF TypeInv, TypeOK, Trouble

\* A request ends, or goes on to sync.
LEMMA FinishTyped ==
    ASSUME TypeInv, UNCHANGED <<pool, assigned, quick, worker>>, helius' \subseteq Managed,
           synced' \subseteq Managed, calm' \in BOOLEAN, trouble' \in Nat,
           phase' \in {"boot", "ready", "serve"}, NEW t \in Tasks, Finish(t),
           phase' = "boot" <=> t # Starter /\ phase = "boot",
           phase' # "serve" => t = Starter /\ phase # "serve",
           mutex' = IF mutex = t THEN NoTask ELSE mutex
    PROVE  TypeInv'
  <1> USE InitLocalsType, TaskSets DEF Labels
  <1>1. pc'[Starter] = IF t = Starter THEN "idle" ELSE pc[Starter]
    BY DEF Finish, Goto, TypeInv, TypeOK
  <1>2. phase' = "boot" <=> pc'[Starter] # "idle"
    BY <1>1 DEF TypeInv, PlaceInv
  <1>3. 0 \in 0 .. pool
    BY DEF TypeInv, TypeOK
  <1> QED BY <1>2, <1>3, TaskStep DEF Finish

LEMMA AskTyped ==
    ASSUME TypeInv, UNCHANGED <<pool, assigned, quick, worker, sync, phase>>,
           helius' \subseteq Managed, calm' \in BOOLEAN, trouble' \in Nat, phase = "serve",
           NEW t \in Callers \cup {Keeper}, pc[t] # "patch", AskToSync(t)
    PROVE  TypeInv'
  <1> DEFINE l == [InitLocals EXCEPT !.want = Managed]
  <1> USE TaskSets
  <1>1. /\ l \in Locals /\ l.list = {} /\ l.want = Managed /\ l.wallet = 0 /\ l.op = "none"
        /\ 0 \in 0 .. pool
    BY InitLocalsType, LocalsOf DEF Locals, InitLocals
  <1>2. pc'[Starter] = pc[Starter] /\ mutex # t
    BY DEF AskToSync, Goto, TypeInv, TypeOK, MutexInv
  <1>3. SetLocals(t, l) /\ Goto(t, "lock")
    BY DEF AskToSync
  <1>4. synced' \subseteq Managed /\ mutex' = mutex
    BY DEF TypeInv, TypeOK, sync
  <1>5. phase' = "boot" <=> pc'[Starter] # "idle"
    BY <1>2 DEF TypeInv, PlaceInv
  <1> HIDE DEF l
  <1> QED BY <1>1, <1>2, <1>3, <1>4, <1>5, TaskStep DEF Labels

LEMMA BootTyped == ASSUME TypeInv, BootGet \/ BootPut PROVE TypeInv'
  <1> USE TaskSets, LocalsOf
  <1>0. Targets \subseteq Managed /\ (mutex = Starter => pc[Starter] = "patch")
    BY DEF TypeInv, TypeOK, Targets, MutexInv
  <1>1. CASE BootGet
    <2> PICK ok \in BOOLEAN :
            /\ Trouble(~ok)
            /\ SetLocals(Starter, [loc[Starter] EXCEPT !.list = IF ok THEN helius ELSE @])
            /\ Goto(Starter, IF ok THEN "put" ELSE "idle")
            /\ phase' = IF ok THEN phase ELSE "serve"
      BY <1>1 DEF BootGet
    <2> DEFINE l == [loc[Starter] EXCEPT !.list = IF ok THEN helius ELSE @]
               label == IF ok THEN "put" ELSE "idle"
    <2>0. pc[Starter] = "get" /\ phase = "boot" /\ mutex # Starter
      BY <1>1 DEF BootGet, TypeInv, PlaceInv, MutexInv
    <2>1. /\ l \in Locals /\ l.list \subseteq Managed /\ l.want = loc[Starter].want
          /\ l.wallet = loc[Starter].wallet /\ l.op = loc[Starter].op
      BY DEF Locals, TypeInv, TypeOK
    <2>2. pc'[Starter] = label
      BY DEF Goto, TypeInv, TypeOK
    <2>3. trouble' \in Nat
      BY TroubleType
    <2> HIDE DEF l
    <2>4. UNCHANGED <<pool, assigned, quick, worker, helius, synced, calm, mutex>>
      BY <1>1 DEF BootGet, remote, sync
    <2>5. /\ helius' \subseteq Managed /\ synced' \subseteq Managed /\ calm' \in BOOLEAN
          /\ phase' \in {"boot", "ready", "serve"} /\ label \in Labels
          /\ label \in {"idle", "get", "put"} /\ (phase' = "boot" <=> label # "idle")
      BY <2>0, <2>4 DEF TypeInv, TypeOK, Labels
    <2>6. l.wallet \in 0 .. pool /\ (l.op = "add" => l.wallet # 0)
      BY <2>1 DEF TypeInv, HandInv
    <2>7. SetLocals(Starter, l) /\ Goto(Starter, label)
      BY DEF l
    <2> HIDE DEF label
    <2> QED BY <2>0, <2>1, <2>2, <2>3, <2>4, <2>5, <2>6, <2>7, TaskStep
  <1>2. CASE BootPut
    <2> PICK ok \in BOOLEAN :
            /\ Trouble(~ok)
            /\ helius' = IF ok THEN Replacement ELSE helius
            /\ phase' = IF ok THEN "ready" ELSE "serve"
            /\ calm' = ok
      BY <1>2 DEF BootPut
    <2>1. pc[Starter] = "put" /\ phase = "boot" /\ mutex # Starter
      BY <1>2 DEF BootPut, TypeInv, PlaceInv, MutexInv
    <2>2. helius' \subseteq Managed /\ trouble' \in Nat /\ calm' \in BOOLEAN
      BY TroubleType DEF TypeInv, TypeOK, Replacement, Targets
    <2>3. /\ UNCHANGED <<pool, assigned, quick, worker>> /\ mutex' = mutex
          /\ synced' \subseteq Managed /\ Finish(Starter)
      BY <1>2 DEF BootPut, TypeInv, TypeOK, sync
    <2> QED BY <2>1, <2>2, <2>3, FinishTyped
  <1> QED BY <1>1, <1>2

\* The pool, and with it all that ranges over it, only grows.
LEMMA AddressTyped == ASSUME TypeInv, NEW c \in Callers, StartAddress(c) PROVE TypeInv'
  <1> USE TaskSets
  <1> PICK w \in Wallets :
        /\ w <= pool + 1
        /\ pool' = Max({pool, w})
        /\ assigned' = assigned \cup {w}
        /\ SetLocals(c, [InitLocals EXCEPT !.op = "add", !.wallet = w])
    BY DEF StartAddress
  <1> DEFINE l == [InitLocals EXCEPT !.op = "add", !.wallet = w]
  <1>0. /\ pool \in 1 .. MaxPool /\ w \in 1 .. MaxPool /\ pc[c] = "idle" /\ phase = "serve"
        /\ UNCHANGED <<remote, sync, worker, phase, trouble>>
        /\ calm' \in BOOLEAN
        /\ pc' = [pc EXCEPT ![c] = "get"] /\ loc' = [loc EXCEPT ![c] = l]
        /\ pc \in [Tasks -> Labels] /\ loc \in [Tasks -> Locals]
    BY DEF StartAddress, TypeInv, TypeOK, Wallets, Goto, SetLocals
  <1>1. /\ pool' \in 1 .. MaxPool /\ pool <= pool' /\ w <= pool'
        /\ Managed \subseteq Managed' /\ w \in Managed'
    BY <1>0, WatchAssumption, Larger DEF Managed
  <1>2. /\ l \in Locals /\ l.list = {} /\ l.want = {} /\ l.wallet = w /\ l.op = "add"
    <2>1. w \in 0 .. MaxPool
      BY <1>0
    <2> QED BY <2>1 DEF Locals, InitLocals
  <1> HIDE DEF l
  <1>3. queue' \in Seq(SUBSET Managed') /\ Len(queue') <= QueueSize
    <2>1. SUBSET Managed \subseteq SUBSET (Managed')
      BY <1>1
    <2>2. queue \in Seq(SUBSET Managed) /\ Len(queue) <= QueueSize /\ queue' = queue
      BY <1>0 DEF TypeInv, TypeOK, worker
    <2> QED BY <2>1, <2>2, SeqMonotonic
  <1>4. TypeOK'
    BY <1>0, <1>1, <1>2, <1>3 DEF TypeInv, TypeOK, remote, sync, worker, Labels
  <1>5. PlaceInv' /\ EditInv' /\ MutexInv'
    BY <1>0, <1>2 DEF TypeInv, PlaceInv, EditInv, MutexInv, sync
  <1>6. HandInv'
    BY <1>0, <1>1, <1>2 DEF TypeInv, HandInv
  <1> QED BY <1>4, <1>5, <1>6 DEF TypeInv

LEMMA EditTyped ==
    ASSUME TypeInv, NEW c \in Callers, GetWebhook(c) \/ PutWebhook(c) \/ ClearPut(c)
    PROVE  TypeInv'
  <1> USE TaskSets
  <1>0. /\ phase = "serve" /\ c \in Callers \cup {Keeper} /\ c # Starter /\ pc[c] \in {"get", "put"}
        /\ UNCHANGED <<pool, assigned, quick, sync, worker, phase>> /\ mutex # c
        /\ helius \subseteq Managed /\ synced' \subseteq Managed /\ mutex' = mutex
        /\ calm \in BOOLEAN /\ phase' \in {"boot", "ready", "serve"}
    BY Busy DEF GetWebhook, PutWebhook, ClearPut, TypeInv, TypeOK, MutexInv, remote, sync
  <1>1. CASE GetWebhook(c)
    <2> PICK ok \in BOOLEAN :
          /\ Trouble(~ok)
          /\ calm' = (calm /\ ok)
          /\ IF ok /\ loc[c].wallet \notin helius
             THEN Goto(c, "put") /\ SetLocals(c, [loc[c] EXCEPT !.list = helius])
             ELSE AskToSync(c)
      BY <1>1 DEF GetWebhook
    <2> DEFINE l == [loc[c] EXCEPT !.list = helius]
    <2>0. /\ trouble' \in Nat /\ calm' \in BOOLEAN /\ pc[c] = "get" /\ loc[c].op = "add"
          /\ helius' = helius
      BY <1>0, <1>1, TroubleType DEF GetWebhook, TypeInv, EditInv, remote
    <2>1. /\ l \in Locals /\ l.list \subseteq Managed /\ l.want \subseteq Managed
          /\ l.wallet \in 0 .. pool /\ l.op = "add" /\ l.wallet # 0
      BY <1>0, <2>0, LocalsOf DEF Locals, TypeInv, HandInv
    <2> HIDE DEF l
    <2>2. CASE AskToSync(c)
      BY <1>0, <2>0, <2>2, AskTyped
    <2>3. CASE Goto(c, "put") /\ SetLocals(c, l)
      <3>1. pc'[Starter] = pc[Starter]
        BY <1>0, <2>3 DEF Goto, TypeInv, TypeOK
      <3>2. phase' = "boot" <=> pc'[Starter] # "idle"
        BY <1>0, <3>1 DEF TypeInv, PlaceInv
      <3> QED BY <1>0, <2>0, <2>1, <2>3, <3>2, TaskStep DEF Labels
    <2> QED BY <2>2, <2>3 DEF l
  <1>2. CASE PutWebhook(c)
    <2> PICK answered \in BOOLEAN, done \in BOOLEAN :
          /\ answered => done
          /\ Trouble(~answered)
          /\ calm' = (calm /\ answered)
          /\ helius' = IF done THEN Merged(c) ELSE helius
      BY <1>2 DEF PutWebhook
    <2>0. /\ trouble' \in Nat /\ calm' \in BOOLEAN /\ loc[c].op = "add" /\ AskToSync(c)
      BY <1>0, <1>2, TroubleType DEF PutWebhook
    <2>1. helius' \subseteq Managed
      BY <1>0, <2>0, LocalsOf DEF Merged
    <2> QED BY <1>0, <2>0, <2>1, AskTyped
  <1>3. CASE ClearPut(c)
    <2> PICK done \in BOOLEAN :
          /\ Trouble(~done)
          /\ calm' = (calm /\ done)
          /\ helius' = IF done THEN {} ELSE helius
      BY <1>3 DEF ClearPut
    <2>0. trouble' \in Nat /\ calm' \in BOOLEAN /\ helius' \subseteq Managed /\ Finish(c)
      BY <1>0, <1>3, TroubleType DEF ClearPut
    <2> QED BY <1>0, <2>0, FinishTyped
  <1> QED BY <1>1, <1>2, <1>3

LEMMA SyncTyped ==
    ASSUME TypeInv, NEW t \in Callers \cup {Keeper}, Syncing(t) \/ (t = Keeper /\ KeeperWakes)
    PROVE  TypeInv'
  <1> USE TaskSets
  <1>0. /\ phase = "serve" /\ t # Starter /\ t \in Tasks
        /\ UNCHANGED <<pool, assigned, helius, worker, phase>>
        /\ helius' \subseteq Managed /\ synced \subseteq Managed /\ phase' \in {"boot", "ready", "serve"}
        /\ UNCHANGED calm /\ calm' \in BOOLEAN /\ trouble \in Nat
    BY Busy DEF Syncing, LockSynced, PatchList, KeeperWakes, TypeInv, TypeOK, remote
  <1>1. CASE t = Keeper /\ KeeperWakes
    BY <1>0, <1>1, AskTyped DEF KeeperWakes, remote
  <1>2. CASE LockSynced(t)
    <2>0. /\ pc[t] = "lock" /\ mutex = NoTask /\ mutex # t
          /\ UNCHANGED <<quick, synced, trouble>> /\ synced' \subseteq Managed
      BY <1>0, <1>2 DEF LockSynced, remote
    <2>1. CASE Finish(t) /\ UNCHANGED mutex
      BY <1>0, <2>0, <2>1, FinishTyped
    <2>2. CASE Goto(t, "patch") /\ mutex' = t /\ UNCHANGED loc
      <3>1. pc'[Starter] = pc[Starter] /\ SetLocals(t, loc[t])
        BY <1>0, <2>2 DEF Goto, SetLocals, TypeInv, TypeOK
      <3>2. phase' = "boot" <=> pc'[Starter] # "idle"
        BY <1>0, <3>1 DEF TypeInv, PlaceInv
      <3>3. loc[t] \in Locals /\ loc[t].list \subseteq Managed /\ loc[t].want \subseteq Managed
            /\ loc[t].wallet \in 0 .. pool /\ (loc[t].op = "add" => loc[t].wallet # 0)
        BY <1>0 DEF TypeInv, TypeOK, HandInv
      <3> QED BY <1>0, <2>0, <2>2, <3>1, <3>2, <3>3, TaskStep DEF Labels
    <2> QED BY <1>2, <2>1, <2>2 DEF LockSynced
  <1>3. CASE PatchList(t)
    <2> PICK ok \in BOOLEAN :
          /\ Trouble(~ok)
          /\ \E added \in IF ok THEN {Missing(t)} ELSE SUBSET Missing(t) : quick' = quick \cup added
          /\ synced' = Remembered(t, ok)
      BY <1>3 DEF PatchList
    <2>1. /\ quick' \subseteq Managed /\ synced' \subseteq Managed /\ trouble' \in Nat
      <3>1. Missing(t) \subseteq Managed /\ quick \subseteq Managed
        BY <1>0, LocalsOf DEF TypeInv, TypeOK
      <3> QED BY <1>0, <3>1, TroubleType DEF Remembered
    <2>2. /\ mutex = t /\ mutex' = NoTask /\ Finish(t)
          /\ pc' = [pc EXCEPT ![t] = "idle"] /\ loc' = [loc EXCEPT ![t] = InitLocals]
      BY <1>0, <1>3 DEF PatchList, TypeInv, MutexInv, Finish, Goto, SetLocals
    <2>3. TypeOK'
      BY <1>0, <2>1, <2>2, InitLocalsType DEF TypeInv, TypeOK, Managed, worker, Labels
    <2>4. PlaceInv' /\ EditInv' /\ HandInv' /\ MutexInv'
      BY <1>0, <2>2, InitLocalsType
         DEF TypeInv, TypeOK, PlaceInv, EditInv, HandInv, MutexInv, Managed
    <2> QED BY <2>3, <2>4 DEF TypeInv
  <1> QED BY <1>1, <1>2, <1>3 DEF Syncing

LEMMA CancelTyped == ASSUME TypeInv, NEW c \in Callers, StartCancel(c) PROVE TypeInv'
  <1> USE TaskSets
  <1> DEFINE l == [InitLocals EXCEPT !.op = "clear"]
  <1>0. /\ UNCHANGED <<pool, remote, sync, worker, phase>> /\ assigned' = {} /\ trouble' \in Nat
        /\ phase = "serve" /\ pc[c] = "idle"
    BY TroubleType DEF StartCancel
  <1>1. \/ UNCHANGED <<pc, loc, calm>>
        \/ /\ pc' = [pc EXCEPT ![c] = "put"] /\ loc' = [loc EXCEPT ![c] = l]
           /\ calm' = (calm /\ Editing = {})
    BY DEF StartCancel, Goto, SetLocals
  <1>2. l \in Locals /\ l.list = {} /\ l.want = {} /\ l.wallet = 0 /\ l.op = "clear"
    BY InitLocalsType DEF Locals, InitLocals
  <1> HIDE DEF l
  <1>3. TypeOK'
    BY <1>0, <1>1, <1>2 DEF TypeInv, TypeOK, Managed, remote, sync, worker, Labels
  <1>4. PlaceInv' /\ EditInv' /\ MutexInv'
    BY <1>0, <1>1, <1>2 DEF TypeInv, TypeOK, PlaceInv, EditInv, MutexInv, sync
  <1>5. HandInv'
    BY <1>0, <1>1, <1>2 DEF TypeInv, TypeOK, HandInv, Managed
  <1> QED BY <1>3, <1>4, <1>5 DEF TypeInv

\* The worker's batch and its queue hold sets of the pool's wallets.
LEMMA CoalescedType ==
    ASSUME TypeInv
    PROVE  Coalesced(queue) \subseteq Managed
  BY ElementOfSeq DEF Coalesced, TypeInv, TypeOK

LEMMA HintTyped == ASSUME TypeInv, Deliver \/ BeginScan \/ EndScan \/ Listen PROVE TypeInv'
  <1>0. /\ UNCHANGED <<pool, assigned, remote, sync, pc, loc, calm, trouble>>
        /\ phase' \in {"boot", "ready", "serve"} /\ (phase' # phase => phase = "ready" /\ phase' = "serve")
    BY DEF Deliver, BeginScan, EndScan, Listen, TypeInv, TypeOK
  <1>1. /\ queue' \in Seq(SUBSET Managed) /\ Len(queue') <= QueueSize
        /\ batch' \subseteq Managed /\ owed' \subseteq Managed
    <2>0. /\ queue \in Seq(SUBSET Managed) /\ Len(queue) <= QueueSize
          /\ batch \subseteq Managed /\ owed \subseteq Managed
      BY DEF TypeInv, TypeOK
    <2>1. CASE Deliver
      <3> PICK named \in SUBSET quick :
            /\ CanSend
            /\ queue' = Queued(named \cap Managed)
            /\ owed' = owed \cup (named \cap Managed)
        BY <2>1 DEF Deliver
      <3>1. named \cap Managed \in SUBSET Managed
        OBVIOUS
      <3>2. /\ Append(queue, named \cap Managed) \in Seq(SUBSET Managed)
            /\ Len(Append(queue, named \cap Managed)) = Len(queue) + 1
        BY <2>0, <3>1, AppendProperties
      <3>3. Len(queue) \in Nat /\ Len(queue) < QueueSize
        BY <2>0, LenProperties DEF CanSend
      <3> QED BY <2>0, <2>1, <3>1, <3>2, <3>3, WatchAssumption DEF Queued, Deliver
    <2>2. CASE BeginScan
      BY <2>0, <2>2, CoalescedType, EmptySeq, WatchAssumption DEF BeginScan
    <2>3. CASE EndScan \/ Listen
      BY <2>0, <2>3 DEF EndScan, Listen, worker
    <2> QED BY <2>1, <2>2, <2>3
  <1>2. TypeOK'
    BY <1>0, <1>1 DEF TypeInv, TypeOK, Managed, remote, sync
  <1>3. PlaceInv' /\ EditInv' /\ HandInv' /\ MutexInv'
    BY <1>0 DEF TypeInv, PlaceInv, EditInv, HandInv, MutexInv, Managed, sync
  <1> QED BY <1>2, <1>3 DEF TypeInv

LEMMA CrashTyped == ASSUME TypeInv, Crash PROVE TypeInv'
  <1>1. /\ UNCHANGED <<pool, assigned, remote>> /\ phase' = "boot" /\ calm' = FALSE /\ synced' = {}
        /\ mutex' = NoTask /\ queue' = <<>> /\ batch' = {} /\ owed' = {} /\ trouble' \in Nat
        /\ pc' = [t \in Tasks |-> IF t = Starter THEN "get" ELSE "idle"]
        /\ loc' = [t \in Tasks |-> InitLocals]
    BY TroubleType DEF Crash
  <1>2. queue' \in Seq(SUBSET Managed') /\ Len(queue') <= QueueSize
    BY <1>1, EmptySeq, WatchAssumption
  <1>3. TypeOK'
    BY <1>1, <1>2, InitLocalsType DEF TypeInv, TypeOK, Managed, remote, Labels
  <1>4. PlaceInv' /\ EditInv' /\ HandInv' /\ MutexInv'
    BY <1>1, TaskSets, InitLocalsType
       DEF TypeInv, TypeOK, PlaceInv, EditInv, HandInv, MutexInv, Managed
  <1> QED BY <1>3, <1>4 DEF TypeInv

LEMMA TypeStep == TypeInv /\ [Next]_vars => TypeInv'
  <1> SUFFICES ASSUME TypeInv, [Next]_vars PROVE TypeInv'
    OBVIOUS
  <1>1. CASE BootGet \/ BootPut \/ Listen \/ Crash
    BY <1>1, BootTyped, HintTyped, CrashTyped
  <1>2. CASE KeeperWakes \/ Syncing(Keeper)
    BY <1>2, SyncTyped
  <1>3. CASE Deliver \/ BeginScan \/ EndScan
    BY <1>3, HintTyped
  <1>4. ASSUME NEW c \in Callers, StartAddress(c) \/ StartCancel(c) \/ Serving(c) PROVE TypeInv'
    BY <1>4, AddressTyped, CancelTyped, EditTyped, SyncTyped DEF Serving
  <1>5. CASE UNCHANGED vars
    BY <1>5 DEF vars, remote, worker, sync, TypeInv, TypeOK, PlaceInv, EditInv, HandInv, MutexInv,
                Managed
  <1> QED BY <1>1, <1>2, <1>3, <1>4, <1>5 DEF Next

\* The type invariant: only wallets of the pool are ever registered or hinted.
THEOREM TypeCorrect == Spec => []TypeOK
  BY TypeInit, TypeStep, PTL DEF Spec, TypeInv

----------------------------------------------------------------------------
(* The Helius list *)

\* Wallet w is on the list, or a request is about to put it there.
Covered(w) == w \in helius \/ \E c \in Editing : loc[c].op = "add" /\ loc[c].wallet = w

\* While it is calm one request at most edits the list, so what it has fetched
\* is what it will replace; and one that empties it finds nobody assigned.
DriftInv ==
    calm => /\ phase # "boot"
            /\ phase = "ready" => helius = Targets
            /\ \A c, d \in Editing : c = d
            /\ \A c \in Editing : /\ pc[c] = "put" /\ loc[c].op = "add" => loc[c].list = helius
                                  /\ loc[c].op = "clear" => assigned = {}
            /\ \A w \in assigned : Covered(w)

LEMMA DriftInit == Init => DriftInv
  BY DEF Init, DriftInv

\* Steps that leave the list and its editors alone.
LEMMA DriftQuiet ==
    ASSUME TypeInv, DriftInv, calm' => calm, UNCHANGED <<pool, assigned, helius>>,
           phase' # phase => phase' = "serve" /\ phase # "boot",
           \A c \in Callers : /\ loc'[c] = loc[c] \/ c \notin Editing
                              /\ pc'[c] = pc[c] \/ {pc[c], pc'[c]} \cap {"get", "put"} = {}
    PROVE  DriftInv'
  <1>1. Editing' = Editing
    BY DEF Editing
  <1>2. \A c \in Editing : loc'[c] = loc[c] /\ pc'[c] = pc[c] /\ c \in Callers
    BY DEF Editing
  <1>3. ASSUME NEW w, Covered(w) PROVE Covered(w)'
    BY <1>1, <1>2, <1>3 DEF Covered
  <1>4. Targets' = Targets
    BY DEF Targets, WholePool, Managed
  <1> QED BY <1>1, <1>2, <1>3, <1>4 DEF DriftInv

LEMMA DriftBoot == ASSUME TypeInv, DriftInv, BootGet \/ BootPut PROVE DriftInv'
  <1>1. phase = "boot" /\ Editing = {}
    BY DEF BootGet, BootPut, TypeInv, PlaceInv, Editing
  <1>2. /\ \A c \in Callers : pc'[c] = pc[c]
        /\ UNCHANGED <<pool, assigned>>
    BY TaskSets DEF BootGet, BootPut, Finish, Goto, TypeInv, TypeOK
  <1>3. Editing' = {}
    BY <1>1, <1>2 DEF Editing
  <1>4. CASE BootGet
    BY <1>1, <1>4 DEF BootGet, DriftInv
  <1>5. CASE BootPut
    <2>1. calm' => helius' = Targets /\ phase' = "ready"
      BY <1>5 DEF BootPut, Replacement
    <2>2. Targets' = Targets /\ assigned \subseteq Targets
      BY <1>2 DEF Targets, WholePool, Managed, TypeInv, TypeOK
    <2> QED BY <1>2, <1>3, <2>1, <2>2 DEF DriftInv, Covered
  <1> QED BY <1>4, <1>5

LEMMA FirstEditor ==
    ASSUME NEW c \in Callers, NEW label \in {"get", "put"}, pc \in [Tasks -> Labels],
           Editing = {}, pc' = [pc EXCEPT ![c] = label]
    PROVE  Editing' = {c}
  <1>1. \A d \in Callers : pc'[d] = IF d = c THEN label ELSE pc[d]
    BY TaskSets
  <1>2. \A d \in Callers : pc[d] \notin {"get", "put"}
    BY DEF Editing
  <1>3. \A d : d \in Editing' <=> d \in Callers /\ pc'[d] \in {"get", "put"}
    BY DEF Editing
  <1>4. \A d : d \in Editing' <=> d = c
    BY <1>1, <1>2, <1>3
  <1> QED BY <1>4

LEMMA DriftStart ==
    ASSUME TypeInv, DriftInv, NEW c \in Callers, StartAddress(c) \/ StartCancel(c)
    PROVE  DriftInv'
  <1>0. /\ phase = "serve" /\ phase' = "serve" /\ pc[c] = "idle" /\ helius' = helius
        /\ pc \in [Tasks -> Labels] /\ loc \in [Tasks -> Locals] /\ c \in Tasks
    BY TaskSets DEF StartAddress, StartCancel, remote, TypeInv, TypeOK
  <1>1. CASE StartAddress(c)
    <2> PICK w \in Wallets :
          /\ assigned' = assigned \cup {w}
          /\ loc' = [loc EXCEPT ![c] = [InitLocals EXCEPT !.op = "add", !.wallet = w]]
      BY <1>1 DEF StartAddress, SetLocals
    <2>1. pc' = [pc EXCEPT ![c] = "get"] /\ calm' = (calm /\ Editing = {})
      BY <1>1 DEF StartAddress, Goto
    <2>2. loc'[c].op = "add" /\ loc'[c].wallet = w /\ pc'[c] = "get"
      BY <1>0, <2>1 DEF InitLocals
    <2>3. calm' => Editing' = {c}
      BY <1>0, <2>1, FirstEditor
    <2>4. ASSUME calm', NEW x \in assigned' PROVE Covered(x)'
      <3>1. CASE x = w
        BY <2>2, <2>3, <2>4, <3>1 DEF Covered
      <3>2. CASE x \in assigned
        BY <1>0, <2>1, <2>4, <3>2 DEF Covered, DriftInv
      <3> QED BY <3>1, <3>2
    <2> QED BY <1>0, <2>1, <2>2, <2>3, <2>4 DEF DriftInv
  <1>2. CASE StartCancel(c)
    <2>0. assigned' = {}
      BY <1>2 DEF StartCancel
    <2>1. CASE UNCHANGED <<pc, loc, calm>>
      BY <1>0, <2>0, <2>1 DEF DriftInv, Editing
    <2>2. CASE /\ Goto(c, "put") /\ SetLocals(c, [InitLocals EXCEPT !.op = "clear"])
               /\ calm' = (calm /\ Editing = {})
      <3>1. /\ loc'[c].op = "clear" /\ pc'[c] = "put"
            /\ pc' = [pc EXCEPT ![c] = "put"]
        BY <1>0, <2>2 DEF Goto, SetLocals, InitLocals
      <3>2. calm' => Editing' = {c}
        BY <1>0, <2>2, <3>1, FirstEditor
      <3> QED BY <1>0, <2>0, <3>1, <3>2 DEF DriftInv
    <2> QED BY <1>2, <2>1, <2>2 DEF StartCancel
  <1> QED BY <1>1, <1>2

\* What an edit leaves behind: alone, it writes back what is there and its own.
LEMMA DriftEdit ==
    ASSUME TypeInv, DriftInv, NEW c \in Callers, GetWebhook(c) \/ PutWebhook(c) \/ ClearPut(c)
    PROVE  DriftInv'
  <1>0. /\ phase = "serve" /\ phase' = phase /\ c \in Editing /\ c \in Tasks
        /\ UNCHANGED <<pool, assigned>>
        /\ calm' => calm
        /\ pc \in [Tasks -> Labels] /\ loc \in [Tasks -> Locals]
    BY Busy, TaskSets DEF GetWebhook, PutWebhook, ClearPut, Editing, TypeInv, TypeOK
  <1> SUFFICES ASSUME calm'
               PROVE  /\ \A b, d \in Editing' : b = d
                      /\ \A d \in Editing' :
                           /\ pc'[d] = "put" /\ loc'[d].op = "add" => loc'[d].list = helius'
                           /\ loc'[d].op = "clear" => assigned' = {}
                      /\ \A w \in assigned' : Covered(w)'
    BY <1>0 DEF DriftInv
  <1>1. /\ Editing = {c}
        /\ pc[c] = "put" /\ loc[c].op = "add" => loc[c].list = helius
        /\ loc[c].op = "clear" => assigned = {}
        /\ \A w \in assigned : w \in helius \/ (loc[c].op = "add" /\ loc[c].wallet = w)
    <2>1. calm
      BY <1>0
    <2>2. /\ \A b, d \in Editing : b = d
          /\ pc[c] = "put" /\ loc[c].op = "add" => loc[c].list = helius
          /\ loc[c].op = "clear" => assigned = {}
          /\ \A w \in assigned : Covered(w)
      BY <1>0, <2>1 DEF DriftInv
    <2>3. Editing = {c}
      BY <1>0, <2>2
    <2>4. ASSUME NEW w \in assigned
          PROVE  w \in helius \/ (loc[c].op = "add" /\ loc[c].wallet = w)
      BY <2>2, <2>3 DEF Covered
    <2> QED BY <2>2, <2>3, <2>4
  <1>2. \A d \in Callers : d # c => pc'[d] = pc[d]
    BY <1>0, TaskSets DEF GetWebhook, PutWebhook, ClearPut, AskToSync, Finish, Goto
  <1>3. Editing' = IF pc'[c] \in {"get", "put"} THEN {c} ELSE {}
    BY <1>1, <1>2 DEF Editing
  <1>4. CASE GetWebhook(c) /\ pc'[c] # "put"
    <2>1. loc[c].wallet \in helius /\ Editing' = {} /\ helius' = helius
      BY <1>0, <1>3, <1>4 DEF GetWebhook, AskToSync, Goto, remote
    <2>2. \A w \in assigned' : w \in helius'
      BY <1>0, <1>1, <2>1
    <2> QED BY <2>1, <2>2 DEF Covered
  <1>5. CASE GetWebhook(c) /\ pc'[c] = "put"
    <2>1. /\ loc' = [loc EXCEPT ![c] = [loc[c] EXCEPT !.list = helius]] /\ helius' = helius
          /\ loc[c].op = "add"
      BY <1>0, <1>5 DEF GetWebhook, AskToSync, Goto, SetLocals, remote, TypeInv, EditInv
    <2>2. loc'[c].list = helius /\ loc'[c].op = "add" /\ loc'[c].wallet = loc[c].wallet
      BY <1>0, <2>1 DEF Locals
    <2>3. Editing' = {c}
      BY <1>3, <1>5
    <2>4. \A w \in assigned' : w \in helius' \/ (loc'[c].op = "add" /\ loc'[c].wallet = w)
      BY <1>0, <1>1, <2>1, <2>2
    <2> HIDE DEF Editing
    <2>5. \A w \in assigned' : Covered(w)'
      BY <2>3, <2>4 DEF Covered
    <2>6. \A b, d \in Editing' : b = d
      BY <2>3
    <2>7. \A d \in Editing' : loc'[d].list = helius' /\ loc'[d].op = "add"
      BY <2>1, <2>2, <2>3
    <2> QED BY <2>5, <2>6, <2>7
  <1>6. CASE PutWebhook(c)
    <2>1. helius' = loc[c].list \cup {loc[c].wallet} /\ pc'[c] = "lock" /\ loc[c].list = helius
      BY <1>0, <1>1, <1>6 DEF PutWebhook, AskToSync, Goto, Merged
    <2>2. loc[c].op = "add" /\ Editing' = {}
      BY <1>3, <1>6, <2>1 DEF PutWebhook
    <2>3. \A w \in assigned' : w \in helius'
      BY <1>0, <1>1, <2>1
    <2> QED BY <2>2, <2>3 DEF Covered
  <1>7. CASE ClearPut(c)
    BY <1>0, <1>1, <1>3, <1>7 DEF ClearPut, Finish, Goto
  <1> QED BY <1>4, <1>5, <1>6, <1>7

LEMMA DriftStep == TypeInv /\ DriftInv /\ [Next]_vars => DriftInv'
  <1> SUFFICES ASSUME TypeInv, DriftInv, [Next]_vars PROVE DriftInv'
    OBVIOUS
  <1>1. CASE Crash
    BY <1>1 DEF Crash, DriftInv
  <1>2. CASE Listen \/ Deliver \/ BeginScan \/ EndScan \/ UNCHANGED vars
    BY <1>2, DriftQuiet DEF Listen, Deliver, BeginScan, EndScan, vars, remote
  <1>3. ASSUME NEW t \in Callers \cup {Keeper}, Syncing(t) \/ (t = Keeper /\ KeeperWakes)
        PROVE  DriftInv'
    <2>1. /\ UNCHANGED <<pool, assigned, helius, phase, calm>> /\ pc[t] \notin {"get", "put"}
          /\ t \in Tasks /\ pc \in [Tasks -> Labels] /\ loc \in [Tasks -> Locals]
      BY <1>3, TaskSets DEF Syncing, LockSynced, PatchList, KeeperWakes, remote, TypeInv, TypeOK
    <2>2. \A c \in Callers : c # t => pc'[c] = pc[c] /\ loc'[c] = loc[c]
      BY <1>3, <2>1, TaskSets
         DEF Syncing, LockSynced, PatchList, KeeperWakes, AskToSync, Finish, Goto, SetLocals
    <2>3. pc'[t] \notin {"get", "put"}
      BY <1>3, <2>1
         DEF Syncing, LockSynced, PatchList, KeeperWakes, AskToSync, Finish, Goto
    <2> QED BY <2>1, <2>2, <2>3, DriftQuiet DEF Editing
  <1>4. CASE BootGet \/ BootPut
    BY <1>4, DriftBoot
  <1>5. ASSUME NEW c \in Callers, StartAddress(c) \/ StartCancel(c) \/ Serving(c) PROVE DriftInv'
    BY <1>3, <1>5, DriftStart, DriftEdit DEF Serving
  <1> QED BY <1>1, <1>2, <1>3, <1>4, <1>5 DEF Next

\* sync_helius_webhook_addresses: "Drift from either side ... converges on the
\* next call".  After a start that got through, every assigned wallet is on the
\* Helius list or about to be put there, for as long as the calls succeed and no
\* two requests overlap.
THEOREM ListConverges == Spec => []DriftConverges
  <1>1. DriftInv => DriftConverges
    BY DEF DriftInv, DriftConverges, Covered
  <1> QED BY <1>1, TypeInit, TypeStep, DriftInit, DriftStep, PTL DEF Spec

----------------------------------------------------------------------------
(* The QuickNode list and its hints *)

\* What the process takes for watched is on the list: a wallet it skips in the
\* next sync is there.
SyncedListed == synced \subseteq quick

\* An accepted hint waits in the queue, whatever else is coalesced with it, until
\* a scan of its wallet begins: only a crash drops one.
OwedQueued == owed \subseteq Coalesced(queue)

LEMMA SyncedStep == SyncedListed /\ [Next]_vars => SyncedListed'
  <1> SUFFICES ASSUME SyncedListed, [Next]_vars PROVE SyncedListed'
    OBVIOUS
  <1> USE DEF SyncedListed
  <1>1. ASSUME NEW t, PatchList(t) PROVE SyncedListed'
    <2> PICK ok \in BOOLEAN :
          /\ \E added \in IF ok THEN {Missing(t)} ELSE SUBSET Missing(t) : quick' = quick \cup added
          /\ synced' = Remembered(t, ok)
      BY <1>1 DEF PatchList
    <2> QED BY DEF Remembered
  <1>2. ASSUME NEW t, LockSynced(t) PROVE SyncedListed'
    BY <1>2 DEF LockSynced, remote
  <1>3. CASE BootGet \/ BootPut \/ Listen \/ KeeperWakes \/ Deliver \/ BeginScan \/ EndScan
    BY <1>3 DEF BootGet, BootPut, Listen, KeeperWakes, Deliver, BeginScan, EndScan, remote, sync
  <1>4. CASE Crash
    BY <1>4 DEF Crash
  <1>5. ASSUME NEW c \in Callers,
               StartAddress(c) \/ StartCancel(c) \/ GetWebhook(c) \/ PutWebhook(c) \/ ClearPut(c)
        PROVE  SyncedListed'
    BY <1>5 DEF StartAddress, StartCancel, GetWebhook, PutWebhook, ClearPut, remote, sync
  <1>6. CASE UNCHANGED vars
    BY <1>6 DEF vars, remote, sync
  <1> QED BY <1>1, <1>2, <1>3, <1>4, <1>5, <1>6 DEF Next, Serving, Syncing

LEMMA OwedStep == TypeInv /\ OwedQueued /\ [Next]_vars => OwedQueued'
  <1> SUFFICES ASSUME TypeInv, OwedQueued, [Next]_vars PROVE OwedQueued'
    OBVIOUS
  <1>1. CASE Deliver
    <2> PICK named \in SUBSET quick :
          /\ CanSend
          /\ queue' = Queued(named \cap Managed)
          /\ owed' = owed \cup (named \cap Managed)
      BY <1>1 DEF Deliver
    <2> DEFINE new == named \cap Managed
    <2>1. queue \in Seq(SUBSET Managed) /\ Len(queue) \in Nat /\ new \in SUBSET Managed
          /\ Len(queue) # QueueSize
      BY LenProperties, WatchAssumption DEF TypeInv, TypeOK, CanSend
    <2>2. CASE new = {}
      BY <2>2 DEF Queued, OwedQueued
    <2>3. CASE new # {}
      <3>1. queue' = Append(queue, new)
        BY <2>1, <2>3 DEF Queued
      <3>2. /\ Len(queue') = Len(queue) + 1 /\ queue'[Len(queue) + 1] = new
            /\ \A i \in 1 .. Len(queue) : queue'[i] = queue[i]
        <4> DEFINE S == SUBSET Managed
        <4>1. queue \in Seq(S) /\ new \in S
          BY <2>1
        <4> HIDE DEF new, S
        <4>2. /\ Len(Append(queue, new)) = Len(queue) + 1
              /\ \A i \in 1 .. Len(queue) : Append(queue, new)[i] = queue[i]
              /\ Append(queue, new)[Len(queue) + 1] = new
          BY <4>1, AppendProperties
        <4> QED BY <3>1, <4>2
      <3>3. Coalesced(queue) \cup new \subseteq Coalesced(queue')
        <4>1. ASSUME NEW w \in Coalesced(queue) PROVE w \in Coalesced(queue')
          <5>1. PICK i \in 1 .. Len(queue) : w \in queue[i]
            BY DEF Coalesced
          <5>2. i \in 1 .. Len(queue')
            BY <2>1, <3>2
          <5>3. w \in queue'[i]
            BY <3>2, <5>1
          <5> QED BY <5>2, <5>3 DEF Coalesced
        <4>2. ASSUME NEW w \in new PROVE w \in Coalesced(queue')
          <5>1. Len(queue) + 1 \in 1 .. Len(queue')
            BY <2>1, <3>2
          <5> QED BY <3>2, <5>1 DEF Coalesced
        <4> QED BY <4>1, <4>2
      <3> QED BY <3>3 DEF OwedQueued
    <2> QED BY <2>2, <2>3
  <1>2. CASE BeginScan
    BY <1>2 DEF BeginScan, OwedQueued
  <1>3. CASE Crash
    BY <1>3 DEF Crash, OwedQueued
  <1>4. CASE UNCHANGED <<queue, owed>>
    BY <1>4 DEF OwedQueued
  <1>5. CASE BootGet \/ BootPut \/ Listen \/ KeeperWakes \/ EndScan \/ UNCHANGED vars
    BY <1>4, <1>5 DEF BootGet, BootPut, Listen, KeeperWakes, EndScan, vars, worker
  <1>6. ASSUME NEW t, Syncing(t) \/ StartAddress(t) \/ StartCancel(t) \/ Serving(t)
        PROVE  OwedQueued'
    BY <1>4, <1>6 DEF Syncing, LockSynced, PatchList, StartAddress, StartCancel, Serving,
                      GetWebhook, PutWebhook, ClearPut, worker
  <1> QED BY <1>1, <1>2, <1>3, <1>5, <1>6 DEF Next

\* ensure_synced: an address is remembered once the provider has acknowledged it,
\* so none that the process skips is missing from the list.
THEOREM SkippedAreListed == Spec => []SyncedListed
  <1>1. Init => SyncedListed
    BY DEF Init, SyncedListed
  <1> QED BY <1>1, SyncedStep, PTL DEF Spec

\* "Coalesce bursts while retaining at least one scan after arrivals": no order
\* of arrivals and scans takes an accepted hint out of the queue unscanned.
THEOREM HintsWait == Spec => []OwedQueued
  <1>1. Init => OwedQueued
    BY DEF Init, OwedQueued
  <1> QED BY <1>1, TypeInit, TypeStep, OwedStep, PTL DEF Spec

====
