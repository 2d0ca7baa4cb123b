------------------------ MODULE SolanaDetectorProofs ------------------------
(***************************************************************************)
(* Proofs about SolanaDetector for every set of payments, users and tasks, *)
(* every configuration and every bound: no cursor passes a deposit or goes *)
(* back, a payment is credited to one user, what is credited is swept or   *)
(* queued, and the outbox keeps the promise of PaymentOutbox.              *)
(*                                                                         *)
(* Steps are of three kinds: quiet ones, which leave memory, locks and     *)
(* backend alone; steps of a task that scans or works on the queue, which  *)
(* only add to what the others rely on (Growth) and leave their locks      *)
(* alone (LocksKept); and the environment.                                 *)
(***************************************************************************)
EXTENDS SolanaDetector, WellFoundedInduction, TLAPS

\* Where a task scans an account, and where it works on an entry of the queue.
ScanLabels == {"list", "load", "cursor"}
EntryLabels == {"flag", "owner", "sweep", "credit", "record", "remove"}
CreditLabels == EntryLabels \cup {"next"}
QuietLabels == Labels \ (ScanLabels \cup CreditLabels \cup {"recover"})

\* What a task knows of its locals where it stands.
LocalInv(label, l) ==
    /\ label \in EntryLabels => l.entry \in Entry
    /\ label \in {"load", "cursor", "recover"} => l.sigs # {}
    /\ label \in ScanLabels => l.assets # {}
    /\ label \in ScanLabels \cup {"lock", "recover"} => l.res \in Reservation

TypeInv == TypeOK /\ \A t \in Tasks : LocalInv(pc[t], loc[t])

----------------------------------------------------------------------------
(* The helpers keep the types. *)

LEMMA LabelSets ==
    /\ ScanLabels \subseteq Labels /\ CreditLabels \subseteq Labels /\ QuietLabels \subseteq Labels
    /\ "recover" \in Labels
    /\ \A label \in QuietLabels : label \notin ScanLabels \cup CreditLabels \cup {"recover"}
  BY DEF ScanLabels, CreditLabels, EntryLabels, QuietLabels, Labels

LEMMA Constants ==
    /\ \A p \in Payments : Acct(p) \in Accounts /\ AddrOf[p] \in Addrs /\ AssetOf[p] \in Assets
    /\ \A p \in Payments : AmountOf[p] \in {"none", "dust", "full"}
    /\ \A a \in Accounts : a[1] \in Addrs
    /\ NoEntry \notin Entry /\ Native \in Assets
  BY PaymentAssumption DEF Acct, Accounts, Addrs, Assets, Entry, NoEntry

LEMMA Least ==
    ASSUME NEW S \in SUBSET Nat, S # {}
    PROVE  \E m \in S : \A n \in S : m <= n
  <1>1. \A n \in Nat, m \in Nat : n < m => <<n, m>> \in OpToRel(<, Nat)
    BY Zenon DEF OpToRel
  <1>2. PICK m \in S : \A n \in S : ~ (<<n, m>> \in OpToRel(<, Nat))
    BY NatLessThanWellFounded, WFMin, Zenon
  <1>3. \A n \in S : ~ (n < m)
    BY <1>1, <1>2, Zenon
  <1> QED BY <1>3

LEMMA OldestIn ==
    ASSUME TypeOK, NEW P \in SUBSET Payments, P # {}
    PROVE  Oldest(P) \in P /\ \A q \in P : at[Oldest(P)] <= at[q]
  <1> DEFINE Slots == {at[p] : p \in P}
  <1>1. Slots \in SUBSET Nat /\ Slots # {}
    BY DEF TypeOK
  <1>2. PICK n \in Slots : \A m \in Slots : n <= m
    BY <1>1, Least
  <1>3. \E p \in P : \A q \in P : at[p] <= at[q]
    BY <1>2
  <1> QED BY <1>3 DEF Oldest

LEMMA ScannedType ==
    ASSUME NEW l \in Locals, l.assets # {}, l.res \in Reservation
    PROVE  Scanned(l) \in l.assets /\ Scanned(l) \in Assets /\ Account(l) \in Accounts
  <1>1. Scanned(l) \in l.assets
    BY DEF Scanned
  <1>2. l.assets \subseteq Assets
    BY DEF Locals
  <1> QED BY <1>1, <1>2 DEF Account, Accounts, Reservation

LEMMA StoreType ==
    ASSUME NEW s \in Store, NEW p \in Payments, NEW u \in Users, at[p] \in Nat
    PROVE  /\ Push(s, p, u) \in Store
           /\ SetCursor(s, p) \in Store
           /\ Notified(s, p) \in Store
           /\ MarkCredited(s, p) \in Store
           /\ Drop(s, p) \in Store
  <1>1. [p |-> p, user |-> u, notified |-> FALSE] \in Entry
    BY DEF Entry
  <1>2. \A e \in s.pending : [e EXCEPT !.notified = TRUE] \in Entry
    BY DEF Store, Entry
  <1>3. Push(s, p, u) \in Store
    BY <1>1 DEF Push, Store
  <1>4. SetCursor(s, p) \in Store
    BY Constants DEF SetCursor, Store
  <1>5. Notified(s, p) \in Store
    BY <1>2 DEF Notified, Store
  <1>6. MarkCredited(s, p) \in Store /\ Drop(s, p) \in Store
    BY DEF MarkCredited, Drop, Store
  <1> QED BY <1>3, <1>4, <1>5, <1>6

LEMMA InitLocalsType == InitLocals \in Locals
  BY DEF InitLocals, Locals, Kinds

\* What an operation does to the fields of the state.
LEMMA StoreEffect ==
    ASSUME NEW s \in Store, NEW p \in Payments, NEW u \in Users
    PROVE  /\ Push(s, p, u).credited = s.credited /\ Push(s, p, u).cursor = s.cursor
           /\ Push(s, p, u).pending =
                s.pending \cup (IF Known(s, p) THEN {} ELSE {[p |-> p, user |-> u, notified |-> FALSE]})
           /\ SetCursor(s, p).credited = s.credited /\ SetCursor(s, p).pending = s.pending
           /\ SetCursor(s, p).cursor = [s.cursor EXCEPT ![Acct(p)] = at[p]]
           /\ Notified(s, p).credited = s.credited /\ Notified(s, p).cursor = s.cursor
           /\ Notified(s, p).pending =
                {IF e.p = p THEN [e EXCEPT !.notified = TRUE] ELSE e : e \in s.pending}
           /\ MarkCredited(s, p).credited = s.credited \cup {p}
           /\ MarkCredited(s, p).pending = s.pending /\ MarkCredited(s, p).cursor = s.cursor
           /\ Drop(s, p).credited = s.credited /\ Drop(s, p).cursor = s.cursor
           /\ Drop(s, p).pending = {e \in s.pending : e.p # p}
  <1> USE DEF Store
  <1>1. /\ Push(s, p, u).credited = s.credited /\ Push(s, p, u).cursor = s.cursor
        /\ Push(s, p, u).pending =
             s.pending \cup (IF Known(s, p) THEN {} ELSE {[p |-> p, user |-> u, notified |-> FALSE]})
    BY DEF Push
  <1>2. /\ SetCursor(s, p).credited = s.credited /\ SetCursor(s, p).pending = s.pending
        /\ SetCursor(s, p).cursor = [s.cursor EXCEPT ![Acct(p)] = at[p]]
    BY DEF SetCursor
  <1>3. /\ Notified(s, p).credited = s.credited /\ Notified(s, p).cursor = s.cursor
        /\ Notified(s, p).pending =
             {IF e.p = p THEN [e EXCEPT !.notified = TRUE] ELSE e : e \in s.pending}
    BY DEF Notified
  <1>4. /\ MarkCredited(s, p).credited = s.credited \cup {p}
        /\ MarkCredited(s, p).pending = s.pending /\ MarkCredited(s, p).cursor = s.cursor
    BY DEF MarkCredited
  <1>5. /\ Drop(s, p).credited = s.credited /\ Drop(s, p).cursor = s.cursor
        /\ Drop(s, p).pending = {e \in s.pending : e.p # p}
    BY DEF Drop
  <1> QED BY <1>1, <1>2, <1>3, <1>4, <1>5

----------------------------------------------------------------------------
(* Steps outside the scans and the credits *)

Counted == faults' \in {faults, faults + 1} /\ errors' \in {errors, errors + 1}

\* Memory, locks and backend stay; tasks move between quiet places.
Quiet ==
    /\ mem' = mem /\ disk' \in {disk, mem}
    /\ UNCHANGED <<chainVars, userVars, locks, backendVars>>
    /\ swept \subseteq swept' /\ swept' \subseteq Payments
    /\ Counted
    /\ pc' \in [Tasks -> Labels] /\ loc' \in [Tasks -> Locals]
    /\ \A t \in Tasks :
         \/ pc'[t] = pc[t] /\ loc'[t] = loc[t]
         \/ pc[t] \in QuietLabels /\ pc'[t] \in QuietLabels /\ LocalInv(pc'[t], loc'[t])

LEMMA Counters ==
    ASSUME NEW b \in BOOLEAN
    PROVE  /\ Error(b) => errors' \in {errors, errors + 1}
           /\ Fault(b) => faults' \in {faults, faults + 1}
           /\ Save(b) => disk' \in {disk, mem'} /\ faults' \in {faults, faults + 1}
  BY DEF Error, Fault, Save

LEMMA QuietLocal == \A label \in QuietLabels \ {"lock"}, l \in Locals : LocalInv(label, l)
  BY LabelSets DEF LocalInv, ScanLabels, EntryLabels, CreditLabels

LEMMA QuietMove ==
    ASSUME TypeInv, NEW t \in Tasks, pc[t] \in QuietLabels,
           NEW label \in QuietLabels, NEW l \in Locals, LocalInv(label, l), At(t, label, l)
    PROVE  /\ pc' \in [Tasks -> Labels] /\ loc' \in [Tasks -> Locals]
           /\ \A u \in Tasks :
                \/ pc'[u] = pc[u] /\ loc'[u] = loc[u]
                \/ pc[u] \in QuietLabels /\ pc'[u] \in QuietLabels /\ LocalInv(pc'[u], loc'[u])
  <1>1. label \in Labels /\ pc \in [Tasks -> Labels] /\ loc \in [Tasks -> Locals]
    BY LabelSets DEF TypeInv, TypeOK
  <1> QED BY <1>1 DEF At, Goto, Set

\* Where the quiet steps lead.
LEMMA QuietTargets ==
    /\ "idle" \in QuietLabels \ {"lock"} /\ "boot" \in QuietLabels \ {"lock"}
    /\ "orphans" \in QuietLabels \ {"lock"} /\ "slot" \in QuietLabels \ {"lock"}
    /\ "scan" \in QuietLabels \ {"lock"} /\ "credits" \in QuietLabels \ {"lock"}
    /\ "gas" \in QuietLabels \ {"lock"} /\ "rslot" \in QuietLabels \ {"lock"}
    /\ "lock" \in QuietLabels
  BY DEF QuietLabels, Labels, ScanLabels, CreditLabels, EntryLabels

LEMMA QuietTask ==
    ASSUME TypeInv, NEW t \in Tasks, pc[t] \in QuietLabels,
           NEW label \in QuietLabels \ {"lock"}, NEW l \in Locals, At(t, label, l),
           mem' = mem, disk' \in {disk, mem},
           UNCHANGED <<chainVars, userVars, locks, backendVars>>,
           swept \subseteq swept', swept' \subseteq Payments, Counted
    PROVE  Quiet
  BY QuietLocal, QuietMove DEF Quiet

LEMMA BootQuiet ==
    ASSUME TypeInv, BootStep
    PROVE  Quiet
  <1>0. /\ Poller \in Tasks /\ loc[Poller] \in Locals /\ swept \subseteq Payments
        /\ InitLocals \in Locals
    BY InitLocalsType DEF TypeInv, TypeOK, Tasks
  <1>1. CASE BootRead
    <2> DEFINE l == [InitLocals EXCEPT !.orphans = {a \in Accounts : owner[a[1]] = NoUser}]
    <2>1. l \in Locals
      BY <1>0 DEF Locals
    <2>2. PICK error \in BOOLEAN :
            Error(error) /\ IF error THEN Idle(Poller) ELSE At(Poller, "orphans", l)
      BY <1>1 DEF BootRead
    <2> HIDE DEF l
    <2>3. pc[Poller] \in QuietLabels /\ Counted /\ UNCHANGED swept /\ mem' = mem /\ disk' = disk
      BY <1>1, <2>2, QuietTargets, Counters DEF BootRead, Counted
    <2>4. UNCHANGED <<chainVars, userVars, locks, backendVars>>
      BY <1>1 DEF BootRead
    <2> QED BY <1>0, <2>1, <2>2, <2>3, <2>4, QuietTargets, QuietTask DEF Idle
  <1>2. CASE BootSweep
    <2>1. PICK a \in loc[Poller].orphans :
            At(Poller, "orphans", [loc[Poller] EXCEPT !.orphans = @ \ {a}])
      BY <1>2 DEF BootSweep
    <2>2. [loc[Poller] EXCEPT !.orphans = @ \ {a}] \in Locals
      BY <1>0 DEF Locals
    <2>3. /\ pc[Poller] \in QuietLabels /\ Counted /\ mem' = mem /\ disk' = disk
          /\ swept \subseteq swept' /\ swept' \subseteq Payments
      <3>1. \A b : Funds(b) \subseteq Payments
        BY DEF Funds
      <3> QED BY <1>0, <1>2, <3>1, QuietTargets, Counters DEF BootSweep, Counted
    <2>4. UNCHANGED <<chainVars, userVars, locks, backendVars>>
      BY <1>2 DEF BootSweep
    <2> QED BY <1>0, <2>1, <2>2, <2>3, <2>4, QuietTargets, QuietTask
  <1>3. CASE BootDone
    <2>1. /\ pc[Poller] \in QuietLabels /\ Counted /\ UNCHANGED swept /\ mem' = mem /\ disk' = disk
          /\ UNCHANGED <<chainVars, userVars, locks, backendVars>>
          /\ At(Poller, "idle", InitLocals)
      BY <1>3, QuietTargets DEF BootDone, Counted, Idle
    <2> QED BY <1>0, <2>1, QuietTargets, QuietTask
  <1> QED BY <1>1, <1>2, <1>3 DEF BootStep

LEMMA CycleQuiet ==
    ASSUME TypeInv, NEW t \in Tasks,
           \/ t = Poller /\ (ReadReservations \/ ScansDone \/ Maintain)
           \/ ReadSlot(t)
    PROVE  Quiet
  <1>0. loc[t] \in Locals /\ swept \subseteq Payments /\ InitLocals \in Locals /\ slot \in Nat
    BY InitLocalsType DEF TypeInv, TypeOK
  <1>1. CASE t = Poller /\ ReadReservations
    <2> DEFINE l == [InitLocals EXCEPT !.kind = "cycle", !.scans = Reservations]
    <2>1. l \in Locals
      BY <1>0 DEF Locals, Kinds, Reservations
    <2>2. PICK error \in BOOLEAN : Error(error) /\ IF error THEN Idle(t) ELSE At(t, "slot", l)
      BY <1>1 DEF ReadReservations
    <2> HIDE DEF l
    <2>3. /\ pc[t] \in QuietLabels /\ Counted /\ UNCHANGED swept /\ mem' = mem /\ disk' = disk
          /\ UNCHANGED <<chainVars, userVars, locks, backendVars>>
      BY <1>1, <2>2, QuietTargets, Counters DEF ReadReservations, Counted
    <2> QED BY <1>0, <2>1, <2>2, <2>3, QuietTargets, QuietTask DEF Idle
  <1>2. CASE ReadSlot(t)
    <2>1. PICK error \in BOOLEAN, price \in BOOLEAN :
            /\ Error(error)
            /\ IF error THEN Idle(t)
               ELSE At(t, "scan", [loc[t] EXCEPT !.slot = slot, !.price = price])
      BY <1>2 DEF ReadSlot
    <2>2. [loc[t] EXCEPT !.slot = slot, !.price = price] \in Locals
      BY <1>0 DEF Locals
    <2>3. /\ pc[t] \in QuietLabels /\ Counted /\ UNCHANGED swept /\ mem' = mem /\ disk' = disk
          /\ UNCHANGED <<chainVars, userVars, locks, backendVars>>
      BY <1>2, <2>1, QuietTargets, Counters DEF ReadSlot, Counted
    <2> QED BY <1>0, <2>1, <2>2, <2>3, QuietTargets, QuietTask DEF Idle
  <1>3. CASE t = Poller /\ ScansDone
    <2>1. PICK error \in BOOLEAN :
            /\ Error(error)
            /\ At(t, "credits", AfterScans([loc[t] EXCEPT !.slot = IF error THEN @ ELSE slot]))
      BY <1>3 DEF ScansDone
    <2>2. AfterScans([loc[t] EXCEPT !.slot = IF error THEN @ ELSE slot]) \in Locals
      BY <1>0 DEF Locals, AfterScans
    <2>3. /\ pc[t] \in QuietLabels /\ Counted /\ UNCHANGED swept /\ mem' = mem /\ disk' = disk
          /\ UNCHANGED <<chainVars, userVars, locks, backendVars>>
      BY <1>3, <2>1, QuietTargets, Counters DEF ScansDone, Counted
    <2> QED BY <1>0, <2>1, <2>2, <2>3, QuietTargets, QuietTask
  <1>4. CASE t = Poller /\ Maintain
    <2>1. /\ pc[t] \in QuietLabels /\ Counted /\ UNCHANGED swept /\ mem' = mem
          /\ disk' \in {disk, mem} /\ At(t, "idle", InitLocals)
          /\ UNCHANGED <<chainVars, userVars, locks, backendVars>>
      BY <1>4, QuietTargets, Counters DEF Maintain, Counted, Idle
    <2> QED BY <1>0, <2>1, QuietTargets, QuietTask
  <1> QED BY <1>1, <1>2, <1>3, <1>4

LEMMA RequestQuiet ==
    ASSUME TypeInv, NEW t \in Tasks,
           Claim(t) \/ PushSeen(t) \/ ConfirmPending(t) \/ RecoverSlot(t)
    PROVE  Quiet
  <1>0. loc[t] \in Locals /\ swept \subseteq Payments /\ InitLocals \in Locals /\ slot \in Nat
    BY InitLocalsType DEF TypeInv, TypeOK
  <1>1. CASE Claim(t)
    <2>1. PICK r \in Reservations :
            At(t, "slot", [InitLocals EXCEPT !.kind = "claim", !.scans = {r}])
      BY <1>1 DEF Claim
    <2>2. [InitLocals EXCEPT !.kind = "claim", !.scans = {r}] \in Locals
      BY <1>0 DEF Locals, Kinds, Reservations
    <2>3. /\ pc[t] \in QuietLabels /\ Counted /\ UNCHANGED swept /\ mem' = mem /\ disk' = disk
          /\ UNCHANGED <<chainVars, userVars, locks, backendVars>>
      BY <1>1, QuietTargets DEF Claim, Counted
    <2> QED BY <1>0, <2>1, <2>2, <2>3, QuietTargets, QuietTask
  <1>2. CASE PushSeen(t)
    <2>1. PICK R \in SUBSET Reservations :
            At(t, "slot", [InitLocals EXCEPT !.kind = "push", !.scans = R])
      BY <1>2 DEF PushSeen
    <2>2. [InitLocals EXCEPT !.kind = "push", !.scans = R] \in Locals
      BY <1>0 DEF Locals, Kinds, Reservations
    <2>3. /\ pc[t] \in QuietLabels /\ Counted /\ UNCHANGED swept /\ mem' = mem /\ disk' = disk
          /\ UNCHANGED <<chainVars, userVars, locks, backendVars>>
      BY <1>2, QuietTargets DEF PushSeen, Counted
    <2> QED BY <1>0, <2>1, <2>2, <2>3, QuietTargets, QuietTask
  <1>3. CASE ConfirmPending(t)
    <2> DEFINE l == [InitLocals EXCEPT !.kind = "confirm", !.slot = slot]
    <2>1. l \in Locals
      BY <1>0 DEF Locals, Kinds
    <2>2. PICK error \in BOOLEAN : Error(error) /\ IF error THEN Idle(t) ELSE At(t, "credits", l)
      BY <1>3 DEF ConfirmPending
    <2> HIDE DEF l
    <2>3. /\ pc[t] \in QuietLabels /\ Counted /\ UNCHANGED swept /\ mem' = mem /\ disk' = disk
          /\ UNCHANGED <<chainVars, userVars, locks, backendVars>>
      BY <1>3, <2>2, QuietTargets, Counters DEF ConfirmPending, Counted
    <2> QED BY <1>0, <2>1, <2>2, <2>3, QuietTargets, QuietTask DEF Idle
  <1>4. CASE RecoverSlot(t)
    <2>1. PICK error \in BOOLEAN :
            /\ Error(error)
            /\ IF error THEN Idle(t) ELSE At(t, "credits", [loc[t] EXCEPT !.slot = slot])
      BY <1>4 DEF RecoverSlot
    <2>2. [loc[t] EXCEPT !.slot = slot] \in Locals
      BY <1>0 DEF Locals
    <2>3. /\ pc[t] \in QuietLabels /\ Counted /\ UNCHANGED swept /\ mem' = mem /\ disk' = disk
          /\ UNCHANGED <<chainVars, userVars, locks, backendVars>>
      BY <1>4, <2>1, QuietTargets, Counters DEF RecoverSlot, Counted
    <2> QED BY <1>0, <2>1, <2>2, <2>3, QuietTargets, QuietTask DEF Idle
  <1> QED BY <1>1, <1>2, <1>3, <1>4

\* Two tasks move when the poll loop hands an address to a worker.
LEMMA ScanStartQuiet ==
    ASSUME TypeInv, NEW t \in Tasks, NextScan(t) \/ (t \in Workers /\ StartScan(t))
    PROVE  Quiet
  <1>0. /\ loc[t] \in Locals /\ swept \subseteq Payments /\ InitLocals \in Locals
        /\ Poller \in Tasks /\ loc[Poller] \in Locals
        /\ pc \in [Tasks -> Labels] /\ loc \in [Tasks -> Locals]
    BY InitLocalsType DEF TypeInv, TypeOK, Tasks
  <1>1. CASE NextScan(t)
    <2>1. /\ pc[t] \in QuietLabels /\ Counted /\ UNCHANGED swept /\ mem' = mem /\ disk' = disk
          /\ UNCHANGED <<chainVars, userVars, locks, backendVars>>
      BY <1>1, QuietTargets DEF NextScan, Counted
    <2>1a. AfterScans(loc[t]) \in Locals
      BY <1>0 DEF Locals, AfterScans
    <2>2. CASE At(t, "idle", InitLocals) \/ At(t, "credits", AfterScans(loc[t]))
      BY <1>0, <2>1, <2>1a, <2>2, QuietTargets, QuietTask
    <2>3. CASE ~(At(t, "idle", InitLocals) \/ At(t, "credits", AfterScans(loc[t])))
      <3>1. PICK r \in loc[t].scans :
              At(t, "lock", [loc[t] EXCEPT !.scans = @ \ {r}, !.res = r])
        BY <1>1, <2>3 DEF NextScan, Idle
      <3> DEFINE l == [loc[t] EXCEPT !.scans = @ \ {r}, !.res = r]
      <3>2. l \in Locals /\ l.res \in Reservation
        BY <1>0 DEF Locals
      <3>3. LocalInv("lock", l)
        BY <3>2 DEF LocalInv, EntryLabels, ScanLabels
      <3> HIDE DEF l
      <3>4. At(t, "lock", l)
        BY <3>1 DEF l
      <3> QED BY <1>0, <2>1, <3>2, <3>3, <3>4, QuietTargets, QuietMove DEF Quiet
    <2> QED BY <2>2, <2>3
  <1>2. CASE t \in Workers /\ StartScan(t)
    <2>1. PICK r \in loc[Poller].scans :
            /\ pc' = [pc EXCEPT ![t] = "lock"]
            /\ loc' = [loc EXCEPT ![Poller].scans = @ \ {r},
                                  ![t] = [InitLocals EXCEPT !.kind = "cycle", !.res = r,
                                                            !.price = loc[Poller].price]]
      BY <1>2 DEF StartScan
    <2> DEFINE l == [InitLocals EXCEPT !.kind = "cycle", !.res = r, !.price = loc[Poller].price]
               k == [loc[Poller] EXCEPT !.scans = @ \ {r}]
    <2>2. l \in Locals /\ l.res \in Reservation /\ k \in Locals
      BY <1>0 DEF Locals, Kinds
    <2>3. t # Poller /\ pc[t] = "idle" /\ pc[Poller] = "scan"
      BY <1>2, TaskAssumption DEF StartScan
    <2>4. /\ loc'[t] = l /\ loc'[Poller] = k
          /\ \A u \in Tasks : u \notin {t, Poller} => loc'[u] = loc[u]
          /\ loc' = [u \in Tasks |-> IF u = t THEN l ELSE IF u = Poller THEN k ELSE loc[u]]
      BY <1>0, <2>1, <2>3
    <2>5. LocalInv("lock", l)
      BY <2>2 DEF LocalInv, EntryLabels, ScanLabels
    <2> HIDE DEF l, k
    <2>6. LocalInv("scan", k)
      BY <2>2, QuietLocal, QuietTargets
    <2>7. pc' \in [Tasks -> Labels] /\ loc' \in [Tasks -> Locals]
      BY <1>0, <2>1, <2>2, <2>4, QuietTargets, LabelSets
    <2>8. /\ mem' = mem /\ disk' = disk /\ UNCHANGED swept /\ Counted
          /\ UNCHANGED <<chainVars, userVars, locks, backendVars>>
      BY <1>2 DEF StartScan, Counted
    <2>9. \A u \in Tasks :
            \/ pc'[u] = pc[u] /\ loc'[u] = loc[u]
            \/ pc[u] \in QuietLabels /\ pc'[u] \in QuietLabels /\ LocalInv(pc'[u], loc'[u])
      <3>1. pc'[t] = "lock" /\ pc'[Poller] = "scan" /\ \A u \in Tasks : u # t => pc'[u] = pc[u]
        BY <1>0, <2>1, <2>3
      <3> QED BY <2>3, <2>4, <2>5, <2>6, <3>1, QuietTargets
    <2> QED BY <1>0, <2>7, <2>8, <2>9 DEF Quiet
  <1> QED BY <1>1, <1>2

----------------------------------------------------------------------------
(* The type invariant *)

LEMMA TypeInit == Init => TypeInv
  <1> SUFFICES ASSUME Init PROVE TypeInv
    OBVIOUS
  <1>1. FirstFile \in Store
    BY DEF FirstFile, Store
  <1>2. pc \in [Tasks -> QuietLabels \ {"lock"}] /\ loc \in [Tasks -> Locals]
    BY InitLocalsType, QuietTargets DEF Init
  <1>3. \A t \in Tasks : LocalInv(pc[t], loc[t])
    BY <1>2, QuietLocal
  <1>4. pc \in [Tasks -> Labels]
    BY <1>2, LabelSets
  <1> QED BY <1>1, <1>2, <1>3, <1>4 DEF Init, TypeInv, TypeOK

LEMMA QuietType == TypeInv /\ Quiet => TypeInv'
  <1> SUFFICES ASSUME TypeInv, Quiet PROVE TypeInv'
    OBVIOUS
  <1>1. \A t \in Tasks : LocalInv(pc'[t], loc'[t])
    BY DEF Quiet, TypeInv
  <1>2. faults' \in Nat /\ errors' \in Nat
    BY DEF Quiet, Counted, TypeInv, TypeOK
  <1> QED BY <1>1, <1>2 DEF Quiet, TypeInv, TypeOK, chainVars, userVars, locks, backendVars

\* What the other steps of a task need to show.
LEMMA TaskType ==
    ASSUME TypeInv, NEW t \in Tasks, NEW label \in Labels, NEW l \in Locals,
           LocalInv(label, l), At(t, label, l),
           UNCHANGED <<chainVars, userVars>>, swept' \subseteq Payments,
           mem' \in Store, disk' \in {disk, mem'},
           scanLocks' \in [Addrs -> Tasks \cup {NoTask}], creditLock' \in Tasks \cup {NoTask},
           detected' \subseteq Payments, credits' \in [Payments -> Nat],
           creditedTo' \subseteq Payments \X Users, Counted
    PROVE  TypeInv'
  <1>1. /\ pc' \in [Tasks -> Labels] /\ loc' \in [Tasks -> Locals]
        /\ \A u \in Tasks : LocalInv(pc'[u], loc'[u])
    BY DEF TypeInv, TypeOK, At, Goto, Set
  <1>2. faults' \in Nat /\ errors' \in Nat
    BY DEF Counted, TypeInv, TypeOK
  <1> QED BY <1>1, <1>2 DEF TypeInv, TypeOK, chainVars, userVars

LEMMA EnvironmentType ==
    ASSUME TypeInv, NewSlot \/ Assign \/ CancelAll \/ Crash
    PROVE  TypeInv'
  <1> USE DEF TypeInv
  <1>1. CASE NewSlot
    <2>1. PICK T \in SUBSET Payable :
            /\ at' = [p \in Payments |-> IF p \in T THEN slot + 1 ELSE at[p]]
            /\ entitled' = [p \in Payments |->
                           IF p \notin T THEN entitled[p]
                           ELSE IF owner[AddrOf[p]] = NoUser THEN Users
                           ELSE {owner[AddrOf[p]]}]
      BY <1>1 DEF NewSlot
    <2>2. slot' \in Nat /\ slot + 1 \in Nat
      BY <1>1 DEF NewSlot, TypeOK
    <2>3. at' \in [Payments -> Nat]
      BY <2>1, <2>2, Zenon DEF TypeOK
    <2>4. entitled' \in [Payments -> SUBSET Users]
      <3>1. \A p \in Payments : owner[AddrOf[p]] \in Users \cup {NoUser} /\ entitled[p] \subseteq Users
        BY Constants DEF TypeOK
      <3> QED BY <2>1, <3>1
    <2>5. UNCHANGED <<owner, cancels, swept, mem, disk, pc, loc, locks, backendVars, faults, errors>>
      BY <1>1 DEF NewSlot
    <2> QED BY <2>2, <2>3, <2>4, <2>5 DEF TypeOK, locks, backendVars
  <1>2. CASE Assign
    <2>1. PICK r \in Reservation :
            /\ owner' = [owner EXCEPT ![r.addr] = r.user]
            /\ entitled' = [p \in Payments |->
                           IF AddrOf[p] = r.addr /\ at[p] > 0 THEN entitled[p] \cup {r.user}
                           ELSE entitled[p]]
      BY <1>2 DEF Assign, Book!Claim, Book!WriteBack
    <2>2. r.addr \in Addrs /\ r.user \in Users
      BY DEF Reservation
    <2>3. owner' \in [Addrs -> Users \cup {NoUser}] /\ entitled' \in [Payments -> SUBSET Users]
      BY <2>1, <2>2 DEF TypeOK
    <2> QED BY <1>2, <2>3
            DEF Assign, Book!Claim, Book!WriteBack, TypeOK, chainVars, locks, backendVars
  <1>3. CASE CancelAll
    BY <1>3 DEF CancelAll, Book!Delete, TypeOK, chainVars, locks, backendVars
  <1>4. CASE Crash
    <2>1. pc' \in [Tasks -> QuietLabels \ {"lock"}] /\ loc' \in [Tasks -> Locals]
      BY <1>4, InitLocalsType, QuietTargets DEF Crash
    <2>2. faults' \in Nat
      BY <1>4 DEF Crash, Fault, TypeOK
    <2>3. pc' \in [Tasks -> Labels] /\ \A u \in Tasks : LocalInv(pc'[u], loc'[u])
      BY <2>1, QuietLocal, LabelSets
    <2> QED BY <1>4, <2>1, <2>2, <2>3 DEF Crash, TypeOK, chainVars, userVars, backendVars
  <1> QED BY <1>1, <1>2, <1>3, <1>4

\* An account is done: the next one, the next address, or nothing more.
LEMMA AccountDoneMove ==
    ASSUME TypeInv, NEW t \in Tasks, pc[t] \in ScanLabels, NEW failed \in BOOLEAN,
           AccountDone(t, failed)
    PROVE  \E label \in {"list", "idle", "scan"}, l \in Locals :
             /\ LocalInv(label, l) /\ At(t, label, l)
             /\ label = "list" => UNCHANGED scanLocks /\ l.res = loc[t].res
             /\ label # "list" =>
                  scanLocks' = [scanLocks EXCEPT ![loc[t].res.addr] = NoTask]
  <1>0. /\ loc[t] \in Locals /\ loc[t].assets # {} /\ loc[t].res \in Reservation
        /\ InitLocals \in Locals
    BY InitLocalsType DEF TypeInv, TypeOK, LocalInv
  <1> DEFINE l == [loc[t] EXCEPT !.assets = @ \ {Scanned(loc[t])}, !.sigs = {},
                                 !.failed = @ \/ failed]
             k == [l EXCEPT !.res = NoEntry]
  <1>f. (loc[t].failed \/ failed) \in BOOLEAN
    BY <1>0 DEF Locals
  <1>1. l \in Locals /\ l.res = loc[t].res /\ k \in Locals
    <2> DEFINE b == loc[t].failed \/ failed
    <2>1. b \in BOOLEAN
      BY <1>f
    <2> HIDE DEF b
    <2>2. /\ [loc[t] EXCEPT !.assets = @ \ {Scanned(loc[t])}, !.sigs = {}, !.failed = b] \in Locals
          /\ [[loc[t] EXCEPT !.assets = @ \ {Scanned(loc[t])}, !.sigs = {}, !.failed = b]
                EXCEPT !.res = NoEntry] \in Locals
          /\ [loc[t] EXCEPT !.assets = @ \ {Scanned(loc[t])}, !.sigs = {}, !.failed = b].res = loc[t].res
      BY <1>0, <2>1 DEF Locals
    <2> QED BY <2>2 DEF b
  <1>2. IF l.assets # {} THEN At(t, "list", l) /\ UNCHANGED scanLocks
        ELSE /\ scanLocks' = [scanLocks EXCEPT ![l.res.addr] = NoTask]
             /\ IF t \in Workers THEN Idle(t) ELSE At(t, "scan", k)
    BY DEF AccountDone
  <1>3. l.assets # {} => LocalInv("list", l)
    BY <1>0, <1>1 DEF LocalInv, ScanLabels, EntryLabels
  <1> HIDE DEF l, k
  <1>4. LocalInv("idle", InitLocals) /\ LocalInv("scan", k)
    BY <1>0, <1>1, QuietLocal, QuietTargets
  <1> QED BY <1>0, <1>1, <1>2, <1>3, <1>4 DEF Idle

----------------------------------------------------------------------------
(* The invariant *)

Paid(p) == at[p] > 0 /\ AmountOf[p] # "none"

\* Payment p is queued for user u, or credited.
Stands(s, p, u) == p \in s.credited \/ \E e \in s.pending : e.p = p /\ e.user = u
Held(p, u) == Stands(mem, p, u) /\ Stands(disk, p, u)

\* The funds of p have left their wallet, or its entry still waits.
Gone(p) == TankEmpties \/ p \in swept
Kept(s, p) == Gone(p) \/ Queued(s, p)

\* What holds of the memory and of the file.
StateInv(s) ==
    /\ \A a \in Accounts : s.cursor[a] <= slot
    /\ Tracked(s)
    /\ \A e \in s.pending : Paid(e.p) /\ (e.notified => e.p \in detected)
    /\ \A e, f \in s.pending : e.p = f.p => e = f
    /\ \A p \in s.credited : Kept(s, p)

\* Payments are made in slots that passed, one of an account in a slot.
ChainInv ==
    /\ \A p \in Payments : at[p] <= slot
    /\ \A p, q \in Payments : (Acct(p) = Acct(q) /\ at[p] = at[q] /\ at[p] > 0) => p = q

\* The file is behind the memory.
FileInv ==
    /\ disk.credited \subseteq mem.credited
    /\ \A a \in Accounts : disk.cursor[a] <= mem.cursor[a]

\* Who was credited stands in memory and file, so that nobody else will be.
CreditedInv == OneBeneficiary /\ \A c \in creditedTo : Held(c[1], c[2])

\* A scan holds the lock of its address and has in hand what is above the
\* cursor, but for what was paid since: that is newer than all it has.
InHand(t) ==
    /\ \A p \in loc[t].sigs :
         Acct(p) = Account(loc[t]) /\ at[p] > mem.cursor[Account(loc[t])]
    /\ \A q \in Payments \ loc[t].sigs :
         (Acct(q) = Account(loc[t]) /\ at[q] > mem.cursor[Account(loc[t])])
            => \A p \in loc[t].sigs : at[p] < at[q]
OldestKnown(t) ==
    \A p \in loc[t].sigs :
        ((\A q \in loc[t].sigs : at[p] <= at[q]) /\ AmountOf[p] = "full") => Known(mem, p)
ScanInv(t) ==
    /\ pc[t] \in ScanLabels => scanLocks[loc[t].res.addr] = t
    /\ pc[t] \in {"load", "cursor"} => InHand(t)
    /\ pc[t] = "cursor" => OldestKnown(t)
    /\ pc[t] = "recover" => \A p \in loc[t].sigs : Paid(p)

\* Who works on the queue holds the credit lock; what he has copied stands in
\* memory and file.
EntryInv(e) ==
    /\ Paid(e.p)
    /\ e.notified => e.p \in detected
    /\ Held(e.p, e.user)
    /\ Kept(mem, e.p)
CreditInv(t) ==
    /\ pc[t] \in CreditLabels => creditLock = t /\ \A e \in loc[t].todo : EntryInv(e)
    /\ pc[t] \in EntryLabels => EntryInv(loc[t].entry) /\ loc[t].entry.p \in detected
    /\ pc[t] = "remove" => loc[t].entry.p \in mem.credited /\ Gone(loc[t].entry.p)
    /\ (pc[t] \in {"credit", "record"} /\ ~loc[t].deferred) => Gone(loc[t].entry.p)

GlobalInv == ChainInv /\ FileInv /\ CreditedInv /\ StateInv(mem) /\ StateInv(disk)
Inv == GlobalInv /\ \A t \in Tasks : ScanInv(t) /\ CreditInv(t)

----------------------------------------------------------------------------
(* The operations on the state *)

LEMMA NewEntry ==
    ASSUME NEW p \in Payments, NEW u \in Users
    PROVE  LET e == [p |-> p, user |-> u, notified |-> FALSE]
           IN e.p = p /\ e.user = u /\ e.notified = FALSE /\ e \in Entry
  BY DEF Entry

\* What no operation takes away.
Grows(s, r) ==
    /\ s.credited \subseteq r.credited
    /\ \A p \in Payments : Known(s, p) => Known(r, p)
    /\ \A p \in Payments, u \in Users : Stands(s, p, u) => Stands(r, p, u)
    /\ \A p \in Payments : Kept(s, p) => Kept(r, p)

LEMMA PushKeeps ==
    ASSUME NEW s \in Store, NEW p \in Payments, NEW u \in Users, StateInv(s), Paid(p)
    PROVE  /\ StateInv(Push(s, p, u)) /\ Grows(s, Push(s, p, u)) /\ Known(Push(s, p, u), p)
           /\ Push(s, p, u).cursor = s.cursor
  <1> DEFINE r == Push(s, p, u)
             n == [p |-> p, user |-> u, notified |-> FALSE]
  <1>0. /\ r.credited = s.credited /\ r.cursor = s.cursor
        /\ r.pending = s.pending \cup (IF Known(s, p) THEN {} ELSE {n})
    BY DEF Push, Store
  <1>1. n.p = p /\ n.user = u /\ n.notified = FALSE
    BY NewEntry
  <1> HIDE DEF r, n
  <1>2. Grows(s, r)
    BY <1>0 DEF Grows, Known, Stands, Kept, Queued, Credited
  <1>3. Known(r, p)
    BY <1>0, <1>1 DEF Known, Queued, Credited
  <1>4. Tracked(r)
    BY <1>0, <1>2 DEF StateInv, Tracked, Grows
  <1>5. \A e \in r.pending : Paid(e.p) /\ (e.notified => e.p \in detected)
    BY <1>0, <1>1 DEF StateInv
  <1>6. \A e, f \in r.pending : e.p = f.p => e = f
    BY <1>0, <1>1 DEF StateInv, Known, Queued
  <1>7. \A q \in r.credited : Kept(r, q)
    BY <1>0, <1>2 DEF StateInv, Grows, Store
  <1> QED BY <1>0, <1>2, <1>3, <1>4, <1>5, <1>6, <1>7 DEF StateInv, r

LEMMA CursorKeeps ==
    ASSUME NEW s \in Store, NEW p \in Payments, StateInv(s), ChainInv,
           \A q \in Payments :
             (Acct(q) = Acct(p) /\ at[q] <= at[p] /\ at[q] > s.cursor[Acct(p)]
                /\ AmountOf[q] = "full") => Known(s, q),
           TypeOK
    PROVE  /\ StateInv(SetCursor(s, p)) /\ Grows(s, SetCursor(s, p))
           /\ \A q \in Payments : Known(s, q) => Known(SetCursor(s, p), q)
  <1> DEFINE r == SetCursor(s, p)
  <1>0. /\ r.credited = s.credited /\ r.pending = s.pending
        /\ r.cursor = [s.cursor EXCEPT ![Acct(p)] = at[p]]
        /\ s.cursor \in [Accounts -> Nat] /\ Acct(p) \in Accounts
        /\ at[p] \in Nat /\ at[p] <= slot
        /\ \A q \in Payments : at[q] \in Nat /\ Acct(q) \in Accounts
    <2>2. /\ r.credited = s.credited /\ r.pending = s.pending
          /\ r.cursor = [s.cursor EXCEPT ![Acct(p)] = at[p]]
      BY DEF SetCursor, Store
    <2> QED BY <2>2, Constants DEF Store, TypeOK, ChainInv
  <1> HIDE DEF r
  <1>2. Grows(s, r)
    BY <1>0 DEF Grows, Known, Stands, Kept, Queued, Credited
  <1>3. Tracked(r)
    <2> SUFFICES ASSUME NEW q \in Payments, AmountOf[q] = "full", at[q] > 0,
                        at[q] <= r.cursor[Acct(q)]
                 PROVE  Known(r, q)
      BY DEF Tracked
    <2>1. Known(s, q)
      <3>1. CASE at[q] <= s.cursor[Acct(q)]
        BY <3>1 DEF StateInv, Tracked
      <3>2. CASE ~(at[q] <= s.cursor[Acct(q)])
        <4>1. Acct(q) = Acct(p) /\ at[q] <= at[p] /\ at[q] > s.cursor[Acct(p)]
          BY <1>0, <3>2
        <4> QED BY <4>1
      <3> QED BY <3>1, <3>2
    <2> QED BY <1>2, <2>1 DEF Grows
  <1>4. \A a \in Accounts : r.cursor[a] <= slot
    BY <1>0 DEF StateInv
  <1>5. \A q \in r.credited : Kept(r, q)
    BY <1>0, <1>2 DEF StateInv, Grows, Store
  <1> QED BY <1>0, <1>2, <1>3, <1>4, <1>5 DEF StateInv, r, Grows

LEMMA NotifiedKeeps ==
    ASSUME NEW s \in Store, NEW p \in Payments, StateInv(s), p \in detected
    PROVE  StateInv(Notified(s, p)) /\ Grows(s, Notified(s, p)) /\ Notified(s, p).cursor = s.cursor
  <1> DEFINE r == Notified(s, p)
             N(e) == IF e.p = p THEN [e EXCEPT !.notified = TRUE] ELSE e
  <1>0. /\ r.credited = s.credited /\ r.cursor = s.cursor
        /\ r.pending = {N(e) : e \in s.pending}
    BY DEF Notified, Store
  <1>1. \A e \in s.pending : /\ N(e).p = e.p /\ N(e).user = e.user
                             /\ N(e).notified => e.notified \/ e.p = p
    BY DEF Store, Entry
  <1> HIDE DEF r, N
  <1>2. /\ \A e \in r.pending : \E f \in s.pending : e = N(f)
        /\ \A f \in s.pending : N(f) \in r.pending
    BY <1>0
  <1>3. \A q : Queued(r, q) <=> Queued(s, q)
    BY <1>1, <1>2 DEF Queued
  <1>4. \A q, u : Stands(s, q, u) => Stands(r, q, u)
    BY <1>0, <1>1, <1>2 DEF Stands
  <1>5. Grows(s, r)
    BY <1>0, <1>3, <1>4 DEF Grows, Known, Kept, Credited
  <1>6. Tracked(r)
    BY <1>0, <1>5 DEF StateInv, Tracked, Grows
  <1>7. \A e \in r.pending : Paid(e.p) /\ (e.notified => e.p \in detected)
    BY <1>1, <1>2 DEF StateInv
  <1>8. \A e, f \in r.pending : e.p = f.p => e = f
    BY <1>1, <1>2 DEF StateInv
  <1>9. \A q \in r.credited : Kept(r, q)
    BY <1>0, <1>5 DEF StateInv, Grows, Store
  <1> QED BY <1>0, <1>5, <1>6, <1>7, <1>8, <1>9 DEF StateInv, r

LEMMA CreditedKeeps ==
    ASSUME NEW s \in Store, NEW p \in Payments, StateInv(s), Kept(s, p)
    PROVE  /\ StateInv(MarkCredited(s, p)) /\ Grows(s, MarkCredited(s, p))
           /\ p \in MarkCredited(s, p).credited
           /\ MarkCredited(s, p).cursor = s.cursor
  <1> DEFINE r == MarkCredited(s, p)
  <1>0. r.credited = s.credited \cup {p} /\ r.cursor = s.cursor /\ r.pending = s.pending
    BY DEF MarkCredited, Store
  <1> HIDE DEF r
  <1>2. Grows(s, r)
    BY <1>0 DEF Grows, Known, Stands, Kept, Queued, Credited
  <1>3. Tracked(r)
    BY <1>0, <1>2 DEF StateInv, Tracked, Grows
  <1>4. \A q \in r.credited : Kept(r, q)
    BY <1>0, <1>2 DEF StateInv, Grows, Store
  <1> QED BY <1>0, <1>2, <1>3, <1>4 DEF StateInv, r

LEMMA DropKeeps ==
    ASSUME NEW s \in Store, NEW p \in Payments, StateInv(s), p \in s.credited, Gone(p)
    PROVE  /\ StateInv(Drop(s, p)) /\ Grows(s, Drop(s, p))
           /\ Drop(s, p).credited = s.credited /\ Drop(s, p).cursor = s.cursor
  <1> DEFINE r == Drop(s, p)
  <1>0. /\ r.credited = s.credited /\ r.cursor = s.cursor
        /\ r.pending = {e \in s.pending : e.p # p}
    BY DEF Drop, Store
  <1> HIDE DEF r
  <1>1. \A q : Queued(s, q) => Queued(r, q) \/ q = p
    BY <1>0 DEF Queued
  <1>2. Grows(s, r)
    BY <1>0, <1>1 DEF Grows, Known, Stands, Kept, Credited
  <1>3. Tracked(r)
    BY <1>0, <1>2 DEF StateInv, Tracked, Grows
  <1>4. \A q \in r.credited : Kept(r, q)
    BY <1>0, <1>2 DEF StateInv, Grows, Store
  <1> QED BY <1>0, <1>2, <1>3, <1>4 DEF StateInv, r

----------------------------------------------------------------------------
(* What every step of a task does to what the others rely on *)

\* Nothing that was known, announced or swept is forgotten, and no cursor goes
\* back.  A new credit names the user of an entry that stands.
Growth ==
    /\ UNCHANGED <<chainVars, userVars>>
    /\ swept \subseteq swept' /\ swept' \subseteq Payments
    /\ detected \subseteq detected' /\ detected' \subseteq Payments
    /\ credits' \in [Payments -> Nat]
    /\ Counted
    /\ mem' \in Store /\ disk' \in {disk, mem'}
    /\ StateInv(mem') /\ Grows(mem, mem')
    /\ \A a \in Accounts : mem.cursor[a] <= mem'.cursor[a]
    /\ \/ UNCHANGED creditedTo
       \/ \E e \in Entry : /\ creditedTo' = creditedTo \cup {<<e.p, e.user>>}
                           /\ Held(e.p, e.user) /\ e.p \notin mem.credited

\* The locks of task u, and the cursors they protect, are left alone.
LocksKept(u) ==
    /\ \A a \in Addrs : scanLocks[a] = u => scanLocks'[a] = u
    /\ creditLock = u => creditLock' = u
    /\ \A a \in Accounts : scanLocks[a[1]] = u => mem'.cursor[a] = mem.cursor[a]

\* Task t arrives at a label with its locals.
Lands(t, label, l) ==
    label \in Labels /\ l \in Locals /\ LocalInv(label, l) /\ At(t, label, l)

LEMMA GrowsSame == \A s : Grows(s, s)
  BY DEF Grows

LEMMA StatePrime ==
    ASSUME NEW s, StateInv(s), UNCHANGED chainVars, swept \subseteq swept',
           detected \subseteq detected'
    PROVE  /\ \A a \in Accounts : s.cursor[a] <= slot'
           /\ Tracked(s)'
           /\ \A e \in s.pending : Paid(e.p)' /\ (e.notified => e.p \in detected')
           /\ \A e, f \in s.pending : e.p = f.p => e = f
           /\ \A p \in s.credited : Kept(s, p)'
  BY DEF StateInv, Tracked, Paid, Kept, Gone, chainVars, Known, Credited, Queued, Acct

LEMMA HeldKept ==
    ASSUME TypeInv, Growth, NEW p \in Payments, NEW u \in Users, Held(p, u)
    PROVE  Held(p, u)'
  <1>1. Stands(mem, p, u) /\ Stands(disk, p, u) /\ Stands(mem', p, u)
    BY DEF Held, Growth, Grows
  <1>2. Stands(disk', p, u)
    BY <1>1 DEF Growth
  <1> QED BY <1>1, <1>2 DEF Held, Stands

LEMMA GlobalKept ==
    ASSUME TypeInv, Inv, Growth
    PROVE  GlobalInv'
  <1>0. /\ ChainInv /\ FileInv /\ CreditedInv /\ StateInv(mem) /\ StateInv(disk)
        /\ mem \in Store /\ disk \in Store /\ creditedTo \subseteq Payments \X Users
    BY DEF Inv, GlobalInv, TypeInv, TypeOK
  <1>1. ChainInv'
    BY <1>0 DEF ChainInv, Growth, chainVars, Acct
  <1>2. FileInv'
    <2>1. mem.credited \subseteq mem'.credited /\ mem' \in Store
      BY DEF Growth, Grows
    <2>2. \A a \in Accounts : /\ mem.cursor[a] \in Nat /\ disk.cursor[a] \in Nat
                              /\ mem'.cursor[a] \in Nat
      BY <1>0, <2>1 DEF Store
    <2>3. CASE disk' = disk
      BY <1>0, <2>1, <2>2, <2>3 DEF FileInv, Growth
    <2>4. CASE disk' = mem'
      BY <2>2, <2>4 DEF FileInv
    <2> QED BY <2>3, <2>4 DEF Growth
  <1>3. StateInv(mem)'
    BY StatePrime DEF StateInv, Growth
  <1>4. StateInv(disk)'
    <2>1. CASE disk' = disk
      BY <1>0, <2>1, StatePrime DEF StateInv, Growth
    <2>2. CASE disk' = mem'
      BY <2>2, StatePrime DEF StateInv, Growth
    <2> QED BY <2>1, <2>2 DEF Growth
  <1>5. CreditedInv'
    <2>1. \A c \in creditedTo : c[1] \in Payments /\ c[2] \in Users /\ Held(c[1], c[2])'
      BY <1>0, HeldKept DEF CreditedInv
    <2>2. CASE UNCHANGED creditedTo
      BY <1>0, <2>1, <2>2 DEF CreditedInv, OneBeneficiary
    <2>3. CASE ~ UNCHANGED creditedTo
      <3>1. PICK e \in Entry : /\ creditedTo' = creditedTo \cup {<<e.p, e.user>>}
                               /\ Held(e.p, e.user) /\ e.p \notin mem.credited
        BY <2>3 DEF Growth
      <3>2. e.p \in Payments /\ e.user \in Users /\ Held(e.p, e.user)'
        BY <3>1, HeldKept DEF Entry
      <3>3. ASSUME NEW c \in creditedTo, c[1] = e.p PROVE c = <<e.p, e.user>>
        <4>1. \E f \in mem.pending : f.p = e.p /\ f.user = c[2]
          BY <1>0, <3>1, <3>3 DEF CreditedInv, Held, Stands
        <4>2. \E f \in mem.pending : f.p = e.p /\ f.user = e.user
          BY <3>1 DEF Held, Stands
        <4>3. c[2] = e.user
          BY <1>0, <4>1, <4>2 DEF StateInv
        <4> QED BY <1>0, <3>3, <4>3
      <3>4. OneBeneficiary'
        BY <1>0, <3>1, <3>3 DEF CreditedInv, OneBeneficiary
      <3> QED BY <2>1, <3>1, <3>2, <3>4 DEF CreditedInv
    <2> QED BY <2>2, <2>3
  <1> QED BY <1>1, <1>2, <1>3, <1>4, <1>5 DEF GlobalInv

LEMMA EntryKept ==
    ASSUME TypeInv, Growth, NEW e \in Entry, EntryInv(e)
    PROVE  EntryInv(e)'
  <1>1. e.p \in Payments /\ e.user \in Users
    BY DEF Entry
  <1>2. Held(e.p, e.user)'
    BY <1>1, HeldKept DEF EntryInv
  <1>3. Kept(mem', e.p)
    BY <1>1 DEF EntryInv, Growth, Grows
  <1> QED BY <1>2, <1>3 DEF EntryInv, Growth, Paid, Kept, Gone, Queued, chainVars

\* A task that does not move keeps its part of the invariant.
LEMMA TaskKept ==
    ASSUME TypeInv, Inv, Growth, NEW u \in Tasks, LocksKept(u),
           pc'[u] = pc[u], loc'[u] = loc[u]
    PROVE  ScanInv(u)' /\ CreditInv(u)'
  <1>0. /\ ScanInv(u) /\ CreditInv(u) /\ loc[u] \in Locals /\ LocalInv(pc[u], loc[u])
        /\ \A p \in Payments : Known(mem, p) => Known(mem', p)
        /\ mem.credited \subseteq mem'.credited
        /\ at' = at /\ slot' = slot
    BY DEF Inv, TypeInv, TypeOK, Growth, Grows, chainVars
  <1>1. ScanInv(u)'
    <2>1. pc[u] \in ScanLabels =>
            /\ scanLocks[loc[u].res.addr] = u /\ scanLocks'[loc[u].res.addr] = u
            /\ Account(loc[u]) \in Accounts
            /\ mem'.cursor[Account(loc[u])] = mem.cursor[Account(loc[u])]
      <3>1. ASSUME pc[u] \in ScanLabels
            PROVE  /\ loc[u].res.addr \in Addrs /\ Account(loc[u]) \in Accounts
                   /\ Account(loc[u])[1] = loc[u].res.addr
        <4>1. loc[u].assets # {} /\ loc[u].res \in Reservation
          BY <1>0, <3>1 DEF LocalInv
        <4>2. Account(loc[u]) \in Accounts
          BY <1>0, <4>1, ScannedType
        <4> QED BY <4>1, <4>2 DEF Account, Reservation
      <3> QED BY <1>0, <3>1 DEF ScanInv, LocksKept
    <2>2. InHand(u) /\ pc[u] \in ScanLabels => InHand(u)'
      BY <1>0, <2>1 DEF InHand, Account, Scanned, Acct
    <2>3. OldestKnown(u) => OldestKnown(u)'
      <3>1. loc[u].sigs \subseteq Payments
        BY <1>0 DEF Locals
      <3> QED BY <1>0, <3>1 DEF OldestKnown, Known, Credited, Queued
    <2>4. {"load", "cursor"} \subseteq ScanLabels
      BY DEF ScanLabels
    <2> QED BY <1>0, <2>1, <2>2, <2>3, <2>4 DEF ScanInv, Paid
  <1>2. CreditInv(u)'
    <2>1. \A e \in Entry : EntryInv(e) => EntryInv(e)'
      BY EntryKept
    <2>2. loc[u].todo \subseteq Entry /\ (pc[u] \in EntryLabels => loc[u].entry \in Entry)
      BY <1>0 DEF Locals, LocalInv
    <2>3. \A p : Gone(p) => Gone(p)'
      BY DEF Gone, Growth
    <2>4. creditLock = u => creditLock' = u
      BY DEF LocksKept
    <2>5. detected \subseteq detected'
      BY DEF Growth
    <2> QED BY <1>0, <2>1, <2>2, <2>3, <2>4, <2>5 DEF CreditInv
  <1> QED BY <1>1, <1>2

\* A step of task t: what is left to show is what it arrives with.
LEMMA StepInv ==
    ASSUME TypeInv, Inv, Growth, NEW t \in Tasks, NEW label, NEW l, Lands(t, label, l),
           \A u \in Tasks \ {t} : LocksKept(u),
           scanLocks' \in [Addrs -> Tasks \cup {NoTask}], creditLock' \in Tasks \cup {NoTask},
           ScanInv(t)', CreditInv(t)'
    PROVE  TypeInv' /\ Inv'
  <1>1. TypeInv'
    <2>1. creditedTo' \subseteq Payments \X Users
      <3>1. \A e \in Entry : <<e.p, e.user>> \in Payments \X Users
        BY DEF Entry
      <3> QED BY <3>1 DEF Growth, TypeInv, TypeOK
    <2> QED BY <2>1, TaskType DEF Lands, Growth
  <1>2. \A u \in Tasks \ {t} : pc'[u] = pc[u] /\ loc'[u] = loc[u]
    BY DEF Lands, At, Goto, Set, TypeInv, TypeOK
  <1>3. \A u \in Tasks : ScanInv(u)' /\ CreditInv(u)'
    BY <1>2, TaskKept
  <1>4. GlobalInv'
    BY GlobalKept
  <1> QED BY <1>1, <1>3, <1>4 DEF Inv

\* Quiet steps keep the invariant: what a task has in hand, nobody touches.
LEMMA QuietInv ==
    ASSUME TypeInv, Inv, Quiet
    PROVE  TypeInv' /\ Inv'
  <1>0. mem \in Store /\ StateInv(mem) /\ detected \subseteq Payments /\ credits \in [Payments -> Nat]
    BY DEF TypeInv, TypeOK, Inv, GlobalInv
  <1>1. Growth
    <2>1. \A a \in Accounts : mem.cursor[a] <= mem'.cursor[a]
      BY <1>0 DEF Quiet, Store
    <2> QED BY <1>0, <2>1, GrowsSame DEF Growth, Quiet, backendVars
  <1>2. \A u \in Tasks : LocksKept(u)
    BY DEF LocksKept, Quiet, locks
  <1>3. \A u \in Tasks : ScanInv(u)' /\ CreditInv(u)'
    <2> TAKE u \in Tasks
    <2>1. CASE pc'[u] = pc[u] /\ loc'[u] = loc[u]
      BY <1>1, <1>2, <2>1, TaskKept
    <2>2. CASE pc'[u] \in QuietLabels
      <3>1. /\ pc'[u] \notin ScanLabels /\ pc'[u] \notin CreditLabels /\ pc'[u] # "recover"
            /\ pc'[u] \notin {"load", "cursor"} /\ pc'[u] \notin EntryLabels
            /\ pc'[u] \notin {"remove", "credit", "record"}
        BY <2>2, LabelSets DEF ScanLabels, CreditLabels, EntryLabels
      <3> QED BY <3>1 DEF ScanInv, CreditInv, ScanLabels
    <2> QED BY <2>1, <2>2 DEF Quiet
  <1>4. GlobalInv'
    BY <1>1, GlobalKept
  <1> QED BY <1>3, <1>4, QuietType DEF Inv

----------------------------------------------------------------------------
(* The chain, the users, a crash *)

LEMMA InvInit == Init => Inv
  <1> SUFFICES ASSUME Init PROVE Inv
    OBVIOUS
  <1>1. /\ FirstFile.pending = {} /\ FirstFile.credited = {}
        /\ \A a \in Accounts : FirstFile.cursor[a] = 0
    BY DEF FirstFile
  <1>2. StateInv(FirstFile)
    BY <1>1, Constants DEF Init, StateInv, Tracked
  <1>3. ChainInv /\ FileInv /\ CreditedInv
    BY <1>1 DEF Init, ChainInv, FileInv, CreditedInv, OneBeneficiary
  <1>4. \A t \in Tasks : pc[t] \in {"boot", "idle"}
    BY DEF Init
  <1>5. \A t \in Tasks : ScanInv(t) /\ CreditInv(t)
    BY <1>4 DEF ScanInv, CreditInv, ScanLabels, CreditLabels, EntryLabels
  <1> QED BY <1>2, <1>3, <1>5 DEF Init, Inv, GlobalInv

\* New payments are above every cursor and newer than all that is in hand.
LEMMA NewSlotInv ==
    ASSUME TypeInv, Inv, NewSlot
    PROVE  Inv'
  <1>0. /\ slot \in Nat /\ at \in [Payments -> Nat] /\ mem \in Store /\ disk \in Store
        /\ GlobalInv
    BY DEF TypeInv, TypeOK, Inv
  <1>1. PICK T \in SUBSET Payable :
          /\ \A p, q \in T : Acct(p) = Acct(q) => p = q
          /\ at' = [p \in Payments |-> IF p \in T THEN slot + 1 ELSE at[p]]
    BY DEF NewSlot
  <1>2. /\ slot' = slot + 1
        /\ UNCHANGED <<swept, mem, disk, pc, loc, scanLocks, creditLock, detected, creditedTo>>
    BY DEF NewSlot, locks, backendVars
  <1>3. /\ \A p \in Payments : at[p] \in Nat /\ at'[p] \in Nat /\ at[p] <= slot
        /\ \A p \in T : p \in Payments /\ at[p] = 0 /\ at'[p] = slot + 1
        /\ \A p \in Payments \ T : at'[p] = at[p]
    BY <1>0, <1>1 DEF Payable, GlobalInv, ChainInv
  <1>4. ChainInv'
    <2>1. \A p \in Payments : at'[p] <= slot'
      BY <1>0, <1>2, <1>3
    <2>2. ASSUME NEW p \in Payments, NEW q \in Payments,
                 Acct(p) = Acct(q), at'[p] = at'[q], at'[p] > 0
          PROVE  p = q
      <3>1. CASE p \in T /\ q \in T
        BY <1>1, <2>2, <3>1
      <3>2. CASE p \notin T /\ q \notin T
        BY <1>0, <1>3, <2>2, <3>2 DEF GlobalInv, ChainInv
      <3>3. CASE ~(p \in T <=> q \in T)
        BY <1>0, <1>3, <2>2, <3>3
      <3> QED BY <3>1, <3>2, <3>3
    <2> QED BY <2>1, <2>2 DEF ChainInv, Acct
  <1>5. ASSUME NEW s \in Store, StateInv(s), s.cursor' = s.cursor, s' = s
        PROVE  StateInv(s)'
    <2>1. \A p \in Payments : Paid(p) => Paid(p)'
      BY <1>0, <1>3 DEF Paid
    <2>2. \A a \in Accounts : s.cursor[a] \in Nat /\ s.cursor[a] <= slot /\ s.cursor[a] <= slot'
      BY <1>0, <1>2, <1>5 DEF StateInv, Store
    <2>3. Tracked(s)'
      <3> SUFFICES ASSUME NEW p \in Payments, AmountOf[p] = "full", at'[p] > 0,
                          at'[p] <= s.cursor[Acct(p)]
                   PROVE  Known(s, p)
        BY <1>5 DEF Tracked, Known, Credited, Queued, Acct
      <3>1. p \notin T
        BY <1>0, <1>3, <2>2, Constants
      <3> QED BY <1>3, <1>5, <3>1 DEF StateInv, Tracked
    <2>4. \A e \in s.pending : e.p \in Payments
      BY DEF Store, Entry
    <2> QED BY <1>2, <1>5, <2>1, <2>2, <2>3, <2>4 DEF StateInv, Kept, Gone, Queued
  <1>6. StateInv(mem)' /\ StateInv(disk)'
    BY <1>0, <1>2, <1>5 DEF GlobalInv
  <1>7. ASSUME NEW t \in Tasks PROVE ScanInv(t)' /\ CreditInv(t)'
    <2>0. /\ ScanInv(t) /\ CreditInv(t) /\ loc[t] \in Locals /\ LocalInv(pc[t], loc[t])
          /\ loc[t].sigs \subseteq Payments
      BY DEF Inv, TypeInv, TypeOK, Locals
    <2>1. ASSUME pc[t] \in ScanLabels, InHand(t)
          PROVE  InHand(t)' /\ (OldestKnown(t) => OldestKnown(t)')
      <3>1. Account(loc[t]) \in Accounts
        BY <2>0, <2>1, ScannedType DEF LocalInv
      <3>2. mem.cursor[Account(loc[t])] \in Nat
        BY <1>0, <3>1 DEF Store
      <3>3. \A p \in loc[t].sigs : at'[p] = at[p] /\ at[p] <= slot
        BY <1>3, <2>0, <2>1, <3>2 DEF InHand
      <3>4. \A q \in T : \A p \in loc[t].sigs : at'[p] < at'[q]
        BY <1>0, <1>3, <2>0, <3>3
      <3>5. InHand(t)'
        BY <1>2, <1>3, <2>1, <3>3, <3>4 DEF InHand, Account, Scanned, Acct
      <3> QED BY <1>2, <2>0, <3>3, <3>5 DEF OldestKnown, Known, Credited, Queued
    <2>2. ScanInv(t)'
      <3>1. {"load", "cursor"} \subseteq ScanLabels
        BY DEF ScanLabels
      <3>2. \A p \in loc[t].sigs : Paid(p) => Paid(p)'
        BY <1>0, <1>3, <2>0 DEF Paid
      <3> QED BY <1>2, <2>0, <2>1, <3>1, <3>2 DEF ScanInv
    <2>3. CreditInv(t)'
      <3>1. \A e \in Entry : EntryInv(e) => EntryInv(e)'
        BY <1>0, <1>2, <1>3 DEF EntryInv, Entry, Paid, Held, Stands, Kept, Gone, Queued
      <3>2. loc[t].todo \subseteq Entry /\ (pc[t] \in EntryLabels => loc[t].entry \in Entry)
        BY <2>0 DEF Locals, LocalInv
      <3> QED BY <1>2, <2>0, <3>1, <3>2 DEF CreditInv, Gone
    <2> QED BY <2>2, <2>3
  <1>8. FileInv' /\ CreditedInv'
    BY <1>0, <1>2 DEF GlobalInv, FileInv, CreditedInv, OneBeneficiary, Held, Stands
  <1> QED BY <1>4, <1>6, <1>7, <1>8 DEF Inv, GlobalInv

\* Who holds an address is read when it matters, and not remembered here.
LEMMA AssignInv ==
    ASSUME TypeInv, Inv, Assign \/ CancelAll
    PROVE  Inv'
  <1>1. UNCHANGED <<slot, at, swept, mem, disk, pc, loc, scanLocks, creditLock, detected, creditedTo>>
    BY DEF Assign, CancelAll, chainVars, locks, backendVars
  <1>2. ChainInv' /\ FileInv' /\ CreditedInv'
    BY <1>1 DEF Inv, GlobalInv, ChainInv, FileInv, CreditedInv, OneBeneficiary, Held, Stands, Acct
  <1>3. StateInv(mem)' /\ StateInv(disk)'
    BY <1>1 DEF Inv, GlobalInv, StateInv, Tracked, Paid, Kept, Gone, Known, Credited, Queued, Acct
  <1>4. ASSUME NEW t \in Tasks PROVE ScanInv(t)' /\ CreditInv(t)'
    <2>1. ScanInv(t) /\ CreditInv(t)
      BY DEF Inv
    <2>2. ScanInv(t)'
      BY <1>1, <2>1 DEF ScanInv, InHand, OldestKnown, Account, Scanned, Acct, Known, Credited,
                        Queued, Paid
    <2>3. CreditInv(t)'
      BY <1>1, <2>1 DEF CreditInv, EntryInv, Paid, Held, Stands, Kept, Gone, Queued
    <2> QED BY <2>2, <2>3
  <1> QED BY <1>2, <1>3, <1>4 DEF Inv, GlobalInv

\* What the process forgets was not in the file, and nobody relied on it.
LEMMA CrashInv ==
    ASSUME TypeInv, Inv, Crash
    PROVE  Inv'
  <1>1. /\ UNCHANGED <<slot, at, swept, disk, detected, creditedTo>> /\ mem' = disk
        /\ \A t \in Tasks : pc'[t] \in {"boot", "idle"}
    BY DEF Crash, chainVars, backendVars
  <1>2. ChainInv' /\ CreditedInv'
    BY <1>1 DEF Inv, GlobalInv, ChainInv, CreditedInv, OneBeneficiary, Held, Stands, Acct
  <1>3. FileInv'
    <2>1. \A a \in Accounts : disk.cursor[a] \in Nat
      BY DEF TypeInv, TypeOK, Store
    <2> QED BY <1>1, <2>1 DEF FileInv
  <1>4. StateInv(mem)' /\ StateInv(disk)'
    BY <1>1 DEF Inv, GlobalInv, StateInv, Tracked, Paid, Kept, Gone, Known, Credited, Queued, Acct
  <1>5. \A t \in Tasks : ScanInv(t)' /\ CreditInv(t)'
    BY <1>1 DEF ScanInv, CreditInv, ScanLabels, CreditLabels, EntryLabels
  <1> QED BY <1>2, <1>3, <1>4, <1>5 DEF Inv, GlobalInv

----------------------------------------------------------------------------
(* The scan of an address *)

\* Task t arrives with its part of the invariant, and disturbs no other task.
Advances(t) ==
    /\ Growth
    /\ \A u \in Tasks \ {t} : LocksKept(u)
    /\ scanLocks' \in [Addrs -> Tasks \cup {NoTask}] /\ creditLock' \in Tasks \cup {NoTask}
    /\ ScanInv(t)' /\ CreditInv(t)'
    /\ \E label, l : Lands(t, label, l)

LEMMA AdvancesInv ==
    ASSUME TypeInv, Inv, NEW t \in Tasks, Advances(t)
    PROVE  TypeInv' /\ Inv'
  BY StepInv DEF Advances

LEMMA Landing ==
    ASSUME TypeInv, NEW t \in Tasks, NEW label, NEW l, At(t, label, l)
    PROVE  pc'[t] = label /\ loc'[t] = l
  BY DEF At, Goto, Set, TypeInv, TypeOK

LEMMA LandQuiet ==
    ASSUME TypeInv, NEW t \in Tasks, NEW label \in QuietLabels, NEW l, At(t, label, l)
    PROVE  ScanInv(t)' /\ CreditInv(t)'
  <1>1. pc'[t] \in QuietLabels
    BY Landing
  <1>2. /\ pc'[t] \notin ScanLabels /\ pc'[t] \notin CreditLabels /\ pc'[t] # "recover"
        /\ pc'[t] \notin {"load", "cursor"} /\ pc'[t] \notin EntryLabels
        /\ pc'[t] \notin {"remove", "credit", "record"}
    BY <1>1, LabelSets DEF ScanLabels, CreditLabels, EntryLabels
  <1> QED BY <1>2 DEF ScanInv, CreditInv, ScanLabels

LEMMA LandScan ==
    ASSUME TypeInv, NEW t \in Tasks, NEW label \in ScanLabels \cup {"recover"}, NEW l,
           At(t, label, l)
    PROVE  CreditInv(t)'
  <1>1. pc'[t] \in ScanLabels \cup {"recover"}
    BY Landing
  <1> QED BY <1>1 DEF CreditInv, ScanLabels, CreditLabels, EntryLabels

\* Memory, file and backend as they were, but for the faults.
LEMMA StillGrowth ==
    ASSUME TypeInv, Inv, UNCHANGED <<chainVars, userVars>>, mem' = mem, disk' \in {disk, mem},
           swept \subseteq swept', swept' \subseteq Payments,
           detected \subseteq detected', detected' \subseteq Payments,
           credits' \in [Payments -> Nat], UNCHANGED creditedTo, Counted
    PROVE  Growth
  <1>1. mem \in Store /\ StateInv(mem)
    BY DEF TypeInv, TypeOK, Inv, GlobalInv
  <1>2. \A a \in Accounts : mem.cursor[a] <= mem'.cursor[a]
    BY <1>1 DEF Store
  <1> QED BY <1>1, <1>2, GrowsSame DEF Growth

\* A step with memory and credit lock as they were frees or takes one address.
LEMMA ScanLocksKept ==
    ASSUME TypeInv, NEW t \in Tasks, NEW a \in Addrs, NEW h \in {t, NoTask},
           scanLocks[a] \in {t, NoTask}, scanLocks' = [scanLocks EXCEPT ![a] = h],
           UNCHANGED creditLock,
           \A b \in Accounts : b[1] # a => mem'.cursor[b] = mem.cursor[b]
    PROVE  /\ scanLocks' \in [Addrs -> Tasks \cup {NoTask}]
           /\ creditLock' \in Tasks \cup {NoTask}
           /\ \A u \in Tasks \ {t} : LocksKept(u)
  <1>1. scanLocks \in [Addrs -> Tasks \cup {NoTask}] /\ creditLock \in Tasks \cup {NoTask}
    BY DEF TypeInv, TypeOK
  <1>2. scanLocks' \in [Addrs -> Tasks \cup {NoTask}] /\ creditLock' \in Tasks \cup {NoTask}
    BY <1>1
  <1>3. ASSUME NEW u \in Tasks \ {t}
        PROVE  LocksKept(u)
    <2>1. u # NoTask
      BY TaskAssumption
    <2> QED BY <1>1, <2>1 DEF LocksKept
  <1> QED BY <1>2, <1>3

LEMMA SameLocksKept ==
    ASSUME TypeInv, NEW t \in Tasks, UNCHANGED <<scanLocks, creditLock>>,
           \A b \in Accounts : scanLocks[b[1]] # t => mem'.cursor[b] = mem.cursor[b]
    PROVE  /\ scanLocks' \in [Addrs -> Tasks \cup {NoTask}]
           /\ creditLock' \in Tasks \cup {NoTask}
           /\ \A u \in Tasks \ {t} : LocksKept(u)
  BY DEF TypeInv, TypeOK, LocksKept

\* What a task has of the account it scans.
LEMMA ScanFacts ==
    ASSUME TypeInv, Inv, NEW t \in Tasks, pc[t] \in ScanLabels
    PROVE  /\ loc[t] \in Locals /\ loc[t].assets # {} /\ loc[t].res \in Reservation
           /\ loc[t].res.addr \in Addrs /\ loc[t].res.user \in Users
           /\ Account(loc[t]) \in Accounts /\ Account(loc[t])[1] = loc[t].res.addr
           /\ scanLocks[loc[t].res.addr] = t
           /\ loc[t].sigs \subseteq Payments
           /\ mem \in Store /\ mem.cursor[Account(loc[t])] \in Nat
  <1>1. /\ loc[t] \in Locals /\ loc[t].assets # {} /\ loc[t].res \in Reservation
        /\ scanLocks[loc[t].res.addr] = t /\ mem \in Store
    BY DEF TypeInv, TypeOK, LocalInv, Inv, ScanInv
  <1>2. Account(loc[t]) \in Accounts
    BY <1>1, ScannedType
  <1> QED BY <1>1, <1>2 DEF Reservation, Account, Locals, Store

\* The account is done: what is left to show is the growth.
LEMMA AccountDoneAdvances ==
    ASSUME TypeInv, Inv, NEW t \in Tasks, pc[t] \in ScanLabels, NEW failed \in BOOLEAN,
           AccountDone(t, failed), Growth, UNCHANGED creditLock,
           \A b \in Accounts : b[1] # loc[t].res.addr => mem'.cursor[b] = mem.cursor[b]
    PROVE  Advances(t)
  <1>0. loc[t].res.addr \in Addrs /\ scanLocks[loc[t].res.addr] = t
    BY ScanFacts
  <1>1. PICK label \in {"list", "idle", "scan"}, l \in Locals :
             /\ LocalInv(label, l) /\ At(t, label, l)
             /\ label = "list" => UNCHANGED scanLocks /\ l.res = loc[t].res
             /\ label # "list" =>
                  scanLocks' = [scanLocks EXCEPT ![loc[t].res.addr] = NoTask]
    BY AccountDoneMove
  <1>2. Lands(t, label, l)
    BY <1>1, LabelSets, QuietTargets DEF Lands, ScanLabels
  <1>3. CASE label = "list"
    <2>1. CreditInv(t)'
      BY <1>1, <1>3, LandScan DEF ScanLabels
    <2>2. ScanInv(t)'
      <3>1. pc'[t] = "list" /\ loc'[t].res = loc[t].res
        BY <1>1, <1>3, Landing
      <3> QED BY <1>0, <1>1, <1>3, <3>1 DEF ScanInv
    <2>3. \A b \in Accounts : scanLocks[b[1]] # t => mem'.cursor[b] = mem.cursor[b]
      BY <1>0
    <2> QED BY <1>1, <1>2, <1>3, <2>1, <2>2, <2>3, SameLocksKept DEF Advances
  <1>4. CASE label # "list"
    <2>1. ScanInv(t)' /\ CreditInv(t)'
      BY <1>1, <1>4, LandQuiet, QuietTargets
    <2> QED BY <1>0, <1>1, <1>2, <1>4, <2>1, ScanLocksKept DEF Advances
  <1> QED BY <1>3, <1>4

LEMMA LockAddressAdvances ==
    ASSUME TypeInv, Inv, NEW t \in Tasks, LockAddress(t)
    PROVE  Advances(t)
  <1> DEFINE l == [loc[t] EXCEPT !.assets = Assets]
  <1>0. /\ pc[t] = "lock" /\ loc[t] \in Locals /\ loc[t].res \in Reservation
        /\ loc[t].res.addr \in Addrs
        /\ credits \in [Payments -> Nat] /\ swept \subseteq Payments /\ detected \subseteq Payments
    BY DEF LockAddress, TypeInv, TypeOK, LocalInv, Reservation
  <1>1. l \in Locals /\ l.assets # {} /\ l.res = loc[t].res
    BY <1>0, Constants DEF Locals
  <1>2. LocalInv("list", l)
    BY <1>0, <1>1 DEF LocalInv, ScanLabels, EntryLabels
  <1> HIDE DEF l
  <1>3. At(t, "list", l)
    BY DEF LockAddress, l
  <1>4. Lands(t, "list", l)
    BY <1>1, <1>2, <1>3 DEF Lands, Labels
  <1>5. ScanInv(t)'
    <2>1. pc'[t] = "list" /\ loc'[t] = l
      BY <1>3, Landing
    <2>2. scanLocks'[loc[t].res.addr] = t
      BY <1>0 DEF LockAddress, TypeInv, TypeOK
    <2> QED BY <1>1, <2>1, <2>2 DEF ScanInv
  <1>6. CreditInv(t)'
    BY <1>3, LandScan DEF ScanLabels
  <1>7. Growth
    BY <1>0, StillGrowth DEF LockAddress, backendVars, Counted
  <1> QED BY <1>0, <1>4, <1>5, <1>6, <1>7, ScanLocksKept DEF Advances, LockAddress

LEMMA ListSignaturesAdvances ==
    ASSUME TypeInv, Inv, NEW t \in Tasks, ListSignatures(t)
    PROVE  Advances(t)
  <1> DEFINE new == NewSignatures(Account(loc[t]))
             l == [loc[t] EXCEPT !.sigs = new]
  <1>0. /\ pc[t] = "list" /\ pc[t] \in ScanLabels /\ UNCHANGED <<mem, disk, creditLock>>
        /\ credits \in [Payments -> Nat] /\ swept \subseteq Payments /\ detected \subseteq Payments
    BY DEF ListSignatures, TypeInv, TypeOK, ScanLabels
  <1>1. new \subseteq Payments
    BY DEF NewSignatures
  <1>2. Growth
    <2>1. Counted
      BY Counters DEF ListSignatures, Counted
    <2> QED BY <1>0, <2>1, StillGrowth DEF ListSignatures, backendVars
  <1>3. CASE \E failed \in BOOLEAN : AccountDone(t, failed)
    BY <1>0, <1>2, <1>3, AccountDoneAdvances
  <1>4. CASE new # {} /\ At(t, "load", l) /\ UNCHANGED scanLocks
    <2>1. l \in Locals /\ l.sigs = new /\ l.assets = loc[t].assets /\ l.res = loc[t].res
      BY <1>0, <1>1, ScanFacts DEF Locals
    <2>2. LocalInv("load", l)
      BY <1>0, <1>4, <2>1, ScanFacts DEF LocalInv, EntryLabels
    <2>3. Account(l) = Account(loc[t])
      BY <2>1 DEF Account, Scanned
    <2>n. \A p \in Payments :
            p \in new <=> Acct(p) = Account(loc[t]) /\ at[p] > mem.cursor[Account(loc[t])]
      BY DEF NewSignatures
    <2> HIDE DEF l, new
    <2>4. Lands(t, "load", l)
      BY <1>4, <2>1, <2>2 DEF Lands, Labels
    <2>5. ScanInv(t)'
      <3>1. pc'[t] = "load" /\ loc'[t] = l
        BY <1>4, Landing
      <3>2. at' = at /\ mem' = mem
        BY <1>0 DEF ListSignatures, chainVars
      <3>3. InHand(t)'
        <4>1. Account(loc'[t]) = Account(loc[t])
          BY <2>3, <3>1
        <4>2. loc'[t].sigs = new
          BY <2>1, <3>1
        <4> QED BY <1>1, <2>n, <3>2, <4>1, <4>2 DEF InHand, Acct
      <3> QED BY <1>0, <1>4, <2>1, <3>1, <3>3, ScanFacts DEF ScanInv
    <2>6. CreditInv(t)'
      BY <1>4, LandScan DEF ScanLabels
    <2> QED BY <1>0, <1>2, <1>4, <2>4, <2>5, <2>6, SameLocksKept DEF Advances
  <1> QED BY <1>3, <1>4 DEF ListSignatures

\* The memory after an operation, saved or not.
LEMMA OperationGrowth ==
    ASSUME TypeInv, Inv, UNCHANGED <<chainVars, userVars, swept, backendVars>>,
           mem' \in Store, StateInv(mem'), Grows(mem, mem'),
           \A a \in Accounts : mem.cursor[a] <= mem'.cursor[a],
           \E saved \in BOOLEAN : Save(saved), UNCHANGED errors
    PROVE  Growth
  <1>1. /\ credits \in [Payments -> Nat] /\ swept \subseteq Payments /\ detected \subseteq Payments
    BY DEF TypeInv, TypeOK
  <1>2. Counted /\ disk' \in {disk, mem'}
    BY Counters DEF Counted
  <1> QED BY <1>1, <1>2 DEF Growth, backendVars

LEMMA PushGrowth ==
    ASSUME TypeInv, Inv, NEW p \in Payments, NEW u \in Users, Paid(p),
           UNCHANGED <<chainVars, userVars, swept, backendVars, errors>>,
           mem' = Push(mem, p, u), \E saved \in BOOLEAN : Save(saved)
    PROVE  Growth /\ Known(mem', p) /\ mem'.cursor = mem.cursor
  <1>1. mem \in Store /\ StateInv(mem) /\ at[p] \in Nat
    BY DEF TypeInv, TypeOK, Inv, GlobalInv
  <1>2. mem' \in Store
    BY <1>1, StoreType
  <1>3. StateInv(mem') /\ Grows(mem, mem') /\ Known(mem', p) /\ mem'.cursor = mem.cursor
    BY <1>1, PushKeeps
  <1>4. \A a \in Accounts : mem.cursor[a] <= mem'.cursor[a]
    BY <1>1, <1>3 DEF Store
  <1> QED BY <1>2, <1>3, <1>4, OperationGrowth

\* The oldest signature in hand: nothing of the account lies between the cursor
\* and it, and no other payment of the account is in its slot.
LEMMA OldestInHand ==
    ASSUME TypeInv, Inv, NEW t \in Tasks, pc[t] \in {"load", "cursor"}
    PROVE  LET p == Oldest(loc[t].sigs)
           IN /\ p \in Payments /\ p \in loc[t].sigs
              /\ Acct(p) = Account(loc[t]) /\ at[p] \in Nat /\ at[p] > 0
              /\ at[p] > mem.cursor[Account(loc[t])]
              /\ \A q \in loc[t].sigs : at[p] <= at[q] /\ (at[q] = at[p] => q = p)
              /\ \A q \in Payments :
                   (Acct(q) = Acct(p) /\ at[q] <= at[p] /\ at[q] > mem.cursor[Acct(p)]) => q = p
  <1> DEFINE p == Oldest(loc[t].sigs)
  <1>0. pc[t] \in ScanLabels
    BY DEF ScanLabels
  <1>1. /\ loc[t].sigs \subseteq Payments /\ loc[t].sigs # {} /\ InHand(t) /\ ChainInv
        /\ at \in [Payments -> Nat] /\ mem.cursor[Account(loc[t])] \in Nat
    BY <1>0, ScanFacts DEF Inv, GlobalInv, ScanInv, TypeInv, TypeOK, LocalInv
  <1>2. p \in loc[t].sigs /\ \A q \in loc[t].sigs : at[p] <= at[q]
    BY <1>1, OldestIn DEF TypeInv
  <1> HIDE DEF p
  <1>3. \A q \in loc[t].sigs : Acct(q) = Account(loc[t]) /\ at[q] > 0 /\ at[q] \in Nat
                               /\ at[q] > mem.cursor[Account(loc[t])]
    BY <1>1 DEF InHand
  <1>4. \A q \in loc[t].sigs : at[q] = at[p] => q = p
    BY <1>1, <1>2, <1>3 DEF ChainInv
  <1>5. ASSUME NEW q \in Payments, Acct(q) = Acct(p), at[q] <= at[p],
               at[q] > mem.cursor[Acct(p)]
        PROVE  q = p
    <2>1. q \in loc[t].sigs
      BY <1>1, <1>2, <1>3, <1>5 DEF InHand
    <2> QED BY <1>1, <1>2, <1>3, <1>4, <1>5, <2>1
  <1> QED BY <1>1, <1>2, <1>3, <1>4, <1>5 DEF p

LEMMA LoadTransactionAdvances ==
    ASSUME TypeInv, Inv, NEW t \in Tasks, LoadTransaction(t)
    PROVE  Advances(t)
  <1> DEFINE p == Oldest(loc[t].sigs)
  <1>0. /\ pc[t] = "load" /\ pc[t] \in ScanLabels
        /\ UNCHANGED <<chainVars, userVars, swept, creditLock, backendVars>>
        /\ credits \in [Payments -> Nat] /\ swept \subseteq Payments /\ detected \subseteq Payments
    BY DEF LoadTransaction, TypeInv, TypeOK, ScanLabels
  <1>1. /\ p \in Payments /\ p \in loc[t].sigs /\ at[p] > 0
        /\ \A q \in loc[t].sigs : at[p] <= at[q] /\ (at[q] = at[p] => q = p)
        /\ \A q \in loc[t].sigs : at[q] \in Nat
    BY <1>0, OldestInHand, ScanFacts DEF TypeInv, TypeOK
  <1>s. UNCHANGED <<mem, disk, faults>> /\ (Error(TRUE) \/ UNCHANGED errors) => Growth
    BY <1>0, StillGrowth, Counters DEF backendVars, Counted
  \* The signature is dealt with: the cursor may move.
  <1>c. ASSUME Growth, At(t, "cursor", loc[t]), UNCHANGED scanLocks, mem'.cursor = mem.cursor,
               AmountOf[p] = "full" => Known(mem', p)
        PROVE  Advances(t)
    <2>1. Lands(t, "cursor", loc[t])
      BY <1>0, <1>c, ScanFacts DEF Lands, LocalInv, ScanLabels, EntryLabels, Labels, TypeInv
    <2>2. pc'[t] = "cursor" /\ loc'[t] = loc[t] /\ at' = at
      BY <1>0, <1>c, Landing DEF chainVars
    <2>3. InHand(t)'
      <3>1. InHand(t)
        BY <1>0 DEF Inv, ScanInv
      <3> QED BY <1>c, <2>2, <3>1 DEF InHand, Account, Scanned, Acct
    <2>4. OldestKnown(t)'
      <3>1. ASSUME NEW q \in loc[t].sigs, \A r \in loc[t].sigs : at[q] <= at[r]
            PROVE  q = p
        BY <1>1, <3>1
      <3> HIDE DEF p
      <3> QED BY <1>c, <2>2, <3>1 DEF OldestKnown, Known, Credited, Queued
    <2>5. ScanInv(t)'
      BY <1>0, <1>c, <2>2, <2>3, <2>4, ScanFacts DEF ScanInv
    <2>6. CreditInv(t)'
      BY <1>c, LandScan DEF ScanLabels
    <2> QED BY <1>0, <1>c, <2>1, <2>5, <2>6, SameLocksKept DEF Advances
  <1>2. CASE Error(TRUE) /\ AccountDone(t, TRUE) /\ UNCHANGED <<mem, disk, faults>>
    BY <1>0, <1>2, <1>s, AccountDoneAdvances
  <1>3. CASE Ignored(p, loc[t]) /\ At(t, "cursor", loc[t])
             /\ UNCHANGED <<mem, disk, scanLocks, faults, errors>>
    <2>1. AmountOf[p] # "full"
      BY <1>3 DEF Ignored
    <2> QED BY <1>3, <1>c, <1>s, <2>1
  <1>4. CASE /\ Accepted(p, loc[t])
             /\ mem' = Push(mem, p, loc[t].res.user)
             /\ \E saved \in BOOLEAN :
                  /\ Save(saved)
                  /\ IF saved THEN At(t, "cursor", loc[t]) /\ UNCHANGED scanLocks
                     ELSE AccountDone(t, TRUE)
             /\ UNCHANGED errors
    <2>1. Paid(p)
      BY <1>1, <1>4 DEF Accepted, Paid
    <2> HIDE DEF p
    <2>2. Growth /\ Known(mem', p) /\ mem'.cursor = mem.cursor
      BY <1>0, <1>1, <1>4, <2>1, PushGrowth, ScanFacts
    <2>3. CASE At(t, "cursor", loc[t]) /\ UNCHANGED scanLocks
      BY <1>c, <2>2, <2>3
    <2>4. CASE AccountDone(t, TRUE)
      BY <1>0, <2>2, <2>4, AccountDoneAdvances
    <2> QED BY <1>4, <2>3, <2>4
  <1> QED BY <1>2, <1>3, <1>4 DEF LoadTransaction

LEMMA MoveCursorAdvances ==
    ASSUME TypeInv, Inv, NEW t \in Tasks, MoveCursor(t)
    PROVE  Advances(t)
  <1> DEFINE p == Oldest(loc[t].sigs)
             a == Account(loc[t])
             l == [loc[t] EXCEPT !.sigs = @ \ {p}]
  <1>0. /\ pc[t] = "cursor" /\ pc[t] \in ScanLabels /\ UNCHANGED <<creditLock, errors>>
        /\ UNCHANGED <<chainVars, userVars, swept, backendVars>>
        /\ mem' = SetCursor(mem, p)
        /\ \E saved \in BOOLEAN : Save(saved)
        /\ \/ /\ loc[t].sigs # {p} /\ At(t, "load", l) /\ UNCHANGED scanLocks
           \/ \E failed \in BOOLEAN : AccountDone(t, failed)
    BY DEF MoveCursor, ScanLabels
  <1>1. /\ p \in Payments /\ p \in loc[t].sigs /\ Acct(p) = a /\ at[p] \in Nat
        /\ at[p] > mem.cursor[a]
        /\ \A q \in loc[t].sigs : at[p] <= at[q] /\ (at[q] = at[p] => q = p)
        /\ \A q \in Payments : (Acct(q) = a /\ at[q] <= at[p] /\ at[q] > mem.cursor[a]) => q = p
    BY <1>0, OldestInHand
  <1>2. /\ a \in Accounts /\ a[1] = loc[t].res.addr /\ scanLocks[a[1]] = t
        /\ mem \in Store /\ StateInv(mem) /\ ChainInv /\ OldestKnown(t) /\ InHand(t)
        /\ at \in [Payments -> Nat] /\ at' = at /\ loc[t].sigs \subseteq Payments
    BY <1>0, ScanFacts DEF Inv, GlobalInv, ScanInv, TypeInv, TypeOK, chainVars
  <1>3. AmountOf[p] = "full" => Known(mem, p)
    BY <1>1, <1>2 DEF OldestKnown
  <1>l. /\ l \in Locals /\ l.sigs = loc[t].sigs \ {p} /\ l.res = loc[t].res
        /\ l.assets = loc[t].assets
    BY <1>0, ScanFacts DEF Locals
  <1> HIDE DEF p, l
  <1>4. StateInv(mem') /\ Grows(mem, mem') /\ mem' \in Store
    <2>1. loc[t].res.user \in Users
      BY <1>0, ScanFacts
    <2>2. SetCursor(mem, p) \in Store
      BY <1>1, <1>2, <2>1, StoreType
    <2>3. \A q \in Payments :
            (Acct(q) = Acct(p) /\ at[q] <= at[p] /\ at[q] > mem.cursor[Acct(p)]
               /\ AmountOf[q] = "full") => Known(mem, q)
      BY <1>1, <1>3
    <2> HIDE DEF a
    <2>4. StateInv(SetCursor(mem, p)) /\ Grows(mem, SetCursor(mem, p))
      BY <1>1, <1>2, <2>3, CursorKeeps DEF TypeInv
    <2> QED BY <1>0, <2>2, <2>4
  <1>5. /\ mem'.cursor[a] = at[p]
        /\ \A b \in Accounts : b # a => mem'.cursor[b] = mem.cursor[b]
    BY <1>0, <1>1, <1>2 DEF SetCursor, Store
  <1> HIDE DEF a
  <1>6. Growth
    <2>1. \A b \in Accounts : mem.cursor[b] \in Nat /\ mem'.cursor[b] \in Nat
      BY <1>2, <1>4 DEF Store
    <2>2. \A b \in Accounts : mem.cursor[b] <= mem'.cursor[b]
      BY <1>1, <1>2, <1>5, <2>1
    <2> QED BY <1>0, <1>4, <2>2, OperationGrowth
  <1>7. CASE \E failed \in BOOLEAN : AccountDone(t, failed)
    BY <1>0, <1>2, <1>5, <1>6, <1>7, AccountDoneAdvances
  <1>8. CASE loc[t].sigs # {p} /\ At(t, "load", l) /\ UNCHANGED scanLocks
    <2>1. Lands(t, "load", l)
      <3>1. l.sigs # {}
        BY <1>1, <1>8, <1>l
      <3>2. LocalInv("load", l)
        BY <1>0, <1>l, <3>1, ScanFacts DEF LocalInv, EntryLabels
      <3> QED BY <1>8, <1>l, <3>2 DEF Lands, Labels
    <2>2. pc'[t] = "load" /\ loc'[t] = l
      BY <1>8, Landing
    <2>3. Account(loc'[t]) = a
      <3>1. Account(l) = Account(loc[t])
        BY <1>l DEF Account, Scanned
      <3> QED BY <2>2, <3>1 DEF a
    <2>4. InHand(t)'
      <3>1. \A r \in l.sigs : r \in loc[t].sigs /\ r \in Payments /\ Acct(r) = a
                               /\ at[r] \in Nat /\ at[r] > at[p]
        BY <1>1, <1>2, <1>l DEF InHand, a
      <3>2. ASSUME NEW q \in Payments \ l.sigs, Acct(q) = a, at[q] > at[p]
            PROVE  \A r \in l.sigs : at[r] < at[q]
        <4>1. q \notin loc[t].sigs
          BY <1>1, <1>l, <3>2
        <4>2. at[q] > mem.cursor[a]
          <5>1. at[q] \in Nat /\ mem.cursor[a] \in Nat
            BY <1>2 DEF Store
          <5> QED BY <1>1, <3>2, <5>1
        <4> QED BY <1>2, <3>1, <3>2, <4>1, <4>2 DEF InHand, a
      <3> QED BY <1>2, <1>5, <2>2, <2>3, <3>1, <3>2 DEF InHand, Acct
    <2>5. ScanInv(t)'
      BY <1>2, <1>8, <1>l, <2>2, <2>4 DEF ScanInv
    <2>6. CreditInv(t)'
      BY <1>8, LandScan DEF ScanLabels
    <2>7. \A b \in Accounts : scanLocks[b[1]] # t => mem'.cursor[b] = mem.cursor[b]
      BY <1>2, <1>5
    <2> QED BY <1>0, <1>6, <1>8, <2>1, <2>5, <2>6, <2>7, SameLocksKept DEF Advances
  <1> QED BY <1>0, <1>7, <1>8

----------------------------------------------------------------------------
(* recover_txid *)

LEMMA RecoverAdvances ==
    ASSUME TypeInv, Inv, NEW t \in Tasks, Recover(t) \/ RecoverQueue(t)
    PROVE  Advances(t)
  <1>0. /\ credits \in [Payments -> Nat] /\ swept \subseteq Payments /\ detected \subseteq Payments
        /\ loc[t] \in Locals /\ LocalInv(pc[t], loc[t]) /\ at \in [Payments -> Nat]
        /\ InitLocals \in Locals
    BY InitLocalsType DEF TypeInv, TypeOK
  <1>1. CASE Recover(t)
    <2>1. PICK r \in Reservations, p \in Payments :
            /\ Recovered(p)
            /\ At(t, "recover", [InitLocals EXCEPT !.kind = "recover", !.res = r, !.sigs = {p}])
      BY <1>1 DEF Recover
    <2> DEFINE l == [InitLocals EXCEPT !.kind = "recover", !.res = r, !.sigs = {p}]
    <2>2. r \in Reservation
      BY DEF Reservations
    <2>3. l \in Locals /\ l.sigs = {p} /\ l.res = r
      BY <1>0, <2>2 DEF Locals, Kinds, InitLocals
    <2>4. LocalInv("recover", l)
      BY <2>2, <2>3 DEF LocalInv, EntryLabels, ScanLabels
    <2> HIDE DEF l
    <2>5. At(t, "recover", l)
      BY <2>1 DEF l
    <2>6. Lands(t, "recover", l)
      BY <2>3, <2>4, <2>5 DEF Lands, Labels
    <2>7. ScanInv(t)'
      <3>1. pc'[t] = "recover" /\ loc'[t] = l /\ at' = at
        BY <1>1, <2>5, Landing DEF Recover, chainVars
      <3>2. Paid(p)
        BY <2>1 DEF Recovered, Paid
      <3> QED BY <2>3, <3>1, <3>2 DEF ScanInv, ScanLabels, Paid
    <2>8. CreditInv(t)'
      BY <2>5, LandScan
    <2>9. Growth /\ UNCHANGED <<mem, scanLocks, creditLock>>
      BY <1>0, <1>1, StillGrowth DEF Recover, backendVars, locks, Counted
    <2> QED BY <2>6, <2>7, <2>8, <2>9, SameLocksKept DEF Advances
  <1>2. CASE RecoverQueue(t)
    <2> DEFINE p == Oldest(loc[t].sigs)
    <2>1. /\ loc[t].sigs \subseteq Payments /\ loc[t].sigs # {} /\ loc[t].res \in Reservation
          /\ \A q \in loc[t].sigs : Paid(q)
      BY <1>0, <1>2 DEF RecoverQueue, LocalInv, Locals, Inv, ScanInv
    <2>2. p \in Payments /\ Paid(p) /\ loc[t].res.user \in Users
      BY <2>1, OldestIn DEF TypeInv, Reservation
    <2> HIDE DEF p
    <2>3. /\ mem' = Push(mem, p, loc[t].res.user) /\ \E saved \in BOOLEAN : Save(saved)
          /\ UNCHANGED <<chainVars, userVars, swept, locks, backendVars, errors>>
      BY <1>2 DEF RecoverQueue, p
    <2>4. Growth /\ mem'.cursor = mem.cursor
      BY <2>2, <2>3, PushGrowth
    <2> DEFINE l == [loc[t] EXCEPT !.res = NoEntry, !.sigs = {}]
    <2>5. l \in Locals
      BY <1>0 DEF Locals
    <2>6. \E label \in {"rslot", "idle"}, k \in Locals : At(t, label, k)
      BY <1>0, <1>2, <2>5 DEF RecoverQueue, Idle
    <2>7. ScanInv(t)' /\ CreditInv(t)' /\ \E label, k : Lands(t, label, k)
      BY <2>6, LandQuiet, QuietLocal, QuietTargets, LabelSets DEF Lands
    <2> QED BY <2>3, <2>4, <2>7, SameLocksKept DEF Advances, locks
  <1> QED BY <1>1, <1>2

----------------------------------------------------------------------------
(* process_credits *)

\* What a task has while it works on the queue.
LEMMA CreditFacts ==
    ASSUME TypeInv, Inv, NEW t \in Tasks, pc[t] \in CreditLabels
    PROVE  /\ creditLock = t /\ loc[t] \in Locals /\ loc[t].todo \subseteq Entry
           /\ \A e \in loc[t].todo : EntryInv(e) /\ e.p \in Payments /\ e.user \in Users
           /\ pc[t] \in EntryLabels =>
                /\ loc[t].entry \in Entry /\ EntryInv(loc[t].entry)
                /\ loc[t].entry.p \in detected
                /\ loc[t].entry.p \in Payments /\ loc[t].entry.user \in Users
           /\ mem \in Store /\ StateInv(mem)
           /\ credits \in [Payments -> Nat] /\ swept \subseteq Payments /\ detected \subseteq Payments
  <1>1. \A e \in Entry : e.p \in Payments /\ e.user \in Users
    BY DEF Entry
  <1>2. CreditInv(t) /\ loc[t] \in Locals /\ LocalInv(pc[t], loc[t]) /\ loc[t].todo \subseteq Entry
    BY DEF Inv, TypeInv, TypeOK, Locals
  <1> QED BY <1>1, <1>2 DEF CreditInv, LocalInv, Inv, GlobalInv, TypeInv, TypeOK

\* A task that works on the queue goes on with its copy of the queue, or less,
\* and with an entry whose part of the invariant it has shown.
LEMMA CreditAdvances ==
    ASSUME TypeInv, Inv, Growth, NEW t \in Tasks, pc[t] \in CreditLabels,
           NEW label \in CreditLabels, NEW l \in Locals, At(t, label, l),
           UNCHANGED locks, mem'.cursor = mem.cursor,
           l.todo \subseteq loc[t].todo,
           label \in EntryLabels =>
             l.entry \in Entry /\ EntryInv(l.entry) /\ l.entry.p \in detected',
           label = "remove" => l.entry.p \in mem'.credited,
           label = "remove" \/ (label \in {"credit", "record"} /\ ~l.deferred)
             => TankEmpties \/ l.entry.p \in swept'
    PROVE  Advances(t)
  <1>1. /\ creditLock = t /\ loc[t].todo \subseteq Entry /\ \A e \in loc[t].todo : EntryInv(e)
    BY CreditFacts
  <1>2. pc'[t] = label /\ loc'[t] = l /\ creditLock' = t
    BY <1>1, Landing DEF locks
  <1>3. \A e \in Entry : EntryInv(e) => EntryInv(e)'
    BY EntryKept
  <1>4. \A e \in l.todo : EntryInv(e)'
    BY <1>1, <1>3
  <1>5. CreditInv(t)'
    BY <1>2, <1>3, <1>4 DEF CreditInv, Gone
  <1>6. ScanInv(t)'
    BY <1>2 DEF ScanInv, CreditLabels, EntryLabels, ScanLabels
  <1>7. Lands(t, label, l)
    BY LabelSets DEF Lands, LocalInv, CreditLabels, EntryLabels, ScanLabels
  <1> QED BY <1>5, <1>6, <1>7, SameLocksKept DEF Advances, locks

LEMMA NextEntryAdvances ==
    ASSUME TypeInv, Inv, Growth, NEW t \in Tasks, pc[t] \in CreditLabels, NEW l \in Locals,
           NextEntry(t, l), UNCHANGED locks, mem'.cursor = mem.cursor,
           l.todo \subseteq loc[t].todo
    PROVE  Advances(t)
  <1> DEFINE k == [l EXCEPT !.entry = NoEntry, !.deferred = FALSE]
  <1>1. k \in Locals /\ k.todo = l.todo
    BY DEF Locals
  <1>2. At(t, "next", k)
    BY DEF NextEntry
  <1>3. "next" \in CreditLabels /\ "next" \notin EntryLabels /\ "next" \notin {"credit", "record"}
    BY DEF CreditLabels, EntryLabels
  <1> HIDE DEF k
  <1> QED BY <1>1, <1>2, <1>3, CreditAdvances

LEMMA AfterDetectionAdvances ==
    ASSUME TypeInv, Inv, Growth, NEW t \in Tasks, pc[t] \in CreditLabels, NEW l \in Locals,
           AfterDetection(t, l), UNCHANGED locks, mem'.cursor = mem.cursor,
           l.todo \subseteq loc[t].todo, l.entry \in Entry, EntryInv(l.entry),
           l.entry.p \in detected'
    PROVE  Advances(t)
  <1>1. CASE NextEntry(t, l)
    BY <1>1, NextEntryAdvances
  <1>2. CASE \E label \in {"sweep", "owner"} : At(t, label, l)
    BY <1>2, CreditAdvances DEF CreditLabels, EntryLabels
  <1> QED BY <1>1, <1>2 DEF AfterDetection

\* Frame: webhooks and checks leave memory and file alone.
LEMMA WebhookGrowth ==
    ASSUME TypeInv, Inv, UNCHANGED <<chainVars, userVars, mem, disk, creditedTo>>,
           swept \subseteq swept', swept' \subseteq Payments,
           detected \subseteq detected', detected' \subseteq Payments,
           credits' \in [Payments -> Nat], Counted
    PROVE  Growth /\ mem'.cursor = mem.cursor
  BY StillGrowth

LEMMA OutcomeCounted ==
    ASSUME NEW o \in Outcomes, Outcome(o)
    PROVE  Counted
  BY DEF Outcome, Error, Fault, Counted

LEMMA CreditsLockAdvances ==
    ASSUME TypeInv, Inv, NEW t \in Tasks, CreditsLock(t)
    PROVE  Advances(t)
  <1>0. /\ pc[t] = "credits" /\ creditLock = NoTask /\ loc[t] \in Locals /\ mem' = mem
        /\ UNCHANGED <<chainVars, userVars, swept, scanLocks, backendVars, errors>>
        /\ credits \in [Payments -> Nat] /\ swept \subseteq Payments /\ detected \subseteq Payments
        /\ mem \in Store /\ mem.pending \subseteq Entry /\ InitLocals \in Locals
        /\ scanLocks \in [Addrs -> Tasks \cup {NoTask}] /\ StateInv(mem)
    BY InitLocalsType DEF CreditsLock, TypeInv, TypeOK, Store, Inv, GlobalInv
  <1>1. PICK saved \in BOOLEAN :
          /\ Save(saved)
          /\ IF saved
             THEN creditLock' = t /\ At(t, "next", [loc[t] EXCEPT !.todo = mem.pending])
             ELSE UNCHANGED creditLock /\ AfterCredits(t)
    BY DEF CreditsLock
  <1>2. Growth
    BY <1>0, <1>1, Counters, StillGrowth DEF backendVars, Counted
  <1>3. \A u \in Tasks \ {t} : LocksKept(u)
    BY <1>0, <1>1, TaskAssumption DEF LocksKept
  <1>4. scanLocks' \in [Addrs -> Tasks \cup {NoTask}] /\ creditLock' \in Tasks \cup {NoTask}
    BY <1>0, <1>1
  <1>5. CASE ~saved
    <2>1. \E label \in {"gas", "idle"} : At(t, label, InitLocals)
      BY <1>1, <1>5 DEF AfterCredits, Idle
    <2>2. ScanInv(t)' /\ CreditInv(t)' /\ \E label, k : Lands(t, label, k)
      BY <1>0, <2>1, LandQuiet, QuietLocal, QuietTargets, LabelSets DEF Lands
    <2> QED BY <1>2, <1>3, <1>4, <2>2 DEF Advances
  <1>6. CASE saved
    <2> DEFINE l == [loc[t] EXCEPT !.todo = mem.pending]
    <2>1. l \in Locals /\ l.todo = mem.pending
      BY <1>0 DEF Locals
    <2> HIDE DEF l
    <2>2. At(t, "next", l) /\ creditLock' = t /\ disk' = mem
      BY <1>0, <1>1, <1>6 DEF Save, l
    <2>3. pc'[t] = "next" /\ loc'[t] = l
      BY <2>2, Landing
    <2>4. Lands(t, "next", l)
      BY <2>1, <2>2 DEF Lands, LocalInv, Labels, EntryLabels, ScanLabels
    <2>5. \A e \in mem.pending : EntryInv(e)'
      BY <1>0, <2>2 DEF EntryInv, StateInv, Paid, Held, Stands, Kept, Queued, chainVars, backendVars
    <2>6. ScanInv(t)' /\ CreditInv(t)'
      BY <2>1, <2>2, <2>3, <2>5 DEF ScanInv, CreditInv, ScanLabels, EntryLabels, CreditLabels
    <2> QED BY <1>2, <1>3, <1>4, <2>4, <2>6 DEF Advances
  <1> QED BY <1>5, <1>6

LEMMA CreditsDoneAdvances ==
    ASSUME TypeInv, Inv, NEW t \in Tasks, CreditsDone(t)
    PROVE  Advances(t)
  <1>0. /\ pc[t] = "next" /\ pc[t] \in CreditLabels /\ creditLock' = NoTask /\ InitLocals \in Locals
        /\ UNCHANGED <<chainVars, userVars, swept, mem, disk, scanLocks, backendVars, faults, errors>>
        /\ scanLocks \in [Addrs -> Tasks \cup {NoTask}]
    BY InitLocalsType DEF CreditsDone, CreditLabels, TypeInv, TypeOK
  <1>1. creditLock = t
    BY <1>0, CreditFacts
  <1>2. Growth
    BY <1>0, CreditFacts, WebhookGrowth DEF backendVars, Counted
  <1>3. \A u \in Tasks \ {t} : LocksKept(u)
    BY <1>0, <1>1 DEF LocksKept
  <1>4. \E label \in {"gas", "idle"} : At(t, label, InitLocals)
    BY DEF CreditsDone, AfterCredits, Idle
  <1>5. ScanInv(t)' /\ CreditInv(t)' /\ \E label, k : Lands(t, label, k)
    BY <1>0, <1>4, LandQuiet, QuietLocal, QuietTargets, LabelSets DEF Lands
  <1> QED BY <1>0, <1>2, <1>3, <1>5 DEF Advances

LEMMA DetectionAdvances ==
    ASSUME TypeInv, Inv, NEW t \in Tasks, SendDetected(t) \/ AlreadyDetected(t) \/ FlagDetected(t)
    PROVE  Advances(t)
  <1>0. pc[t] \in CreditLabels /\ (FlagDetected(t) => pc[t] \in EntryLabels)
    BY DEF SendDetected, AlreadyDetected, FlagDetected, CreditLabels, EntryLabels
  <1>1. ASSUME NEW e \in loc[t].todo
        PROVE  LET l == [loc[t] EXCEPT !.todo = @ \ {e}, !.entry = e]
               IN l \in Locals /\ l.todo \subseteq loc[t].todo /\ l.entry = e
    BY <1>0, CreditFacts DEF Locals
  <1>2. CASE SendDetected(t)
    <2>1. PICK e \in loc[t].todo, o \in Outcomes :
            LET l == [loc[t] EXCEPT !.todo = @ \ {e}, !.entry = e]
            IN /\ Outcome(o)
               /\ detected' = IF Reached(o) THEN detected \cup {e.p} ELSE detected
               /\ IF Recorded(o) THEN At(t, "flag", l) ELSE NextEntry(t, l)
      BY <1>2 DEF SendDetected
    <2> DEFINE l == [loc[t] EXCEPT !.todo = @ \ {e}, !.entry = e]
    <2>2. l \in Locals /\ l.todo \subseteq loc[t].todo /\ l.entry = e
      BY <1>1
    <2>3. IF Recorded(o) THEN At(t, "flag", l) ELSE NextEntry(t, l)
      BY <2>1
    <2> HIDE DEF l
    <2>4. /\ UNCHANGED <<chainVars, userVars, mem, disk, locks, creditedTo, swept, credits>>
          /\ detected \subseteq detected' /\ detected' \subseteq Payments /\ Counted
      BY <1>0, <1>2, <2>1, CreditFacts, OutcomeCounted DEF SendDetected
    <2>5. Growth /\ mem'.cursor = mem.cursor
      BY <1>0, <2>4, CreditFacts, WebhookGrowth
    <2>6. CASE ~Recorded(o)
      BY <1>0, <2>2, <2>3, <2>4, <2>5, <2>6, NextEntryAdvances
    <2>7. CASE Recorded(o)
      <3>1. e.p \in detected' /\ e \in Entry /\ EntryInv(e)
        BY <1>0, <2>1, <2>7, CreditFacts DEF Reached, Recorded
      <3>2. "flag" \in CreditLabels
        BY DEF CreditLabels, EntryLabels
      <3> QED BY <1>0, <2>2, <2>3, <2>4, <2>5, <2>7, <3>1, <3>2, CreditAdvances
    <2> QED BY <2>6, <2>7
  <1>3. CASE AlreadyDetected(t)
    <2>1. PICK e \in loc[t].todo :
            /\ e.notified
            /\ AfterDetection(t, [loc[t] EXCEPT !.todo = @ \ {e}, !.entry = e])
      BY <1>3 DEF AlreadyDetected
    <2>2. Growth /\ mem'.cursor = mem.cursor /\ UNCHANGED <<locks, detected>>
      BY <1>0, <1>3, CreditFacts, WebhookGrowth DEF AlreadyDetected, backendVars, Counted
    <2>3. e \in Entry /\ EntryInv(e) /\ e.p \in detected'
      BY <1>0, <2>1, <2>2, CreditFacts DEF EntryInv
    <2> QED BY <1>0, <1>1, <2>1, <2>2, <2>3, AfterDetectionAdvances
  <1>4. CASE FlagDetected(t)
    <2> DEFINE e == loc[t].entry
    <2>1. /\ mem' = Notified(mem, e.p) /\ \E saved \in BOOLEAN : Save(saved)
          /\ UNCHANGED <<chainVars, userVars, swept, locks, backendVars, errors>>
          /\ AfterDetection(t, loc[t]) \/ NextEntry(t, loc[t])
      BY <1>4 DEF FlagDetected
    <2>2. /\ e \in Entry /\ EntryInv(e) /\ e.p \in detected /\ e.p \in Payments /\ e.user \in Users
          /\ mem \in Store /\ StateInv(mem) /\ at[e.p] \in Nat /\ loc[t] \in Locals
      BY <1>0, <1>4, CreditFacts DEF TypeInv, TypeOK
    <2> HIDE DEF e
    <2>3. /\ mem' \in Store /\ StateInv(mem') /\ Grows(mem, mem') /\ mem'.cursor = mem.cursor
      BY <2>1, <2>2, StoreType, NotifiedKeeps
    <2>4. \A a \in Accounts : mem.cursor[a] <= mem'.cursor[a]
      BY <2>2, <2>3 DEF Store
    <2>5. Growth
      BY <2>1, <2>3, <2>4, OperationGrowth
    <2>6. CASE NextEntry(t, loc[t])
      BY <1>0, <2>1, <2>2, <2>3, <2>5, <2>6, NextEntryAdvances
    <2>7. CASE AfterDetection(t, loc[t])
      <3>1. e.p \in detected'
        BY <2>1, <2>2 DEF backendVars
      <3> QED BY <1>0, <2>1, <2>2, <2>3, <2>5, <2>7, <3>1, AfterDetectionAdvances DEF e
    <2> QED BY <2>1, <2>6, <2>7
  <1> QED BY <1>2, <1>3, <1>4

LEMMA CheckOwnerAdvances ==
    ASSUME TypeInv, Inv, NEW t \in Tasks, CheckOwner(t)
    PROVE  Advances(t)
  <1>0. pc[t] \in CreditLabels /\ pc[t] \in EntryLabels /\ "sweep" \in CreditLabels
    BY DEF CheckOwner, CreditLabels, EntryLabels
  <1>1. /\ Growth /\ mem'.cursor = mem.cursor /\ UNCHANGED <<locks, detected>>
    <2>1. Counted
      BY Counters DEF CheckOwner, Counted
    <2> QED BY <1>0, <2>1, CreditFacts, WebhookGrowth DEF CheckOwner, backendVars
  <1>2. CASE NextEntry(t, loc[t])
    BY <1>0, <1>1, <1>2, CreditFacts, NextEntryAdvances
  <1>3. CASE At(t, "sweep", loc[t])
    BY <1>0, <1>1, <1>3, CreditFacts, CreditAdvances
  <1> QED BY <1>2, <1>3 DEF CheckOwner

\* What is not in the wallet any more has been swept before.
LEMMA SweepAdvances ==
    ASSUME TypeInv, Inv, NEW t \in Tasks, SweepNative(t) \/ SweepToken(t)
    PROVE  Advances(t)
  <1> DEFINE e == loc[t].entry
             funds == Funds(Acct(e.p))
             l == [loc[t] EXCEPT !.deferred = TRUE]
  <1>0. pc[t] \in CreditLabels /\ pc[t] \in EntryLabels /\ "credit" \in CreditLabels
    BY DEF SweepNative, SweepToken, CreditLabels, EntryLabels
  <1>1. /\ e \in Entry /\ EntryInv(e) /\ e.p \in detected /\ e.p \in Payments
        /\ loc[t] \in Locals /\ swept \subseteq Payments
    BY <1>0, CreditFacts
  <1>2. funds \subseteq Payments /\ (e.p \in funds \/ e.p \in swept)
    BY <1>1 DEF Funds, EntryInv, Paid
  <1>3. l \in Locals /\ l.todo = loc[t].todo /\ l.entry = e /\ l.deferred = TRUE
    BY <1>1 DEF Locals
  <1>4. UNCHANGED <<chainVars, userVars, mem, disk, locks, backendVars>>
    BY DEF SweepNative, SweepToken
  <1>5. \/ /\ TankEmpties \/ funds = {}
           /\ At(t, "credit", loc[t])
           /\ UNCHANGED <<swept, faults, errors>>
        \/ Transferred(t, funds)
    BY DEF SweepNative, SweepToken, Drained
  <1> HIDE DEF e, funds, l
  <1>6. ASSUME Counted, swept \subseteq swept', swept' \subseteq Payments
        PROVE  Growth /\ mem'.cursor = mem.cursor
    BY <1>0, <1>4, <1>6, CreditFacts, WebhookGrowth DEF backendVars
  <1>7. CASE At(t, "credit", loc[t]) /\ UNCHANGED <<swept, faults, errors>>
             /\ (TankEmpties \/ funds = {})
    <2>1. Growth /\ mem'.cursor = mem.cursor /\ UNCHANGED detected
      BY <1>1, <1>4, <1>6, <1>7 DEF backendVars, Counted
    <2>2. TankEmpties \/ e.p \in swept'
      BY <1>2, <1>7
    <2> QED BY <1>0, <1>1, <1>4, <1>7, <2>1, <2>2, CreditAdvances DEF e
  <1>8. CASE Transferred(t, funds)
    <2>1. Counted
      BY <1>8, Counters DEF Transferred, Counted
    <2>2. swept \subseteq swept' /\ swept' \subseteq Payments
      BY <1>1, <1>2, <1>8 DEF Transferred
    <2>3. Growth /\ mem'.cursor = mem.cursor /\ UNCHANGED detected
      BY <1>4, <1>6, <2>1, <2>2 DEF backendVars
    <2>4. \/ NextEntry(t, loc[t])
          \/ At(t, "credit", l)
          \/ At(t, "credit", loc[t]) /\ e.p \in swept'
      BY <1>2, <1>8 DEF Transferred, l
    <2>5. CASE NextEntry(t, loc[t])
      BY <1>0, <1>1, <1>4, <2>3, <2>5, NextEntryAdvances
    <2>6. CASE At(t, "credit", l)
      BY <1>0, <1>1, <1>3, <1>4, <2>3, <2>6, CreditAdvances
    <2>7. CASE At(t, "credit", loc[t]) /\ e.p \in swept'
      BY <1>0, <1>1, <1>4, <2>3, <2>7, CreditAdvances DEF e
    <2> QED BY <2>4, <2>5, <2>6, <2>7
  <1> QED BY <1>5, <1>7, <1>8

LEMMA SendCreditedAdvances ==
    ASSUME TypeInv, Inv, NEW t \in Tasks, SendCredited(t)
    PROVE  Advances(t)
  <1> DEFINE e == loc[t].entry
  <1>0. pc[t] \in CreditLabels /\ pc[t] \in EntryLabels /\ "record" \in CreditLabels
        /\ pc[t] = "credit"
    BY DEF SendCredited, CreditLabels, EntryLabels
  <1>1. /\ e \in Entry /\ EntryInv(e) /\ e.p \in detected /\ e.p \in Payments
        /\ loc[t] \in Locals /\ swept \subseteq Payments /\ detected \subseteq Payments
        /\ credits \in [Payments -> Nat] /\ mem \in Store /\ StateInv(mem)
    BY <1>0, CreditFacts
  <1>2. PICK o \in Outcomes :
          /\ Outcome(o)
          /\ credits' = IF Reached(o) THEN [credits EXCEPT ![e.p] = @ + 1] ELSE credits
          /\ creditedTo' = IF Reached(o) THEN creditedTo \cup {<<e.p, e.user>>} ELSE creditedTo
          /\ IF Recorded(o) THEN At(t, "record", loc[t]) ELSE NextEntry(t, loc[t])
    BY DEF SendCredited
  <1>3. /\ e.p \notin mem.credited
        /\ UNCHANGED <<chainVars, userVars, swept, mem, disk, locks, detected>>
    BY DEF SendCredited, Credited
  <1>4. ~loc[t].deferred => Gone(e.p)
    BY <1>0 DEF Inv, CreditInv
  <1> HIDE DEF e
  <1>5. Growth
    <2>1. credits' \in [Payments -> Nat]
      BY <1>1, <1>2
    <2>2. \/ UNCHANGED creditedTo
          \/ \E f \in Entry : /\ creditedTo' = creditedTo \cup {<<f.p, f.user>>}
                              /\ Held(f.p, f.user) /\ f.p \notin mem.credited
      BY <1>1, <1>2, <1>3 DEF EntryInv
    <2>3. \A a \in Accounts : mem.cursor[a] <= mem'.cursor[a]
      BY <1>1, <1>3 DEF Store
    <2>4. Counted
      BY <1>2, OutcomeCounted
    <2> QED BY <1>1, <1>3, <2>1, <2>2, <2>3, <2>4, GrowsSame DEF Growth
  <1>6. mem'.cursor = mem.cursor /\ UNCHANGED locks /\ e.p \in detected'
    BY <1>1, <1>3
  <1>7. CASE Recorded(o)
    <2>1. At(t, "record", loc[t]) /\ (~loc[t].deferred => TankEmpties \/ e.p \in swept')
      BY <1>2, <1>3, <1>4, <1>7 DEF Gone
    <2> QED BY <1>0, <1>1, <1>5, <1>6, <2>1, CreditAdvances DEF e
  <1>8. CASE ~Recorded(o)
    BY <1>0, <1>1, <1>2, <1>5, <1>6, <1>8, NextEntryAdvances
  <1> QED BY <1>7, <1>8

LEMMA RecordCreditAdvances ==
    ASSUME TypeInv, Inv, NEW t \in Tasks, RecordCredit(t)
    PROVE  Advances(t)
  <1> DEFINE e == loc[t].entry
  <1>0. pc[t] \in CreditLabels /\ pc[t] \in EntryLabels /\ "remove" \in CreditLabels
        /\ pc[t] = "record"
    BY DEF RecordCredit, CreditLabels, EntryLabels
  <1>1. /\ e \in Entry /\ EntryInv(e) /\ e.p \in detected /\ e.p \in Payments /\ e.user \in Users
        /\ loc[t] \in Locals /\ mem \in Store /\ StateInv(mem) /\ at[e.p] \in Nat
    BY <1>0, CreditFacts DEF TypeInv, TypeOK
  <1>2. /\ mem' = MarkCredited(mem, e.p) /\ \E saved \in BOOLEAN : Save(saved)
        /\ UNCHANGED <<chainVars, userVars, swept, locks, backendVars, errors>>
        /\ \/ ~loc[t].deferred /\ At(t, "remove", loc[t])
           \/ NextEntry(t, loc[t])
    BY DEF RecordCredit
  <1>3. ~loc[t].deferred => Gone(e.p)
    BY <1>0 DEF Inv, CreditInv
  <1> HIDE DEF e
  <1>4. /\ mem' \in Store /\ StateInv(mem') /\ Grows(mem, mem') /\ mem'.cursor = mem.cursor
        /\ e.p \in mem'.credited
    BY <1>1, <1>2, StoreType, CreditedKeeps DEF EntryInv
  <1>5. Growth
    <2>1. \A a \in Accounts : mem.cursor[a] <= mem'.cursor[a]
      BY <1>1, <1>4 DEF Store
    <2> QED BY <1>2, <1>4, <2>1, OperationGrowth
  <1>6. CASE NextEntry(t, loc[t])
    BY <1>0, <1>1, <1>2, <1>4, <1>5, <1>6, NextEntryAdvances
  <1>7. CASE ~loc[t].deferred /\ At(t, "remove", loc[t])
    <2>1. e.p \in detected' /\ (TankEmpties \/ e.p \in swept')
      BY <1>1, <1>2, <1>3, <1>7 DEF Gone, backendVars
    <2> QED BY <1>0, <1>1, <1>2, <1>4, <1>5, <1>7, <2>1, CreditAdvances DEF e
  <1> QED BY <1>2, <1>6, <1>7

LEMMA AlreadyCreditedAdvances ==
    ASSUME TypeInv, Inv, NEW t \in Tasks, AlreadyCredited(t)
    PROVE  Advances(t)
  <1> DEFINE e == loc[t].entry
  <1>0. pc[t] \in CreditLabels /\ pc[t] \in EntryLabels /\ "remove" \in CreditLabels
        /\ pc[t] = "credit"
    BY DEF AlreadyCredited, CreditLabels, EntryLabels
  <1>1. /\ e \in Entry /\ EntryInv(e) /\ e.p \in detected /\ loc[t] \in Locals
    BY <1>0, CreditFacts
  <1>2. /\ e.p \in mem.credited
        /\ UNCHANGED <<chainVars, userVars, swept, mem, disk, locks, backendVars, faults, errors>>
        /\ \/ ~loc[t].deferred /\ At(t, "remove", loc[t])
           \/ NextEntry(t, loc[t])
    BY DEF AlreadyCredited, Credited
  <1>3. ~loc[t].deferred => Gone(e.p)
    BY <1>0 DEF Inv, CreditInv
  <1> HIDE DEF e
  <1>4. Growth /\ mem'.cursor = mem.cursor
    BY <1>0, <1>2, CreditFacts, WebhookGrowth DEF backendVars, Counted
  <1>5. CASE NextEntry(t, loc[t])
    BY <1>0, <1>1, <1>2, <1>4, <1>5, NextEntryAdvances
  <1>6. CASE ~loc[t].deferred /\ At(t, "remove", loc[t])
    <2>1. e.p \in detected' /\ e.p \in mem'.credited /\ (TankEmpties \/ e.p \in swept')
      BY <1>1, <1>2, <1>3, <1>6 DEF Gone, backendVars
    <2> QED BY <1>0, <1>1, <1>2, <1>4, <1>6, <2>1, CreditAdvances DEF e
  <1> QED BY <1>2, <1>5, <1>6

LEMMA RemoveAdvances ==
    ASSUME TypeInv, Inv, NEW t \in Tasks, Remove(t)
    PROVE  Advances(t)
  <1> DEFINE e == loc[t].entry
  <1>0. pc[t] \in CreditLabels /\ pc[t] \in EntryLabels /\ pc[t] = "remove"
    BY DEF Remove, CreditLabels, EntryLabels
  <1>1. /\ e.p \in Payments /\ e.user \in Users /\ loc[t] \in Locals
        /\ mem \in Store /\ StateInv(mem) /\ at[e.p] \in Nat
        /\ e.p \in mem.credited /\ Gone(e.p)
    BY <1>0, CreditFacts DEF TypeInv, TypeOK, Inv, CreditInv
  <1>2. /\ mem' = Drop(mem, e.p) /\ \E saved \in BOOLEAN : Save(saved)
        /\ UNCHANGED <<chainVars, userVars, swept, locks, backendVars, errors>>
        /\ NextEntry(t, loc[t])
    BY DEF Remove
  <1> HIDE DEF e
  <1>3. mem' \in Store /\ StateInv(mem') /\ Grows(mem, mem') /\ mem'.cursor = mem.cursor
    BY <1>1, <1>2, StoreType, DropKeeps
  <1>4. \A a \in Accounts : mem.cursor[a] <= mem'.cursor[a]
    BY <1>1, <1>3 DEF Store
  <1>5. Growth
    BY <1>2, <1>3, <1>4, OperationGrowth
  <1> QED BY <1>0, <1>1, <1>2, <1>3, <1>5, NextEntryAdvances

----------------------------------------------------------------------------
(* The theorems *)

LEMMA TaskStep ==
    ASSUME TypeInv, Inv, [Next]_vars
    PROVE  \/ Quiet
           \/ \E t \in Tasks : Advances(t)
           \/ NewSlot \/ Assign \/ CancelAll \/ Crash
           \/ UNCHANGED vars
  <1>0. Poller \in Tasks /\ Workers \subseteq Tasks /\ Confirmers \subseteq Tasks
        /\ Callers \subseteq Tasks /\ Scanners \subseteq Tasks /\ Creditors \subseteq Tasks
    BY DEF Tasks, Scanners, Creditors
  <1>1. ASSUME NEW t \in Tasks, ScanStep(t) PROVE Advances(t)
    BY <1>1, LockAddressAdvances, ListSignaturesAdvances, LoadTransactionAdvances,
       MoveCursorAdvances DEF ScanStep
  <1>2. ASSUME NEW t \in Tasks, CreditStep(t) PROVE Advances(t)
    BY <1>2, CreditsLockAdvances, CreditsDoneAdvances, DetectionAdvances, CheckOwnerAdvances,
       SweepAdvances, SendCreditedAdvances, RecordCreditAdvances, AlreadyCreditedAdvances,
       RemoveAdvances DEF CreditStep
  <1>3. ASSUME NEW t \in Tasks, Request(t) \/ RequestStep(t) PROVE Quiet \/ Advances(t)
    BY <1>3, CycleQuiet, RequestQuiet, ScanStartQuiet, RecoverAdvances DEF Request, RequestStep
  <1>4. CASE BootStep \/ CycleStep \/ (\E t \in Workers : StartScan(t))
             \/ (\E t \in Confirmers : ConfirmPending(t))
    BY <1>0, <1>4, BootQuiet, CycleQuiet, ScanStartQuiet, RequestQuiet DEF CycleStep
  <1> QED BY <1>0, <1>1, <1>2, <1>3, <1>4 DEF Next

LEMMA InvStep == TypeInv /\ Inv /\ [Next]_vars => TypeInv' /\ Inv'
  <1> SUFFICES ASSUME TypeInv, Inv, [Next]_vars PROVE TypeInv' /\ Inv'
    OBVIOUS
  <1>1. CASE UNCHANGED vars
    <2>1. TypeInv'
      BY <1>1 DEF vars, chainVars, userVars, locks, backendVars, TypeInv, TypeOK
    <2>2. Inv'
      <3>1. UNCHANGED <<slot, at, swept, mem, disk, pc, loc, scanLocks, creditLock, detected,
                        creditedTo>>
        BY <1>1 DEF vars, chainVars, userVars, locks, backendVars
      <3>2. ASSUME NEW t \in Tasks PROVE ScanInv(t)' /\ CreditInv(t)'
        <4>0. ScanInv(t) /\ CreditInv(t)
          BY DEF Inv
        <4>1. ScanInv(t)'
          BY <3>1, <4>0 DEF ScanInv, InHand, OldestKnown, Account, Scanned, Acct, Known, Credited,
                      Queued, Paid
        <4>2. CreditInv(t)'
          BY <3>1, <4>0 DEF CreditInv, EntryInv, Paid, Held, Stands, Kept, Gone, Queued
        <4> QED BY <4>1, <4>2
      <3>3. ChainInv' /\ FileInv' /\ CreditedInv'
        BY <3>1 DEF Inv, GlobalInv, ChainInv, FileInv, CreditedInv, OneBeneficiary, Held, Stands,
                    Acct
      <3>4. StateInv(mem)' /\ StateInv(disk)'
        BY <3>1 DEF Inv, GlobalInv, StateInv, Tracked, Paid, Kept, Gone, Known, Credited, Queued,
                    Acct
      <3> QED BY <3>2, <3>3, <3>4 DEF Inv, GlobalInv
    <2> QED BY <2>1, <2>2
  <1>2. CASE NewSlot \/ Assign \/ CancelAll \/ Crash
    BY <1>2, EnvironmentType, NewSlotInv, AssignInv, CrashInv
  <1>3. CASE Quiet
    BY <1>3, QuietInv
  <1>4. ASSUME NEW t \in Tasks, Advances(t) PROVE TypeInv' /\ Inv'
    BY <1>4, AdvancesInv
  <1> QED BY <1>1, <1>2, <1>3, <1>4, TaskStep

\* The strengthened invariant: what memory, file and every task hold of scans
\* and credits, wherever the tasks are.
THEOREM Invariance == Spec => [](TypeInv /\ Inv)
  BY TypeInit, InvInit, InvStep, PTL DEF Spec

\* The detector's memory, file and task locals keep their types.
THEOREM TypeCorrect == Spec => []TypeOK
  <1>1. TypeInv => TypeOK
    BY DEF TypeInv
  <1> QED BY <1>1, Invariance, PTL

\* README "A missing transaction stops that cursor for retry": no cursor, in
\* memory or in the file, passes a deposit that is neither queued nor credited.
THEOREM NothingSkipped == Spec => []NoDepositSkipped
  <1>1. Inv => NoDepositSkipped
    BY DEF Inv, GlobalInv, StateInv, NoDepositSkipped
  <1> QED BY <1>1, Invariance, PTL

\* README "Failed or deferred sweeps remain queued": a credited payment is swept
\* or still queued, as long as the gas tank can pay the fees.
THEOREM NothingForgotten == ~TankEmpties => (Spec => []SweptOrQueued)
  <1>1. ~TankEmpties /\ Inv => SweptOrQueued
    BY DEF Inv, GlobalInv, StateInv, Kept, Gone, Retried, SweptOrQueued
  <1>2. ASSUME ~TankEmpties PROVE Inv => SweptOrQueued
    BY <1>1, <1>2
  <1>3. ASSUME ~TankEmpties PROVE Spec => []SweptOrQueued
    <2>1. Inv => SweptOrQueued
      BY <1>2, <1>3
    <2> QED BY <2>1, Invariance, PTL
  <1> QED BY <1>3

\* solana.rs, process_credit_entry: nobody else is ever credited with a payment,
\* whatever the assignments become and whatever is sent again.
THEOREM OneUser == Spec => []OneBeneficiary
  <1>1. Inv => OneBeneficiary
    BY DEF Inv, GlobalInv, CreditedInv
  <1> QED BY <1>1, Invariance, PTL

\* update_last_processed_signature: concurrent scans, requests and restarts never
\* move a saved cursor back.
THEOREM CursorsOnlyAdvance == Spec => CursorsKept
  <1> DEFINE Onward == \A a \in Accounts : disk'.cursor[a] >= disk.cursor[a]
  <1>1. TypeInv /\ Inv /\ [Next]_vars => [Onward]_vars
    <2> SUFFICES ASSUME TypeInv, Inv, [Next]_vars PROVE Onward \/ UNCHANGED vars
      OBVIOUS
    <2>0. /\ FileInv
          /\ \A a \in Accounts : disk.cursor[a] \in Nat /\ mem.cursor[a] \in Nat
      BY DEF Inv, GlobalInv, TypeInv, TypeOK, Store
    <2>1. CASE NewSlot \/ Assign \/ CancelAll \/ Crash
      <3>1. disk' = disk
        BY <2>1 DEF NewSlot, Assign, CancelAll, Crash
      <3> QED BY <2>0, <3>1
    <2>2. CASE Quiet
      BY <2>0, <2>2 DEF Quiet, FileInv
    <2>3. ASSUME NEW t \in Tasks, Advances(t) PROVE Onward
      <3>1. mem' \in Store /\ disk' \in {disk, mem'}
            /\ \A a \in Accounts : mem.cursor[a] <= mem'.cursor[a]
        BY <2>3 DEF Advances, Growth
      <3>2. \A a \in Accounts : mem'.cursor[a] \in Nat
        BY <3>1 DEF Store
      <3> QED BY <2>0, <3>1, <3>2 DEF FileInv
    <2> QED BY <2>1, <2>2, <2>3, TaskStep
  <1> QED BY <1>1, Invariance, PTL DEF Spec, CursorsKept

----------------------------------------------------------------------------
(* The detector implements PaymentOutbox *)

Implements == [Outbox!Next]_(Outbox!vars)

\* A step that neither sends a webhook nor touches what is credited.
Plain ==
    /\ mem'.credited = mem.credited
    /\ faults' \in {faults, faults + 1}
    /\ UNCHANGED backendVars

LEMMA SealedStill ==
    ASSUME mem'.credited = mem.credited,
           \A u \in Creditors : pc'[u] = "record" <=> pc[u] = "record",
           \A u \in Creditors : pc[u] = "record" => loc'[u] = loc[u]
    PROVE  Sealed' = Sealed
  <1>1. {u \in Creditors : pc'[u] = "record"} = {u \in Creditors : pc[u] = "record"}
    OBVIOUS
  <1> QED BY <1>1 DEF Sealed

LEMMA UnseenImplements ==
    ASSUME Sealed' = Sealed, Plain
    PROVE  Implements
  <1>1. CASE faults' = faults + 1
    BY <1>1 DEF Plain, backendVars, Implements, Outbox!Next, Outbox!Fault
  <1>2. CASE faults' = faults
    BY <1>2 DEF Plain, backendVars, Implements, Outbox!vars
  <1> QED BY <1>1, <1>2 DEF Plain

LEMMA OthersStay ==
    ASSUME TypeInv, NEW t \in Tasks, NEW label, NEW l, At(t, label, l)
    PROVE  /\ pc'[t] = label /\ loc'[t] = l
           /\ \A u \in Tasks : u # t => pc'[u] = pc[u] /\ loc'[u] = loc[u]
           /\ Creditors \subseteq Tasks
  BY DEF At, Goto, Set, TypeInv, TypeOK, Creditors, Tasks

LEMMA SealedKept ==
    ASSUME TypeInv, NEW t \in Tasks, NEW label, NEW l, At(t, label, l),
           pc[t] # "record", label # "record", mem'.credited = mem.credited
    PROVE  Sealed' = Sealed
  BY OthersStay, SealedStill

LEMMA PlainImplements ==
    ASSUME TypeInv, NEW t \in Tasks, NEW label, NEW l, At(t, label, l),
           pc[t] # "record", label # "record", Plain
    PROVE  Implements
  BY SealedKept, UnseenImplements DEF Plain

LEMMA QuietImplements ==
    ASSUME TypeInv, Quiet
    PROVE  Implements
  <1>1. "record" \notin QuietLabels /\ Creditors \subseteq Tasks
    BY DEF QuietLabels, CreditLabels, EntryLabels, Creditors, Tasks
  <1>2. Sealed' = Sealed
    BY <1>1, SealedStill DEF Quiet
  <1>3. Plain
    BY DEF Quiet, Plain, Counted
  <1> QED BY <1>2, <1>3, UnseenImplements

LEMMA SaveFaults ==
    ASSUME \E saved \in BOOLEAN : Save(saved)
    PROVE  faults' \in {faults, faults + 1}
  BY Counters

LEMMA ScanImplements ==
    ASSUME TypeInv, Inv, NEW t \in Tasks, ScanStep(t)
    PROVE  Implements
  <1>0. pc[t] # "record" /\ UNCHANGED backendVars
    BY DEF ScanStep, LockAddress, ListSignatures, LoadTransaction, MoveCursor
  <1>1. CASE LockAddress(t)
    <2>1. Plain
      BY <1>0, <1>1 DEF LockAddress, Plain
    <2> QED BY <1>0, <1>1, <2>1, PlainImplements DEF LockAddress
  <1>2. CASE ListSignatures(t) \/ LoadTransaction(t) \/ MoveCursor(t)
    <2>0. /\ pc[t] \in ScanLabels /\ loc[t].res.user \in Users /\ mem \in Store
      BY <1>2, ScanFacts DEF ListSignatures, LoadTransaction, MoveCursor, ScanLabels
    <2>1. \E label, l : At(t, label, l) /\ label # "record"
      <3>1. CASE \E failed \in BOOLEAN : AccountDone(t, failed)
        BY <2>0, <3>1, AccountDoneMove
      <3>2. CASE ~ \E failed \in BOOLEAN : AccountDone(t, failed)
        <4>1. /\ ListSignatures(t) =>
                   At(t, "load", [loc[t] EXCEPT !.sigs = NewSignatures(Account(loc[t]))])
              /\ LoadTransaction(t) => At(t, "cursor", loc[t])
              /\ MoveCursor(t) =>
                   At(t, "load", [loc[t] EXCEPT !.sigs = @ \ {Oldest(loc[t].sigs)}])
          BY <3>2 DEF ListSignatures, LoadTransaction, MoveCursor
        <4> QED BY <1>2, <4>1
      <3> QED BY <3>1, <3>2
    <2>2. mem'.credited = mem.credited
      <3>1. CASE ListSignatures(t)
        BY <3>1 DEF ListSignatures
      <3>2. CASE LoadTransaction(t)
        <4>1. Oldest(loc[t].sigs) \in Payments
          BY <3>2, OldestInHand DEF LoadTransaction
        <4>2. mem' = mem \/ mem' = Push(mem, Oldest(loc[t].sigs), loc[t].res.user)
          BY <3>2 DEF LoadTransaction
        <4> QED BY <2>0, <4>2 DEF Push, Store
      <3>3. CASE MoveCursor(t)
        <4>1. Oldest(loc[t].sigs) \in Payments
          BY <3>3, OldestInHand DEF MoveCursor
        <4> QED BY <2>0, <3>3, <4>1, StoreEffect DEF MoveCursor
      <3> QED BY <1>2, <3>1, <3>2, <3>3
    <2>3. Plain
      BY <1>0, <1>2, <2>2, SaveFaults DEF Plain, ListSignatures, LoadTransaction, MoveCursor
    <2> QED BY <1>0, <2>1, <2>3, PlainImplements
  <1> QED BY <1>1, <1>2 DEF ScanStep

LEMMA RecoverImplements ==
    ASSUME TypeInv, Inv, NEW t \in Tasks, Recover(t) \/ RecoverQueue(t)
    PROVE  Implements
  <1>1. CASE Recover(t)
    <2>1. Plain /\ pc[t] # "record" /\ \E l : At(t, "recover", l)
      BY <1>1 DEF Recover, Plain
    <2> QED BY <2>1, PlainImplements
  <1>2. CASE RecoverQueue(t)
    <2>1. /\ loc[t].sigs \subseteq Payments /\ loc[t].sigs # {} /\ loc[t].res \in Reservation
          /\ mem \in Store
      BY <1>2 DEF RecoverQueue, LocalInv, Locals, TypeInv, TypeOK
    <2>2. Oldest(loc[t].sigs) \in Payments /\ loc[t].res.user \in Users
      BY <2>1, OldestIn DEF TypeInv, Reservation
    <2>3. Plain
      BY <1>2, <2>1, <2>2, StoreEffect, SaveFaults DEF RecoverQueue, Plain
    <2>4. pc[t] # "record" /\ \E label, l : At(t, label, l) /\ label # "record"
      BY <1>2 DEF RecoverQueue, Idle
    <2> QED BY <2>3, <2>4, PlainImplements
  <1> QED BY <1>1, <1>2

\* Task t arrives where no credit is under way.
Elsewhere(t) == \E label, l : At(t, label, l) /\ label # "record"

LEMMA NextEntryAt ==
    ASSUME NEW t, NEW l
    PROVE  /\ NextEntry(t, l) => Elsewhere(t)
           /\ AfterDetection(t, l) => Elsewhere(t)
  <1>1. NextEntry(t, l) => Elsewhere(t)
    BY DEF NextEntry, Elsewhere
  <1>2. At(t, "sweep", l) \/ At(t, "owner", l) => Elsewhere(t)
    BY DEF Elsewhere
  <1>3. AfterDetection(t, l) => NextEntry(t, l) \/ At(t, "sweep", l) \/ At(t, "owner", l)
    BY DEF AfterDetection
  <1> QED BY <1>1, <1>2, <1>3

LEMMA ElsewhereImplements ==
    ASSUME TypeInv, NEW t \in Tasks, pc[t] # "record", Elsewhere(t), Plain
    PROVE  Implements
  BY PlainImplements DEF Elsewhere

LEMMA QueueImplements ==
    ASSUME TypeInv, Inv, NEW t \in Tasks,
           CreditsLock(t) \/ CreditsDone(t) \/ AlreadyDetected(t) \/ FlagDetected(t)
             \/ CheckOwner(t) \/ SweepNative(t) \/ SweepToken(t) \/ AlreadyCredited(t) \/ Remove(t)
    PROVE  Implements
  <1>0. pc[t] # "record" /\ UNCHANGED backendVars
    BY DEF CreditsLock, CreditsDone, AlreadyDetected, FlagDetected, CheckOwner, SweepNative,
           SweepToken, AlreadyCredited, Remove
  <1>1. CASE CreditsLock(t) \/ CreditsDone(t)
    <2>1. Plain
      BY <1>0, <1>1, SaveFaults DEF CreditsLock, CreditsDone, Plain
    <2>2. \E label, l : At(t, label, l) /\ label # "record"
      BY <1>1 DEF CreditsLock, CreditsDone, AfterCredits, Idle
    <2> QED BY <1>0, <2>1, <2>2, PlainImplements
  <1>2. CASE AlreadyDetected(t) \/ CheckOwner(t) \/ AlreadyCredited(t)
    <2>1. Plain
      BY <1>0, <1>2 DEF AlreadyDetected, CheckOwner, AlreadyCredited, Plain
    <2>2. CASE AlreadyDetected(t)
      BY <1>0, <2>1, <2>2, NextEntryAt, ElsewhereImplements DEF AlreadyDetected
    <2>3. CASE CheckOwner(t) \/ AlreadyCredited(t)
      <3>1. NextEntry(t, loc[t]) \/ At(t, "sweep", loc[t]) \/ At(t, "remove", loc[t])
        BY <2>3 DEF CheckOwner, AlreadyCredited
      <3>2. Elsewhere(t)
        BY <3>1, NextEntryAt DEF Elsewhere
      <3> QED BY <1>0, <2>1, <3>2, ElsewhereImplements
    <2> QED BY <1>2, <2>2, <2>3
  <1>3. CASE FlagDetected(t) \/ Remove(t)
    <2>1. /\ pc[t] \in CreditLabels /\ pc[t] \in EntryLabels
      BY <1>3 DEF FlagDetected, Remove, CreditLabels, EntryLabels
    <2>2. loc[t].entry.p \in Payments /\ loc[t].entry.user \in Users /\ mem \in Store
      BY <2>1, CreditFacts
    <2>3. mem' = Notified(mem, loc[t].entry.p) \/ mem' = Drop(mem, loc[t].entry.p)
      BY <1>3 DEF FlagDetected, Remove
    <2>4. mem'.credited = mem.credited
      BY <2>2, <2>3 DEF Notified, Drop, Store
    <2>5. Plain
      BY <1>0, <1>3, <2>4, SaveFaults DEF FlagDetected, Remove, Plain
    <2>6. Elsewhere(t)
      BY <1>3, NextEntryAt DEF FlagDetected, Remove
    <2> QED BY <1>0, <2>5, <2>6, ElsewhereImplements
  <1>4. CASE SweepNative(t) \/ SweepToken(t)
    <2>1. Plain
      <3>1. faults' \in {faults, faults + 1}
        BY <1>4, Counters DEF SweepNative, SweepToken, Transferred
      <3> QED BY <1>0, <1>4, <3>1 DEF SweepNative, SweepToken, Plain
    <2>2. \/ NextEntry(t, loc[t]) \/ At(t, "credit", loc[t])
          \/ At(t, "credit", [loc[t] EXCEPT !.deferred = TRUE])
      BY <1>4 DEF SweepNative, SweepToken, Transferred
    <2>3. Elsewhere(t)
      BY <2>2, NextEntryAt DEF Elsewhere
    <2> QED BY <1>0, <2>1, <2>3, ElsewhereImplements
  <1> QED BY <1>1, <1>2, <1>3, <1>4

\* The deliveries and the record of a credit.
LEMMA DeliveryImplements ==
    ASSUME TypeInv, Inv, NEW t \in Creditors, SendDetected(t) \/ SendCredited(t) \/ RecordCredit(t)
    PROVE  Implements
  <1>t. t \in Tasks
    BY DEF Creditors, Tasks
  <1>o. ASSUME NEW o \in Outcomes, Outcome(o)
        PROVE  faults' = IF o = "lost" THEN faults + 1 ELSE faults
    BY <1>o DEF Outcome, Fault
  <1>1. CASE SendDetected(t)
    <2>1. PICK e \in loc[t].todo, o \in Outcomes :
            /\ Outcome(o)
            /\ detected' = IF Reached(o) THEN detected \cup {e.p} ELSE detected
            /\ LET l == [loc[t] EXCEPT !.todo = @ \ {e}, !.entry = e]
               IN IF Recorded(o) THEN At(t, "flag", l) ELSE NextEntry(t, l)
      BY <1>1 DEF SendDetected
    <2>a. Elsewhere(t)
      <3>1. \A l : At(t, "flag", l) => Elsewhere(t)
        BY DEF Elsewhere
      <3> QED BY <2>1, <3>1, NextEntryAt
    <2>2. /\ pc[t] = "next" /\ UNCHANGED <<mem, credits>> /\ e.p \in Payments
      <3>1. pc[t] = "next" /\ pc[t] \in CreditLabels /\ UNCHANGED <<mem, credits>>
        BY <1>1 DEF SendDetected, CreditLabels
      <3> QED BY <1>t, <2>1, <3>1, CreditFacts
    <2>3. Sealed' = Sealed
      BY <1>t, <2>2, <2>a, SealedKept DEF Elsewhere
    <2>4. CASE Reached(o)
      <3>1. Outbox!Announce(e.p)
        BY <1>o, <2>1, <2>2, <2>3, <2>4 DEF Outbox!Announce
      <3> QED BY <2>2, <3>1 DEF Implements, Outbox!Next
    <2>5. CASE ~Reached(o)
      <3>1. o = "refused"
        BY <2>5 DEF Reached
      <3> QED BY <1>o, <2>1, <2>2, <2>3, <2>5, <3>1 DEF Implements, Outbox!vars
    <2> QED BY <2>4, <2>5
  <1> DEFINE p == loc[t].entry.p
  <1>2. CASE SendCredited(t)
    <2>1. PICK o \in Outcomes :
            /\ Outcome(o)
            /\ credits' = IF Reached(o) THEN [credits EXCEPT ![p] = @ + 1] ELSE credits
            /\ IF Recorded(o) THEN At(t, "record", loc[t]) ELSE NextEntry(t, loc[t])
      BY <1>2 DEF SendCredited
    <2>2. /\ pc[t] = "credit" /\ UNCHANGED <<mem, detected>> /\ ~Credited(mem, p)
      BY <1>2 DEF SendCredited
    <2>3. p \in Payments /\ p \in detected /\ creditLock = t
      <3>1. pc[t] \in CreditLabels /\ pc[t] \in EntryLabels
        BY <2>2 DEF CreditLabels, EntryLabels
      <3> QED BY <1>t, <3>1, CreditFacts
    <2>4. p \notin Sealed
      <3>1. \A u \in Creditors : pc[u] # "record"
        <4>1. \A u \in Creditors : u \in Tasks /\ CreditInv(u)
          BY DEF Inv, Creditors, Tasks
        <4> QED BY <2>2, <2>3, <4>1 DEF CreditInv, CreditLabels, EntryLabels
      <3> QED BY <2>2, <3>1 DEF Sealed, Credited
    <2>5. CASE o # "delivered"
      <3>1. Sealed' = Sealed
        <4>1. Elsewhere(t)
          BY <2>1, <2>5, NextEntryAt DEF Recorded
        <4> QED BY <1>t, <2>2, <4>1, SealedKept DEF Elsewhere
      <3>2. CASE o = "refused"
        BY <1>o, <2>1, <2>2, <3>1, <3>2 DEF Reached, Implements, Outbox!vars
      <3>3. CASE o = "lost"
        <4>1. Outbox!CreditUnknown(p)
          BY <1>o, <2>1, <2>2, <2>3, <2>4, <3>1, <3>3 DEF Reached, Outbox!CreditUnknown
        <4> QED BY <2>3, <4>1 DEF Implements, Outbox!Next
      <3> QED BY <2>5, <3>2, <3>3 DEF Outcomes
    <2>6. CASE o = "delivered"
      <3>1. At(t, "record", loc[t])
        BY <2>1, <2>6 DEF Recorded
      <3>2. Sealed' = Sealed \cup {p}
        <4>1. {u \in Creditors : pc'[u] = "record"} = {u \in Creditors : pc[u] = "record"} \cup {t}
          BY <1>t, <3>1, OthersStay
        <4>2. \A u \in Creditors : loc'[u] = loc[u]
          BY <1>t, <3>1, OthersStay
        <4> QED BY <2>2, <4>1, <4>2 DEF Sealed
      <3>3. Outbox!Credit(p)
        BY <1>o, <2>1, <2>2, <2>3, <2>4, <2>6, <3>2 DEF Reached, Outbox!Credit
      <3> QED BY <2>3, <3>3 DEF Implements, Outbox!Next
    <2> QED BY <2>5, <2>6
  <1>3. CASE RecordCredit(t)
    <2>e. Elsewhere(t)
      <3>1. NextEntry(t, loc[t]) \/ At(t, "remove", loc[t])
        BY <1>3 DEF RecordCredit
      <3> QED BY <3>1, NextEntryAt DEF Elsewhere
    <2>1. PICK label, l : At(t, label, l) /\ label # "record"
      BY <2>e DEF Elsewhere
    <2>2. /\ pc[t] = "record" /\ mem' = MarkCredited(mem, p) /\ UNCHANGED <<detected, credits>>
      BY <1>3 DEF RecordCredit, backendVars
    <2>3. mem'.credited = mem.credited \cup {p}
      <3>1. pc[t] \in CreditLabels /\ pc[t] \in EntryLabels
        BY <2>2 DEF CreditLabels, EntryLabels
      <3>2. p \in Payments /\ loc[t].entry.user \in Users /\ mem \in Store
        BY <1>t, <3>1, CreditFacts
      <3> QED BY <2>2, <3>2, StoreEffect
    <2>4. faults' \in {faults, faults + 1}
      BY <1>3, SaveFaults DEF RecordCredit
    <2>5. Sealed' = Sealed
      <3>1. {u \in Creditors : pc[u] = "record"} = {u \in Creditors : pc'[u] = "record"} \cup {t}
        BY <1>t, <2>1, <2>2, OthersStay
      <3>2. \A u \in Creditors : pc'[u] = "record" => loc'[u] = loc[u]
        BY <1>t, <2>1, OthersStay
      <3> QED BY <2>3, <3>1, <3>2 DEF Sealed
    <2>6. CASE faults' = faults + 1
      BY <2>2, <2>5, <2>6 DEF Implements, Outbox!Next, Outbox!Fault
    <2>7. CASE faults' = faults
      BY <2>2, <2>5, <2>7 DEF Implements, Outbox!vars
    <2> QED BY <2>4, <2>6, <2>7
  <1> QED BY <1>1, <1>2, <1>3

\* What the world does is a stutter; a crash forgets the credits it had not saved.
LEMMA EnvironmentImplements ==
    ASSUME TypeInv, Inv, NewSlot \/ Assign \/ CancelAll \/ Crash
    PROVE  Implements
  <1>1. CASE NewSlot \/ Assign \/ CancelAll
    <2>1. UNCHANGED <<mem, pc, loc, detected, credits, faults>>
      BY <1>1 DEF NewSlot, Assign, CancelAll, backendVars
    <2>2. Sealed' = Sealed
      BY <2>1 DEF Sealed
    <2> QED BY <2>1, <2>2 DEF Implements, Outbox!vars
  <1>2. CASE Crash
    <2>1. /\ faults' = faults + 1 /\ mem' = disk /\ UNCHANGED <<detected, credits>>
          /\ \A u \in Creditors : pc'[u] # "record"
      BY <1>2 DEF Crash, Fault, backendVars, Creditors, Tasks
    <2>2. disk.credited \subseteq mem.credited
      BY DEF Inv, GlobalInv, FileInv
    <2>3. Sealed' \subseteq Sealed
      BY <2>1, <2>2 DEF Sealed
    <2> QED BY <2>1, <2>3 DEF Implements, Outbox!Next, Outbox!Fault
  <1> QED BY <1>1, <1>2

LEMMA ImplementsInit == Init => Outbox!Init
  <1> SUFFICES ASSUME Init PROVE Outbox!Init
    OBVIOUS
  <1>1. Sealed = {}
    BY DEF Init, FirstFile, Sealed, Creditors, Tasks
  <1> QED BY <1>1 DEF Init, Outbox!Init

LEMMA ImplementsStep == TypeInv /\ Inv /\ [Next]_vars => [Outbox!Next]_(Outbox!vars)
  <1> SUFFICES ASSUME TypeInv, Inv, [Next]_vars PROVE Implements
    BY DEF Implements
  <1>0. /\ Poller \in Tasks /\ Workers \subseteq Tasks /\ Confirmers \subseteq Tasks
        /\ Callers \subseteq Tasks /\ Scanners \subseteq Tasks /\ Creditors \subseteq Tasks
    BY DEF Tasks, Scanners, Creditors
  <1>1. ASSUME NEW t \in Scanners, ScanStep(t) PROVE Implements
    BY <1>0, <1>1, ScanImplements
  <1>2. ASSUME NEW t \in Creditors, CreditStep(t) PROVE Implements
    BY <1>0, <1>2, QueueImplements, DeliveryImplements DEF CreditStep
  <1>3. ASSUME NEW t \in Callers, Request(t) \/ RequestStep(t) PROVE Implements
    BY <1>0, <1>3, CycleQuiet, RequestQuiet, ScanStartQuiet, RecoverImplements, QuietImplements
       DEF Request, RequestStep
  <1>4. CASE BootStep \/ CycleStep \/ (\E t \in Workers : StartScan(t))
             \/ (\E t \in Confirmers : ConfirmPending(t))
    BY <1>0, <1>4, BootQuiet, CycleQuiet, ScanStartQuiet, RequestQuiet, QuietImplements
       DEF CycleStep
  <1>5. CASE NewSlot \/ Assign \/ CancelAll \/ Crash
    BY <1>5, EnvironmentImplements
  <1>6. CASE UNCHANGED vars
    <2>1. UNCHANGED <<mem, pc, loc, detected, credits, faults>>
      BY <1>6 DEF vars, backendVars
    <2>2. Sealed' = Sealed
      BY <2>1 DEF Sealed
    <2> QED BY <2>1, <2>2 DEF Implements, Outbox!vars
  <1> QED BY <1>1, <1>2, <1>3, <1>4, <1>5, <1>6 DEF Next

\* The Solana outbox keeps the promise of PaymentOutbox, however its scans,
\* requests and retries interleave and whatever save, delivery or process fails:
\* payment_detected first, and no second credit without a fault.
THEOREM SolanaImplementsOutbox == Spec => OutboxSpec
  BY Invariance, ImplementsInit, ImplementsStep, PTL DEF Spec, OutboxSpec, Outbox!Spec

----------------------------------------------------------------------------
(* What the promise comes to.  Of the detector only the mapping of the      *)
(* abstract variables is used: the steps are those of PaymentOutbox.        *)

Promise == Outbox!TypeOK /\ Outbox!OncePerFault

LEMMA PromiseInit == Outbox!Init => Promise
  BY DEF Outbox!Init, Promise, Outbox!TypeOK, Outbox!OncePerFault

\* A credit of id: nothing is known of the others that was not known before.
LEMMA PromiseCredit ==
    ASSUME Promise, NEW id \in Payments, Outbox!Credit(id) \/ Outbox!CreditUnknown(id)
    PROVE  Promise'
  <1>0. /\ credits \in [Payments -> Nat] /\ faults \in Nat /\ id \in detected /\ id \notin Sealed
        /\ credits' = [credits EXCEPT ![id] = @ + 1] /\ detected' = detected
    BY DEF Promise, Outbox!TypeOK, Outbox!Credit, Outbox!CreditUnknown
  <1>1. Outbox!TypeOK'
    BY DEF Promise, Outbox!TypeOK, Outbox!Credit, Outbox!CreditUnknown
  <1>2. ASSUME NEW x \in Payments
        PROVE  /\ credits'[x] <= faults' + (IF x \in Sealed' THEN 1 ELSE 0)
               /\ credits'[x] > 0 => x \in detected'
    <2>0. /\ credits[x] \in Nat
          /\ credits[x] <= faults + (IF x \in Sealed THEN 1 ELSE 0)
          /\ credits[x] > 0 => x \in detected
      BY <1>0 DEF Promise, Outbox!OncePerFault
    <2>1. CASE x = id
      <3>1. credits'[x] = credits[x] + 1 /\ credits[x] <= faults
        BY <1>0, <2>0, <2>1
      <3>2. CASE Outbox!Credit(id)
        BY <1>0, <2>0, <2>1, <3>1, <3>2 DEF Outbox!Credit
      <3>3. CASE Outbox!CreditUnknown(id)
        BY <1>0, <2>0, <2>1, <3>1, <3>3 DEF Outbox!CreditUnknown
      <3> QED BY <3>2, <3>3
    <2>2. CASE x # id
      <3>1. credits'[x] = credits[x] /\ (x \in Sealed' <=> x \in Sealed)
        BY <1>0, <2>2 DEF Outbox!Credit, Outbox!CreditUnknown
      <3>2. faults' \in Nat /\ faults' >= faults
        BY <1>0 DEF Outbox!Credit, Outbox!CreditUnknown
      <3> QED BY <1>0, <2>0, <3>1, <3>2
    <2> QED BY <2>1, <2>2
  <1> QED BY <1>1, <1>2 DEF Promise, Outbox!OncePerFault

\* A fault unseals at most what it pays for.
LEMMA PromiseFault ==
    ASSUME Promise, Outbox!Fault
    PROVE  Promise'
  <1>1. Outbox!TypeOK'
    BY DEF Promise, Outbox!TypeOK, Outbox!Fault
  <1>2. ASSUME NEW x \in Payments
        PROVE  /\ credits'[x] <= faults' + (IF x \in Sealed' THEN 1 ELSE 0)
               /\ credits'[x] > 0 => x \in detected'
    <2>1. /\ credits[x] \in Nat /\ faults \in Nat /\ credits[x] <= faults + 1
          /\ credits[x] > 0 => x \in detected
      BY DEF Promise, Outbox!TypeOK, Outbox!OncePerFault
    <2> QED BY <2>1 DEF Outbox!Fault
  <1> QED BY <1>1, <1>2 DEF Promise, Outbox!OncePerFault

LEMMA PromiseAnnounce ==
    ASSUME Promise, NEW id \in Payments, Outbox!Announce(id)
    PROVE  Promise'
  <1>1. faults' \in Nat /\ faults' >= faults /\ detected \subseteq detected'
    BY DEF Promise, Outbox!TypeOK, Outbox!Announce
  <1>2. Outbox!TypeOK'
    BY <1>1 DEF Promise, Outbox!TypeOK, Outbox!Announce
  <1>3. ASSUME NEW x \in Payments
        PROVE  /\ credits'[x] <= faults' + (IF x \in Sealed' THEN 1 ELSE 0)
               /\ credits'[x] > 0 => x \in detected'
    <2>1. /\ credits[x] \in Nat /\ faults \in Nat
          /\ credits[x] <= faults + (IF x \in Sealed THEN 1 ELSE 0)
          /\ credits[x] > 0 => x \in detected
      BY DEF Promise, Outbox!TypeOK, Outbox!OncePerFault
    <2> QED BY <1>1, <2>1 DEF Outbox!Announce
  <1> QED BY <1>2, <1>3 DEF Promise, Outbox!OncePerFault

LEMMA PromiseStep == Promise /\ [Outbox!Next]_(Outbox!vars) => Promise'
  <1> SUFFICES ASSUME Promise, [Outbox!Next]_(Outbox!vars) PROVE Promise'
    OBVIOUS
  <1>1. CASE UNCHANGED Outbox!vars
    BY <1>1 DEF Outbox!vars, Promise, Outbox!TypeOK, Outbox!OncePerFault
  <1> QED BY <1>1, PromiseCredit, PromiseFault, PromiseAnnounce DEF Outbox!Next

\* An outbox that keeps the promise announces before it credits, and sends a
\* credit again only for a fault, whatever it does in between.
THEOREM PromiseKept == Outbox!Spec => [](Outbox!TypeOK /\ Outbox!OncePerFault)
  BY PromiseInit, PromiseStep, PTL DEF Outbox!Spec, Promise

\* The backend receives a Solana credit once, and once more at most for each
\* crash, failed save or lost reply, and never before payment_detected.
THEOREM CreditedOnce == Spec => []CreditedOncePerFault
  <1>1. Outbox!TypeOK /\ Outbox!OncePerFault => CreditedOncePerFault
    <2> SUFFICES ASSUME Outbox!TypeOK, Outbox!OncePerFault, NEW p \in Payments
                 PROVE  credits[p] <= 1 + faults /\ (credits[p] > 0 => p \in detected)
      BY DEF CreditedOncePerFault
    <2>1. /\ credits[p] \in Nat /\ faults \in Nat
          /\ credits[p] > 0 => p \in detected
          /\ credits[p] <= faults + (IF p \in Sealed THEN 1 ELSE 0)
      BY DEF Outbox!TypeOK, Outbox!OncePerFault
    <2> QED BY <2>1
  <1> QED BY <1>1, SolanaImplementsOutbox, PromiseKept, PTL DEF OutboxSpec

----------------------------------------------------------------------------
(* Nobody is credited for the next holder of his address. *)

\* Where errors and cancellations are what NotToEarlierHolder allows.
Calm == errors = 0 /\ cancels <= 1

\* User u is known as the holder of address a: he is until the cancellation, and
\* afterwards is entitled to what was paid there unless somebody else holds it.
Suits(a, u) ==
    /\ cancels = 0 => owner[a] = u
    /\ \A p \in Payments : (AddrOf[p] = a /\ at[p] > 0) =>
         u \in entitled[p] \/ (cancels > 0 /\ owner[a] \in Users \ {u})
EntrySuits(e) == Suits(AddrOf[e.p], e.user)
LocalsSuit(l) ==
    /\ \A r \in l.scans : Suits(r.addr, r.user)
    /\ l.res \in Reservation => Suits(l.res.addr, l.res.user)
    /\ \A e \in l.todo : EntrySuits(e)
    /\ l.entry \in Entry => EntrySuits(l.entry)

\* After the owner check nothing can make the credit wrong.
PlaceSuits(label, l) ==
    /\ label \in {"sweep", "credit"} =>
         Credited(mem, l.entry.p) \/ l.entry.user \in entitled[l.entry.p]
    /\ label = "recover" => \A p \in l.sigs : AddrOf[p] = l.res.addr

Owners ==
    /\ \A p \in Payments :
         (at[p] > 0 /\ owner[AddrOf[p]] \in Users) => owner[AddrOf[p]] \in entitled[p]
    /\ \A e \in mem.pending : EntrySuits(e)
    /\ \A e \in disk.pending : EntrySuits(e)
    /\ \A t \in Tasks : LocalsSuit(loc[t]) /\ PlaceSuits(pc[t], loc[t])
    /\ \A c \in creditedTo : at[c[1]] > 0 /\ c[2] \in entitled[c[1]]
OwnerInv == Calm => Owners

LEMMA NoEntryNoReservation == NoEntry \notin Reservation
  BY PaymentAssumption DEF NoEntry, Reservation

LEMMA EntryTyped ==
    ASSUME NEW e \in Entry
    PROVE  e.p \in Payments /\ e.user \in Users /\ AddrOf[e.p] \in Addrs
  BY Constants DEF Entry

LEMMA ReservationTyped ==
    ASSUME NEW r \in Reservation
    PROVE  r.addr \in Addrs /\ r.user \in Users
  BY DEF Reservation

\* An error is not calm.
LEMMA CalmErrors ==
    ASSUME TypeInv, Calm, Calm'
    PROVE  ~Error(TRUE) /\ \A b \in BOOLEAN : Error(b) => b = FALSE
  BY DEF Error, Calm, TypeInv, TypeOK

\* A reservation that is read is of the holder.
LEMMA ReadSuits ==
    ASSUME Owners, NEW r \in Reservations
    PROVE  Suits(r.addr, r.user)
  <1>1. r \in Reservation /\ owner[r.addr] = r.user /\ r.user \in Users
    BY DEF Reservations, Reservation
  <1> QED BY <1>1 DEF Owners, Suits

----------------------------------------------------------------------------
(* Steps of a task *)

\* The locals k take what they have from l.
Kin(l, k) ==
    /\ k.scans \subseteq l.scans
    /\ k.res = l.res \/ k.res \in l.scans \/ k.res \notin Reservation
    /\ k.todo \subseteq l.todo
    /\ k.entry = l.entry \/ k.entry \in l.todo \/ k.entry \notin Entry

LEMMA KinSuits ==
    ASSUME NEW l, NEW k, LocalsSuit(l), Kin(l, k)
    PROVE  LocalsSuit(k)
  BY DEF LocalsSuit, Kin

LEMMA KinInit == \A l : Kin(l, InitLocals)
  BY NoEntryNoReservation, Constants DEF Kin, InitLocals

LEMMA KinSame == \A l : Kin(l, l)
  BY DEF Kin

\* What a step of task t owes the invariant.
Lawful(t) ==
    /\ UNCHANGED <<chainVars, userVars>>
    /\ mem.credited \subseteq mem'.credited
    /\ disk' \in {disk, mem'}
    /\ \A e \in mem'.pending : EntrySuits(e)
    /\ \A c \in creditedTo' : at[c[1]] > 0 /\ c[2] \in entitled[c[1]]
    /\ \E label, l : At(t, label, l) /\ LocalsSuit(l) /\ PlaceSuits(label, l)

LEMMA SuitsRigid ==
    ASSUME UNCHANGED <<chainVars, userVars>>
    PROVE  /\ \A a, u : Suits(a, u)' <=> Suits(a, u)
           /\ \A e : EntrySuits(e)' <=> EntrySuits(e)
           /\ \A l : LocalsSuit(l)' <=> LocalsSuit(l)
  <1>1. at' = at /\ owner' = owner /\ entitled' = entitled /\ cancels' = cancels
    BY DEF chainVars, userVars
  <1>2. \A a, u : Suits(a, u)' <=> Suits(a, u)
    BY <1>1 DEF Suits
  <1>3. \A e : EntrySuits(e)' <=> EntrySuits(e)
    BY <1>2 DEF EntrySuits
  <1>4. \A l : LocalsSuit(l)' <=> LocalsSuit(l)
    BY <1>2, <1>3 DEF LocalsSuit
  <1> QED BY <1>2, <1>3, <1>4

\* What else a step of tasks owes: the part of each of them.
LEMMA OwnersKept ==
    ASSUME Owners, UNCHANGED <<chainVars, userVars>>,
           mem.credited \subseteq mem'.credited, disk' \in {disk, mem'},
           \A e \in mem'.pending : EntrySuits(e),
           \A c \in creditedTo' : at[c[1]] > 0 /\ c[2] \in entitled[c[1]],
           \A u \in Tasks : \/ loc'[u] = loc[u] /\ pc'[u] = pc[u]
                            \/ LocalsSuit(loc'[u]) /\ PlaceSuits(pc'[u], loc'[u])
    PROVE  Owners'
  <1>1. at' = at /\ owner' = owner /\ entitled' = entitled /\ cancels' = cancels
    BY DEF chainVars, userVars
  <1>2. \A e \in disk'.pending : EntrySuits(e)
    BY DEF Owners
  <1>3. ASSUME NEW u \in Tasks PROVE (LocalsSuit(loc[u]) /\ PlaceSuits(pc[u], loc[u]))'
    <2>1. LocalsSuit(loc'[u]) /\ PlaceSuits(pc'[u], loc'[u])
      BY DEF Owners
    <2>2. PlaceSuits(pc[u], loc[u])'
      BY <1>1, <2>1 DEF PlaceSuits, Credited
    <2> QED BY <2>1, <2>2, SuitsRigid
  <1>4. (\A e \in mem.pending : EntrySuits(e))' /\ (\A e \in disk.pending : EntrySuits(e))'
    BY <1>2, SuitsRigid
  <1>5. (\A c \in creditedTo : at[c[1]] > 0 /\ c[2] \in entitled[c[1]])'
    BY <1>1
  <1>6. (\A p \in Payments :
           (at[p] > 0 /\ owner[AddrOf[p]] \in Users) => owner[AddrOf[p]] \in entitled[p])'
    BY <1>1 DEF Owners
  <1> QED BY <1>3, <1>4, <1>5, <1>6 DEF Owners

LEMMA LawfulOwners ==
    ASSUME TypeInv, Owners, NEW t \in Tasks, Lawful(t)
    PROVE  Owners'
  <1>1. PICK label, l : At(t, label, l) /\ LocalsSuit(l) /\ PlaceSuits(label, l)
    BY DEF Lawful
  <1>2. /\ pc'[t] = label /\ loc'[t] = l
        /\ \A u \in Tasks \ {t} : loc'[u] = loc[u] /\ pc'[u] = pc[u]
    BY <1>1 DEF At, Goto, Set, TypeInv, TypeOK
  <1> QED BY <1>1, <1>2, OwnersKept DEF Lawful

\* A task goes on with what it has, or part of it.
LEMMA LawfulMove ==
    ASSUME TypeInv, Owners, NEW t \in Tasks, NEW label, NEW l,
           UNCHANGED <<chainVars, userVars, creditedTo>>,
           mem.credited \subseteq mem'.credited, disk' \in {disk, mem'},
           \A e \in mem'.pending : EntrySuits(e),
           At(t, label, l), LocalsSuit(l), PlaceSuits(label, l)
    PROVE  Lawful(t)
  BY DEF Lawful, Owners

LEMMA StillMove ==
    ASSUME TypeInv, Owners, NEW t \in Tasks, NEW label, NEW l,
           UNCHANGED <<chainVars, userVars, creditedTo, mem>>, disk' \in {disk, mem},
           At(t, label, l), LocalsSuit(l),
           label \notin {"sweep", "credit", "recover"}
    PROVE  Lawful(t)
  BY LawfulMove DEF PlaceSuits, Owners

LEMMA IdleMove ==
    ASSUME TypeInv, Owners, NEW t \in Tasks, NEW label \in {"idle", "gas"},
           UNCHANGED <<chainVars, userVars, creditedTo, mem>>, disk' \in {disk, mem},
           At(t, label, InitLocals)
    PROVE  Lawful(t)
  <1>1. LocalsSuit(InitLocals)
    BY KinInit, KinSuits DEF Owners
  <1> QED BY <1>1, StillMove

\* The steps of the loop and of the requests that touch no payment.
LEMMA BootLawful ==
    ASSUME TypeInv, Owners, Calm, Calm', BootStep \/ CycleStep
    PROVE  Lawful(Poller)
  <1> DEFINE L == loc[Poller]
  <1>0. Poller \in Tasks /\ L \in Locals /\ LocalsSuit(L)
    BY DEF Tasks, TypeInv, TypeOK, Owners
  <1>e. ~Error(TRUE) /\ \A b \in BOOLEAN : Error(b) => b = FALSE
    BY CalmErrors
  <1>f. UNCHANGED <<chainVars, userVars, creditedTo, mem>> /\ disk' \in {disk, mem}
    BY DEF BootStep, CycleStep, BootRead, BootSweep, BootDone, ReadReservations, ReadSlot,
           ScansDone, Maintain, Save, backendVars
  <1>1. CASE BootRead
    <2> DEFINE l == [InitLocals EXCEPT !.orphans = {a \in Accounts : owner[a[1]] = NoUser}]
    <2>1. At(Poller, "orphans", l)
      BY <1>1, <1>e DEF BootRead
    <2>2. Kin(InitLocals, l)
      BY DEF Kin, InitLocals
    <2> HIDE DEF l
    <2> QED BY <1>0, <1>f, <2>1, <2>2, KinInit, KinSuits, StillMove
  <1>2. CASE BootSweep
    <2>1. PICK a \in L.orphans : At(Poller, "orphans", [L EXCEPT !.orphans = @ \ {a}])
      BY <1>2 DEF BootSweep
    <2>2. Kin(L, [L EXCEPT !.orphans = @ \ {a}])
      BY <1>0 DEF Kin, Locals
    <2> QED BY <1>0, <1>f, <2>1, <2>2, KinSuits, StillMove
  <1>3. CASE BootDone \/ Maintain
    BY <1>0, <1>3, <1>f, IdleMove DEF BootDone, Maintain, Idle
  <1>4. CASE ReadReservations
    <2> DEFINE l == [InitLocals EXCEPT !.kind = "cycle", !.scans = Reservations]
    <2>1. At(Poller, "slot", l)
      BY <1>4, <1>e DEF ReadReservations
    <2>2. l.scans = Reservations /\ l.res = NoEntry /\ l.todo = {} /\ l.entry = NoEntry
      BY DEF InitLocals
    <2> HIDE DEF l
    <2>3. LocalsSuit(l)
      BY <2>2, ReadSuits, NoEntryNoReservation, Constants DEF LocalsSuit
    <2> QED BY <1>0, <1>f, <2>1, <2>3, StillMove
  <1>5. CASE ReadSlot(Poller)
    <2>1. PICK price \in BOOLEAN : At(Poller, "scan", [L EXCEPT !.slot = slot, !.price = price])
      BY <1>5, <1>e DEF ReadSlot
    <2>2. Kin(L, [L EXCEPT !.slot = slot, !.price = price])
      BY <1>0 DEF Kin, Locals
    <2> QED BY <1>0, <1>f, <2>1, <2>2, KinSuits, StillMove
  <1>6. CASE ScansDone
    <2>1. PICK error \in BOOLEAN :
            At(Poller, "credits", AfterScans([L EXCEPT !.slot = IF error THEN @ ELSE slot]))
      BY <1>6 DEF ScansDone
    <2>2. Kin(L, AfterScans([L EXCEPT !.slot = IF error THEN @ ELSE slot]))
      BY <1>0 DEF Kin, Locals, AfterScans
    <2> QED BY <1>0, <1>f, <2>1, <2>2, KinSuits, StillMove
  <1> QED BY <1>1, <1>2, <1>3, <1>4, <1>5, <1>6 DEF BootStep, CycleStep

LEMMA RequestLawful ==
    ASSUME TypeInv, Owners, Calm, Calm', NEW t \in Tasks,
           Claim(t) \/ PushSeen(t) \/ ConfirmPending(t) \/ ReadSlot(t) \/ RecoverSlot(t)
    PROVE  Lawful(t)
  <1> DEFINE L == loc[t]
  <1>0. L \in Locals /\ LocalsSuit(L)
    BY DEF TypeInv, TypeOK, Owners
  <1>e. ~Error(TRUE) /\ \A b \in BOOLEAN : Error(b) => b = FALSE
    BY CalmErrors
  <1>f. UNCHANGED <<chainVars, userVars, creditedTo, mem>> /\ disk' \in {disk, mem}
    BY DEF Claim, PushSeen, ConfirmPending, ReadSlot, RecoverSlot, backendVars
  <1>r. ASSUME NEW R \in SUBSET Reservations, NEW k \in Kinds
        PROVE  LocalsSuit([InitLocals EXCEPT !.kind = k, !.scans = R])
    <2> DEFINE l == [InitLocals EXCEPT !.kind = k, !.scans = R]
    <2>1. l.scans = R /\ l.res = NoEntry /\ l.todo = {} /\ l.entry = NoEntry
      BY DEF InitLocals
    <2> HIDE DEF l
    <2>2. LocalsSuit(l)
      BY <2>1, ReadSuits, NoEntryNoReservation, Constants DEF LocalsSuit
    <2> QED BY <2>2 DEF l
  <1>1. CASE Claim(t)
    <2>1. PICK r \in Reservations : At(t, "slot", [InitLocals EXCEPT !.kind = "claim", !.scans = {r}])
      BY <1>1 DEF Claim
    <2>2. LocalsSuit([InitLocals EXCEPT !.kind = "claim", !.scans = {r}])
      BY <1>r DEF Kinds
    <2> QED BY <1>f, <2>1, <2>2, StillMove
  <1>2. CASE PushSeen(t)
    <2>1. PICK R \in SUBSET Reservations :
            At(t, "slot", [InitLocals EXCEPT !.kind = "push", !.scans = R])
      BY <1>2 DEF PushSeen
    <2>2. LocalsSuit([InitLocals EXCEPT !.kind = "push", !.scans = R])
      BY <1>r DEF Kinds
    <2> QED BY <1>f, <2>1, <2>2, StillMove
  <1>3. CASE ConfirmPending(t)
    <2> DEFINE l == [InitLocals EXCEPT !.kind = "confirm", !.slot = slot]
    <2>1. At(t, "credits", l)
      BY <1>3, <1>e DEF ConfirmPending
    <2>2. Kin(InitLocals, l)
      BY DEF Kin, InitLocals
    <2> HIDE DEF l
    <2> QED BY <1>0, <1>f, <2>1, <2>2, KinInit, KinSuits, StillMove
  <1>4. CASE ReadSlot(t)
    <2>1. PICK price \in BOOLEAN : At(t, "scan", [L EXCEPT !.slot = slot, !.price = price])
      BY <1>4, <1>e DEF ReadSlot
    <2>2. Kin(L, [L EXCEPT !.slot = slot, !.price = price])
      BY <1>0 DEF Kin, Locals
    <2> QED BY <1>0, <1>f, <2>1, <2>2, KinSuits, StillMove
  <1>5. CASE RecoverSlot(t)
    <2>1. At(t, "credits", [L EXCEPT !.slot = slot])
      BY <1>5, <1>e DEF RecoverSlot
    <2>2. Kin(L, [L EXCEPT !.slot = slot])
      BY <1>0 DEF Kin, Locals
    <2> QED BY <1>0, <1>f, <2>1, <2>2, KinSuits, StillMove
  <1> QED BY <1>1, <1>2, <1>3, <1>4, <1>5

LEMMA NextScanLawful ==
    ASSUME TypeInv, Owners, NEW t \in Tasks, NextScan(t)
    PROVE  Lawful(t)
  <1> DEFINE L == loc[t]
  <1>0. L \in Locals /\ LocalsSuit(L)
    BY DEF TypeInv, TypeOK, Owners
  <1>f. UNCHANGED <<chainVars, userVars, creditedTo, mem>> /\ disk' \in {disk, mem}
    BY DEF NextScan, backendVars
  <1>1. CASE Idle(t)
    BY <1>1, <1>f, IdleMove DEF Idle
  <1>2. CASE At(t, "credits", AfterScans(L))
    <2>1. Kin(L, AfterScans(L))
      BY <1>0 DEF Kin, Locals, AfterScans
    <2> QED BY <1>0, <1>2, <1>f, <2>1, KinSuits, StillMove
  <1>3. ASSUME NEW r \in L.scans, At(t, "lock", [L EXCEPT !.scans = @ \ {r}, !.res = r])
        PROVE  Lawful(t)
    <2>1. Kin(L, [L EXCEPT !.scans = @ \ {r}, !.res = r])
      BY <1>0 DEF Kin, Locals
    <2> QED BY <1>0, <1>3, <1>f, <2>1, KinSuits, StillMove
  <1> QED BY <1>1, <1>2, <1>3 DEF NextScan

\* The poll loop hands an address to a worker: two tasks move.
LEMMA StartScanOwners ==
    ASSUME TypeInv, Owners, NEW t \in Workers, StartScan(t)
    PROVE  Owners'
  <1>0. /\ t \in Tasks /\ Poller \in Tasks /\ t # Poller
        /\ loc[Poller] \in Locals /\ LocalsSuit(loc[Poller])
        /\ pc \in [Tasks -> Labels] /\ loc \in [Tasks -> Locals]
    BY TaskAssumption DEF Tasks, TypeInv, TypeOK, Owners
  <1>1. PICK r \in loc[Poller].scans :
          /\ pc' = [pc EXCEPT ![t] = "lock"]
          /\ loc' = [loc EXCEPT ![Poller].scans = @ \ {r},
                                ![t] = [InitLocals EXCEPT !.kind = "cycle", !.res = r,
                                                          !.price = loc[Poller].price]]
    BY DEF StartScan
  <1> DEFINE l == [InitLocals EXCEPT !.kind = "cycle", !.res = r, !.price = loc[Poller].price]
             k == [loc[Poller] EXCEPT !.scans = @ \ {r}]
  <1>2. /\ loc'[t] = l /\ loc'[Poller] = k /\ pc'[t] = "lock" /\ pc'[Poller] = "scan"
        /\ \A u \in Tasks \ {t, Poller} : loc'[u] = loc[u] /\ pc'[u] = pc[u]
    BY <1>0, <1>1 DEF StartScan
  <1>3. Kin(loc[Poller], k) /\ Kin(loc[Poller], l)
    <2>1. l.scans = {} /\ l.res = r /\ l.todo = {} /\ l.entry = NoEntry
      BY DEF InitLocals
    <2>2. /\ k.scans = loc[Poller].scans \ {r} /\ k.res = loc[Poller].res
          /\ k.todo = loc[Poller].todo /\ k.entry = loc[Poller].entry
      BY <1>0 DEF Locals
    <2> HIDE DEF k, l
    <2> QED BY <2>1, <2>2, Constants DEF Kin
  <1> HIDE DEF k, l
  <1>4. /\ LocalsSuit(k) /\ LocalsSuit(l) /\ PlaceSuits("lock", l) /\ PlaceSuits("scan", k)
    BY <1>0, <1>3, KinSuits DEF PlaceSuits
  <1>5. /\ UNCHANGED <<chainVars, userVars, creditedTo, mem, disk>>
    BY DEF StartScan, backendVars
  <1>6. (\A e \in mem'.pending : EntrySuits(e)) /\ \A c \in creditedTo' : at[c[1]] > 0 /\ c[2] \in entitled[c[1]]
    BY <1>5 DEF Owners
  <1> QED BY <1>0, <1>2, <1>4, <1>5, <1>6, OwnersKept

LEMMA AccountDoneKin ==
    ASSUME TypeInv, Owners, NEW t \in Tasks, pc[t] \in ScanLabels, NEW failed \in BOOLEAN,
           AccountDone(t, failed)
    PROVE  \E l : \E label \in {"list", "idle", "scan"} : At(t, label, l) /\ LocalsSuit(l)
  <1> DEFINE L == loc[t]
             b == L.failed \/ failed
             l == [L EXCEPT !.assets = @ \ {Scanned(L)}, !.sigs = {}, !.failed = b]
             k == [l EXCEPT !.res = NoEntry]
  <1>0. L \in Locals /\ LocalsSuit(L)
    BY DEF TypeInv, TypeOK, Owners
  <1>1. Kin(L, l) /\ Kin(L, k)
    <2> HIDE DEF b
    <2>1. /\ l.scans = L.scans /\ l.res = L.res /\ l.todo = L.todo /\ l.entry = L.entry
          /\ k.scans = L.scans /\ k.res = NoEntry /\ k.todo = L.todo /\ k.entry = L.entry
      BY <1>0 DEF Locals
    <2> HIDE DEF l, k
    <2> QED BY <2>1, NoEntryNoReservation DEF Kin
  <1>2. LocalsSuit(l) /\ LocalsSuit(k) /\ LocalsSuit(InitLocals)
    BY <1>0, <1>1, KinInit, KinSuits
  <1>3. At(t, "list", l) \/ At(t, "idle", InitLocals) \/ At(t, "scan", k)
    BY DEF AccountDone, Idle
  <1> HIDE DEF l, k
  <1> QED BY <1>2, <1>3

\* A payment is queued for the user whose address is scanned or recovered.
LEMMA PushSuits ==
    ASSUME TypeInv, Owners, NEW p \in Payments, NEW u \in Users, Suits(AddrOf[p], u),
           mem' = Push(mem, p, u)
    PROVE  mem.credited \subseteq mem'.credited /\ \A e \in mem'.pending : EntrySuits(e)
  <1>1. mem \in Store
    BY DEF TypeInv, TypeOK
  <1>2. /\ mem'.credited = mem.credited
        /\ mem'.pending = mem.pending \cup
             (IF Known(mem, p) THEN {} ELSE {[p |-> p, user |-> u, notified |-> FALSE]})
    <2> DEFINE m == Push(mem, p, u)
    <2>1. /\ m.credited = mem.credited
          /\ m.pending = mem.pending \cup
               (IF Known(mem, p) THEN {} ELSE {[p |-> p, user |-> u, notified |-> FALSE]})
      BY <1>1 DEF Push, Store
    <2> QED BY <2>1
  <1>3. EntrySuits([p |-> p, user |-> u, notified |-> FALSE])
    BY DEF EntrySuits
  <1> QED BY <1>2, <1>3 DEF Owners

LEMMA ScanLawful ==
    ASSUME TypeInv, Inv, Owners, Calm, Calm', NEW t \in Tasks, ScanStep(t)
    PROVE  Lawful(t)
  <1> DEFINE L == loc[t]
  <1>0. L \in Locals /\ LocalsSuit(L) /\ mem \in Store
    BY DEF TypeInv, TypeOK, Owners
  <1>e. ~Error(TRUE) /\ \A b \in BOOLEAN : Error(b) => b = FALSE
    BY CalmErrors
  <1>f. UNCHANGED <<chainVars, userVars, creditedTo>>
    BY DEF ScanStep, LockAddress, ListSignatures, LoadTransaction, MoveCursor, backendVars
  <1>1. CASE LockAddress(t)
    <2>1. At(t, "list", [L EXCEPT !.assets = Assets]) /\ mem' = mem /\ disk' = disk
      BY <1>1 DEF LockAddress
    <2>2. Kin(L, [L EXCEPT !.assets = Assets])
      BY <1>0 DEF Kin, Locals
    <2> QED BY <1>0, <1>f, <2>1, <2>2, KinSuits, StillMove
  <1>2. CASE ListSignatures(t)
    <2>0. pc[t] \in ScanLabels /\ mem' = mem /\ disk' = disk
      BY <1>2 DEF ListSignatures, ScanLabels
    <2> DEFINE new == NewSignatures(Account(L))
    <2>1. AccountDone(t, FALSE) \/ At(t, "load", [L EXCEPT !.sigs = new])
      BY <1>2, <1>e DEF ListSignatures
    <2>2. CASE AccountDone(t, FALSE)
      BY <1>f, <2>0, <2>2, AccountDoneKin, StillMove
    <2>3. CASE At(t, "load", [L EXCEPT !.sigs = new])
      <3> HIDE DEF new
      <3>1. Kin(L, [L EXCEPT !.sigs = new])
        BY <1>0 DEF Kin, Locals
      <3> QED BY <1>0, <1>f, <2>0, <2>3, <3>1, KinSuits, StillMove
    <2> QED BY <2>1, <2>2, <2>3
  <1>3. CASE LoadTransaction(t)
    <2> DEFINE p == Oldest(L.sigs)
    <2>0. pc[t] \in ScanLabels /\ pc[t] = "load"
      BY <1>3 DEF LoadTransaction, ScanLabels
    <2>1. /\ p \in Payments /\ Acct(p) = Account(L) /\ Account(L)[1] = L.res.addr
          /\ L.res \in Reservation /\ L.res.user \in Users
      BY <2>0, OldestInHand, ScanFacts
    <2>2. AddrOf[p] = L.res.addr
      BY <2>1 DEF Acct
    <2>3. Suits(AddrOf[p], L.res.user)
      BY <1>0, <2>1, <2>2 DEF LocalsSuit
    <2>4. \/ /\ At(t, "cursor", L) /\ mem' = mem /\ disk' = disk
          \/ /\ mem' = Push(mem, p, L.res.user)
             /\ \E saved \in BOOLEAN : Save(saved)
             /\ At(t, "cursor", L) \/ AccountDone(t, TRUE)
      BY <1>3, <1>e DEF LoadTransaction
    <2> HIDE DEF p
    <2>5. /\ mem.credited \subseteq mem'.credited /\ disk' \in {disk, mem'}
          /\ \A e \in mem'.pending : EntrySuits(e)
      BY <2>1, <2>3, <2>4, PushSuits DEF Save, Owners
    <2>6. CASE At(t, "cursor", L)
      BY <1>0, <1>f, <2>5, <2>6, LawfulMove DEF PlaceSuits
    <2>7. CASE AccountDone(t, TRUE)
      <3>1. PICK l : \E label \in {"list", "idle", "scan"} : At(t, label, l) /\ LocalsSuit(l)
        BY <2>0, <2>7, AccountDoneKin
      <3> QED BY <1>f, <2>5, <3>1, LawfulMove DEF PlaceSuits
    <2> QED BY <2>4, <2>6, <2>7
  <1>4. CASE MoveCursor(t)
    <2> DEFINE p == Oldest(L.sigs)
    <2>0. pc[t] \in ScanLabels /\ pc[t] = "cursor"
      BY <1>4 DEF MoveCursor, ScanLabels
    <2>1. PICK saved \in BOOLEAN :
            /\ Save(saved)
            /\ \/ At(t, "load", [L EXCEPT !.sigs = @ \ {p}])
               \/ AccountDone(t, ~saved)
      BY <1>4 DEF MoveCursor
    <2>2. mem' = SetCursor(mem, p)
      BY <1>4 DEF MoveCursor
    <2> HIDE DEF p
    <2>3. mem'.credited = mem.credited /\ mem'.pending = mem.pending
      BY <1>0, <2>2 DEF SetCursor, Store
    <2>4. /\ mem.credited \subseteq mem'.credited /\ disk' \in {disk, mem'}
          /\ \A e \in mem'.pending : EntrySuits(e)
      BY <2>1, <2>3 DEF Save, Owners
    <2>5. CASE At(t, "load", [L EXCEPT !.sigs = @ \ {p}])
      <3>1. Kin(L, [L EXCEPT !.sigs = @ \ {p}])
        BY <1>0 DEF Kin, Locals
      <3> QED BY <1>0, <1>f, <2>4, <2>5, <3>1, KinSuits, LawfulMove DEF PlaceSuits
    <2>6. CASE AccountDone(t, ~saved)
      <3>1. PICK l : \E label \in {"list", "idle", "scan"} : At(t, label, l) /\ LocalsSuit(l)
        BY <2>0, <2>6, AccountDoneKin
      <3> QED BY <1>f, <2>4, <3>1, LawfulMove DEF PlaceSuits
    <2> QED BY <2>1, <2>5, <2>6
  <1> QED BY <1>1, <1>2, <1>3, <1>4 DEF ScanStep

LEMMA RecoverLawful ==
    ASSUME TypeInv, Owners, NEW t \in Tasks, Recover(t) \/ RecoverQueue(t)
    PROVE  Lawful(t)
  <1> DEFINE L == loc[t]
  <1>0. L \in Locals /\ LocalsSuit(L) /\ PlaceSuits(pc[t], L) /\ LocalInv(pc[t], L)
    BY DEF TypeInv, TypeOK, Owners
  <1>f. UNCHANGED <<chainVars, userVars, creditedTo>>
    BY DEF Recover, RecoverQueue, backendVars
  <1>1. CASE Recover(t)
    <2>1. PICK r \in Reservations, p \in Payments :
            /\ AddrOf[p] = r.addr
            /\ At(t, "recover", [InitLocals EXCEPT !.kind = "recover", !.res = r, !.sigs = {p}])
      BY <1>1 DEF Recover
    <2> DEFINE l == [InitLocals EXCEPT !.kind = "recover", !.res = r, !.sigs = {p}]
    <2>2. l.scans = {} /\ l.res = r /\ l.todo = {} /\ l.entry = NoEntry /\ l.sigs = {p}
      BY DEF InitLocals
    <2>3. At(t, "recover", l)
      BY <2>1
    <2> HIDE DEF l
    <2>4. LocalsSuit(l) /\ PlaceSuits("recover", l)
      BY <2>1, <2>2, ReadSuits, Constants DEF LocalsSuit, PlaceSuits
    <2>5. mem' = mem /\ disk' = disk /\ \A e \in mem.pending : EntrySuits(e)
      BY <1>1 DEF Recover, Owners
    <2> QED BY <1>f, <2>3, <2>4, <2>5, LawfulMove
  <1>2. CASE RecoverQueue(t)
    <2> DEFINE p == Oldest(L.sigs)
               l == [L EXCEPT !.res = NoEntry, !.sigs = {}]
    <2>0. pc[t] = "recover" /\ L.sigs # {} /\ L.sigs \subseteq Payments /\ L.res \in Reservation
      BY <1>0, <1>2 DEF RecoverQueue, LocalInv, Locals
    <2>1. p \in L.sigs /\ p \in Payments
      BY <2>0, OldestIn DEF TypeInv
    <2>2. L.res.user \in Users /\ Suits(AddrOf[p], L.res.user)
      BY <1>0, <2>0, <2>1, ReservationTyped DEF PlaceSuits, LocalsSuit
    <2>3. /\ mem' = Push(mem, p, L.res.user) /\ \E saved \in BOOLEAN : Save(saved)
          /\ At(t, "rslot", l) \/ At(t, "idle", InitLocals)
      BY <1>2 DEF RecoverQueue, Idle
    <2> HIDE DEF p
    <2>4. /\ mem.credited \subseteq mem'.credited /\ disk' \in {disk, mem'}
          /\ \A e \in mem'.pending : EntrySuits(e)
      BY <2>1, <2>2, <2>3, PushSuits DEF Save
    <2>5. LocalsSuit(l) /\ LocalsSuit(InitLocals)
      <3>1. Kin(L, l)
        BY <1>0, NoEntryNoReservation DEF Kin, Locals
      <3> QED BY <1>0, <3>1, KinInit, KinSuits
    <2> HIDE DEF l
    <2> QED BY <1>f, <2>3, <2>4, <2>5, LawfulMove DEF PlaceSuits
  <1> QED BY <1>1, <1>2

\* The next entry, and what the queue keeps.
LEMMA NextEntryKin ==
    ASSUME NEW k, NEW l \in Locals, Kin(k, l)
    PROVE  Kin(k, [l EXCEPT !.entry = NoEntry, !.deferred = FALSE])
  BY Constants DEF Kin, Locals

LEMMA NextEntryMove ==
    ASSUME TypeInv, Owners, NEW t \in Tasks, NEW l \in Locals, Kin(loc[t], l), NextEntry(t, l),
           UNCHANGED <<chainVars, userVars, creditedTo>>,
           mem.credited \subseteq mem'.credited, disk' \in {disk, mem'},
           \A e \in mem'.pending : EntrySuits(e)
    PROVE  Lawful(t)
  <1> DEFINE k == [l EXCEPT !.entry = NoEntry, !.deferred = FALSE]
  <1>1. LocalsSuit(k)
    BY NextEntryKin, KinSuits DEF Owners
  <1>2. At(t, "next", k)
    BY DEF NextEntry
  <1> HIDE DEF k
  <1> QED BY <1>1, <1>2, LawfulMove DEF PlaceSuits

\* What the operations on a queued payment leave of the queue.
LEMMA QueueSuits ==
    ASSUME TypeInv, Owners, NEW p \in Payments,
           mem' \in {mem, Notified(mem, p), MarkCredited(mem, p), Drop(mem, p)}
    PROVE  mem.credited \subseteq mem'.credited /\ \A e \in mem'.pending : EntrySuits(e)
  <1>1. mem \in Store /\ \A e \in mem.pending : EntrySuits(e)
    BY DEF TypeInv, TypeOK, Owners

  <1>3. CASE mem' \in {mem, MarkCredited(mem, p), Drop(mem, p)}
    BY <1>1, <1>3 DEF MarkCredited, Drop, Store
  <1>4. CASE mem' = Notified(mem, p)
    <2>1. /\ mem'.credited = mem.credited
          /\ mem'.pending = {IF e.p = p THEN [e EXCEPT !.notified = TRUE] ELSE e : e \in mem.pending}
      BY <1>1, <1>4 DEF Notified, Store
    <2>2. ASSUME NEW e \in mem.pending
          PROVE  EntrySuits(IF e.p = p THEN [e EXCEPT !.notified = TRUE] ELSE e)
      <3>1. [e EXCEPT !.notified = TRUE].p = e.p /\ [e EXCEPT !.notified = TRUE].user = e.user
        BY <1>1 DEF Store, Entry
      <3> QED BY <1>1, <3>1 DEF EntrySuits
    <2> QED BY <2>1, <2>2
  <1> QED BY <1>3, <1>4

LEMMA QueueLawful ==
    ASSUME TypeInv, Owners, NEW t \in Tasks, CreditsLock(t) \/ CreditsDone(t)
    PROVE  Lawful(t)
  <1> DEFINE L == loc[t]
  <1>0. L \in Locals /\ LocalsSuit(L)
    BY DEF TypeInv, TypeOK, Owners
  <1>f. UNCHANGED <<chainVars, userVars, creditedTo, mem>> /\ disk' \in {disk, mem}
    BY DEF CreditsLock, CreditsDone, Save, backendVars
  <1>1. CASE \E label \in {"idle", "gas"} : At(t, label, InitLocals)
    BY <1>1, <1>f, IdleMove
  <1>2. CASE At(t, "next", [L EXCEPT !.todo = mem.pending])
    <2> DEFINE l == [L EXCEPT !.todo = mem.pending]
    <2>1. l.scans = L.scans /\ l.res = L.res /\ l.todo = mem.pending /\ l.entry = L.entry
      BY <1>0 DEF Locals
    <2>2. At(t, "next", l)
      BY <1>2
    <2> HIDE DEF l
    <2>3. LocalsSuit(l)
      BY <1>0, <2>1 DEF LocalsSuit, Owners
    <2> QED BY <1>f, <2>2, <2>3, StillMove
  <1> QED BY <1>1, <1>2 DEF CreditsLock, CreditsDone, AfterCredits, Idle

LEMMA DeliveryLawful ==
    ASSUME TypeInv, Inv, Owners, Calm, Calm', NEW t \in Tasks,
           \/ SendDetected(t) \/ AlreadyDetected(t) \/ FlagDetected(t) \/ CheckOwner(t)
           \/ SweepNative(t) \/ SweepToken(t) \/ SendCredited(t) \/ RecordCredit(t)
           \/ AlreadyCredited(t) \/ Remove(t)
    PROVE  Lawful(t)
  <1> DEFINE L == loc[t]
  <1>0. L \in Locals /\ LocalsSuit(L) /\ PlaceSuits(pc[t], L) /\ Kin(L, L)
    BY KinSame DEF TypeInv, TypeOK, Owners
  <1>e. ~Error(TRUE) /\ \A b \in BOOLEAN : Error(b) => b = FALSE
    BY CalmErrors
  <1>f. UNCHANGED <<chainVars, userVars>>
    BY DEF SendDetected, AlreadyDetected, FlagDetected, CheckOwner, SweepNative, SweepToken,
           SendCredited, RecordCredit, AlreadyCredited, Remove
  <1>s. mem' = mem => mem.credited \subseteq mem'.credited /\ \A e \in mem'.pending : EntrySuits(e)
    BY DEF Owners
  <1>n. ASSUME pc[t] \in EntryLabels
        PROVE  L.entry \in Entry /\ EntrySuits(L.entry) /\ L.entry.p \in Payments /\ at[L.entry.p] > 0
               /\ L.entry.user \in Users
    <2>1. pc[t] \in CreditLabels
      BY <1>n DEF CreditLabels
    <2> QED BY <1>0, <1>n, <2>1, CreditFacts DEF LocalsSuit, EntryInv, Paid
  \* An entry of the copy is taken up.
  <1>t. ASSUME NEW e \in L.todo
        PROVE  LET l == [L EXCEPT !.todo = @ \ {e}, !.entry = e] IN l \in Locals /\ Kin(L, l)
    BY <1>0 DEF Kin, Locals
  \* After the detection.
  <1>d. ASSUME NEW l \in Locals, Kin(L, l), AfterDetection(t, l), UNCHANGED creditedTo,
               mem.credited \subseteq mem'.credited, disk' \in {disk, mem'},
               \A e \in mem'.pending : EntrySuits(e)
        PROVE  Lawful(t)
    <2>1. CASE NextEntry(t, l)
      BY <1>d, <1>f, <2>1, NextEntryMove
    <2>2. CASE At(t, "owner", l)
      BY <1>0, <1>d, <1>f, <2>2, KinSuits, LawfulMove DEF PlaceSuits
    <2>3. CASE At(t, "sweep", l) /\ Credited(mem, l.entry.p)
      BY <1>0, <1>d, <1>f, <2>3, KinSuits, LawfulMove DEF PlaceSuits
    <2> QED BY <1>d, <2>1, <2>2, <2>3 DEF AfterDetection
  <1>1. CASE SendDetected(t)
    <2>0. mem' = mem /\ disk' = disk /\ creditedTo' = creditedTo
      BY <1>1 DEF SendDetected
    <2>1. PICK e \in L.todo, o \in Outcomes :
            LET l == [L EXCEPT !.todo = @ \ {e}, !.entry = e]
            IN IF Recorded(o) THEN At(t, "flag", l) ELSE NextEntry(t, l)
      BY <1>1 DEF SendDetected
    <2> DEFINE l == [L EXCEPT !.todo = @ \ {e}, !.entry = e]
    <2>2. l \in Locals /\ Kin(L, l) /\ (At(t, "flag", l) \/ NextEntry(t, l))
      BY <1>t, <2>1
    <2> HIDE DEF l
    <2>3. CASE At(t, "flag", l)
      BY <1>0, <1>f, <2>0, <2>2, <2>3, KinSuits, StillMove
    <2>4. CASE NextEntry(t, l)
      BY <1>f, <1>s, <2>0, <2>2, <2>4, NextEntryMove
    <2> QED BY <2>2, <2>3, <2>4
  <1>2. CASE AlreadyDetected(t)
    <2>1. PICK e \in L.todo : AfterDetection(t, [L EXCEPT !.todo = @ \ {e}, !.entry = e])
      BY <1>2 DEF AlreadyDetected
    <2>2. mem' = mem /\ disk' = disk /\ creditedTo' = creditedTo
      BY <1>2 DEF AlreadyDetected, backendVars
    <2> QED BY <1>d, <1>s, <1>t, <2>1, <2>2
  <1>3. CASE FlagDetected(t)
    <2>0. pc[t] \in EntryLabels
      BY <1>3 DEF FlagDetected, EntryLabels
    <2>1. /\ mem' = Notified(mem, L.entry.p) /\ disk' \in {disk, mem'} /\ creditedTo' = creditedTo
          /\ AfterDetection(t, L) \/ NextEntry(t, L)
      BY <1>3 DEF FlagDetected, Save, backendVars
    <2>2. mem.credited \subseteq mem'.credited /\ \A e \in mem'.pending : EntrySuits(e)
      BY <1>n, <2>0, <2>1, QueueSuits
    <2> QED BY <1>0, <1>d, <1>f, <2>1, <2>2, NextEntryMove
  <1>4. CASE CheckOwner(t)
    <2>0. pc[t] \in EntryLabels /\ mem' = mem /\ disk' = disk /\ creditedTo' = creditedTo
      BY <1>4 DEF CheckOwner, EntryLabels, backendVars
    <2>1. \/ NextEntry(t, L)
          \/ At(t, "sweep", L) /\ owner[AddrOf[L.entry.p]] \notin Users \ {L.entry.user}
      BY <1>4, <1>e DEF CheckOwner
    <2>2. CASE NextEntry(t, L)
      BY <1>0, <1>f, <1>s, <2>0, <2>2, NextEntryMove
    <2>3. CASE At(t, "sweep", L) /\ owner[AddrOf[L.entry.p]] \notin Users \ {L.entry.user}
      <3>1. L.entry.user \in entitled[L.entry.p]
        BY <1>n, <2>0, <2>3 DEF EntrySuits, Suits
      <3>2. PlaceSuits("sweep", L)
        BY <3>1 DEF PlaceSuits
      <3> QED BY <1>0, <1>f, <1>s, <2>0, <2>3, <3>2, LawfulMove
    <2> QED BY <2>1, <2>2, <2>3
  <1>5. CASE SweepNative(t) \/ SweepToken(t)
    <2>0. pc[t] = "sweep" /\ mem' = mem /\ disk' = disk /\ creditedTo' = creditedTo
      BY <1>5 DEF SweepNative, SweepToken, backendVars
    <2>1. At(t, "credit", L) \/ NextEntry(t, L)
      BY <1>5, <1>e DEF SweepNative, SweepToken, Transferred
    <2>2. PlaceSuits("credit", L)
      BY <1>0, <2>0 DEF PlaceSuits
    <2> QED BY <1>0, <1>f, <1>s, <2>0, <2>1, <2>2, LawfulMove, NextEntryMove
  <1>6. CASE SendCredited(t)
    <2>0. pc[t] = "credit" /\ pc[t] \in EntryLabels /\ mem' = mem /\ disk' = disk
      BY <1>6 DEF SendCredited, EntryLabels
    <2> DEFINE e == L.entry
    <2>1. /\ ~Credited(mem, e.p)
          /\ creditedTo' \in {creditedTo, creditedTo \cup {<<e.p, e.user>>}}
          /\ At(t, "record", L) \/ NextEntry(t, L)
      BY <1>6 DEF SendCredited
    <2>2. e.user \in entitled[e.p] /\ at[e.p] > 0
      BY <1>0, <1>n, <2>0, <2>1 DEF PlaceSuits
    <2> HIDE DEF e
    <2>3. \A c \in creditedTo' : at[c[1]] > 0 /\ c[2] \in entitled[c[1]]
      BY <2>1, <2>2 DEF Owners
    <2>4. \E label, l : At(t, label, l) /\ LocalsSuit(l) /\ PlaceSuits(label, l)
      <3>1. CASE At(t, "record", L)
        BY <1>0, <3>1 DEF PlaceSuits
      <3>2. CASE NextEntry(t, L)
        <4> DEFINE k == [L EXCEPT !.entry = NoEntry, !.deferred = FALSE]
        <4>1. LocalsSuit(k)
          BY <1>0, NextEntryKin, KinSuits
        <4>2. At(t, "next", k)
          BY <3>2 DEF NextEntry
        <4> HIDE DEF k
        <4> QED BY <4>1, <4>2 DEF PlaceSuits
      <3> QED BY <2>1, <3>1, <3>2
    <2> QED BY <1>f, <1>s, <2>0, <2>3, <2>4 DEF Lawful
  <1>7. CASE RecordCredit(t)
    <2>0. pc[t] \in EntryLabels
      BY <1>7 DEF RecordCredit, EntryLabels
    <2>1. /\ mem' = MarkCredited(mem, L.entry.p) /\ disk' \in {disk, mem'} /\ creditedTo' = creditedTo
          /\ At(t, "remove", L) \/ NextEntry(t, L)
      BY <1>7 DEF RecordCredit, Save, backendVars
    <2>2. mem.credited \subseteq mem'.credited /\ \A e \in mem'.pending : EntrySuits(e)
      BY <1>n, <2>0, <2>1, QueueSuits
    <2>3. PlaceSuits("remove", L)
      BY DEF PlaceSuits
    <2> QED BY <1>0, <1>f, <2>1, <2>2, <2>3, LawfulMove, NextEntryMove
  <1>8. CASE AlreadyCredited(t)
    <2>1. /\ mem' = mem /\ disk' = disk /\ creditedTo' = creditedTo
          /\ At(t, "remove", L) \/ NextEntry(t, L)
      BY <1>8 DEF AlreadyCredited, backendVars
    <2>2. PlaceSuits("remove", L)
      BY DEF PlaceSuits
    <2> QED BY <1>0, <1>f, <1>s, <2>1, <2>2, LawfulMove, NextEntryMove
  <1>9. CASE Remove(t)
    <2>0. pc[t] \in EntryLabels
      BY <1>9 DEF Remove, EntryLabels
    <2>1. /\ mem' = Drop(mem, L.entry.p) /\ disk' \in {disk, mem'} /\ creditedTo' = creditedTo
          /\ NextEntry(t, L)
      BY <1>9 DEF Remove, Save, backendVars
    <2>2. mem.credited \subseteq mem'.credited /\ \A e \in mem'.pending : EntrySuits(e)
      BY <1>n, <2>0, <2>1, QueueSuits
    <2> QED BY <1>0, <1>f, <2>1, <2>2, NextEntryMove
  <1> QED BY <1>1, <1>2, <1>3, <1>4, <1>5, <1>6, <1>7, <1>8, <1>9

----------------------------------------------------------------------------
(* The chain, the users, the process *)

\* What the environment owes: who suits still suits, and no title is lost.
LEMMA OwnersAbide ==
    ASSUME TypeInv, Inv, Owners, UNCHANGED <<mem, disk, pc, loc, creditedTo>>,
           \A a \in Addrs, u \in Users : Suits(a, u) => Suits(a, u)',
           \A p \in Payments : at[p] > 0 => at'[p] > 0 /\ entitled[p] \subseteq entitled'[p],
           (\A p \in Payments :
              (at[p] > 0 /\ owner[AddrOf[p]] \in Users) => owner[AddrOf[p]] \in entitled[p])'
    PROVE  Owners'
  <1>1. ASSUME NEW e \in Entry, EntrySuits(e) PROVE EntrySuits(e)'
    BY <1>1, EntryTyped DEF EntrySuits
  <1>2. mem.pending \subseteq Entry /\ disk.pending \subseteq Entry
    BY DEF TypeInv, TypeOK, Store
  <1>3. ASSUME NEW t \in Tasks PROVE LocalsSuit(loc[t])'
    <2>1. LocalsSuit(loc[t]) /\ loc[t] \in Locals
      BY DEF Owners, TypeInv, TypeOK
    <2>2. loc[t].scans \subseteq Reservation /\ loc[t].todo \subseteq Entry
      BY <2>1 DEF Locals
    <2>3. (\A r \in loc[t].scans : Suits(r.addr, r.user))'
      BY <2>1, <2>2, ReservationTyped DEF LocalsSuit
    <2>4. (loc[t].res \in Reservation => Suits(loc[t].res.addr, loc[t].res.user))'
      BY <2>1, ReservationTyped DEF LocalsSuit
    <2>5. (\A e \in loc[t].todo : EntrySuits(e))'
      BY <1>1, <2>1, <2>2 DEF LocalsSuit
    <2>6. (loc[t].entry \in Entry => EntrySuits(loc[t].entry))'
      BY <1>1, <2>1 DEF LocalsSuit
    <2> QED BY <2>3, <2>4, <2>5, <2>6 DEF LocalsSuit
  <1>4. ASSUME NEW t \in Tasks PROVE PlaceSuits(pc[t], loc[t])'
    <2>1. PlaceSuits(pc[t], loc[t])
      BY DEF Owners
    <2>2. ASSUME pc[t] \in {"sweep", "credit"}
          PROVE  loc[t].entry.p \in Payments /\ at[loc[t].entry.p] > 0
      <3>1. pc[t] \in CreditLabels /\ pc[t] \in EntryLabels
        BY <2>2 DEF CreditLabels, EntryLabels
      <3> QED BY <3>1, CreditFacts DEF EntryInv, Paid
    <2> QED BY <2>1, <2>2 DEF PlaceSuits, Credited
  <1>5. (\A c \in creditedTo : at[c[1]] > 0 /\ c[2] \in entitled[c[1]])'
    <2>1. \A c \in creditedTo : c[1] \in Payments
      BY DEF TypeInv, TypeOK
    <2> QED BY <2>1 DEF Owners
  <1>6. (\A e \in mem.pending : EntrySuits(e))' /\ (\A e \in disk.pending : EntrySuits(e))'
    BY <1>1, <1>2 DEF Owners
  <1> QED BY <1>3, <1>4, <1>5, <1>6 DEF Owners

LEMMA NewSlotOwners ==
    ASSUME TypeInv, Inv, Owners, NewSlot
    PROVE  Owners'
  <1>1. PICK T \in SUBSET Payable :
          /\ at' = [p \in Payments |-> IF p \in T THEN slot + 1 ELSE at[p]]
          /\ entitled' = [p \in Payments |->
                           IF p \notin T THEN entitled[p]
                           ELSE IF owner[AddrOf[p]] = NoUser THEN Users
                           ELSE {owner[AddrOf[p]]}]
    BY DEF NewSlot
  <1>2. /\ T \subseteq Payments /\ \A p \in T : at[p] = 0
        /\ slot \in Nat /\ NoUser \notin Users
        /\ \A p \in Payments : owner[AddrOf[p]] \in Users \cup {NoUser}
    BY Constants, PaymentAssumption DEF Payable, TypeInv, TypeOK
  <1>3. UNCHANGED <<owner, cancels, mem, disk, pc, loc, creditedTo>>
    BY DEF NewSlot, backendVars
  <1>4. \A p \in Payments \ T : at'[p] = at[p] /\ entitled'[p] = entitled[p]
    BY <1>1
  <1>5. \A p \in T : IF owner[AddrOf[p]] = NoUser THEN entitled'[p] = Users
                     ELSE entitled'[p] = {owner[AddrOf[p]]}
    BY <1>1, <1>2
  <1>6. \A p \in Payments : at[p] > 0 => at'[p] > 0 /\ entitled[p] \subseteq entitled'[p]
    BY <1>2, <1>4
  <1>7. ASSUME NEW a \in Addrs, NEW u \in Users, Suits(a, u) PROVE Suits(a, u)'
    <2>0. cancels \in Nat
      BY DEF TypeInv, TypeOK
    <2>1. ASSUME NEW p \in T, AddrOf[p] = a
          PROVE  u \in entitled'[p] \/ (cancels > 0 /\ owner[a] \in Users \ {u})
      BY <1>2, <1>5, <1>7, <2>0, <2>1 DEF Suits
    <2>2. ASSUME NEW p \in Payments \ T, AddrOf[p] = a, at'[p] > 0
          PROVE  u \in entitled'[p] \/ (cancels > 0 /\ owner[a] \in Users \ {u})
      BY <1>4, <1>7, <2>2 DEF Suits
    <2>3. cancels = 0 => owner[a] = u
      BY <1>7 DEF Suits
    <2> QED BY <1>3, <2>1, <2>2, <2>3 DEF Suits
  <1>8. (\A p \in Payments :
           (at[p] > 0 /\ owner[AddrOf[p]] \in Users) => owner[AddrOf[p]] \in entitled[p])'
    BY <1>2, <1>3, <1>4, <1>5 DEF Owners
  <1> QED BY <1>3, <1>6, <1>7, <1>8, OwnersAbide

LEMMA AssignOwners ==
    ASSUME TypeInv, Inv, Owners, Assign
    PROVE  Owners'
  <1>1. PICK r \in Reservation :
          /\ owner[r.addr] = NoUser \/ cancels > 0
          /\ owner' = [owner EXCEPT ![r.addr] = r.user]
          /\ entitled' = [p \in Payments |->
                           IF AddrOf[p] = r.addr /\ at[p] > 0 THEN entitled[p] \cup {r.user}
                           ELSE entitled[p]]
    BY DEF Assign, Book!Claim, Book!WriteBack
  <1>2. /\ owner \in [Addrs -> Users \cup {NoUser}] /\ NoUser \notin Users
        /\ r.addr \in Addrs /\ r.user \in Users
        /\ \A p \in Payments : AddrOf[p] \in Addrs
    BY Constants, PaymentAssumption, ReservationTyped DEF TypeInv, TypeOK
  <1>3. UNCHANGED <<at, cancels, mem, disk, pc, loc, creditedTo>>
    BY DEF Assign, Book!Claim, Book!WriteBack, chainVars, backendVars
  <1>4. \A p \in Payments :
          /\ entitled[p] \subseteq entitled'[p]
          /\ AddrOf[p] = r.addr /\ at[p] > 0 => r.user \in entitled'[p]
    BY <1>1
  <1>5. ASSUME NEW a \in Addrs, NEW u \in Users, Suits(a, u) PROVE Suits(a, u)'
    <2>0. cancels \in Nat
      BY DEF TypeInv, TypeOK
    <2>1. cancels = 0 => owner'[a] = u
      BY <1>1, <1>2, <1>5, <2>0 DEF Suits
    <2>2. ASSUME NEW p \in Payments, AddrOf[p] = a, at[p] > 0
          PROVE  u \in entitled'[p] \/ (cancels > 0 /\ owner'[a] \in Users \ {u})
      <3>1. u \in entitled[p] \/ (cancels > 0 /\ owner[a] \in Users \ {u})
        BY <1>5, <2>2 DEF Suits
      <3>2. CASE a = r.addr
        BY <1>1, <1>2, <1>4, <2>2, <3>1, <3>2
      <3>3. CASE a # r.addr
        BY <1>1, <1>2, <1>4, <3>1, <3>3
      <3> QED BY <3>2, <3>3
    <2> QED BY <1>3, <2>1, <2>2 DEF Suits
  <1>6. (\A p \in Payments :
           (at[p] > 0 /\ owner[AddrOf[p]] \in Users) => owner[AddrOf[p]] \in entitled[p])'
    <2>1. ASSUME NEW p \in Payments, at[p] > 0, owner'[AddrOf[p]] \in Users
          PROVE  owner'[AddrOf[p]] \in entitled'[p]
      <3>1. CASE AddrOf[p] = r.addr
        BY <1>1, <1>2, <1>4, <2>1, <3>1
      <3>2. CASE AddrOf[p] # r.addr
        BY <1>1, <1>2, <1>4, <2>1, <3>2 DEF Owners
      <3> QED BY <3>1, <3>2
    <2> QED BY <1>3, <2>1
  <1> QED BY <1>3, <1>4, <1>5, <1>6, OwnersAbide

\* The first cancellation finds everybody entitled; a second is not calm.
LEMMA CancelOwners ==
    ASSUME TypeInv, Inv, Owners, Calm', CancelAll
    PROVE  Owners'
  <1>1. cancels = 0 /\ cancels' = 1 /\ UNCHANGED <<at, entitled, mem, disk, pc, loc, creditedTo>>
    BY DEF CancelAll, Book!Delete, Calm, chainVars, backendVars, TypeInv, TypeOK
  <1>2. \A a \in Addrs, u \in Users : Suits(a, u) => Suits(a, u)'
    BY <1>1 DEF Suits
  <1>3. \A p \in Payments : owner'[AddrOf[p]] \in {NoUser, owner[AddrOf[p]]}
    BY Constants DEF CancelAll, Book!Delete
  <1>4. (\A p \in Payments :
           (at[p] > 0 /\ owner[AddrOf[p]] \in Users) => owner[AddrOf[p]] \in entitled[p])'
    BY <1>1, <1>3, PaymentAssumption DEF Owners
  <1> QED BY <1>1, <1>2, <1>4, OwnersAbide

LEMMA CrashOwners ==
    ASSUME TypeInv, Owners, Crash
    PROVE  Owners'
  <1>1. /\ UNCHANGED <<chainVars, userVars, disk, creditedTo>> /\ mem' = disk
        /\ \A t \in Tasks : loc'[t] = InitLocals /\ pc'[t] \in {"boot", "idle"}
    BY DEF Crash, backendVars
  <1>2. at' = at /\ owner' = owner /\ entitled' = entitled
    BY <1>1 DEF chainVars, userVars
  <1>3. LocalsSuit(InitLocals)
    <2>1. /\ InitLocals.scans = {} /\ InitLocals.todo = {}
          /\ InitLocals.res = NoEntry /\ InitLocals.entry = NoEntry
      BY DEF InitLocals
    <2> QED BY <2>1, NoEntryNoReservation, Constants DEF LocalsSuit
  <1>4. ASSUME NEW t \in Tasks PROVE (LocalsSuit(loc[t]) /\ PlaceSuits(pc[t], loc[t]))'
    <2>1. LocalsSuit(loc'[t])
      BY <1>1, <1>3
    <2>2. PlaceSuits(pc[t], loc[t])'
      BY <1>1 DEF PlaceSuits
    <2> QED BY <1>1, <2>1, <2>2, SuitsRigid
  <1>5. (\A e \in mem.pending : EntrySuits(e))' /\ (\A e \in disk.pending : EntrySuits(e))'
    BY <1>1, SuitsRigid DEF Owners
  <1>6. /\ (\A c \in creditedTo : at[c[1]] > 0 /\ c[2] \in entitled[c[1]])'
        /\ (\A p \in Payments :
              (at[p] > 0 /\ owner[AddrOf[p]] \in Users) => owner[AddrOf[p]] \in entitled[p])'
    BY <1>1, <1>2 DEF Owners
  <1> QED BY <1>4, <1>5, <1>6 DEF Owners

LEMMA OwnerInit == Init => OwnerInv
  <1> SUFFICES ASSUME Init PROVE Owners
    BY DEF OwnerInv
  <1>1. /\ InitLocals.scans = {} /\ InitLocals.todo = {}
        /\ InitLocals.res = NoEntry /\ InitLocals.entry = NoEntry
    BY DEF InitLocals
  <1>2. LocalsSuit(InitLocals)
    BY <1>1, NoEntryNoReservation, Constants DEF LocalsSuit
  <1>3. \A t \in Tasks : loc[t] = InitLocals /\ pc[t] \in {"boot", "idle"}
    BY DEF Init
  <1>4. \A t \in Tasks : LocalsSuit(loc[t]) /\ PlaceSuits(pc[t], loc[t])
    BY <1>2, <1>3 DEF PlaceSuits
  <1>5. mem.pending = {} /\ disk.pending = {} /\ creditedTo = {} /\ \A p \in Payments : at[p] = 0
    BY DEF Init, FirstFile
  <1> QED BY <1>4, <1>5 DEF Owners

LEMMA CalmBefore ==
    ASSUME TypeInv, [Next]_vars, Calm', Inv
    PROVE  Calm
  <1>0. errors \in Nat /\ cancels \in Nat
    BY DEF TypeInv, TypeOK
  <1>1. CASE Quiet \/ \E t \in Tasks : Advances(t)
    <2>1. errors' \in {errors, errors + 1} /\ cancels' = cancels
      BY <1>1 DEF Quiet, Advances, Growth, Counted, userVars
    <2> QED BY <1>0, <2>1 DEF Calm
  <1>2. CASE NewSlot \/ Assign \/ CancelAll \/ Crash
    <2>1. errors' = errors /\ cancels' \in {cancels, cancels + 1}
      BY <1>2 DEF NewSlot, Assign, CancelAll, Crash, Book!Claim, Book!WriteBack, Book!Delete, userVars
    <2> QED BY <1>0, <2>1 DEF Calm
  <1>3. CASE UNCHANGED vars
    BY <1>3 DEF vars, userVars, Calm
  <1> QED BY <1>1, <1>2, <1>3, TaskStep

LEMMA OwnerStep == TypeInv /\ Inv /\ OwnerInv /\ [Next]_vars => OwnerInv'
  <1> SUFFICES ASSUME TypeInv, Inv, OwnerInv, [Next]_vars, Calm' PROVE Owners'
    BY DEF OwnerInv
  <1>0. /\ Calm /\ Owners
        /\ Poller \in Tasks /\ Workers \subseteq Tasks /\ Confirmers \subseteq Tasks
        /\ Callers \subseteq Tasks /\ Scanners \subseteq Tasks /\ Creditors \subseteq Tasks
    BY CalmBefore DEF OwnerInv, Tasks, Scanners, Creditors
  <1>1. ASSUME NEW t \in Tasks, ScanStep(t) PROVE Owners'
    BY <1>0, <1>1, ScanLawful, LawfulOwners
  <1>2. ASSUME NEW t \in Tasks, CreditStep(t) PROVE Owners'
    BY <1>0, <1>2, QueueLawful, DeliveryLawful, LawfulOwners DEF CreditStep
  <1>3. ASSUME NEW t \in Tasks, Request(t) \/ RequestStep(t) PROVE Owners'
    BY <1>0, <1>3, RequestLawful, NextScanLawful, RecoverLawful, LawfulOwners
       DEF Request, RequestStep
  <1>4. CASE BootStep \/ CycleStep
    BY <1>0, <1>4, BootLawful, LawfulOwners
  <1>5. ASSUME NEW t \in Workers, StartScan(t) PROVE Owners'
    BY <1>0, <1>5, StartScanOwners
  <1>6. ASSUME NEW t \in Confirmers, ConfirmPending(t) PROVE Owners'
    BY <1>0, <1>6, RequestLawful, LawfulOwners
  <1>7. CASE NewSlot \/ Assign \/ CancelAll \/ Crash
    BY <1>0, <1>7, NewSlotOwners, AssignOwners, CancelOwners, CrashOwners
  <1>8. CASE UNCHANGED vars
    BY <1>0, <1>8, OwnersKept DEF vars, backendVars, Owners
  <1> QED BY <1>0, <1>1, <1>2, <1>3, <1>4, <1>5, <1>6, <1>7, <1>8 DEF Next

\* solana.rs: "make sure the address still belongs to the user_id captured at
\* detection time".  As long as Redis answers and addresses are taken away once at
\* most, nobody is credited with a payment made after his address went to another user.
THEOREM NeverAnotherHolder == Spec => []NotToEarlierHolder
  <1>1. OwnerInv => NotToEarlierHolder
    BY DEF OwnerInv, Calm, Owners, NotToEarlierHolder
  <1> QED BY <1>1, TypeInit, InvInit, InvStep, OwnerInit, OwnerStep, PTL DEF Spec

====
