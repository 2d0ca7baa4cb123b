-------------------------- MODULE WalletPoolProofs --------------------------
(***************************************************************************)
(* Proofs about WalletPool for every set of users, every number of         *)
(* concurrent requests, every pool size and every bound.                   *)
(***************************************************************************)
EXTENDS WalletPool, WellFoundedInduction, TLAPS

\* What a request knows of its locals where it stands.
LocalInv(label, l) ==
    /\ label \notin {"idle", "keys", "delete"} => l.user \in Users
    /\ label \in {"payload", "archive", "register", "publish"} => l.addr \in Addrs
    /\ label = "archive" => l.old \in Payload /\ l.via = "rotate"
    /\ label = "unindex" => l.via \in {"fast", "load", "rotate"}
    /\ label \in {"keys", "delete"} => l.via = "fast"
CallerInv == \A c \in Callers : LocalInv(pc[c], loc[c])

\* No request runs before the server listens; users still to consolidate have
\* an address.
BootInv ==
    /\ phase # "serve" => \A c \in Callers : pc[c] = "idle"
    /\ groups # {} => phase = "consolidate"
    /\ \A u \in groups : Active(u) # {}

\* A wallet is in memory if and only if it is in the file.
PoolInv == pool = file

TypeInv == TypeOK /\ CallerInv /\ BootInv /\ PoolInv

USE DEF NoAddr, Addrs

----------------------------------------------------------------------------
(* The canonical address exists. *)

LEMMA Least ==
    ASSUME NEW S \in SUBSET Nat, S # {}
    PROVE  \E m \in S : \A n \in S : m <= n
  <1>1. \A n \in Nat, m \in Nat : n < m => <<n, m>> \in OpToRel(<, Nat)
    BY Zenon DEF OpToRel
  <1>2. PICK m \in S : \A n \in S : ~ (<<n, m>> \in OpToRel(<, Nat))
    BY NatLessThanWellFounded, WFMin, Zenon
  <1>3. \A n \in S : ~ (n < m)
    BY <1>1, <1>2, Zenon
  <1> QED BY <1>3

LEMMA CanonicalActive ==
    ASSUME assignment \in [Addrs -> Payload \cup {None}], PoolAssumption,
           NEW u \in Users, Active(u) # {}
    PROVE  Canonical(u) \in Active(u)
  <1> DEFINE Times == {assignment[a].at : a \in Active(u)}
  <1>0. \A a \in Active(u) : a \in Nat /\ assignment[a].at \in Nat
    BY DEF Active, Payload, None
  <1>1. PICK t \in Times : \A s \in Times : t <= s
    <2>1. Times \in SUBSET Nat /\ Times # {}
      BY <1>0
    <2> QED BY <2>1, Least
  <1> DEFINE First == {a \in Active(u) : assignment[a].at = t}
  <1>2. PICK a \in First : \A b \in First : a <= b
    <2>1. First \in SUBSET Nat /\ First # {}
      BY <1>0, <1>1
    <2> QED BY <2>1, Least
  <1>3. \A b \in Active(u) : Earlier(a, b)
    <2> SUFFICES ASSUME NEW b \in Active(u) PROVE Earlier(a, b)
      OBVIOUS
    <2>1. a \in Active(u) /\ assignment[a].at = t
      OBVIOUS
    <2>2. assignment[b].at \in Times
      OBVIOUS
    <2>3. t <= assignment[b].at
      BY <1>1, <2>2
    <2>4. assignment[b].at = t => a <= b
      BY <1>2
    <2> HIDE DEF Times, First
    <2>5. assignment[b].at \in Nat /\ t \in Nat
      BY <1>0, <2>1
    <2> QED BY <2>1, <2>3, <2>4, <2>5 DEF Earlier
  <1>4. \E x \in Active(u) : \A b \in Active(u) : Earlier(x, b)
    BY <1>2, <1>3
  <1> QED BY <1>4 DEF Canonical

----------------------------------------------------------------------------
(* The type invariant *)

LEMMA InitLocalsType == InitLocals \in Locals
  BY PoolAssumption DEF InitLocals, Locals

LEMMA TypeInit == Init => TypeInv
  <1> SUFFICES ASSUME Init PROVE TypeInv
    OBVIOUS
  <1>1. assignment \in [Addrs -> Payload \cup {None}]
    <2>1. PICK owner \in [1 .. file -> Users \cup {NoUser}] :
            assignment = [a \in Addrs |->
              IF a <= file /\ owner[a] # NoUser THEN NewPayload(owner[a], 0) ELSE None]
      BY DEF Init
    <2>2. file \in Nat
      BY PoolAssumption DEF Init
    <2>3. ASSUME NEW a \in Addrs, a <= file, owner[a] # NoUser
          PROVE  NewPayload(owner[a], 0) \in Payload
      BY <2>1, <2>2, <2>3, PoolAssumption DEF NewPayload, Payload
    <2> QED BY <2>1, <2>3
  <1>2. file \in 0 .. MaxPool /\ pool = file
    BY PoolAssumption DEF Init
  <1>3. pc \in [Callers -> Labels] /\ loc \in [Callers -> Locals] /\ CallerInv
    BY InitLocalsType DEF Init, Labels, CallerInv, LocalInv
  <1>4. BootInv
    BY DEF Init, BootInv
  <1> QED BY <1>1, <1>2, <1>3, <1>4 DEF Init, TypeInv, TypeOK, PoolInv

\* A step of request c leaves the others where they are.
LEMMA CallerStep ==
    ASSUME TypeInv, NEW c \in Callers, NEW label \in Labels, NEW l \in Locals,
           Goto(c, label), SetLocals(c, l), LocalInv(label, l)
    PROVE  /\ pc' \in [Callers -> Labels] /\ loc' \in [Callers -> Locals]
           /\ CallerInv'
  BY DEF TypeInv, TypeOK, Goto, SetLocals, CallerInv

\* A step of a request that is being served leaves the rest of the types alone.
LEMMA ServedStep ==
    ASSUME TypeInv, phase = "serve", UNCHANGED bootVars,
           assignment' \in [Addrs -> Payload \cup {None}],
           index' \in [Users -> Addrs \cup {NoAddr}], locked' \subseteq Users,
           pool' \in 0 .. MaxPool, pool' = file',
           pc' \in [Callers -> Labels], loc' \in [Callers -> Locals], CallerInv',
           given' \in [Users -> SUBSET Addrs],
           clock' \in Nat, faults' \in Nat, stalls' \in Nat, cancels' \in Nat
    PROVE  TypeInv'
  BY DEF TypeInv, TypeOK, BootInv, PoolInv, bootVars

\* A request that is under way is being served, and its locals are typed.
LEMMA UnderWay ==
    ASSUME TypeInv, NEW c \in Callers, pc[c] # "idle"
    PROVE  /\ phase = "serve"
           /\ loc[c] \in Locals
           /\ LocalInv(pc[c], loc[c])
  BY DEF TypeInv, TypeOK, BootInv, CallerInv

\* The end of a request.
LEMMA FinishType ==
    ASSUME TypeInv, NEW c \in Callers, Finish(c)
    PROVE  /\ pc' \in [Callers -> Labels] /\ loc' \in [Callers -> Locals]
           /\ CallerInv'
  <1>1. "idle" \in Labels /\ LocalInv("idle", InitLocals)
    BY DEF Labels, LocalInv
  <1> QED BY <1>1, InitLocalsType, CallerStep DEF Finish

LEMMA ReturnType ==
    ASSUME TypeInv, NEW c \in Callers, pc[c] # "idle", Return(c)
    PROVE  /\ pc' \in [Callers -> Labels] /\ loc' \in [Callers -> Locals]
           /\ CallerInv'
           /\ given' \in [Users -> SUBSET Addrs]
  <1>1. loc[c].addr \in Addrs \cup {NoAddr}
    BY UnderWay DEF Locals
  <1>2. given' \in [Users -> SUBSET Addrs]
    BY <1>1 DEF Return, TypeInv, TypeOK
  <1> QED BY <1>2, FinishType DEF Return

LEMMA BootType ==
    ASSUME TypeInv, Boot
    PROVE  TypeInv'
  <1> USE DEF TypeInv
  <1>0. /\ assignment \in [Addrs -> Payload \cup {None}]
        /\ \A c \in Callers : pc[c] = "idle"
    BY DEF TypeOK, BootInv, Boot, BootLoad, BootArchive, BootIndex, BootError, Listen
  <1>1. CASE BootLoad
    BY <1>0, <1>1 DEF BootLoad, TypeOK, CallerInv, BootInv, PoolInv, Active,
                      redisVars, poolVars, bounds
  <1>2. CASE BootError
    BY <1>0, <1>2 DEF BootError, Fault, TypeOK, CallerInv, BootInv, PoolInv, redisVars, poolVars
  <1>3. CASE Listen
    BY <1>0, <1>3 DEF Listen, TypeOK, CallerInv, BootInv, PoolInv, redisVars, poolVars, bounds
  <1>4. ASSUME NEW u \in Users, BootArchive(u) PROVE TypeInv'
    <2>1. PICK a \in Duplicates(u) : assignment' = [assignment EXCEPT ![a].dormant = TRUE]
      BY <1>4 DEF BootArchive
    <2>2. a \in Active(u) /\ a # Canonical(u)
      BY <2>1 DEF Duplicates
    <2>3. a \in Addrs /\ assignment[a] \in Payload
      BY <1>0, <2>2, PoolAssumption DEF Active, None
    <2>4. assignment' \in [Addrs -> Payload \cup {None}]
      BY <1>0, <2>1, <2>3 DEF Payload
    <2>5. ASSUME NEW v \in groups PROVE Active(v)' # {}
      <3>1. CASE v = u
        <4>1. Canonical(u) \in Active(u)
          BY <1>0, <2>2, CanonicalActive, PoolAssumption
        <4>2. Canonical(u) \in Addrs /\ assignment'[Canonical(u)] = assignment[Canonical(u)]
          BY <1>0, <2>1, <2>2, <4>1 DEF Active
        <4> QED BY <3>1, <4>1, <4>2 DEF Active
      <3>2. CASE v # u
        <4>1. PICK b \in Active(v) : TRUE
          BY <2>5 DEF BootInv
        <4>2. groups \subseteq Users
          BY DEF TypeOK
        <4>3. b \in Addrs /\ assignment[b].user = v /\ b # a
          BY <2>2, <3>2, <4>1 DEF Active
        <4>4. assignment'[b] = assignment[b]
          BY <1>0, <2>1, <4>3
        <4> QED BY <4>1, <4>3, <4>4 DEF Active
      <3> QED BY <3>1, <3>2
    <2> QED BY <1>0, <1>4, <2>4, <2>5 DEF BootArchive, TypeOK, CallerInv, BootInv, PoolInv,
                                          poolVars, bootVars, bounds
  <1>5. ASSUME NEW u \in Users, BootIndex(u) PROVE TypeInv'
    <2>1. Canonical(u) \in Addrs
      <3>1. Active(u) # {}
        BY <1>5 DEF BootIndex, BootInv
      <3> QED BY <1>0, <3>1, CanonicalActive, PoolAssumption DEF Active
    <2>2. index' \in [Users -> Addrs \cup {NoAddr}]
      BY <1>5, <2>1 DEF BootIndex, TypeOK
    <2> QED BY <1>0, <1>5, <2>2 DEF BootIndex, TypeOK, CallerInv, BootInv, PoolInv, Active,
                                    poolVars, bounds
  <1> QED BY <1>1, <1>2, <1>3, <1>4, <1>5 DEF Boot

LEMMA OutsideType ==
    ASSUME TypeInv, Crash \/ Tick \/ \E u \in Users : LockExpires(u)
    PROVE  TypeInv'
  <1> USE DEF TypeInv
  <1>1. CASE Crash
    BY <1>1, InitLocalsType DEF Crash, Fault, TypeOK, CallerInv, LocalInv, BootInv, PoolInv,
                                Labels, redisVars
  <1>2. CASE Tick
    BY <1>2 DEF Tick, TypeOK, CallerInv, BootInv, PoolInv, Active, redisVars, poolVars, bootVars
  <1>3. ASSUME NEW u \in Users, LockExpires(u) PROVE TypeInv'
    BY <1>3 DEF LockExpires, TypeOK, CallerInv, BootInv, PoolInv, Active, poolVars, bootVars
  <1> QED BY <1>1, <1>2, <1>3

LEMMA StartType ==
    ASSUME TypeInv, NEW c \in Callers, Start(c)
    PROVE  TypeInv'
  <1>0. phase = "serve" /\ clock \in Nat
    BY DEF Start, StartAssign, StartRotate, StartLoad, StartCancel, TypeInv, TypeOK
  <1>1. ASSUME NEW l \in Locals, NEW label \in {"index", "lock"}, l.user \in Users,
               SetLocals(c, l), Goto(c, label),
               UNCHANGED <<redisVars, poolVars, bootVars, given, bounds>>
        PROVE  TypeInv'
    <2>1. label \in Labels /\ LocalInv(label, l)
      BY <1>1 DEF Labels, LocalInv
    <2>2. pc' \in [Callers -> Labels] /\ loc' \in [Callers -> Locals] /\ CallerInv'
      BY <1>1, <2>1, CallerStep
    <2> QED BY <1>0, <1>1, <2>2, ServedStep
            DEF TypeInv, TypeOK, PoolInv, redisVars, poolVars, bounds
  <1>2. ASSUME NEW u \in Users, StartAssign(c, u) PROVE TypeInv'
    <2> DEFINE l == [InitLocals EXCEPT !.op = "assign", !.user = u, !.now = clock]
    <2>1. l \in Locals /\ l.user = u
      BY <1>0, InitLocalsType DEF Locals
    <2> HIDE DEF l
    <2> QED BY <1>1, <1>2, <2>1 DEF StartAssign, l
  <1>3. ASSUME NEW u \in Users, StartRotate(c, u) PROVE TypeInv'
    <2> DEFINE l == [InitLocals EXCEPT !.op = "rotate", !.user = u]
    <2>1. l \in Locals /\ l.user = u
      BY InitLocalsType DEF Locals
    <2> HIDE DEF l
    <2> QED BY <1>1, <1>3, <2>1 DEF StartRotate, l
  <1>4. ASSUME NEW u \in Users, StartLoad(c, u) PROVE TypeInv'
    <2> DEFINE l == [InitLocals EXCEPT !.op = "load", !.user = u, !.via = "load"]
    <2>1. l \in Locals /\ l.user = u
      BY InitLocalsType DEF Locals
    <2> HIDE DEF l
    <2> QED BY <1>1, <1>4, <2>1 DEF StartLoad, l
  <1>5. CASE StartCancel(c)
    <2> DEFINE K == {a \in Addrs : ~Free(a)}
               l == [InitLocals EXCEPT !.op = "cancel", !.keys = K]
    <2>1. l \in Locals /\ "keys" \in Labels /\ LocalInv("keys", l)
      <3>0. InitLocals.via = "fast"
        BY DEF InitLocals
      <3>1. K \in SUBSET Addrs
        OBVIOUS
      <3> HIDE DEF K
      <3> QED BY <3>0, <3>1, InitLocalsType DEF Locals, Labels, LocalInv
    <2>2. Goto(c, "keys") /\ SetLocals(c, l)
      BY <1>5 DEF StartCancel
    <2> HIDE DEF l, K
    <2>3. pc' \in [Callers -> Labels] /\ loc' \in [Callers -> Locals] /\ CallerInv'
      BY <2>1, <2>2, CallerStep
    <2> QED BY <1>0, <1>5, <2>3, ServedStep
            DEF StartCancel, TypeInv, TypeOK, PoolInv, redisVars, poolVars, bounds
  <1> QED BY <1>2, <1>3, <1>4, <1>5 DEF Start

\* A step of a request under way that changes nothing but its place, its locals
\* and, typed as they must be, the parts named.
LEMMA QuietStep ==
    ASSUME TypeInv, NEW c \in Callers, pc[c] # "idle",
           pc' \in [Callers -> Labels], loc' \in [Callers -> Locals], CallerInv',
           assignment' \in [Addrs -> Payload \cup {None}],
           index' \in [Users -> Addrs \cup {NoAddr}], locked' \subseteq Users,
           given' \in [Users -> SUBSET Addrs], faults' \in Nat,
           UNCHANGED <<poolVars, bootVars, clock, stalls, cancels>>
    PROVE  TypeInv'
  BY UnderWay, ServedStep DEF TypeInv, TypeOK, PoolInv, poolVars

LEMMA LookupType ==
    ASSUME TypeInv, NEW c \in Callers, Lookup(c)
    PROVE  TypeInv'
  <1> DEFINE L == loc[c]
  <1>0. pc[c] # "idle"
    BY DEF Lookup, ReadIndex, PayloadMissing, PayloadFound, UnIndex, Scan
  <1>a. L \in Locals /\ LocalInv(pc[c], L)
    BY <1>0, UnderWay
  <1>b. /\ assignment \in [Addrs -> Payload \cup {None}]
        /\ index \in [Users -> Addrs \cup {NoAddr}] /\ locked \subseteq Users
        /\ given \in [Users -> SUBSET Addrs] /\ faults \in Nat
    BY DEF TypeInv, TypeOK
  <1>1. CASE ReadIndex(c)
    <2> DEFINE a == index[L.user]
               l == [L EXCEPT !.addr = a]
               label == IF a = NoAddr THEN NoIndex(L.via) ELSE "payload"
    <2>1. L.user \in Users
      BY <1>1, <1>a DEF ReadIndex, LocalInv
    <2>2. a \in Addrs \cup {NoAddr}
      BY <2>1, <1>b
    <2>3. NoIndex(L.via) \in {"lock", "candidates", "release", "scan"}
      BY <1>a DEF Locals, NoIndex
    <2>4. Goto(c, label) /\ SetLocals(c, l)
      BY <1>1 DEF ReadIndex
    <2>5. l \in Locals /\ l.addr = a /\ l.user = L.user
      <3> HIDE DEF a, L
      <3> QED BY <1>a, <2>2 DEF Locals
    <2>6. label \in Labels
      BY <2>3 DEF Labels
    <2>7. LocalInv(label, l)
      <3> HIDE DEF l
      <3> QED BY <2>1, <2>2, <2>3, <2>5 DEF LocalInv
    <2> HIDE DEF l, label
    <2>8. pc' \in [Callers -> Labels] /\ loc' \in [Callers -> Locals] /\ CallerInv'
      BY <2>4, <2>5, <2>6, <2>7, CallerStep
    <2> QED BY <1>0, <1>b, <1>1, <2>8, QuietStep DEF ReadIndex, redisVars, bounds
  <1>2. CASE PayloadMissing(c)
    <2> DEFINE l == [L EXCEPT !.addr = NoAddr]
               label == NoPayload(L.via)
    <2>1. L.user \in Users
      BY <1>2, <1>a DEF PayloadMissing, LocalInv
    <2>2. /\ label \in {"unindex", "lock", "candidates", "release"}
          /\ label = "unindex" => L.via \in {"fast", "load"}
      BY <1>a DEF Locals, NoPayload, NoIndex
    <2>3. Goto(c, label) /\ SetLocals(c, l)
      BY <1>2 DEF PayloadMissing
    <2>4. l \in Locals /\ l.via = L.via /\ l.user = L.user
      <3> HIDE DEF L
      <3> QED BY <1>a DEF Locals
    <2>5. label \in Labels /\ LocalInv(label, l)
      <3> HIDE DEF l, label
      <3> QED BY <2>1, <2>2, <2>4 DEF Labels, LocalInv
    <2> HIDE DEF l, label
    <2>6. pc' \in [Callers -> Labels] /\ loc' \in [Callers -> Locals] /\ CallerInv'
      BY <2>3, <2>4, <2>5, CallerStep
    <2> QED BY <1>0, <1>b, <1>2, <2>6, QuietStep DEF PayloadMissing, redisVars, bounds
  <1>3. CASE PayloadFound(c)
    <2> DEFINE p == assignment[L.addr]
               l == [L EXCEPT !.old = p]
    <2>1. L.user \in Users /\ L.addr \in Addrs
      BY <1>3, <1>a DEF PayloadFound, LocalInv
    <2>2. p \in Payload
      BY <1>3, <1>b, <2>1 DEF PayloadFound, Usable
    <2>3. CASE L.via = "rotate"
      <3>1. Goto(c, "archive") /\ SetLocals(c, l) /\ UNCHANGED given
        BY <1>3, <2>3 DEF PayloadFound
      <3>2. /\ l \in Locals /\ l.via = L.via /\ l.user = L.user
            /\ l.addr = L.addr /\ l.old = p
        <4> HIDE DEF L, p
        <4> QED BY <1>a, <2>2 DEF Locals
      <3>3. "archive" \in Labels /\ LocalInv("archive", l)
        <4> HIDE DEF l, p
        <4> QED BY <2>1, <2>2, <2>3, <3>2 DEF Labels, LocalInv
      <3> HIDE DEF l
      <3>4. pc' \in [Callers -> Labels] /\ loc' \in [Callers -> Locals] /\ CallerInv'
        BY <3>1, <3>2, <3>3, CallerStep
      <3> QED BY <1>0, <1>b, <1>3, <3>1, <3>4, QuietStep DEF PayloadFound, redisVars, bounds
    <2>4. CASE L.via = "held"
      <3>1. Goto(c, "release") /\ UNCHANGED <<loc, given>>
        BY <1>3, <2>4 DEF PayloadFound
      <3>2. pc' \in [Callers -> Labels] /\ loc' \in [Callers -> Locals] /\ CallerInv'
        BY <1>a, <2>1, <3>1 DEF TypeInv, TypeOK, Labels, Goto, CallerInv, LocalInv
      <3> QED BY <1>0, <1>b, <1>3, <3>1, <3>2, QuietStep DEF PayloadFound, redisVars, bounds
    <2>5. CASE L.via \notin {"rotate", "held"}
      <3>1. Return(c)
        BY <1>3, <2>5 DEF PayloadFound
      <3> QED BY <1>0, <1>b, <1>3, <3>1, ReturnType, QuietStep DEF PayloadFound, redisVars, bounds
    <2> QED BY <2>3, <2>4, <2>5
  <1>4. CASE UnIndex(c)
    <2> DEFINE label == CASE L.via = "fast" -> "lock"
                          [] L.via = "load" -> "scan"
                          [] L.via = "rotate" -> "candidates"
    <2>1. L.user \in Users /\ L.via \in {"fast", "load", "rotate"}
      BY <1>4, <1>a DEF UnIndex, LocalInv
    <2>2. label \in {"lock", "scan", "candidates"}
      BY <2>1
    <2>3. Goto(c, label) /\ UNCHANGED loc
      BY <1>4 DEF UnIndex
    <2> HIDE DEF label
    <2>4. pc' \in [Callers -> Labels] /\ loc' \in [Callers -> Locals] /\ CallerInv'
      BY <2>1, <2>2, <2>3 DEF TypeInv, TypeOK, Labels, Goto, CallerInv, LocalInv
    <2>5. index' \in [Users -> Addrs \cup {NoAddr}]
      BY <1>4, <1>b DEF UnIndex
    <2> QED BY <1>0, <1>b, <1>4, <2>4, <2>5, QuietStep DEF UnIndex, redisVars, bounds
  <1>5. CASE Scan(c)
    <2>1. L.user \in Users
      BY <1>5, <1>a DEF Scan, LocalInv
    <2>2. Active(L.user) # {} => Canonical(L.user) \in Addrs
      BY <1>b, <2>1, CanonicalActive, PoolAssumption DEF Active
    <2>3. given' \in [Users -> SUBSET Addrs]
      BY <1>5, <1>b, <2>1, <2>2 DEF Scan
    <2>4. pc' \in [Callers -> Labels] /\ loc' \in [Callers -> Locals] /\ CallerInv'
      BY <1>5, FinishType DEF Scan
    <2> QED BY <1>0, <1>b, <1>5, <2>3, <2>4, QuietStep DEF Scan, redisVars, bounds
  <1> QED BY <1>1, <1>2, <1>3, <1>4, <1>5 DEF Lookup

LEMMA LockType ==
    ASSUME TypeInv, NEW c \in Callers, Lock(c)
    PROVE  TypeInv'
  <1> DEFINE L == loc[c]
  <1>0. pc[c] # "idle"
    BY DEF Lock, LockTaken, LockBusy, LockGivenUp, Release
  <1>a. L \in Locals /\ LocalInv(pc[c], L)
    BY <1>0, UnderWay
  <1>b. /\ assignment \in [Addrs -> Payload \cup {None}]
        /\ index \in [Users -> Addrs \cup {NoAddr}] /\ locked \subseteq Users
        /\ given \in [Users -> SUBSET Addrs] /\ faults \in Nat
    BY DEF TypeInv, TypeOK
  <1>c. ASSUME NEW via \in {"wait", "held", "rotate"}, L.user \in Users,
               SetLocals(c, [L EXCEPT !.via = via]), Goto(c, "index")
        PROVE  pc' \in [Callers -> Labels] /\ loc' \in [Callers -> Locals] /\ CallerInv'
    <2> DEFINE l == [L EXCEPT !.via = via]
    <2>1. l \in Locals /\ l.user = L.user
      <3> HIDE DEF L
      <3> QED BY <1>a DEF Locals
    <2>2. SetLocals(c, l)
      BY <1>c
    <2> HIDE DEF l
    <2>3. "index" \in Labels /\ LocalInv("index", l)
      BY <1>c, <2>1 DEF Labels, LocalInv
    <2> QED BY <1>c, <2>1, <2>2, <2>3, CallerStep
  <1>1. CASE LockTaken(c)
    <2>1. L.user \in Users
      BY <1>1, <1>a DEF LockTaken, LocalInv
    <2>2. pc' \in [Callers -> Labels] /\ loc' \in [Callers -> Locals] /\ CallerInv'
      BY <1>1, <1>c, <2>1 DEF LockTaken
    <2> QED BY <1>0, <1>b, <1>1, <2>1, <2>2, QuietStep DEF LockTaken, bounds
  <1>2. CASE LockBusy(c)
    <2>1. L.user \in Users
      BY <1>2, <1>a DEF LockBusy, LocalInv
    <2>2. pc' \in [Callers -> Labels] /\ loc' \in [Callers -> Locals] /\ CallerInv'
      BY <1>2, <1>c, <2>1 DEF LockBusy
    <2> QED BY <1>0, <1>b, <1>2, <2>2, QuietStep DEF LockBusy, redisVars, bounds
  <1>3. CASE LockGivenUp(c)
    BY <1>0, <1>b, <1>3, FinishType, QuietStep DEF LockGivenUp, redisVars, bounds
  <1>4. CASE Release(c)
    <2>1. faults' \in Nat /\ locked' \subseteq Users
      BY <1>4, <1>b DEF Release, Fault
    <2> QED BY <1>0, <1>b, <1>4, <2>1, ReturnType, QuietStep DEF Release, bounds
  <1> QED BY <1>1, <1>2, <1>3, <1>4 DEF Lock

LEMMA TakeType ==
    ASSUME TypeInv, NEW c \in Callers, Take(c)
    PROVE  TypeInv'
  <1> DEFINE L == loc[c]
  <1>0. pc[c] # "idle"
    BY DEF Take, Archive, Candidates, Claim, Grow, PoolFull, Register, Publish
  <1>a. L \in Locals /\ LocalInv(pc[c], L) /\ L.user \in Users
    BY <1>0, UnderWay DEF LocalInv, Take, Archive, Candidates, Claim, Grow, PoolFull,
                          Register, Publish
  <1>b. /\ assignment \in [Addrs -> Payload \cup {None}]
        /\ index \in [Users -> Addrs \cup {NoAddr}] /\ locked \subseteq Users
        /\ given \in [Users -> SUBSET Addrs] /\ faults \in Nat /\ clock \in Nat
        /\ pool \in 0 .. MaxPool /\ pool = file
    BY DEF TypeInv, TypeOK, PoolInv
  <1>c. /\ L.addr \in Addrs \cup {NoAddr} /\ L.last \in 0 .. MaxPool /\ L.now \in Nat
        /\ NewPayload(L.user, L.now) \in Payload
    BY <1>a DEF Locals, NewPayload, Payload
  <1>d. ASSUME NEW l \in Locals, l.user = L.user,
               NEW label \in {"unindex", "claim", "release", "register", "publish"},
               label \in {"register", "publish"} => l.addr \in Addrs,
               label = "unindex" => l.via = "rotate",
               SetLocals(c, l), Goto(c, label)
        PROVE  pc' \in [Callers -> Labels] /\ loc' \in [Callers -> Locals] /\ CallerInv'
    <2>1. label \in Labels /\ LocalInv(label, l)
      BY <1>a, <1>d DEF Labels, LocalInv
    <2> QED BY <1>d, <2>1, CallerStep
  <1>e. ASSUME NEW a \in Addrs \cup {NoAddr}, NEW n \in 0 .. MaxPool
        PROVE  /\ [L EXCEPT !.addr = a, !.last = n] \in Locals
               /\ [L EXCEPT !.addr = a, !.last = n].user = L.user
               /\ [L EXCEPT !.addr = a, !.last = n].addr = a
    <2> HIDE DEF L
    <2> QED BY <1>a DEF Locals
  <1>1. CASE Archive(c)
    <2> DEFINE l == [L EXCEPT !.addr = NoAddr]
    <2>1. L.addr \in Addrs /\ L.old \in Payload /\ L.via = "rotate"
      BY <1>1, <1>a DEF Archive, LocalInv
    <2>2. [L.old EXCEPT !.dormant = TRUE] \in Payload
      BY <2>1 DEF Payload
    <2>3. assignment' \in [Addrs -> Payload \cup {None}]
      BY <1>1, <1>b, <2>1, <2>2 DEF Archive
    <2>4. l \in Locals /\ l.user = L.user /\ l.via = "rotate"
      <3>1. l \in Locals /\ l.user = L.user /\ l.via = L.via
        <4> HIDE DEF L
        <4> QED BY <1>a DEF Locals
      <3> QED BY <2>1, <3>1
    <2>5. SetLocals(c, l) /\ Goto(c, "unindex")
      BY <1>1 DEF Archive
    <2> HIDE DEF l
    <2>6. pc' \in [Callers -> Labels] /\ loc' \in [Callers -> Locals] /\ CallerInv'
      BY <1>d, <2>4, <2>5
    <2> QED BY <1>0, <1>b, <1>1, <2>3, <2>6, QuietStep DEF Archive, bounds
  <1>2. CASE Candidates(c)
    <2> DEFINE n == IF L.op = "rotate" THEN clock ELSE L.now
               l == [L EXCEPT !.addr = NoAddr, !.last = pool, !.now = n]
    <2>1. l \in Locals /\ l.user = L.user
      <3>1. n \in Nat
        BY <1>b, <1>c
      <3> HIDE DEF L, n
      <3> QED BY <1>a, <1>b, <3>1 DEF Locals
    <2>2. SetLocals(c, l) /\ Goto(c, "claim")
      BY <1>2 DEF Candidates
    <2> HIDE DEF l, n
    <2>3. pc' \in [Callers -> Labels] /\ loc' \in [Callers -> Locals] /\ CallerInv'
      BY <1>d, <2>1, <2>2
    <2> QED BY <1>0, <1>b, <1>2, <2>3, QuietStep DEF Candidates, redisVars, bounds
  <1>3. CASE Claim(c)
    <2> DEFINE a == L.addr + 1
    <2>1. a \in Addrs
      BY <1>3, <1>c, PoolAssumption DEF Claim
    <2>2. assignment' \in [Addrs -> Payload \cup {None}]
      BY <1>3, <1>b, <1>c, <2>1 DEF Claim
    <2>3. CASE Free(a)
      <3> DEFINE l == [L EXCEPT !.addr = a, !.last = 0]
      <3>1. l \in Locals /\ l.user = L.user /\ l.addr \in Addrs
        <4>1. 0 \in 0 .. MaxPool
          BY PoolAssumption
        <4> HIDE DEF a
        <4> QED BY <1>e, <2>1, <4>1
      <3>2. SetLocals(c, l) /\ Goto(c, "publish")
        BY <1>3, <2>3 DEF Claim
      <3> HIDE DEF l
      <3>3. pc' \in [Callers -> Labels] /\ loc' \in [Callers -> Locals] /\ CallerInv'
        BY <1>d, <3>1, <3>2
      <3> QED BY <1>0, <1>b, <1>3, <2>2, <3>3, QuietStep DEF Claim, bounds
    <2>4. CASE ~Free(a)
      <3> DEFINE l == [L EXCEPT !.addr = a, !.last = L.last]
      <3>1. l \in Locals /\ l.user = L.user /\ l.addr \in Addrs
        <4> HIDE DEF a
        <4> QED BY <1>c, <1>e, <2>1
      <3>2. SetLocals(c, l) /\ Goto(c, "claim")
        BY <1>3, <2>4 DEF Claim
      <3> HIDE DEF l
      <3>3. pc' \in [Callers -> Labels] /\ loc' \in [Callers -> Locals] /\ CallerInv'
        BY <1>d, <3>1, <3>2
      <3> QED BY <1>0, <1>b, <1>3, <2>2, <3>3, QuietStep DEF Claim, bounds
    <2> QED BY <2>3, <2>4
  <1>4. CASE Grow(c)
    <2>1. PICK ok \in BOOLEAN :
            /\ Fault(~ok)
            /\ file' = Appended(ok)
            /\ pool' = IF ok THEN pool + 1 ELSE pool
            /\ SetLocals(c, [L EXCEPT !.addr = IF ok THEN pool + 1 ELSE NoAddr])
            /\ Goto(c, IF ok THEN "register" ELSE "release")
      BY <1>4 DEF Grow
    <2>2. pool + 1 \in Addrs
      BY <1>4, <1>b, PoolAssumption DEF Grow, HasRoom
    <2>3. pool' \in 0 .. MaxPool /\ pool' = file' /\ faults' \in Nat
      BY <1>b, <2>1, <2>2, PoolAssumption DEF Fault, Appended
    <2> DEFINE a == IF ok THEN pool + 1 ELSE NoAddr
               l == [L EXCEPT !.addr = a]
               label == IF ok THEN "register" ELSE "release"
    <2>4. a \in Addrs \cup {NoAddr} /\ (ok => a \in Addrs)
      BY <2>2
    <2>5. l \in Locals /\ l.user = L.user /\ l.addr = a
      <3> HIDE DEF a, L
      <3> QED BY <1>a, <2>4 DEF Locals
    <2>6. SetLocals(c, l) /\ Goto(c, label)
      BY <2>1
    <2>7. label \in {"register", "release"} /\ (label = "register" => l.addr \in Addrs)
      <3> HIDE DEF l, a
      <3> QED BY <2>4, <2>5
    <2> HIDE DEF l, label
    <2>8. pc' \in [Callers -> Labels] /\ loc' \in [Callers -> Locals] /\ CallerInv'
      BY <1>d, <2>5, <2>6, <2>7
    <2>9. phase = "serve"
      BY <1>0, UnderWay
    <2> QED BY <1>b, <1>4, <2>3, <2>8, <2>9, ServedStep DEF Grow, TypeInv, TypeOK, redisVars
  <1>5. CASE PoolFull(c)
    <2> DEFINE l == [L EXCEPT !.addr = NoAddr]
    <2>1. l \in Locals /\ l.user = L.user
      <3> HIDE DEF L
      <3> QED BY <1>a DEF Locals
    <2>2. SetLocals(c, l) /\ Goto(c, "release")
      BY <1>5 DEF PoolFull
    <2> HIDE DEF l
    <2>3. pc' \in [Callers -> Labels] /\ loc' \in [Callers -> Locals] /\ CallerInv'
      BY <1>d, <2>1, <2>2
    <2> QED BY <1>0, <1>b, <1>5, <2>3, QuietStep DEF PoolFull, redisVars, bounds
  <1>6. CASE Register(c)
    <2> DEFINE a == L.addr
    <2>1. a \in Addrs
      BY <1>6, <1>a DEF Register, LocalInv
    <2>2. assignment' \in [Addrs -> Payload \cup {None}]
      BY <1>6, <1>b, <1>c, <2>1 DEF Register
    <2>3. CASE Free(a)
      <3>1. Goto(c, "publish") /\ UNCHANGED loc
        BY <1>6, <2>3 DEF Register
      <3>2. pc' \in [Callers -> Labels] /\ loc' \in [Callers -> Locals] /\ CallerInv'
        BY <1>a, <2>1, <3>1 DEF TypeInv, TypeOK, Labels, Goto, CallerInv, LocalInv
      <3> QED BY <1>0, <1>b, <1>6, <2>2, <3>2, QuietStep DEF Register, bounds
    <2>4. CASE ~Free(a)
      <3> DEFINE l == [L EXCEPT !.addr = NoAddr]
      <3>1. l \in Locals /\ l.user = L.user
        <4> HIDE DEF L
        <4> QED BY <1>a DEF Locals
      <3>2. SetLocals(c, l) /\ Goto(c, "release")
        BY <1>6, <2>4 DEF Register
      <3> HIDE DEF l
      <3>3. pc' \in [Callers -> Labels] /\ loc' \in [Callers -> Locals] /\ CallerInv'
        BY <1>d, <3>1, <3>2
      <3> QED BY <1>0, <1>b, <1>6, <2>2, <3>3, QuietStep DEF Register, bounds
    <2> QED BY <2>3, <2>4
  <1>7. CASE Publish(c)
    <2>1. Goto(c, "release") /\ UNCHANGED loc
      BY <1>7 DEF Publish
    <2>2. pc' \in [Callers -> Labels] /\ loc' \in [Callers -> Locals] /\ CallerInv'
      BY <1>a, <2>1 DEF TypeInv, TypeOK, Labels, Goto, CallerInv, LocalInv
    <2>3. index' \in [Users -> Addrs \cup {NoAddr}]
      BY <1>7, <1>b, <1>c DEF Publish
    <2> QED BY <1>0, <1>b, <1>7, <2>2, <2>3, QuietStep DEF Publish, bounds
  <1> QED BY <1>1, <1>2, <1>3, <1>4, <1>5, <1>6, <1>7 DEF Take

LEMMA CancelType ==
    ASSUME TypeInv, NEW c \in Callers, Cancel(c)
    PROVE  TypeInv'
  <1> DEFINE L == loc[c]
  <1>0. pc[c] # "idle"
    BY DEF Cancel, CancelScan, CancelDelete
  <1>a. L \in Locals /\ LocalInv(pc[c], L)
    BY <1>0, UnderWay
  <1>b. /\ assignment \in [Addrs -> Payload \cup {None}]
        /\ index \in [Users -> Addrs \cup {NoAddr}] /\ locked \subseteq Users
        /\ given \in [Users -> SUBSET Addrs] /\ faults \in Nat
    BY DEF TypeInv, TypeOK
  <1>1. CASE CancelScan(c)
    <2> DEFINE U == {u \in Users : index[u] # NoAddr}
               l == [L EXCEPT !.users = U, !.locks = locked]
    <2>1. l \in Locals /\ l.via = L.via
      <3>1. U \in SUBSET Users
        OBVIOUS
      <3> HIDE DEF L, U
      <3> QED BY <1>a, <1>b, <3>1 DEF Locals
    <2>2. SetLocals(c, l) /\ Goto(c, "delete")
      BY <1>1 DEF CancelScan
    <2> HIDE DEF l, U
    <2>3. "delete" \in Labels /\ LocalInv("delete", l)
      BY <1>1, <1>a, <2>1 DEF CancelScan, Labels, LocalInv
    <2>4. pc' \in [Callers -> Labels] /\ loc' \in [Callers -> Locals] /\ CallerInv'
      BY <2>1, <2>2, <2>3, CallerStep
    <2> QED BY <1>0, <1>b, <1>1, <2>4, QuietStep DEF CancelScan, redisVars, bounds
  <1>2. CASE CancelDelete(c)
    <2>1. /\ assignment' \in [Addrs -> Payload \cup {None}]
          /\ index' \in [Users -> Addrs \cup {NoAddr}] /\ locked' \subseteq Users
      BY <1>2, <1>b DEF CancelDelete
    <2>2. pc' \in [Callers -> Labels] /\ loc' \in [Callers -> Locals] /\ CallerInv'
      BY <1>2, FinishType DEF CancelDelete
    <2>3. phase = "serve"
      BY <1>0, UnderWay
    <2>4. pool' \in 0 .. MaxPool /\ pool' = file' /\ given' = given /\ UNCHANGED bootVars
      BY <1>2, <2>3 DEF CancelDelete, TypeInv, TypeOK, PoolInv, poolVars
    <2>5. clock' \in Nat /\ faults' \in Nat /\ stalls' \in Nat /\ cancels' \in Nat
      BY <1>2 DEF CancelDelete, TypeInv, TypeOK
    <2> QED BY <1>b, <2>1, <2>2, <2>3, <2>4, <2>5, ServedStep
  <1> QED BY <1>1, <1>2 DEF Cancel

LEMMA RedisErrorType ==
    ASSUME TypeInv, NEW c \in Callers, RedisError(c)
    PROVE  TypeInv'
  <1> DEFINE L == loc[c]
             l == [L EXCEPT !.addr = NoAddr]
  <1>0. pc[c] # "idle"
    BY DEF RedisError
  <1>a. L \in Locals /\ LocalInv(pc[c], L)
    BY <1>0, UnderWay
  <1>b. /\ assignment \in [Addrs -> Payload \cup {None}]
        /\ index \in [Users -> Addrs \cup {NoAddr}] /\ locked \subseteq Users
        /\ given \in [Users -> SUBSET Addrs] /\ faults \in Nat
    BY DEF TypeInv, TypeOK
  <1>1. faults' \in Nat
    BY <1>b DEF RedisError, Fault
  <1>2. pc' \in [Callers -> Labels] /\ loc' \in [Callers -> Locals] /\ CallerInv'
    <2>1. CASE Finish(c)
      BY <2>1, FinishType
    <2>2. CASE Goto(c, "release") /\ SetLocals(c, l) /\ L.user \in Users
      <3>1. l \in Locals /\ l.user = L.user
        <4> HIDE DEF L
        <4> QED BY <1>a DEF Locals
      <3> HIDE DEF l
      <3>2. "release" \in Labels /\ LocalInv("release", l)
        BY <2>2, <3>1 DEF Labels, LocalInv
      <3> QED BY <2>2, <3>1, <3>2, CallerStep
    <2>3. pc[c] \in {"claim", "register"} => L.user \in Users
      BY <1>a DEF LocalInv
    <2>4. L.via = "rotate" => L.user \in Users
      BY <1>0, <1>a DEF LocalInv
    <2> QED BY <2>1, <2>2, <2>3, <2>4 DEF RedisError
  <1> QED BY <1>0, <1>1, <1>2, <1>b, QuietStep DEF RedisError, redisVars

LEMMA TypeNext == TypeInv /\ [Next]_vars => TypeInv'
  <1> SUFFICES ASSUME TypeInv, [Next]_vars PROVE TypeInv'
    OBVIOUS
  <1>1. CASE Boot
    BY <1>1, BootType
  <1>2. CASE Crash \/ Tick \/ \E u \in Users : LockExpires(u)
    BY <1>2, OutsideType
  <1>3. ASSUME NEW c \in Callers,
               Start(c) \/ Lookup(c) \/ Lock(c) \/ Take(c) \/ Cancel(c) \/ RedisError(c)
        PROVE  TypeInv'
    BY <1>3, StartType, LookupType, LockType, TakeType, CancelType, RedisErrorType
  <1>4. CASE UNCHANGED vars
    BY <1>4 DEF vars, redisVars, poolVars, bootVars, bounds, TypeInv, TypeOK, CallerInv,
                BootInv, PoolInv, Active
  <1> QED BY <1>1, <1>2, <1>3, <1>4 DEF Next

\* Redis, the wallet lists and the requests keep their types: no request leaves
\* the pool, and no index or lock points outside it.
THEOREM TypeCorrect == Spec => []TypeOK
  <1>1. TypeInv => TypeOK
    BY DEF TypeInv
  <1> QED BY <1>1, TypeInit, TypeNext, PTL DEF Spec

----------------------------------------------------------------------------
(* Nobody is given an address whose key is not in the file. *)

\* No address beyond the file is assigned, indexed or in a request's hands.
DiskInv ==
    /\ \A a \in Addrs : assignment[a] # None => a <= file
    /\ \A u \in Users : index[u] <= file
    /\ \A c \in Callers : loc[c].addr <= file /\ loc[c].last <= file
    /\ KeyOnDisk

LEMMA DiskInit == Init => DiskInv
  <1> SUFFICES ASSUME Init PROVE DiskInv
    OBVIOUS
  <1>1. file \in Nat
    BY PoolAssumption DEF Init
  <1> QED BY <1>1 DEF Init, DiskInv, KeyOnDisk, InitLocals

\* The file only grows.
LEMMA DiskStep ==
    ASSUME TypeInv, TypeInv', DiskInv, file <= file',
           \A a \in Addrs : assignment'[a] \in {assignment[a], None} \/ assignment[a] # None
                             \/ a <= file',
           \A u \in Users : index'[u] = index[u] \/ index'[u] <= file',
           \A c \in Callers : loc'[c].addr = loc[c].addr \/ loc'[c].addr <= file',
           \A c \in Callers : loc'[c].last = loc[c].last \/ loc'[c].last <= file',
           \A u \in Users : \A a \in given'[u] : a \in given[u] \/ a <= file'
    PROVE  DiskInv'
  <1>1. file \in Nat /\ file' \in Nat
    BY DEF TypeInv, TypeOK
  <1>2. /\ \A u \in Users : index[u] \in Nat
        /\ \A u \in Users : given[u] \subseteq Addrs
        /\ \A c \in Callers : loc[c].addr \in Nat /\ loc[c].last \in Nat
    BY DEF TypeInv, TypeOK, Locals
  <1>3. \A u \in Users : \A a \in given[u] : a <= file'
    BY <1>1, <1>2 DEF DiskInv, KeyOnDisk
  <1>4. \A u \in Users : index'[u] <= file'
    BY <1>1, <1>2 DEF DiskInv
  <1>5. \A c \in Callers : loc'[c].addr <= file' /\ loc'[c].last <= file'
    BY <1>1, <1>2 DEF DiskInv
  <1>6. \A a \in Addrs : assignment'[a] # None => a <= file'
    BY <1>1 DEF DiskInv
  <1> QED BY <1>3, <1>4, <1>5, <1>6 DEF DiskInv, KeyOnDisk

LEMMA ActiveOnDisk ==
    ASSUME TypeInv, DiskInv, NEW u \in Users, NEW a \in Active(u)
    PROVE  a \in Addrs /\ a <= file /\ assignment[a] # None /\ assignment[a].user = u
  BY PoolAssumption DEF TypeInv, TypeOK, DiskInv, Active, None

LEMMA CanonicalOnDisk ==
    ASSUME TypeInv, DiskInv, NEW u \in Users, Active(u) # {}
    PROVE  Canonical(u) \in Active(u) /\ Canonical(u) <= file
  BY CanonicalActive, ActiveOnDisk, PoolAssumption DEF TypeInv, TypeOK

\* Where the addresses in the locals come from.
LEMMA LocalAddrs ==
    ASSUME TypeInv, NEW c \in Callers, NEW l \in Locals, SetLocals(c, l),
           l.addr = loc[c].addr \/ l.addr <= file',
           l.last = loc[c].last \/ l.last <= file'
    PROVE  /\ \A d \in Callers : loc'[d].addr = loc[d].addr \/ loc'[d].addr <= file'
           /\ \A d \in Callers : loc'[d].last = loc[d].last \/ loc'[d].last <= file'
  BY DEF TypeInv, TypeOK, SetLocals

LEMMA FinishAddrs ==
    ASSUME TypeInv, TypeInv', NEW c \in Callers, Finish(c)
    PROVE  /\ \A d \in Callers : loc'[d].addr = loc[d].addr \/ loc'[d].addr <= file'
           /\ \A d \in Callers : loc'[d].last = loc[d].last \/ loc'[d].last <= file'
  <1>1. InitLocals.addr <= file' /\ InitLocals.last <= file'
    BY DEF InitLocals, TypeInv, TypeOK
  <1> QED BY <1>1, InitLocalsType, LocalAddrs DEF Finish

LEMMA ReturnAddrs ==
    ASSUME TypeInv, TypeInv', DiskInv, file <= file', NEW c \in Callers, Return(c)
    PROVE  /\ \A d \in Callers : loc'[d].addr = loc[d].addr \/ loc'[d].addr <= file'
           /\ \A d \in Callers : loc'[d].last = loc[d].last \/ loc'[d].last <= file'
           /\ \A u \in Users : \A a \in given'[u] : a \in given[u] \/ a <= file'
  <1>0. /\ file \in Nat /\ file' \in Nat
        /\ loc[c].addr \in Nat
    BY DEF TypeInv, TypeOK, Locals
  <1>1. loc[c].addr <= file'
    BY <1>0 DEF DiskInv
  <1>2. \A u \in Users : \A a \in given'[u] : a \in given[u] \/ a <= file'
    BY <1>1 DEF Return, TypeInv, TypeOK
  <1> QED BY <1>2, FinishAddrs DEF Return

LEMMA DiskBoot ==
    ASSUME TypeInv, TypeInv', DiskInv, Boot
    PROVE  DiskInv'
  <1>0. file = file' /\ file \in Nat /\ file <= file' /\ loc' = loc /\ given' = given
    <2>1. file' = file /\ loc' = loc /\ given' = given
      BY Zenon DEF Boot, BootLoad, BootError, Listen, BootArchive, BootIndex, poolVars
    <2>2. file \in Nat
      BY DEF TypeInv, TypeOK
    <2> QED BY <2>1, <2>2
  <1>1. CASE BootLoad \/ BootError \/ Listen
    <2>1. assignment' = assignment /\ index' = index
      BY <1>1 DEF BootLoad, BootError, Listen, redisVars
    <2> QED BY <1>0, <2>1, DiskStep
  <1>2. ASSUME NEW u \in Users, BootArchive(u) PROVE DiskInv'
    <2>1. PICK a \in Duplicates(u) : assignment' = [assignment EXCEPT ![a].dormant = TRUE]
      BY <1>2 DEF BootArchive
    <2>2. assignment[a] # None
      BY <2>1, ActiveOnDisk DEF Duplicates
    <2>3. \A b \in Addrs : assignment'[b] = assignment[b] \/ assignment[b] # None
      BY <2>1, <2>2 DEF TypeInv, TypeOK
    <2> QED BY <1>0, <1>2, <2>3, DiskStep DEF BootArchive
  <1>3. ASSUME NEW u \in Users, BootIndex(u) PROVE DiskInv'
    <2>1. Canonical(u) <= file
      BY <1>3, CanonicalOnDisk DEF BootIndex, TypeInv, BootInv
    <2>2. \A v \in Users : index'[v] = index[v] \/ index'[v] <= file'
      BY <1>0, <1>3, <2>1 DEF BootIndex, TypeInv, TypeOK
    <2> QED BY <1>0, <1>3, <2>2, DiskStep DEF BootIndex
  <1> QED BY <1>1, <1>2, <1>3 DEF Boot

LEMMA DiskOutside ==
    ASSUME TypeInv, TypeInv', DiskInv, Crash \/ Tick \/ \E u \in Users : LockExpires(u)
    PROVE  DiskInv'
  <1>0. /\ file = file' /\ file \in Nat /\ file <= file' /\ given' = given
        /\ assignment' = assignment /\ index' = index
    <2>1. file' = file /\ given' = given /\ assignment' = assignment /\ index' = index
      BY Zenon DEF Crash, Tick, LockExpires, redisVars, poolVars
    <2>2. file \in Nat
      BY DEF TypeInv, TypeOK
    <2> QED BY <2>1, <2>2
  <1>1. CASE Crash
    <2>1. \A c \in Callers : loc'[c] = InitLocals
      BY <1>1 DEF Crash
    <2>2. InitLocals.addr <= file' /\ InitLocals.last <= file'
      BY <1>0 DEF InitLocals
    <2> QED BY <1>0, <2>1, <2>2, DiskStep
  <1>2. CASE Tick \/ \E u \in Users : LockExpires(u)
    BY <1>0, <1>2, DiskStep DEF Tick, LockExpires
  <1> QED BY <1>1, <1>2

\* A step of a request that assigns, indexes and hands out nothing new.
LEMMA DiskQuiet ==
    ASSUME TypeInv, TypeInv', DiskInv, file' = file, assignment' = assignment, given' = given,
           \A u \in Users : index'[u] \in {index[u], NoAddr},
           \A d \in Callers : loc'[d].addr = loc[d].addr \/ loc'[d].addr <= file',
           \A d \in Callers : loc'[d].last = loc[d].last \/ loc'[d].last <= file'
    PROVE  DiskInv'
  <1>1. file \in Nat
    BY DEF TypeInv, TypeOK
  <1> QED BY <1>1, DiskStep

LEMMA DiskStart ==
    ASSUME TypeInv, TypeInv', DiskInv, NEW c \in Callers, Start(c)
    PROVE  DiskInv'
  <1>1. /\ file' = file /\ assignment' = assignment /\ given' = given /\ index' = index
    BY Zenon DEF Start, StartCancel, StartAssign, StartRotate, StartLoad, redisVars, poolVars
  <1>2. file \in Nat
    BY DEF TypeInv, TypeOK
  <1>3. \A d \in Callers : /\ loc'[d].addr = loc[d].addr \/ loc'[d].addr = 0
                           /\ loc'[d].last = loc[d].last \/ loc'[d].last = 0
    <2>1. ASSUME NEW l, l.addr = 0, l.last = 0, SetLocals(c, l)
          PROVE  \A d \in Callers : /\ loc'[d].addr = loc[d].addr \/ loc'[d].addr = 0
                                    /\ loc'[d].last = loc[d].last \/ loc'[d].last = 0
      BY <2>1 DEF SetLocals, TypeInv, TypeOK
    <2>2. /\ [InitLocals EXCEPT !.op = "cancel", !.keys = {a \in Addrs : ~Free(a)}].addr = 0
          /\ [InitLocals EXCEPT !.op = "cancel", !.keys = {a \in Addrs : ~Free(a)}].last = 0
      BY DEF InitLocals
    <2>3. CASE StartCancel(c)
      BY <2>1, <2>2, <2>3 DEF StartCancel
    <2>4. ASSUME NEW u \in Users, StartAssign(c, u) \/ StartRotate(c, u) \/ StartLoad(c, u)
          PROVE  \E l : l.addr = 0 /\ l.last = 0 /\ SetLocals(c, l)
      <3>1. CASE StartAssign(c, u)
        <4> DEFINE l == [InitLocals EXCEPT !.op = "assign", !.user = u, !.now = clock]
        <4>1. l.addr = 0 /\ l.last = 0
          BY DEF InitLocals
        <4>2. SetLocals(c, l)
          BY <3>1 DEF StartAssign
        <4> HIDE DEF l
        <4> QED BY <4>1, <4>2
      <3>2. CASE StartRotate(c, u)
        <4> DEFINE l == [InitLocals EXCEPT !.op = "rotate", !.user = u]
        <4>1. l.addr = 0 /\ l.last = 0
          BY DEF InitLocals
        <4>2. SetLocals(c, l)
          BY <3>2 DEF StartRotate
        <4> HIDE DEF l
        <4> QED BY <4>1, <4>2
      <3>3. CASE StartLoad(c, u)
        <4> DEFINE l == [InitLocals EXCEPT !.op = "load", !.user = u, !.via = "load"]
        <4>1. l.addr = 0 /\ l.last = 0
          BY DEF InitLocals
        <4>2. SetLocals(c, l)
          BY <3>3 DEF StartLoad
        <4> HIDE DEF l
        <4> QED BY <4>1, <4>2
      <3> QED BY <2>4, <3>1, <3>2, <3>3
    <2> QED BY <2>1, <2>3, <2>4 DEF Start
  <1> QED BY <1>1, <1>2, <1>3, DiskQuiet

LEMMA DiskLookup ==
    ASSUME TypeInv, TypeInv', DiskInv, NEW c \in Callers, Lookup(c)
    PROVE  DiskInv'
  <1> DEFINE L == loc[c]
  <1>0. /\ file' = file /\ assignment' = assignment
        /\ \A u \in Users : index'[u] \in {index[u], NoAddr}
    <2>1. file' = file /\ assignment' = assignment
      BY Zenon DEF Lookup, ReadIndex, PayloadMissing, PayloadFound, UnIndex, Scan,
                   redisVars, poolVars
    <2>2. \A u \in Users : index'[u] \in {index[u], NoAddr}
      BY DEF Lookup, ReadIndex, PayloadMissing, PayloadFound, UnIndex, Scan, redisVars,
             TypeInv, TypeOK
    <2> QED BY <2>1, <2>2
  <1>a. file \in Nat /\ file <= file'
    BY <1>0 DEF TypeInv, TypeOK
  <1>b. pc[c] # "idle"
    BY DEF Lookup, ReadIndex, PayloadMissing, PayloadFound, UnIndex, Scan
  <1>c. L \in Locals /\ LocalInv(pc[c], L)
    BY <1>b, UnderWay
  <1>1. CASE ReadIndex(c)
    <2> DEFINE a == index[L.user]
               l == [L EXCEPT !.addr = a]
    <2>1. L.user \in Users
      BY <1>1, <1>c DEF ReadIndex, LocalInv
    <2>2. a \in Addrs \cup {NoAddr} /\ a <= file'
      BY <1>0, <2>1 DEF TypeInv, TypeOK, DiskInv
    <2>3. l \in Locals /\ l.addr = a /\ l.last = L.last
      <3> HIDE DEF a, L
      <3> QED BY <1>c, <2>2 DEF Locals
    <2>4. SetLocals(c, l) /\ given' = given
      BY <1>1 DEF ReadIndex
    <2> HIDE DEF l
    <2>5. /\ \A d \in Callers : loc'[d].addr = loc[d].addr \/ loc'[d].addr <= file'
          /\ \A d \in Callers : loc'[d].last = loc[d].last \/ loc'[d].last <= file'
      BY <2>2, <2>3, <2>4, LocalAddrs
    <2> QED BY <1>0, <2>4, <2>5, DiskQuiet
  <1>2. CASE PayloadMissing(c)
    <2> DEFINE l == [L EXCEPT !.addr = NoAddr]
    <2>1. l \in Locals /\ l.addr = NoAddr /\ l.last = L.last
      <3> HIDE DEF L
      <3> QED BY <1>c DEF Locals
    <2>2. SetLocals(c, l) /\ given' = given
      BY <1>2 DEF PayloadMissing
    <2>3. NoAddr <= file'
      BY <1>a, <1>0
    <2> HIDE DEF l
    <2>4. /\ \A d \in Callers : loc'[d].addr = loc[d].addr \/ loc'[d].addr <= file'
          /\ \A d \in Callers : loc'[d].last = loc[d].last \/ loc'[d].last <= file'
      BY <2>1, <2>2, <2>3, LocalAddrs
    <2> QED BY <1>0, <2>2, <2>4, DiskQuiet
  <1>3. CASE PayloadFound(c)
    <2> DEFINE p == assignment[L.addr]
               l == [L EXCEPT !.old = p]
    <2>1. CASE L.via = "rotate"
      <3>1. SetLocals(c, l) /\ given' = given
        BY <1>3, <2>1 DEF PayloadFound
      <3>2. L.addr \in Addrs
        BY <1>3, <1>c DEF PayloadFound, LocalInv
      <3>3. l \in Locals /\ l.addr = L.addr /\ l.last = L.last
        <4>1. p \in Payload \cup {None}
          BY <3>2 DEF TypeInv, TypeOK
        <4> HIDE DEF p, L
        <4> QED BY <1>c, <4>1 DEF Locals
      <3> HIDE DEF l
      <3>4. /\ \A d \in Callers : loc'[d].addr = loc[d].addr \/ loc'[d].addr <= file'
            /\ \A d \in Callers : loc'[d].last = loc[d].last \/ loc'[d].last <= file'
        BY <3>1, <3>3, LocalAddrs
      <3> QED BY <1>0, <3>1, <3>4, DiskQuiet
    <2>2. CASE L.via = "held"
      <3>1. loc' = loc /\ given' = given
        BY <1>3, <2>2 DEF PayloadFound
      <3> QED BY <1>0, <3>1, DiskQuiet
    <2>3. CASE L.via \notin {"rotate", "held"}
      <3>1. Return(c)
        BY <1>3, <2>3 DEF PayloadFound
      <3>2. index' = index
        BY <1>3 DEF PayloadFound, redisVars
      <3> QED BY <1>0, <1>a, <3>1, <3>2, ReturnAddrs, DiskStep
    <2> QED BY <2>1, <2>2, <2>3
  <1>4. CASE UnIndex(c)
    <2>1. loc' = loc /\ given' = given
      BY <1>4 DEF UnIndex
    <2> QED BY <1>0, <2>1, DiskQuiet
  <1>5. CASE Scan(c)
    <2>1. L.user \in Users
      BY <1>5, <1>c DEF Scan, LocalInv
    <2>2. \A u \in Users : \A a \in given'[u] : a \in given[u] \/ a <= file'
      <3>1. CASE Active(L.user) = {}
        BY <1>5, <3>1 DEF Scan
      <3>2. CASE Active(L.user) # {}
        <4>1. Canonical(L.user) <= file'
          BY <1>0, <2>1, <3>2, CanonicalOnDisk
        <4> QED BY <1>5, <2>1, <3>2, <4>1 DEF Scan, TypeInv, TypeOK
      <3> QED BY <3>1, <3>2
    <2>3. Finish(c) /\ index' = index
      BY <1>5 DEF Scan, redisVars
    <2> QED BY <1>0, <1>a, <2>2, <2>3, FinishAddrs, DiskStep
  <1> QED BY <1>1, <1>2, <1>3, <1>4, <1>5 DEF Lookup

LEMMA DiskLock ==
    ASSUME TypeInv, TypeInv', DiskInv, NEW c \in Callers, Lock(c)
    PROVE  DiskInv'
  <1> DEFINE L == loc[c]
  <1>0. /\ file' = file /\ assignment' = assignment /\ index' = index
    BY Zenon DEF Lock, LockTaken, LockBusy, LockGivenUp, Release, redisVars, poolVars
  <1>a. file \in Nat /\ file <= file'
    BY <1>0 DEF TypeInv, TypeOK
  <1>b. L \in Locals
    BY DEF TypeInv, TypeOK
  <1>1. ASSUME NEW v \in {"wait", "held", "rotate"}, SetLocals(c, [L EXCEPT !.via = v]),
               given' = given
        PROVE  DiskInv'
    <2> DEFINE l == [L EXCEPT !.via = v]
    <2>1. l \in Locals /\ l.addr = L.addr /\ l.last = L.last
      <3> HIDE DEF L
      <3> QED BY <1>b DEF Locals
    <2>2. SetLocals(c, l)
      BY <1>1
    <2> HIDE DEF l
    <2>3. /\ \A d \in Callers : loc'[d].addr = loc[d].addr \/ loc'[d].addr <= file'
          /\ \A d \in Callers : loc'[d].last = loc[d].last \/ loc'[d].last <= file'
      BY <2>1, <2>2, LocalAddrs
    <2> QED BY <1>0, <1>1, <2>3, DiskQuiet
  <1>2. CASE LockTaken(c)
    <2> DEFINE v == IF L.op = "assign" THEN "held" ELSE "rotate"
    <2>1. SetLocals(c, [L EXCEPT !.via = v]) /\ given' = given
      BY <1>2 DEF LockTaken
    <2>2. v \in {"wait", "held", "rotate"}
      OBVIOUS
    <2> HIDE DEF v
    <2> QED BY <1>1, <2>1, <2>2
  <1>3. CASE LockBusy(c)
    BY <1>1, <1>3 DEF LockBusy
  <1>4. CASE LockGivenUp(c)
    BY <1>0, <1>4, FinishAddrs, DiskQuiet DEF LockGivenUp
  <1>5. CASE Release(c)
    BY <1>0, <1>a, <1>5, ReturnAddrs, DiskStep DEF Release
  <1> QED BY <1>2, <1>3, <1>4, <1>5 DEF Lock

LEMMA DiskTake ==
    ASSUME TypeInv, TypeInv', DiskInv, NEW c \in Callers, Take(c)
    PROVE  DiskInv'
  <1> DEFINE L == loc[c]
  <1>0. given' = given
    BY Zenon DEF Take, Archive, Candidates, Claim, Grow, PoolFull, Register, Publish
  <1>a. file \in Nat /\ file' \in Nat /\ pool = file /\ pool' = file'
    BY DEF TypeInv, TypeOK, PoolInv
  <1>b. pc[c] # "idle"
    BY DEF Take, Archive, Candidates, Claim, Grow, PoolFull, Register, Publish
  <1>c. /\ L \in Locals /\ LocalInv(pc[c], L)
        /\ L.addr \in Addrs \cup {NoAddr} /\ L.last \in 0 .. MaxPool
        /\ L.addr <= file /\ L.last <= file
    BY <1>b, UnderWay DEF Locals, DiskInv
  \* A step that sets the address, or the number of candidates, in the locals.
  <1>d. ASSUME NEW l \in Locals, SetLocals(c, l), l.addr <= file', l.last <= file'
        PROVE  /\ \A d \in Callers : loc'[d].addr = loc[d].addr \/ loc'[d].addr <= file'
               /\ \A d \in Callers : loc'[d].last = loc[d].last \/ loc'[d].last <= file'
    BY <1>d, LocalAddrs
  <1>e. ASSUME NEW a \in Addrs \cup {NoAddr}, NEW n \in 0 .. MaxPool, NEW t \in Nat
        PROVE  /\ [L EXCEPT !.addr = a] \in Locals
               /\ [L EXCEPT !.addr = a].addr = a /\ [L EXCEPT !.addr = a].last = L.last
               /\ [L EXCEPT !.addr = a, !.last = n] \in Locals
               /\ [L EXCEPT !.addr = a, !.last = n].addr = a
               /\ [L EXCEPT !.addr = a, !.last = n].last = n
               /\ [L EXCEPT !.addr = a, !.last = n, !.now = t] \in Locals
               /\ [L EXCEPT !.addr = a, !.last = n, !.now = t].addr = a
               /\ [L EXCEPT !.addr = a, !.last = n, !.now = t].last = n
    <2> HIDE DEF L
    <2> QED BY <1>c, <1>e DEF Locals
  <1>1. CASE Archive(c)
    <2> DEFINE l == [L EXCEPT !.addr = NoAddr]
    <2>1. l \in Locals /\ l.addr = 0 /\ l.last = L.last
      BY <1>c, <1>e
    <2>2. SetLocals(c, l) /\ file' = file /\ index' = index
      BY <1>1 DEF Archive, poolVars
    <2> HIDE DEF l
    <2>3. /\ \A d \in Callers : loc'[d].addr = loc[d].addr \/ loc'[d].addr <= file'
          /\ \A d \in Callers : loc'[d].last = loc[d].last \/ loc'[d].last <= file'
      BY <1>a, <1>c, <1>d, <2>1, <2>2
    <2>4. \A a \in Addrs : assignment'[a] = assignment[a] \/ a <= file'
      BY <1>1, <1>c, <2>2 DEF Archive, TypeInv, TypeOK
    <2> QED BY <1>0, <1>a, <2>2, <2>3, <2>4, DiskStep
  <1>2. CASE Candidates(c)
    <2> DEFINE t == IF L.op = "rotate" THEN clock ELSE L.now
               l == [L EXCEPT !.addr = NoAddr, !.last = pool, !.now = t]
    <2>1. t \in Nat /\ pool \in 0 .. MaxPool
      BY <1>c DEF Locals, TypeInv, TypeOK
    <2>2. SetLocals(c, l) /\ file' = file /\ assignment' = assignment /\ index' = index
      BY <1>2 DEF Candidates, redisVars, poolVars
    <2> HIDE DEF t
    <2>3. l \in Locals /\ l.addr = 0 /\ l.last = pool
      <3> HIDE DEF L
      <3> QED BY <1>c, <2>1 DEF Locals
    <2> HIDE DEF l
    <2>4. /\ \A d \in Callers : loc'[d].addr = loc[d].addr \/ loc'[d].addr <= file'
          /\ \A d \in Callers : loc'[d].last = loc[d].last \/ loc'[d].last <= file'
      BY <1>a, <1>d, <2>2, <2>3
    <2> QED BY <1>0, <2>2, <2>4, DiskQuiet
  <1>3. CASE Claim(c)
    <2> DEFINE a == L.addr + 1
               n == IF Free(a) THEN 0 ELSE L.last
               l == [L EXCEPT !.addr = a, !.last = n]
    <2>1. a \in Addrs /\ a <= file /\ n \in 0 .. MaxPool /\ n <= file
      BY <1>3, <1>a, <1>c, PoolAssumption DEF Claim
    <2>2. SetLocals(c, l) /\ file' = file /\ index' = index
      BY <1>3 DEF Claim, poolVars
    <2>3. \A b \in Addrs : assignment'[b] = assignment[b] \/ b <= file'
      BY <1>3, <2>1, <2>2 DEF Claim, TypeInv, TypeOK
    <2> HIDE DEF a, n
    <2>4. l \in Locals /\ l.addr = a /\ l.last = n
      BY <1>e, <2>1
    <2> HIDE DEF l
    <2>5. /\ \A d \in Callers : loc'[d].addr = loc[d].addr \/ loc'[d].addr <= file'
          /\ \A d \in Callers : loc'[d].last = loc[d].last \/ loc'[d].last <= file'
      BY <1>d, <2>1, <2>2, <2>4
    <2> QED BY <1>0, <1>a, <2>2, <2>3, <2>5, DiskStep
  <1>4. CASE Grow(c)
    <2>1. PICK ok \in BOOLEAN :
            /\ file' = Appended(ok)
            /\ SetLocals(c, [L EXCEPT !.addr = IF ok THEN pool + 1 ELSE NoAddr])
      BY <1>4 DEF Grow
    <2> DEFINE a == IF ok THEN pool + 1 ELSE NoAddr
               l == [L EXCEPT !.addr = a]
    <2>2. file <= file' /\ a <= file' /\ a \in Addrs \cup {NoAddr}
      BY <1>4, <1>a, <2>1, PoolAssumption DEF Appended, Grow, HasRoom
    <2>3. SetLocals(c, l) /\ assignment' = assignment /\ index' = index
      BY <1>4, <2>1 DEF Grow, redisVars
    <2> HIDE DEF a
    <2>4. l \in Locals /\ l.addr = a /\ l.last = L.last
      BY <1>c, <1>e, <2>2
    <2> HIDE DEF l
    <2>5. L.last <= file'
      BY <1>a, <1>c, <2>2
    <2>6. /\ \A d \in Callers : loc'[d].addr = loc[d].addr \/ loc'[d].addr <= file'
          /\ \A d \in Callers : loc'[d].last = loc[d].last \/ loc'[d].last <= file'
      BY <1>d, <2>2, <2>3, <2>4, <2>5
    <2> QED BY <1>0, <2>2, <2>3, <2>6, DiskStep
  <1>5. CASE PoolFull(c)
    <2> DEFINE l == [L EXCEPT !.addr = NoAddr]
    <2>1. l \in Locals /\ l.addr = 0 /\ l.last = L.last
      BY <1>c, <1>e
    <2>2. SetLocals(c, l) /\ file' = file /\ assignment' = assignment /\ index' = index
      BY <1>5 DEF PoolFull, redisVars, poolVars
    <2> HIDE DEF l
    <2>3. /\ \A d \in Callers : loc'[d].addr = loc[d].addr \/ loc'[d].addr <= file'
          /\ \A d \in Callers : loc'[d].last = loc[d].last \/ loc'[d].last <= file'
      BY <1>a, <1>c, <1>d, <2>1, <2>2
    <2> QED BY <1>0, <2>2, <2>3, DiskQuiet
  <1>6. CASE Register(c)
    <2> DEFINE l == [L EXCEPT !.addr = NoAddr]
    <2>0. file' = file /\ index' = index
      BY <1>6 DEF Register, poolVars
    <2>1. l \in Locals /\ l.addr = 0 /\ l.last = L.last
      BY <1>c, <1>e
    <2>2. SetLocals(c, l) \/ loc' = loc
      BY <1>6 DEF Register
    <2>3. \A a \in Addrs : assignment'[a] = assignment[a] \/ a <= file'
      BY <1>6, <1>c, <2>0 DEF Register, TypeInv, TypeOK
    <2> HIDE DEF l
    <2>4. /\ \A d \in Callers : loc'[d].addr = loc[d].addr \/ loc'[d].addr <= file'
          /\ \A d \in Callers : loc'[d].last = loc[d].last \/ loc'[d].last <= file'
      BY <1>a, <1>c, <1>d, <2>0, <2>1, <2>2
    <2> QED BY <1>0, <1>a, <2>0, <2>3, <2>4, DiskStep
  <1>7. CASE Publish(c)
    <2>1. file' = file /\ assignment' = assignment /\ loc' = loc
      BY <1>7 DEF Publish, poolVars
    <2>2. \A u \in Users : index'[u] = index[u] \/ index'[u] <= file'
      BY <1>7, <1>c, <2>1 DEF Publish, TypeInv, TypeOK
    <2> QED BY <1>0, <1>a, <2>1, <2>2, DiskStep
  <1> QED BY <1>1, <1>2, <1>3, <1>4, <1>5, <1>6, <1>7 DEF Take

LEMMA DiskCancel ==
    ASSUME TypeInv, TypeInv', DiskInv, NEW c \in Callers, Cancel(c)
    PROVE  DiskInv'
  <1>0. file' = file /\ given' = given
    BY Zenon DEF Cancel, CancelScan, CancelDelete, poolVars
  <1>a. file \in Nat /\ file <= file'
    BY <1>0 DEF TypeInv, TypeOK
  <1>1. CASE CancelScan(c)
    <2> DEFINE U == {u \in Users : index[u] # NoAddr}
               l == [loc[c] EXCEPT !.users = U, !.locks = locked]
    <2>1. l \in Locals /\ l.addr = loc[c].addr /\ l.last = loc[c].last
      <3>1. loc[c] \in Locals /\ locked \in SUBSET Users /\ U \in SUBSET Users
        BY DEF TypeInv, TypeOK
      <3> HIDE DEF U
      <3> QED BY <3>1 DEF Locals
    <2>2. SetLocals(c, l) /\ assignment' = assignment /\ index' = index
      BY <1>1 DEF CancelScan, redisVars
    <2> HIDE DEF l
    <2>3. /\ \A d \in Callers : loc'[d].addr = loc[d].addr \/ loc'[d].addr <= file'
          /\ \A d \in Callers : loc'[d].last = loc[d].last \/ loc'[d].last <= file'
      BY <2>1, <2>2, LocalAddrs
    <2> QED BY <1>0, <2>2, <2>3, DiskQuiet
  <1>2. CASE CancelDelete(c)
    <2>1. \A a \in Addrs : assignment'[a] \in {assignment[a], None}
      BY <1>2 DEF CancelDelete
    <2>2. \A u \in Users : index'[u] = index[u] \/ index'[u] <= file'
      BY <1>2, <1>0, <1>a DEF CancelDelete
    <2> QED BY <1>0, <1>2, <1>a, <2>1, <2>2, FinishAddrs, DiskStep DEF CancelDelete
  <1> QED BY <1>1, <1>2 DEF Cancel

LEMMA DiskRedisError ==
    ASSUME TypeInv, TypeInv', DiskInv, NEW c \in Callers, RedisError(c)
    PROVE  DiskInv'
  <1> DEFINE l == [loc[c] EXCEPT !.addr = NoAddr]
  <1>0. file' = file /\ given' = given /\ assignment' = assignment /\ index' = index
    BY DEF RedisError, redisVars, poolVars
  <1>1. l \in Locals /\ l.addr = 0 /\ l.last = loc[c].last
    <2>1. loc[c] \in Locals
      BY DEF TypeInv, TypeOK
    <2> QED BY <2>1 DEF Locals
  <1>2. SetLocals(c, l) \/ Finish(c)
    BY DEF RedisError
  <1>3. 0 <= file'
    BY DEF TypeInv, TypeOK
  <1> HIDE DEF l
  <1>4. /\ \A d \in Callers : loc'[d].addr = loc[d].addr \/ loc'[d].addr <= file'
        /\ \A d \in Callers : loc'[d].last = loc[d].last \/ loc'[d].last <= file'
    BY <1>1, <1>2, <1>3, LocalAddrs, FinishAddrs
  <1> QED BY <1>0, <1>4, DiskQuiet

LEMMA DiskNext == TypeInv /\ TypeInv' /\ DiskInv /\ [Next]_vars => DiskInv'
  <1> SUFFICES ASSUME TypeInv, TypeInv', DiskInv, [Next]_vars PROVE DiskInv'
    OBVIOUS
  <1>1. CASE Boot
    BY <1>1, DiskBoot
  <1>2. CASE Crash \/ Tick \/ \E u \in Users : LockExpires(u)
    BY <1>2, DiskOutside
  <1>3. ASSUME NEW c \in Callers,
               Start(c) \/ Lookup(c) \/ Lock(c) \/ Take(c) \/ Cancel(c) \/ RedisError(c)
        PROVE  DiskInv'
    BY <1>3, DiskStart, DiskLookup, DiskLock, DiskTake, DiskCancel, DiskRedisError
  <1>4. CASE UNCHANGED vars
    BY <1>4 DEF vars, redisVars, poolVars, DiskInv, KeyOnDisk
  <1> QED BY <1>1, <1>2, <1>3, <1>4 DEF Next

\* append_solana_wallet_to_pool_file writes the key of a wallet before any
\* request can assign it: whatever fails, nobody is given an address whose key
\* is not in the file.
THEOREM KeysOnDisk == Spec => []KeyOnDisk
  <1>1. DiskInv => KeyOnDisk
    BY DEF DiskInv
  <1> QED BY <1>1, TypeInit, TypeNext, DiskInit, DiskNext, PTL DEF Spec

----------------------------------------------------------------------------
(* An address stays with the user it was given to. *)

\* From the read of the payload to the answer, the address a request holds is
\* assigned to its user, and so is the payload a rotation is about to write back.
HoldsAddr(label, l) ==
    /\ label \in {"payload", "archive", "publish", "release"} /\ l.addr # NoAddr =>
         assignment[l.addr].user = l.user
    /\ label = "archive" => l.old.user = l.user

IndexInv == \A u \in Users : index[u] # NoAddr => assignment[index[u]].user = u
GivenInv == \A u \in Users : \A a \in given[u] : assignment[a].user = u
HoldInv == \A c \in Callers : HoldsAddr(pc[c], loc[c])
AttrInv == cancels = 0 => GivenInv /\ IndexInv /\ HoldInv

\* No assigned address changes hands in this step.
OwnersStay == \A a \in Addrs : assignment[a].user \in Users =>
                                 assignment'[a].user = assignment[a].user

LEMMA AttrInit == Init => AttrInv
  BY DEF Init, AttrInv, IndexInv, GivenInv, HoldInv, HoldsAddr, InitLocals

\* What a step has to do to break nobody's attribution.
LEMMA AttrStep ==
    ASSUME TypeInv, TypeInv', AttrInv, cancels' = cancels,
           cancels = 0 =>
             /\ OwnersStay
             /\ \A u \in Users : \A a \in given'[u] : a \in given[u] \/ assignment'[a].user = u
             /\ \A u \in Users : \/ index'[u] = index[u] \/ index'[u] = NoAddr
                                 \/ assignment'[index'[u]].user = u
             /\ \A c \in Callers : \/ pc'[c] = pc[c] /\ loc'[c] = loc[c]
                                   \/ HoldsAddr(pc[c], loc[c])'
    PROVE  AttrInv'
  <1> SUFFICES ASSUME cancels = 0 PROVE GivenInv' /\ IndexInv' /\ HoldInv'
    BY DEF AttrInv
  <1>0. GivenInv /\ IndexInv /\ HoldInv /\ OwnersStay
    BY DEF AttrInv
  <1>1. GivenInv'
    <2> SUFFICES ASSUME NEW u \in Users, NEW a \in given'[u] PROVE assignment'[a].user = u
      BY DEF GivenInv
    <2>1. CASE a \in given[u]
      <3>1. a \in Addrs /\ assignment[a].user = u
        BY <1>0, <2>1 DEF GivenInv, TypeInv, TypeOK
      <3> QED BY <1>0, <3>1 DEF OwnersStay
    <2>2. CASE a \notin given[u]
      BY <2>2
    <2> QED BY <2>1, <2>2
  <1>2. IndexInv'
    <2> SUFFICES ASSUME NEW u \in Users, index'[u] # NoAddr PROVE assignment'[index'[u]].user = u
      BY DEF IndexInv
    <2>1. CASE index'[u] = index[u]
      <3>1. index[u] \in Addrs /\ assignment[index[u]].user = u
        BY <1>0, <2>1 DEF IndexInv, TypeInv, TypeOK
      <3> QED BY <1>0, <2>1, <3>1 DEF OwnersStay
    <2> QED BY <2>1
  <1>3. HoldInv'
    <2> SUFFICES ASSUME NEW c \in Callers, pc'[c] = pc[c], loc'[c] = loc[c]
                 PROVE  HoldsAddr(pc[c], loc[c])'
      BY DEF HoldInv
    <2>1. HoldsAddr(pc[c], loc[c])
      BY <1>0 DEF HoldInv
    <2>2. loc[c].addr \in Addrs \cup {NoAddr}
      BY DEF TypeInv, TypeOK, Locals
    <2>3. pc[c] \in {"payload", "archive", "publish", "release"} => loc[c].user \in Users
      BY DEF TypeInv, CallerInv, LocalInv
    <2> QED BY <1>0, <2>1, <2>2, <2>3 DEF HoldsAddr, OwnersStay
  <1> QED BY <1>1, <1>2, <1>3

\* The same for a step of one request.
LEMMA AttrCaller ==
    ASSUME TypeInv, TypeInv', AttrInv, cancels' = cancels,
           NEW c \in Callers, NEW label, NEW l, Goto(c, label), SetLocals(c, l),
           cancels = 0 =>
             /\ OwnersStay
             /\ \A u \in Users : \A a \in given'[u] : a \in given[u] \/ assignment'[a].user = u
             /\ \A u \in Users : \/ index'[u] = index[u] \/ index'[u] = NoAddr
                                 \/ assignment'[index'[u]].user = u
             /\ label \in {"payload", "archive", "publish", "release"} /\ l.addr # NoAddr =>
                  assignment'[l.addr].user = l.user
             /\ label = "archive" => l.old.user = l.user
    PROVE  AttrInv'
  <1>1. /\ pc'[c] = label /\ loc'[c] = l
        /\ \A d \in Callers \ {c} : pc'[d] = pc[d] /\ loc'[d] = loc[d]
    BY DEF Goto, SetLocals, TypeInv, TypeOK
  <1>3. cancels = 0 => HoldsAddr(pc[c], loc[c])'
    BY <1>1 DEF HoldsAddr
  <1>4. cancels = 0 => \A d \in Callers : \/ pc'[d] = pc[d] /\ loc'[d] = loc[d]
                                         \/ HoldsAddr(pc[d], loc[d])'
    BY <1>1, <1>3
  <1> QED BY <1>4, AttrStep

\* A step of a request that leaves Redis as it is and tells its user nothing.
LEMMA AttrQuiet ==
    ASSUME TypeInv, TypeInv', AttrInv, UNCHANGED <<assignment, index, given, cancels>>,
           NEW c \in Callers, NEW label, NEW l, Goto(c, label), SetLocals(c, l),
           label \in {"payload", "archive", "publish", "release"} => l.addr = NoAddr,
           label # "archive"
    PROVE  AttrInv'
  <1>1. OwnersStay
    BY DEF OwnersStay
  <1> QED BY <1>1, AttrCaller

\* A request may end by telling its user the address it holds.
LEMMA AttrReturn ==
    ASSUME TypeInv, TypeInv', AttrInv, UNCHANGED <<assignment, index, cancels>>,
           NEW c \in Callers, pc[c] \in {"payload", "release"}, Return(c)
    PROVE  AttrInv'
  <1>1. OwnersStay
    BY DEF OwnersStay
  <1>2. loc[c].user \in Users
    BY DEF TypeInv, CallerInv, LocalInv
  <1>3. ASSUME cancels = 0, NEW u \in Users, NEW a \in given'[u]
        PROVE  a \in given[u] \/ assignment'[a].user = u
    <2>1. loc[c].addr # NoAddr => assignment[loc[c].addr].user = loc[c].user
      BY <1>3 DEF AttrInv, HoldInv, HoldsAddr
    <2> QED BY <1>2, <1>3, <2>1 DEF Return, TypeInv, TypeOK
  <1>4. Goto(c, "idle") /\ SetLocals(c, InitLocals)
    BY DEF Return, Finish
  <1> QED BY <1>1, <1>3, <1>4, AttrCaller

LEMMA AttrFinish ==
    ASSUME TypeInv, TypeInv', AttrInv, UNCHANGED <<assignment, index, given, cancels>>,
           NEW c \in Callers, Finish(c)
    PROVE  AttrInv'
  BY AttrQuiet DEF Finish

LEMMA AttrBoot ==
    ASSUME TypeInv, TypeInv', AttrInv, Boot
    PROVE  AttrInv'
  <1>0. UNCHANGED <<given, cancels, pc, loc>>
    BY Zenon DEF Boot, BootLoad, BootError, Listen, BootArchive, BootIndex, bounds
  <1>2. CASE BootLoad \/ BootError \/ Listen
    <2>1. assignment' = assignment /\ index' = index
      BY <1>2 DEF BootLoad, BootError, Listen, redisVars
    <2>2. OwnersStay
      BY <2>1 DEF OwnersStay
    <2> QED BY <1>0, <2>1, <2>2, AttrStep
  <1>3. ASSUME NEW u \in Users, BootArchive(u) PROVE AttrInv'
    <2>1. PICK a \in Duplicates(u) : assignment' = [assignment EXCEPT ![a].dormant = TRUE]
      BY <1>3 DEF BootArchive
    <2>2. a \in Addrs /\ assignment[a] \in Payload
      BY <2>1, PoolAssumption DEF Duplicates, Active, TypeInv, TypeOK, None
    <2>3. OwnersStay
      BY <2>1, <2>2 DEF OwnersStay, Payload, TypeInv, TypeOK
    <2>4. index' = index
      BY <1>3 DEF BootArchive
    <2> QED BY <1>0, <2>3, <2>4, AttrStep
  <1>4. ASSUME NEW u \in Users, BootIndex(u) PROVE AttrInv'
    <2>1. assignment[Canonical(u)].user = u
      <3>1. Active(u) # {} /\ assignment \in [Addrs -> Payload \cup {None}]
        BY <1>4 DEF BootIndex, TypeInv, TypeOK, BootInv
      <3>2. Canonical(u) \in Active(u)
        BY <3>1, CanonicalActive, PoolAssumption
      <3> QED BY <3>2 DEF Active
    <2>2. OwnersStay /\ assignment' = assignment
      BY <1>4 DEF BootIndex, OwnersStay
    <2>3. \A v \in Users : index'[v] = index[v] \/ assignment'[index'[v]].user = v
      BY <1>4, <2>1, <2>2 DEF BootIndex, TypeInv, TypeOK
    <2> QED BY <1>0, <2>2, <2>3, AttrStep
  <1> QED BY <1>2, <1>3, <1>4 DEF Boot

LEMMA AttrOutside ==
    ASSUME TypeInv, TypeInv', AttrInv, Crash \/ Tick \/ \E u \in Users : LockExpires(u)
    PROVE  AttrInv'
  <1>0. UNCHANGED <<assignment, index, given, cancels>>
    BY Zenon DEF Crash, Tick, LockExpires, redisVars
  <1>1. OwnersStay
    BY <1>0 DEF OwnersStay
  <1>2. CASE Crash
    <2>1. \A c \in Callers : pc'[c] = "idle" /\ loc'[c] = InitLocals
      BY <1>2 DEF Crash
    <2>2. \A c \in Callers : HoldsAddr(pc[c], loc[c])'
      BY <2>1 DEF HoldsAddr
    <2> QED BY <1>0, <1>1, <2>2, AttrStep
  <1>3. CASE Tick \/ \E u \in Users : LockExpires(u)
    <2>1. pc' = pc /\ loc' = loc
      BY <1>3, Zenon DEF Tick, LockExpires
    <2> QED BY <1>0, <1>1, <2>1, AttrStep
  <1> QED BY <1>2, <1>3

LEMMA AttrStart ==
    ASSUME TypeInv, TypeInv', AttrInv, NEW c \in Callers, Start(c)
    PROVE  AttrInv'
  <1>1. CASE StartCancel(c)
    <2>1. /\ UNCHANGED <<assignment, index, given, cancels>>
          /\ Goto(c, "keys") /\ \E l : SetLocals(c, l)
      BY <1>1, Zenon DEF StartCancel, redisVars, bounds
    <2> QED BY <2>1, AttrQuiet
  <1>2. ASSUME NEW u \in Users, StartAssign(c, u) \/ StartRotate(c, u) \/ StartLoad(c, u)
        PROVE  AttrInv'
    <2>1. UNCHANGED <<assignment, index, given, cancels>>
      BY <1>2, Zenon DEF StartAssign, StartRotate, StartLoad, redisVars, bounds
    <2>2. \E label \in {"index", "lock"} : \E l : Goto(c, label) /\ SetLocals(c, l)
      BY <1>2, Zenon DEF StartAssign, StartRotate, StartLoad
    <2> QED BY <2>1, <2>2, AttrQuiet
  <1> QED BY <1>1, <1>2 DEF Start

LEMMA AttrLookup ==
    ASSUME TypeInv, TypeInv', AttrInv, NEW c \in Callers, Lookup(c)
    PROVE  AttrInv'
  <1> DEFINE L == loc[c]
  <1>0. UNCHANGED <<assignment, cancels>>
    BY Zenon DEF Lookup, ReadIndex, PayloadMissing, PayloadFound, UnIndex, Scan, redisVars, bounds
  <1>a. OwnersStay
    BY <1>0 DEF OwnersStay
  <1>b. pc[c] # "idle"
    BY DEF Lookup, ReadIndex, PayloadMissing, PayloadFound, UnIndex, Scan
  <1>c. L \in Locals /\ LocalInv(pc[c], L)
    BY <1>b, UnderWay
  <1>1. CASE ReadIndex(c)
    <2> DEFINE a == index[L.user]
               l == [L EXCEPT !.addr = a]
               label == IF a = NoAddr THEN NoIndex(L.via) ELSE "payload"
    <2>1. L.user \in Users
      BY <1>1, <1>c DEF ReadIndex, LocalInv
    <2>2. label \in {"lock", "candidates", "release", "scan", "payload"}
      BY <1>c DEF Locals, NoIndex
    <2>3. l.addr = a /\ l.user = L.user
      BY <1>c DEF Locals
    <2>4. cancels = 0 => (a # NoAddr => assignment[a].user = L.user)
      BY <2>1 DEF AttrInv, IndexInv
    <2>5. Goto(c, label) /\ SetLocals(c, l) /\ UNCHANGED <<index, given>>
      BY <1>1 DEF ReadIndex, redisVars
    <2> HIDE DEF a, l, label
    <2> QED BY <1>0, <1>a, <2>2, <2>3, <2>4, <2>5, AttrCaller
  <1>2. CASE PayloadMissing(c)
    <2> DEFINE l == [L EXCEPT !.addr = NoAddr]
               label == NoPayload(L.via)
    <2>1. label \in {"unindex", "lock", "candidates", "release", "scan"}
      BY <1>c DEF Locals, NoPayload, NoIndex
    <2>2. l.addr = NoAddr
      BY <1>c DEF Locals
    <2>3. Goto(c, label) /\ SetLocals(c, l) /\ UNCHANGED <<index, given>>
      BY <1>2 DEF PayloadMissing, redisVars
    <2> HIDE DEF l, label
    <2> QED BY <1>0, <2>1, <2>2, <2>3, AttrQuiet
  <1>3. CASE PayloadFound(c)
    <2>0. pc[c] = "payload" /\ index' = index /\ L.user \in Users /\ L.addr \in Addrs
      BY <1>3, <1>c DEF PayloadFound, redisVars, LocalInv
    <2>1. cancels = 0 => assignment[L.addr].user = L.user
      BY <2>0 DEF AttrInv, HoldInv, HoldsAddr
    <2>2. CASE L.via = "rotate"
      <3> DEFINE p == assignment[L.addr]
                 l == [L EXCEPT !.old = p]
      <3>1. l.addr = L.addr /\ l.user = L.user /\ l.old = p
        BY <1>c DEF Locals
      <3>2. Goto(c, "archive") /\ SetLocals(c, l) /\ given' = given
        BY <1>3, <2>2 DEF PayloadFound
      <3> HIDE DEF l
      <3> QED BY <1>0, <1>a, <2>0, <2>1, <3>1, <3>2, AttrCaller
    <2>3. CASE L.via = "held"
      <3>1. Goto(c, "release") /\ SetLocals(c, L) /\ given' = given
        BY <1>3, <2>3 DEF PayloadFound, SetLocals, TypeInv, TypeOK
      <3> QED BY <1>0, <1>a, <2>0, <2>1, <3>1, AttrCaller
    <2>4. CASE L.via \notin {"rotate", "held"}
      <3>1. Return(c)
        BY <1>3, <2>4 DEF PayloadFound
      <3> QED BY <1>0, <2>0, <3>1, AttrReturn
    <2> QED BY <2>2, <2>3, <2>4
  <1>4. CASE UnIndex(c)
    <2> DEFINE label == CASE L.via = "fast" -> "lock"
                          [] L.via = "load" -> "scan"
                          [] L.via = "rotate" -> "candidates"
    <2>1. label \in {"lock", "scan", "candidates"}
      BY <1>4, <1>c DEF UnIndex, LocalInv
    <2>2. Goto(c, label) /\ SetLocals(c, L) /\ given' = given
      BY <1>4 DEF UnIndex, SetLocals, TypeInv, TypeOK
    <2>3. \A u \in Users : index'[u] = index[u] \/ index'[u] = NoAddr
      BY <1>4 DEF UnIndex, TypeInv, TypeOK
    <2> HIDE DEF label
    <2> QED BY <1>0, <1>a, <2>1, <2>2, <2>3, AttrCaller
  <1>5. CASE Scan(c)
    <2>1. L.user \in Users
      BY <1>5, <1>c DEF Scan, LocalInv
    <2>2. \A u \in Users : \A a \in given'[u] : a \in given[u] \/ assignment'[a].user = u
      <3>1. CASE Active(L.user) = {}
        BY <1>5, <3>1 DEF Scan
      <3>2. CASE Active(L.user) # {}
        <4>1. Canonical(L.user) \in Active(L.user)
          BY <2>1, <3>2, CanonicalActive, PoolAssumption DEF TypeInv, TypeOK
        <4>2. assignment'[Canonical(L.user)].user = L.user
          BY <1>0, <4>1 DEF Active
        <4> QED BY <1>5, <2>1, <3>2, <4>2 DEF Scan, TypeInv, TypeOK
      <3> QED BY <3>1, <3>2
    <2>3. Goto(c, "idle") /\ SetLocals(c, InitLocals) /\ index' = index
      BY <1>5 DEF Scan, Finish, redisVars
    <2> QED BY <1>0, <1>a, <2>2, <2>3, AttrCaller
  <1> QED BY <1>1, <1>2, <1>3, <1>4, <1>5 DEF Lookup

LEMMA AttrLock ==
    ASSUME TypeInv, TypeInv', AttrInv, NEW c \in Callers, Lock(c)
    PROVE  AttrInv'
  <1>0. UNCHANGED <<assignment, index, cancels>>
    BY Zenon DEF Lock, LockTaken, LockBusy, LockGivenUp, Release, redisVars, bounds
  <1>1. CASE LockTaken(c) \/ LockBusy(c)
    <2>1. given' = given /\ Goto(c, "index") /\ \E l : SetLocals(c, l)
      BY <1>1, Zenon DEF LockTaken, LockBusy
    <2> QED BY <1>0, <2>1, AttrQuiet
  <1>2. CASE LockGivenUp(c)
    BY <1>0, <1>2, AttrFinish DEF LockGivenUp
  <1>3. CASE Release(c)
    BY <1>0, <1>3, AttrReturn DEF Release
  <1> QED BY <1>1, <1>2, <1>3 DEF Lock

LEMMA AttrTake ==
    ASSUME TypeInv, TypeInv', AttrInv, NEW c \in Callers, Take(c)
    PROVE  AttrInv'
  <1> DEFINE L == loc[c]
  <1>0. UNCHANGED <<given, cancels>>
    BY Zenon DEF Take, Archive, Candidates, Claim, Grow, PoolFull, Register, Publish, bounds
  <1>b. pc[c] # "idle"
    BY DEF Take, Archive, Candidates, Claim, Grow, PoolFull, Register, Publish
  <1>c. /\ L \in Locals /\ LocalInv(pc[c], L) /\ L.user \in Users
        /\ assignment \in [Addrs -> Payload \cup {None}]
    <2>1. pc[c] \notin {"idle", "keys", "delete"}
      BY DEF Take, Archive, Candidates, Claim, Grow, PoolFull, Register, Publish
    <2> QED BY <1>b, <2>1, UnderWay DEF LocalInv, TypeInv, TypeOK
  \* SET NX of a free address takes it from nobody.
  <1>d. ASSUME NEW a \in Addrs, NEW t, Free(a),
               assignment' = [assignment EXCEPT ![a] = NewPayload(L.user, t)]
        PROVE  OwnersStay /\ assignment'[a].user = L.user
    BY <1>c, <1>d, PoolAssumption DEF OwnersStay, Free, None, NewPayload
  <1>1. CASE Archive(c)
    <2> DEFINE l == [L EXCEPT !.addr = NoAddr]
               p == [L.old EXCEPT !.dormant = TRUE]
    <2>0. L.addr \in Addrs /\ L.old \in Payload
      BY <1>1, <1>c DEF Archive, LocalInv
    <2>1. cancels = 0 => assignment[L.addr].user = L.user /\ L.old.user = L.user
      BY <1>1, <2>0 DEF Archive, AttrInv, HoldInv, HoldsAddr
    <2>2. p.user = L.old.user
      BY <2>0 DEF Payload
    <2>3. assignment' = [assignment EXCEPT ![L.addr] = p]
      BY <1>1 DEF Archive
    <2> HIDE DEF p
    <2>4. cancels = 0 => OwnersStay
      BY <1>c, <2>0, <2>1, <2>2, <2>3 DEF OwnersStay
    <2>5. Goto(c, "unindex") /\ SetLocals(c, l) /\ index' = index
      BY <1>1 DEF Archive
    <2> HIDE DEF l
    <2> QED BY <1>0, <2>4, <2>5, AttrCaller
  <1>2. CASE Candidates(c)
    <2>1. Goto(c, "claim") /\ (\E l : SetLocals(c, l)) /\ UNCHANGED <<assignment, index>>
      BY <1>2, Zenon DEF Candidates, redisVars
    <2> QED BY <1>0, <2>1, AttrQuiet
  <1>3. CASE Claim(c)
    <2> DEFINE a == L.addr + 1
    <2>0. index' = index
      BY <1>3 DEF Claim
    <2>1. a \in Addrs
      BY <1>3, <1>c, PoolAssumption DEF Claim, Locals
    <2>2. CASE Free(a)
      <3> DEFINE l == [L EXCEPT !.addr = a, !.last = 0]
      <3>1. l.addr = a /\ l.user = L.user
        BY <1>c DEF Locals
      <3>2. /\ assignment' = [assignment EXCEPT ![a] = NewPayload(L.user, L.now)]
            /\ Goto(c, "publish") /\ SetLocals(c, l)
        BY <1>3, <2>2 DEF Claim
      <3> HIDE DEF l
      <3>3. OwnersStay /\ assignment'[a].user = L.user
        BY <1>d, <2>1, <2>2, <3>2
      <3> HIDE DEF a
      <3> QED BY <1>0, <2>0, <3>1, <3>2, <3>3, AttrCaller
    <2>3. CASE ~Free(a)
      <3>1. assignment' = assignment /\ Goto(c, "claim") /\ \E l : SetLocals(c, l)
        BY <1>3, <2>3 DEF Claim
      <3> QED BY <1>0, <2>0, <3>1, AttrQuiet
    <2> QED BY <2>2, <2>3
  <1>4. CASE Grow(c)
    <2>1. PICK ok \in BOOLEAN :
            /\ SetLocals(c, [L EXCEPT !.addr = IF ok THEN pool + 1 ELSE NoAddr])
            /\ Goto(c, IF ok THEN "register" ELSE "release")
      BY <1>4, Zenon DEF Grow
    <2> DEFINE a == IF ok THEN pool + 1 ELSE NoAddr
               l == [L EXCEPT !.addr = a]
               label == IF ok THEN "register" ELSE "release"
    <2>2. l.addr = a
      BY <1>c DEF Locals
    <2>3. Goto(c, label) /\ SetLocals(c, l)
      BY <2>1
    <2>4. /\ label \in {"register", "release"}
          /\ label = "release" => l.addr = NoAddr
      BY <2>2
    <2>5. UNCHANGED <<assignment, index>>
      BY <1>4 DEF Grow, redisVars
    <2> HIDE DEF l, label
    <2> QED BY <1>0, <2>3, <2>4, <2>5, AttrQuiet
  <1>5. CASE PoolFull(c)
    <2> DEFINE l == [L EXCEPT !.addr = NoAddr]
    <2>1. l.addr = NoAddr
      BY <1>c DEF Locals
    <2>2. Goto(c, "release") /\ SetLocals(c, l) /\ UNCHANGED <<assignment, index>>
      BY <1>5 DEF PoolFull, redisVars
    <2> HIDE DEF l
    <2> QED BY <1>0, <2>1, <2>2, AttrQuiet
  <1>6. CASE Register(c)
    <2> DEFINE a == L.addr
    <2>0. a \in Addrs /\ index' = index
      BY <1>6, <1>c DEF Register, LocalInv
    <2>1. CASE Free(a)
      <3>1. /\ assignment' = [assignment EXCEPT ![a] = NewPayload(L.user, L.now)]
            /\ Goto(c, "publish") /\ SetLocals(c, L)
        BY <1>6, <2>1 DEF Register, SetLocals, TypeInv, TypeOK
      <3>2. OwnersStay /\ assignment'[a].user = L.user
        BY <1>d, <2>0, <2>1, <3>1
      <3> QED BY <1>0, <2>0, <3>1, <3>2, AttrCaller
    <2>2. CASE ~Free(a)
      <3> DEFINE l == [L EXCEPT !.addr = NoAddr]
      <3>1. l.addr = NoAddr
        BY <1>c DEF Locals
      <3>2. assignment' = assignment /\ Goto(c, "release") /\ SetLocals(c, l)
        BY <1>6, <2>2 DEF Register
      <3> HIDE DEF l
      <3> QED BY <1>0, <2>0, <3>1, <3>2, AttrQuiet
    <2> QED BY <2>1, <2>2
  <1>7. CASE Publish(c)
    <2>0. L.addr \in Addrs /\ assignment' = assignment
      BY <1>7, <1>c DEF Publish, LocalInv
    <2>1. cancels = 0 => assignment[L.addr].user = L.user
      BY <1>7, <2>0 DEF Publish, AttrInv, HoldInv, HoldsAddr
    <2>2. OwnersStay
      BY <2>0 DEF OwnersStay
    <2>3. \A u \in Users : index'[u] = index[u] \/ (u = L.user /\ index'[u] = L.addr)
      BY <1>7, <1>c DEF Publish, TypeInv, TypeOK
    <2>4. Goto(c, "release") /\ SetLocals(c, L)
      BY <1>7 DEF Publish, SetLocals, TypeInv, TypeOK
    <2> QED BY <1>0, <2>0, <2>1, <2>2, <2>3, <2>4, AttrCaller
  <1> QED BY <1>1, <1>2, <1>3, <1>4, <1>5, <1>6, <1>7 DEF Take

LEMMA AttrCancel ==
    ASSUME TypeInv, TypeInv', AttrInv, NEW c \in Callers, Cancel(c)
    PROVE  AttrInv'
  <1>1. CASE CancelScan(c)
    <2>1. /\ UNCHANGED <<assignment, index, given, cancels>>
          /\ Goto(c, "delete") /\ \E l : SetLocals(c, l)
      BY <1>1, Zenon DEF CancelScan, redisVars, bounds
    <2> QED BY <2>1, AttrQuiet
  <1>2. CASE CancelDelete(c)
    <2>1. cancels' # 0
      BY <1>2 DEF CancelDelete, TypeInv, TypeOK
    <2> QED BY <2>1 DEF AttrInv
  <1> QED BY <1>1, <1>2 DEF Cancel

LEMMA AttrRedisError ==
    ASSUME TypeInv, TypeInv', AttrInv, NEW c \in Callers, RedisError(c)
    PROVE  AttrInv'
  <1> DEFINE l == [loc[c] EXCEPT !.addr = NoAddr]
  <1>0. UNCHANGED <<assignment, index, given, cancels>>
    BY DEF RedisError, redisVars
  <1>1. l.addr = NoAddr
    BY DEF TypeInv, TypeOK, Locals
  <1>2. Finish(c) \/ (Goto(c, "release") /\ SetLocals(c, l))
    BY DEF RedisError
  <1> HIDE DEF l
  <1> QED BY <1>0, <1>1, <1>2, AttrFinish, AttrQuiet

LEMMA AttrNext == TypeInv /\ TypeInv' /\ AttrInv /\ [Next]_vars => AttrInv'
  <1> SUFFICES ASSUME TypeInv, TypeInv', AttrInv, [Next]_vars PROVE AttrInv'
    OBVIOUS
  <1>1. CASE Boot
    BY <1>1, AttrBoot
  <1>2. CASE Crash \/ Tick \/ \E u \in Users : LockExpires(u)
    BY <1>2, AttrOutside
  <1>3. ASSUME NEW c \in Callers,
               Start(c) \/ Lookup(c) \/ Lock(c) \/ Take(c) \/ Cancel(c) \/ RedisError(c)
        PROVE  AttrInv'
    BY <1>3, AttrStart, AttrLookup, AttrLock, AttrTake, AttrCancel, AttrRedisError
  <1>4. CASE UNCHANGED vars
    BY <1>4 DEF vars, redisVars, bounds, AttrInv, GivenInv, IndexInv, HoldInv, HoldsAddr
  <1> QED BY <1>1, <1>2, <1>3, <1>4 DEF Next

\* The doc of rotate_assignment promises that "the address never gets reassigned
\* to anyone else".  Until an admin cancels all assignments, that holds of every
\* address a user was ever given, for any number of requests, faults, crashes
\* and expired locks.
THEOREM AttributionForGood == Spec => []AttributionKept
  <1>1. AttrInv => AttributionKept
    BY DEF AttrInv, GivenInv, AttributionKept
  <1> QED BY <1>1, TypeInit, TypeNext, AttrInit, AttrNext, PTL DEF Spec

----------------------------------------------------------------------------
(* The pool keeps the promise of AddressBook. *)

Owner == [a \in Addrs |-> assignment[a].user]

LEMMA OwnerType ==
    ASSUME TypeInv
    PROVE  Owner \in [Addrs -> Users \cup {NoUser}]
  BY DEF TypeInv, TypeOK, Owner, Payload, None

LEMMA BookInit == Init => Book!Init
  <1> SUFFICES ASSUME Init PROVE Book!Init
    OBVIOUS
  <1>1. TypeInv
    BY TypeInit
  <1> QED BY <1>1, OwnerType DEF Init, Book!Init, Owner

\* A step that leaves every owner as it is.
LEMMA BookStutter ==
    ASSUME cancels' = cancels, \A a \in Addrs : assignment'[a].user = assignment[a].user
    PROVE  UNCHANGED Book!vars
  BY DEF Book!vars

\* SET NX of a free address is a claim of the book.
LEMMA BookClaim ==
    ASSUME TypeInv, NEW a \in Addrs, NEW u \in Users, NEW t, Free(a),
           assignment' = [assignment EXCEPT ![a] = NewPayload(u, t)], cancels' = cancels
    PROVE  Book!Next
  <1>1. assignment \in [Addrs -> Payload \cup {None}]
    BY DEF TypeInv, TypeOK
  <1> DEFINE p == NewPayload(u, t)
  <1>a. p.user = u /\ assignment' = [assignment EXCEPT ![a] = p]
    BY DEF NewPayload
  <1>b. Owner[a] = NoUser
    BY DEF Owner, Free, None
  <1> HIDE DEF p
  <1>2. Owner[a] = NoUser /\ Owner' = [Owner EXCEPT ![a] = u]
    BY <1>1, <1>a, <1>b DEF Owner
  <1>3. Book!Claim(a, u)
    BY <1>2 DEF Book!Claim, Owner
  <1> QED BY <1>3 DEF Book!Next

LEMMA BookWriteBack ==
    ASSUME TypeInv, NEW a \in Addrs, NEW p, p.user \in Users, cancels > 0,
           assignment' = [assignment EXCEPT ![a] = p], cancels' = cancels
    PROVE  Book!Next
  <1>1. PICK u \in Users : u = p.user
    OBVIOUS
  <1>2. Owner' = [Owner EXCEPT ![a] = u]
    BY <1>1 DEF Owner, TypeInv, TypeOK
  <1>3. Book!WriteBack(a, u)
    BY <1>2 DEF Book!WriteBack, Owner
  <1> QED BY <1>3 DEF Book!Next

LEMMA BookTake ==
    ASSUME TypeInv, AttrInv, NEW c \in Callers, Take(c)
    PROVE  Book!Next \/ UNCHANGED Book!vars
  <1> DEFINE L == loc[c]
  <1>0. cancels' = cancels
    BY Zenon DEF Take, Archive, Candidates, Claim, Grow, PoolFull, Register, Publish, bounds
  <1>1. /\ L \in Locals /\ LocalInv(pc[c], L) /\ L.user \in Users
        /\ assignment \in [Addrs -> Payload \cup {None}]
    <2>1. pc[c] \notin {"idle", "keys", "delete"}
      BY DEF Take, Archive, Candidates, Claim, Grow, PoolFull, Register, Publish
    <2> QED BY <2>1, UnderWay DEF LocalInv, TypeInv, TypeOK
  <1>2. CASE assignment' = assignment
    BY <1>0, <1>2, BookStutter
  \* The payload that is written back is the holder's own, if nothing was deleted.
  <1>3. CASE Archive(c)
    <2> DEFINE p == [L.old EXCEPT !.dormant = TRUE]
    <2>1. L.addr \in Addrs /\ L.old \in Payload
      BY <1>1, <1>3 DEF Archive, LocalInv
    <2>2. p.user = L.old.user /\ L.old.user \in Users
      BY <2>1 DEF Payload
    <2>3. assignment' = [assignment EXCEPT ![L.addr] = p]
      BY <1>3 DEF Archive
    <2> HIDE DEF p
    <2>4. CASE cancels = 0
      <3>1. assignment[L.addr].user = L.old.user
        BY <1>3, <2>1, <2>4 DEF Archive, AttrInv, HoldInv, HoldsAddr
      <3>2. \A a \in Addrs : assignment'[a].user = assignment[a].user
        BY <1>1, <2>1, <2>2, <2>3, <3>1
      <3> QED BY <1>0, <3>2, BookStutter
    <2>5. CASE cancels # 0
      <3>1. cancels > 0
        BY <2>5 DEF TypeInv, TypeOK
      <3> QED BY <1>0, <2>1, <2>2, <2>3, <3>1, BookWriteBack
    <2> QED BY <2>4, <2>5
  <1>4. CASE Claim(c)
    <2> DEFINE a == L.addr + 1
    <2>1. a \in Addrs
      BY <1>1, <1>4, PoolAssumption DEF Claim, Locals
    <2>2. CASE Free(a)
      <3>1. assignment' = [assignment EXCEPT ![a] = NewPayload(L.user, L.now)]
        BY <1>4, <2>2 DEF Claim
      <3> HIDE DEF a
      <3> QED BY <1>0, <1>1, <2>1, <2>2, <3>1, BookClaim
    <2>3. CASE ~Free(a)
      BY <1>2, <1>4, <2>3 DEF Claim
    <2> QED BY <2>2, <2>3
  <1>5. CASE Register(c)
    <2>1. L.addr \in Addrs
      BY <1>1, <1>5 DEF Register, LocalInv
    <2>2. CASE Free(L.addr)
      <3>1. assignment' = [assignment EXCEPT ![L.addr] = NewPayload(L.user, L.now)]
        BY <1>5, <2>2 DEF Register
      <3> QED BY <1>0, <1>1, <2>1, <2>2, <3>1, BookClaim
    <2>3. CASE ~Free(L.addr)
      BY <1>2, <1>5, <2>3 DEF Register
    <2> QED BY <2>2, <2>3
  <1>6. CASE Candidates(c) \/ Grow(c) \/ PoolFull(c) \/ Publish(c)
    BY <1>2, <1>6 DEF Candidates, Grow, PoolFull, Publish, redisVars
  <1> QED BY <1>3, <1>4, <1>5, <1>6 DEF Take

LEMMA BookDelete ==
    ASSUME TypeInv, NEW c \in Callers, CancelDelete(c)
    PROVE  Book!Next
  <1> DEFINE found == loc[c].keys
  <1>1. found \in SUBSET Addrs
    BY DEF TypeInv, TypeOK, Locals
  <1>2. Owner' = [a \in Addrs |-> IF a \in found THEN NoUser ELSE Owner[a]]
    BY DEF CancelDelete, Owner, None
  <1>3. cancels' = cancels + 1
    BY DEF CancelDelete
  <1> HIDE DEF found
  <1>4. Book!Delete
    BY <1>1, <1>2, <1>3, Zenon DEF Book!Delete, Owner
  <1> QED BY <1>4 DEF Book!Next

LEMMA BookStep ==
    ASSUME TypeInv, AttrInv, [Next]_vars
    PROVE  [Book!Next]_(Book!vars)
  <1>0. assignment \in [Addrs -> Payload \cup {None}]
    BY DEF TypeInv, TypeOK
  <1>1. CASE assignment' = assignment /\ cancels' = cancels
    BY <1>1, BookStutter
  <1>2. CASE Boot
    <2>1. cancels' = cancels
      BY <1>2, Zenon DEF Boot, BootLoad, BootError, Listen, BootArchive, BootIndex, bounds
    <2>2. ASSUME NEW u \in Users, BootArchive(u) PROVE UNCHANGED Book!vars
      <3>1. PICK a \in Duplicates(u) : assignment' = [assignment EXCEPT ![a].dormant = TRUE]
        BY <2>2 DEF BootArchive
      <3>2. a \in Addrs /\ assignment[a] \in Payload
        BY <1>0, <2>2, <3>1, PoolAssumption DEF Duplicates, Active, None
      <3>3. \A b \in Addrs : assignment'[b].user = assignment[b].user
        BY <1>0, <3>1, <3>2 DEF Payload
      <3> QED BY <2>1, <3>3, BookStutter
    <2>3. CASE BootLoad \/ BootError \/ Listen \/ \E u \in Users : BootIndex(u)
      BY <1>1, <2>1, <2>3 DEF BootLoad, BootError, Listen, BootIndex, redisVars
    <2> QED BY <1>2, <2>2, <2>3 DEF Boot
  <1>3. CASE Crash \/ Tick \/ (\E u \in Users : LockExpires(u)) \/ UNCHANGED vars
    BY <1>1, <1>3 DEF Crash, Tick, LockExpires, vars, redisVars, bounds
  <1>4. ASSUME NEW c \in Callers, Take(c) PROVE [Book!Next]_(Book!vars)
    BY <1>4, BookTake
  <1>5. ASSUME NEW c \in Callers, CancelDelete(c) PROVE [Book!Next]_(Book!vars)
    BY <1>5, BookDelete
  <1>6. ASSUME NEW c \in Callers,
               Start(c) \/ Lookup(c) \/ Lock(c) \/ CancelScan(c) \/ RedisError(c)
        PROVE  [Book!Next]_(Book!vars)
    <2>1. assignment' = assignment /\ cancels' = cancels
      BY <1>6, Zenon DEF Start, StartAssign, StartRotate, StartLoad, StartCancel,
           Lookup, ReadIndex, PayloadMissing, PayloadFound, UnIndex, Scan,
           Lock, LockTaken, LockBusy, LockGivenUp, Release, CancelScan, RedisError,
           redisVars, bounds
    <2> QED BY <1>1, <2>1
  <1> QED BY <1>2, <1>3, <1>4, <1>5, <1>6 DEF Next, Cancel

\* Whatever its requests, locks and index do, the pool gives an address only to
\* somebody when nobody holds it, and writes over a holder only after a
\* cancel-all: it implements AddressBook, which is all the detector assumes.
THEOREM PoolKeepsBook == Spec => BookSpec
  <1>1. TypeInv /\ AttrInv /\ [Next]_vars => [Book!Next]_(Book!vars)
    BY BookStep
  <1> QED BY <1>1, BookInit, TypeInit, TypeNext, AttrInit, AttrNext, PTL
          DEF Spec, BookSpec, Book!Spec

----------------------------------------------------------------------------
(* The boot consolidation *)

\* Users that are done have their one active address in the index.
DoneInv ==
    phase \in {"consolidate", "ready"} =>
        \A u \in Users \ groups : Active(u) # {} => Active(u) = {index[u]}

LEMMA DoneBoot ==
    ASSUME TypeInv, DoneInv, Boot
    PROVE  DoneInv'
  <1>0. assignment \in [Addrs -> Payload \cup {None}] /\ index \in [Users -> Addrs \cup {NoAddr}]
    BY DEF TypeInv, TypeOK
  <1>1. CASE BootLoad
    BY <1>1 DEF BootLoad, DoneInv, Active, redisVars
  <1>2. CASE BootError
    BY <1>2 DEF BootError, DoneInv
  <1>3. CASE Listen
    BY <1>3 DEF Listen, DoneInv
  \* The duplicate that is archived is of a user that is not done.
  <1>4. ASSUME NEW u \in Users, BootArchive(u) PROVE DoneInv'
    <2>1. PICK a \in Duplicates(u) : assignment' = [assignment EXCEPT ![a].dormant = TRUE]
      BY <1>4 DEF BootArchive
    <2>2. a \in Addrs /\ assignment[a].user = u
      BY <2>1 DEF Duplicates, Active
    <2>3. ASSUME NEW v \in Users \ groups PROVE Active(v)' = Active(v)
      <3>1. v # u
        BY <1>4 DEF BootArchive
      <3>2. assignment'[a].user = u
        BY <1>0, <2>1, <2>2, PoolAssumption DEF Payload, None
      <3>3. \A b \in Addrs : b # a => assignment'[b] = assignment[b]
        BY <1>0, <2>1
      <3> QED BY <2>2, <3>1, <3>2, <3>3 DEF Active
    <2>4. UNCHANGED <<index, phase, groups>>
      BY <1>4 DEF BootArchive, bootVars
    <2> QED BY <2>3, <2>4 DEF DoneInv
  <1>5. ASSUME NEW u \in Users, BootIndex(u) PROVE DoneInv'
    <2>1. Canonical(u) \in Active(u)
      BY <1>0, <1>5, CanonicalActive, PoolAssumption DEF BootIndex, TypeInv, BootInv
    <2>2. Active(u) = {Canonical(u)}
      BY <1>5, <2>1 DEF BootIndex, Duplicates
    <2>3. \A v \in Users : Active(v)' = Active(v)
      BY <1>5 DEF BootIndex, Active
    <2>4. index'[u] = Canonical(u) /\ \A v \in Users : v # u => index'[v] = index[v]
      BY <1>0, <1>5 DEF BootIndex
    <2>5. phase = "consolidate" /\ groups' = groups \ {u}
      BY <1>5 DEF BootIndex
    <2> QED BY <2>2, <2>3, <2>4, <2>5 DEF DoneInv
  <1> QED BY <1>1, <1>2, <1>3, <1>4, <1>5 DEF Boot

\* Requests run when the boot is over, so they do not disturb it.
LEMMA DoneServed ==
    ASSUME TypeInv, NEW c \in Callers,
           Start(c) \/ Lookup(c) \/ Lock(c) \/ Take(c) \/ Cancel(c) \/ RedisError(c)
    PROVE  phase' = "serve"
  <1>1. CASE Start(c)
    BY <1>1 DEF Start, StartAssign, StartRotate, StartLoad, StartCancel, bootVars
  <1>2. CASE ~Start(c)
    <2>1. pc[c] # "idle"
      BY <1>2 DEF Lookup, ReadIndex, PayloadMissing, PayloadFound, UnIndex, Scan,
                  Lock, LockTaken, LockBusy, LockGivenUp, Release,
                  Take, Archive, Candidates, Claim, Grow, PoolFull, Register, Publish,
                  Cancel, CancelScan, CancelDelete, RedisError
    <2>2. UNCHANGED phase
      BY <1>2 DEF Lookup, ReadIndex, PayloadMissing, PayloadFound, UnIndex, Scan,
                  Lock, LockTaken, LockBusy, LockGivenUp, Release,
                  Take, Archive, Candidates, Claim, Grow, PoolFull, Register, Publish,
                  Cancel, CancelScan, CancelDelete, RedisError, bootVars
    <2> QED BY <2>1, <2>2, UnderWay
  <1> QED BY <1>1, <1>2

LEMMA DoneStep ==
    ASSUME TypeInv, DoneInv, [Next]_vars
    PROVE  DoneInv'
  <1>1. CASE Boot
    BY <1>1, DoneBoot
  <1>2. CASE Crash
    BY <1>2 DEF Crash, DoneInv
  <1>3. CASE Tick \/ \E u \in Users : LockExpires(u)
    BY <1>3 DEF Tick, LockExpires, DoneInv, Active, redisVars, bootVars
  <1>4. CASE UNCHANGED vars
    BY <1>4 DEF vars, DoneInv, Active, redisVars, bootVars
  <1>5. ASSUME NEW c \in Callers,
               Start(c) \/ Lookup(c) \/ Lock(c) \/ Take(c) \/ Cancel(c) \/ RedisError(c)
        PROVE  DoneInv'
    BY <1>5, DoneServed DEF DoneInv
  <1> QED BY <1>1, <1>2, <1>3, <1>4, <1>5 DEF Next

\* However often the boot is interrupted, and whatever rotations and crashes left
\* in Redis: once it has run to its end, every user has at most one active
\* address, the one the index points at.
THEOREM BootConsolidates == Spec => []Consolidated
  <1>1. Init => DoneInv
    BY DEF Init, DoneInv
  <1>2. TypeInv /\ DoneInv => Consolidated
    <2>1. TypeInv /\ phase = "ready" => groups = {}
      BY DEF TypeInv, BootInv
    <2> QED BY <2>1 DEF DoneInv, Consolidated
  <1> QED BY <1>1, <1>2, TypeInit, TypeNext, DoneStep, PTL DEF Spec

====
