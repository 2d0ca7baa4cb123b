------------------------- MODULE EthereumPoolProofs -------------------------
(***************************************************************************)
(* Proofs about EthereumPool for every set of users, requests and keys,    *)
(* every pool size and every bound.                                        *)
(***************************************************************************)
EXTENDS EthereumPool, FiniteSetTheorems, WellFoundedInduction, TLAPS

----------------------------------------------------------------------------
(* Bounded sequences *)

LEMMA SeqOfDef ==
    ASSUME NEW S, NEW n \in Nat, NEW s
    PROVE  s \in SeqOf(S, n) <=> s \in Seq(S) /\ Len(s) <= n
  <1>1. ASSUME s \in SeqOf(S, n) PROVE s \in Seq(S) /\ Len(s) <= n
    <2>1. PICK m \in 0 .. n : s \in [1 .. m -> S]
      BY <1>1 DEF SeqOf
    <2> QED BY <2>1
  <1>2. ASSUME s \in Seq(S), Len(s) <= n PROVE s \in SeqOf(S, n)
    <2>1. Len(s) \in 0 .. n /\ s \in [1 .. Len(s) -> S]
      BY <1>2
    <2> QED BY <2>1 DEF SeqOf
  <1> QED BY <1>1, <1>2

LEMMA RangeDef ==
    ASSUME NEW S, NEW s \in Seq(S)
    PROVE  Range(s) = {s[i] : i \in 1 .. Len(s)}
  <1>1. DOMAIN s = 1 .. Len(s)
    OBVIOUS
  <1> QED BY <1>1, Zenon DEF Range

LEMMA RangeOf ==
    ASSUME NEW S, NEW s \in Seq(S)
    PROVE  /\ Range(s) \subseteq S
           /\ Range(s) = {s[i] : i \in 1 .. Len(s)}
           /\ \A a \in S : Range(Append(s, a)) = Range(s) \cup {a}
           /\ s # <<>> => Head(s) \in Range(s) /\ Range(Tail(s)) \subseteq Range(s)
  <1>1. Range(s) = {s[i] : i \in 1 .. Len(s)} /\ Range(s) \subseteq S
    BY RangeDef
  <1>2. ASSUME NEW a \in S PROVE Range(Append(s, a)) = Range(s) \cup {a}
    <2> DEFINE r == Append(s, a)
    <2>1. r \in Seq(S) /\ Len(r) = Len(s) + 1 /\ r[Len(r)] = a
      OBVIOUS
    <2>2. \A i \in 1 .. Len(s) : r[i] = s[i]
      OBVIOUS
    <2>3. 1 .. Len(r) = (1 .. Len(s)) \cup {Len(r)}
      BY <2>1
    <2>4. Range(r) = {r[i] : i \in 1 .. Len(r)}
      BY <2>1, RangeDef
    <2> HIDE DEF r
    <2>5. \A b : b \in Range(r) <=> b \in Range(s) \/ b = a
      BY <1>1, <2>1, <2>2, <2>3, <2>4
    <2>6. Range(r) = Range(s) \cup {a}
      BY <2>5
    <2> QED BY <2>6 DEF r
  <1>3. ASSUME s # <<>> PROVE Head(s) \in Range(s) /\ Range(Tail(s)) \subseteq Range(s)
    <2>1. Len(s) > 0 /\ Head(s) = s[1]
      BY <1>3
    <2>2. Head(s) \in Range(s)
      BY <1>1, <2>1
    <2>3. Tail(s) \in Seq(S) /\ Len(Tail(s)) = Len(s) - 1
      BY <1>3
    <2>4. \A i \in 1 .. Len(Tail(s)) : Tail(s)[i] = s[i + 1] /\ i + 1 \in 1 .. Len(s)
      BY <1>3
    <2>5. Range(Tail(s)) = {Tail(s)[i] : i \in 1 .. Len(Tail(s))}
      BY <2>3, RangeDef
    <2> QED BY <1>1, <2>2, <2>4, <2>5
  <1> QED BY <1>1, <1>2, <1>3

LEMMA Pools ==
    ASSUME NEW s \in SeqOf(Addrs, MaxPool)
    PROVE  /\ s \in Seq(Addrs) /\ Len(s) <= MaxPool /\ Len(s) \in Nat
           /\ Range(s) \subseteq Addrs
           /\ <<>> \in SeqOf(Addrs, MaxPool)
           /\ \A a \in Addrs : Len(s) < MaxPool => Append(s, a) \in SeqOf(Addrs, MaxPool)
           /\ \A a \in Addrs : Range(Append(s, a)) = Range(s) \cup {a}
           /\ s # <<>> => /\ Tail(s) \in SeqOf(Addrs, MaxPool)
                          /\ Head(s) \in Addrs /\ Head(s) \in Range(s)
                          /\ Range(Tail(s)) \subseteq Range(s)
  <1>0. MaxPool \in Nat
    BY PoolAssumption, FS_CardinalityType
  <1>1. s \in Seq(Addrs) /\ Len(s) <= MaxPool /\ Len(s) \in Nat
    BY <1>0, SeqOfDef
  <1>2. <<>> \in Seq(Addrs) /\ Len(<<>>) = 0
    OBVIOUS
  <1>3. <<>> \in SeqOf(Addrs, MaxPool)
    <2>1. Len(<<>>) <= MaxPool
      BY <1>0, <1>2
    <2> QED BY <1>0, <1>2, <2>1, SeqOfDef, Zenon
  <1>4. ASSUME NEW a \in Addrs, Len(s) < MaxPool PROVE Append(s, a) \in SeqOf(Addrs, MaxPool)
    <2>1. Append(s, a) \in Seq(Addrs) /\ Len(Append(s, a)) = Len(s) + 1
      BY <1>1
    <2>2. Len(Append(s, a)) <= MaxPool
      BY <1>0, <1>1, <1>4, <2>1
    <2> QED BY <1>0, <2>1, <2>2, SeqOfDef
  <1>5. ASSUME s # <<>> PROVE Tail(s) \in SeqOf(Addrs, MaxPool)
    <2>1. Tail(s) \in Seq(Addrs) /\ Len(Tail(s)) = Len(s) - 1
      BY <1>1, <1>5
    <2>2. Len(Tail(s)) <= MaxPool
      BY <1>0, <1>1, <2>1
    <2> QED BY <1>0, <2>1, <2>2, SeqOfDef
  <1> QED BY <1>1, <1>3, <1>4, <1>5, RangeOf

LEMMA EmptyRange == Range(<<>>) = {}
  BY DEF Range

LEMMA MaxPoolNat == MaxPool \in Nat /\ InitPool \in Nat /\ InitPool <= MaxPool
  BY PoolAssumption, FS_CardinalityType

LEMMA GeneratedPools == Generated \subseteq SeqOf(Addrs, MaxPool)
  <1> SUFFICES ASSUME NEW s \in Generated PROVE s \in SeqOf(Addrs, MaxPool)
    OBVIOUS
  <1>1. s \in SeqOf(Addrs, InitPool)
    BY DEF Generated
  <1>2. s \in Seq(Addrs) /\ Len(s) <= InitPool
    BY <1>1, MaxPoolNat, SeqOfDef
  <1>3. Len(s) <= MaxPool
    BY <1>2, MaxPoolNat
  <1> QED BY <1>2, <1>3, MaxPoolNat, SeqOfDef

LEMMA LeastNat ==
    ASSUME NEW S \in SUBSET Nat, S # {}
    PROVE  \E m \in S : \A n \in S : m <= n
  <1>1. \A n \in Nat, m \in Nat : n < m => <<n, m>> \in OpToRel(<, Nat)
    BY Zenon DEF OpToRel
  <1>2. PICK m \in S : \A n \in S : ~ (<<n, m>> \in OpToRel(<, Nat))
    BY NatLessThanWellFounded, WFMin, Zenon
  <1>3. \A n \in S : ~ (n < m)
    BY <1>1, <1>2, Zenon
  <1> QED BY <1>3

\* The least of a set of addresses is one of them.
LEMMA LeastIn ==
    ASSUME NEW S \in SUBSET Addrs, S # {}
    PROVE  First(S) \in S
  <1>1. S \subseteq Nat
    BY PoolAssumption
  <1>2. PICK m \in S : \A n \in S : m <= n
    BY <1>1, LeastNat
  <1> QED BY <1>2 DEF First, Min

LEMMA LeastOne ==
    ASSUME NEW a \in Addrs
    PROVE  First({a}) = a
  BY LeastIn

----------------------------------------------------------------------------
(* Types, and what a request knows of its locals where it stands *)

LocalInv(c) ==
    /\ pc[c] = "scan" => loc[c].op \in {"assign", "load", "cancel"}
    /\ pc[c] \in {"get", "lookup"} => loc[c].op \in {"assign", "load"}
    /\ pc[c] \in {"claim", "register", "grow", "insert"} => loc[c].op = "assign"
    /\ pc[c] \in {"register", "insert"} => loc[c].addr \in Addrs
    /\ pc[c] = "delete" => loc[c].op = "cancel"
    /\ loc[c].op \in {"assign", "load"} => loc[c].user \in Users
    /\ store = "redis" => pc[c] \notin {"lookup", "grow", "insert"}
    /\ store = "memory" => pc[c] \notin {"scan", "get", "claim", "register", "delete"}

\* While the server listens the wallets in memory are those of the file.
PoolInv ==
    /\ phase = "serve" => pool = file /\ fileState = "whole"
    /\ phase # "serve" => \A c \in Callers : pc[c] = "idle"
    /\ phase \in {"fill", "refused"} => fileState = "torn"
    /\ fileState # "whole" => file = <<>>

TypeInv == TypeOK /\ (\A c \in Callers : LocalInv(c)) /\ PoolInv

LEMMA InitLocalsType ==
    /\ InitLocals \in Locals
    /\ InitLocals.op = "none" /\ InitLocals.user = NoUser /\ InitLocals.keys = {}
    /\ InitLocals.found = {} /\ InitLocals.candidates = <<>> /\ InitLocals.addr = NoAddr
  <1>1. <<>> \in SeqOf(Addrs, MaxPool)
    <2>1. <<>> \in Seq(Addrs) /\ Len(<<>>) <= MaxPool
      BY MaxPoolNat
    <2> QED BY <2>1, MaxPoolNat, SeqOfDef, Zenon
  <1> QED BY <1>1 DEF InitLocals, Locals

LEMMA TypeInit == Init => TypeInv
  <1> SUFFICES ASSUME Init PROVE TypeInv
    OBVIOUS
  <1>1. <<>> \in SeqOf(Addrs, MaxPool)
    BY InitLocalsType DEF Locals
  <1>2. file \in SeqOf(Addrs, MaxPool)
    BY <1>1 DEF Init
  <1>3. assignment \in [Addrs -> Users \cup {NoUser}]
    BY DEF Init
  <1>4. TypeOK
    BY <1>1, <1>2, <1>3, InitLocalsType DEF Init, TypeOK, Labels
  <1>5. \A c \in Callers : LocalInv(c)
    BY InitLocalsType DEF Init, LocalInv
  <1>6. PoolInv
    BY DEF Init, PoolInv
  <1> QED BY <1>4, <1>5, <1>6 DEF TypeInv

\* One request moves on.
LEMMA OneMoves ==
    ASSUME TypeInv, NEW c \in Callers, NEW label \in Labels, NEW l \in Locals,
           pc' = [pc EXCEPT ![c] = label], loc' = [loc EXCEPT ![c] = l],
           store' = store, cancels' \in Nat, cancels' >= cancels,
           LocalInv(c)'
    PROVE  /\ pc' \in [Callers -> Labels] /\ loc' \in [Callers -> Locals]
           /\ \A d \in Callers : LocalInv(d)'
           /\ pc'[c] = label /\ loc'[c] = l
           /\ \A d \in Callers \ {c} : pc'[d] = pc[d] /\ loc'[d] = loc[d]
  <1>1. \A d \in Callers \ {c} : pc'[d] = pc[d] /\ loc'[d] = loc[d]
    BY DEF TypeInv, TypeOK
  <1>2. \A d \in Callers \ {c} : LocalInv(d)'
    BY <1>1 DEF TypeInv, TypeOK, LocalInv
  <1> QED BY <1>1, <1>2 DEF TypeInv, TypeOK

\* It ends, with or without an answer.
LEMMA Finished ==
    ASSUME TypeInv, NEW c \in Callers, Finish(c),
           store' = store, cancels' \in Nat, cancels' >= cancels
    PROVE  /\ pc' \in [Callers -> Labels] /\ loc' \in [Callers -> Locals]
           /\ \A d \in Callers : LocalInv(d)'
           /\ pc'[c] = "idle" /\ loc'[c] = InitLocals
           /\ \A d \in Callers \ {c} : pc'[d] = pc[d] /\ loc'[d] = loc[d]
  <1>1. /\ pc' = [pc EXCEPT ![c] = "idle"] /\ loc' = [loc EXCEPT ![c] = InitLocals]
        /\ "idle" \in Labels /\ InitLocals \in Locals
    BY InitLocalsType DEF Finish, Goto, SetLocals, Labels
  <1>2. LocalInv(c)'
    BY <1>1, InitLocalsType DEF TypeInv, TypeOK, LocalInv
  <1> QED BY <1>1, <1>2, OneMoves

\* What a step of a request leaves alone, but for the growth of the pool.
Stays == UNCHANGED <<store, poolVars>>

LEMMA PoolStays ==
    ASSUME TypeInv, Stays, phase = "serve"
    PROVE  PoolInv'
  BY DEF TypeInv, PoolInv, Stays, poolVars, fileVars

LEMMA Serving ==
    ASSUME TypeInv, NEW c \in Callers, pc[c] # "idle"
    PROVE  phase = "serve" /\ pool = file
  BY DEF TypeInv, PoolInv

LEMMA Typed ==
    ASSUME TypeInv, NEW c \in Callers
    PROVE  /\ loc[c] \in Locals
           /\ loc[c].op \in {"none", "assign", "load", "cancel"}
           /\ loc[c].user \in Users \cup {NoUser}
           /\ loc[c].keys \in SUBSET Addrs /\ loc[c].found \in SUBSET Addrs
           /\ loc[c].candidates \in SeqOf(Addrs, MaxPool)
           /\ loc[c].addr \in Addrs \cup {NoAddr}
           /\ given \in [Users -> SUBSET Addrs]
           /\ assignment \in [Addrs -> Users \cup {NoUser}]
  BY DEF TypeInv, TypeOK, Locals

\* An assignment is made, or not.
LEMMA SetTyped ==
    ASSUME TypeInv, NEW a \in Addrs, NEW u \in Users
    PROVE  [assignment EXCEPT ![a] = u] \in [Addrs -> Users \cup {NoUser}]
  BY DEF TypeInv, TypeOK

LEMMA GiveTyped ==
    ASSUME TypeInv, NEW c \in Callers, NEW a \in Addrs, Answer(c, a), loc[c].user \in Users
    PROVE  /\ given' \in [Users -> SUBSET Addrs] /\ overlapped' = overlapped
           /\ given'[loc[c].user] = given[loc[c].user] \cup {a}
           /\ \A u \in Users \ {loc[c].user} : given'[u] = given[u]
  BY DEF TypeInv, TypeOK, Answer

----------------------------------------------------------------------------
(* Every step keeps the types. *)

\* The part of TypeInv that a step of a request has to see to.
Bounds == crashes \in Nat /\ faults \in Nat /\ cancels \in Nat

LEMMA StepTyped ==
    ASSUME TypeInv, Stays, phase = "serve",
           pc' \in [Callers -> Labels], loc' \in [Callers -> Locals],
           \A d \in Callers : LocalInv(d)',
           assignment' \in [Addrs -> Users \cup {NoUser}],
           given' \in [Users -> SUBSET Addrs], overlapped' \subseteq Users, Bounds'
    PROVE  TypeInv'
  <1>1. PoolInv'
    BY PoolStays
  <1>2. TypeOK'
    BY DEF TypeInv, TypeOK, Stays, Bounds, poolVars, fileVars
  <1> QED BY <1>1, <1>2 DEF TypeInv

LEMMA BoundsTyped ==
    ASSUME TypeInv
    PROVE  /\ UNCHANGED bounds => Bounds' /\ cancels' \in Nat /\ cancels' >= cancels
           /\ \A b \in BOOLEAN : Fault(b) => Bounds' /\ cancels' \in Nat /\ cancels' >= cancels
  BY DEF TypeInv, TypeOK, bounds, Bounds, Fault

LEMMA BootTyped == ASSUME TypeInv, Boot PROVE TypeInv'
  <1>1. UNCHANGED <<store, assignment, pc, loc, history, bounds>>
    BY DEF Boot, CreateFile, FillFile, LoadFile, RefuseFile, OperatorRemovesFile
  <1>2. phase # "serve"
    BY DEF Boot, CreateFile, FillFile, LoadFile, RefuseFile, OperatorRemovesFile
  <1>3. \A c \in Callers : pc[c] = "idle" /\ pc'[c] = "idle"
    BY <1>1, <1>2 DEF TypeInv, PoolInv
  <1>4. \A c \in Callers : LocalInv(c)'
    BY <1>1 DEF TypeInv, LocalInv, bounds
  <1>5. PoolInv' /\ pool' \in SeqOf(Addrs, MaxPool) /\ file' \in SeqOf(Addrs, MaxPool)
        /\ phase' \in {"boot", "fill", "refused", "serve"}
        /\ fileState' \in {"missing", "torn", "whole"}
    <2>1. CASE CreateFile
      BY <1>3, <2>1 DEF CreateFile, TypeInv, TypeOK, PoolInv
    <2>2. CASE FillFile
      BY <1>3, <2>2, GeneratedPools DEF FillFile, TypeInv, TypeOK, PoolInv
    <2>3. CASE LoadFile
      BY <1>3, <2>3 DEF LoadFile, fileVars, TypeInv, TypeOK, PoolInv
    <2>4. CASE RefuseFile
      BY <1>3, <2>4 DEF RefuseFile, fileVars, TypeInv, TypeOK, PoolInv
    <2>5. CASE OperatorRemovesFile
      BY <1>3, <2>5 DEF OperatorRemovesFile, TypeInv, TypeOK, PoolInv
    <2> QED BY <2>1, <2>2, <2>3, <2>4, <2>5 DEF Boot
  <1>5a. synced' \in BOOLEAN /\ lost' \subseteq Addrs
    BY DEF Boot, CreateFile, FillFile, LoadFile, RefuseFile, OperatorRemovesFile, fileVars,
           TypeInv, TypeOK
  <1>6. TypeOK'
    BY <1>1, <1>5, <1>5a DEF TypeInv, TypeOK, history, bounds
  <1> QED BY <1>4, <1>5, <1>6 DEF TypeInv

LEMMA CrashTyped == ASSUME TypeInv, Crash \/ PowerLoss PROVE TypeInv'
  <1>0. Dies
    BY DEF Crash, PowerLoss
  <1>1. <<>> \in SeqOf(Addrs, MaxPool) /\ pool' = <<>>
    BY <1>0, InitLocalsType DEF Dies, Locals
  <1>2. \A c \in Callers : pc'[c] = "idle" /\ loc'[c] = InitLocals
    BY <1>0 DEF Dies
  <1>3. \A c \in Callers : LocalInv(c)'
    BY <1>2, InitLocalsType DEF LocalInv
  <1>4. PoolInv'
    BY <1>0, <1>2 DEF Crash, PowerLoss, Dies, fileVars, TypeInv, PoolInv
  <1>5. assignment' \in [Addrs -> Users \cup {NoUser}]
    BY <1>0 DEF Dies, TypeInv, TypeOK
  <1>6. pc' \in [Callers -> Labels] /\ loc' \in [Callers -> Locals]
    BY <1>0, InitLocalsType DEF Dies, Labels
  <1>6a. /\ file' \in SeqOf(Addrs, MaxPool) /\ fileState' \in {"missing", "torn", "whole"}
         /\ synced' \in BOOLEAN
    BY <1>1 DEF Crash, PowerLoss, fileVars, TypeInv, TypeOK
  <1>6b. lost' \subseteq Addrs
    BY Pools DEF Crash, PowerLoss, fileVars, TypeInv, TypeOK
  <1>7. TypeOK'
    BY <1>0, <1>1, <1>5, <1>6, <1>6a, <1>6b DEF Dies, TypeInv, TypeOK, history
  <1> QED BY <1>3, <1>4, <1>7 DEF TypeInv

LEMMA StartTyped ==
    ASSUME TypeInv, NEW c \in Callers, NEW u \in Users, NEW op \in {"assign", "load"},
           Start(c, u, op)
    PROVE  TypeInv'
  <1> DEFINE l == [InitLocals EXCEPT !.op = op, !.user = u]
             label == IF store = "redis" THEN "scan" ELSE "lookup"
  <1>1. l \in Locals /\ l.op = op /\ l.user = u
    BY InitLocalsType DEF Locals, InitLocals
  <1>2. label \in Labels
    BY DEF Labels
  <1>3. pc' = [pc EXCEPT ![c] = label] /\ loc' = [loc EXCEPT ![c] = l]
    BY DEF Start, Goto, SetLocals
  <1>4. phase = "serve" /\ Stays /\ UNCHANGED bounds /\ UNCHANGED <<assignment, given>>
    BY DEF Start, Stays, poolVars
  <1>5. pc'[c] = label /\ loc'[c] = l
    BY <1>3 DEF TypeInv, TypeOK
  <1> HIDE DEF l
  <1>6. LocalInv(c)'
    BY <1>1, <1>4, <1>5 DEF LocalInv, Stays, TypeInv, TypeOK
  <1> HIDE DEF label
  <1>7. /\ pc' \in [Callers -> Labels] /\ loc' \in [Callers -> Locals]
        /\ \A d \in Callers : LocalInv(d)'
    BY <1>1, <1>2, <1>3, <1>4, <1>6, BoundsTyped, OneMoves DEF Stays
  <1>8. overlapped' \subseteq Users /\ given' \in [Users -> SUBSET Addrs]
        /\ assignment' \in [Addrs -> Users \cup {NoUser}]
    BY <1>4 DEF Start, TypeInv, TypeOK
  <1> QED BY <1>4, <1>7, <1>8, BoundsTyped, StepTyped

\* A request that only reads.
LEMMA MoveTyped ==
    ASSUME TypeInv, NEW c \in Callers, NEW label \in Labels, NEW l \in Locals,
           pc[c] # "idle", pc' = [pc EXCEPT ![c] = label], loc' = [loc EXCEPT ![c] = l],
           Stays, LocalInv(c)', Bounds', cancels' >= cancels,
           assignment' \in [Addrs -> Users \cup {NoUser}], UNCHANGED history
    PROVE  TypeInv'
  <1>1. /\ pc' \in [Callers -> Labels] /\ loc' \in [Callers -> Locals]
        /\ \A d \in Callers : LocalInv(d)'
    BY OneMoves DEF Bounds, Stays
  <1>2. given' \in [Users -> SUBSET Addrs] /\ overlapped' \subseteq Users
    BY DEF TypeInv, TypeOK, history
  <1> QED BY <1>1, <1>2, Serving, StepTyped

LEMMA FinishTyped ==
    ASSUME TypeInv, NEW c \in Callers, pc[c] # "idle", Finish(c),
           Stays, Bounds', cancels' >= cancels,
           assignment' \in [Addrs -> Users \cup {NoUser}],
           given' \in [Users -> SUBSET Addrs], overlapped' = overlapped
    PROVE  TypeInv'
  <1>1. /\ pc' \in [Callers -> Labels] /\ loc' \in [Callers -> Locals]
        /\ \A d \in Callers : LocalInv(d)'
    BY Finished DEF Bounds, Stays
  <1>2. overlapped' \subseteq Users
    BY DEF TypeInv, TypeOK
  <1> QED BY <1>1, <1>2, Serving, StepTyped

LEMMA AnswerTyped ==
    ASSUME TypeInv, NEW c \in Callers, NEW a \in Addrs, pc[c] # "idle", Answer(c, a),
           loc[c].user \in Users, Stays, Bounds', cancels' >= cancels,
           assignment' \in [Addrs -> Users \cup {NoUser}]
    PROVE  TypeInv'
  <1>1. Finish(c) /\ given' \in [Users -> SUBSET Addrs] /\ overlapped' = overlapped
    BY GiveTyped DEF Answer
  <1> QED BY <1>1, FinishTyped

LEMMA SearchTyped == ASSUME TypeInv, NEW c \in Callers, Search(c) PROVE TypeInv'
  <1>1. CASE Scan(c)
    <2> DEFINE l == [loc[c] EXCEPT !.keys = ScanKeys]
               label == IF loc[c].op = "cancel" THEN "delete" ELSE "get"
    <2>1. /\ pc[c] = "scan" /\ pc' = [pc EXCEPT ![c] = label] /\ loc' = [loc EXCEPT ![c] = l]
          /\ Stays /\ UNCHANGED <<assignment, history, bounds>>
      BY <1>1 DEF Scan, Goto, SetLocals, Stays, poolVars
    <2>2. l \in Locals /\ l.op = loc[c].op /\ l.user = loc[c].user /\ l.addr = loc[c].addr
      BY Typed DEF Locals, ScanKeys, Assigned
    <2>3. label \in Labels
      BY DEF Labels
    <2>4. pc'[c] = label /\ loc'[c] = l
      BY <2>1 DEF TypeInv, TypeOK
    <2> HIDE DEF l
    <2>5. LocalInv(c)'
      BY <2>1, <2>2, <2>4 DEF LocalInv, Stays, TypeInv, TypeOK, bounds
    <2> HIDE DEF label
    <2> QED BY <2>1, <2>2, <2>3, <2>5, BoundsTyped, MoveTyped DEF TypeInv, TypeOK
  <1>2. CASE GetKey(c)
    <2>1. PICK a \in loc[c].keys :
            SetLocals(c, [loc[c] EXCEPT !.keys = @ \ {a},
                                        !.found = IF assignment[a] = loc[c].user
                                                  THEN @ \cup {a} ELSE @])
      BY <1>2 DEF GetKey
    <2> DEFINE l == [loc[c] EXCEPT !.keys = @ \ {a},
                                   !.found = IF assignment[a] = loc[c].user
                                             THEN @ \cup {a} ELSE @]
    <2>2. /\ pc[c] = "get" /\ pc' = [pc EXCEPT ![c] = "get"] /\ loc' = [loc EXCEPT ![c] = l]
          /\ Stays /\ UNCHANGED <<assignment, history, bounds>>
      BY <1>2, <2>1 DEF GetKey, SetLocals, Stays, poolVars, TypeInv, TypeOK
    <2>3. l \in Locals /\ l.op = loc[c].op /\ l.user = loc[c].user /\ l.addr = loc[c].addr
      BY Typed DEF Locals
    <2>4. pc'[c] = "get" /\ loc'[c] = l /\ "get" \in Labels
      BY <2>2 DEF TypeInv, TypeOK, Labels
    <2> HIDE DEF l
    <2>5. LocalInv(c)'
      BY <2>2, <2>3, <2>4 DEF LocalInv, Stays, TypeInv, TypeOK, bounds
    <2> QED BY <2>2, <2>3, <2>4, <2>5, BoundsTyped, MoveTyped DEF TypeInv, TypeOK
  <1>3. CASE Existing(c)
    <2>1. /\ pc[c] = "get" /\ loc[c].found # {} /\ Answer(c, First(loc[c].found))
          /\ Stays /\ UNCHANGED <<assignment, bounds>>
      BY <1>3 DEF Existing, SearchDone, Stays, poolVars
    <2>2. First(loc[c].found) \in Addrs /\ loc[c].user \in Users
      BY <2>1, Typed, LeastIn DEF TypeInv, LocalInv
    <2> QED BY <2>1, <2>2, BoundsTyped, AnswerTyped DEF TypeInv, TypeOK
  <1>4. CASE NoneToClaim(c)
    <2>1. /\ pc[c] # "idle" /\ Finish(c) /\ Stays /\ UNCHANGED <<assignment, history, bounds>>
      BY <1>4 DEF NoneToClaim, SearchDone, Stays, poolVars
    <2> QED BY <2>1, BoundsTyped, FinishTyped DEF TypeInv, TypeOK, history
  <1>5. CASE Candidates(c)
    <2> DEFINE l == [loc[c] EXCEPT !.candidates = pool]
    <2>1. /\ pc[c] = "get" /\ pc' = [pc EXCEPT ![c] = "claim"] /\ loc' = [loc EXCEPT ![c] = l]
          /\ Stays /\ UNCHANGED <<assignment, history, bounds>> /\ loc[c].op = "assign"
      BY <1>5 DEF Candidates, SearchDone, Goto, SetLocals, Stays, poolVars
    <2>2. l \in Locals /\ l.op = loc[c].op /\ l.user = loc[c].user /\ l.addr = loc[c].addr
      BY Typed DEF Locals, TypeInv, TypeOK
    <2>3. pc'[c] = "claim" /\ loc'[c] = l /\ "claim" \in Labels
      BY <2>1 DEF TypeInv, TypeOK, Labels
    <2> HIDE DEF l
    <2>4. LocalInv(c)'
      BY <2>1, <2>2, <2>3 DEF LocalInv, Stays, TypeInv, TypeOK, bounds
    <2> QED BY <2>1, <2>2, <2>3, <2>4, BoundsTyped, MoveTyped DEF TypeInv, TypeOK
  <1> QED BY <1>1, <1>2, <1>3, <1>4, <1>5 DEF Search

\* SET NX of address a for the user of a request, carried out or not.
SetNX(c, a, done) ==
    assignment' = IF done /\ Free(a) THEN [assignment EXCEPT ![a] = loc[c].user] ELSE assignment

LEMMA SetNXTyped ==
    ASSUME TypeInv, NEW c \in Callers, NEW a \in Addrs, NEW done \in BOOLEAN,
           loc[c].user \in Users, SetNX(c, a, done)
    PROVE  assignment' \in [Addrs -> Users \cup {NoUser}]
  BY SetTyped, Typed DEF SetNX

LEMMA ClaimTyped == ASSUME TypeInv, NEW c \in Callers, Claim(c) PROVE TypeInv'
  <1> DEFINE a == Head(loc[c].candidates)
             l == [loc[c] EXCEPT !.candidates = Tail(@)]
  <1>1. PICK answered \in BOOLEAN, done \in BOOLEAN :
          /\ Fault(~answered)
          /\ SetNX(c, a, done)
          /\ CASE ~answered -> Finish(c) /\ UNCHANGED history
               [] answered /\ Free(a) -> Answer(c, a)
               [] OTHER -> SetLocals(c, l) /\ UNCHANGED <<pc, history>>
    BY DEF Claim, SetNX
  <1>2. pc[c] = "claim" /\ Stays /\ a \in Addrs
    BY Typed, Pools DEF Claim, Stays, poolVars
  <1>3. l \in Locals /\ l.op = loc[c].op /\ l.user = loc[c].user /\ l.addr = loc[c].addr
    <2>1. Tail(loc[c].candidates) \in SeqOf(Addrs, MaxPool)
      BY Typed, Pools DEF Claim
    <2> QED BY <2>1, Typed DEF Locals
  <1>4. loc[c].user \in Users /\ loc[c].op = "assign"
    BY <1>2 DEF TypeInv, LocalInv
  <1>5. Bounds' /\ cancels' >= cancels
    BY <1>1, BoundsTyped
  <1> HIDE DEF a, l
  <1>6. assignment' \in [Addrs -> Users \cup {NoUser}]
    BY <1>1, <1>2, <1>4, SetNXTyped
  <1>7. CASE ~answered
    <2>1. Finish(c) /\ UNCHANGED history
      BY <1>1, <1>7
    <2> QED BY <1>2, <1>5, <1>6, <2>1, FinishTyped DEF history, TypeInv, TypeOK
  <1>8. CASE answered /\ Free(a)
    <2>1. Answer(c, a)
      BY <1>1, <1>8
    <2> QED BY <1>2, <1>4, <1>5, <1>6, <2>1, AnswerTyped
  <1>9. CASE answered /\ ~Free(a)
    <2>1. SetLocals(c, l) /\ UNCHANGED <<pc, history>>
      BY <1>1, <1>9
    <2>2. pc' = [pc EXCEPT ![c] = "claim"] /\ loc' = [loc EXCEPT ![c] = l] /\ "claim" \in Labels
      BY <1>2, <2>1 DEF SetLocals, TypeInv, TypeOK, Labels
    <2>3. pc'[c] = "claim" /\ loc'[c] = l
      BY <2>2 DEF TypeInv, TypeOK
    <2>4. LocalInv(c)'
      BY <1>2, <1>3, <1>4, <2>3 DEF LocalInv, Stays, TypeInv, TypeOK
    <2> QED BY <1>2, <1>3, <1>5, <1>6, <2>1, <2>2, <2>4, MoveTyped
  <1> QED BY <1>7, <1>8, <1>9

\* Growth adds one wallet to the list and to the file.
LEMMA GrowAdds ==
    ASSUME TypeInv, NEW c \in Callers, Grow(c)
    PROVE  \E a \in Addrs :
             /\ a \notin Range(file)
             /\ pool' = Append(pool, a) /\ file' = Append(file, a)
             /\ pool' = file' /\ file' \in SeqOf(Addrs, MaxPool)
             /\ Range(file') = Range(file) \cup {a}
             /\ loc' = [loc EXCEPT ![c] = [loc[c] EXCEPT !.addr = a]]
             /\ pc' = [pc EXCEPT ![c] = IF store = "redis" THEN "register" ELSE "insert"]
  <1>1. PICK a \in Addrs \ (Range(pool) \cup Range(file) \cup lost) :
          /\ file' = Append(file, a) /\ pool' = Append(pool, a)
          /\ SetLocals(c, [loc[c] EXCEPT !.addr = a])
    BY DEF Grow, Appended
  <1>2. pool = file /\ file \in SeqOf(Addrs, MaxPool)
    BY Serving DEF Grow, PoolExhausted, TypeInv, TypeOK
  <1>3. Len(file) < MaxPool
    BY <1>2 DEF Grow, HasRoom
  <1> QED BY <1>1, <1>2, <1>3, Pools DEF Grow, SetLocals, Goto

LEMMA GrowTyped == ASSUME TypeInv, NEW c \in Callers, Grow(c) PROVE TypeInv'
  <1>1. PICK a \in Addrs :
             /\ pool' = file' /\ file' \in SeqOf(Addrs, MaxPool)
             /\ loc' = [loc EXCEPT ![c] = [loc[c] EXCEPT !.addr = a]]
             /\ pc' = [pc EXCEPT ![c] = IF store = "redis" THEN "register" ELSE "insert"]
    BY GrowAdds
  <1> DEFINE l == [loc[c] EXCEPT !.addr = a]
             label == IF store = "redis" THEN "register" ELSE "insert"
  <1>2. /\ pc[c] \in {"claim", "grow"} /\ phase = "serve" /\ loc[c].op = "assign"
        /\ UNCHANGED <<store, assignment, fileState, lost, phase, history, bounds>>
        /\ synced' = TRUE
    BY Serving DEF Grow, PoolExhausted, TypeInv, LocalInv
  <1>3. l \in Locals /\ l.op = loc[c].op /\ l.user = loc[c].user /\ l.addr = a /\ label \in Labels
    BY Typed DEF Locals, Labels
  <1>4. pc'[c] = label /\ loc'[c] = l
    BY <1>1 DEF TypeInv, TypeOK
  <1> HIDE DEF l
  <1>5. LocalInv(c)'
    BY <1>2, <1>3, <1>4 DEF LocalInv, TypeInv, TypeOK, bounds
  <1>5a. pc' = [pc EXCEPT ![c] = label] /\ loc' = [loc EXCEPT ![c] = l]
    BY <1>1 DEF l
  <1> HIDE DEF label
  <1>6. /\ pc' \in [Callers -> Labels] /\ loc' \in [Callers -> Locals]
        /\ \A d \in Callers : LocalInv(d)'
    BY <1>2, <1>3, <1>5, <1>5a, BoundsTyped, OneMoves
  <1>7. PoolInv'
    BY <1>1, <1>2 DEF PoolInv, TypeInv
  <1>8. TypeOK'
    BY <1>1, <1>2, <1>6 DEF TypeInv, TypeOK, history, bounds
  <1> QED BY <1>6, <1>7, <1>8 DEF TypeInv

LEMMA RegisterTyped == ASSUME TypeInv, NEW c \in Callers, Register(c) PROVE TypeInv'
  <1> DEFINE a == loc[c].addr
  <1>1. PICK answered \in BOOLEAN, done \in BOOLEAN :
          /\ Fault(~answered)
          /\ SetNX(c, a, done)
          /\ IF answered /\ Free(a) THEN Answer(c, a) ELSE Finish(c) /\ UNCHANGED history
    BY DEF Register, SetNX
  <1>2. pc[c] = "register" /\ Stays
    BY DEF Register, Stays, poolVars
  <1>3. a \in Addrs /\ loc[c].user \in Users
    BY <1>2 DEF TypeInv, LocalInv
  <1>4. Bounds' /\ cancels' >= cancels
    BY <1>1, BoundsTyped
  <1> HIDE DEF a
  <1>5. assignment' \in [Addrs -> Users \cup {NoUser}]
    BY <1>1, <1>3, SetNXTyped
  <1>6. CASE answered /\ Free(a)
    <2>1. Answer(c, a)
      BY <1>1, <1>6
    <2> QED BY <1>2, <1>3, <1>4, <1>5, <2>1, AnswerTyped
  <1>7. CASE ~(answered /\ Free(a))
    <2>1. Finish(c) /\ UNCHANGED history
      BY <1>1, <1>7
    <2> QED BY <1>2, <1>4, <1>5, <2>1, FinishTyped DEF history, TypeInv, TypeOK
  <1> QED BY <1>6, <1>7

\* Requests that end without anything having happened.
LEMMA QuitTyped ==
    ASSUME TypeInv, NEW c \in Callers,
           GrowFails(c) \/ PoolFull(c) \/ RedisError(c) \/ MemoryNone(c)
    PROVE  TypeInv'
  <1>1. pc[c] # "idle" /\ Finish(c) /\ Stays /\ UNCHANGED <<assignment, history>>
    BY DEF GrowFails, PoolFull, RedisError, MemoryNone, PoolExhausted, Stays, poolVars
  <1>2. Bounds' /\ cancels' >= cancels
    BY BoundsTyped DEF GrowFails, PoolFull, RedisError, MemoryNone
  <1> QED BY <1>1, <1>2, FinishTyped DEF history, TypeInv, TypeOK

LEMMA FreeWallet ==
    ASSUME TypeInv, FreeWallets # {}
    PROVE  /\ pool[Min(FreeWallets)] \in Addrs /\ pool[Min(FreeWallets)] \in Range(pool)
           /\ Free(pool[Min(FreeWallets)])
  <1>0. pool \in Seq(Addrs)
    <2>1. pool \in SeqOf(Addrs, MaxPool)
      BY DEF TypeInv, TypeOK
    <2> QED BY <2>1, Pools
  <1>1. pool \in Seq(Addrs) /\ Range(pool) = {pool[i] : i \in 1 .. Len(pool)}
    BY <1>0, RangeDef, Zenon
  <1>2. FreeWallets \subseteq Nat /\ FreeWallets \subseteq 1 .. Len(pool)
    BY <1>1 DEF FreeWallets
  <1>3. PICK m \in FreeWallets : \A n \in FreeWallets : m <= n
    BY <1>2, LeastNat
  <1>4. Min(FreeWallets) \in FreeWallets
    BY <1>3 DEF Min
  <1>5. /\ Min(FreeWallets) \in 1 .. Len(pool) /\ Free(pool[Min(FreeWallets)])
        /\ pool[Min(FreeWallets)] \in Addrs
    BY <1>1, <1>4 DEF FreeWallets
  <1> QED BY <1>1, <1>5

LEMMA MemoryTyped == ASSUME TypeInv, NEW c \in Callers, Memory(c) PROVE TypeInv'
  <1>0. pc[c] # "idle" /\ loc[c].user \in Users /\ Stays /\ UNCHANGED bounds
    BY DEF Memory, MemoryExisting, MemoryNone, MemoryClaim, MemoryInsert, Stays, poolVars,
           TypeInv, LocalInv
  <1>00. Bounds' /\ cancels' >= cancels
    BY <1>0, BoundsTyped
  <1>1. CASE MemoryExisting(c)
    <2>1. PICK a \in Of(loc[c].user) : Answer(c, a)
      BY <1>1 DEF MemoryExisting
    <2>2. a \in Addrs /\ UNCHANGED assignment
      BY <1>1 DEF Of, MemoryExisting
    <2> QED BY <1>0, <1>00, <2>1, <2>2, AnswerTyped DEF TypeInv, TypeOK
  <1>2. CASE MemoryNone(c)
    BY <1>2, QuitTyped
  <1>3. CASE MemoryClaim(c)
    <2>1. CASE FreeWallets # {}
      <3> DEFINE a == pool[Min(FreeWallets)]
      <3>1. assignment' = [assignment EXCEPT ![a] = loc[c].user] /\ Answer(c, a)
        BY <1>3, <2>1 DEF MemoryClaim
      <3>2. a \in Addrs
        BY <2>1, FreeWallet
      <3> HIDE DEF a
      <3> QED BY <1>0, <1>00, <3>1, <3>2, SetTyped, AnswerTyped
    <2>2. CASE FreeWallets = {}
      <3>1. /\ pc' = [pc EXCEPT ![c] = "grow"] /\ loc' = [loc EXCEPT ![c] = loc[c]]
            /\ UNCHANGED <<assignment, history>> /\ loc' = loc /\ loc[c].op = "assign"
            /\ pc[c] = "lookup"
        BY <1>3, <2>2 DEF MemoryClaim, Goto, TypeInv, TypeOK
      <3>2. "grow" \in Labels /\ loc[c] \in Locals /\ pc'[c] = "grow"
        BY <3>1 DEF Labels, TypeInv, TypeOK
      <3>3. LocalInv(c)'
        BY <1>0, <3>1, <3>2 DEF LocalInv, Stays, TypeInv, TypeOK, bounds
      <3> QED BY <1>0, <1>00, <3>1, <3>2, <3>3, MoveTyped DEF TypeInv, TypeOK
    <2> QED BY <2>1, <2>2
  <1>4. CASE MemoryInsert(c)
    <2>1. loc[c].addr \in Addrs
      BY <1>4 DEF MemoryInsert, TypeInv, LocalInv
    <2> QED BY <1>0, <1>00, <1>4, <2>1, SetTyped, AnswerTyped DEF MemoryInsert
  <1> QED BY <1>1, <1>2, <1>3, <1>4 DEF Memory

LEMMA CancelTyped ==
    ASSUME TypeInv, NEW c \in Callers, StartCancel(c) \/ CancelDelete(c) PROVE TypeInv'
  <1>1. CASE StartCancel(c) /\ store = "redis"
    <2> DEFINE l == [InitLocals EXCEPT !.op = "cancel"]
    <2>1. /\ pc' = [pc EXCEPT ![c] = "scan"] /\ loc' = [loc EXCEPT ![c] = l]
          /\ Stays /\ phase = "serve"
          /\ UNCHANGED <<assignment, history, bounds>>
      BY <1>1 DEF StartCancel, Goto, SetLocals, Stays, poolVars, bounds
    <2>2. l \in Locals /\ l.op = "cancel" /\ "scan" \in Labels
      BY InitLocalsType DEF Locals, InitLocals, Labels
    <2>3. pc'[c] = "scan" /\ loc'[c] = l
      BY <2>1 DEF TypeInv, TypeOK
    <2> HIDE DEF l
    <2>4. Bounds' /\ cancels' \in Nat /\ cancels' >= cancels
      BY <2>1, BoundsTyped
    <2>5. LocalInv(c)'
      BY <1>1, <2>1, <2>2, <2>3, <2>4 DEF LocalInv, Stays
    <2>6. /\ pc' \in [Callers -> Labels] /\ loc' \in [Callers -> Locals]
          /\ \A d \in Callers : LocalInv(d)'
      BY <2>1, <2>2, <2>4, <2>5, OneMoves DEF Stays
    <2> QED BY <2>1, <2>4, <2>6, StepTyped DEF history, TypeInv, TypeOK
  <1>2. CASE StartCancel(c) /\ store # "redis"
    <2>1. /\ Stays /\ phase = "serve" /\ cancels' = cancels + 1 /\ UNCHANGED <<pc, loc>>
          /\ assignment' = [a \in Addrs |-> NoUser]
          /\ UNCHANGED <<history, crashes, faults>>
      BY <1>2 DEF StartCancel, Stays, poolVars
    <2>2. Bounds'
      BY <2>1 DEF Bounds, TypeInv, TypeOK
    <2>3. \A d \in Callers : LocalInv(d)'
      BY <2>1 DEF LocalInv, TypeInv, Stays
    <2>4. assignment' \in [Addrs -> Users \cup {NoUser}]
      BY <2>1
    <2> QED BY <2>1, <2>2, <2>3, <2>4, StepTyped DEF history, TypeInv, TypeOK
  <1>3. CASE CancelDelete(c)
    <2>1. pc[c] # "idle" /\ Finish(c) /\ Stays /\ UNCHANGED history
      BY <1>3 DEF CancelDelete, Stays, poolVars
    <2>2. assignment' \in [Addrs -> Users \cup {NoUser}]
      BY <1>3 DEF CancelDelete, TypeInv, TypeOK
    <2>3. Bounds' /\ cancels' >= cancels
      BY <1>3 DEF CancelDelete, Bounds, TypeInv, TypeOK
    <2>4. given' \in [Users -> SUBSET Addrs] /\ overlapped' = overlapped
      BY <2>1 DEF history, TypeInv, TypeOK
    <2> QED BY <2>1, <2>2, <2>3, <2>4, FinishTyped
  <1> QED BY <1>1, <1>2, <1>3

\* A step of Next, as the proofs below take it apart.
LEMMA Steps ==
    ASSUME Next
    PROVE  \/ Boot \/ Crash \/ PowerLoss
           \/ \E c \in Callers :
                \/ \E u \in Users, op \in {"assign", "load"} : Start(c, u, op)
                \/ Search(c) \/ Claim(c) \/ Grow(c) \/ Register(c)
                \/ GrowFails(c) \/ PoolFull(c) \/ RedisError(c) \/ Memory(c)
                \/ StartCancel(c) \/ CancelDelete(c)
  BY DEF Next, Take

LEMMA TypeStep == TypeInv /\ [Next]_vars => TypeInv'
  <1> SUFFICES ASSUME TypeInv, [Next]_vars PROVE TypeInv'
    OBVIOUS
  <1>1. CASE UNCHANGED vars
    BY <1>1 DEF vars, poolVars, fileVars, history, bounds, TypeInv, TypeOK, LocalInv, PoolInv
  <1>2. CASE Boot \/ Crash \/ PowerLoss
    BY <1>2, BootTyped, CrashTyped
  <1>3. ASSUME NEW c \in Callers,
               \/ \E u \in Users, op \in {"assign", "load"} : Start(c, u, op)
               \/ Search(c) \/ Claim(c) \/ Grow(c) \/ Register(c)
               \/ GrowFails(c) \/ PoolFull(c) \/ RedisError(c) \/ Memory(c)
               \/ StartCancel(c) \/ CancelDelete(c)
        PROVE  TypeInv'
    BY <1>3, StartTyped, SearchTyped, ClaimTyped, GrowTyped, RegisterTyped, QuitTyped,
       MemoryTyped, CancelTyped
  <1> QED BY <1>1, <1>2, <1>3, Steps

----------------------------------------------------------------------------
(* The keys are on disk. *)

\* The wallets of the file, and of those that a power loss took.
Keys == Range(file) \cup lost

ToldKept == \A u \in Users : given[u] \subseteq Keys

\* What a request may come to tell its user.
HeldInv(c) ==
    /\ loc[c].found \subseteq Keys
    /\ Range(loc[c].candidates) \subseteq Keys
    /\ pc[c] \in {"register", "insert"} => loc[c].addr \in Keys

DiskInv ==
    /\ ToldKept
    /\ Assigned \subseteq Keys
    /\ \A c \in Callers : HeldInv(c)

LEMMA DiskInit == Init => DiskInv
  <1> SUFFICES ASSUME Init PROVE DiskInv
    OBVIOUS
  <1>1. ToldKept
    BY DEF Init, ToldKept
  <1>2. Assigned \subseteq Keys
    BY DEF Init, Assigned, Keys
  <1>3. \A c \in Callers : HeldInv(c)
    BY InitLocalsType, EmptyRange DEF Init, HeldInv
  <1> QED BY <1>1, <1>2, <1>3 DEF DiskInv

\* A file that is filled was empty, and one that is lost is counted.
LEMMA FileGrows ==
    ASSUME TypeInv, Boot \/ Crash \/ PowerLoss \/ (\E c \in Callers : Grow(c))
    PROVE  Keys \subseteq Keys'
  <1>1. CASE Boot
    <2>1. CASE FillFile
      <3>1. file = <<>>
        BY <2>1 DEF FillFile, TypeInv, PoolInv
      <3> QED BY <2>1, <3>1, EmptyRange DEF FillFile, Keys
    <2>2. CASE ~FillFile
      <3>1. file' = file /\ lost' = lost
        BY <1>1, <2>2 DEF Boot, CreateFile, LoadFile, RefuseFile, OperatorRemovesFile, fileVars
      <3> QED BY <3>1 DEF Keys
    <2> QED BY <2>1, <2>2
  <1>2. ASSUME NEW c \in Callers, Grow(c) PROVE Keys \subseteq Keys'
    BY <1>2, GrowAdds DEF Grow, Keys
  <1>3. CASE Crash
    BY <1>3 DEF Crash, fileVars, Keys
  <1>4. CASE PowerLoss
    BY <1>4 DEF PowerLoss, Keys
  <1> QED BY <1>1, <1>2, <1>3, <1>4

\* A request that moves on, or ends.
LEMMA DiskKept ==
    ASSUME TypeInv, DiskInv, NEW c \in Callers, Keys \subseteq Keys',
           \A d \in Callers \ {c} : pc'[d] = pc[d] /\ loc'[d] = loc[d],
           HeldInv(c)', Assigned' \subseteq Keys', ToldKept'
    PROVE  DiskInv'
  BY DEF DiskInv, HeldInv

LEMMA FinishHeld ==
    ASSUME TypeInv, NEW c \in Callers, Finish(c)
    PROVE  HeldInv(c)' /\ \A d \in Callers \ {c} : pc'[d] = pc[d] /\ loc'[d] = loc[d]
  <1>1. /\ pc'[c] = "idle" /\ loc'[c] = InitLocals
        /\ \A d \in Callers \ {c} : pc'[d] = pc[d] /\ loc'[d] = loc[d]
    BY DEF Finish, Goto, SetLocals, TypeInv, TypeOK
  <1> QED BY <1>1, InitLocalsType, EmptyRange DEF HeldInv

\* A request ends, and may have told its user an address of the file.
LEMMA FinishKeepsDisk ==
    ASSUME TypeInv, DiskInv, NEW c \in Callers, Finish(c), UNCHANGED Keys,
           Assigned' \subseteq Keys, ToldKept'
    PROVE  DiskInv'
  BY FinishHeld, DiskKept

LEMMA AnswerKeepsDisk ==
    ASSUME TypeInv, DiskInv, NEW c \in Callers, NEW a \in Addrs, Answer(c, a),
           a \in Keys, loc[c].user \in Users, UNCHANGED Keys,
           Assigned' \subseteq Keys
    PROVE  DiskInv'
  <1>1. Finish(c)
    BY DEF Answer
  <1>2. ToldKept'
    BY GiveTyped DEF DiskInv, ToldKept
  <1> QED BY <1>1, <1>2, FinishKeepsDisk

LEMMA SetNXOnDisk ==
    ASSUME TypeInv, DiskInv, NEW c \in Callers, NEW a \in Keys, NEW done \in BOOLEAN,
           SetNX(c, a, done)
    PROVE  Assigned' \subseteq Keys
  BY DEF SetNX, Assigned, DiskInv, TypeInv, TypeOK

LEMMA StartDisk ==
    ASSUME TypeInv, DiskInv, NEW c \in Callers, NEW u \in Users,
           NEW op \in {"assign", "load"}, Start(c, u, op)
    PROVE  DiskInv'
  <1> DEFINE l == [InitLocals EXCEPT !.op = op, !.user = u]
  <1>1. /\ pc'[c] \in {"scan", "lookup"} /\ loc'[c] = l
        /\ \A d \in Callers \ {c} : pc'[d] = pc[d] /\ loc'[d] = loc[d]
        /\ UNCHANGED <<assignment, given, Keys>>
    BY DEF Start, Goto, SetLocals, TypeInv, TypeOK, Keys, poolVars, fileVars
  <1>2. l.found = {} /\ l.candidates = <<>>
    BY DEF InitLocals
  <1>3. HeldInv(c)'
    BY <1>1, <1>2, EmptyRange DEF HeldInv
  <1> QED BY <1>1, <1>3, DiskKept DEF DiskInv, ToldKept, Assigned

LEMMA SearchDisk == ASSUME TypeInv, DiskInv, NEW c \in Callers, Search(c) PROVE DiskInv'
  <1>0. UNCHANGED <<Keys, assignment>>
    BY DEF Search, Scan, GetKey, Existing, NoneToClaim, Candidates, Keys, poolVars, fileVars
  <1>00. Assigned' \subseteq Keys /\ Assigned' \subseteq Keys'
    BY <1>0 DEF DiskInv, Assigned
  <1>1. CASE Scan(c)
    <2>1. /\ pc'[c] \in {"delete", "get"} /\ loc'[c] = [loc[c] EXCEPT !.keys = ScanKeys]
          /\ \A d \in Callers \ {c} : pc'[d] = pc[d] /\ loc'[d] = loc[d]
          /\ UNCHANGED given
      BY <1>1 DEF Scan, Goto, SetLocals, TypeInv, TypeOK, history
    <2>2. loc'[c].found = loc[c].found /\ loc'[c].candidates = loc[c].candidates
      BY <2>1, Typed DEF Locals
    <2>3. HeldInv(c)'
      BY <1>0, <2>1, <2>2 DEF HeldInv, DiskInv
    <2> QED BY <1>0, <1>00, <2>1, <2>3, DiskKept DEF DiskInv, ToldKept
  <1>2. CASE GetKey(c)
    <2>1. PICK a \in loc[c].keys :
            SetLocals(c, [loc[c] EXCEPT !.keys = @ \ {a},
                                        !.found = IF assignment[a] = loc[c].user
                                                  THEN @ \cup {a} ELSE @])
      BY <1>2 DEF GetKey
    <2>2. /\ pc[c] = "get" /\ UNCHANGED <<pc, given>>
          /\ \A d \in Callers \ {c} : pc'[d] = pc[d] /\ loc'[d] = loc[d]
          /\ loc'[c].found \subseteq loc[c].found \cup (IF assignment[a] = loc[c].user THEN {a} ELSE {})
          /\ loc'[c].candidates = loc[c].candidates
      BY <1>2, <2>1, Typed DEF GetKey, SetLocals, TypeInv, TypeOK, history, Locals
    <2>3. a \in Addrs /\ loc[c].user \in Users /\ loc[c].user # NoUser
      BY <2>2, Typed, PoolAssumption DEF TypeInv, LocalInv
    <2>4. assignment[a] = loc[c].user => a \in Keys
      BY <2>3 DEF DiskInv, Assigned
    <2>5. HeldInv(c)'
      BY <1>0, <2>2, <2>4 DEF HeldInv, DiskInv
    <2> QED BY <1>0, <1>00, <2>2, <2>5, DiskKept DEF DiskInv, ToldKept
  <1>3. CASE Existing(c)
    <2>1. pc[c] = "get" /\ loc[c].found # {} /\ Answer(c, First(loc[c].found))
      BY <1>3 DEF Existing, SearchDone
    <2>2. First(loc[c].found) \in loc[c].found /\ loc[c].user \in Users
      BY <2>1, Typed, LeastIn DEF TypeInv, LocalInv
    <2>3. First(loc[c].found) \in Addrs /\ First(loc[c].found) \in Keys
      BY <2>2, Typed DEF DiskInv, HeldInv
    <2> QED BY <1>0, <1>00, <2>1, <2>2, <2>3, AnswerKeepsDisk
  <1>4. CASE NoneToClaim(c)
    BY <1>0, <1>00, <1>4, FinishKeepsDisk DEF NoneToClaim, DiskInv, ToldKept, history
  <1>5. CASE Candidates(c)
    <2>1. /\ pc'[c] = "claim" /\ loc'[c] = [loc[c] EXCEPT !.candidates = pool] /\ pool = file
          /\ \A d \in Callers \ {c} : pc'[d] = pc[d] /\ loc'[d] = loc[d]
          /\ UNCHANGED given
      BY <1>5, Serving DEF Candidates, SearchDone, Goto, SetLocals, TypeInv, TypeOK, history
    <2>2. loc'[c].found = loc[c].found /\ loc'[c].candidates = file
      BY <2>1, Typed DEF Locals
    <2>3. HeldInv(c)'
      BY <1>0, <2>1, <2>2 DEF HeldInv, DiskInv, Keys
    <2> QED BY <1>0, <1>00, <2>1, <2>3, DiskKept DEF DiskInv, ToldKept
  <1> QED BY <1>1, <1>2, <1>3, <1>4, <1>5 DEF Search

LEMMA ClaimDisk == ASSUME TypeInv, DiskInv, NEW c \in Callers, Claim(c) PROVE DiskInv'
  <1> DEFINE a == Head(loc[c].candidates)
             l == [loc[c] EXCEPT !.candidates = Tail(@)]
  <1>1. PICK answered \in BOOLEAN, done \in BOOLEAN :
          /\ SetNX(c, a, done)
          /\ CASE ~answered -> Finish(c) /\ UNCHANGED history
               [] answered /\ Free(a) -> Answer(c, a)
               [] OTHER -> SetLocals(c, l) /\ UNCHANGED <<pc, history>>
    BY DEF Claim, SetNX
  <1>2. pc[c] = "claim" /\ UNCHANGED Keys /\ loc[c].candidates # <<>>
    BY DEF Claim, Keys, poolVars, fileVars
  <1>3. /\ a \in Addrs /\ a \in Range(loc[c].candidates)
        /\ Range(Tail(loc[c].candidates)) \subseteq Range(loc[c].candidates)
    BY <1>2, Typed, Pools
  <1>4. a \in Keys /\ Range(Tail(loc[c].candidates)) \subseteq Keys
    BY <1>3 DEF DiskInv, HeldInv
  <1>5. loc[c].user \in Users
    BY <1>2 DEF TypeInv, LocalInv
  <1>6. l.found = loc[c].found /\ l.candidates = Tail(loc[c].candidates)
    BY Typed DEF Locals
  <1> HIDE DEF a, l
  <1>7. Assigned' \subseteq Keys
    BY <1>1, <1>4, SetNXOnDisk
  <1>8. CASE ~answered
    <2>1. Finish(c) /\ UNCHANGED history
      BY <1>1, <1>8
    <2> QED BY <1>2, <1>7, <2>1, FinishKeepsDisk DEF DiskInv, ToldKept, history
  <1>9. CASE answered /\ Free(a)
    <2>1. Answer(c, a)
      BY <1>1, <1>9
    <2> QED BY <1>2, <1>3, <1>4, <1>5, <1>7, <2>1, AnswerKeepsDisk
  <1>10. CASE answered /\ ~Free(a)
    <2>1. SetLocals(c, l) /\ UNCHANGED <<pc, history>>
      BY <1>1, <1>10
    <2>2. /\ loc'[c] = l
          /\ \A d \in Callers \ {c} : pc'[d] = pc[d] /\ loc'[d] = loc[d]
      BY <2>1 DEF SetLocals, TypeInv, TypeOK
    <2>3. HeldInv(c)'
      BY <1>2, <1>4, <1>6, <2>1, <2>2 DEF HeldInv, DiskInv
    <2> QED BY <1>2, <1>7, <2>1, <2>2, <2>3, DiskKept DEF DiskInv, ToldKept, history
  <1> QED BY <1>8, <1>9, <1>10

LEMMA GrowDisk == ASSUME TypeInv, DiskInv, NEW c \in Callers, Grow(c) PROVE DiskInv'
  <1>1. PICK a \in Addrs :
             /\ Keys' = Keys \cup {a}
             /\ loc' = [loc EXCEPT ![c] = [loc[c] EXCEPT !.addr = a]]
             /\ pc' = [pc EXCEPT ![c] = IF store = "redis" THEN "register" ELSE "insert"]
    BY GrowAdds DEF Grow, Keys
  <1>2. /\ loc'[c] = [loc[c] EXCEPT !.addr = a]
        /\ \A d \in Callers \ {c} : pc'[d] = pc[d] /\ loc'[d] = loc[d]
    BY <1>1 DEF TypeInv, TypeOK
  <1>3. loc'[c].found = loc[c].found /\ loc'[c].candidates = loc[c].candidates /\ loc'[c].addr = a
    BY <1>2, Typed DEF Locals
  <1>4. HeldInv(c)'
    BY <1>1, <1>3 DEF HeldInv, DiskInv
  <1>5. UNCHANGED <<assignment, given>>
    BY DEF Grow, history
  <1>6. ToldKept' /\ Assigned' \subseteq Keys'
    BY <1>1, <1>5 DEF DiskInv, ToldKept, Assigned
  <1> QED BY <1>1, <1>2, <1>4, <1>6, DiskKept

LEMMA RegisterDisk == ASSUME TypeInv, DiskInv, NEW c \in Callers, Register(c) PROVE DiskInv'
  <1> DEFINE a == loc[c].addr
  <1>1. PICK answered \in BOOLEAN, done \in BOOLEAN :
          /\ SetNX(c, a, done)
          /\ IF answered /\ Free(a) THEN Answer(c, a) ELSE Finish(c) /\ UNCHANGED history
    BY DEF Register, SetNX
  <1>2. pc[c] = "register" /\ UNCHANGED Keys
    BY DEF Register, Keys, poolVars, fileVars
  <1>3. a \in Addrs /\ loc[c].user \in Users /\ a \in Keys
    BY <1>2 DEF TypeInv, LocalInv, DiskInv, HeldInv
  <1> HIDE DEF a
  <1>4. Assigned' \subseteq Keys
    BY <1>1, <1>3, SetNXOnDisk
  <1>5. CASE answered /\ Free(a)
    BY <1>1, <1>2, <1>3, <1>4, <1>5, AnswerKeepsDisk
  <1>6. CASE ~(answered /\ Free(a))
    <2>1. Finish(c) /\ UNCHANGED history
      BY <1>1, <1>6
    <2> QED BY <1>2, <1>4, <2>1, FinishKeepsDisk DEF DiskInv, ToldKept, history
  <1> QED BY <1>5, <1>6

LEMMA QuitDisk ==
    ASSUME TypeInv, DiskInv, NEW c \in Callers,
           GrowFails(c) \/ PoolFull(c) \/ RedisError(c) \/ MemoryNone(c) \/ CancelDelete(c)
    PROVE  DiskInv'
  <1>1. Finish(c) /\ UNCHANGED <<Keys, history>>
    BY DEF GrowFails, PoolFull, RedisError, MemoryNone, CancelDelete, Keys, poolVars, fileVars
  <1>2. Assigned' \subseteq Assigned
    BY DEF GrowFails, PoolFull, RedisError, MemoryNone, CancelDelete, Assigned
  <1> QED BY <1>1, <1>2, FinishKeepsDisk DEF DiskInv, ToldKept, history

LEMMA MemoryDisk == ASSUME TypeInv, DiskInv, NEW c \in Callers, Memory(c) PROVE DiskInv'
  <1>0. pc[c] # "idle" /\ loc[c].user \in Users /\ loc[c].user # NoUser /\ UNCHANGED Keys
    BY PoolAssumption
    DEF Memory, MemoryExisting, MemoryNone, MemoryClaim, MemoryInsert, Keys, poolVars, fileVars, TypeInv, LocalInv
  <1>1. CASE MemoryExisting(c)
    <2>1. PICK a \in Of(loc[c].user) : Answer(c, a)
      BY <1>1 DEF MemoryExisting
    <2>2. a \in Addrs /\ a \in Keys /\ UNCHANGED assignment
      BY <1>0, <1>1 DEF Of, MemoryExisting, DiskInv, Assigned
    <2>3. Assigned' \subseteq Keys
      BY <2>2 DEF DiskInv, Assigned
    <2> QED BY <1>0, <2>1, <2>2, <2>3, AnswerKeepsDisk
  <1>2. CASE MemoryNone(c)
    BY <1>2, QuitDisk
  <1>3. CASE MemoryClaim(c)
    <2>1. CASE FreeWallets # {}
      <3> DEFINE a == pool[Min(FreeWallets)]
      <3>1. assignment' = [assignment EXCEPT ![a] = loc[c].user] /\ Answer(c, a)
        BY <1>3, <2>1 DEF MemoryClaim
      <3>2. a \in Addrs /\ a \in Keys
        BY <1>0, <2>1, FreeWallet, Serving DEF Keys
      <3> HIDE DEF a
      <3>3. Assigned' \subseteq Keys
        BY <3>1, <3>2 DEF DiskInv, Assigned, TypeInv, TypeOK
      <3> QED BY <1>0, <3>1, <3>2, <3>3, AnswerKeepsDisk
    <2>2. CASE FreeWallets = {}
      <3>1. /\ pc' = [pc EXCEPT ![c] = "grow"] /\ UNCHANGED <<loc, assignment, history>>
        BY <1>3, <2>2 DEF MemoryClaim, Goto
      <3>2. /\ pc'[c] = "grow"
            /\ \A d \in Callers \ {c} : pc'[d] = pc[d] /\ loc'[d] = loc[d]
        BY <3>1 DEF TypeInv, TypeOK
      <3>3. HeldInv(c)'
        BY <1>0, <3>1, <3>2 DEF HeldInv, DiskInv
      <3> QED BY <1>0, <3>1, <3>2, <3>3, DiskKept DEF DiskInv, ToldKept, Assigned, history
    <2> QED BY <2>1, <2>2
  <1>4. CASE MemoryInsert(c)
    <2>1. loc[c].addr \in Addrs /\ loc[c].addr \in Keys
      BY <1>4 DEF MemoryInsert, TypeInv, LocalInv, DiskInv, HeldInv
    <2>2. Assigned' \subseteq Keys
      BY <1>4, <2>1 DEF MemoryInsert, DiskInv, Assigned, TypeInv, TypeOK
    <2> QED BY <1>0, <1>4, <2>1, <2>2, AnswerKeepsDisk DEF MemoryInsert
  <1> QED BY <1>1, <1>2, <1>3, <1>4 DEF Memory

LEMMA CancelDisk ==
    ASSUME TypeInv, DiskInv, NEW c \in Callers, StartCancel(c) PROVE DiskInv'
  <1>1. Assigned' \subseteq Assigned /\ UNCHANGED <<Keys, given>>
    BY DEF StartCancel, Assigned, Keys, poolVars, fileVars, history
  <1>2. CASE store = "redis"
    <2> DEFINE l == [InitLocals EXCEPT !.op = "cancel"]
    <2>1. /\ pc'[c] = "scan" /\ loc'[c] = l
          /\ \A d \in Callers \ {c} : pc'[d] = pc[d] /\ loc'[d] = loc[d]
      BY <1>2 DEF StartCancel, Goto, SetLocals, TypeInv, TypeOK
    <2>2. l.found = {} /\ l.candidates = <<>>
      BY DEF InitLocals
    <2>3. HeldInv(c)'
      BY <2>1, <2>2, EmptyRange DEF HeldInv
    <2> QED BY <1>1, <2>1, <2>3, DiskKept DEF DiskInv, ToldKept
  <1>3. CASE store # "redis"
    <2>1. UNCHANGED <<pc, loc>>
      BY <1>3 DEF StartCancel
    <2> QED BY <1>1, <2>1 DEF DiskInv, ToldKept, HeldInv
  <1> QED BY <1>2, <1>3

LEMMA DiskStep == TypeInv /\ DiskInv /\ [Next]_vars => DiskInv'
  <1> SUFFICES ASSUME TypeInv, DiskInv, [Next]_vars PROVE DiskInv'
    OBVIOUS
  <1>1. CASE UNCHANGED vars
    BY <1>1 DEF vars, poolVars, fileVars, history, bounds, DiskInv, ToldKept, Keys, Assigned, HeldInv
  <1>2. CASE Boot
    <2>1. UNCHANGED <<assignment, given, pc, loc>>
      BY <1>2 DEF Boot, CreateFile, FillFile, LoadFile, RefuseFile, OperatorRemovesFile, history
    <2>2. Keys \subseteq Keys'
      BY <1>2, FileGrows
    <2>3. ToldKept'
      BY <2>1, <2>2 DEF DiskInv, ToldKept
    <2> QED BY <2>1, <2>2, <2>3 DEF DiskInv, Assigned, HeldInv
  <1>3. CASE Crash \/ PowerLoss
    <2>0. Dies
      BY <1>3 DEF Crash, PowerLoss
    <2>1. \A c \in Callers : loc'[c] = InitLocals /\ pc'[c] = "idle"
      BY <2>0 DEF Dies
    <2>2. \A c \in Callers : HeldInv(c)'
      BY <2>1, InitLocalsType, EmptyRange DEF HeldInv
    <2>3. Assigned' \subseteq Assigned /\ UNCHANGED given
      BY <2>0 DEF Dies, Assigned, history
    <2>4. Keys \subseteq Keys'
      BY <1>3, FileGrows
    <2>5. ToldKept'
      BY <2>3, <2>4 DEF DiskInv, ToldKept
    <2> QED BY <2>2, <2>3, <2>4, <2>5 DEF DiskInv
  <1>4. ASSUME NEW c \in Callers,
               \/ \E u \in Users, op \in {"assign", "load"} : Start(c, u, op)
               \/ Search(c) \/ Claim(c) \/ Grow(c) \/ Register(c)
               \/ GrowFails(c) \/ PoolFull(c) \/ RedisError(c) \/ Memory(c)
               \/ StartCancel(c) \/ CancelDelete(c)
        PROVE  DiskInv'
    BY <1>4, StartDisk, SearchDisk, ClaimDisk, GrowDisk, RegisterDisk, QuitDisk,
       MemoryDisk, CancelDisk
  <1> QED BY <1>1, <1>2, <1>3, <1>4, Steps

----------------------------------------------------------------------------
(* Addresses stay with their users, and a lone request gets the same one. *)

\* Redis, and nobody has cancelled.
Lasting == store = "redis" /\ cancels = 0

\* What a search has found, or will find among the keys it has.
Seen(c) == loc[c].found \cup (loc[c].keys \cap Of(loc[c].user))

ReadInv(c) ==
    /\ pc[c] = "scan" => loc[c].found = {}
    /\ pc[c] = "get" =>
         /\ loc[c].found \subseteq Of(loc[c].user)
         /\ loc[c].keys \subseteq Assigned
         /\ loc[c].user \notin overlapped =>
              \/ Seen(c) = Of(loc[c].user)
              \/ loc[c].op = "load" /\ Seen(c) = {}

\* Who claims a wallet has none.
ClaimInv(c) ==
    (pc[c] \in {"claim", "register"} /\ loc[c].user \notin overlapped) => Of(loc[c].user) = {}

AloneInv ==
    \A c, d \in Callers :
        (/\ loc[c].op = "assign" /\ loc[d].op = "assign"
         /\ loc[c].user = loc[d].user /\ loc[c].user \notin overlapped) => c = d

GivenInv ==
    \A u \in Users :
        /\ given[u] \subseteq Of(u)
        /\ u \notin overlapped => \A a \in given[u] : a = First(Of(u))

UserInv == Lasting => AloneInv /\ GivenInv /\ \A c \in Callers : ReadInv(c) /\ ClaimInv(c)

LEMMA UserInit == Init => UserInv
  <1> SUFFICES ASSUME Init PROVE UserInv
    OBVIOUS
  <1>1. \A c \in Callers : loc[c] = InitLocals /\ pc[c] = "idle"
    BY DEF Init
  <1>2. AloneInv
    BY <1>1, InitLocalsType DEF AloneInv
  <1>3. GivenInv
    BY DEF Init, GivenInv
  <1>4. \A c \in Callers : ReadInv(c) /\ ClaimInv(c)
    BY <1>1 DEF ReadInv, ClaimInv
  <1> QED BY <1>2, <1>3, <1>4 DEF UserInv

LEMMA LastingBefore ==
    ASSUME TypeInv, UserInv, UNCHANGED store, cancels' \in Nat, cancels' >= cancels, Lasting'
    PROVE  Lasting /\ AloneInv /\ GivenInv /\ \A c \in Callers : ReadInv(c) /\ ClaimInv(c)
  BY DEF TypeInv, TypeOK, Lasting, UserInv

\* A request moves on or ends, and no assignment is made.
LEMMA UserKept ==
    ASSUME TypeInv, NEW c \in Callers, AloneInv, GivenInv,
           \A d \in Callers : ReadInv(d) /\ ClaimInv(d),
           UNCHANGED <<assignment, given, overlapped>>,
           \A d \in Callers \ {c} : pc'[d] = pc[d] /\ loc'[d] = loc[d],
           loc'[c].op = "assign" => loc[c].op = "assign" /\ loc'[c].user = loc[c].user,
           ReadInv(c)', ClaimInv(c)'
    PROVE  UserInv'
  <1>1. \A d \in Callers \ {c} : ReadInv(d)' /\ ClaimInv(d)'
    BY DEF ReadInv, ClaimInv, Seen, Of, Assigned
  <1>2. GivenInv'
    BY DEF GivenInv, Of
  <1>3. AloneInv'
    <2> SUFFICES ASSUME NEW d \in Callers, NEW e \in Callers,
                        loc'[d].op = "assign", loc'[e].op = "assign",
                        loc'[d].user = loc'[e].user, loc'[d].user \notin overlapped
                 PROVE  d = e
      BY DEF AloneInv
    <2>1. loc[d].op = "assign" /\ loc[d].user = loc'[d].user
      OBVIOUS
    <2>2. loc[e].op = "assign" /\ loc[e].user = loc'[e].user
      OBVIOUS
    <2> QED BY <2>1, <2>2 DEF AloneInv
  <1> QED BY <1>1, <1>2, <1>3 DEF UserInv

LEMMA Ended ==
    ASSUME TypeInv, NEW c \in Callers, Finish(c)
    PROVE  /\ pc'[c] = "idle" /\ loc'[c].op = "none" /\ ReadInv(c)' /\ ClaimInv(c)'
           /\ \A d \in Callers \ {c} : pc'[d] = pc[d] /\ loc'[d] = loc[d]
  <1>1. /\ pc'[c] = "idle" /\ loc'[c] = InitLocals
        /\ \A d \in Callers \ {c} : pc'[d] = pc[d] /\ loc'[d] = loc[d]
    BY DEF Finish, Goto, SetLocals, TypeInv, TypeOK
  <1> QED BY <1>1, InitLocalsType DEF ReadInv, ClaimInv

\* A free address becomes the user's who claims it, and the request ends.
LEMMA TakenFor ==
    ASSUME TypeInv, NEW c \in Callers, NEW a \in Addrs, AloneInv, GivenInv,
           \A d \in Callers : ReadInv(d) /\ ClaimInv(d),
           pc[c] \in {"claim", "register"}, Free(a), Finish(c),
           assignment' = [assignment EXCEPT ![a] = loc[c].user],
           UNCHANGED history \/ Answer(c, a)
    PROVE  UserInv'
  <1>u. PICK u \in Users : u = loc[c].user
    BY DEF TypeInv, LocalInv
  <1>0. u # NoUser /\ loc[c].op = "assign" /\ a \notin Assigned
    BY PoolAssumption DEF TypeInv, LocalInv, Free, Assigned
  <1>1. /\ Of(u)' = Of(u) \cup {a} /\ Assigned' = Assigned \cup {a}
        /\ \A v \in Users \ {u} : Of(v)' = Of(v)
    <2>1. assignment[a] = NoUser /\ assignment' = [assignment EXCEPT ![a] = u]
      BY <1>u DEF Free
    <2>2. assignment'[a] = u /\ \A b \in Addrs \ {a} : assignment'[b] = assignment[b]
      BY <2>1 DEF TypeInv, TypeOK
    <2>3. Of(u)' = Of(u) \cup {a}
      BY <2>2 DEF Of
    <2>4. Assigned' = Assigned \cup {a}
      BY <1>0, <2>2 DEF Assigned
    <2>5. ASSUME NEW v \in Users \ {u} PROVE Of(v)' = Of(v)
      <3>1. v # NoUser
        BY PoolAssumption
      <3> QED BY <2>1, <2>2, <3>1 DEF Of
    <2> QED BY <2>3, <2>4, <2>5
  <1>2. /\ pc'[c] = "idle" /\ loc'[c].op = "none" /\ ReadInv(c)' /\ ClaimInv(c)'
        /\ \A d \in Callers \ {c} : pc'[d] = pc[d] /\ loc'[d] = loc[d]
    BY Ended
  <1>3. /\ overlapped' = overlapped
        /\ \A v \in Users \ {u} : given'[v] = given[v]
        /\ given'[u] = given[u] \/ given'[u] = given[u] \cup {a}
    <2>1. CASE UNCHANGED history
      BY <2>1 DEF history
    <2>2. CASE Answer(c, a)
      BY <1>u, <1>0, <2>2, GiveTyped
    <2> QED BY <2>1, <2>2
  <1>4. u \notin overlapped => Of(u) = {} /\ Of(u)' = {a}
    BY <1>u, <1>1 DEF ClaimInv
  <1>5. GivenInv'
    <2> SUFFICES ASSUME NEW v \in Users
                 PROVE  /\ given'[v] \subseteq Of(v)'
                        /\ v \notin overlapped' => \A b \in given'[v] : b = First(Of(v))'
      BY DEF GivenInv, First
    <2>1. CASE v # u
      BY <1>1, <1>3, <2>1 DEF GivenInv, First
    <2>2. CASE v = u
      <3>1. given'[u] \subseteq Of(u)'
        BY <1>0, <1>1, <1>3 DEF GivenInv
      <3>2. ASSUME u \notin overlapped', NEW b \in given'[u] PROVE b = First(Of(u))'
        <4>1. Of(u)' = {a} /\ b = a
          BY <1>3, <1>4, <3>1, <3>2
        <4>2. First({a}) = a
          BY LeastOne
        <4> QED BY <4>1, <4>2 DEF First
      <3> QED BY <2>2, <3>1, <3>2
    <2> QED BY <2>1, <2>2
  <1>6. AloneInv'
    BY <1>2, <1>3 DEF AloneInv
  <1>7. ASSUME NEW d \in Callers \ {c} PROVE ReadInv(d)' /\ ClaimInv(d)'
    <2>1. pc'[d] = pc[d] /\ loc'[d] = loc[d]
      BY <1>2
    <2>2. CASE pc[d] \notin {"get", "claim", "register"}
      BY <2>1, <2>2 DEF ReadInv, ClaimInv
    <2>3. CASE pc[d] \in {"get", "claim", "register"}
      <3>0. loc[d].user \in Users
        BY <2>3 DEF TypeInv, LocalInv
      <3>1. CASE loc[d].user # u
        <4>1. Of(loc[d].user)' = Of(loc[d].user) /\ Assigned \subseteq Assigned'
          BY <1>1, <2>1, <3>0, <3>1
        <4> QED BY <1>3, <2>1, <4>1 DEF ReadInv, ClaimInv, Seen
      <3>2. CASE loc[d].user = u
        <4>1. u \in overlapped \/ loc[d].op # "assign"
          BY <1>u, <1>0, <3>2 DEF AloneInv
        <4>2. Of(loc[d].user)' = Of(u) \cup {a} /\ Of(loc[d].user) = Of(u)
          BY <1>1, <2>1, <3>2
        <4>3. CASE pc[d] = "get"
          <5>1. loc[d].found \subseteq Of(u) /\ loc[d].keys \subseteq Assigned
            BY <4>2, <4>3 DEF ReadInv
          <5>2. u \notin overlapped => loc[d].op = "load" /\ loc[d].found = {}
            BY <1>4, <4>1, <4>3, <5>1 DEF TypeInv, LocalInv
          <5>3. u \notin overlapped => loc[d].keys \cap Of(loc[d].user)' = {}
            BY <1>0, <1>4, <4>2, <5>1
          <5>4. u \notin overlapped => Seen(d)' = {}
            BY <2>1, <5>2, <5>3 DEF Seen
          <5> QED BY <1>1, <1>3, <2>1, <3>2, <4>2, <4>3, <5>1, <5>2, <5>4 DEF ReadInv, ClaimInv
        <4>4. CASE pc[d] \in {"claim", "register"}
          <5>1. loc[d].op = "assign"
            BY <4>4 DEF TypeInv, LocalInv
          <5> QED BY <1>3, <2>1, <3>2, <4>1, <4>4, <5>1 DEF ReadInv, ClaimInv
        <4> QED BY <2>3, <4>3, <4>4
      <3> QED BY <3>1, <3>2
    <2> QED BY <2>2, <2>3
  <1> QED BY <1>2, <1>5, <1>6, <1>7 DEF UserInv

LEMMA StartUser ==
    ASSUME TypeInv, UserInv, NEW c \in Callers, NEW u \in Users,
           NEW op \in {"assign", "load"}, Start(c, u, op)
    PROVE  UserInv'
  <1> SUFFICES ASSUME Lasting' PROVE UserInv'
    BY DEF UserInv
  <1>1. UNCHANGED <<store, cancels, assignment, given>>
    BY DEF Start, poolVars, bounds
  <1>2. AloneInv /\ GivenInv /\ \A d \in Callers : ReadInv(d) /\ ClaimInv(d)
    BY <1>1, LastingBefore DEF TypeInv, TypeOK
  <1> DEFINE l == [InitLocals EXCEPT !.op = op, !.user = u]
  <1>3. l.op = op /\ l.user = u /\ l.found = {}
    BY DEF InitLocals
  <1>4. /\ pc'[c] \in {"scan", "lookup"} /\ loc'[c] = l
        /\ \A d \in Callers \ {c} : pc'[d] = pc[d] /\ loc'[d] = loc[d]
    BY DEF Start, Goto, SetLocals, TypeInv, TypeOK
  <1> HIDE DEF l
  <1>5. overlapped \subseteq overlapped'
    BY DEF Start
  <1>6. GivenInv'
    BY <1>1, <1>2, <1>5 DEF GivenInv, Of
  <1>7. ReadInv(c)' /\ ClaimInv(c)'
    BY <1>3, <1>4 DEF ReadInv, ClaimInv
  <1>8. \A d \in Callers \ {c} : ReadInv(d)' /\ ClaimInv(d)'
    BY <1>1, <1>2, <1>4, <1>5 DEF ReadInv, ClaimInv, Seen, Of, Assigned
  <1>9. AloneInv'
    <2> SUFFICES ASSUME NEW d \in Callers, NEW e \in Callers,
                        loc'[d].op = "assign", loc'[e].op = "assign",
                        loc'[d].user = loc'[e].user, loc'[d].user \notin overlapped'
                 PROVE  d = e
      BY DEF AloneInv
    <2>1. CASE d # c /\ e # c
      BY <1>2, <1>4, <1>5, <2>1 DEF AloneInv
    <2>2. ASSUME NEW b \in Callers, b # c, loc'[b].op = "assign", loc'[b].user = u, op = "assign"
          PROVE  u \in overlapped'
      BY <1>4, <2>2 DEF Start, InFlight
    <2> QED BY <1>3, <1>4, <2>1, <2>2
  <1> QED BY <1>6, <1>7, <1>8, <1>9 DEF UserInv

LEMMA SearchUser == ASSUME TypeInv, UserInv, NEW c \in Callers, Search(c) PROVE UserInv'
  <1> SUFFICES ASSUME Lasting' PROVE UserInv'
    BY DEF UserInv
  <1>1. UNCHANGED <<store, cancels, assignment>>
    BY DEF Search, Scan, GetKey, Existing, NoneToClaim, Candidates, poolVars, bounds
  <1>2. AloneInv /\ GivenInv /\ \A d \in Callers : ReadInv(d) /\ ClaimInv(d)
    BY <1>1, LastingBefore DEF TypeInv, TypeOK
  <1>3. cancels = 0 /\ Assigned' = Assigned /\ \A u \in Users : Of(u)' = Of(u)
    BY <1>1 DEF Lasting, Assigned, Of
  <1>4. CASE Scan(c)
    <2> DEFINE l == [loc[c] EXCEPT !.keys = ScanKeys]
    <2>1. /\ pc[c] = "scan" /\ pc'[c] \in {"delete", "get"} /\ loc'[c] = l
          /\ \A d \in Callers \ {c} : pc'[d] = pc[d] /\ loc'[d] = loc[d]
          /\ UNCHANGED <<given, overlapped>>
      BY <1>4 DEF Scan, Goto, SetLocals, TypeInv, TypeOK, history
    <2>2. /\ l.op = loc[c].op /\ l.user = loc[c].user /\ l.found = loc[c].found
          /\ l.keys = Assigned
      BY Typed DEF Locals, ScanKeys
    <2> HIDE DEF l
    <2>3. loc'[c].found = {}
      BY <1>2, <2>1, <2>2 DEF ReadInv
    <2>4. ReadInv(c)' /\ ClaimInv(c)'
      <3>1. CASE loc[c].op \in {"assign", "load"}
        <4>1. loc[c].user \in Users /\ loc[c].user # NoUser
          BY <3>1, PoolAssumption DEF TypeInv, LocalInv
        <4>2. Of(loc[c].user) \subseteq Assigned
          BY <4>1 DEF Of, Assigned
        <4>3. Seen(c)' = Of(loc[c].user)
          BY <1>1, <2>1, <2>2, <2>3, <4>2 DEF Seen, Of
        <4> QED BY <1>1, <1>3, <2>1, <2>2, <2>3, <4>1, <4>3 DEF ReadInv, ClaimInv
      <3>2. CASE loc[c].op \notin {"assign", "load"}
        <4>1. pc'[c] = "delete"
          BY <1>4, <2>1, <3>2 DEF Scan, Goto, TypeInv, TypeOK, LocalInv
        <4> QED BY <4>1 DEF ReadInv, ClaimInv
      <3> QED BY <3>1, <3>2
    <2> QED BY <1>1, <1>2, <2>1, <2>2, <2>4, UserKept
  <1>5. CASE GetKey(c)
    <2>1. PICK a \in loc[c].keys :
            SetLocals(c, [loc[c] EXCEPT !.keys = @ \ {a},
                                        !.found = IF assignment[a] = loc[c].user
                                                  THEN @ \cup {a} ELSE @])
      BY <1>5 DEF GetKey
    <2>2. /\ pc[c] = "get" /\ UNCHANGED <<pc, given, overlapped>>
          /\ \A d \in Callers \ {c} : pc'[d] = pc[d] /\ loc'[d] = loc[d]
          /\ loc'[c].found = (IF assignment[a] = loc[c].user THEN loc[c].found \cup {a}
                              ELSE loc[c].found)
          /\ loc'[c].keys = loc[c].keys \ {a}
          /\ loc'[c].op = loc[c].op /\ loc'[c].user = loc[c].user
      BY <1>5, <2>1, Typed DEF GetKey, SetLocals, TypeInv, TypeOK, history, Locals
    <2>3. a \in Addrs /\ (assignment[a] = loc[c].user <=> a \in Of(loc[c].user))
      BY Typed DEF Of
    <2>4. Seen(c)' = Seen(c)
      BY <1>1, <2>2, <2>3 DEF Seen, Of
    <2>5. loc[c].user \in Users
      BY <2>2 DEF TypeInv, LocalInv
    <2>6. ReadInv(c)' /\ ClaimInv(c)'
      BY <1>2, <1>3, <2>2, <2>3, <2>4, <2>5 DEF ReadInv, ClaimInv
    <2> QED BY <1>1, <1>2, <2>2, <2>6, UserKept
  <1>6. CASE Existing(c)
    <2> DEFINE a == First(loc[c].found)
    <2>0. PICK u \in Users : u = loc[c].user
      BY <1>6 DEF Existing, SearchDone, TypeInv, LocalInv
    <2>1. pc[c] = "get" /\ loc[c].keys = {} /\ loc[c].found # {} /\ Answer(c, a) /\ Finish(c)
      BY <1>6 DEF Existing, SearchDone, Answer
    <2>2. a \in loc[c].found /\ a \in Addrs
      BY <2>1, Typed, LeastIn
    <2>3. a \in Of(u) /\ (u \notin overlapped => a = First(Of(u)))
      BY <1>2, <2>0, <2>1, <2>2 DEF ReadInv, Seen
    <2> HIDE DEF a
    <2>4. /\ overlapped' = overlapped
          /\ given'[u] = given[u] \cup {a} /\ \A v \in Users \ {u} : given'[v] = given[v]
      BY <2>0, <2>1, <2>2, GiveTyped
    <2>5. \A v \in Users : First(Of(v))' = First(Of(v))
      BY <1>3 DEF First
    <2>6. GivenInv'
      BY <1>2, <1>3, <2>3, <2>4, <2>5 DEF GivenInv
    <2>7. /\ loc'[c].op = "none" /\ ReadInv(c)' /\ ClaimInv(c)'
          /\ \A d \in Callers \ {c} : pc'[d] = pc[d] /\ loc'[d] = loc[d]
      BY <2>1, Ended
    <2>8. \A d \in Callers \ {c} : ReadInv(d)' /\ ClaimInv(d)'
      BY <1>1, <1>2, <2>4, <2>7 DEF ReadInv, ClaimInv, Seen, Of, Assigned
    <2>9. AloneInv'
      BY <1>2, <2>4, <2>7 DEF AloneInv
    <2> QED BY <2>6, <2>7, <2>8, <2>9 DEF UserInv
  <1>7. CASE NoneToClaim(c)
    <2>1. Finish(c) /\ UNCHANGED <<given, overlapped>>
      BY <1>7 DEF NoneToClaim, history
    <2> QED BY <1>1, <1>2, <2>1, Ended, UserKept
  <1>8. CASE Candidates(c)
    <2> DEFINE l == [loc[c] EXCEPT !.candidates = pool]
    <2>1. /\ pc[c] = "get" /\ loc[c].keys = {} /\ loc[c].found = {} /\ loc[c].op = "assign"
          /\ pc'[c] = "claim" /\ loc'[c] = l
          /\ \A d \in Callers \ {c} : pc'[d] = pc[d] /\ loc'[d] = loc[d]
          /\ UNCHANGED <<given, overlapped>>
      BY <1>8 DEF Candidates, SearchDone, Goto, SetLocals, TypeInv, TypeOK, history
    <2>2. l.op = loc[c].op /\ l.user = loc[c].user
      BY Typed DEF Locals
    <2> HIDE DEF l
    <2>3. loc[c].user \in Users
      BY <2>1 DEF TypeInv, LocalInv
    <2>4. loc[c].user \notin overlapped => Of(loc[c].user) = {}
      BY <1>2, <2>1 DEF ReadInv, Seen
    <2>5. ReadInv(c)' /\ ClaimInv(c)'
      BY <1>3, <2>1, <2>2, <2>3, <2>4 DEF ReadInv, ClaimInv
    <2> QED BY <1>1, <1>2, <2>1, <2>2, <2>5, UserKept
  <1> QED BY <1>4, <1>5, <1>6, <1>7, <1>8 DEF Search

\* The SET of an address, and what follows.
LEMMA SetUser ==
    ASSUME TypeInv, NEW c \in Callers, NEW a \in Addrs, AloneInv, GivenInv,
           \A d \in Callers : ReadInv(d) /\ ClaimInv(d),
           pc[c] \in {"claim", "register"}, NEW answered \in BOOLEAN, NEW done \in BOOLEAN,
           answered => done, SetNX(c, a, done),
           IF answered /\ Free(a) THEN Answer(c, a) ELSE Finish(c) /\ UNCHANGED history
    PROVE  UserInv'
  <1>1. Finish(c)
    BY DEF Answer
  <1>2. CASE done /\ Free(a)
    <2>1. assignment' = [assignment EXCEPT ![a] = loc[c].user]
      BY <1>2 DEF SetNX
    <2> QED BY <1>1, <1>2, <2>1, TakenFor
  <1>3. CASE ~(done /\ Free(a))
    <2>1. UNCHANGED <<assignment, given, overlapped>>
      BY <1>3 DEF SetNX, history
    <2> QED BY <1>1, <2>1, Ended, UserKept
  <1> QED BY <1>2, <1>3

LEMMA ClaimUser == ASSUME TypeInv, UserInv, NEW c \in Callers, Claim(c) PROVE UserInv'
  <1> SUFFICES ASSUME Lasting' PROVE UserInv'
    BY DEF UserInv
  <1> DEFINE a == Head(loc[c].candidates)
             l == [loc[c] EXCEPT !.candidates = Tail(@)]
  <1>1. PICK answered \in BOOLEAN, done \in BOOLEAN :
          /\ answered => done
          /\ Fault(~answered)
          /\ SetNX(c, a, done)
          /\ CASE ~answered -> Finish(c) /\ UNCHANGED history
               [] answered /\ Free(a) -> Answer(c, a)
               [] OTHER -> SetLocals(c, l) /\ UNCHANGED <<pc, history>>
    BY DEF Claim, SetNX
  <1>2. pc[c] = "claim" /\ UNCHANGED store /\ a \in Addrs
    BY Typed, Pools DEF Claim
  <1>3. AloneInv /\ GivenInv /\ \A d \in Callers : ReadInv(d) /\ ClaimInv(d)
    BY <1>1, <1>2, BoundsTyped, LastingBefore
  <1>4. l.op = loc[c].op /\ l.user = loc[c].user
    BY Typed DEF Locals
  <1> HIDE DEF a, l
  <1>5. CASE ~answered \/ Free(a)
    <2>1. IF answered /\ Free(a) THEN Answer(c, a) ELSE Finish(c) /\ UNCHANGED history
      BY <1>1, <1>5
    <2> QED BY <1>1, <1>2, <1>3, <2>1, SetUser
  <1>6. CASE answered /\ ~Free(a)
    <2>1. SetLocals(c, l) /\ UNCHANGED <<pc, history, assignment>>
      BY <1>1, <1>6 DEF SetNX
    <2>2. /\ loc'[c] = l /\ UNCHANGED <<pc, given, overlapped, assignment>>
          /\ \A d \in Callers \ {c} : pc'[d] = pc[d] /\ loc'[d] = loc[d]
      BY <2>1 DEF SetLocals, TypeInv, TypeOK, history
    <2>3. ReadInv(c)' /\ ClaimInv(c)'
      BY <1>2, <1>3, <1>4, <2>2 DEF ReadInv, ClaimInv, Of
    <2> QED BY <1>3, <1>4, <2>2, <2>3, UserKept
  <1> QED BY <1>5, <1>6

LEMMA RegisterUser == ASSUME TypeInv, UserInv, NEW c \in Callers, Register(c) PROVE UserInv'
  <1> SUFFICES ASSUME Lasting' PROVE UserInv'
    BY DEF UserInv
  <1> DEFINE a == loc[c].addr
  <1>1. PICK answered \in BOOLEAN, done \in BOOLEAN :
          /\ answered => done
          /\ Fault(~answered)
          /\ SetNX(c, a, done)
          /\ IF answered /\ Free(a) THEN Answer(c, a) ELSE Finish(c) /\ UNCHANGED history
    BY DEF Register, SetNX
  <1>2. pc[c] = "register" /\ UNCHANGED store
    BY DEF Register
  <1>3. a \in Addrs
    BY <1>2 DEF TypeInv, LocalInv
  <1> HIDE DEF a
  <1>4. AloneInv /\ GivenInv /\ \A d \in Callers : ReadInv(d) /\ ClaimInv(d)
    BY <1>1, <1>2, BoundsTyped, LastingBefore
  <1> QED BY <1>1, <1>2, <1>3, <1>4, SetUser

LEMMA GrowUser == ASSUME TypeInv, UserInv, NEW c \in Callers, Grow(c) PROVE UserInv'
  <1> SUFFICES ASSUME Lasting' PROVE UserInv'
    BY DEF UserInv
  <1>1. PICK a \in Addrs :
             /\ loc' = [loc EXCEPT ![c] = [loc[c] EXCEPT !.addr = a]]
             /\ pc' = [pc EXCEPT ![c] = IF store = "redis" THEN "register" ELSE "insert"]
    BY GrowAdds
  <1>2. /\ loc'[c] = [loc[c] EXCEPT !.addr = a] /\ pc'[c] \in {"register", "insert"}
        /\ \A d \in Callers \ {c} : pc'[d] = pc[d] /\ loc'[d] = loc[d]
    BY <1>1 DEF TypeInv, TypeOK
  <1>3. loc'[c].op = loc[c].op /\ loc'[c].user = loc[c].user
    BY <1>2, Typed DEF Locals
  <1>4. UNCHANGED <<store, cancels, assignment, given, overlapped>>
    BY DEF Grow, history, bounds
  <1>5. AloneInv /\ GivenInv /\ \A d \in Callers : ReadInv(d) /\ ClaimInv(d)
    BY <1>4, LastingBefore DEF TypeInv, TypeOK
  <1>6. pc[c] = "claim"
    BY <1>4 DEF Grow, PoolExhausted, TypeInv, LocalInv, Lasting
  <1>7. ReadInv(c)' /\ ClaimInv(c)'
    BY <1>2, <1>3, <1>4, <1>5, <1>6 DEF ReadInv, ClaimInv, Of
  <1> QED BY <1>2, <1>3, <1>4, <1>5, <1>7, UserKept

LEMMA QuitUser ==
    ASSUME TypeInv, UserInv, NEW c \in Callers, GrowFails(c) \/ PoolFull(c) \/ RedisError(c)
    PROVE  UserInv'
  <1> SUFFICES ASSUME Lasting' PROVE UserInv'
    BY DEF UserInv
  <1>1. Finish(c) /\ UNCHANGED <<store, assignment, given, overlapped>>
    BY DEF GrowFails, PoolFull, RedisError, history
  <1>2. cancels' \in Nat /\ cancels' >= cancels
    BY BoundsTyped DEF GrowFails, PoolFull, RedisError
  <1>3. AloneInv /\ GivenInv /\ \A d \in Callers : ReadInv(d) /\ ClaimInv(d)
    BY <1>1, <1>2, LastingBefore
  <1> QED BY <1>1, <1>3, Ended, UserKept

LEMMA CancelUser ==
    ASSUME TypeInv, UserInv, NEW c \in Callers, StartCancel(c), Lasting'
    PROVE  UserInv'
  <1> DEFINE l == [InitLocals EXCEPT !.op = "cancel"]
  <1>1. store = "redis" /\ store' = store
    BY DEF StartCancel, Lasting
  <1>2. UNCHANGED <<cancels, assignment, given, overlapped>>
    BY <1>1 DEF StartCancel, history
  <1>3. AloneInv /\ GivenInv /\ \A d \in Callers : ReadInv(d) /\ ClaimInv(d)
    BY <1>1, <1>2, LastingBefore DEF TypeInv, TypeOK
  <1>4. /\ pc'[c] = "scan" /\ loc'[c] = l
        /\ \A d \in Callers \ {c} : pc'[d] = pc[d] /\ loc'[d] = loc[d]
    BY <1>1 DEF StartCancel, Goto, SetLocals, TypeInv, TypeOK
  <1>5. l.op = "cancel" /\ l.found = {}
    BY DEF InitLocals
  <1> HIDE DEF l
  <1>6. ReadInv(c)' /\ ClaimInv(c)'
    BY <1>4, <1>5 DEF ReadInv, ClaimInv
  <1> QED BY <1>2, <1>3, <1>4, <1>5, <1>6, UserKept

\* These steps need a store in memory, or are a cancel-all.
LEMMA NotLasting ==
    ASSUME TypeInv, NEW c \in Callers, Memory(c) \/ CancelDelete(c)
    PROVE  ~Lasting'
  <1>1. CASE Memory(c)
    <2>1. pc[c] \in {"lookup", "insert"} /\ UNCHANGED store
      BY <1>1 DEF Memory, MemoryExisting, MemoryNone, MemoryClaim, MemoryInsert
    <2> QED BY <2>1 DEF TypeInv, LocalInv, Lasting
  <1>2. CASE CancelDelete(c)
    BY <1>2 DEF CancelDelete, Lasting, TypeInv, TypeOK
  <1> QED BY <1>1, <1>2

LEMMA UserStep == TypeInv /\ UserInv /\ [Next]_vars => UserInv'
  <1> SUFFICES ASSUME TypeInv, UserInv, [Next]_vars, Lasting' PROVE UserInv'
    BY DEF UserInv
  <1>1. CASE Boot \/ UNCHANGED vars
    <2>1. UNCHANGED <<store, cancels, assignment, given, overlapped, pc, loc>>
      BY <1>1 DEF Boot, CreateFile, FillFile, LoadFile, RefuseFile, OperatorRemovesFile,
                  history, bounds, vars
    <2> QED BY <2>1 DEF UserInv, Lasting, AloneInv, GivenInv, ReadInv, ClaimInv, Seen, Of, Assigned
  <1>2. CASE Crash \/ PowerLoss
    <2>0. Dies
      BY <1>2 DEF Crash, PowerLoss
    <2>1. \A c \in Callers : loc'[c] = InitLocals /\ pc'[c] = "idle"
      BY <2>0 DEF Dies
    <2>2. AloneInv' /\ \A c \in Callers : ReadInv(c)' /\ ClaimInv(c)'
      BY <2>1, InitLocalsType DEF AloneInv, ReadInv, ClaimInv
    <2>3. UNCHANGED <<assignment, given, overlapped, store, cancels>>
      BY <2>0 DEF Dies, Lasting, history
    <2>4. GivenInv'
      BY <2>3 DEF UserInv, Lasting, GivenInv, Of
    <2> QED BY <2>2, <2>4 DEF UserInv
  <1>3. ASSUME NEW c \in Callers,
               \/ \E u \in Users, op \in {"assign", "load"} : Start(c, u, op)
               \/ Search(c) \/ Claim(c) \/ Grow(c) \/ Register(c)
               \/ GrowFails(c) \/ PoolFull(c) \/ RedisError(c) \/ Memory(c)
               \/ StartCancel(c) \/ CancelDelete(c)
        PROVE  UserInv'
    BY <1>3, StartUser, SearchUser, ClaimUser, RegisterUser, GrowUser, QuitUser, CancelUser,
       NotLasting
  <1> QED BY <1>1, <1>2, <1>3, Steps

----------------------------------------------------------------------------
(* With Redis the pool keeps the promise of AddressBook. *)

Owner == [a \in Addrs |-> IF store = "redis" THEN assignment[a] ELSE NoUser]
Cancels == IF store = "redis" THEN cancels ELSE 0

LEMMA BookInit == Init => Book!Init
  <1> SUFFICES ASSUME Init PROVE Book!Init
    OBVIOUS
  <1>1. assignment \in [Addrs -> Users \cup {NoUser}] /\ cancels = 0
    BY DEF Init
  <1>2. Owner \in [Addrs -> Users \cup {NoUser}] /\ Cancels = 0
    BY <1>1 DEF Owner, Cancels
  <1> QED BY <1>2 DEF Book!Init, Owner, Cancels

\* A store in memory, or an assignment that nobody touches.
LEMMA BookStutter ==
    ASSUME UNCHANGED store, store = "redis" => UNCHANGED <<assignment, cancels>>
    PROVE  UNCHANGED Book!vars
  BY DEF Book!vars

\* SET NX of an address, carried out or not, answered or not.
LEMMA BookSet ==
    ASSUME TypeInv, NEW c \in Callers, NEW a \in Addrs, NEW done, loc[c].user \in Users,
           SetNX(c, a, done), store' = store, cancels' = cancels
    PROVE  [Book!Next]_(Book!vars)
  <1>1. CASE store = "redis" /\ done /\ Free(a)
    <2>1. PICK u \in Users : u = loc[c].user
      OBVIOUS
    <2>2. assignment[a] = NoUser /\ assignment' = [assignment EXCEPT ![a] = u]
      BY <1>1, <2>1 DEF SetNX, Free
    <2>3. Owner[a] = NoUser /\ Owner' = [Owner EXCEPT ![a] = u] /\ Cancels' = Cancels
      BY <1>1, <2>2 DEF Owner, Cancels, TypeInv, TypeOK
    <2>4. Book!Claim(a, u)
      BY <2>3 DEF Book!Claim, Owner, Cancels
    <2> QED BY <2>4 DEF Book!Next
  <1>2. CASE ~(store = "redis" /\ done /\ Free(a))
    <2>1. store = "redis" => assignment' = assignment
      BY <1>2 DEF SetNX
    <2> QED BY <2>1, BookStutter
  <1> QED BY <1>1, <1>2

LEMMA BookDelete ==
    ASSUME TypeInv, NEW c \in Callers, CancelDelete(c)
    PROVE  Book!Next
  <1> DEFINE found == loc[c].keys
  <1>1. store = "redis" /\ store' = store
    BY DEF CancelDelete, TypeInv, TypeOK, LocalInv
  <1>2. found \in SUBSET Addrs
    BY Typed
  <1>3. /\ Owner' = [a \in Addrs |-> IF a \in found THEN NoUser ELSE Owner[a]]
        /\ Cancels' = Cancels + 1
    BY <1>1 DEF CancelDelete, Owner, Cancels
  <1> HIDE DEF found
  <1>4. Book!Delete
    BY <1>2, <1>3, Zenon DEF Book!Delete, Owner, Cancels
  <1> QED BY <1>4 DEF Book!Next

LEMMA BookStep ==
    ASSUME TypeInv, [Next]_vars
    PROVE  [Book!Next]_(Book!vars)
  <1>1. CASE Boot \/ Crash \/ PowerLoss \/ UNCHANGED vars
    <2>1. UNCHANGED store /\ (store = "redis" => UNCHANGED <<assignment, cancels>>)
      BY <1>1 DEF Boot, CreateFile, FillFile, LoadFile, RefuseFile, OperatorRemovesFile, Crash,
                  PowerLoss, Dies,
                  vars, bounds
    <2> QED BY <2>1, BookStutter
  <1>2. ASSUME NEW c \in Callers, Claim(c) PROVE [Book!Next]_(Book!vars)
    <2> DEFINE a == Head(loc[c].candidates)
    <2>1. PICK answered \in BOOLEAN, done \in BOOLEAN : Fault(~answered) /\ SetNX(c, a, done)
      BY <1>2 DEF Claim, SetNX
    <2>2. a \in Addrs /\ loc[c].user \in Users /\ store' = store
      BY <1>2, Typed, Pools DEF Claim, TypeInv, LocalInv
    <2>3. cancels' = cancels
      BY <2>1 DEF Fault
    <2> HIDE DEF a
    <2> QED BY <2>1, <2>2, <2>3, BookSet
  <1>3. ASSUME NEW c \in Callers, Register(c) PROVE [Book!Next]_(Book!vars)
    <2> DEFINE a == loc[c].addr
    <2>1. PICK answered \in BOOLEAN, done \in BOOLEAN : Fault(~answered) /\ SetNX(c, a, done)
      BY <1>3 DEF Register, SetNX
    <2>2. a \in Addrs /\ loc[c].user \in Users /\ store' = store
      BY <1>3 DEF Register, TypeInv, LocalInv
    <2>3. cancels' = cancels
      BY <2>1 DEF Fault
    <2> HIDE DEF a
    <2> QED BY <2>1, <2>2, <2>3, BookSet
  <1>4. ASSUME NEW c \in Callers, Memory(c) PROVE [Book!Next]_(Book!vars)
    <2>1. pc[c] \in {"lookup", "insert"} /\ UNCHANGED store
      BY <1>4 DEF Memory, MemoryExisting, MemoryNone, MemoryClaim, MemoryInsert
    <2>2. store # "redis"
      BY <2>1 DEF TypeInv, LocalInv
    <2> QED BY <2>1, <2>2, BookStutter
  <1>5. ASSUME NEW c \in Callers,
               \/ \E u \in Users, op \in {"assign", "load"} : Start(c, u, op)
               \/ Search(c) \/ Grow(c) \/ GrowFails(c) \/ PoolFull(c) \/ RedisError(c)
               \/ StartCancel(c)
        PROVE  [Book!Next]_(Book!vars)
    <2>1. UNCHANGED store /\ (store = "redis" => UNCHANGED <<assignment, cancels>>)
      BY <1>5, Zenon DEF Start, Search, Scan, GetKey, Existing, NoneToClaim, Candidates, Grow,
           GrowFails, PoolFull, RedisError, StartCancel, Fault, bounds
    <2> QED BY <2>1, BookStutter
  <1>6. ASSUME NEW c \in Callers, CancelDelete(c) PROVE [Book!Next]_(Book!vars)
    BY <1>6, BookDelete
  <1> QED BY <1>1, <1>2, <1>3, <1>4, <1>5, <1>6, Steps

----------------------------------------------------------------------------
(* The theorems *)

\* The inductive invariant: types and locals, keys on disk, users and addresses.
THEOREM Invariance == Spec => [](TypeInv /\ DiskInv /\ UserInv)
  <1>1. Init => TypeInv /\ DiskInv /\ UserInv
    BY TypeInit, DiskInit, UserInit
  <1>2. TypeInv /\ DiskInv /\ UserInv /\ [Next]_vars => (TypeInv /\ DiskInv /\ UserInv)'
    BY TypeStep, DiskStep, UserStep
  <1> QED BY <1>1, <1>2, PTL DEF Spec

\* The variables keep their types, and the pool its maximum size, however many
\* requests grow it at a time.
THEOREM TypeCorrect == Spec => []TypeOK
  <1>1. TypeInv => TypeOK
    BY DEF TypeInv
  <1> QED BY <1>1, Invariance, PTL

\* append_ethereum_wallet_to_pool_file comes before every reservation: the key of
\* an address somebody was told is in the file, whatever fails or crashes, unless
\* it was of a first file that a power loss took before anything flushed it.
THEOREM KeysOnDisk == Spec => []KeyOnDisk
  <1>1. DiskInv => KeyOnDisk
    BY DEF DiskInv, ToldKept, Keys, KeyOnDisk
  <1> QED BY <1>1, Invariance, PTL

\* With Redis the pool gives an address only to somebody when nobody holds it, and
\* writes over no holder but in a cancel-all: it implements AddressBook.
THEOREM PoolKeepsBook == Spec => BookSpec
  <1>1. TypeInv /\ [Next]_vars => [Book!Next]_(Book!vars)
    BY BookStep
  <1> QED BY <1>1, BookInit, Invariance, PTL DEF Spec, BookSpec, Book!Spec

\* With Redis an address somebody was told stays his until a cancel-all.
THEOREM AttributionForGood == Spec => []AttributionKept
  <1>1. UserInv => AttributionKept
    BY DEF UserInv, Lasting, GivenInv, AttributionKept
  <1> QED BY <1>1, Invariance, PTL

\* With Redis a user whose get-or-create requests never overlap is told one
\* address, through failures, restarts and the growth of the pool.
THEOREM OneAddress == Spec => []SameAddress
  <1>1. UserInv => SameAddress
    <2> SUFFICES ASSUME UserInv, Lasting, NEW u \in Users \ overlapped
                 PROVE  Cardinality(given[u]) <= 1
      BY DEF SameAddress, Lasting
    <2> DEFINE a == First(Of(u))
    <2>1. given[u] \subseteq {a}
      BY DEF UserInv, GivenInv
    <2>2. IsFiniteSet({a}) /\ Cardinality({a}) = 1
      BY FS_Singleton
    <2> QED BY <2>1, <2>2, FS_Subset, FS_CardinalityType
  <1> QED BY <1>1, Invariance, PTL

====
