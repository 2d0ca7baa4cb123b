--------------------------- MODULE GasTankProofs ---------------------------
(***************************************************************************)
(* Proofs about GasTank for every set of payouts, both kinds of tank, every *)
(* target, fee and interval and every bound: a scheduled payment is         *)
(* executed once, and a sweep of the excess leaves the reserve.             *)
(***************************************************************************)
EXTENDS GasTank, TLAPS

\* Where the pass works on one payout.
PayoutLabels == {"resolve", "prepare", "pay", "sent", "failed"}

\* It was pending when chosen, and only an administrator expires it meanwhile.
ChosenInv ==
    pc \in PayoutLabels => /\ loc.payout \in Payouts
                           /\ status[loc.payout] \in {"pending", "expired"}

\* The transfer was answered: the backend knows, or is about to be told.
Answered(i) == status[i] = "sent" \/ (pc = "sent" /\ loc.payout = i)

\* A transfer that nobody will report is a fault; without faults each answered
\* transfer was executed, and no other.
CountInv ==
    \A i \in Payouts :
        /\ Answered(i) => paid[i] <= 1 + faults
        /\ ~Answered(i) => paid[i] <= faults
        /\ faults = 0 => paid[i] = IF Answered(i) THEN 1 ELSE 0

TankInv == TypeOK /\ ChosenInv /\ CountInv

----------------------------------------------------------------------------
(* Types *)

LEMMA TypeInit == Init => TypeOK
  <1> SUFFICES ASSUME Init PROVE TypeOK
    OBVIOUS
  <1>1. loc \in Locals
    BY DEF Init, Locals, InitLocals
  <1>2. /\ chain \in Chains /\ tokens \in BOOLEAN /\ pc \in Labels
        /\ status \in [Payouts -> Statuses]
        /\ mem \in Nat \cup {NoTime} /\ disk \in Nat \cup {NoTime}
    BY DEF Init, Labels, Statuses
  <1>3. /\ clock \in Nat /\ tank \in Nat /\ spends \in Nat /\ scheduled \in Nat
        /\ faults \in Nat /\ errors \in Nat
        /\ since \in [Payouts -> Nat] /\ paid \in [Payouts -> Nat]
    BY DEF Init
  <1> QED BY <1>1, <1>2, <1>3 DEF TypeOK

LEMMA TypeStep == TypeOK /\ ChosenInv /\ [Next]_vars => TypeOK'
  <1> SUFFICES ASSUME TypeOK, ChosenInv, [Next]_vars PROVE TypeOK'
    OBVIOUS
  <1> USE TankAssumption
      DEF TypeOK, Statuses, Labels, Locals, InitLocals, NoTime, Goto, Fault, Error, Failed,
          worldVars, backendVars, storeVars
  <1>1. CASE Tick BY <1>1 DEF Tick
  <1>2. CASE TopUp BY <1>2 DEF TopUp
  <1>3. CASE TokensArrive BY <1>3 DEF TokensArrive
  <1>4. CASE SpendGas BY <1>4 DEF SpendGas
  <1>5. CASE Crash BY <1>5 DEF Crash
  <1>6. ASSUME NEW i \in Payouts, Schedule(i) PROVE TypeOK'
    BY <1>6 DEF Schedule
  <1>7. ASSUME NEW i \in Payouts, Expire(i) PROVE TypeOK'
    BY <1>7 DEF Expire
  <1>8. CASE Begin BY <1>8 DEF Begin
  <1>9. CASE Peek BY <1>9 DEF Peek
  <1>10. CASE SweepTokens
    <2>1. tank' \in Nat /\ errors' \in Nat /\ pc' \in Labels
      BY <1>10 DEF SweepTokens
    <2>2. tokens' \in BOOLEAN
      <3>1. tokens' = tokens \/ tokens' = FALSE
        BY <1>10 DEF SweepTokens
      <3> QED BY <3>1
    <2> QED BY <1>10, <2>1, <2>2 DEF SweepTokens
  <1>11. CASE FetchPrice BY <1>11 DEF FetchPrice
  <1>12. CASE ReadBalance BY <1>12 DEF ReadBalance
  <1>13. CASE Choose BY <1>13 DEF Choose
  <1>14. CASE Resolve
    BY <1>14 DEF Resolve, Priced, Refused, Unpriced
  <1>15. CASE Prepare BY <1>15 DEF Prepare
  <1>16. CASE Pay BY <1>16 DEF Pay, ChosenInv, PayoutLabels
  <1>17. CASE NotifySent
    <2>1. status' = status \/ status' = [status EXCEPT ![loc.payout] = "sent"]
      BY <1>17 DEF NotifySent, Commit
    <2>2. status' \in [Payouts -> Statuses]
      BY <2>1
    <2>3. pc' = "save" /\ faults' \in Nat
      BY <1>17 DEF NotifySent, Commit
    <2> QED BY <1>17, <2>2, <2>3 DEF NotifySent, Commit
  <1>18. CASE NotifyFailed
    <2>1. status' = status \/ status' = [status EXCEPT ![loc.payout] = "failed"]
      BY <1>18 DEF NotifyFailed, Commit
    <2>2. status' \in [Payouts -> Statuses]
      BY <2>1
    <2>3. pc' = "save" /\ faults' \in Nat
      BY <1>18 DEF NotifyFailed, Commit
    <2> QED BY <1>18, <2>2, <2>3 DEF NotifyFailed, Commit
  <1>19. CASE Excess BY <1>19 DEF Excess
  <1>20. CASE SweepExcess BY <1>20 DEF SweepExcess, ExcessOf
  <1>21. CASE SaveTime BY <1>21 DEF SaveTime
  <1>22. CASE UNCHANGED vars BY <1>22 DEF vars
  <1> QED
    BY <1>1, <1>2, <1>3, <1>4, <1>5, <1>6, <1>7, <1>8, <1>9, <1>10, <1>11, <1>12, <1>13,
       <1>14, <1>15, <1>16, <1>17, <1>18, <1>19, <1>20, <1>21, <1>22 DEF Next, Pass

----------------------------------------------------------------------------
(* The payout in hand *)

LEMMA ChosenStep == TypeOK /\ ChosenInv /\ [Next]_vars => ChosenInv'
  <1> SUFFICES ASSUME TypeOK, ChosenInv, [Next]_vars PROVE ChosenInv'
    OBVIOUS
  <1> USE TankAssumption
      DEF TypeOK, ChosenInv, PayoutLabels, Labels, Locals, Goto, worldVars, backendVars, storeVars
  <1>1. CASE Tick BY <1>1 DEF Tick
  <1>2. CASE TopUp BY <1>2 DEF TopUp
  <1>3. CASE TokensArrive BY <1>3 DEF TokensArrive
  <1>4. CASE SpendGas BY <1>4 DEF SpendGas
  <1>5. CASE Crash BY <1>5 DEF Crash
  <1>6. ASSUME NEW i \in Payouts, Schedule(i) PROVE ChosenInv'
    BY <1>6 DEF Schedule
  <1>7. ASSUME NEW i \in Payouts, Expire(i) PROVE ChosenInv'
    BY <1>7 DEF Expire
  <1>8. CASE Begin BY <1>8 DEF Begin
  <1>9. CASE Peek BY <1>9 DEF Peek
  <1>10. CASE SweepTokens BY <1>10 DEF SweepTokens, Failed
  <1>11. CASE FetchPrice BY <1>11 DEF FetchPrice
  <1>12. CASE ReadBalance BY <1>12 DEF ReadBalance, Failed
  <1>13. CASE Choose BY <1>13 DEF Choose, Oldest, Waiting
  <1>14. CASE Resolve BY <1>14 DEF Resolve
  <1>15. CASE Prepare BY <1>15 DEF Prepare
  <1>16. CASE Pay BY <1>16 DEF Pay
  <1>17. CASE NotifySent BY <1>17 DEF NotifySent, Commit
  <1>18. CASE NotifyFailed BY <1>18 DEF NotifyFailed, Commit
  <1>19. CASE Excess BY <1>19 DEF Excess, Failed
  <1>20. CASE SweepExcess BY <1>20 DEF SweepExcess, Failed
  <1>21. CASE SaveTime BY <1>21 DEF SaveTime
  <1>22. CASE UNCHANGED vars BY <1>22 DEF vars
  <1> QED
    BY <1>1, <1>2, <1>3, <1>4, <1>5, <1>6, <1>7, <1>8, <1>9, <1>10, <1>11, <1>12, <1>13,
       <1>14, <1>15, <1>16, <1>17, <1>18, <1>19, <1>20, <1>21, <1>22 DEF Next, Pass

----------------------------------------------------------------------------
(* Executions and answers *)

\* A step that neither pays nor reports changes no count.
LEMMA QuietStep ==
    ASSUME TypeOK, CountInv,
           pc # "sent", pc' # "sent",
           \A i \in Payouts : paid'[i] = paid[i] /\ (status'[i] = "sent" <=> status[i] = "sent"),
           faults' \in Nat, faults' >= faults
    PROVE  CountInv'
  BY DEF TypeOK, CountInv, Answered

\* A step that leaves payout, place and counts alone.
LEMMA WorldStep ==
    ASSUME TypeOK, CountInv, pc' = pc, loc' = loc, paid' = paid, faults' = faults,
           \A i \in Payouts : status'[i] = "sent" <=> status[i] = "sent"
    PROVE  CountInv'
  BY DEF TypeOK, CountInv, Answered

LEMMA CountStep == TankInv /\ [Next]_vars => CountInv'
  <1> SUFFICES ASSUME TankInv, [Next]_vars PROVE CountInv'
    OBVIOUS
  <1> USE DEF TankInv, worldVars, backendVars, storeVars, Goto
  <1>1. CASE Tick BY <1>1, WorldStep DEF Tick
  <1>2. CASE TopUp BY <1>2, WorldStep DEF TopUp
  <1>3. CASE TokensArrive BY <1>3, WorldStep DEF TokensArrive
  <1>4. CASE SpendGas BY <1>4, WorldStep DEF SpendGas
  <1>5. CASE Crash
    <2>1. pc' = "idle" /\ faults' = faults + 1 /\ paid' = paid /\ status' = status
      BY <1>5 DEF Crash, Fault
    <2> QED BY <2>1 DEF TypeOK, CountInv, Answered
  <1>6. ASSUME NEW i \in Payouts, Schedule(i) PROVE CountInv'
    <2>1. \A j \in Payouts : status'[j] = "sent" <=> status[j] = "sent"
      BY <1>6 DEF Schedule, TypeOK
    <2> QED BY <1>6, <2>1, WorldStep DEF Schedule
  <1>7. ASSUME NEW i \in Payouts, Expire(i) PROVE CountInv'
    <2>1. \A j \in Payouts : status'[j] = "sent" <=> status[j] = "sent"
      BY <1>7 DEF Expire, TypeOK
    <2> QED BY <1>7, <2>1, WorldStep DEF Expire
  <1>8. CASE Begin BY <1>8, QuietStep DEF Begin, TypeOK
  <1>9. CASE Peek BY <1>9, QuietStep DEF Peek, TypeOK
  <1>10. CASE SweepTokens
    <2>1. /\ pc = "tokens" /\ pc' # "sent" /\ paid' = paid /\ status' = status
          /\ faults' = faults
      BY <1>10 DEF SweepTokens, Failed
    <2> QED BY <2>1, QuietStep DEF TypeOK
  <1>11. CASE FetchPrice BY <1>11, QuietStep DEF FetchPrice, TypeOK
  <1>12. CASE ReadBalance BY <1>12, QuietStep DEF ReadBalance, TypeOK, Failed
  <1>13. CASE Choose BY <1>13, QuietStep DEF Choose, TypeOK
  <1>14. CASE Resolve BY <1>14, QuietStep DEF Resolve, TypeOK
  <1>15. CASE Prepare BY <1>15, QuietStep DEF Prepare, TypeOK
  <1>16. CASE Pay
    <2>1. PICK executed, answered \in BOOLEAN :
            /\ paid' = IF executed THEN [paid EXCEPT ![loc.payout] = @ + 1] ELSE paid
            /\ Fault(executed # answered)
            /\ pc' = IF answered THEN "sent" ELSE "save"
      BY <1>16 DEF Pay
    <2>2. /\ pc = "pay" /\ status' = status /\ loc' = loc
          /\ loc.payout \in Payouts /\ status[loc.payout] # "sent"
      BY <1>16 DEF Pay, ChosenInv, PayoutLabels
    <2>3. /\ executed # answered => faults' = faults + 1
          /\ executed = answered => faults' = faults
      BY <2>1 DEF Fault
    <2> SUFFICES ASSUME NEW i \in Payouts
                 PROVE  /\ Answered(i)' => paid'[i] <= 1 + faults'
                        /\ ~Answered(i)' => paid'[i] <= faults'
                        /\ faults' = 0 => paid'[i] = IF Answered(i)' THEN 1 ELSE 0
      BY DEF CountInv
    <2>4. CASE i # loc.payout
      BY <2>1, <2>2, <2>3, <2>4 DEF CountInv, Answered, TypeOK
    <2>5. CASE i = loc.payout
      <3>1. ~Answered(i) BY <2>2, <2>5 DEF Answered
      <3>2. paid'[i] = IF executed THEN paid[i] + 1 ELSE paid[i]
        BY <2>1, <2>5 DEF TypeOK
      <3>3. Answered(i)' <=> answered
        BY <2>1, <2>2, <2>5 DEF Answered
      <3> QED BY <2>3, <3>1, <3>2, <3>3 DEF CountInv, TypeOK
    <2> QED BY <2>4, <2>5
  <1>17. CASE NotifySent
    <2>1. PICK told \in BOOLEAN :
            /\ Fault(~told)
            /\ status' = IF told THEN [status EXCEPT ![loc.payout] = "sent"] ELSE status
      BY <1>17 DEF NotifySent, Commit
    <2>2. /\ pc = "sent" /\ pc' = "save" /\ loc' = loc /\ paid' = paid
          /\ loc.payout \in Payouts
      BY <1>17 DEF NotifySent, Commit, ChosenInv, PayoutLabels
    <2>3. told => faults' = faults BY <2>1 DEF Fault
    <2>4. ~told => faults' = faults + 1 BY <2>1 DEF Fault
    <2>5. CASE told
      <3>1. \A i \in Payouts : Answered(i)' <=> Answered(i)
        BY <2>1, <2>2, <2>5 DEF Answered, TypeOK
      <3> QED BY <2>2, <2>3, <2>5, <3>1 DEF CountInv, TypeOK
    <2>6. CASE ~told
      <3>1. \A i \in Payouts : Answered(i)' => Answered(i)
        BY <2>1, <2>2, <2>6 DEF Answered, TypeOK
      <3> QED BY <2>2, <2>4, <2>6, <3>1 DEF CountInv, TypeOK
    <2> QED BY <2>5, <2>6
  <1>18. CASE NotifyFailed
    <2>1. PICK told \in BOOLEAN :
            /\ Fault(~told)
            /\ status' = IF told THEN [status EXCEPT ![loc.payout] = "failed"] ELSE status
      BY <1>18 DEF NotifyFailed, Commit
    <2>2. /\ pc = "failed" /\ pc' = "save" /\ paid' = paid
          /\ loc.payout \in Payouts /\ status[loc.payout] # "sent"
      BY <1>18 DEF NotifyFailed, Commit, ChosenInv, PayoutLabels
    <2>3. \A i \in Payouts : status'[i] = "sent" <=> status[i] = "sent"
      BY <2>1, <2>2 DEF TypeOK
    <2>4. faults' \in Nat /\ faults' >= faults
      BY <2>1 DEF Fault, TypeOK
    <2> QED BY <2>2, <2>3, <2>4, QuietStep
  <1>19. CASE Excess BY <1>19, QuietStep DEF Excess, TypeOK, Failed
  <1>20. CASE SweepExcess BY <1>20, QuietStep DEF SweepExcess, TypeOK, Failed, Fault
  <1>21. CASE SaveTime BY <1>21, QuietStep DEF SaveTime, TypeOK, Fault
  <1>22. CASE UNCHANGED vars BY <1>22, WorldStep DEF vars
  <1> QED
    BY <1>1, <1>2, <1>3, <1>4, <1>5, <1>6, <1>7, <1>8, <1>9, <1>10, <1>11, <1>12, <1>13,
       <1>14, <1>15, <1>16, <1>17, <1>18, <1>19, <1>20, <1>21, <1>22 DEF Next, Pass

----------------------------------------------------------------------------
(* The reserve *)

\* A pass that sweeps asks for what the balance it read had above the target, and
\* its fee: a tank that holds that balance still keeps the target.
LEMMA ReserveStep ==
    ASSUME TypeOK, Next, pc = "sweep", tank' < tank, spends' = spends
    PROVE  tank' >= Target \/ tank < loc.balance
  <1>1. tank \in Nat /\ loc.balance \in Nat /\ Target \in Nat /\ Fee \in Nat /\ spends \in Nat
    BY TankAssumption DEF TypeOK, Locals
  <1>2. CASE SweepExcess
    <2>1. tank' = tank - (ExcessOf(loc.balance) + Fee)
      BY <1>1, <1>2 DEF SweepExcess
    <2> QED BY <1>1, <2>1 DEF ExcessOf
  <1>3. CASE ~SweepExcess
    <2>1. CASE Pass
      BY <1>3, <2>1
      DEF Pass, Begin, Peek, SweepTokens, FetchPrice, ReadBalance, Choose, Resolve, Prepare,
          Pay, NotifySent, NotifyFailed, Commit, Excess, SaveTime
    <2>2. CASE ~Pass
      <3>1. CASE SpendGas
        BY <1>1, <3>1 DEF SpendGas
      <3>2. CASE TopUp
        BY <1>1, <3>2 DEF TopUp
      <3>3. CASE Tick \/ TokensArrive \/ Crash
        <4>1. tank' = tank
          BY <3>3 DEF Tick, TokensArrive, Crash
        <4> QED BY <1>1, <4>1
      <3>4. CASE \E i \in Payouts : Schedule(i) \/ Expire(i)
        BY <1>1, <3>4 DEF Schedule, Expire
      <3> QED BY <2>2, <3>1, <3>2, <3>3, <3>4 DEF Next
    <2> QED BY <2>1, <2>2
  <1> QED BY <1>2, <1>3

----------------------------------------------------------------------------
(* The theorems *)

\* The inductive invariant: types, the payout in hand, executions and answers.
THEOREM Invariance == Spec => []TankInv
  <1>1. Init => TankInv
    <2>1. Init => ChosenInv /\ CountInv
      BY DEF Init, ChosenInv, PayoutLabels, CountInv, Answered
    <2> QED BY <2>1, TypeInit DEF TankInv
  <1>2. TankInv /\ [Next]_vars => TankInv'
    BY TypeStep, ChosenStep, CountStep DEF TankInv
  <1> QED BY <1>1, <1>2, PTL DEF Spec

\* The variables keep their types: in particular the tank is never overdrawn.
THEOREM TypeCorrect == Spec => []TypeOK
  BY Invariance, PTL DEF TankInv

\* A scheduled payment is executed once, and once more at most for every lost
\* answer, unheard callback or crash.
THEOREM PaidOnce == Spec => []PaidOncePerFault
  <1>1. ASSUME TankInv PROVE PaidOncePerFault
    <2> SUFFICES ASSUME NEW i \in Payouts
                 PROVE  /\ paid[i] <= 1 + faults
                        /\ faults = 0 => /\ status[i] = "sent" => paid[i] = 1
                                         /\ status[i] = "failed" => paid[i] = 0
      BY DEF PaidOncePerFault
    <2>1. paid[i] \in Nat /\ faults \in Nat
      BY <1>1 DEF TankInv, TypeOK
    <2>2. status[i] = "sent" => Answered(i)
      BY DEF Answered
    <2>3. status[i] = "failed" => ~Answered(i)
      BY <1>1 DEF TankInv, ChosenInv, Answered, PayoutLabels
    <2> QED BY <1>1, <2>1, <2>2, <2>3 DEF TankInv, CountInv
  <1> QED BY <1>1, Invariance, PTL

\* Only a fee, or a transfer to the ledger that raced with one, takes the tank
\* below its target.
THEOREM ReserveStays == Spec => ReserveKept
  <1>1. TankInv /\ [Next]_vars =>
          [(pc = "sweep" /\ tank' < tank /\ spends' = spends)
              => tank' >= Target \/ tank < loc.balance]_vars
    BY ReserveStep DEF TankInv
  <1> QED BY <1>1, Invariance, PTL DEF Spec, ReserveKept

============================================================================
