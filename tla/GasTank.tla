------------------------------ MODULE GasTank ------------------------------
(***************************************************************************)
(* The maintenance of the gas tank: the excess over the target goes to the *)
(* ledger, and on Solana payments that the backend scheduled go first.     *)
(*                                                                         *)
(* Source: src/src/solana.rs, src/src/solana_scheduled.rs,                 *)
(* src/src/ethereum.rs.                                                    *)
(*                                                                         *)
(* One task maintains the tank.  The other tasks of the detector spend its *)
(* coins on fees at any time, the backend schedules payments and publishes *)
(* those that are pending in Redis, oldest first.  A step ends at every    *)
(* call of the task: price, balance, Redis, fee, transfer, callback.       *)
(***************************************************************************)
EXTENDS Integers

CONSTANTS
    Payouts,      \* scheduled payments
    Amount,       \* coins each asks for; 0 when the request is not valid
    Currency,     \* "SOL", "USD" or "EUR"
    Expiry,       \* the time at which each expires
    Chains,       \* configurations: "solana", "evm"
    NoPayout,
    Target,       \* gas_tank_target_usd in coins
    Fee,          \* of a transfer, and of a token sweep
    Interval,     \* gas_tank_check_interval_secs
    MaxTime,      \* bound: clock
    MaxTank,      \* bound: coins in the tank
    MaxSpends,    \* bound: fees paid by the other tasks
    MaxFaults,    \* bound: crashes, lost replies and transactions, failed saves
    MaxErrors     \* bound: calls that fail

ASSUME TankAssumption ==
    /\ Amount \in [Payouts -> Nat]
    /\ Expiry \in [Payouts -> Nat]
    /\ Currency \in [Payouts -> {"SOL", "USD", "EUR"}]
    /\ Chains \subseteq {"solana", "evm"}
    /\ NoPayout \notin Payouts
    /\ Target \in Nat \ {0} /\ Fee \in Nat \ {0} /\ Interval \in Nat \ {0}
    /\ MaxTime \in Nat /\ MaxTank \in Nat /\ MaxSpends \in Nat
    /\ MaxFaults \in Nat /\ MaxErrors \in Nat

VARIABLES
    chain,     \* the configuration of this process
    clock,
    tank,      \* coins of the tank
    tokens,    \* tokens that reached the tank (EVM)
    spends,    \* fees the other tasks paid from it
    status,    \* of each payout, in the backend's database
    since,     \* of each payout, its place among those scheduled so far
    scheduled, \* number of payouts scheduled so far
    paid,      \* how often each payout was executed on the chain
    mem,       \* gas_tank_last_maintenance_unix
    disk,
    pc,
    loc,       \* locals of the pass: start, balance, payout
    faults,
    errors

worldVars == <<chain, clock, spends>>
backendVars == <<status, since, scheduled>>
storeVars == <<mem, disk>>
vars == <<worldVars, tank, tokens, backendVars, paid, storeVars, pc, loc, faults, errors>>

----------------------------------------------------------------------------
NoTime == -1
Statuses == {"none", "pending", "sent", "failed", "expired"}
Labels == {"idle", "peek", "tokens", "price", "balance", "list", "resolve", "prepare", "pay",
           "sent", "failed", "excess", "sweep", "save"}
Locals == [start : Nat, balance : Nat, payout : Payouts \cup {NoPayout}]
InitLocals == [start |-> 0, balance |-> 0, payout |-> NoPayout]

Goto(label) == pc' = label
Fault(happens) == /\ happens => faults < MaxFaults
                  /\ faults' = IF happens THEN faults + 1 ELSE faults
Error(happens) == /\ happens => errors < MaxErrors
                  /\ errors' = IF happens THEN errors + 1 ELSE errors

\* Where an error leads: on Solana the pass ends and its time is kept, on EVM
\* the poll loop starts again.
Failed == IF chain = "evm" THEN "idle" ELSE "save"

\* The snapshot in Redis is rewritten with every change of a status and holds
\* the pending payouts, oldest first.
Unexpired(i, now) == Expiry[i] > now
Waiting(i, now) == status[i] = "pending" /\ Unexpired(i, now)
Oldest(i, now) ==
    /\ Waiting(i, now)
    /\ \A j \in Payouts : Waiting(j, now) => since[i] <= since[j]

----------------------------------------------------------------------------
(* The world (external) *)

Tick ==
    /\ clock < MaxTime
    /\ clock' = clock + 1
    /\ UNCHANGED <<chain, spends, tank, tokens, backendVars, paid, storeVars, pc, loc, faults, errors>>

TopUp ==
    /\ tank < MaxTank
    /\ tank' = tank + 1
    /\ UNCHANGED <<worldVars, tokens, backendVars, paid, storeVars, pc, loc, faults, errors>>

TokensArrive ==
    /\ chain = "evm"
    /\ ~tokens
    /\ tokens' = TRUE
    /\ UNCHANGED <<worldVars, tank, backendVars, paid, storeVars, pc, loc, faults, errors>>

\* A sweep of the outbox takes its fee from the tank.
SpendGas ==
    /\ spends < MaxSpends
    /\ tank >= Fee
    /\ tank' = tank - Fee
    /\ spends' = spends + 1
    /\ UNCHANGED <<chain, clock, tokens, backendVars, paid, storeVars, pc, loc, faults, errors>>

Schedule(i) ==
    /\ chain = "solana"
    /\ status[i] = "none"
    /\ status' = [status EXCEPT ![i] = "pending"]
    /\ since' = [since EXCEPT ![i] = scheduled]
    /\ scheduled' = scheduled + 1
    /\ UNCHANGED <<worldVars, tank, tokens, paid, storeVars, pc, loc, faults, errors>>

\* An administrator looks at the list.
Expire(i) ==
    /\ status[i] = "pending"
    /\ ~Unexpired(i, clock)
    /\ status' = [status EXCEPT ![i] = "expired"]
    /\ UNCHANGED <<since, scheduled, worldVars, tank, tokens, paid, storeVars, pc, loc, faults, errors>>

Crash ==
    /\ Fault(TRUE)
    /\ mem' = disk
    /\ Goto("idle")
    /\ loc' = InitLocals
    /\ UNCHANGED <<worldVars, tank, tokens, backendVars, paid, disk, errors>>

----------------------------------------------------------------------------
(* maybe_maintain_gas_tank, has_pending_scheduled_payment *)

Due == mem = NoTime \/ clock - mem >= Interval

\* Mutant: the time of the last pass is kept.
BeginAtLast ==
    /\ pc = "idle"
    /\ Due
    /\ Goto(IF chain = "solana" THEN "price" ELSE "tokens")
    /\ loc' = [InitLocals EXCEPT !.start = mem]
    /\ UNCHANGED <<worldVars, tank, tokens, backendVars, paid, storeVars, faults, errors>>
\* The time that will be recorded is read first.  On EVM a pass that is not due
\* ends here.
Begin ==
    /\ pc = "idle"
    /\ \/ Due /\ Goto(IF chain = "solana" THEN "price" ELSE "tokens")
       \/ ~Due /\ Goto(IF chain = "solana" THEN "peek" ELSE "idle")
    /\ loc' = IF pc' = "idle" THEN loc ELSE [InitLocals EXCEPT !.start = clock]
    /\ UNCHANGED <<worldVars, tank, tokens, backendVars, paid, storeVars, faults, errors>>

\* A payout that waits does not wait for the interval.
Peek ==
    /\ pc = "peek"
    /\ \E error \in BOOLEAN :
         /\ Error(error)
         /\ IF error \/ ~\E i \in Payouts : Waiting(i, loc.start) THEN Goto("idle") /\ loc' = InitLocals
            ELSE Goto("price") /\ UNCHANGED loc
    /\ UNCHANGED <<worldVars, tank, tokens, backendVars, paid, storeVars, faults>>

\* sweep_gas_tank_tokens_to_ledger: nothing there, or too dear; a transfer
\* whose fee the tank can pay; or an error.
SweepTokens ==
    /\ pc = "tokens"
    /\ \/ Goto("price") /\ UNCHANGED <<tank, tokens, errors>>
       \/ /\ tokens /\ tank >= Fee
          /\ tokens' = FALSE
          /\ tank' = tank - Fee
          /\ Goto("price")
          /\ UNCHANGED errors
       \/ Error(TRUE) /\ Goto(Failed) /\ UNCHANGED <<tank, tokens>>
       \/ tokens /\ tank < Fee /\ Goto(Failed) /\ UNCHANGED <<tank, tokens, errors>>
    /\ UNCHANGED <<worldVars, backendVars, paid, storeVars, loc, faults>>

----------------------------------------------------------------------------
(* maintain_gas_tank *)

\* Without a price there is nothing to do.
FetchPrice ==
    /\ pc = "price"
    /\ \E error \in BOOLEAN :
         /\ Error(error)
         /\ Goto(IF error THEN "save" ELSE "balance")
    /\ UNCHANGED <<worldVars, tank, tokens, backendVars, paid, storeVars, loc, faults>>

ReadBalance ==
    /\ pc = "balance"
    /\ \E error \in BOOLEAN :
         /\ Error(error)
         /\ IF error THEN Goto(Failed) /\ UNCHANGED loc
            ELSE /\ loc' = [loc EXCEPT !.balance = tank]
                 /\ Goto(IF chain = "solana" THEN "list" ELSE "excess")
    /\ UNCHANGED <<worldVars, tank, tokens, backendVars, paid, storeVars, faults>>

\* try_fulfill_scheduled_payment: the first that has not expired.  If Redis
\* does not answer, it is as if none were scheduled.
Choose ==
    /\ pc = "list"
    /\ \E error \in BOOLEAN :
         /\ Error(error)
         /\ IF error \/ ~\E i \in Payouts : Waiting(i, clock) THEN Goto("excess") /\ UNCHANGED loc
            ELSE /\ Goto("resolve")
                 /\ \E i \in Payouts : Oldest(i, clock) /\ loc' = [loc EXCEPT !.payout = i]
    /\ UNCHANGED <<worldVars, tank, tokens, backendVars, paid, storeVars, faults>>

\* payment_amount_lamports: a price in EUR is fetched now.
Unpriced(i) == Currency[i] = "EUR" /\ Error(TRUE)
Priced(i) == Amount[i] > 0 /\ UNCHANGED errors
Refused(i) == Amount[i] = 0 /\ UNCHANGED errors

\* The amount and the destination; a payout without them fails.
Resolve ==
    /\ pc = "resolve"
    /\ \/ Priced(loc.payout) /\ Goto("prepare")
       \/ (Refused(loc.payout) \/ Unpriced(loc.payout)) /\ Goto("failed")
    /\ UNCHANGED <<worldVars, tank, tokens, backendVars, paid, storeVars, loc, faults>>

\* Mutant: the excess is swept while a payout waits for funds.
PrepareOrSweep ==
    /\ pc = "prepare"
    /\ Goto(IF loc.balance >= Amount[loc.payout] + Fee THEN "pay" ELSE "excess")
    /\ UNCHANGED <<worldVars, tank, tokens, backendVars, paid, storeVars, loc, faults, errors>>
\* Blockhash and fee, then amount + fee is compared with the balance read above.
Prepare ==
    /\ pc = "prepare"
    /\ \E error \in BOOLEAN :
         /\ Error(error)
         /\ Goto(IF ~error /\ loc.balance >= Amount[loc.payout] + Fee THEN "pay" ELSE "save")
    /\ UNCHANGED <<worldVars, tank, tokens, backendVars, paid, storeVars, loc, faults>>

\* The transfer is executed and answered, executed with the answer lost,
\* answered and never executed, or refused.  Without an answer the payout waits.
Pay ==
    /\ pc = "pay"
    /\ \E executed, answered \in BOOLEAN :
         /\ executed => tank >= Amount[loc.payout] + Fee
         /\ tank' = IF executed THEN tank - (Amount[loc.payout] + Fee) ELSE tank
         /\ paid' = IF executed THEN [paid EXCEPT ![loc.payout] = @ + 1] ELSE paid
         /\ Fault(executed # answered)
         /\ Error(~executed /\ ~answered /\ tank >= Amount[loc.payout] + Fee)
         /\ Goto(IF answered THEN "sent" ELSE "save")
    /\ UNCHANGED <<worldVars, tokens, backendVars, storeVars, loc>>

\* post_internal: the backend learns it, or the callback is given up after five
\* attempts.
Commit(label, outcome) ==
    /\ pc = label
    /\ \E told \in BOOLEAN :
         /\ Fault(~told)
         /\ status' = IF told THEN [status EXCEPT ![loc.payout] = outcome] ELSE status
         /\ UNCHANGED <<since, scheduled>>
    /\ Goto("save")
    /\ UNCHANGED <<worldVars, tank, tokens, paid, storeVars, loc, errors>>

\* Mutant: nobody is told.
NotifySentNever ==
    /\ pc = "sent"
    /\ Goto("save")
    /\ UNCHANGED <<worldVars, tank, tokens, backendVars, paid, storeVars, loc, faults, errors>>
NotifySent == Commit("sent", "sent")
NotifyFailed == Commit("failed", "failed")

\* Mutant: the fee of the transfer to the ledger is forgotten.
ExcessOfWithoutFee(balance) == balance - Target
ExcessOf(balance) == balance - Target - Fee

\* Balance, blockhash and fee leave an excess, on EVM one worth its fee.
Excess ==
    /\ pc = "excess"
    /\ \E error, dear \in BOOLEAN :
         /\ Error(error)
         /\ error => loc.balance > Target \/ (chain = "solana" /\ loc.balance = Target)
         /\ dear => chain = "evm"
         /\ Goto(IF error THEN Failed
                 ELSE IF ExcessOf(loc.balance) <= 0 \/ dear THEN "save" ELSE "sweep")
    /\ UNCHANGED <<worldVars, tank, tokens, backendVars, paid, storeVars, loc, faults>>

\* The chain refuses what the tank does not hold any more.
SweepExcess ==
    /\ pc = "sweep"
    /\ LET excess == ExcessOf(loc.balance)
       IN \/ /\ tank >= excess + Fee
             /\ tank' = tank - (excess + Fee)
             /\ \E answered \in BOOLEAN :
                  /\ Fault(~answered)
                  /\ Goto(IF answered THEN "save" ELSE Failed)
             /\ UNCHANGED errors
          \/ /\ Error(tank >= excess + Fee)
             /\ Goto(Failed)
             /\ UNCHANGED <<tank, faults>>
    /\ UNCHANGED <<worldVars, tokens, backendVars, paid, storeVars, loc>>

SaveTime ==
    /\ pc = "save"
    /\ mem' = loc.start
    /\ \E saved \in BOOLEAN :
         /\ Fault(~saved)
         /\ disk' = IF saved THEN mem' ELSE disk
    /\ Goto("idle")
    /\ loc' = InitLocals
    /\ UNCHANGED <<worldVars, tank, tokens, backendVars, paid, errors>>

----------------------------------------------------------------------------
Init ==
    /\ chain \in Chains
    /\ clock = 0
    /\ tank = 0
    /\ tokens = FALSE
    /\ spends = 0
    /\ status = [i \in Payouts |-> "none"]
    /\ since = [i \in Payouts |-> 0]
    /\ scheduled = 0
    /\ paid = [i \in Payouts |-> 0]
    /\ mem = NoTime
    /\ disk = NoTime
    /\ pc = "idle"
    /\ loc = InitLocals
    /\ faults = 0
    /\ errors = 0

Pass ==
    \/ Begin \/ Peek \/ SweepTokens \/ FetchPrice \/ ReadBalance \/ Choose \/ Resolve
    \/ Prepare \/ Pay \/ NotifySent \/ NotifyFailed \/ Excess \/ SweepExcess \/ SaveTime

Next ==
    \/ Tick \/ TopUp \/ TokensArrive \/ SpendGas \/ Crash
    \/ \E i \in Payouts : Schedule(i) \/ Expire(i)
    \/ Pass

Spec == Init /\ [][Next]_vars

\* The loop runs for ever, and somebody tops up the tank.
FairSpec == Spec /\ WF_vars(Pass) /\ WF_vars(TopUp)

----------------------------------------------------------------------------
(* Properties *)

\* The type invariant.
TypeOK ==
    /\ chain \in Chains
    /\ clock \in Nat /\ tank \in Nat /\ spends \in Nat
    /\ tokens \in BOOLEAN
    /\ status \in [Payouts -> Statuses]
    /\ since \in [Payouts -> Nat] /\ scheduled \in Nat
    /\ paid \in [Payouts -> Nat]
    /\ mem \in Nat \cup {NoTime} /\ disk \in Nat \cup {NoTime}
    /\ pc \in Labels
    /\ loc \in Locals
    /\ faults \in Nat /\ errors \in Nat

\* solana_scheduled.rs: mark-sent "is the *only* signal the backend gets that
\* the funds left".  A payout is executed once, and once more at most for every
\* lost answer, unheard callback or crash; what the backend holds for sent or
\* failed was executed, or was not, up to the same faults.
PaidOncePerFault ==
    \A i \in Payouts :
        /\ paid[i] <= 1 + faults
        /\ faults = 0 => /\ status[i] = "sent" => paid[i] = 1
                         /\ status[i] = "failed" => paid[i] = 0

\* solana.rs: "Skip the ledger sweep so funds keep accumulating", lest payments
\* look "stuck pending" for ever.  A payout, also one that asks for more than the
\* target, is settled in the end or expires, although the tank forwards its
\* excess.
PayoutSettled ==
    \A i \in Payouts :
        status[i] = "pending" ~> (status[i] # "pending" \/ ~Unexpired(i, clock))

\* config.rs: "Balance kept on the gas tank; the excess is forwarded".  Only a
\* payout, a fee, or a transfer to the ledger that raced with a fee, takes the
\* tank below its target.
ReserveKept ==
    [][(pc = "sweep" /\ tank' < tank /\ spends' = spends)
          => tank' >= Target \/ tank < loc.balance]_vars

============================================================================
