---------------------------- MODULE PaymentOutbox ----------------------------
(***************************************************************************)
(* What every chain's outbox promises the merchant backend, whatever its   *)
(* queue, its locks and its state file look like: a payment is announced   *)
(* before it is credited, its credit is sent while it is not sealed, and   *)
(* only a fault can send it again.                                         *)
(*                                                                         *)
(* Source: the promises of README.md and of src/src/recover.rs, as         *)
(* src/src/blockstream.rs, ethereum.rs and solana.rs keep them.            *)
(*                                                                         *)
(* A payment is sealed from the moment the backend has acknowledged its    *)
(* credit: the record of it may fail to be saved, or die with the process. *)
(***************************************************************************)
EXTENDS Naturals

CONSTANT Ids

VARIABLES
    detected,  \* payments the backend has been told of
    credits,   \* how often it was told to credit each
    sealed,    \* payments the process will not credit again
    faults     \* crashes, failed saves, lost replies

vars == <<detected, credits, sealed, faults>>

\* payment_detected, delivered; its reply may be lost.
Announce(id) ==
    /\ detected' = detected \cup {id}
    /\ faults' \in {faults, faults + 1}
    /\ UNCHANGED <<credits, sealed>>

\* payment_credited, delivered and acknowledged.
Credit(id) ==
    /\ id \in detected
    /\ id \notin sealed
    /\ credits' = [credits EXCEPT ![id] = @ + 1]
    /\ sealed' = sealed \cup {id}
    /\ UNCHANGED <<detected, faults>>

\* payment_credited, delivered, and the sender does not know.
CreditUnknown(id) ==
    /\ id \in detected
    /\ id \notin sealed
    /\ credits' = [credits EXCEPT ![id] = @ + 1]
    /\ faults' = faults + 1
    /\ UNCHANGED <<detected, sealed>>

\* A fault; a crash forgets what was not saved.
Fault ==
    /\ faults' = faults + 1
    /\ sealed' \in SUBSET sealed
    /\ UNCHANGED <<detected, credits>>

\* The first state file may hold the credits of an older release.
Init ==
    /\ detected = {}
    /\ credits = [id \in Ids |-> 0]
    /\ sealed \in SUBSET Ids
    /\ faults = 0

Next == Fault \/ \E id \in Ids : Announce(id) \/ Credit(id) \/ CreditUnknown(id)

Spec == Init /\ [][Next]_vars

\* The type invariant of the promise.
TypeOK ==
    /\ detected \subseteq Ids
    /\ credits \in [Ids -> Nat]
    /\ sealed \subseteq Ids
    /\ faults \in Nat

\* The credits of a payment beyond the one it is sealed by are paid for by
\* faults, one each; and none comes before the announcement.
OncePerFault ==
    \A id \in Ids :
        /\ credits[id] <= faults + (IF id \in sealed THEN 1 ELSE 0)
        /\ credits[id] > 0 => id \in detected

====
