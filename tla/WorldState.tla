------------------------------- MODULE WorldState -------------------------------
(***************************************************************************)
(* What core/state promises to the EVM: accounts that can be read and      *)
(* written, snapshots to which everything of a transaction can be          *)
(* reverted, the end of a transaction, at which destructed and touched     *)
(* empty accounts disappear, and the end of a block, which makes the       *)
(* accounts the state of the chain.  An account has one storage slot.      *)
(***************************************************************************)
EXTENDS Integers, Sequences

CONSTANTS Addrs, Values

VARIABLES
    accts,    \* address -> its account, at most one
    touched,  \* the addresses changed in this transaction
    tx,       \* refund, logs, transient storage and access list
    saved,    \* the snapshots: accounts, touched and tx
    disk      \* address -> account at the beginning of the block

vars == <<accts, touched, tx, saved, disk>>

\* comm: the slot at the beginning of the transaction; gone: destructed; fresh:
\* created in this transaction.
NoAccount == [nonce |-> 0, bal |-> 0, code |-> 0, slot |-> 0, comm |-> 0, gone |-> FALSE, fresh |-> TRUE]
NoTx == [refund |-> 0, logs |-> 0, transient |-> [a \in Addrs |-> 0], access |-> {}, slots |-> {}]

Account(a) == IF accts[a] = {} THEN NoAccount ELSE CHOOSE x \in accts[a] : TRUE
IsEmpty(x) == x.nonce = 0 /\ x.bal = 0 /\ x.code = 0
Loaded(d) == [a \in Addrs |-> {[nonce |-> x.nonce, bal |-> x.bal, code |-> x.code, slot |-> x.slot,
                                comm |-> x.slot, gone |-> FALSE, fresh |-> FALSE] : x \in d[a]}]
Stored(s) == [a \in Addrs |-> {[nonce |-> x.nonce, bal |-> x.bal, code |-> x.code, slot |-> x.slot] : x \in s[a]}]

Put(a, x) ==
    /\ accts' = [accts EXCEPT ![a] = {x}]
    /\ touched' = touched \cup {a}
    /\ UNCHANGED <<tx, saved, disk>>

SetBalance(a, v) == Put(a, [Account(a) EXCEPT !.bal = v])
Touch(a) == IsEmpty(Account(a)) /\ Put(a, Account(a))
SetNonce(a, v) == Put(a, [Account(a) EXCEPT !.nonce = v])
SetCode(a, v) == Put(a, [Account(a) EXCEPT !.code = v])
SetState(a, v) == accts[a] # {} /\ Put(a, [Account(a) EXCEPT !.slot = v])

CreateAccount(a) ==
    /\ Account(a).nonce = 0 /\ Account(a).code = 0
    /\ Put(a, [NoAccount EXCEPT !.bal = Account(a).bal])

SelfDestruct(a) == accts[a] # {} /\ Put(a, [Account(a) EXCEPT !.gone = TRUE, !.bal = 0])

\* Refund, logs, transient storage and access list are not part of an account.
SetTx == tx' \in [refund : 0..1, logs : 0..1, transient : [Addrs -> Values], access : SUBSET Addrs, slots : SUBSET Addrs]
         /\ UNCHANGED <<accts, touched, saved, disk>>

Snapshot ==
    /\ saved' = Append(saved, [accts |-> accts, touched |-> touched, tx |-> tx])
    /\ UNCHANGED <<accts, touched, tx, disk>>

RevertToSnapshot(i) ==
    /\ accts' = saved[i].accts /\ touched' = saved[i].touched /\ tx' = saved[i].tx
    /\ saved' = SubSeq(saved, 1, i - 1)
    /\ UNCHANGED disk

\* At the end of a transaction.
Finalised ==
    [a \in Addrs |-> {[x EXCEPT !.comm = x.slot, !.fresh = FALSE] :
                      x \in {y \in accts[a] : ~(a \in touched /\ (y.gone \/ IsEmpty(y)))}}]

Finalise ==
    /\ accts' = Finalised /\ touched' = {} /\ saved' = <<>>
    /\ tx' \in {[tx EXCEPT !.refund = 0], [NoTx EXCEPT !.logs = tx.logs]}
    /\ UNCHANGED disk

\* At the end of a block.
Commit ==
    /\ disk' = Stored(Finalised) /\ accts' = Loaded(disk')
    /\ touched' = {} /\ saved' = <<>> /\ tx' = NoTx

Init ==
    /\ accts = Loaded(disk) /\ touched = {} /\ tx = NoTx /\ saved = <<>>

Next ==
    \/ \E a \in Addrs : \/ CreateAccount(a) \/ SelfDestruct(a) \/ Touch(a)
                        \/ \E v \in Values : SetBalance(a, v) \/ SetNonce(a, v) \/ SetCode(a, v) \/ SetState(a, v)
    \/ SetTx \/ Snapshot \/ Finalise \/ Commit
    \/ \E i \in DOMAIN saved : RevertToSnapshot(i)

Spec == Init /\ [][Next]_vars
===============================================================================
