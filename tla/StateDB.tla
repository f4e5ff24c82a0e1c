--------------------------------- MODULE StateDB ---------------------------------
(***************************************************************************)
(* core/state: state objects over the state of the parent block, the       *)
(* journal that undoes their changes, the end of a transaction             *)
(* (Finalise), the roots (IntermediateRoot) and the end of a block         *)
(* (Commit), which writes the account trie, the difference for the         *)
(* snapshot tree and the original values for the state history.            *)
(*                                                                         *)
(* The whole state of a StateDB is one record s, so that what the journal  *)
(* undoes is an operator on it.  An account has one storage slot, and its  *)
(* storage root stands for the slot's value.  A value that may be missing  *)
(* is a set of at most one element.                                        *)
(***************************************************************************)
EXTENDS Integers, Sequences, SequencesExt, FiniteSets, FiniteSetsExt, Functions

CONSTANTS
    Addrs, Values,
    Disks,         \* possible states of the parent block
    Hertzfix,      \* the fork after which the prefetcher does not share what it reads
    Parts,         \* "account" and "tx": what a run changes
    MaxJournal, MaxRevisions, MaxFinalise  \* bounds

VARIABLES
    s,      \* the StateDB
    disk,   \* address -> account of the parent block, in its trie
    snap,   \* the same in the snapshot tree
    pool,   \* address -> slot value in the shared storage pool
    finalised  \* counted for the bound

vars == <<s, disk, snap, pool, finalised>>

Only(set) == CHOOSE x \in set : TRUE
Nobody == [a \in Addrs |-> {}]

-------------------------------------------------------------------------------
(* State objects *)

newObject(acct) ==
    LET d == IF acct = {} THEN [nonce |-> 0, bal |-> 0, code |-> 0, slot |-> 0] ELSE Only(acct)
    IN  [nonce |-> d.nonce, bal |-> d.bal, code |-> d.code, root |-> d.slot, origin |-> acct,
         dirtyS |-> {}, pendS |-> {}, origS |-> {}, gone |-> FALSE, del |-> FALSE, fresh |-> acct = {}]

Data(o) == [nonce |-> o.nonce, bal |-> o.bal, code |-> o.code, slot |-> o.root]
empty(o) == o.nonce = 0 /\ o.bal = 0 /\ o.code = 0

\* The object of a, deleted or not, with what the snapshot has if there is none.
Deleted(st, a) == IF st.objs[a] # {} THEN st.objs[a] ELSE IF snap[a] = {} THEN {} ELSE {newObject(snap[a])}
getStateObject(st, a) == {o \in Deleted(st, a) : ~o.del}

getOriginStorage(a, o) == IF o.origS # {} THEN o.origS ELSE pool[a]

GetCommittedState(st, a, o) ==
    IF o.pendS # {} THEN Only(o.pendS)
    ELSE IF getOriginStorage(a, o) # {} THEN Only(getOriginStorage(a, o))
    ELSE IF st.destruct[a] # {} THEN 0
    ELSE IF snap[a] = {} THEN 0
    ELSE Only(snap[a]).slot

GetState(st, a, o) == IF o.dirtyS # {} THEN Only(o.dirtyS) ELSE GetCommittedState(st, a, o)

\* A slot that was read from the snapshot or the pool is kept in the object.
Cached(st, a, o) ==
    IF o.pendS # {} \/ o.origS # {} THEN o
    ELSE IF pool[a] # {} THEN [o EXCEPT !.origS = pool[a]]
    ELSE IF st.destruct[a] # {} THEN o
    ELSE [o EXCEPT !.origS = {GetCommittedState(st, a, o)}]

-------------------------------------------------------------------------------
(* The journal *)

\* Entries of these kinds do not make an account dirty.
Global == {"refund", "log", "transient", "access", "slot"}

Journal(st, kind, a, prev) ==
    [st EXCEPT !.jr = Append(@, [kind |-> kind, a |-> a, prev |-> prev]),
               !.dirties[a] = IF kind \in Global THEN @ ELSE @ + 1]

\* createObject: an object that was there is kept for the journal, with the
\* marks and the cached data that go with it.
createObject(st, a) ==
    LET prev == Deleted(st, a)
        new == newObject({})
    IN
    IF prev = {}
    THEN [Journal(st, "create", a, 0) EXCEPT !.objs[a] = {new}]
    ELSE [Journal(st, "reset", a,
                  [obj |-> Only(prev), destruct |-> st.destruct[a] # {}, account |-> st.accounts[a],
                   storage |-> st.storages[a], aOrig |-> st.aOrig[a], sOrig |-> st.sOrig[a]])
            EXCEPT !.objs[a] = {new},
                   !.destruct[a] = IF @ # {} THEN @ ELSE {Only(prev).origin},
                   !.accounts[a] = {}, !.storages[a] = {}, !.aOrig[a] = {}, !.sOrig[a] = {}]

\* The state with the live object of a, created if need be.
WithObject(st, a) ==
    IF getStateObject(st, a) = {} THEN createObject(st, a)
    ELSE [st EXCEPT !.objs[a] = Deleted(st, a)]

Obj(st, a) == Only(st.objs[a])

\* Mutant: a reset account stays marked as destructed.
UndoResetMarked(st, e) == [st EXCEPT !.objs[e.a] = {e.prev.obj}]

UndoReset(st, e) ==
    LET Over(new, old) == IF old = {} THEN new ELSE old
    IN  [st EXCEPT !.objs[e.a] = {e.prev.obj},
                   !.destruct[e.a] = IF e.prev.destruct THEN @ ELSE {},
                   !.accounts[e.a] = Over(@, e.prev.account), !.storages[e.a] = Over(@, e.prev.storage),
                   !.aOrig[e.a] = Over(@, e.prev.aOrig), !.sOrig[e.a] = Over(@, e.prev.sOrig)]

\* What one entry undoes.
Undo(st, e) ==
    LET o == Obj(st, e.a)
    IN
    CASE e.kind = "create" -> [st EXCEPT !.objs[e.a] = {}, !.dirty = @ \ {e.a}]
      [] e.kind = "reset" -> UndoReset(st, e)
      [] e.kind = "destruct" -> [st EXCEPT !.objs[e.a] = {[o EXCEPT !.gone = e.prev.gone, !.bal = e.prev.bal]}]
      [] e.kind = "bal" -> [st EXCEPT !.objs[e.a] = {[o EXCEPT !.bal = e.prev]}]
      [] e.kind = "nonce" -> [st EXCEPT !.objs[e.a] = {[o EXCEPT !.nonce = e.prev]}]
      [] e.kind = "code" -> [st EXCEPT !.objs[e.a] = {[o EXCEPT !.code = e.prev]}]
      [] e.kind = "storage" -> [st EXCEPT !.objs[e.a] = {[o EXCEPT !.dirtyS = {e.prev}]}]
      [] e.kind = "touch" -> st
      [] e.kind = "refund" -> [st EXCEPT !.refund = e.prev]
      [] e.kind = "log" -> [st EXCEPT !.logs = @ - 1]
      [] e.kind = "transient" -> [st EXCEPT !.transient[e.a] = e.prev]
      [] e.kind = "access" -> [st EXCEPT !.access = @ \ {e.a}]
      [] e.kind = "slot" -> [st EXCEPT !.slots = @ \ {e.a}]

\* revert undoes the entries after the first n, the last one first.
revert(st, n) ==
    LET Step(x, e) == [Undo(x, e) EXCEPT !.dirties[e.a] = IF e.kind \in Global THEN @ ELSE @ - 1]
    IN  [FoldLeft(Step, st, Reverse(SubSeq(st.jr, n + 1, Len(st.jr)))) EXCEPT !.jr = SubSeq(st.jr, 1, n)]

-------------------------------------------------------------------------------
(* The end of a transaction and of a block *)

\* Mutant: a slot written twice in a block keeps its first value.
finaliseFirst(o) == IF o.dirtyS = {} THEN o
                    ELSE [o EXCEPT !.pendS = IF @ = {} THEN o.dirtyS ELSE @, !.dirtyS = {}]

finalise(o) == IF o.dirtyS = {} THEN o ELSE [o EXCEPT !.pendS = o.dirtyS, !.dirtyS = {}]

\* Mutant: cached data of a deleted account is kept.
ClearedNot(st, gone) == st

\* A deleted account loses its data of earlier transactions.
Cleared(st, gone) ==
    LET Drop(f) == [a \in Addrs |-> IF a \in gone THEN {} ELSE f[a]]
    IN  [st EXCEPT !.accounts = Drop(@), !.storages = Drop(@), !.aOrig = Drop(@), !.sOrig = Drop(@)]

\* Finalise, with empty objects deleted.
Finalise(st) ==
    LET dirty == {a \in Addrs : st.dirties[a] > 0 /\ st.objs[a] # {}}
        gone == {a \in dirty : Obj(st, a).gone \/ empty(Obj(st, a))}
        After(a) == IF a \in gone THEN [Obj(st, a) EXCEPT !.del = TRUE, !.fresh = FALSE]
                    ELSE [finalise(Obj(st, a)) EXCEPT !.fresh = FALSE]
    IN
    [Cleared(st, gone) EXCEPT
        !.objs = [a \in Addrs |-> IF a \in dirty THEN {After(a)} ELSE @[a]],
        !.destruct = [a \in Addrs |-> IF a \in gone /\ @[a] = {} THEN {Obj(st, a).origin} ELSE @[a]],
        !.pending = @ \cup dirty, !.dirty = @ \cup dirty,
        !.jr = <<>>, !.dirties = [a \in Addrs |-> 0], !.revs = <<>>,
        !.refund = IF st.jr = <<>> THEN @ ELSE 0]

\* updateTrie: the storage trie, the snapshot's storage and the original value.
Changed(o) == o.pendS # {} /\ Only(o.pendS) # (IF o.origS = {} THEN 0 ELSE Only(o.origS))
Original(o) == IF o.origS = {} THEN 0 ELSE Only(o.origS)
updateTrie(o) ==
    IF Changed(o) THEN [o EXCEPT !.root = Only(o.pendS), !.origS = o.pendS, !.pendS = {}]
    ELSE [o EXCEPT !.pendS = {}]

\* Mutant: the original value is that of the last update.
FirstOriginalLast(old, new) == new

\* An original value is recorded once in a block.
FirstOriginal(old, new) == IF old = {} THEN new ELSE old

IntermediateRoot(st) ==
    LET f == Finalise(st)
        live == {a \in f.pending : ~Obj(f, a).del}
        changed == {a \in live : Changed(Obj(f, a))}
        New(a) == updateTrie(Obj(f, a))
    IN
    [f EXCEPT
        !.objs = [a \in Addrs |-> IF a \in live THEN {New(a)} ELSE @[a]],
        !.storages = [a \in Addrs |-> IF a \in changed THEN Obj(f, a).pendS ELSE @[a]],
        !.sOrig = [a \in Addrs |-> IF a \in changed THEN FirstOriginal(@[a], {Original(Obj(f, a))}) ELSE @[a]],
        !.accounts = [a \in Addrs |-> IF a \in live THEN {Data(New(a))} ELSE @[a]],
        !.aOrig = [a \in Addrs |-> IF a \in live THEN FirstOriginal(@[a], {Obj(f, a).origin}) ELSE @[a]],
        !.trie = [a \in Addrs |-> IF a \in live THEN {Data(New(a))} ELSE IF a \in f.pending THEN {} ELSE @[a]],
        !.pending = {}]

\* handleDestruction: the original values of destructed accounts.
Origins(st) ==
    LET was(a) == UNION st.destruct[a]
    IN
    [aOrig |-> [a \in Addrs |-> IF st.destruct[a] = {} THEN st.aOrig[a]
                                ELSE IF was(a) = {} THEN (IF st.accounts[a] # {} THEN {{}} ELSE st.aOrig[a])
                                ELSE {was(a)}],
     sOrig |-> [a \in Addrs |-> IF was(a) = {} THEN st.sOrig[a]
                                ELSE IF Only(was(a)).slot = 0 THEN st.sOrig[a]
                                ELSE {Only(was(a)).slot}]]

\* The next layer of the snapshot tree.
SnapLayer(st) ==
    [a \in Addrs |->
        IF st.accounts[a] # {}
        THEN {[d EXCEPT !.slot = IF st.storages[a] # {} THEN Only(st.storages[a])
                                 ELSE IF st.destruct[a] # {} \/ snap[a] = {} THEN 0 ELSE Only(snap[a]).slot] :
              d \in st.accounts[a]}
        ELSE IF st.destruct[a] # {} THEN {} ELSE snap[a]]

\* What the state history makes of state d: the original values put back.
Apply(d, o) ==
    [a \in Addrs |->
        IF o.aOrig[a] = {} THEN d[a]
        ELSE {[x EXCEPT !.slot = IF o.sOrig[a] # {} THEN Only(o.sOrig[a])
                                 ELSE IF d[a] = {} THEN 0 ELSE Only(d[a]).slot] : x \in UNION o.aOrig[a]}]

New(d) ==
    [objs |-> Nobody, jr |-> <<>>, dirties |-> [a \in Addrs |-> 0], revs |-> <<>>, destruct |-> Nobody,
     accounts |-> Nobody, storages |-> Nobody, aOrig |-> Nobody, sOrig |-> Nobody, pending |-> {}, dirty |-> {},
     trie |-> d, refund |-> 0, logs |-> 0, transient |-> [a \in Addrs |-> 0], access |-> {}, slots |-> {}]

\* Mutant: only pending objects are copied.
CopyPending(st) ==
    [st EXCEPT !.objs = [a \in Addrs |-> IF a \in st.pending THEN @[a] ELSE {}]]

\* copyInternal keeps the objects of this block only.
Copy(st) ==
    LET kept == {a \in Addrs : st.dirties[a] > 0} \cup st.pending \cup st.dirty
    IN  [st EXCEPT !.objs = [a \in Addrs |-> IF a \in kept THEN {[o EXCEPT !.fresh = FALSE] : o \in @[a]} ELSE {}],
                   !.jr = <<>>, !.revs = <<>>, !.dirties = [a \in Addrs |-> 0]]

-------------------------------------------------------------------------------
(* Operations *)

Room == "account" \in Parts /\ Len(s.jr) < MaxJournal
RoomTx == "tx" \in Parts /\ Len(s.jr) < MaxJournal
Keep == UNCHANGED <<disk, snap, pool, finalised>>

\* An object is there or created, then a field of it is set and the old value
\* journalled.
SetField(a, kind, old(_), new(_)) ==
    LET st == WithObject(s, a)
    IN  s' = [Journal(st, kind, a, old(Obj(st, a))) EXCEPT !.objs[a] = {new(Obj(st, a))}]

\* AddBalance and SubBalance of an amount.
SetBalance(a, v) ==
    /\ Room /\ \A o \in getStateObject(s, a) : o.bal # v
    /\ SetField(a, "bal", LAMBDA o : o.bal, LAMBDA o : [o EXCEPT !.bal = v])
    /\ Keep

\* AddBalance of nothing.
AddZero(a) ==
    LET st == WithObject(s, a)
    IN  Room /\ s' = (IF empty(Obj(st, a)) THEN Journal(st, "touch", a, 0) ELSE st) /\ Keep

\* The nonce of a sender or a creator goes up.
SetNonce(a, v) ==
    /\ Room /\ \A o \in getStateObject(s, a) : o.nonce < v
    /\ SetField(a, "nonce", LAMBDA o : o.nonce, LAMBDA o : [o EXCEPT !.nonce = v])
    /\ Keep

SetCode(a, v) ==
    /\ Room /\ v # 0
    /\ SetField(a, "code", LAMBDA o : o.code, LAMBDA o : [o EXCEPT !.code = v])
    /\ Keep

\* SetState of code that runs at a.
SetState(a, v) ==
    LET st == [s EXCEPT !.objs[a] = {Cached(s, a, o) : o \in Deleted(s, a)}]
        prev == GetState(st, a, Obj(st, a))
    IN
    /\ Room /\ getStateObject(s, a) # {}
    /\ s' = IF prev = v THEN st
            ELSE [Journal(st, "storage", a, prev) EXCEPT !.objs[a] = {[o EXCEPT !.dirtyS = {v}] : o \in @}]
    /\ Keep

\* The EVM creates an account only where no contract is.
CreateAccount(a) ==
    LET prev == getStateObject(s, a)
    IN
    /\ Room /\ \A o \in prev : o.nonce = 0 /\ o.code = 0
    /\ s' = [createObject(s, a) EXCEPT !.objs[a] =
                {[o EXCEPT !.bal = IF prev = {} THEN 0 ELSE Only(prev).bal] : o \in @}]
    /\ Keep

SelfDestruct(a) ==
    LET st == WithObject(s, a)
        o == Obj(st, a)
    IN
    /\ Room /\ getStateObject(s, a) # {}
    /\ s' = [Journal(st, "destruct", a, [gone |-> o.gone, bal |-> o.bal])
                EXCEPT !.objs[a] = {[o EXCEPT !.gone = TRUE, !.bal = 0]}]
    /\ Keep

\* Since Cancun: only an account created in the same transaction.
Selfdestruct6780(a) == (\A o \in getStateObject(s, a) : o.fresh) /\ SelfDestruct(a)

AddRefund(a) == RoomTx /\ s.refund = 0 /\ s' = [Journal(s, "refund", a, s.refund) EXCEPT !.refund = 1] /\ Keep
AddLog(a) == RoomTx /\ s.logs = 0 /\ s' = [Journal(s, "log", a, 0) EXCEPT !.logs = 1] /\ Keep

SetTransientState(a, v) ==
    /\ RoomTx /\ s.transient[a] # v
    /\ s' = [Journal(s, "transient", a, s.transient[a]) EXCEPT !.transient[a] = v]
    /\ Keep

\* Mutant: the address of a slot is added without an entry.
WithAddressQuiet(a) == [s EXCEPT !.access = @ \cup {a}]

WithAddress(a) == IF a \in s.access THEN s ELSE [Journal(s, "access", a, 0) EXCEPT !.access = @ \cup {a}]

AddSlotToAccessList(a) ==
    /\ RoomTx /\ a \notin s.slots
    /\ s' = [Journal(WithAddress(a), "slot", a, 0) EXCEPT !.slots = @ \cup {a}]
    /\ Keep

Snapshot ==
    /\ Len(s.revs) < MaxRevisions
    /\ s' = [s EXCEPT !.revs = Append(@, Len(s.jr))]
    /\ Keep

RevertToSnapshot(i) ==
    /\ s' = [revert(s, s.revs[i]) EXCEPT !.revs = SubSeq(@, 1, i - 1)]
    /\ Keep

\* A slot is read.
Read(a) ==
    /\ getStateObject(s, a) # {}
    /\ s' = [s EXCEPT !.objs[a] = {IF o.dirtyS = {} THEN Cached(s, a, o) ELSE o : o \in Deleted(s, a)}]
    /\ Keep

\* The prefetcher reads the slot in a copy that it throws away.
Prefetch(a) ==
    /\ ~Hertzfix /\ snap[a] # {} /\ pool[a] = {}
    /\ pool' = [pool EXCEPT ![a] = {Only(snap[a]).slot}]
    /\ UNCHANGED <<s, disk, snap, finalised>>

Ended == finalised < MaxFinalise /\ finalised' = finalised + 1 /\ UNCHANGED <<disk, snap, pool>>

\* The end of a transaction; SetTxContext and Prepare of the next.
NextTx ==
    Ended /\ s' = [Finalise(s) EXCEPT !.access = {}, !.slots = {}, !.transient = [a \in Addrs |-> 0]]

Root == Ended /\ s' = IntermediateRoot(s)

\* A copy between two transactions goes on in place of the original.
CopyOn == s.jr = <<>> /\ s' = Copy(s) /\ Keep

Commit ==
    LET st == IntermediateRoot(s)
    IN
    /\ disk' = st.trie /\ snap' = SnapLayer(st)
    /\ s' = New(st.trie) /\ pool' = Nobody /\ finalised' = MaxFinalise + 1
    /\ finalised <= MaxFinalise

Init ==
    /\ disk \in Disks /\ snap = disk /\ s = New(disk)
    /\ pool = Nobody /\ finalised = 0

Next ==
    \/ \E a \in Addrs :
        \/ AddZero(a) \/ CreateAccount(a) \/ SelfDestruct(a) \/ Selfdestruct6780(a)
        \/ AddRefund(a) \/ AddLog(a) \/ AddSlotToAccessList(a) \/ Read(a) \/ Prefetch(a)
        \/ \E v \in Values : SetBalance(a, v) \/ SetNonce(a, v) \/ SetCode(a, v) \/ SetState(a, v)
                             \/ SetTransientState(a, v)
    \/ Snapshot \/ NextTx \/ Root \/ CopyOn \/ Commit
    \/ \E i \in DOMAIN s.revs : RevertToSnapshot(i)

Spec == Init /\ [][finalised <= MaxFinalise /\ Next]_vars

-------------------------------------------------------------------------------
(* Properties *)

Accts(st) ==
    [a \in Addrs |->
        {[nonce |-> o.nonce, bal |-> o.bal, code |-> o.code, slot |-> GetState(st, a, o),
          comm |-> GetCommittedState(st, a, o), gone |-> o.gone, fresh |-> o.fresh] : o \in getStateObject(st, a)}]
Touched(st) == {a \in Addrs : st.dirties[a] > 0}
Tx(st) == [refund |-> st.refund, logs |-> st.logs, transient |-> st.transient, access |-> st.access, slots |-> st.slots]
Saved(st) ==
    [i \in DOMAIN st.revs |->
        LET r == revert(st, st.revs[i]) IN [accts |-> Accts(r), touched |-> Touched(r), tx |-> Tx(r)]]

World == INSTANCE WorldState WITH accts <- Accts(s), touched <- Touched(s), tx <- Tx(s), saved <- Saved(s)

\* The journal, the caches of three ages, the marks of destructed accounts and
\* the tries together are a plain map of accounts with snapshots: whatever is
\* reverted, destructed and created again, a read gives what was last written
\* and the block leaves exactly that on disk.
WorldSpec == World!Spec

\* The difference that the snapshot tree gets describes the same state as the
\* trie, destructed and resurrected accounts included.
SnapshotAgrees == snap = disk

\* The original values that the state history gets turn the new state back into
\* the old one.
HistoryReverts == [][Commit => Apply(disk', Origins(IntermediateRoot(s))) = disk]_vars

\* Nothing is pending or dirty without an object: the roots and the commit look
\* the object up without asking.
PendingHaveObjects == \A a \in s.pending \cup s.dirty : s.objs[a] # {}
===============================================================================
