-------------------------------- MODULE PeerSet --------------------------------
(***************************************************************************)
(* The peers of eth/peerset.go and their handlers.  A connection runs the  *)
(* eth protocol and some satellite protocols, each in a goroutine of its   *)
(* own.  The one of eth waits for each satellite in turn and then joins    *)
(* the set; a satellite hands itself over, or waits in a map for eth to    *)
(* come.  A satellite that finds eth waiting sends on a channel without    *)
(* buffer, and holds the lock of the set until it is received; every other *)
(* use of the lock is one step.  All peers have one address.               *)
(***************************************************************************)
EXTENDS Naturals, FiniteSets, Sequences

CONSTANTS
    Ids,            \* peers
    Exts,           \* the satellite protocols in the order in which eth waits
    TryLockExts,    \* the ones whose timeout uses TryLock: "bsc"
    MaxPeersPerIP,
    MayStop,        \* may the handler be stopped
    MayTrust,       \* may the trusted flag of a peer change
    MaxConns        \* bound: the connections of a peer, one after another

ExtSet == {Exts[i] : i \in DOMAIN Exts}

VARIABLES
    lock,      \* who holds the lock of the set while sending: <<id, extension>>, or Free
    conn,      \* the number of the latest connection of each peer
    up,        \* the peers whose connection is up
    caps,      \* the satellites that the connection of a peer runs
    eth,       \* where eth's goroutine is, and for which of Exts it waits
    ext,       \* where the goroutines of the satellites are
    wait,      \* snapWait, trustWait, bscWait
    pend,      \* snapPend, trustPend, bscPend: the number of the connection, or 0
    got,       \* the satellites that eth got, by the number of their connection
    peers,     \* the registered peers
    snapPeers,
    perIP,     \* peersPerIP
    trusted,   \* the peers with the trusted flag
    flips,     \* history: "set", "unset" if the flag of an admitted peer was
    stopping,  \* "no", "quit" after close(quitSync), "closed" after peers.close
    gaveUp     \* history: the peers whose eth ended before it had all satellites,
               \* until a connection begins with none of theirs in the maps

connVars == <<conn, up, caps>>
setVars == <<wait, pend, got, peers, snapPeers>>
vars == <<lock, connVars, eth, ext, setVars, perIP, trusted, flips, stopping, gaveUp>>

Free == <<>>
Unlocked == lock = Free

Goto(id, at) == eth' = [eth EXCEPT ![id].at = at]
GotoExt(id, e, at) == ext' = [ext EXCEPT ![id][e] = at]

\* A protocol that returns an error takes the connection down.
EthFails(id) == Goto(id, "done") /\ up' = up \ {id}
ExtFails(id, e) == GotoExt(id, e, "done") /\ up' = up \ {id}

\* Where eth goes on after the satellite at index i: to the next one that the
\* connection runs, or to the handshake.
After(id, i) ==
    LET rest == {j \in i + 1 .. Len(Exts) : Exts[j] \in caps[id]} IN
    IF rest = {} THEN [at |-> "handshake", i |-> i]
    ELSE [at |-> "wait", i |-> CHOOSE j \in rest : \A k \in rest : j <= k]

Current(id) == Exts[eth[id].i]

-------------------------------------------------------------------------------
Init ==
    /\ lock = Free
    /\ conn = [id \in Ids |-> 0] /\ up = {} /\ caps = [id \in Ids |-> {}]
    /\ eth = [id \in Ids |-> [at |-> "done", i |-> 0]]
    /\ ext = [id \in Ids |-> [e \in ExtSet |-> "done"]]
    /\ wait = [e \in ExtSet |-> {}]
    /\ pend = [e \in ExtSet |-> [id \in Ids |-> 0]]
    /\ got = [id \in Ids |-> [e \in ExtSet |-> 0]]
    /\ peers = {} /\ snapPeers = 0 /\ perIP = 0 /\ trusted = {} /\ flips = {}
    /\ stopping = "no" /\ gaveUp = {}

\* The server accepts one connection of a peer at a time and runs its protocols.
Connect(id, cs) ==
    /\ stopping = "no" /\ conn[id] < MaxConns
    /\ eth[id].at = "done" /\ \A e \in ExtSet : ext[id][e] = "done"
    /\ conn' = [conn EXCEPT ![id] = @ + 1]
    /\ up' = up \cup {id}
    /\ caps' = [caps EXCEPT ![id] = cs]
    /\ eth' = [eth EXCEPT ![id] = [at |-> "start", i |-> 0]]
    /\ ext' = [ext EXCEPT ![id] = [e \in ExtSet |-> IF e \in cs THEN "start" ELSE "done"]]
    /\ got' = [got EXCEPT ![id] = [e \in ExtSet |-> 0]]
    /\ gaveUp' = IF \A e \in ExtSet : pend[e][id] = 0 THEN gaveUp \ {id} ELSE gaveUp
    /\ UNCHANGED <<lock, wait, pend, peers, snapPeers, perIP, trusted, flips, stopping>>

\* The other side goes away.
Disconnect(id) ==
    /\ id \in up /\ up' = up \ {id}
    /\ UNCHANGED <<lock, conn, caps, eth, ext, setVars, perIP, trusted, flips, stopping, gaveUp>>

\* A peer that peersPerIP counts, or passed over for its flag.
IsAdmitted(id) == id \in peers \/ eth[id].at = "register"

\* The server's addtrusted and removetrusted.
SetTrusted(id) ==
    /\ MayTrust /\ id \notin trusted
    /\ trusted' = trusted \cup {id}
    /\ flips' = IF IsAdmitted(id) THEN flips \cup {"set"} ELSE flips
    /\ UNCHANGED <<lock, connVars, eth, ext, setVars, perIP, stopping, gaveUp>>

UnsetTrusted(id) ==
    /\ MayTrust /\ id \in trusted
    /\ trusted' = trusted \ {id}
    /\ flips' = IF IsAdmitted(id) THEN flips \cup {"unset"} ELSE flips
    /\ UNCHANGED <<lock, connVars, eth, ext, setVars, perIP, stopping, gaveUp>>

-------------------------------------------------------------------------------
(* runEthPeer *)

\* incHandlers: the tracker counts the handler, or the handler sees the end.
StartEth(id) ==
    /\ eth[id].at = "start"
    /\ eth' = [eth EXCEPT ![id] = After(id, 0)]
    /\ UNCHANGED <<lock, connVars, ext, setVars, perIP, trusted, flips, stopping, gaveUp>>

RefuseEth(id) ==
    /\ eth[id].at = "start" /\ stopping # "no"
    /\ EthFails(id)
    /\ gaveUp' = gaveUp \cup {id}
    /\ UNCHANGED <<lock, conn, caps, ext, setVars, perIP, trusted, flips, stopping>>

\* A satellite that eth takes from the map, and a mutant that leaves it there.
TakenLeft(e, id) == pend
Taken(e, id) == [pend EXCEPT ![e][id] = 0]

\* waitSnapExtension, waitTrustExtension and waitBscExtension up to their select.
WaitExtension(id) ==
    /\ eth[id].at = "wait" /\ Unlocked
    /\ LET e == Current(id) IN
       IF id \in peers \/ id \in wait[e]
       THEN EthFails(id) /\ UNCHANGED <<wait, pend, got>>
       ELSE \/ /\ pend[e][id] # 0
               /\ pend' = Taken(e, id)
               /\ got' = [got EXCEPT ![id][e] = pend[e][id]]
               /\ eth' = [eth EXCEPT ![id] = After(id, eth[id].i)]
               /\ UNCHANGED <<up, wait>>
            \/ /\ pend[e][id] = 0
               /\ wait' = [wait EXCEPT ![e] = @ \cup {id}]
               /\ Goto(id, "select")
               /\ UNCHANGED <<up, pend, got>>
    /\ UNCHANGED <<lock, conn, caps, ext, peers, snapPeers, perIP, trusted, flips, stopping, gaveUp>>

\* Mutant: every timeout waits for the lock.
TimeoutLocks(id) ==
    /\ eth[id].at = "select"
    /\ gaveUp' = gaveUp \cup {id}
    /\ Goto(id, "late")
    /\ UNCHANGED <<lock, connVars, ext, setVars, perIP, trusted, flips, stopping>>

\* extensionWaitTimeout: "could be deadlock, so we use TryLock to avoid it" in
\* waitBscExtension alone; the others wait for the lock.
Timeout(id) ==
    /\ eth[id].at = "select"
    /\ gaveUp' = gaveUp \cup {id}
    /\ IF Current(id) \in TryLockExts /\ Unlocked
       THEN wait' = [wait EXCEPT ![Current(id)] = @ \ {id}] /\ EthFails(id)
       ELSE Goto(id, IF Current(id) \in TryLockExts THEN "retry" ELSE "late") /\ UNCHANGED <<wait, up>>
    /\ UNCHANGED <<lock, conn, caps, ext, pend, got, peers, snapPeers, perIP, trusted, flips, stopping>>

\* The end of the set.
Quit(id) ==
    /\ eth[id].at = "select" /\ stopping = "closed"
    /\ gaveUp' = gaveUp \cup {id}
    /\ Goto(id, "quit")
    /\ UNCHANGED <<lock, connVars, ext, setVars, perIP, trusted, flips, stopping>>

\* Mutant: the wait ends and its entry stays in the map.
GiveUpStays(id) ==
    /\ eth[id].at \in {"late", "retry", "quit"} /\ Unlocked
    /\ EthFails(id)
    /\ UNCHANGED <<lock, conn, caps, ext, setVars, perIP, trusted, flips, stopping, gaveUp>>

\* With the lock the wait ends with an error.
GiveUp(id) ==
    /\ eth[id].at \in {"late", "retry", "quit"} /\ Unlocked
    /\ wait' = [wait EXCEPT ![Current(id)] = @ \ {id}]
    /\ EthFails(id)
    /\ UNCHANGED <<lock, conn, caps, ext, pend, got, peers, snapPeers, perIP, trusted, flips, stopping, gaveUp>>

\* The handshake of eth, the limits on peers and the entry in peersPerIP.
Admit(id) ==
    /\ eth[id].at = "handshake" /\ id \in up
    /\ id \notin trusted => Unlocked /\ perIP < MaxPeersPerIP
    /\ Goto(id, "register")
    /\ perIP' = IF id \in trusted THEN perIP ELSE perIP + 1
    /\ UNCHANGED <<lock, connVars, ext, setVars, trusted, flips, stopping, gaveUp>>

Reject(id) ==
    /\ eth[id].at = "handshake"
    /\ EthFails(id)
    /\ UNCHANGED <<lock, conn, caps, ext, setVars, perIP, trusted, flips, stopping, gaveUp>>

\* registerPeer
RegisterPeer(id) ==
    /\ eth[id].at = "register" /\ Unlocked
    /\ IF stopping = "closed" \/ id \in peers
       THEN EthFails(id) /\ UNCHANGED <<peers, snapPeers>>
       ELSE /\ Goto(id, "running")
            /\ peers' = peers \cup {id}
            /\ snapPeers' = IF "snap" \in ExtSet /\ got[id]["snap"] # 0 THEN snapPeers + 1 ELSE snapPeers
            /\ UNCHANGED up
    /\ UNCHANGED <<lock, conn, caps, ext, wait, pend, got, perIP, trusted, flips, stopping, gaveUp>>

\* The message loop ends with the connection: unregisterPeer.
UnregisterPeer(id) ==
    /\ eth[id].at = "running" /\ id \notin up /\ Unlocked
    /\ Goto(id, "done")
    /\ peers' = peers \ {id}
    /\ snapPeers' = IF "snap" \in ExtSet /\ got[id]["snap"] # 0 THEN snapPeers - 1 ELSE snapPeers
    /\ perIP' = IF id \in trusted \/ perIP = 0 THEN perIP ELSE perIP - 1
    /\ UNCHANGED <<lock, connVars, ext, wait, pend, got, trusted, flips, stopping, gaveUp>>

-------------------------------------------------------------------------------
(* runSnapExtension, runTrustExtension, runBscExtension *)

RefuseExt(id, e) ==
    /\ ext[id][e] = "start" /\ stopping # "no"
    /\ ExtFails(id, e)
    /\ UNCHANGED <<lock, conn, caps, eth, setVars, perIP, trusted, flips, stopping, gaveUp>>

\* registerSnapExtension, registerTrustExtension, registerBscExtension
RegisterExtension(id, e) ==
    /\ ext[id][e] = "start" /\ Unlocked
    /\ IF id \in peers \/ pend[e][id] # 0
       THEN ExtFails(id, e) /\ UNCHANGED <<lock, wait, pend>>
       ELSE \/ /\ id \in wait[e]
               /\ wait' = [wait EXCEPT ![e] = @ \ {id}]
               /\ lock' = <<id, e>> /\ GotoExt(id, e, "sends")
               /\ UNCHANGED <<up, pend>>
            \/ /\ id \notin wait[e]
               /\ pend' = [pend EXCEPT ![e][id] = conn[id]]
               /\ GotoExt(id, e, "running")
               /\ UNCHANGED <<up, lock, wait>>
    /\ UNCHANGED <<conn, caps, eth, got, peers, snapPeers, perIP, trusted, flips, stopping, gaveUp>>

\* bscHandler.RunPeer when the handshake of bsc fails: a waiting eth gets nil.
FailHandshake(id) ==
    /\ "bsc" \in ExtSet /\ ext[id]["bsc"] = "start" /\ Unlocked
    /\ IF id \in wait["bsc"]
       THEN /\ wait' = [wait EXCEPT !["bsc"] = @ \ {id}]
            /\ lock' = <<id, "bsc">> /\ GotoExt(id, "bsc", "sends nil")
            /\ UNCHANGED up
       ELSE ExtFails(id, "bsc") /\ UNCHANGED <<wait, lock>>
    /\ UNCHANGED <<conn, caps, eth, pend, got, peers, snapPeers, perIP, trusted, flips, stopping, gaveUp>>

\* eth receives what is sent, and discards it if it was late.
Receive(id, e) ==
    /\ lock = <<id, e>> /\ lock' = Free
    /\ eth[id].at \in {"select", "retry"} /\ Current(id) = e
    /\ IF eth[id].at = "retry" THEN eth' = [eth EXCEPT ![id].at = "done"] /\ UNCHANGED got
       ELSE /\ eth' = [eth EXCEPT ![id] = After(id, eth[id].i)]
            /\ got' = [got EXCEPT ![id][e] = IF ext[id][e] = "sends" THEN conn[id] ELSE 0]
    /\ GotoExt(id, e, IF ext[id][e] = "sends" THEN "running" ELSE "done")
    /\ up' = IF eth[id].at = "retry" \/ ext[id][e] = "sends nil" THEN up \ {id} ELSE up
    /\ UNCHANGED <<conn, caps, wait, pend, peers, snapPeers, perIP, trusted, flips, stopping, gaveUp>>

\* The message loop of a satellite ends with the connection.
EndExtension(id, e) ==
    /\ ext[id][e] = "running" /\ id \notin up
    /\ GotoExt(id, e, "done")
    /\ UNCHANGED <<lock, connVars, eth, setVars, perIP, trusted, flips, stopping, gaveUp>>

-------------------------------------------------------------------------------
(* handler.Stop *)

Stop ==
    /\ MayStop /\ stopping = "no" /\ stopping' = "quit"
    /\ UNCHANGED <<lock, connVars, eth, ext, setVars, perIP, trusted, flips, gaveUp>>

\* peerSet.close
Close ==
    /\ stopping = "quit" /\ Unlocked /\ stopping' = "closed"
    /\ up' = up \ peers
    /\ UNCHANGED <<lock, conn, caps, eth, ext, setVars, perIP, trusted, flips, gaveUp>>

-------------------------------------------------------------------------------
Next ==
    \/ \E id \in Ids :
          \/ \E cs \in SUBSET ExtSet : Connect(id, cs)
          \/ Disconnect(id) \/ SetTrusted(id) \/ UnsetTrusted(id)
          \/ StartEth(id) \/ RefuseEth(id) \/ WaitExtension(id)
          \/ Timeout(id) \/ Quit(id) \/ GiveUp(id)
          \/ Admit(id) \/ Reject(id) \/ RegisterPeer(id) \/ UnregisterPeer(id)
          \/ FailHandshake(id)
          \/ \E e \in ExtSet :
                RefuseExt(id, e) \/ RegisterExtension(id, e) \/ Receive(id, e) \/ EndExtension(id, e)
    \/ Stop \/ Close

Spec == Init /\ [][Next]_vars

-------------------------------------------------------------------------------
(* Properties *)

\* "could be deadlock, so we use TryLock to avoid it": whoever sends with the lock
\* held is received, so that the lock is free again.  Otherwise eth waits for
\* the lock and the sender for eth, and no peer joins or leaves the set any
\* more.  A timeout of snap or trust, and the end of the set, break it.
SendersReceived ==
    lock # Free => eth[lock[1]].at \in {"select", "retry"}

\* What the waiting maps and the lock can rely on: who is in a map, or is sent to
\* with the lock held, is an eth that waits for just that satellite or is on its
\* way out of that wait.  So a sender never waits for a goroutine that is gone or
\* waits for something else, and until the set is closed a sender whose wait
\* gives up by TryLock is received.
SendersAwaited ==
    \A id \in Ids, e \in ExtSet :
        /\ id \in wait[e] \/ lock = <<id, e>> =>
              eth[id].at \in {"select", "late", "retry", "quit"} /\ Current(id) = e
        /\ lock = <<id, e>> /\ e \in TryLockExts /\ stopping # "closed" =>
              eth[id].at \in {"select", "retry"}

\* A registered peer has satellites of its own connection only, and the ones that
\* wait for eth are "connected on the protocol, but not yet on eth": none is left
\* over from a connection that ended.  The way to a satellite that is left over
\* is an eth that gives up, and the connections after it that begin with one.
ExtensionsAlive ==
    \A id \in Ids \ gaveUp, e \in ExtSet :
        /\ id \in peers => got[id][e] \in {0, conn[id]}
        /\ pend[e][id] # 0 => pend[e][id] = conn[id] /\ eth[id].at \in {"start", "wait", "select"}

\* snapPeers counts the registered peers with snap.  peersPerIP counts at least
\* the admitted peers that are not trusted as long as none of them has lost its
\* flag after it was admitted, and them exactly as long as no flag of an admitted
\* peer has changed and the set is not closed.
PeersCounted ==
    LET counted == {id \in Ids \ trusted : IsAdmitted(id)} IN
    /\ snapPeers = Cardinality({id \in peers : "snap" \in ExtSet /\ got[id]["snap"] # 0})
    /\ "unset" \notin flips => perIP >= Cardinality(counted)
    /\ flips = {} /\ stopping # "closed" => perIP = Cardinality(counted)
===============================================================================
