----------------------------- MODULE PeerSetProofs ------------------------------
(***************************************************************************)
(* Proofs about PeerSet for any number of peers, connections and satellite *)
(* protocols: who waits or is sent to with the lock of the set held, whose *)
(* satellites a peer has, and what the counts of peers count.              *)
(***************************************************************************)
EXTENDS PeerSet, Integers, WellFoundedInduction, TLAPS

\* What the proofs need of the constants: eth waits for each satellite once.
ConstantsFit ==
    /\ IsFiniteSet(Ids)
    /\ Len(Exts) \in Nat /\ DOMAIN Exts = 1 .. Len(Exts)
    /\ \A i, j \in 1 .. Len(Exts) : Exts[i] = Exts[j] => i = j

\* eth has asked for a satellite and is in the select, or on the way out of it.
Waiting == {"select", "late", "retry", "quit"}
Places == Waiting \cup {"start", "wait", "handshake", "register", "running", "done"}
ExtPlaces == {"start", "sends", "sends nil", "running", "done"}

\* The type invariant.
TypeOK ==
    /\ lock = Free \/ \E id \in Ids, e \in ExtSet : lock = <<id, e>>
    /\ conn \in [Ids -> Nat] /\ up \subseteq Ids /\ caps \in [Ids -> SUBSET ExtSet]
    /\ eth \in [Ids -> [at : Places, i : 0 .. Len(Exts)]]
    /\ ext \in [Ids -> [ExtSet -> ExtPlaces]]
    /\ wait \in [ExtSet -> SUBSET Ids]
    /\ pend \in [ExtSet -> [Ids -> Nat]]
    /\ got \in [Ids -> [ExtSet -> Nat]]
    /\ peers \subseteq Ids /\ trusted \subseteq Ids /\ gaveUp \subseteq Ids
    /\ stopping \in {"no", "quit", "closed"}

\* eth waits, or is about to, for one of the satellites of its connection.
Placed(id) ==
    eth[id].at \in Waiting \cup {"wait"} => eth[id].i \in 1 .. Len(Exts) /\ Current(id) \in caps[id]

\* Who is in a waiting map, or is sent to, is an eth that waits for that satellite,
\* and in one of the two only.
Awaits(id) ==
    \A e \in ExtSet :
        /\ id \in wait[e] \/ lock = <<id, e>> => eth[id].at \in Waiting /\ Current(id) = e
        /\ lock = <<id, e>> => id \notin wait[e] /\ ext[id][e] \in {"sends", "sends nil"}

\* And the other way round; what it waits for is not in the map of those that wait for eth.
Held(id) ==
    eth[id].at \in Waiting =>
        /\ id \in wait[Current(id)] \/ lock = <<id, Current(id)>>
        /\ pend[Current(id)][id] = 0

\* An eth on its way out has given up.  It waits for the lock without looking at the
\* channel after a timeout without TryLock, or when the set is closed.
Leaves(id) ==
    /\ eth[id].at \in {"late", "retry", "quit"} => id \in gaveUp
    /\ eth[id].at = "late" => Current(id) \notin TryLockExts
    /\ eth[id].at = "quit" => stopping = "closed"

\* The registered peers are those whose eth runs.
Registered(id) == id \in peers <=> eth[id].at = "running"

\* The satellites that eth has still to get.
Ahead(id) ==
    IF eth[id].at = "start" THEN caps[id]
    ELSE IF eth[id].at \in Waiting \cup {"wait"} THEN {Exts[j] : j \in eth[id].i .. Len(Exts)} \cap caps[id]
    ELSE {}

\* Unless eth gave up on a peer: the satellites that are to come or that wait are ahead
\* of eth, and all are of the present connection.
Present(id) ==
    id \notin gaveUp =>
        \A e \in ExtSet :
            /\ ext[id][e] = "start" \/ pend[e][id] # 0 => e \in Ahead(id)
            /\ ext[id][e] = "start" => pend[e][id] = 0
            /\ pend[e][id] \in {0, conn[id]} /\ got[id][e] \in {0, conn[id]}

\* The inductive invariant: the types, and of every peer what its goroutines rely on.
PeerInv(id) == Placed(id) /\ Awaits(id) /\ Held(id) /\ Leaves(id) /\ Registered(id) /\ Present(id)
Inv == TypeOK /\ \A id \in Ids : PeerInv(id)

-------------------------------------------------------------------------------
(* Where eth goes on *)

\* A set of numbers that is not empty has a least element.
LEMMA LeastNumber ==
    ASSUME NEW T \in SUBSET Nat, T # {}
    PROVE  \E x \in T : \A y \in T : x <= y
<1> DEFINE R == {ss \in Nat \X Nat : ss[1] < ss[2]}
<1>1. IsWellFoundedOn(R, Nat)
  BY NatLessThanWellFounded, Zenon DEF OpToRel
<1>2. PICK x \in T : \A y \in T : <<y, x>> \notin R
  <2> HIDE DEF R
  <2> QED
    BY <1>1, WFMin, Zenon
<1>3. ASSUME NEW y \in T PROVE x \in Nat /\ y \in Nat /\ (y < x => <<y, x>> \in R)
  <2>1. x \in Nat /\ y \in Nat /\ <<y, x>> \in Nat \X Nat /\ <<y, x>>[1] = y /\ <<y, x>>[2] = x
    OBVIOUS
  <2> QED
    BY <2>1, Zenon
<1> HIDE DEF R
<1>4. \A y \in T : x \in Nat /\ y \in Nat /\ ~(y < x)
  BY <1>2, <1>3, Zenon
<1> QED
  BY <1>4

\* After the satellite at index k eth waits for the first later one that its connection
\* runs, or there is none.
LEMMA AfterFacts ==
    ASSUME ConstantsFit, NEW id \in Ids, NEW k \in 0 .. Len(Exts)
    PROVE  /\ After(id, k) \in [at : {"wait", "handshake"}, i : 0 .. Len(Exts)]
           /\ After(id, k).at = "handshake" => \A j \in k + 1 .. Len(Exts) : Exts[j] \notin caps[id]
           /\ After(id, k).at = "wait" =>
                 /\ After(id, k).i \in k + 1 .. Len(Exts) /\ Exts[After(id, k).i] \in caps[id]
                 /\ \A j \in k + 1 .. Len(Exts) : Exts[j] \in caps[id] => After(id, k).i <= j
<1> DEFINE rest == {j \in k + 1 .. Len(Exts) : Exts[j] \in caps[id]}
           m == CHOOSE j \in rest : \A n \in rest : j <= n
<1>1. Len(Exts) \in Nat
  BY DEF ConstantsFit
<1>2. CASE rest = {}
  <2>1. After(id, k) = [at |-> "handshake", i |-> k]
    BY <1>2 DEF After
  <2> QED
    BY <1>1, <1>2, <2>1
<1>3. CASE rest # {}
  <2>1. After(id, k) = [at |-> "wait", i |-> m]
    BY <1>3 DEF After
  <2>2. rest \in SUBSET Nat
    BY <1>1
  <2>3. \E j \in rest : \A n \in rest : j <= n
    <3> HIDE DEF rest
    <3> QED
      BY <1>3, <2>2, LeastNumber
  <2>4. m \in rest /\ \A n \in rest : m <= n
    <3> HIDE DEF rest
    <3> QED
      BY <2>3
  <2>5. m \in k + 1 .. Len(Exts) /\ Exts[m] \in caps[id]
    BY <2>4
  <2>6. \A j \in k + 1 .. Len(Exts) : Exts[j] \in caps[id] => m <= j
    BY <2>4, Zenon
  <2> HIDE DEF m
  <2> QED
    BY <1>1, <2>1, <2>5, <2>6, SMTT(20)
<1> QED
  BY <1>2, <1>3

-------------------------------------------------------------------------------
(* What a step of one peer leaves alone *)

\* The invariant of a peer whose state a step leaves alone, while the set may close.
LEMMA Elsewhere ==
    ASSUME NEW j \in Ids, PeerInv(j),
           eth'[j] = eth[j], ext'[j] = ext[j], caps'[j] = caps[j], conn'[j] = conn[j], got'[j] = got[j],
           \A e \in ExtSet : /\ j \in wait'[e] <=> j \in wait[e]
                             /\ pend'[e][j] = pend[e][j]
                             /\ lock' = <<j, e>> <=> lock = <<j, e>>,
           j \in peers' <=> j \in peers, j \in gaveUp => j \in gaveUp', ConstantsFit,
           stopping = "closed" => stopping' = "closed"
    PROVE  PeerInv(j)'
<1>1. Current(j)' = Current(j)
  BY DEF Current
<1>2. eth[j].at \in Waiting \cup {"wait"} => Current(j) \in ExtSet
  BY DEF PeerInv, Placed, ExtSet, Current, ConstantsFit
<1>3. Ahead(j)' = Ahead(j)
  BY DEF Ahead
<1>4. Placed(j)' /\ Awaits(j)'
  BY <1>1, Zenon DEF PeerInv, Placed, Awaits
<1>5. Held(j)'
  BY <1>1, <1>2 DEF PeerInv, Held
<1>6. Leaves(j)' /\ Registered(j)'
  BY <1>1 DEF PeerInv, Leaves, Registered
<1>7. Present(j)'
  BY <1>3 DEF PeerInv, Present
<1> QED
  BY <1>4, <1>5, <1>6, <1>7 DEF PeerInv

\* A step of eth's goroutine to another place.
LEMMA GotoFacts ==
    ASSUME TypeOK, NEW id \in Ids, NEW at \in Places, Goto(id, at)
    PROVE  /\ eth' \in [Ids -> [at : Places, i : 0 .. Len(Exts)]]
           /\ eth'[id].at = at /\ eth'[id].i = eth[id].i
           /\ \A j \in Ids \ {id} : eth'[j] = eth[j]
<1> DEFINE r == [eth[id] EXCEPT !.at = at]
<1>1. eth[id] \in [at : Places, i : 0 .. Len(Exts)] /\ eth \in [Ids -> [at : Places, i : 0 .. Len(Exts)]]
  BY DEF TypeOK
<1>2. r \in [at : Places, i : 0 .. Len(Exts)] /\ r.at = at /\ r.i = eth[id].i
  BY <1>1
<1>3. eth' = [eth EXCEPT ![id] = r]
  BY DEF Goto
<1> HIDE DEF r
<1> QED
  BY <1>1, <1>2, <1>3

\* A step of a satellite's goroutine.
LEMMA GotoExtFacts ==
    ASSUME TypeOK, NEW id \in Ids, NEW e \in ExtSet, NEW at \in ExtPlaces, GotoExt(id, e, at)
    PROVE  /\ ext' \in [Ids -> [ExtSet -> ExtPlaces]]
           /\ ext'[id][e] = at
           /\ \A f \in ExtSet \ {e} : ext'[id][f] = ext[id][f]
           /\ \A j \in Ids \ {id} : ext'[j] = ext[j]
BY DEF TypeOK, GotoExt

\* The goroutines of a peer that is not waiting, nor sent to.
LEMMA NotWaiting ==
    ASSUME Inv, NEW id \in Ids, eth[id].at \notin Waiting
    PROVE  \A e \in ExtSet : id \notin wait[e] /\ lock # <<id, e>>
BY Zenon DEF Inv, PeerInv, Awaits

\* The server runs the protocols of a new connection.
LEMMA ConnectKeeps ==
    ASSUME ConstantsFit, Inv, NEW id \in Ids, NEW cs \in SUBSET ExtSet, Connect(id, cs)
    PROVE  Inv'
<1>1. TypeOK'
  <2>1. eth' \in [Ids -> [at : Places, i : 0 .. Len(Exts)]]
    BY DEF Inv, TypeOK, Connect, ConstantsFit, Places
  <2>2. ext' \in [Ids -> [ExtSet -> ExtPlaces]]
    BY Zenon DEF Inv, TypeOK, Connect, ExtPlaces
  <2>3. conn' \in [Ids -> Nat] /\ caps' \in [Ids -> SUBSET ExtSet] /\ got' \in [Ids -> [ExtSet -> Nat]]
        /\ up' \subseteq Ids /\ gaveUp' \subseteq Ids
    BY DEF Inv, TypeOK, Connect
  <2> QED
    BY <2>1, <2>2, <2>3 DEF Inv, TypeOK, Connect
<1>2. ASSUME NEW j \in Ids \ {id} PROVE PeerInv(j)'
  <2>1. /\ eth'[j] = eth[j] /\ ext'[j] = ext[j] /\ caps'[j] = caps[j] /\ conn'[j] = conn[j] /\ got'[j] = got[j]
        /\ j \in gaveUp => j \in gaveUp'
    BY DEF Inv, TypeOK, Connect
  <2> QED
    BY <2>1, Elsewhere, Zenon DEF Inv, Connect
<1>3. PeerInv(id)'
  <2>1. /\ eth'[id] = [at |-> "start", i |-> 0] /\ caps'[id] = cs /\ conn'[id] = conn[id] + 1
        /\ \A e \in ExtSet : got'[id][e] = 0 /\ ext'[id][e] \in {"start", "done"}
        /\ \A e \in ExtSet : ext'[id][e] = "start" => e \in cs
    BY DEF Inv, TypeOK, Connect
  <2>2. \A e \in ExtSet : id \notin wait'[e] /\ lock' # <<id, e>>
    BY NotWaiting, Zenon DEF Connect, Waiting
  <2>3. \A e \in ExtSet : id \notin gaveUp' => pend'[e][id] = 0
    <3>1. Ahead(id) = {} /\ pend' = pend
      BY DEF Connect, Ahead, Waiting
    <3>2. CASE \A e \in ExtSet : pend[e][id] = 0
      BY <3>1, <3>2, Zenon
    <3>3. CASE ~ \A e \in ExtSet : pend[e][id] = 0
      <4>1. gaveUp' = gaveUp
        BY <3>3, Zenon DEF Connect
      <4> QED
        BY <3>1, <4>1, Zenon DEF Inv, PeerInv, Present
    <3> QED
      BY <3>2, <3>3, Zenon
  <2>4. Ahead(id)' = cs
    BY <2>1 DEF Ahead
  <2>5. Placed(id)' /\ Held(id)' /\ Leaves(id)'
    BY <2>1 DEF Placed, Held, Leaves, Waiting
  <2>8. Awaits(id)'
    BY <2>2, Zenon DEF Awaits
  <2>6. Registered(id)'
    BY <2>1, SMTT(20) DEF Inv, PeerInv, Registered, Connect
  <2>7. Present(id)'
    BY <2>1, <2>3, <2>4 DEF Present, Connect
  <2> QED
    BY <2>5, <2>6, <2>7, <2>8 DEF PeerInv
<1> QED
  BY <1>1, <1>2, <1>3 DEF Inv

\* The steps that touch only flags of a peer, or close the set.
LEMMA FlagsKeep ==
    ASSUME ConstantsFit, Inv,
           \/ \E id \in Ids : Disconnect(id) \/ SetTrusted(id) \/ UnsetTrusted(id)
           \/ Stop \/ Close \/ UNCHANGED vars
    PROVE  Inv'
<1>1. UNCHANGED <<lock, conn, caps, eth, ext, setVars, gaveUp>> /\ (stopping = "closed" => stopping' = "closed")
  BY DEF Disconnect, SetTrusted, UnsetTrusted, Stop, Close, vars, connVars
<1>2. TypeOK'
  BY <1>1, Zenon DEF Inv, TypeOK, Disconnect, SetTrusted, UnsetTrusted, Stop, Close, vars, connVars, setVars
<1>3. ASSUME NEW j \in Ids PROVE PeerInv(j)'
  BY <1>1, Elsewhere DEF Inv, setVars
<1> QED
  BY <1>2, <1>3 DEF Inv

-------------------------------------------------------------------------------
(* The steps of eth *)

\* eth goes on from where it does not wait to the limits, the registration or its end, if
\* it has got its satellites or gives up.
LEMMA EthMoves ==
    ASSUME ConstantsFit, Inv, NEW id \in Ids, NEW at \in {"register", "running", "done"},
           eth[id].at \notin Waiting, Goto(id, at),
           UNCHANGED <<lock, conn, caps, ext, wait, pend, got>>,
           up' \subseteq up, trusted' = trusted, stopping' = stopping,
           peers' = (IF at = "running" THEN peers \cup {id} ELSE peers \ {id}),
           \/ gaveUp' = gaveUp \cup {id}
           \/ gaveUp' = gaveUp /\ eth[id].at \notin {"start", "wait"}
    PROVE  Inv'
<1>1. /\ eth' \in [Ids -> [at : Places, i : 0 .. Len(Exts)]]
      /\ eth'[id].at = at
      /\ \A j \in Ids \ {id} : eth'[j] = eth[j]
  BY GotoFacts DEF Inv, Places
<1>2. TypeOK'
  BY <1>1 DEF Inv, TypeOK
<1>3. ASSUME NEW j \in Ids \ {id} PROVE PeerInv(j)'
  BY <1>1, Elsewhere, Zenon DEF Inv
<1>4. PeerInv(id)'
  <2>1. Placed(id)' /\ Held(id)' /\ Leaves(id)'
    BY <1>1 DEF Placed, Held, Leaves, Waiting
  <2>2. Awaits(id)'
    BY NotWaiting, Zenon DEF Awaits
  <2>3. Registered(id)'
    BY <1>1 DEF Registered
  <2>4. Present(id)'
    <3>1. CASE id \in gaveUp'
      BY <3>1, Zenon DEF Present
    <3>2. CASE id \notin gaveUp'
      <4>1. id \notin gaveUp /\ Ahead(id) = {}
        BY <3>2 DEF Ahead
      <4>2. \A e \in ExtSet : ext[id][e] # "start" /\ pend[e][id] = 0 /\ got[id][e] \in {0, conn[id]}
        BY <4>1 DEF Inv, PeerInv, Present
      <4> QED
        BY <4>2 DEF Present
    <3> QED
      BY <3>1, <3>2, Zenon
  <2> QED
    BY <2>1, <2>2, <2>3, <2>4, Zenon DEF PeerInv
<1> QED
  BY <1>2, <1>3, <1>4 DEF Inv

\* RefuseEth, the limits and the registration, and the end of the message loop.
LEMMA EthMovesKeep ==
    ASSUME ConstantsFit, Inv, NEW id \in Ids,
           RefuseEth(id) \/ Admit(id) \/ Reject(id) \/ RegisterPeer(id) \/ UnregisterPeer(id)
    PROVE  Inv'
<1>1. Registered(id)
  BY Zenon DEF Inv, PeerInv
<1>2. CASE RefuseEth(id)
  <2>1. Goto(id, "done") /\ eth[id].at = "start" /\ peers \ {id} = peers
    BY <1>1, <1>2, ZenonT(30) DEF RefuseEth, EthFails, Registered
  <2> QED
    BY <1>2, <2>1, EthMoves DEF RefuseEth, EthFails, setVars, Waiting
<1>3. CASE Admit(id)
  <2>1. Goto(id, "register") /\ eth[id].at = "handshake" /\ peers \ {id} = peers
    BY <1>1, <1>3, Zenon DEF Admit, Registered
  <2> QED
    BY <1>3, <2>1, EthMoves, Zenon DEF Admit, connVars, setVars, Waiting
<1>4. CASE Reject(id)
  <2>1. Goto(id, "done") /\ eth[id].at = "handshake" /\ peers \ {id} = peers
    BY <1>1, <1>4 DEF Reject, EthFails, Registered
  <2> QED
    BY <1>4, <2>1, EthMoves, Zenon DEF Reject, EthFails, setVars, Waiting
<1>5. CASE RegisterPeer(id)
  <2>1. eth[id].at = "register" /\ id \notin peers
    BY <1>1, <1>5 DEF RegisterPeer, Registered
  <2>2. CASE stopping = "closed"
    <3>1. Goto(id, "done") /\ peers' = peers \ {id} /\ up' \subseteq up
      BY <1>5, <2>1, <2>2, Zenon DEF RegisterPeer, EthFails
    <3> QED
      BY <1>5, <2>1, <3>1, EthMoves, Zenon DEF RegisterPeer, Waiting
  <2>3. CASE stopping # "closed"
    <3>1. Goto(id, "running") /\ peers' = peers \cup {id} /\ up' = up
      BY <1>5, <2>1, <2>3, Zenon DEF RegisterPeer
    <3> QED
      BY <1>5, <2>1, <3>1, EthMoves, Zenon DEF RegisterPeer, Waiting
  <2> QED
    BY <2>2, <2>3, Zenon
<1>6. CASE UnregisterPeer(id)
  <2>1. Goto(id, "done") /\ eth[id].at = "running" /\ peers' = peers \ {id}
    BY <1>6 DEF UnregisterPeer
  <2> QED
    BY <1>6, <2>1, EthMoves, Zenon DEF UnregisterPeer, connVars, Waiting
<1> QED
  BY <1>2, <1>3, <1>4, <1>5, <1>6

\* eth goes on to the next satellite after the one at index k, which is not ahead any more.
LEMMA EthAfter ==
    ASSUME ConstantsFit, Inv, NEW id \in Ids, NEW k \in 0 .. Len(Exts),
           \/ k = 0 /\ eth[id].at = "start"
           \/ k = eth[id].i /\ k # 0 /\ eth[id].at \in {"wait", "select"},
           eth' = [eth EXCEPT ![id] = After(id, k)],
           caps' = caps, conn' = conn, gaveUp' = gaveUp, peers' = peers,
           \A e \in ExtSet : id \notin wait'[e] /\ lock' # <<id, e>>,
           \A e \in ExtSet : /\ pend'[e][id] \in {0, pend[e][id]}
                             /\ got'[id][e] \in {0, got[id][e], pend[e][id], conn[id]}
                             /\ ext'[id][e] = "start" => ext[id][e] = "start",
           id \notin gaveUp /\ k # 0 => pend'[Exts[k]][id] = 0 /\ ext'[id][Exts[k]] # "start"
    PROVE  PeerInv(id)'
<1>1. eth'[id] = After(id, k)
  BY DEF Inv, TypeOK
<1>2. /\ eth'[id].at \in {"wait", "handshake"}
      /\ eth'[id].at = "handshake" => \A j \in k + 1 .. Len(Exts) : Exts[j] \notin caps[id]
      /\ eth'[id].at = "wait" =>
            /\ eth'[id].i \in k + 1 .. Len(Exts) /\ Exts[eth'[id].i] \in caps[id]
            /\ \A j \in k + 1 .. Len(Exts) : Exts[j] \in caps[id] => eth'[id].i <= j
  <2> QED
    BY <1>1, AfterFacts, ZenonT(30)
<1>3. Len(Exts) \in Nat
  BY Zenon DEF ConstantsFit
<1>4. Placed(id)' /\ Held(id)' /\ Leaves(id)'
  BY <1>2, <1>3 DEF Placed, Held, Leaves, Waiting, Current
<1>5. Awaits(id)'
  BY Zenon DEF Awaits
<1>6. Registered(id)'
  BY <1>2 DEF Inv, PeerInv, Registered
<1>7. Present(id)'
  <2> SUFFICES ASSUME id \notin gaveUp, NEW e \in ExtSet
               PROVE  /\ ext'[id][e] = "start" \/ pend'[e][id] # 0 => e \in Ahead(id)'
                      /\ ext'[id][e] = "start" => pend'[e][id] = 0
                      /\ pend'[e][id] \in {0, conn[id]} /\ got'[id][e] \in {0, conn[id]}
    BY Zenon DEF Present
  <2>1. /\ ext[id][e] = "start" \/ pend[e][id] # 0 => e \in Ahead(id)
        /\ ext[id][e] = "start" => pend[e][id] = 0
        /\ pend[e][id] \in {0, conn[id]} /\ got[id][e] \in {0, conn[id]}
    BY Zenon DEF Inv, PeerInv, Present
  <2>2. /\ ext'[id][e] = "start" => pend'[e][id] = 0
        /\ pend'[e][id] \in {0, conn[id]} /\ got'[id][e] \in {0, conn[id]}
    BY <2>1
  <2>3. ASSUME ext'[id][e] = "start" \/ pend'[e][id] # 0 PROVE e \in Ahead(id)'
    <3>1. e \in Ahead(id)
      BY <2>1, <2>3
    <3>2. PICK j \in k + 1 .. Len(Exts) : e = Exts[j] /\ e \in caps[id]
      <4>1. CASE eth[id].at = "start"
        BY <3>1, <4>1, <1>3, SMTT(20) DEF Ahead, Inv, TypeOK, ExtSet, ConstantsFit
      <4>2. CASE k = eth[id].i /\ k # 0 /\ eth[id].at \in {"wait", "select"}
        <5>1. PICK j \in k .. Len(Exts) : e = Exts[j] /\ e \in caps[id]
          BY <3>1, <4>2, ZenonT(30) DEF Ahead, Waiting
        <5>2. j # k
          BY <5>1, <2>3, <4>2, Zenon
        <5> QED
          BY <5>1, <5>2, <1>3, SMTT(20)
      <4> QED
        BY <4>1, <4>2, Zenon
    <3>3. eth'[id].at = "wait" /\ eth'[id].i <= j /\ eth'[id].i \in 1 .. Len(Exts)
      BY <3>2, <1>2, <1>3, SMTT(20)
    <3>4. j \in eth'[id].i .. Len(Exts)
      BY <3>2, <3>3, <1>3
    <3> QED
      BY <3>2, <3>3, <3>4, Zenon DEF Ahead, Waiting
  <2> QED
    BY <2>2, <2>3, Zenon
<1> QED
  BY <1>4, <1>5, <1>6, <1>7, Zenon DEF PeerInv

\* The beginning of eth's goroutine.
LEMMA StartKeeps ==
    ASSUME ConstantsFit, Inv, NEW id \in Ids, StartEth(id)
    PROVE  Inv'
<1>1. 0 \in 0 .. Len(Exts)
  BY DEF ConstantsFit
<1>2. After(id, 0) \in [at : Places, i : 0 .. Len(Exts)]
  BY <1>1, AfterFacts DEF Places
<1>3. TypeOK'
  BY <1>2, Zenon DEF Inv, TypeOK, StartEth, connVars, setVars
<1>4. ASSUME NEW j \in Ids \ {id} PROVE PeerInv(j)'
  <2>1. eth'[j] = eth[j]
    BY DEF Inv, TypeOK, StartEth
  <2> QED
    BY <2>1, Elsewhere DEF Inv, StartEth, connVars, setVars
<1>5. PeerInv(id)'
  <2>1. \A e \in ExtSet : id \notin wait'[e] /\ lock' # <<id, e>>
    BY NotWaiting, Zenon DEF StartEth, setVars, Waiting
  <2> QED
    BY <1>1, <2>1, EthAfter, Zenon DEF StartEth, connVars, setVars
<1> QED
  BY <1>3, <1>4, <1>5 DEF Inv

\* eth finds the satellite in the map or joins those that wait.
LEMMA WaitKeeps ==
    ASSUME ConstantsFit, Inv, NEW id \in Ids, WaitExtension(id)
    PROVE  Inv'
<1> DEFINE e == Current(id)
           k == eth[id].i
<1>1. /\ eth[id].at = "wait" /\ k \in 1 .. Len(Exts) /\ e = Exts[k] /\ e \in ExtSet /\ e \in caps[id]
      /\ id \notin peers /\ Len(Exts) \in Nat
  BY Zenon DEF WaitExtension, Inv, PeerInv, Placed, Registered, Current, ExtSet, ConstantsFit
<1>2. \A f \in ExtSet : id \notin wait[f] /\ lock # <<id, f>>
  BY <1>1, NotWaiting DEF Waiting
<1>3. UNCHANGED <<lock, conn, caps, ext, peers, trusted, stopping, gaveUp>>
  BY Zenon DEF WaitExtension
<1>4. CASE /\ pend[e][id] # 0
           /\ pend' = Taken(e, id)
           /\ got' = [got EXCEPT ![id][e] = pend[e][id]]
           /\ eth' = [eth EXCEPT ![id] = After(id, k)]
           /\ UNCHANGED <<up, wait>>
  <2>1. After(id, k) \in [at : Places, i : 0 .. Len(Exts)]
    BY <1>1, AfterFacts, SMTT(20) DEF Places
  <2>2. /\ pend' \in [ExtSet -> [Ids -> Nat]] /\ pend'[e][id] = 0
        /\ \A f \in ExtSet, j \in Ids : f # e \/ j # id => pend'[f][j] = pend[f][j]
    BY <1>1, <1>4, ZenonT(20) DEF Inv, TypeOK, Taken
  <2>3. /\ got' \in [Ids -> [ExtSet -> Nat]] /\ got'[id][e] = pend[e][id]
        /\ \A f \in ExtSet \ {e} : got'[id][f] = got[id][f]
        /\ \A j \in Ids \ {id} : got'[j] = got[j]
    <3>1. pend[e][id] \in Nat
      BY <1>1, SMTT(20) DEF Inv, TypeOK
    <3> QED
      BY <1>1, <1>4, <3>1, Zenon DEF Inv, TypeOK
  <2>4. eth' \in [Ids -> [at : Places, i : 0 .. Len(Exts)]] /\ \A j \in Ids \ {id} : eth'[j] = eth[j]
    BY <1>4, <2>1, ZenonT(30) DEF Inv, TypeOK
  <2>5. TypeOK'
    BY <1>3, <1>4, <2>2, <2>3, <2>4, SMTT(20) DEF Inv, TypeOK
  <2>6. ASSUME NEW j \in Ids \ {id} PROVE PeerInv(j)'
    BY <1>3, <1>4, <2>2, <2>3, <2>4, Elsewhere, SMTT(20) DEF Inv
  <2>7. PeerInv(id)'
    <3>1. id \notin gaveUp => ext'[id][Exts[k]] # "start"
      BY <1>1, <1>3, <1>4, Zenon DEF Inv, PeerInv, Present
    <3>2. \A f \in ExtSet : /\ pend'[f][id] \in {0, pend[f][id]}
                            /\ got'[id][f] \in {0, got[id][f], pend[f][id], conn[id]}
      BY <2>2, <2>3, Zenon
    <3>3. \A f \in ExtSet : id \notin wait'[f] /\ lock' # <<id, f>>
      BY <1>2, <1>3, <1>4
    <3>4. k \in 0 .. Len(Exts) /\ k # 0
      BY <1>1
    <3> QED
      BY <1>1, <1>3, <1>4, <2>2, <3>1, <3>2, <3>3, <3>4, EthAfter, Zenon
  <2> QED
    BY <2>5, <2>6, <2>7 DEF Inv
<1>5. CASE /\ pend[e][id] = 0
           /\ wait' = [wait EXCEPT ![e] = @ \cup {id}]
           /\ Goto(id, "select")
           /\ UNCHANGED <<up, pend, got>>
  <2>1. /\ eth' \in [Ids -> [at : Places, i : 0 .. Len(Exts)]]
        /\ eth'[id].at = "select" /\ eth'[id].i = k
        /\ \A j \in Ids \ {id} : eth'[j] = eth[j]
    BY <1>5, GotoFacts, ZenonT(30) DEF Inv, Places, Waiting
  <2>2. /\ wait' \in [ExtSet -> SUBSET Ids] /\ id \in wait'[e]
        /\ \A f \in ExtSet \ {e} : wait'[f] = wait[f]
        /\ \A j \in Ids \ {id} : \A f \in ExtSet : j \in wait'[f] <=> j \in wait[f]
    BY <1>1, <1>5, Zenon DEF Inv, TypeOK
  <2>3. TypeOK'
    BY <1>3, <1>5, <2>1, <2>2, Zenon DEF Inv, TypeOK
  <2>4. ASSUME NEW j \in Ids \ {id} PROVE PeerInv(j)'
    BY <1>3, <1>5, <2>1, <2>2, Elsewhere DEF Inv
  <2>5. PeerInv(id)'
    <3>1. Current(id)' = e
      BY <2>1, ZenonT(30) DEF Current
    <3>2. Placed(id)' /\ Leaves(id)' /\ Registered(id)'
      BY <1>1, <1>3, <2>1, <3>1 DEF Placed, Leaves, Registered
    <3>3. Awaits(id)'
      BY <1>2, <1>3, <2>1, <2>2, <3>1, Zenon DEF Awaits, Waiting
    <3>4. Held(id)'
      BY <1>5, <2>2, <3>1 DEF Held
    <3>5. Ahead(id)' = Ahead(id)
      BY <1>1, <1>3, <2>1, ZenonT(30) DEF Ahead, Waiting
    <3>6. Present(id)'
      BY <1>3, <1>5, <3>5, Zenon DEF Inv, PeerInv, Present
    <3> QED
      BY <3>2, <3>3, <3>4, <3>6 DEF PeerInv
  <2> QED
    BY <2>3, <2>4, <2>5 DEF Inv
<1> QED
  BY <1>1, <1>2, <1>4, <1>5, ZenonT(30) DEF WaitExtension

\* eth stays at its select, or what comes after it: it gives up and has still to leave.
LEMMA EthLate ==
    ASSUME ConstantsFit, Inv, NEW id \in Ids, NEW at \in {"late", "retry", "quit"},
           eth[id].at = "select", Goto(id, at), gaveUp' = gaveUp \cup {id},
           at = "quit" => stopping = "closed", at = "late" => Current(id) \notin TryLockExts,
           UNCHANGED <<lock, connVars, ext, setVars, trusted, stopping>>
    PROVE  Inv'
<1>1. /\ eth' \in [Ids -> [at : Places, i : 0 .. Len(Exts)]]
      /\ eth'[id].at = at /\ eth'[id].i = eth[id].i
      /\ \A j \in Ids \ {id} : eth'[j] = eth[j]
  BY GotoFacts, ZenonT(30) DEF Inv, Places, Waiting
<1>2. TypeOK'
  BY <1>1 DEF Inv, TypeOK, connVars, setVars
<1>3. ASSUME NEW j \in Ids \ {id} PROVE PeerInv(j)'
  BY <1>1, Elsewhere, Zenon DEF Inv, connVars, setVars
<1>4. PeerInv(id)'
  <2>1. Current(id)' = Current(id) /\ at \in Waiting /\ eth[id].at \in Waiting
    BY <1>1, ZenonT(30) DEF Current, Waiting
  <2>2. Placed(id)'
    BY <1>1, <2>1, Zenon DEF Inv, PeerInv, Placed, connVars
  <2>3. Awaits(id)'
    BY <1>1, <2>1, Zenon DEF Inv, PeerInv, Awaits, setVars
  <2>4. Held(id)'
    BY <1>1, <2>1, ZenonT(30) DEF Inv, PeerInv, Held, setVars
  <2>5. Leaves(id)' /\ Registered(id)' /\ Present(id)'
    BY <1>1, <2>1, Zenon DEF Inv, PeerInv, Leaves, Registered, Present, setVars
  <2> QED
    BY <2>2, <2>3, <2>4, <2>5, Zenon DEF PeerInv
<1> QED
  BY <1>2, <1>3, <1>4, Zenon DEF Inv

\* With the lock, eth leaves the map and ends.
LEMMA EthLeaves ==
    ASSUME ConstantsFit, Inv, NEW id \in Ids, eth[id].at \in Waiting, id \in gaveUp', Unlocked,
           wait' = [wait EXCEPT ![Current(id)] = @ \ {id}], EthFails(id), gaveUp \subseteq gaveUp',
           gaveUp' \subseteq Ids,
           UNCHANGED <<lock, conn, caps, ext, pend, got, peers, trusted, stopping>>
    PROVE  Inv'
<1>1. /\ eth' \in [Ids -> [at : Places, i : 0 .. Len(Exts)]]
      /\ eth'[id].at = "done"
      /\ \A j \in Ids \ {id} : eth'[j] = eth[j]
  BY GotoFacts, ZenonT(30) DEF Inv, Places, EthFails
<1>2. Current(id) \in ExtSet
  BY Zenon DEF Inv, PeerInv, Placed, Current, ExtSet, ConstantsFit
<1>3. /\ wait' \in [ExtSet -> SUBSET Ids]
      /\ \A j \in Ids \ {id} : \A f \in ExtSet : j \in wait'[f] <=> j \in wait[f]
      /\ id \notin wait'[Current(id)] /\ \A f \in ExtSet \ {Current(id)} : wait'[f] = wait[f]
  BY <1>2, ZenonT(30) DEF Inv, TypeOK
<1>4. TypeOK'
  BY <1>1, <1>3, ZenonT(30) DEF Inv, TypeOK, EthFails
<1>5. ASSUME NEW j \in Ids \ {id} PROVE PeerInv(j)'
  BY <1>1, <1>3, Elsewhere, Zenon DEF Inv
<1>6. PeerInv(id)'
  <2>1. \A f \in ExtSet : id \notin wait'[f] /\ lock' # <<id, f>>
    BY <1>3, Zenon DEF Inv, PeerInv, Awaits, Unlocked, Free
  <2>2. Awaits(id)'
    BY <2>1, ZenonT(30) DEF Awaits
  <2>3. Placed(id)' /\ Held(id)' /\ Leaves(id)' /\ Present(id)'
    BY <1>1 DEF Placed, Held, Leaves, Present, Waiting
  <2>4. Registered(id)'
    BY <1>1, Zenon DEF Inv, PeerInv, Registered, Waiting
  <2> QED
    BY <2>2, <2>3, <2>4, ZenonT(30) DEF PeerInv
<1> QED
  BY <1>4, <1>5, <1>6, Zenon DEF Inv

\* Timeouts, the end of the set and the way out.
LEMMA LateKeeps ==
    ASSUME ConstantsFit, Inv, NEW id \in Ids, Timeout(id) \/ Quit(id) \/ GiveUp(id)
    PROVE  Inv'
<1>1. CASE Timeout(id)
  <2>1. gaveUp' = gaveUp \cup {id} /\ eth[id].at = "select" /\ eth[id].at \in Waiting
    BY <1>1, Zenon DEF Timeout, Waiting
  <2>2. CASE Current(id) \in TryLockExts /\ Unlocked
    BY <1>1, <2>1, <2>2, EthLeaves, Zenon DEF Timeout, Inv, TypeOK
  <2>3. CASE ~(Current(id) \in TryLockExts /\ Unlocked)
    <3>1. Goto(id, IF Current(id) \in TryLockExts THEN "retry" ELSE "late") /\ UNCHANGED <<wait, up>>
      BY <1>1, <2>3 DEF Timeout
    <3> QED
      BY <1>1, <2>1, <3>1, EthLate, ZenonT(30) DEF Timeout, connVars, setVars
  <2> QED
    BY <2>2, <2>3, Zenon
<1>2. CASE Quit(id)
  BY <1>2, EthLate, Zenon DEF Quit
<1>3. CASE GiveUp(id)
  <2>1. id \in gaveUp /\ eth[id].at \in Waiting
    BY <1>3, Zenon DEF GiveUp, Inv, PeerInv, Leaves, Waiting
  <2> QED
    BY <1>3, <2>1, EthLeaves, Zenon DEF GiveUp, Inv, TypeOK
<1> QED
  BY <1>1, <1>2, <1>3

-------------------------------------------------------------------------------
(* The steps of the satellites *)

\* A satellite goes on to its message loop or its end, and leaves the maps alone.
LEMMA ExtMoves ==
    ASSUME ConstantsFit, Inv, NEW id \in Ids, NEW e \in ExtSet,
           ext[id][e] \in {"start", "running"}, GotoExt(id, e, "done"),
           up' \subseteq up,
           UNCHANGED <<lock, conn, caps, eth, setVars, trusted, stopping, gaveUp>>
    PROVE  Inv'
<1>1. /\ ext' \in [Ids -> [ExtSet -> ExtPlaces]] /\ ext'[id][e] = "done"
      /\ \A f \in ExtSet \ {e} : ext'[id][f] = ext[id][f]
      /\ \A j \in Ids \ {id} : ext'[j] = ext[j]
  BY GotoExtFacts, Zenon DEF Inv, ExtPlaces
<1>2. TypeOK'
  BY <1>1, Zenon DEF Inv, TypeOK, setVars
<1>3. ASSUME NEW j \in Ids \ {id} PROVE PeerInv(j)'
  BY <1>1, Elsewhere, Zenon DEF Inv, setVars
<1>4. PeerInv(id)'
  <2>1. Placed(id)' /\ Held(id)' /\ Leaves(id)' /\ Registered(id)'
    BY Zenon DEF Inv, PeerInv, Placed, Held, Leaves, Registered, Current, setVars
  <2>2. Awaits(id)'
    BY <1>1, ZenonT(30) DEF Inv, PeerInv, Awaits, Current, setVars
  <2>3. Ahead(id)' = Ahead(id)
    BY DEF Ahead
  <2>4. Present(id)'
    BY <1>1, <2>3, Zenon DEF Inv, PeerInv, Present, setVars
  <2> QED
    BY <2>1, <2>2, <2>4, Zenon DEF PeerInv
<1> QED
  BY <1>2, <1>3, <1>4, Zenon DEF Inv

\* A satellite that finds eth waiting takes the lock and sends.
LEMMA ExtSends ==
    ASSUME ConstantsFit, Inv, NEW id \in Ids, NEW e \in ExtSet, NEW at \in {"sends", "sends nil"},
           Unlocked, ext[id][e] = "start", id \in wait[e],
           wait' = [wait EXCEPT ![e] = @ \ {id}], lock' = <<id, e>>, GotoExt(id, e, at),
           UNCHANGED <<conn, caps, up, eth, pend, got, peers, trusted, stopping, gaveUp>>
    PROVE  Inv'
<1>1. /\ ext' \in [Ids -> [ExtSet -> ExtPlaces]] /\ ext'[id][e] = at
      /\ \A f \in ExtSet \ {e} : ext'[id][f] = ext[id][f]
      /\ \A j \in Ids \ {id} : ext'[j] = ext[j]
  BY GotoExtFacts, ZenonT(30) DEF Inv, ExtPlaces
<1>2. /\ wait' \in [ExtSet -> SUBSET Ids]
      /\ \A j \in Ids \ {id} : \A f \in ExtSet : j \in wait'[f] <=> j \in wait[f]
      /\ id \notin wait'[e] /\ \A f \in ExtSet \ {e} : wait'[f] = wait[f]
  BY Zenon DEF Inv, TypeOK
<1>3. TypeOK'
  BY <1>1, <1>2, Zenon DEF Inv, TypeOK
<1>4. ASSUME NEW j \in Ids \ {id} PROVE PeerInv(j)'
  <2>1. \A f \in ExtSet : lock' # <<j, f>> /\ lock # <<j, f>>
    BY Zenon DEF Unlocked, Free
  <2> QED
    BY <1>1, <1>2, <2>1, Elsewhere, Zenon DEF Inv
<1>5. PeerInv(id)'
  <2>1. Current(id) = e /\ eth[id].at \in Waiting /\ Current(id)' = Current(id)
    BY Zenon DEF Inv, PeerInv, Awaits, Current
  <2>2. Placed(id)' /\ Leaves(id)' /\ Registered(id)'
    BY <2>1, Zenon DEF Inv, PeerInv, Placed, Leaves, Registered
  <2>3. Held(id)'
    BY <2>1, Zenon DEF Inv, PeerInv, Held
  <2>4. Awaits(id)'
    <3>1. \A f \in ExtSet \ {e} : id \notin wait[f]
      BY <2>1, Zenon DEF Inv, PeerInv, Awaits
    <3> QED
      BY <1>1, <1>2, <2>1, <3>1, Zenon DEF Awaits
  <2>5. Ahead(id)' = Ahead(id)
    BY Zenon DEF Ahead
  <2>6. Present(id)'
    BY <1>1, <2>5, ZenonT(30) DEF Inv, PeerInv, Present
  <2> QED
    BY <2>2, <2>3, <2>4, <2>6, Zenon DEF PeerInv
<1> QED
  BY <1>3, <1>4, <1>5, Zenon DEF Inv

\* A satellite that comes before eth waits for it in the map.
LEMMA ExtPends ==
    ASSUME ConstantsFit, Inv, NEW id \in Ids, NEW e \in ExtSet,
           Unlocked, ext[id][e] = "start", id \notin wait[e],
           pend' = [pend EXCEPT ![e][id] = conn[id]], GotoExt(id, e, "running"),
           UNCHANGED <<lock, conn, caps, up, eth, wait, got, peers, trusted, stopping, gaveUp>>
    PROVE  Inv'
<1>1. /\ ext' \in [Ids -> [ExtSet -> ExtPlaces]] /\ ext'[id][e] = "running"
      /\ \A f \in ExtSet \ {e} : ext'[id][f] = ext[id][f]
      /\ \A j \in Ids \ {id} : ext'[j] = ext[j]
  BY GotoExtFacts, Zenon DEF Inv, ExtPlaces
<1>2. /\ pend' \in [ExtSet -> [Ids -> Nat]] /\ pend'[e][id] = conn[id]
      /\ \A f \in ExtSet, j \in Ids : f # e \/ j # id => pend'[f][j] = pend[f][j]
  <2>1. conn[id] \in Nat
    BY Zenon DEF Inv, TypeOK
  <2> QED
    BY <2>1 DEF Inv, TypeOK
<1>3. TypeOK'
  BY <1>1, <1>2, SMTT(20) DEF Inv, TypeOK
<1>4. ASSUME NEW j \in Ids \ {id} PROVE PeerInv(j)'
  BY <1>1, <1>2, Elsewhere, Zenon DEF Inv
<1>5. PeerInv(id)'
  <2>1. Current(id)' = Current(id) /\ (eth[id].at \in Waiting => Current(id) \in ExtSet \ {e})
    <3>1. eth[id].at \in Waiting => id \in wait[Current(id)] /\ Current(id) \in ExtSet
      BY DEF Inv, PeerInv, Held, Placed, Current, Unlocked, Free, ExtSet, ConstantsFit
    <3> QED
      BY <3>1, ZenonT(30) DEF Current
  <2>2. Placed(id)' /\ Leaves(id)' /\ Registered(id)'
    BY <2>1, ZenonT(20) DEF Inv, PeerInv, Placed, Leaves, Registered
  <2>3. Held(id)'
    BY <1>2, <2>1, ZenonT(30) DEF Inv, PeerInv, Held
  <2>4. Awaits(id)'
    BY <1>1, <2>1 DEF Inv, PeerInv, Awaits, Unlocked, Free
  <2>5. Ahead(id)' = Ahead(id)
    BY ZenonT(20) DEF Ahead
  <2>6. Present(id)'
    <3> SUFFICES ASSUME id \notin gaveUp, NEW f \in ExtSet
                 PROVE  /\ ext'[id][f] = "start" \/ pend'[f][id] # 0 => f \in Ahead(id)
                        /\ ext'[id][f] = "start" => pend'[f][id] = 0
                        /\ pend'[f][id] \in {0, conn[id]} /\ got[id][f] \in {0, conn[id]}
      BY <2>5, Zenon DEF Present
    <3>1. /\ ext[id][f] = "start" \/ pend[f][id] # 0 => f \in Ahead(id)
          /\ ext[id][f] = "start" => pend[f][id] = 0
          /\ pend[f][id] \in {0, conn[id]} /\ got[id][f] \in {0, conn[id]}
      BY Zenon DEF Inv, PeerInv, Present
    <3>2. CASE f = e
      BY <1>1, <1>2, <3>1, <3>2
    <3>3. CASE f # e
      BY <1>1, <1>2, <3>1, <3>3, Zenon
    <3> QED
      BY <3>2, <3>3
  <2> QED
    BY <2>2, <2>3, <2>4, <2>6 DEF PeerInv
<1> QED
  BY <1>3, <1>4, <1>5 DEF Inv

\* eth receives what the satellite sends, goes on or ends, and the lock is free.
LEMMA ReceiveKeeps ==
    ASSUME ConstantsFit, Inv, NEW id \in Ids, NEW e \in ExtSet, Receive(id, e)
    PROVE  Inv'
<1> DEFINE k == eth[id].i
<1>1. /\ eth[id].at \in {"select", "retry"} /\ eth[id].at \in Waiting /\ Current(id) = e /\ lock = <<id, e>>
      /\ k \in 1 .. Len(Exts) /\ e = Exts[k] /\ Len(Exts) \in Nat /\ lock' = Free
      /\ ext[id][e] \in {"sends", "sends nil"} /\ id \notin wait[e] /\ pend[e][id] = 0
  BY ZenonT(30) DEF Receive, Inv, PeerInv, Placed, Awaits, Held, Current, Waiting, ConstantsFit
<1>k. k \in 0 .. Len(Exts) /\ k # 0
  <2>1. k \in 1 .. Len(Exts) /\ Len(Exts) \in Nat
    BY <1>1, Zenon
  <2> HIDE DEF k
  <2> QED
    BY <2>1
<1>2. UNCHANGED <<conn, caps, wait, pend, peers, trusted, stopping, gaveUp>> /\ up' \subseteq up
  BY Zenon DEF Receive
<1>3. /\ ext' \in [Ids -> [ExtSet -> ExtPlaces]] /\ ext'[id][e] \in {"running", "done"}
      /\ \A f \in ExtSet \ {e} : ext'[id][f] = ext[id][f]
      /\ \A j \in Ids \ {id} : ext'[j] = ext[j]
  <2>1. GotoExt(id, e, "running") \/ GotoExt(id, e, "done")
    BY Zenon DEF Receive
  <2> QED
    BY <2>1, GotoExtFacts, Zenon DEF Inv, ExtPlaces
<1>4. \A f \in ExtSet : id \notin wait'[f] /\ lock' # <<id, f>>
  BY <1>1, <1>2, Zenon DEF Inv, PeerInv, Awaits, Free
<1>5. \A j \in Ids \ {id} : \A f \in ExtSet : lock' # <<j, f>> /\ lock # <<j, f>>
  BY <1>1, Zenon DEF Free
<1>6. CASE eth[id].at = "retry"
  <2>1. eth' = [eth EXCEPT ![id].at = "done"] /\ got' = got
    BY <1>6, ZenonT(30) DEF Receive
  <2>2. /\ eth' \in [Ids -> [at : Places, i : 0 .. Len(Exts)]] /\ eth'[id].at = "done"
        /\ \A j \in Ids \ {id} : eth'[j] = eth[j]
    <3>1. Goto(id, "done")
      BY <2>1 DEF Goto
    <3> QED
      BY <3>1, GotoFacts DEF Inv, Places
  <2>3. TypeOK'
    BY <1>1, <1>2, <1>3, <2>1, <2>2, Zenon DEF Inv, TypeOK
  <2>4. ASSUME NEW j \in Ids \ {id} PROVE PeerInv(j)'
    BY <1>2, <1>3, <1>5, <2>1, <2>2, Elsewhere, Zenon DEF Inv
  <2>5. PeerInv(id)'
    <3>1. id \in gaveUp'
      BY <1>2, <1>6 DEF Inv, PeerInv, Leaves
    <3>2. Awaits(id)'
      BY <1>4, Zenon DEF Awaits
    <3>3. Placed(id)' /\ Held(id)' /\ Leaves(id)' /\ Present(id)'
      BY <2>2, <3>1, Zenon DEF Placed, Held, Leaves, Present, Waiting
    <3>4. Registered(id)'
      BY <1>2, <1>6, <2>2, Zenon DEF Inv, PeerInv, Registered
    <3> QED
      BY <3>2, <3>3, <3>4, ZenonT(30) DEF PeerInv
  <2> QED
    BY <2>3, <2>4, <2>5 DEF Inv
<1>7. CASE eth[id].at = "select"
  <2>1. /\ eth' = [eth EXCEPT ![id] = After(id, k)]
        /\ got' = [got EXCEPT ![id][e] = IF ext[id][e] = "sends" THEN conn[id] ELSE 0]
    BY <1>7, ZenonT(30) DEF Receive
  <2>2. After(id, k) \in [at : Places, i : 0 .. Len(Exts)]
    BY <1>k, AfterFacts, Zenon DEF Places
  <2>3. eth' \in [Ids -> [at : Places, i : 0 .. Len(Exts)]] /\ \A j \in Ids \ {id} : eth'[j] = eth[j]
    BY <2>1, <2>2, Zenon DEF Inv, TypeOK
  <2>4. /\ got' \in [Ids -> [ExtSet -> Nat]] /\ got'[id][e] \in {0, conn[id]}
        /\ \A f \in ExtSet \ {e} : got'[id][f] = got[id][f]
        /\ \A j \in Ids \ {id} : got'[j] = got[j]
    <3>1. (IF ext[id][e] = "sends" THEN conn[id] ELSE 0) \in Nat
      BY DEF Inv, TypeOK
    <3> QED
      BY <2>1, <3>1, ZenonT(30) DEF Inv, TypeOK
  <2>5. TypeOK'
    BY <1>1, <1>2, <1>3, <2>3, <2>4, Zenon DEF Inv, TypeOK
  <2>6. ASSUME NEW j \in Ids \ {id} PROVE PeerInv(j)'
    BY <1>2, <1>3, <1>5, <2>3, <2>4, Elsewhere, Zenon DEF Inv
  <2>7. PeerInv(id)'
    <3>1. \A f \in ExtSet : /\ pend'[f][id] \in {0, pend[f][id]}
                            /\ got'[id][f] \in {0, got[id][f], pend[f][id], conn[id]}
                            /\ ext'[id][f] = "start" => ext[id][f] = "start"
      BY <1>2, <1>3, <2>4
    <3>2. pend'[Exts[k]][id] = 0 /\ ext'[id][Exts[k]] # "start"
      BY <1>1, <1>2, <1>3, Zenon
    <3> QED
      BY <1>2, <1>4, <1>7, <1>k, <2>1, <3>1, <3>2, EthAfter, ZenonT(30)
  <2> QED
    BY <2>5, <2>6, <2>7 DEF Inv
<1> QED
  BY <1>1, <1>6, <1>7, Zenon

\* The steps of a satellite by name.
LEMMA ExtKeeps ==
    ASSUME ConstantsFit, Inv, NEW id \in Ids, NEW e \in ExtSet,
           \/ RefuseExt(id, e) \/ RegisterExtension(id, e) \/ EndExtension(id, e)
           \/ e = "bsc" /\ FailHandshake(id)
    PROVE  Inv'
<1>1. CASE RefuseExt(id, e)
  BY <1>1, ExtMoves, Zenon DEF RefuseExt, ExtFails
<1>2. CASE EndExtension(id, e)
  BY <1>2, ExtMoves, Zenon DEF EndExtension, connVars
<1>3. CASE RegisterExtension(id, e)
  <2>1. ext[id][e] = "start" /\ Unlocked
    BY <1>3, ZenonT(30) DEF RegisterExtension
  <2>2. CASE id \in peers \/ pend[e][id] # 0
    BY <1>3, <2>1, <2>2, ExtMoves, Zenon DEF RegisterExtension, ExtFails, setVars
  <2>3. CASE ~(id \in peers \/ pend[e][id] # 0) /\ id \in wait[e]
    BY <1>3, <2>1, <2>3, ExtSends, ZenonT(30) DEF RegisterExtension
  <2>4. CASE ~(id \in peers \/ pend[e][id] # 0) /\ id \notin wait[e]
    BY <1>3, <2>1, <2>4, ExtPends, Zenon DEF RegisterExtension
  <2> QED
    BY <2>2, <2>3, <2>4, Zenon
<1>4. CASE e = "bsc" /\ FailHandshake(id)
  <2>1. ext[id][e] = "start" /\ Unlocked
    BY <1>4, Zenon DEF FailHandshake
  <2>2. CASE id \in wait[e]
    BY <1>4, <2>1, <2>2, ExtSends, ZenonT(30) DEF FailHandshake
  <2>3. CASE id \notin wait[e]
    BY <1>4, <2>1, <2>3, ExtMoves, Zenon DEF FailHandshake, ExtFails, setVars
  <2> QED
    BY <2>2, <2>3
<1> QED
  BY <1>1, <1>2, <1>3, <1>4, Zenon

\* Nobody is connected at first.
LEMMA InvInit == ASSUME ConstantsFit, Init PROVE Inv
<1>1. /\ eth \in [Ids -> [at : Places, i : 0 .. Len(Exts)]] /\ \A id \in Ids : eth[id].at = "done"
      /\ lock = Free /\ gaveUp = {} /\ peers = {}
      /\ \A id \in Ids, e \in ExtSet : /\ id \notin wait[e] /\ pend[e][id] = 0 /\ got[id][e] = 0
                                       /\ ext[id][e] = "done"
  <2>1. 0 \in 0 .. Len(Exts)
    BY SMTT(20) DEF ConstantsFit
  <2> QED
    BY <2>1 DEF Init, Places
<1>2. TypeOK
  BY <1>1 DEF Init, TypeOK, ExtPlaces
<1>3. ASSUME NEW id \in Ids PROVE PeerInv(id)
  <2>1. Placed(id) /\ Held(id) /\ Leaves(id) /\ Registered(id)
    BY <1>1, ZenonT(30) DEF Placed, Held, Leaves, Registered, Waiting
  <2>2. Awaits(id) /\ Present(id)
    BY <1>1, Zenon DEF Awaits, Present, Free
  <2> QED
    BY <2>1, <2>2, Zenon DEF PeerInv
<1> QED
  BY <1>2, <1>3, Zenon DEF Inv

\* Every step keeps the invariant.
LEMMA InvStep == ASSUME ConstantsFit, Inv, [Next]_vars PROVE Inv'
<1>1. CASE Stop \/ Close \/ UNCHANGED vars
  BY <1>1, FlagsKeep, Zenon
<1>2. ASSUME NEW id \in Ids,
             \/ \E cs \in SUBSET ExtSet : Connect(id, cs)
             \/ Disconnect(id) \/ SetTrusted(id) \/ UnsetTrusted(id)
             \/ StartEth(id) \/ RefuseEth(id) \/ WaitExtension(id)
             \/ Timeout(id) \/ Quit(id) \/ GiveUp(id)
             \/ Admit(id) \/ Reject(id) \/ RegisterPeer(id) \/ UnregisterPeer(id)
             \/ FailHandshake(id)
      PROVE  Inv'
  <2>1. CASE \E cs \in SUBSET ExtSet : Connect(id, cs)
    BY <2>1, ConnectKeeps, Zenon
  <2>2. CASE Disconnect(id) \/ SetTrusted(id) \/ UnsetTrusted(id)
    BY <2>2, FlagsKeep, Zenon
  <2>3. CASE StartEth(id)
    BY <2>3, StartKeeps, Zenon
  <2>4. CASE RefuseEth(id) \/ Admit(id) \/ Reject(id) \/ RegisterPeer(id) \/ UnregisterPeer(id)
    BY <2>4, EthMovesKeep, Zenon
  <2>5. CASE WaitExtension(id)
    BY <2>5, WaitKeeps, Zenon
  <2>6. CASE Timeout(id) \/ Quit(id) \/ GiveUp(id)
    BY <2>6, LateKeeps, Zenon
  <2>7. CASE FailHandshake(id)
    <3>1. "bsc" \in ExtSet
      BY <2>7, Zenon DEF FailHandshake
    <3> QED
      BY <2>7, <3>1, ExtKeeps, Zenon
  <2> QED
    BY <1>2, <2>1, <2>2, <2>3, <2>4, <2>5, <2>6, <2>7, Zenon
<1>3. ASSUME NEW id \in Ids, NEW e \in ExtSet,
             RefuseExt(id, e) \/ RegisterExtension(id, e) \/ Receive(id, e) \/ EndExtension(id, e)
      PROVE  Inv'
  <2>1. CASE Receive(id, e)
    BY <2>1, ReceiveKeeps, Zenon
  <2>2. CASE RefuseExt(id, e) \/ RegisterExtension(id, e) \/ EndExtension(id, e)
    BY <2>2, ExtKeeps, Zenon
  <2> QED
    BY <1>3, <2>1, <2>2, Zenon
<1> QED
  BY <1>1, <1>2, <1>3, Zenon DEF Next

\* The invariant holds always.
LEMMA Invariance == ASSUME ConstantsFit PROVE Spec => []Inv
<1>1. Init => Inv
  BY InvInit, Zenon
<1>2. Inv /\ [Next]_vars => Inv'
  BY InvStep
<1> QED
  BY <1>1, <1>2, PTL DEF Spec

-------------------------------------------------------------------------------
(* The lock *)

\* Who is in a waiting map, or is sent to with the lock of the set held, is an eth in
\* the wait for just that satellite or on its way out of it, whatever times out
\* and whenever the set is closed.  A satellite whose wait gives up by TryLock, as
\* waitBscExtension does, is received until the set is closed.
THEOREM SendersAlwaysAwaited ==
    ASSUME ConstantsFit
    PROVE  Spec => []SendersAwaited
<1>1. Inv => SendersAwaited
  <2> SUFFICES ASSUME Inv, NEW id \in Ids, NEW e \in ExtSet
               PROVE  /\ id \in wait[e] \/ lock = <<id, e>> => eth[id].at \in Waiting /\ Current(id) = e
                      /\ lock = <<id, e>> /\ e \in TryLockExts /\ stopping # "closed" =>
                            eth[id].at \in {"select", "retry"}
    BY Zenon DEF SendersAwaited, Waiting
  <2>1. Awaits(id) /\ Leaves(id)
    BY Zenon DEF Inv, PeerInv
  <2>2. id \in wait[e] \/ lock = <<id, e>> => eth[id].at \in Waiting /\ Current(id) = e
    BY <2>1, Zenon DEF Awaits
  <2> QED
    BY <2>1, <2>2, Zenon DEF Leaves, Waiting
<1>2. Spec => []Inv
  BY Invariance
<1> QED
  BY <1>1, <1>2, PTL

\* A registered peer has satellites of its own connection only, and what waits for eth in
\* snapPend, trustPend and bscPend belongs to the present connection, whose eth is
\* still to come, unless eth gave up on that peer and all its connections since
\* then began with a satellite left over.
THEOREM ExtensionsAlwaysAlive ==
    ASSUME ConstantsFit
    PROVE  Spec => []ExtensionsAlive
<1>1. Inv => ExtensionsAlive
  <2> SUFFICES ASSUME Inv, NEW id \in Ids \ gaveUp, NEW e \in ExtSet
               PROVE  /\ id \in peers => got[id][e] \in {0, conn[id]}
                      /\ pend[e][id] # 0 =>
                            pend[e][id] = conn[id] /\ eth[id].at \in {"start", "wait", "select"}
    BY DEF ExtensionsAlive
  <2>1. Present(id) /\ Leaves(id)
    BY DEF Inv, PeerInv
  <2>2. got[id][e] \in {0, conn[id]} /\ pend[e][id] \in {0, conn[id]}
    BY <2>1, Zenon DEF Present
  <2>3. pend[e][id] # 0 => eth[id].at \in Waiting \cup {"start", "wait"}
    BY <2>1, Zenon DEF Present, Ahead
  <2>4. eth[id].at \notin {"late", "retry", "quit"}
    BY <2>1 DEF Leaves
  <2> QED
    BY <2>2, <2>3, <2>4, Zenon DEF Waiting
<1>2. Spec => []Inv
  BY Invariance
<1> QED
  BY <1>1, <1>2, PTL

-------------------------------------------------------------------------------
(* The counts *)

\* The number of elements of a set of peers, and that there is one.
Size(S) == Cardinality(S)
Finite(S) == IsFiniteSet(S)

\* The peers that snapPeers and peersPerIP count.
Snappers == {id \in peers : "snap" \in ExtSet /\ got[id]["snap"] # 0}
Admitted == {id \in Ids \ trusted : IsAdmitted(id)}

Counts ==
    /\ snapPeers = Size(Snappers) /\ perIP \in Nat
    /\ "unset" \notin flips => perIP >= Size(Admitted)
    /\ flips = {} /\ stopping # "closed" => perIP = Size(Admitted)

\* A step that moves no peer into or out of the set, nor to its admission.
SameStanding ==
    \A j \in Ids : /\ j \in peers' <=> j \in peers
                   /\ eth'[j].at = "register" <=> eth[j].at = "register"
                   /\ j \in peers => got'[j] = got[j]

\* What the proofs use of the number of elements of a set of peers.
SizeFits ==
    /\ Size({}) = 0
    /\ \A S \in SUBSET Ids : Size(S) \in Nat
    /\ \A S, T \in SUBSET Ids : S \subseteq T => Size(S) <= Size(T)
    /\ \A S \in SUBSET Ids, x \in Ids :
          Size(S \cup {x}) = IF x \in S THEN Size(S) ELSE Size(S) + 1
    /\ \A S \in SUBSET Ids, x \in Ids :
          Size(S \ {x}) = IF x \in S THEN Size(S) - 1 ELSE Size(S)

\* The counts are numbers.
LEMMA CountedSets ==
    ASSUME SizeFits, Inv
    PROVE  /\ Snappers \in SUBSET Ids /\ Size(Snappers) \in Nat
           /\ Admitted \in SUBSET Ids /\ Size(Admitted) \in Nat
<1>1. Snappers \in SUBSET Ids /\ Admitted \in SUBSET Ids
  BY DEF Inv, TypeOK, Snappers, Admitted, IsAdmitted
<1> QED
  BY <1>1, Zenon DEF SizeFits

\* Such a step leaves the counts right.
LEMMA StandingKeeps ==
    ASSUME SizeFits, Inv, Inv', Counts, SameStanding,
           snapPeers' = snapPeers, perIP' = perIP, trusted' = trusted, flips' = flips,
           stopping = "closed" => stopping' = "closed"
    PROVE  Counts'
<1>1. Snappers' = Snappers
  BY Zenon DEF SameStanding, Snappers, Inv, TypeOK
<1>2. Admitted' = Admitted
  BY DEF SameStanding, Admitted, IsAdmitted
<1> QED
  BY <1>1, <1>2, Zenon DEF Counts

\* A change of the trusted flag: of a peer that is not admitted it changes nothing, and
\* of one that is, it is remembered.
LEMMA FlipCounts ==
    ASSUME SizeFits, Inv, Inv', Counts, NEW id \in Ids, SetTrusted(id) \/ UnsetTrusted(id)
    PROVE  Counts'
<1>1. UNCHANGED <<eth, got, peers, snapPeers, perIP, stopping>>
  BY Zenon DEF SetTrusted, UnsetTrusted, setVars
<1>2. Snappers' = Snappers
  BY <1>1, Zenon DEF Snappers
<1>3. CASE ~IsAdmitted(id)
  <2>1. flips' = flips /\ (trusted' = trusted \cup {id} \/ trusted' = trusted \ {id})
    BY <1>3, Zenon DEF SetTrusted, UnsetTrusted
  <2>2. \A j \in Ids : IsAdmitted(j)' <=> IsAdmitted(j)
    BY <1>1, Zenon DEF IsAdmitted
  <2>3. Admitted' = Admitted
    BY <1>3, <2>1, <2>2, Zenon DEF Admitted
  <2> QED
    BY <1>1, <1>2, <2>1, <2>3, Zenon DEF Counts
<1>4. CASE IsAdmitted(id) /\ SetTrusted(id)
  <2>1. flips' = flips \cup {"set"} /\ trusted' = trusted \cup {id}
    BY <1>4, Zenon DEF SetTrusted
  <2>2. Admitted' \in SUBSET Admitted
    BY <1>1, <2>1, Zenon DEF Admitted, IsAdmitted
  <2>3. Size(Admitted) \in Nat /\ Size(Admitted') \in Nat /\ Size(Admitted') <= Size(Admitted)
    BY <2>2, CountedSets, ZenonT(30) DEF SizeFits
  <2>4. "unset" \in flips' <=> "unset" \in flips
    BY <2>1
  <2>5. "unset" \notin flips' => perIP' >= Size(Admitted')
    BY <1>1, <2>3, <2>4, SMTT(20) DEF Counts
  <2> QED
    BY <1>1, <1>2, <2>1, <2>5, Zenon DEF Counts
<1>5. CASE IsAdmitted(id) /\ UnsetTrusted(id)
  <2>1. flips' = flips \cup {"unset"}
    BY <1>5, Zenon DEF UnsetTrusted
  <2> QED
    BY <1>1, <1>2, <2>1, Zenon DEF Counts
<1> QED
  BY <1>3, <1>4, <1>5, Zenon

\* eth of a peer goes from one place to another, neither of which is counted.
LEMMA PlainMove ==
    ASSUME Inv, NEW id \in Ids, eth[id].at \notin {"register", "running"},
           \A j \in Ids \ {id} : eth'[j] = eth[j] /\ got'[j] = got[j],
           eth'[id].at # "register", peers' = peers
    PROVE  SameStanding
<1>1. id \notin peers
  BY DEF Inv, PeerInv, Registered
<1> QED
  BY <1>1, Zenon DEF SameStanding

\* The steps that admit no peer, register none and unregister none.
LEMMA OtherCounts ==
    ASSUME ConstantsFit, SizeFits, Inv, Inv', Counts, [Next]_vars,
           \A id \in Ids : ~Admit(id) /\ ~RegisterPeer(id) /\ ~UnregisterPeer(id)
    PROVE  Counts'
<1>t. TypeOK
  BY DEF Inv
<1>0. /\ eth \in [Ids -> [at : Places, i : 0 .. Len(Exts)]] /\ got \in [Ids -> [ExtSet -> Nat]]
      /\ 0 \in 0 .. Len(Exts)
  BY <1>t, SMTT(20) DEF TypeOK, ConstantsFit
<1>1. ASSUME UNCHANGED <<eth, got, peers>> PROVE SameStanding
  BY <1>1 DEF SameStanding
<1>2. ASSUME NEW id \in Ids, NEW at \in Places \ {"register"}, Goto(id, at),
             eth[id].at \notin {"register", "running"}, peers' = peers, got' = got
      PROVE  SameStanding
  BY <1>t, <1>2, GotoFacts, PlainMove, ZenonT(30)
<1>3. ASSUME NEW id \in Ids, NEW r, r.at # "register", eth' = [eth EXCEPT ![id] = r],
             eth[id].at \notin {"register", "running"}, peers' = peers,
             \A j \in Ids \ {id} : got'[j] = got[j]
      PROVE  SameStanding
  BY <1>0, <1>3, PlainMove, Zenon
<1>4. \A id \in Ids, k \in 0 .. Len(Exts) : After(id, k).at # "register"
  BY AfterFacts, ZenonT(30)
<1>5. \A id \in Ids : eth[id].i \in 0 .. Len(Exts)
  BY <1>0
<1>6. {"select", "retry", "late", "quit", "done"} \subseteq Places \ {"register"}
  BY Zenon DEF Places, Waiting
<1>7. ASSUME NEW id \in Ids, NEW cs \in SUBSET ExtSet, Connect(id, cs) PROVE Counts'
  <2>1. /\ eth' = [eth EXCEPT ![id] = [at |-> "start", i |-> 0]]
        /\ got' = [got EXCEPT ![id] = [e \in ExtSet |-> 0]]
        /\ eth[id].at = "done"
        /\ UNCHANGED <<peers, snapPeers, perIP, trusted, flips, stopping>>
    BY <1>7, Zenon DEF Connect
  <2>2. SameStanding
    BY <1>0, <1>3, <2>1, Zenon
  <2> QED
    BY <2>1, <2>2, StandingKeeps
<1>8. ASSUME NEW id \in Ids, WaitExtension(id) PROVE Counts'
  <2>1. /\ UNCHANGED <<peers, snapPeers, perIP, trusted, flips, stopping>>
        /\ eth[id].at = "wait"
        /\ \/ Goto(id, "done") /\ got' = got
           \/ Goto(id, "select") /\ got' = got
           \/ /\ eth' = [eth EXCEPT ![id] = After(id, eth[id].i)]
              /\ got' = [got EXCEPT ![id][Current(id)] = pend[Current(id)][id]]
    BY <1>8, Zenon DEF WaitExtension, EthFails
  <2>2. \A j \in Ids \ {id} : got'[j] = got[j]
    BY <1>0, <2>1
  <2>3. SameStanding
    BY <1>2, <1>3, <1>4, <1>5, <1>6, <2>1, <2>2, Zenon
  <2> QED
    BY <2>1, <2>3, StandingKeeps, Zenon
<1>9. ASSUME NEW id \in Ids, NEW e \in ExtSet, Receive(id, e) PROVE Counts'
  <2>1. /\ UNCHANGED <<peers, snapPeers, perIP, trusted, flips, stopping>>
        /\ eth[id].at \in {"select", "retry"}
        /\ \/ Goto(id, "done") /\ got' = got
           \/ /\ eth' = [eth EXCEPT ![id] = After(id, eth[id].i)]
              /\ got' = [got EXCEPT ![id][e] = IF ext[id][e] = "sends" THEN conn[id] ELSE 0]
    BY <1>9, Zenon DEF Receive, Goto
  <2>2. \A j \in Ids \ {id} : got'[j] = got[j]
    BY <1>0, <2>1, Zenon
  <2>3. SameStanding
    BY <1>2, <1>3, <1>4, <1>5, <1>6, <2>1, <2>2, Zenon
  <2> QED
    BY <2>1, <2>3, StandingKeeps
<1>10. ASSUME NEW id \in Ids,
              StartEth(id) \/ RefuseEth(id) \/ Timeout(id) \/ Quit(id) \/ GiveUp(id) \/ Reject(id)
       PROVE  Counts'
  <2>1. /\ UNCHANGED <<got, peers, snapPeers, perIP, trusted, flips, stopping>>
        /\ eth[id].at \notin {"register", "running"}
    BY <1>10, ZenonT(30) DEF StartEth, RefuseEth, Timeout, Quit, GiveUp, Reject, setVars
  <2>2. CASE StartEth(id)
    <3>1. eth' = [eth EXCEPT ![id] = After(id, 0)]
      BY <2>2, Zenon DEF StartEth
    <3>2. SameStanding
      BY <1>0, <1>3, <1>4, <2>1, <3>1, Zenon
    <3> QED
      BY <2>1, <3>2, StandingKeeps
  <2>3. CASE RefuseEth(id) \/ Timeout(id) \/ Quit(id) \/ GiveUp(id) \/ Reject(id)
    <3>1. \E at \in {"retry", "late", "quit", "done"} : Goto(id, at)
      BY <2>3, Zenon DEF RefuseEth, Timeout, Quit, GiveUp, Reject, EthFails
    <3>2. SameStanding
      BY <1>2, <1>6, <2>1, <3>1, ZenonT(30)
    <3> QED
      BY <2>1, <3>2, StandingKeeps
  <2> QED
    BY <1>10, <2>2, <2>3, ZenonT(30)
<1>11. ASSUME NEW id \in Ids, NEW e \in ExtSet,
              RefuseExt(id, e) \/ RegisterExtension(id, e) \/ EndExtension(id, e)
       PROVE  Counts'
  <2>1. UNCHANGED <<eth, got, peers, snapPeers, perIP, trusted, flips, stopping>>
    BY <1>11, Zenon DEF RefuseExt, RegisterExtension, EndExtension, setVars
  <2> QED
    BY <1>1, <2>1, StandingKeeps, ZenonT(30)
<1>12. ASSUME NEW id \in Ids, Disconnect(id) \/ FailHandshake(id) PROVE Counts'
  <2>1. UNCHANGED <<eth, got, peers, snapPeers, perIP, trusted, flips, stopping>>
    BY <1>12, Zenon DEF Disconnect, FailHandshake, setVars
  <2> QED
    BY <1>1, <2>1, StandingKeeps
<1>14. ASSUME NEW id \in Ids, SetTrusted(id) \/ UnsetTrusted(id) PROVE Counts'
  BY <1>14, FlipCounts, Zenon
<1>13. CASE Stop \/ Close \/ UNCHANGED vars
  <2>1. /\ UNCHANGED <<eth, got, peers, snapPeers, perIP, trusted, flips>>
        /\ stopping = "closed" => stopping' = "closed"
    BY <1>13, ZenonT(30) DEF Stop, Close, vars, setVars
  <2> QED
    BY <1>1, <2>1, StandingKeeps, Zenon
<1> QED
  BY <1>7, <1>8, <1>9, <1>10, <1>11, <1>12, <1>13, <1>14, Zenon DEF Next

\* A peer is admitted: peersPerIP goes up unless the peer is trusted.
LEMMA AdmitCounts ==
    ASSUME SizeFits, Inv, Counts, NEW id \in Ids, Admit(id)
    PROVE  Counts'
<1>t. TypeOK
  BY Zenon DEF Inv
<1>1. /\ eth[id].at = "handshake" /\ Goto(id, "register")
      /\ perIP' = (IF id \in trusted THEN perIP ELSE perIP + 1)
      /\ UNCHANGED <<got, peers, snapPeers, trusted, flips, stopping>>
  BY Zenon DEF Admit, setVars
<1>2. id \notin peers
  BY <1>1, Zenon DEF Inv, PeerInv, Registered
<1>3. /\ \A j \in Ids \ {id} : eth'[j] = eth[j]
      /\ eth'[id].at = "register"
  BY <1>t, <1>1, GotoFacts, Zenon DEF Places, Waiting
<1>4. Snappers' = Snappers
  BY <1>1 DEF Snappers
<1>5. id \in trusted => Admitted' = Admitted
  BY <1>1, <1>3, Zenon DEF Admitted, IsAdmitted
<1>6. id \notin trusted => Admitted' = Admitted \cup {id} /\ id \notin Admitted
  BY <1>1, <1>2, <1>3, Zenon DEF Admitted, IsAdmitted
<1>7. id \notin trusted => Size(Admitted') = Size(Admitted) + 1
  BY <1>6, CountedSets, ZenonT(30) DEF SizeFits
<1>8. Size(Admitted) \in Nat
  BY CountedSets
<1> QED
  BY <1>1, <1>4, <1>5, <1>7, <1>8, SMTT(30) DEF Counts

\* registerPeer: the admitted peer joins the set, or fails because that is closed.
LEMMA RegisterCounts ==
    ASSUME SizeFits, Inv, Counts, NEW id \in Ids, RegisterPeer(id)
    PROVE  Counts'
<1>t. TypeOK
  BY DEF Inv
<1>1. eth[id].at = "register" /\ UNCHANGED <<got, perIP, trusted, flips, stopping>>
  BY Zenon DEF RegisterPeer
<1>2. id \notin peers
  BY <1>1, Zenon DEF Inv, PeerInv, Registered
<1>8. /\ Snappers \in SUBSET Ids /\ Size(Snappers) \in Nat
      /\ Admitted \in SUBSET Ids /\ Size(Admitted) \in Nat
  BY CountedSets, Zenon
<1>3. CASE stopping = "closed"
  <2>1. Goto(id, "done") /\ UNCHANGED <<peers, snapPeers>>
    BY <1>3, Zenon DEF RegisterPeer, EthFails
  <2>2. (\A j \in Ids \ {id} : eth'[j] = eth[j]) /\ eth'[id].at = "done"
    BY <1>t, <2>1, GotoFacts, ZenonT(30) DEF Places, Waiting
  <2>3. Snappers' = Snappers /\ Admitted' \in SUBSET Admitted
    BY <1>1, <2>1, <2>2, Zenon DEF Snappers, Admitted, IsAdmitted
  <2>4. Size(Admitted') \in Nat /\ Size(Admitted') <= Size(Admitted)
    BY <1>8, <2>3, ZenonT(30) DEF SizeFits
  <2> QED
    BY <1>1, <1>3, <1>8, <2>1, <2>3, <2>4, SMTT(20) DEF Counts
<1>4. CASE stopping # "closed"
  <2>1. /\ Goto(id, "running") /\ peers' = peers \cup {id}
        /\ snapPeers' = IF "snap" \in ExtSet /\ got[id]["snap"] # 0 THEN snapPeers + 1 ELSE snapPeers
    BY <1>2, <1>4, Zenon DEF RegisterPeer
  <2>2. (\A j \in Ids \ {id} : eth'[j] = eth[j]) /\ eth'[id].at = "running"
    BY <1>t, <2>1, GotoFacts DEF Places, Waiting
  <2>3. Admitted' = Admitted
    BY <1>1, <2>1, <2>2, Zenon DEF Admitted, IsAdmitted
  <2>4. CASE "snap" \in ExtSet /\ got[id]["snap"] # 0
    <3>1. Snappers' = Snappers \cup {id} /\ id \notin Snappers
      BY <1>1, <1>2, <2>1, <2>4, ZenonT(30) DEF Snappers
    <3>2. Size(Snappers') = Size(Snappers) + 1
      BY <1>8, <3>1 DEF SizeFits
    <3> QED
      BY <1>1, <2>1, <2>3, <2>4, <3>2, Zenon DEF Counts
  <2>5. CASE ~("snap" \in ExtSet /\ got[id]["snap"] # 0)
    <3>1. Snappers' = Snappers
      BY <1>1, <1>2, <2>1, <2>5 DEF Snappers
    <3> QED
      BY <1>1, <2>1, <2>3, <2>5, <3>1, Zenon DEF Counts
  <2> QED
    BY <2>4, <2>5
<1> QED
  BY <1>3, <1>4, Zenon

\* unregisterPeer: the peer leaves the set, and the counts go down with it.
LEMMA UnregisterCounts ==
    ASSUME SizeFits, Inv, Counts, NEW id \in Ids, UnregisterPeer(id)
    PROVE  Counts'
<1>t. TypeOK
  BY DEF Inv
<1>1. /\ eth[id].at = "running" /\ Goto(id, "done") /\ peers' = peers \ {id}
      /\ snapPeers' = (IF "snap" \in ExtSet /\ got[id]["snap"] # 0 THEN snapPeers - 1 ELSE snapPeers)
      /\ perIP' = (IF id \in trusted \/ perIP = 0 THEN perIP ELSE perIP - 1)
      /\ UNCHANGED <<got, trusted, flips, stopping>>
  BY DEF UnregisterPeer
<1>2. id \in peers
  BY <1>1, Zenon DEF Inv, PeerInv, Registered
<1>3. (\A j \in Ids \ {id} : eth'[j] = eth[j]) /\ eth'[id].at = "done"
  BY <1>t, <1>1, GotoFacts, Zenon DEF Places, Waiting
<1>4. /\ Snappers \in SUBSET Ids /\ Size(Snappers) \in Nat
      /\ Admitted \in SUBSET Ids /\ Size(Admitted) \in Nat
  BY CountedSets
<1>5. snapPeers' = Size(Snappers')
  <2>1. CASE "snap" \in ExtSet /\ got[id]["snap"] # 0
    <3>1. Snappers' = Snappers \ {id} /\ id \in Snappers
      BY <1>1, <1>2, <2>1, ZenonT(30) DEF Snappers
    <3>2. Size(Snappers') = Size(Snappers) - 1
      BY <1>4, <3>1 DEF SizeFits
    <3> QED
      BY <1>1, <1>4, <2>1, <3>2, ZenonT(30) DEF Counts
  <2>2. CASE ~("snap" \in ExtSet /\ got[id]["snap"] # 0)
    <3>1. Snappers' = Snappers
      BY <1>1, <2>2, Zenon DEF Snappers
    <3> QED
      BY <1>1, <2>2, <3>1, Zenon DEF Counts
  <2> QED
    BY <2>1, <2>2, Zenon
<1>6. CASE id \in trusted
  <2>1. Admitted' = Admitted
    BY <1>1, <1>3, <1>6, Zenon DEF Admitted, IsAdmitted
  <2> QED
    BY <1>1, <1>5, <1>6, <2>1, Zenon DEF Counts
<1>7. CASE id \notin trusted
  <2>1. Admitted' = Admitted \ {id} /\ id \in Admitted
    BY <1>1, <1>2, <1>3, <1>7, Zenon DEF Admitted, IsAdmitted
  <2>2. Size(Admitted') = Size(Admitted) - 1 /\ Size(Admitted') \in Nat
    BY <1>4, <2>1 DEF SizeFits
  <2>3. perIP \in Nat /\ ("unset" \notin flips => perIP >= Size(Admitted))
        /\ (flips = {} /\ stopping # "closed" => perIP = Size(Admitted))
    BY Zenon DEF Counts
  <2>4. perIP' \in Nat /\ (perIP # 0 => perIP' = perIP - 1)
    BY <1>1, <1>7, <2>3, SMTT(20)
  <2>5. "unset" \notin flips' => perIP' >= Size(Admitted')
    BY <1>1, <1>4, <2>2, <2>3, <2>4, SMTT(20)
  <2>6. flips' = {} /\ stopping' # "closed" => perIP' = Size(Admitted')
    BY <1>1, <1>4, <2>2, <2>3, <2>4, SMTT(20)
  <2> QED
    BY <1>5, <2>4, <2>5, <2>6, Zenon DEF Counts
<1> QED
  BY <1>6, <1>7, Zenon

\* Nothing is counted at the start.
LEMMA CountsInit ==
    ASSUME SizeFits, Init
    PROVE  Counts
<1>1. /\ peers = {} /\ snapPeers = 0 /\ perIP = 0
      /\ \A id \in Ids : eth[id].at # "register"
  BY DEF Init
<1>2. Snappers = {}
  BY <1>1, Zenon DEF Snappers
<1>3. Admitted = {}
  BY <1>1, Zenon DEF Admitted, IsAdmitted
<1>4. Size(Snappers) = 0 /\ Size(Admitted) = 0
  BY <1>2, <1>3, ZenonT(30) DEF SizeFits
<1> QED
  BY <1>1, <1>4, SMTT(20) DEF Counts

\* The counts stay right.
LEMMA CountsAlways ==
    ASSUME ConstantsFit, SizeFits
    PROVE  Spec => []PeersCounted
<1>1. Init => Counts
  BY CountsInit
<1>2. Inv /\ Inv' /\ Counts /\ [Next]_vars => Counts'
  BY OtherCounts, AdmitCounts, RegisterCounts, UnregisterCounts, Zenon
<1>3. Counts => PeersCounted
  BY DEF Counts, PeersCounted, Snappers, Admitted, Size
<1>4. Spec => []Inv
  BY Invariance
<1> QED
  BY <1>1, <1>2, <1>3, <1>4, PTL DEF Spec

\* The definitions of the two, to know them again in the module that has the theorems
\* about finite sets: the provers keep the operators of an instance apart.
LEMMA SizeIs ==
    ASSUME NEW S
    PROVE  Size(S) = LET CS[T \in SUBSET S] == IF T = {} THEN 0 ELSE 1 + CS[T \ {CHOOSE x : x \in T}]
                     IN CS[S]
BY Zenon DEF Size, Cardinality

\* The same of being finite.
LEMMA FiniteIs ==
    ASSUME NEW S
    PROVE  Finite(S) <=> \E seq \in Seq(S) : \A s \in S : \E n \in 1 .. Len(seq) : seq[n] = s
BY Zenon DEF Finite, IsFiniteSet

\* The peers are finitely many.
LEMMA FinitePeers ==
    ASSUME ConstantsFit
    PROVE  Finite(Ids)
BY DEF ConstantsFit, Finite

LOCAL INSTANCE FiniteSetTheorems

\* snapPeers and peersPerIP count what they are there to count, however the
\* goroutines of eth and of the satellites interleave: snapPeers the registered
\* peers with snap, peersPerIP no fewer than the admitted peers that are not trusted
\* while none of them has lost its flag after it was admitted, and exactly them
\* while no flag of an admitted peer has changed and the set is not closed.
THEOREM PeersAlwaysCounted ==
    ASSUME ConstantsFit
    PROVE  Spec => []PeersCounted
<1>1. ASSUME NEW S PROVE Size(S) = Cardinality(S)
  BY SizeIs, Zenon DEF Cardinality
<1>2. ASSUME NEW S PROVE Finite(S) <=> IsFiniteSet(S)
  BY FiniteIs, Zenon DEF IsFiniteSet
<1>3. IsFiniteSet(Ids)
  BY <1>2, FinitePeers, Zenon
<1>4. \A S \in SUBSET Ids : IsFiniteSet(S) /\ Size(S) = Cardinality(S) /\ Size(S) \in Nat
  BY <1>1, <1>3, FS_Subset, FS_CardinalityType, ZenonT(30)
<1>5. Size({}) = 0
  BY <1>1, FS_EmptySet, ZenonT(30)
<1>6. \A S, T \in SUBSET Ids : S \subseteq T => Size(S) <= Size(T)
  BY <1>4, FS_Subset, ZenonT(30)
<1>7. ASSUME NEW S \in SUBSET Ids, NEW x \in Ids
      PROVE  /\ Size(S \cup {x}) = IF x \in S THEN Size(S) ELSE Size(S) + 1
             /\ Size(S \ {x}) = IF x \in S THEN Size(S) - 1 ELSE Size(S)
  BY <1>4, FS_AddElement, FS_RemoveElement, SMTT(20)
<1>8. SizeFits
  BY <1>4, <1>5, <1>6, <1>7, Zenon DEF SizeFits
<1> QED
  BY <1>8, CountsAlways, ZenonT(30)
===============================================================================
