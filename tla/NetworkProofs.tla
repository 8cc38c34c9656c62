---------------------------- MODULE NetworkProofs ----------------------------
(***************************************************************************)
(* The simulated network: links have two ends; a validator that does its   *)
(* part is not struck in a topology nobody else changed; gossip goes the   *)
(* other way round a ring that lost a validator; a message of an honest    *)
(* validator is neither lost nor doubled.  All of it for every set of      *)
(* validators and any number of calls, strikes and retries.                *)
(***************************************************************************)
EXTENDS Network, PowerProofs

\* Links with two ends, and none of a validator to itself.
TwoEnded(links) ==
  \A v, w \in Nodes : v \notin links[v] /\ (w \in links[v] <=> v \in links[w])

\* Senders and those a strike may go to are validators.
TrafficOK ==
  /\ \A e \in BagToSet(messages) : e.from \in Nodes
  /\ BagToSet(accused) \subseteq Nodes

LinksInv ==
  /\ peers \in [Nodes -> SUBSET Nodes]
  /\ TwoEnded(peers)
  /\ TrafficOK
-----------------------------------------------------------------------------
\* What (+) and (-) do to the members of a bag.
LEMMA AddedMembers ==
  ASSUME NEW bag, NEW S
  PROVE  BagToSet(bag (+) SetToBag(S)) = BagToSet(bag) \cup S
  BY DEF BagToSet, SetToBag, (+)

LEMMA RemovedMembers ==
  ASSUME NEW bag, NEW S
  PROVE  BagToSet(bag (-) SetToBag(S)) \subseteq BagToSet(bag)
  BY DEF BagToSet, SetToBag, (-)

LEMMA NoMembers == BagToSet(EmptyBag) = {}
  BY DEF BagToSet, EmptyBag, SetToBag

\* setPeersLocked and disconnectLocked keep both ends of every link.
LEMMA SetPeersTwoEnded ==
  ASSUME NEW links \in [Nodes -> SUBSET Nodes], TwoEnded(links),
         NEW id \in Nodes, NEW list \in SUBSET Nodes
  PROVE  /\ SetPeers(links, id, list) \in [Nodes -> SUBSET Nodes]
         /\ TwoEnded(SetPeers(links, id, list))
  BY DEF SetPeers, TwoEnded

LEMMA RemoveTwoEnded ==
  ASSUME NEW links \in [Nodes -> SUBSET Nodes], TwoEnded(links), NEW id \in Nodes
  PROVE  /\ Remove(links, id) \in [Nodes -> SUBSET Nodes]
         /\ TwoEnded(Remove(links, id))
  BY DEF Remove, TwoEnded

LEMMA SetUpTwoEnded ==
  /\ SetUp \in [Nodes -> SUBSET Nodes]
  /\ TwoEnded(SetUp)
  BY NodesAssumption DEF SetUp, TwoEnded

LEMMA MisbehaviorLinks ==
  ASSUME LinksInv, NEW v \in Nodes, RecordMisbehavior(v)
  PROVE  peers' \in [Nodes -> SUBSET Nodes] /\ TwoEnded(peers')
  BY RemoveTwoEnded DEF LinksInv, RecordMisbehavior

\* A call of Broadcast or Unicast adds messages of its caller.
LEMMA SendTraffic ==
  ASSUME TrafficOK, NEW from \in Nodes, NEW reach, NEW signed, Send(from, reach, signed)
  PROVE  \A e \in BagToSet(messages)' : e.from \in Nodes
  BY AddedMembers DEF TrafficOK, Send

LEMMA DeliverTraffic ==
  ASSUME TrafficOK, NEW e \in BagToSet(messages), Deliver(e)
  PROVE  TrafficOK'
  <1> DEFINE rest == messages (-) SetToBag({e})
  <1>1. BagToSet(rest) \subseteq BagToSet(messages)
    BY RemovedMembers
  <1>2. e.from \in Nodes /\ Retried(e).from = e.from
    BY DEF TrafficOK, Retried
  <1>3. \A m \in BagToSet(messages') : m.from \in Nodes
    <2>1. CASE messages' = rest
      BY <1>1, <2>1 DEF TrafficOK
    <2>2. CASE messages' = rest (+) SetToBag({Retried(e)})
      BY <1>1, <1>2, <2>2, AddedMembers DEF TrafficOK
    <2> QED BY <2>1, <2>2 DEF Deliver
  <1>4. BagToSet(accused') \subseteq Nodes
    <2>1. CASE UNCHANGED accused
      BY <2>1 DEF TrafficOK
    <2>2. CASE accused' = accused (+) SetToBag({Offender(e)})
      BY <1>2, <2>2, AddedMembers DEF TrafficOK, Offender
    <2> QED BY <2>1, <2>2 DEF Deliver
  <1> QED BY <1>3, <1>4 DEF TrafficOK

LEMMA LinksNext ==
  ASSUME LinksInv, [Next]_vars
  PROVE  LinksInv'
  <1> USE DEF LinksInv
  <1>1. ASSUME NEW e \in BagToSet(messages), Deliver(e)
        PROVE  LinksInv'
    BY <1>1, DeliverTraffic DEF Deliver, registry
  <1>2. ASSUME NEW v \in BagToSet(accused), Punish(v)
        PROVE  LinksInv'
    <2>1. v \in Nodes /\ RecordMisbehavior(v)
      BY <1>2 DEF Punish, TrafficOK
    <2>2. TrafficOK'
      BY <1>2, RemovedMembers DEF Punish, TrafficOK
    <2> QED BY <2>1, <2>2, MisbehaviorLinks
  <1>3. ASSUME NEW e \in BagToSet(verified), PutIntoInbox(e)
        PROVE  LinksInv'
    BY <1>3 DEF PutIntoInbox, registry, TrafficOK
  <1>4. ASSUME NEW id \in Nodes, NEW list \in NewLists, UpdatePeers(id, list)
        PROVE  LinksInv'
    BY <1>4, NodesAssumption, SetPeersTwoEnded DEF UpdatePeers, traffic, TrafficOK
  <1>5. ASSUME NEW id \in Nodes, NEW list \in NewLists, NEW withKey \in BOOLEAN,
               Register(id, list, withKey)
        PROVE  LinksInv'
    BY <1>5, NodesAssumption, SetPeersTwoEnded DEF Register, traffic, TrafficOK
  <1>6. ASSUME NEW from \in Nodes, NEW signed \in BOOLEAN, Broadcast(from, signed)
        PROVE  LinksInv'
    BY <1>6, SendTraffic DEF Broadcast, registry, TrafficOK
  <1>7. ASSUME NEW from \in Nodes, NEW to \in Nodes, NEW signed \in BOOLEAN,
               Unicast(from, to, signed)
        PROVE  LinksInv'
    <2>1. UNCHANGED peers
      BY <1>7 DEF Unicast, registry
    <2>2. CASE Send(from, {to}, signed) /\ UNCHANGED accused
      BY <2>1, <2>2, SendTraffic DEF TrafficOK
    <2>3. CASE accused' = accused (+) SetToBag({from}) /\ UNCHANGED messages
      BY <2>1, <2>3, AddedMembers DEF TrafficOK
    <2> QED BY <1>7, <2>2, <2>3 DEF Unicast
  <1>8. ASSUME NEW reporter \in Nodes, NEW offender \in Nodes,
               ReportMisbehavior(reporter, offender)
        PROVE  LinksInv'
    BY <1>8, MisbehaviorLinks DEF ReportMisbehavior, traffic, TrafficOK
  <1>9. CASE UNCHANGED vars
    BY <1>9 DEF vars, registry, traffic, TrafficOK
  <1> QED BY <1>1, <1>2, <1>3, <1>4, <1>5, <1>6, <1>7, <1>8, <1>9 DEF Next, Work

\* Whatever is registered, rewired or cut off, links have two ends (setPeersLocked,
\* disconnectLocked).
THEOREM LinksHaveTwoEnds == Spec => []LinksSymmetric
  <1>1. Init => LinksInv
    BY SetUpTwoEnded, NoMembers DEF Init, LinksInv, TrafficOK
  <1>2. LinksInv /\ [Next]_vars => LinksInv'
    BY LinksNext
  <1>3. LinksInv => LinksSymmetric
    BY DEF LinksInv, TwoEnded, LinksSymmetric
  <1> QED BY <1>1, <1>2, <1>3, PTL DEF Spec
-----------------------------------------------------------------------------
\* Somebody else changed its links or was cut off.
Elsewhere(v) == (out \cup relinked) \ {v} # {}

\* What an honest validator that has been struck must be able to point at: it signs, its
\* key is known while it has not been cut off, and its peers are linked to it while
\* nobody else did anything.
HonestInv ==
  \A v \in Honest :
    /\ v \in out => strikeCount[v] > 0
    /\ v \in pubKeys \cup out
    /\ strikeCount[v] > 0 \/ v \in BagToSet(accused) => Elsewhere(v)
    /\ Elsewhere(v) \/ configured[v] \ {v} \subseteq peers[v]
    /\ \A e \in BagToSet(messages) : e.from = v => e.signed

StrikeInv ==
  /\ LinksInv
  /\ strikeCount \in [Nodes -> Nat]
  /\ configured \in [Nodes -> SUBSET Nodes]
  /\ HonestInv

\* A strike is counted against somebody who deserved it or can point at somebody else.
LEMMA MisbehaviorHonest ==
  ASSUME StrikeInv, NEW v \in Nodes, RecordMisbehavior(v), v \in Honest => Elsewhere(v),
         BagToSet(accused') \subseteq BagToSet(accused),
         UNCHANGED <<messages, configured, relinked>>
  PROVE  HonestInv' /\ strikeCount' \in [Nodes -> Nat]
  <1>1. /\ strikeCount' = [strikeCount EXCEPT ![v] = @ + 1]
        /\ strikeCount \in [Nodes -> Nat]
    BY DEF StrikeInv, RecordMisbehavior
  <1>2. strikeCount' \in [Nodes -> Nat] /\ strikeCount'[v] > 0
    BY <1>1
  <1>3. out \subseteq out' /\ out' \subseteq out \cup {v}
    BY DEF RecordMisbehavior
  <1>4. ASSUME NEW w \in Honest
        PROVE  /\ w \in out' => strikeCount'[w] > 0
               /\ w \in pubKeys' \cup out'
               /\ strikeCount'[w] > 0 \/ w \in BagToSet(accused') => Elsewhere(w)'
               /\ Elsewhere(w)' \/ configured'[w] \ {w} \subseteq peers'[w]
               /\ \A e \in BagToSet(messages') : e.from = w => e.signed
    <2>0. w \in Nodes
      BY NodesAssumption
    <2>1. Elsewhere(w) => Elsewhere(w)'
      BY <1>3 DEF Elsewhere
    <2>2. w \in out' => strikeCount'[w] > 0
      BY <1>1, <1>2, <1>3, <2>0 DEF StrikeInv, HonestInv
    <2>3. w \in pubKeys' \cup out'
      BY DEF StrikeInv, HonestInv, RecordMisbehavior
    <2>4. strikeCount'[w] > 0 \/ w \in BagToSet(accused') => Elsewhere(w)'
      BY <1>1, <2>0, <2>1 DEF StrikeInv, HonestInv
    <2>5. Elsewhere(w)' \/ configured'[w] \ {w} \subseteq peers'[w]
      <3>1. CASE v \in out' /\ v # w
        BY <3>1 DEF Elsewhere
      <3>2. CASE v = w
        BY <2>1, <3>2
      <3>3. CASE v \notin out' /\ v # w
        BY <2>1, <3>3 DEF StrikeInv, HonestInv, RecordMisbehavior
      <3> QED BY <3>1, <3>2, <3>3
    <2> QED BY <2>2, <2>3, <2>4, <2>5 DEF StrikeInv, HonestInv
  <1> QED BY <1>2, <1>4 DEF HonestInv

\* Its messages verify while its key is known.
LEMMA DeliverHonest ==
  ASSUME StrikeInv, NEW e \in BagToSet(messages), Deliver(e)
  PROVE  HonestInv'
  <1> DEFINE rest == messages (-) SetToBag({e})
  <1>1. BagToSet(rest) \subseteq BagToSet(messages)
    BY RemovedMembers
  <1>2. Retried(e).from = e.from /\ Retried(e).signed = e.signed
    BY DEF Retried
  <1>3. UNCHANGED <<registry, calls>>
    BY DEF Deliver
  <1>4. ASSUME NEW v \in Honest, NEW m \in BagToSet(messages'), m.from = v
        PROVE  m.signed
    <2>1. CASE messages' = rest
      BY <1>1, <1>4, <2>1 DEF StrikeInv, HonestInv
    <2>2. CASE messages' = rest (+) SetToBag({Retried(e)})
      <3>1. m \in BagToSet(rest) \/ m = Retried(e)
        BY <1>4, <2>2, AddedMembers
      <3>2. CASE m \in BagToSet(rest)
        BY <1>1, <1>4, <3>2 DEF StrikeInv, HonestInv
      <3>3. CASE m = Retried(e)
        BY <1>2, <1>4, <3>3 DEF StrikeInv, HonestInv
      <3> QED BY <3>1, <3>2, <3>3
    <2> QED BY <2>1, <2>2 DEF Deliver
  <1>5. ASSUME NEW v \in Honest, v \in BagToSet(accused')
        PROVE  Elsewhere(v)
    <2>1. CASE v \in BagToSet(accused)
      BY <2>1 DEF StrikeInv, HonestInv
    <2>2. CASE v \notin BagToSet(accused)
      <3>1. ~Verifies(e) /\ accused' = accused (+) SetToBag({Offender(e)})
        BY <1>5, <2>2 DEF Deliver
      <3>2. v = e.from
        BY <1>5, <2>2, <3>1, AddedMembers DEF Offender
      <3>3. v \notin pubKeys
        BY <3>1, <3>2 DEF Verifies, StrikeInv, HonestInv
      <3> QED BY <3>3 DEF StrikeInv, HonestInv
    <2> QED BY <2>1, <2>2
  <1> QED BY <1>3, <1>4, <1>5 DEF StrikeInv, HonestInv, registry, calls, Elsewhere

\* New links of one validator are news to all others only.
LEMMA RelinkHonest ==
  ASSUME StrikeInv, NEW id \in Nodes, NEW list \in SUBSET Nodes,
         peers' = SetPeers(peers, id, list),
         configured' = [configured EXCEPT ![id] = list],
         relinked' = relinked \cup {id},
         pubKeys \subseteq pubKeys',
         UNCHANGED <<messages, accused, strikeCount, out>>
  PROVE  StrikeInv'
  <1>1. LinksInv'
    BY SetPeersTwoEnded DEF StrikeInv, LinksInv, TrafficOK
  <1>2. ASSUME NEW v \in Honest
        PROVE  /\ Elsewhere(v) => Elsewhere(v)'
               /\ Elsewhere(v)' \/ configured'[v] \ {v} \subseteq peers'[v]
    <2>1. v \in Nodes
      BY NodesAssumption
    <2>2. CASE v = id
      BY <2>1, <2>2 DEF StrikeInv, LinksInv, SetPeers, Elsewhere
    <2>3. CASE v # id
      BY <2>3 DEF Elsewhere
    <2> QED BY <2>2, <2>3
  <1>3. HonestInv'
    BY <1>2 DEF StrikeInv, HonestInv
  <1> QED BY <1>1, <1>3 DEF StrikeInv

LEMMA StrikeNext ==
  ASSUME StrikeInv, [Next]_vars
  PROVE  StrikeInv'
  <1>0. LinksInv'
    BY LinksNext DEF StrikeInv
  <1>1. ASSUME NEW e \in BagToSet(messages), Deliver(e)
        PROVE  StrikeInv'
    BY <1>0, <1>1, DeliverHonest DEF StrikeInv, Deliver, registry, calls
  <1>2. ASSUME NEW v \in BagToSet(accused), Punish(v)
        PROVE  StrikeInv'
    <2>1. v \in Nodes /\ (v \in Honest => Elsewhere(v))
      BY DEF StrikeInv, LinksInv, TrafficOK, HonestInv
    <2>2. BagToSet(accused') \subseteq BagToSet(accused)
      BY <1>2, RemovedMembers DEF Punish
    <2>3. RecordMisbehavior(v) /\ UNCHANGED <<messages, configured, relinked>>
      BY <1>2 DEF Punish, calls
    <2> QED BY <1>0, <2>1, <2>2, <2>3, MisbehaviorHonest DEF StrikeInv
  <1>3. ASSUME NEW e \in BagToSet(verified), PutIntoInbox(e)
        PROVE  StrikeInv'
    BY <1>0, <1>3 DEF PutIntoInbox, registry, calls, StrikeInv, HonestInv, Elsewhere
  <1>4. ASSUME NEW id \in Nodes, NEW list \in NewLists, UpdatePeers(id, list)
        PROVE  StrikeInv'
    BY <1>4, NodesAssumption, RelinkHonest DEF UpdatePeers, traffic
  <1>5. ASSUME NEW id \in Nodes, NEW list \in NewLists, NEW withKey \in BOOLEAN,
               Register(id, list, withKey)
        PROVE  StrikeInv'
    BY <1>5, NodesAssumption, RelinkHonest DEF Register, traffic
  <1>6. ASSUME NEW from \in Nodes, NEW signed \in BOOLEAN, NEW reach,
               Send(from, reach, signed), from \in Honest => signed,
               UNCHANGED <<registry, accused, configured, relinked>>
        PROVE  StrikeInv'
    <2>1. \A e \in BagToSet(messages') :
            e \in BagToSet(messages) \/ (e.from = from /\ e.signed = signed)
      BY <1>6, AddedMembers DEF Send
    <2> QED BY <1>0, <1>6, <2>1 DEF registry, StrikeInv, HonestInv, Elsewhere
  <1>7. ASSUME NEW from \in Nodes, NEW signed \in BOOLEAN, Broadcast(from, signed)
        PROVE  StrikeInv'
    BY <1>6, <1>7 DEF Broadcast
  <1>8. ASSUME NEW from \in Nodes, NEW to \in Nodes, NEW signed \in BOOLEAN,
               Unicast(from, to, signed)
        PROVE  StrikeInv'
    <2>1. CASE to \in peers[from]
      BY <1>6, <1>8, <2>1 DEF Unicast
    <2>2. CASE to \notin peers[from]
      <3>1. BagToSet(accused') = BagToSet(accused) \cup {from}
        BY <1>8, <2>2, AddedMembers DEF Unicast
      <3>2. from \in Honest => Elsewhere(from)
        BY <1>8, <2>2 DEF Unicast, StrikeInv, HonestInv
      <3> QED BY <1>0, <1>8, <2>2, <3>1, <3>2
              DEF Unicast, registry, StrikeInv, HonestInv, Elsewhere
    <2> QED BY <2>1, <2>2
  <1>9. ASSUME NEW reporter \in Nodes, NEW offender \in Nodes,
               ReportMisbehavior(reporter, offender)
        PROVE  StrikeInv'
    BY <1>0, <1>9, MisbehaviorHonest DEF ReportMisbehavior, traffic, StrikeInv
  <1>10. CASE UNCHANGED vars
    BY <1>0, <1>10 DEF vars, registry, traffic, calls, StrikeInv, HonestInv, Elsewhere
  <1> QED BY <1>1, <1>2, <1>3, <1>4, <1>5, <1>7, <1>8, <1>9, <1>10 DEF Next, Work

\* Where links are configured at both ends, as buildRingPeers and buildFullPeers do it,
\* a validator that signs, has registered its key and unicasts to its peers only is not
\* struck unless another one changed its links or was cut off (deliver, Unicast,
\* recordMisbehavior).
THEOREM HonestStruckForOthers ==
  ASSUME \A v, w \in Nodes : v \in PeerList[w] <=> w \in PeerList[v]
  PROVE  Spec => []HonestStruckByStaleLink
  <1>1. Init => StrikeInv
    <2> SUFFICES ASSUME Init PROVE StrikeInv
      OBVIOUS
    <2>1. LinksInv
      BY SetUpTwoEnded, NoMembers DEF Init, LinksInv, TrafficOK
    <2>2. \A v \in Honest : configured[v] \ {v} \subseteq peers[v]
      BY NodesAssumption DEF Init, SetUp
    <2>3. BagToSet(messages) = {} /\ BagToSet(accused) = {}
      BY NoMembers DEF Init
    <2>4. \A v \in Honest : v \in pubKeys /\ v \notin out /\ ~(strikeCount[v] > 0)
      BY NodesAssumption DEF Init
    <2>5. HonestInv
      BY <2>2, <2>3, <2>4 DEF HonestInv
    <2>6. strikeCount \in [Nodes -> Nat] /\ configured \in [Nodes -> SUBSET Nodes]
      BY NodesAssumption DEF Init
    <2> QED BY <2>1, <2>5, <2>6 DEF StrikeInv
  <1>2. StrikeInv /\ [Next]_vars => StrikeInv'
    BY StrikeNext
  <1>3. StrikeInv => HonestStruckByStaleLink
    BY DEF StrikeInv, HonestInv, HonestStruckByStaleLink, Elsewhere, BagIn
  <1> QED BY <1>1, <1>2, <1>3, PTL DEF Spec
-----------------------------------------------------------------------------
\* g starts with S and grows by `grow` at each of n steps.
Grows(g, X, grow, S, n) ==
  /\ g \in [0 .. n -> SUBSET X]
  /\ \A k \in 0 .. n : g[k] = IF k = 0 THEN S ELSE grow[g[k - 1]]

\* A recursive function over 0 .. n exists: the shortest one that did not would be
\* the one before it and one more value.
LEMMA WavesExist ==
  ASSUME NEW X, NEW grow \in [SUBSET X -> SUBSET X], NEW S \in SUBSET X, NEW n \in Nat
  PROVE  \E g : Grows(g, X, grow, S, n)
  <1> DEFINE Waves(g, m) == \A k \in 0 .. m : g[k] = IF k = 0 THEN S ELSE grow[g[k - 1]]
             Has(m) == \E g \in [0 .. m -> SUBSET X] : Waves(g, m)
             Lacking == {m \in Nat : ~Has(m)}
  <1>1. Has(0)
    <2>1. Waves([k \in 0 .. 0 |-> S], 0)
      OBVIOUS
    <2> QED BY <2>1
  <1>2. ASSUME NEW m \in Nat, Has(m)
        PROVE  Has(m + 1)
    <2>1. PICK g \in [0 .. m -> SUBSET X] : Waves(g, m)
      BY <1>2
    <2> DEFINE h == [k \in 0 .. m + 1 |-> IF k = m + 1 THEN grow[g[m]] ELSE g[k]]
    <2>2. h \in [0 .. m + 1 -> SUBSET X]
      OBVIOUS
    <2>3. ASSUME NEW k \in 0 .. m + 1
          PROVE  h[k] = IF k = 0 THEN S ELSE grow[h[k - 1]]
      <3>1. CASE k = m + 1
        <4>1. k # 0 /\ k - 1 = m /\ m # m + 1 /\ m \in 0 .. m + 1
          BY <3>1
        <4> QED BY <3>1, <4>1
      <3>2. CASE k # m + 1
        <4>1. k \in 0 .. m /\ h[k] = g[k]
          BY <3>2
        <4>2. k # 0 => k - 1 \in 0 .. m + 1 /\ k - 1 # m + 1
          BY <4>1
        <4>3. k # 0 => h[k - 1] = g[k - 1]
          BY <4>2
        <4> QED BY <2>1, <4>1, <4>3
      <3> QED BY <3>1, <3>2
    <2> HIDE DEF h
    <2>4. Waves(h, m + 1)
      BY <2>3
    <2> QED BY <2>2, <2>4
  <1> HIDE DEF Has
  <1>3. Lacking = {}
    <2> SUFFICES ASSUME Lacking # {} PROVE FALSE
      OBVIOUS
    <2>1. PICK m \in Lacking : \A k \in Lacking : m <= k
      BY LeastExists
    <2>2. m \in Nat /\ m # 0 /\ ~Has(m)
      BY <1>1
    <2>3. m - 1 \in Nat /\ ~(m <= m - 1)
      BY <2>2
    <2>4. Has(m - 1)
      BY <2>1, <2>3
    <2> QED BY <1>2, <2>2, <2>3, <2>4
  <1>4. Has(n)
    BY <1>3
  <1> QED BY <1>4 DEF Has, Grows
-----------------------------------------------------------------------------
\* What the traversal of Broadcast adds to what it has seen.
Seen(W) == W \cup UNION {peers[v] \cap inboxes : v \in W}

\* Reach follows waves that start with the sender.
LEMMA ReachWaves ==
  ASSUME peers \in [Nodes -> SUBSET Nodes], NEW from \in Nodes
  PROVE  /\ Cardinality(Nodes) \in Nat
         /\ \E g \in [0 .. Cardinality(Nodes) -> SUBSET Nodes] :
              /\ g[0] = {from}
              /\ \A k \in 1 .. Cardinality(Nodes) : g[k] = Seen(g[k - 1])
              /\ Reach(from) = g[Cardinality(Nodes)] \ {from}
  <1> DEFINE n == Cardinality(Nodes)
             Step(h, k) == IF k = 0 THEN {from}
                           ELSE h[k - 1] \cup UNION {peers[v] \cap inboxes : v \in h[k - 1]}
             wave == CHOOSE h : h = [k \in 0 .. n |-> Step(h, k)]
             grow == [W \in SUBSET Nodes |-> Seen(W)]
  <1>1. n \in Nat
    BY NodesAssumption, FS_CardinalityType
  <1>2. grow \in [SUBSET Nodes -> SUBSET Nodes] /\ {from} \in SUBSET Nodes
    BY DEF Seen
  <1>3. \A W \in SUBSET Nodes : grow[W] = Seen(W)
    OBVIOUS
  <1> HIDE DEF grow, n
  <1>4. PICK g \in [0 .. n -> SUBSET Nodes] :
          \A k \in 0 .. n : g[k] = IF k = 0 THEN {from} ELSE grow[g[k - 1]]
    <2>1. \E g : Grows(g, Nodes, grow, {from}, n)
      BY <1>1, <1>2, WavesExist
    <2> QED BY <2>1 DEF Grows
  <1>5. ASSUME NEW k \in 0 .. n, k # 0
        PROVE  g[k] = Seen(g[k - 1])
    <2>1. k - 1 \in 0 .. n
      BY <1>1, <1>5
    <2>2. g[k - 1] \in SUBSET Nodes
      BY <1>4, <2>1
    <2> QED BY <1>3, <1>4, <1>5, <2>2
  <1>6. g = [k \in 0 .. n |-> Step(g, k)]
    <2>1. \A k \in 0 .. n : g[k] = Step(g, k)
      BY <1>4, <1>5 DEF Seen
    <2> QED BY <1>4, <2>1
  <1>7. wave = [k \in 0 .. n |-> Step(wave, k)]
    BY <1>6
  <1>8. Reach(from) = wave[n] \ {from}
    BY DEF Reach, n
  <1> HIDE DEF wave
  <1> DEFINE Apart == {k \in 0 .. n : wave[k] # g[k]}
  <1>9. Apart = {}
    <2> SUFFICES ASSUME Apart # {} PROVE FALSE
      OBVIOUS
    <2>0. Apart \in SUBSET Nat
      BY <1>1
    <2>1. PICK k \in Apart : \A j \in Apart : k <= j
      BY <2>0, LeastExists
    <2>2. k \in 0 .. n /\ wave[k] = Step(wave, k) /\ g[k] = Step(g, k)
      BY <1>6, <1>7
    <2>3. k # 0
      BY <2>2
    <2>4. k - 1 \in 0 .. n /\ ~(k <= k - 1)
      BY <1>1, <2>2, <2>3
    <2>5. wave[k - 1] = g[k - 1]
      BY <2>1, <2>4
    <2> QED BY <2>2, <2>3, <2>5
  <1>10. wave[n] = g[n]
    <2>1. n \in 0 .. n
      BY <1>1
    <2> QED BY <1>9, <2>1
  <1>11. g[0] = {from}
    BY <1>1, <1>4
  <1>12. \A k \in 1 .. n : g[k] = Seen(g[k - 1])
    BY <1>1, <1>5
  <1> QED BY <1>1, <1>4, <1>8, <1>10, <1>11, <1>12 DEF n

LEMMA ReachType ==
  ASSUME peers \in [Nodes -> SUBSET Nodes], NEW from \in Nodes
  PROVE  Reach(from) \in SUBSET Nodes
  <1>1. Cardinality(Nodes) \in 0 .. Cardinality(Nodes)
    BY ReachWaves
  <1> QED BY <1>1, ReachWaves
-----------------------------------------------------------------------------
\* The links that are left join all the validators that are left.
Joined(links, left) ==
  \A W \in SUBSET left :
    W # {} /\ W # left => \E v \in W : \E w \in left \ W : w \in links[v]

\* While gossip has not reached everybody each wave reaches somebody new.
LEMMA ReachAll ==
  ASSUME peers \in [Nodes -> SUBSET Nodes], NEW left \in SUBSET Nodes, inboxes = left,
         Joined(peers, left), NEW from \in left,
         \A v \in left : peers[v] \subseteq left
  PROVE  Reach(from) = left \ {from}
  <1> DEFINE n == Cardinality(Nodes)
  <1>1. n \in Nat
    BY ReachWaves
  <1>2. PICK g \in [0 .. n -> SUBSET Nodes] :
          /\ g[0] = {from}
          /\ \A k \in 1 .. n : g[k] = Seen(g[k - 1])
          /\ Reach(from) = g[n] \ {from}
    BY ReachWaves
  <1>3. IsFiniteSet(Nodes)
    BY NodesAssumption
  <1> DEFINE Fine(k) == /\ from \in g[k] /\ g[k] \subseteq left
                        /\ g[k] = left \/ Cardinality(g[k]) > k
             Bad == {k \in 0 .. n : ~Fine(k)}
  <1>4. Fine(0)
    <2>1. Cardinality({from}) = 1
      BY FS_Singleton
    <2> QED BY <1>2, <2>1
  <1>5. ASSUME NEW k \in 1 .. n, Fine(k - 1)
        PROVE  Fine(k)
    <2> DEFINE W == g[k - 1]
    <2>1. W \in SUBSET Nodes /\ from \in W /\ W \subseteq left
      BY <1>1, <1>5
    <2>2. g[k] = W \cup UNION {peers[v] \cap inboxes : v \in W}
      BY <1>2 DEF Seen
    <2>3. W \subseteq g[k] /\ g[k] \subseteq left /\ from \in g[k]
      BY <2>1, <2>2
    <2>4. CASE W = left
      BY <2>3, <2>4
    <2>5. CASE W # left
      <3>1. PICK v \in W : \E w \in left \ W : w \in peers[v]
        BY <2>1, <2>5 DEF Joined
      <3>2. PICK w \in left \ W : w \in peers[v]
        BY <3>1
      <3>3. W \cup {w} \subseteq g[k]
        BY <2>2, <2>3, <3>1, <3>2
      <3>4. IsFiniteSet(W) /\ IsFiniteSet(g[k])
        BY <1>3, <2>1, <2>3, FS_Subset
      <3>5. Cardinality(W \cup {w}) = Cardinality(W) + 1
        <4>1. IsFiniteSet(W) /\ w \notin W
          BY <3>2, <3>4
        <4> HIDE DEF W
        <4> QED BY <4>1, FS_AddElement
      <3>6. Cardinality(W \cup {w}) <= Cardinality(g[k])
        BY <3>3, <3>4, FS_Subset
      <3>7. Cardinality(W) > k - 1
        BY <1>5, <2>5
      <3>8. Cardinality(W) \in Nat /\ Cardinality(g[k]) \in Nat
        BY <3>4, FS_CardinalityType
      <3>9. Cardinality(g[k]) > k
        <4> HIDE DEF W
        <4> QED BY <3>5, <3>6, <3>7, <3>8
      <3> QED BY <2>3, <3>9
    <2> QED BY <2>4, <2>5
  <1> HIDE DEF Fine
  <1>6. Bad = {}
    <2> SUFFICES ASSUME Bad # {} PROVE FALSE
      OBVIOUS
    <2>0. Bad \in SUBSET Nat
      BY <1>1
    <2>1. PICK k \in Bad : \A j \in Bad : k <= j
      BY <2>0, LeastExists
    <2>2. k \in 1 .. n
      BY <1>1, <1>4, <2>1
    <2>3. k - 1 \in 0 .. n /\ ~(k <= k - 1)
      BY <1>1, <2>2
    <2>4. Fine(k - 1)
      BY <2>1, <2>3
    <2> QED BY <1>5, <2>1, <2>2, <2>4
  <1>7. Fine(n)
    BY <1>1, <1>6
  <1>8. ~(Cardinality(g[n]) > n)
    <2>1. g[n] \in SUBSET Nodes
      BY <1>1, <1>2
    <2> QED BY <1>1, <1>3, <2>1, FS_Subset, FS_CardinalityType
  <1> QED BY <1>2, <1>7, <1>8 DEF Fine
-----------------------------------------------------------------------------
\* Who is next to whom in a ring of n.
After(v, n) == IF v = n - 1 THEN 0 ELSE v + 1
Before(v, n) == IF v = 0 THEN n - 1 ELSE v - 1

LEMMA RingNeighbours ==
  ASSUME NEW n \in Nat \ {0}, Nodes = 0 .. n - 1, NEW v \in Nodes
  PROVE  Ring[v] = {Before(v, n), After(v, n)} \ {v}
  <1>1. Cardinality(Nodes) = n
    BY FS_Interval
  <1>2. v \in Nat /\ v <= n - 1
    OBVIOUS
  <1>3. (v + 1) % n = After(v, n)
    BY <1>2 DEF After
  <1>4. (v - 1 + n) % n = Before(v, n)
    <2>1. CASE v = 0
      BY <1>2, <2>1 DEF Before
    <2>2. CASE v # 0
      BY <1>2, <2>2 DEF Before
    <2> QED BY <2>1, <2>2
  <1> QED BY <1>1, <1>3, <1>4 DEF Ring

\* Both rings and full meshes are configured at both ends.
LEMMA TopologiesTwoEnded ==
  ASSUME NEW n \in Nat \ {0}, Nodes = 0 .. n - 1, PeerList \in {Ring, Full}
  PROVE  /\ \A v, w \in Nodes : v \in PeerList[w] <=> w \in PeerList[v]
         /\ \A v \in Nodes : SetUp[v] = PeerList[v]
  <1>1. CASE PeerList = Full
    BY <1>1 DEF Full, SetUp
  <1>2. CASE PeerList = Ring
    <2>1. ASSUME NEW v \in Nodes, NEW w \in Nodes, v \in Ring[w]
          PROVE  w \in Ring[v]
      <3>1. Ring[v] = {Before(v, n), After(v, n)} \ {v}
        BY RingNeighbours
      <3>2. Ring[w] = {Before(w, n), After(w, n)} \ {w}
        BY RingNeighbours
      <3> QED BY <2>1, <3>1, <3>2 DEF Before, After
    <2>2. \A v \in Nodes : Ring[v] \subseteq Nodes \ {v}
      BY RingNeighbours DEF Before, After
    <2>3. \A v \in Nodes : SetUp[v] = Ring[v]
      BY <1>2, <2>1, <2>2 DEF SetUp
    <2> QED BY <1>2, <2>1, <2>3
  <1> QED BY <1>1, <1>2

\* Without one of them the validators of a ring stand in a row, each linked to the next.
LEMMA RingJoined ==
  ASSUME NEW n \in Nat \ {0}, Nodes = 0 .. n - 1, NEW gone \in SUBSET Nodes,
         Cardinality(gone) <= 1
  PROVE  Joined(Ring, Nodes \ gone)
  <1> DEFINE at(s, i) == IF s + i < n THEN s + i ELSE s + i - n
  <1>1. \E s \in Nodes, lo \in {0, 1} :
          Nodes \ gone = {at(s, i) : i \in lo .. n - 1}
    <2>1. CASE gone = {}
      <3>1. Nodes = {at(0, i) : i \in 0 .. n - 1}
        OBVIOUS
      <3> QED BY <2>1, <3>1
    <2>2. CASE gone # {}
      <3>1. IsFiniteSet(gone)
        BY NodesAssumption, FS_Subset
      <3>2. Cardinality(gone) = 1
        BY <2>2, <3>1, FS_EmptySet, FS_CardinalityType
      <3>3. PICK s : gone = {s}
        BY <3>1, <3>2, FS_Singleton
      <3>4. s \in Nodes
        BY <3>3
      <3>5. ASSUME NEW i \in 1 .. n - 1
            PROVE  at(s, i) \in Nodes /\ at(s, i) # s
        BY <3>4, <3>5
      <3>6. ASSUME NEW v \in Nodes, v # s
            PROVE  \E i \in 1 .. n - 1 : v = at(s, i)
        <4>1. CASE v > s
          <5>1. v - s \in 1 .. n - 1 /\ v = at(s, v - s)
            BY <3>4, <4>1
          <5> QED BY <5>1
        <4>2. CASE v < s
          <5>1. v - s + n \in 1 .. n - 1 /\ v = at(s, v - s + n)
            BY <3>4, <4>2
          <5> QED BY <5>1
        <4> QED BY <3>4, <3>6, <4>1, <4>2
      <3> HIDE DEF at
      <3>7. Nodes \ gone = {at(s, i) : i \in 1 .. n - 1}
        BY <3>3, <3>5, <3>6
      <3> QED BY <3>4, <3>7
    <2> QED BY <2>1, <2>2
  <1>2. PICK s \in Nodes, lo \in {0, 1} : Nodes \ gone = {at(s, i) : i \in lo .. n - 1}
    BY <1>1
  <1>3. ASSUME NEW i \in lo .. n - 1, i + 1 \in lo .. n - 1
        PROVE  at(s, i + 1) \in Ring[at(s, i)] /\ at(s, i) \in Ring[at(s, i + 1)]
    <2>1. at(s, i) \in Nodes /\ at(s, i + 1) \in Nodes
      BY <1>3
    <2>2. Ring[at(s, i)] = {Before(at(s, i), n), After(at(s, i), n)} \ {at(s, i)}
      BY <2>1, RingNeighbours
    <2>3. Ring[at(s, i + 1)]
            = {Before(at(s, i + 1), n), After(at(s, i + 1), n)} \ {at(s, i + 1)}
      BY <2>1, RingNeighbours
    <2>4. at(s, i + 1) = After(at(s, i), n) /\ at(s, i) = Before(at(s, i + 1), n)
      BY <1>3 DEF After, Before
    <2>5. at(s, i) # at(s, i + 1)
      BY <1>3
    <2> QED BY <2>2, <2>3, <2>4, <2>5
  <1> SUFFICES ASSUME NEW W \in SUBSET (Nodes \ gone), W # {}, W # Nodes \ gone
               PROVE  \E v \in W : \E w \in (Nodes \ gone) \ W : w \in Ring[v]
    BY DEF Joined
  <1> DEFINE I == {i \in lo .. n - 1 : at(s, i) \in W}
             O == {i \in lo .. n - 1 : at(s, i) \notin W}
  <1> HIDE DEF at
  <1>4. PICK a \in I : TRUE
    <2>1. PICK w \in W : w \in Nodes \ gone
      OBVIOUS
    <2>2. PICK i \in lo .. n - 1 : w = at(s, i)
      BY <1>2, <2>1
    <2> QED BY <2>1, <2>2
  <1>5. PICK b \in O : TRUE
    BY <1>2
  <1>6. ASSUME NEW i \in I, NEW j \in O, at(s, j) \in Ring[at(s, i)]
        PROVE  \E v \in W : \E w \in (Nodes \ gone) \ W : w \in Ring[v]
    BY <1>2, <1>6
  <1>7. CASE a < b
    <2> DEFINE Later == {j \in O : a < j}
    <2>0. Later \in SUBSET Nat /\ Later # {}
      BY <1>5, <1>7
    <2>1. PICK j \in Later : \A k \in Later : j <= k
      BY <2>0, LeastExists
    <2>2. j - 1 \in lo .. n - 1 /\ j - 1 + 1 = j /\ ~(j <= j - 1)
      BY <1>4, <2>1
    <2>3. j - 1 \in I
      <3>1. j - 1 \notin Later
        BY <2>1, <2>2
      <3>2. CASE a = j - 1
        BY <3>2
      <3>3. CASE a # j - 1
        <4>1. a < j - 1
          BY <1>4, <2>1, <3>3
        <4> QED BY <2>2, <3>1, <4>1
      <3> QED BY <3>2, <3>3
    <2>4. at(s, j) \in Ring[at(s, j - 1)]
      BY <1>3, <2>1, <2>2
    <2> QED BY <1>6, <2>1, <2>3, <2>4
  <1>8. CASE b < a
    <2> DEFINE Later == {j \in I : b < j}
    <2>0. Later \in SUBSET Nat /\ Later # {}
      BY <1>4, <1>8
    <2>1. PICK j \in Later : \A k \in Later : j <= k
      BY <2>0, LeastExists
    <2>2. j - 1 \in lo .. n - 1 /\ j - 1 + 1 = j /\ ~(j <= j - 1)
      BY <1>5, <2>1
    <2>3. j - 1 \in O
      <3>1. j - 1 \notin Later
        BY <2>1, <2>2
      <3>2. CASE b = j - 1
        BY <3>2
      <3>3. CASE b # j - 1
        <4>1. b < j - 1
          BY <1>5, <2>1, <3>3
        <4> QED BY <2>2, <3>1, <4>1
      <3> QED BY <3>2, <3>3
    <2>4. at(s, j - 1) \in Ring[at(s, j)]
      BY <1>3, <2>1, <2>2
    <2> QED BY <1>6, <2>1, <2>3, <2>4
  <1>9. a # b
    OBVIOUS
  <1>10. a \in Int /\ b \in Int
    BY <1>4, <1>5
  <1> QED BY <1>7, <1>8, <1>9, <1>10
-----------------------------------------------------------------------------
\* As long as nobody changed its links, what is left of them is what was set up.
LeftLinks == [v \in Nodes |-> IF v \in out THEN {} ELSE SetUp[v] \ out]

\* Those that were never cut off have an inbox.
RegistryInv ==
  /\ LinksInv
  /\ inboxes \subseteq Nodes /\ pubKeys \subseteq Nodes /\ out \subseteq Nodes
  /\ Nodes \ out \subseteq inboxes
  /\ Honest \subseteq pubKeys \cup out
  /\ relinked = {} => inboxes = Nodes \ out /\ peers = LeftLinks

LEMMA MisbehaviorRegistry ==
  ASSUME RegistryInv, LinksInv', NEW v \in Nodes, RecordMisbehavior(v), UNCHANGED relinked
  PROVE  RegistryInv'
  <1>1. CASE LastStrike(v)
    <2>1. /\ inboxes' = inboxes \ {v} /\ pubKeys' = pubKeys \ {v}
          /\ peers' = Remove(peers, v) /\ out' = out \cup {v}
      BY <1>1 DEF RecordMisbehavior
    <2>2. ASSUME relinked = {}
          PROVE  Remove(peers, v) = LeftLinks'
      <3>1. peers = LeftLinks /\ TwoEnded(peers)
        BY <2>2 DEF RegistryInv, LinksInv
      <3>2. ASSUME NEW u \in Nodes
            PROVE  Remove(peers, v)[u] = IF u \in out' THEN {} ELSE SetUp[u] \ out'
        <4>1. u \in peers[v] <=> v \in peers[u]
          BY <3>1 DEF TwoEnded
        <4>2. Remove(peers, v)[u] = IF u = v THEN {} ELSE peers[u] \ {v}
          BY <4>1 DEF Remove
        <4>3. peers[u] = IF u \in out THEN {} ELSE SetUp[u] \ out
          BY <3>1 DEF LeftLinks
        <4> QED BY <2>1, <4>2, <4>3
      <3> QED BY <3>2 DEF Remove, LeftLinks
    <2> QED BY <2>1, <2>2 DEF RegistryInv
  <1>2. CASE ~LastStrike(v)
    BY <1>2 DEF RecordMisbehavior, RegistryInv, LeftLinks
  <1> QED BY <1>1, <1>2

LEMMA RegistryNext ==
  ASSUME RegistryInv, [Next]_vars
  PROVE  RegistryInv'
  <1>0. LinksInv'
    BY LinksNext DEF RegistryInv
  <1>1. CASE UNCHANGED <<registry, relinked>>
    BY <1>0, <1>1 DEF registry, RegistryInv, LeftLinks
  <1>2. ASSUME NEW v \in Nodes, RecordMisbehavior(v), UNCHANGED relinked
        PROVE  RegistryInv'
    BY <1>0, <1>2, MisbehaviorRegistry
  <1>3. ASSUME NEW v \in BagToSet(accused), Punish(v)
        PROVE  RegistryInv'
    BY <1>2, <1>3 DEF Punish, calls, RegistryInv, LinksInv, TrafficOK
  <1>4. ASSUME NEW id \in Nodes, NEW list \in NewLists,
               UpdatePeers(id, list) \/ \E withKey \in BOOLEAN : Register(id, list, withKey)
        PROVE  RegistryInv'
    <2>1. relinked' # {} /\ UNCHANGED out
      BY <1>4 DEF UpdatePeers, Register
    <2>2. inboxes' \in {inboxes, inboxes \cup {id}} /\ pubKeys' \in {pubKeys, pubKeys \cup {id}}
      BY <1>4 DEF UpdatePeers, Register
    <2> QED BY <1>0, <2>1, <2>2 DEF RegistryInv
  <1>5. ASSUME NEW reporter \in Nodes, NEW offender \in Nodes,
               ReportMisbehavior(reporter, offender)
        PROVE  RegistryInv'
    BY <1>2, <1>5 DEF ReportMisbehavior
  <1>6. ASSUME NEW e, Deliver(e) \/ PutIntoInbox(e)
        PROVE  RegistryInv'
    BY <1>1, <1>6 DEF Deliver, PutIntoInbox, calls
  <1>7. ASSUME NEW from, NEW to, NEW signed, Broadcast(from, signed) \/ Unicast(from, to, signed)
        PROVE  RegistryInv'
    BY <1>1, <1>7 DEF Broadcast, Unicast
  <1>8. CASE UNCHANGED vars
    BY <1>1, <1>8 DEF vars, calls
  <1> QED BY <1>3, <1>4, <1>5, <1>6, <1>7, <1>8 DEF Next, Work

LEMMA RegistryInit ==
  ASSUME Init
  PROVE  RegistryInv
  <1>1. LinksInv
    BY SetUpTwoEnded, NoMembers DEF Init, LinksInv, TrafficOK
  <1>2. peers = LeftLinks
    BY DEF Init, LeftLinks, SetUp
  <1>3. /\ inboxes = Nodes /\ out = {} /\ pubKeys \subseteq Nodes
        /\ Honest \subseteq pubKeys
    BY DEF Init
  <1> QED BY <1>1, <1>2, <1>3 DEF RegistryInv

\* One validator cut off does not stop gossip wherever any one of them can be spared
\* (Broadcast, disconnectLocked).
LEMMA GossipReachesAll ==
  ASSUME \A gone \in SUBSET Nodes : Cardinality(gone) <= 1 => Joined(SetUp, Nodes \ gone),
         RegistryInv
  PROVE  GossipSurvivesOneLoss
  <1> SUFFICES ASSUME Cardinality(out) <= 1, relinked = {}, NEW v \in Nodes \ out
               PROVE  Reach(v) = Nodes \ (out \cup {v})
    BY DEF GossipSurvivesOneLoss
  <1> DEFINE left == Nodes \ out
  <1>1. out \in SUBSET Nodes /\ inboxes = left /\ peers = LeftLinks
    BY DEF RegistryInv
  <1>2. Joined(SetUp, left)
    BY <1>1
  <1>3. \A u \in left : peers[u] = SetUp[u] \ out /\ peers[u] \subseteq left
    BY <1>1 DEF LeftLinks, SetUp
  <1>4. Joined(peers, left)
    BY <1>2, <1>3 DEF Joined
  <1>5. peers \in [Nodes -> SUBSET Nodes]
    BY DEF RegistryInv, LinksInv
  <1>6. Reach(v) = left \ {v}
    BY <1>1, <1>3, <1>4, <1>5, ReachAll
  <1> QED BY <1>6

\* In the ring and in the full mesh of RunSimulation, of any size, gossip from any
\* validator reaches all that are connected as long as one at most was cut off and no
\* links were changed (buildRingPeers, buildFullPeers, Broadcast, disconnectLocked).
THEOREM GossipGoesRound ==
  ASSUME NEW n \in Nat \ {0}, Nodes = 0 .. n - 1, PeerList \in {Ring, Full}
  PROVE  Spec => []GossipSurvivesOneLoss
  <1>1. ASSUME NEW gone \in SUBSET Nodes, Cardinality(gone) <= 1
        PROVE  Joined(SetUp, Nodes \ gone)
    <2>1. \A v \in Nodes : SetUp[v] = PeerList[v]
      BY TopologiesTwoEnded
    <2>2. CASE PeerList = Ring
      <3>1. Joined(Ring, Nodes \ gone)
        BY <1>1, RingJoined
      <3> QED BY <2>1, <2>2, <3>1 DEF Joined
    <2>3. CASE PeerList = Full
      <3>1. ASSUME NEW W \in SUBSET (Nodes \ gone), W # {}, W # Nodes \ gone
            PROVE  \E v \in W : \E w \in (Nodes \ gone) \ W : w \in SetUp[v]
        <4>1. PICK v \in W : TRUE
          BY <3>1
        <4>2. PICK w \in (Nodes \ gone) \ W : TRUE
          BY <3>1
        <4>3. SetUp[v] = Nodes \ {v}
          BY <2>1, <2>3 DEF Full
        <4> QED BY <4>1, <4>2, <4>3
      <3> QED BY <3>1 DEF Joined
    <2> QED BY <2>2, <2>3
  <1>2. RegistryInv => GossipSurvivesOneLoss
    BY <1>1, GossipReachesAll
  <1>3. Init => RegistryInv
    BY RegistryInit
  <1>4. RegistryInv /\ [Next]_vars => RegistryInv'
    BY RegistryNext
  <1> QED BY <1>2, <1>3, <1>4, PTL DEF Spec
-----------------------------------------------------------------------------
\* One copy of each.
OneEach(bag) == \A x \in BagToSet(bag) : bag[x] = 1

\* Envelopes on the way, and whose copy of which message each is.
Waiting == BagToSet(messages) \cup BagToSet(verified)
CopyOf(e) == <<e.to, e.send>>

\* What is known of an envelope: it is a copy of a message that was sent.
Envelope ==
  [from: Nodes, to: Nodes, send: DOMAIN sends, signed: BOOLEAN, retries: 0 .. RetryLimit]

HistoryOK ==
  /\ sends \in Seq([from: Nodes, reach: SUBSET Nodes, signed: BOOLEAN])
  /\ Len(sends) <= MaxSends
  /\ Waiting \subseteq Envelope
  /\ \A e \in Waiting : e.from = sends[e.send].from /\ e.signed = sends[e.send].signed
  /\ BagToSet(delivered) \subseteq Nodes \X DOMAIN sends
  /\ \A k \in DOMAIN sends : sends[k].from \in Honest => sends[k].signed

\* No message is in two places.
AtMostOnce ==
  /\ OneEach(messages) /\ OneEach(verified) /\ OneEach(delivered)
  /\ BagToSet(messages) \cap BagToSet(verified) = {}
  /\ \A e, f \in Waiting : CopyOf(e) = CopyOf(f) => e = f
  /\ \A e \in Waiting : CopyOf(e) \notin BagToSet(delivered)

\* Message k for w is on its way or has come to it, or one of its ends was cut off.
Arrives(w, k) ==
  \/ \E e \in Waiting : CopyOf(e) = <<w, k>>
  \/ <<w, k>> \in BagToSet(delivered)
  \/ {sends[k].from, w} \cap out # {}

AtLeastOnce ==
  \A k \in DOMAIN sends : sends[k].from \in Honest => \A w \in sends[k].reach : Arrives(w, k)

OnceInv == RegistryInv /\ HistoryOK /\ AtMostOnce /\ AtLeastOnce

LEMMA OneAdded ==
  ASSUME NEW bag, OneEach(bag), NEW S, S \cap BagToSet(bag) = {}
  PROVE  OneEach(bag (+) SetToBag(S))
  BY DEF OneEach, BagToSet, SetToBag, (+)

LEMMA OneRemoved ==
  ASSUME NEW bag, OneEach(bag), NEW x \in BagToSet(bag)
  PROVE  /\ OneEach(bag (-) SetToBag({x}))
         /\ BagToSet(bag (-) SetToBag({x})) = BagToSet(bag) \ {x}
  BY DEF OneEach, BagToSet, SetToBag, (-)

\* Envelopes stay where they are, whatever happens to the registry.
LEMMA OnceIdle ==
  ASSUME OnceInv, RegistryInv', out \subseteq out',
         UNCHANGED <<messages, verified, delivered, sends>>
  PROVE  OnceInv'
  <1>1. HistoryOK' /\ AtMostOnce'
    BY DEF OnceInv, HistoryOK, AtMostOnce, Waiting, Envelope, OneEach
  <1>2. AtLeastOnce'
    BY DEF OnceInv, AtLeastOnce, Arrives, Waiting
  <1> QED BY <1>1, <1>2 DEF OnceInv

\* Retrying an envelope, or moving it on past the checks, leaves one copy of it.
LEMMA DeliverOnce ==
  ASSUME OnceInv, RegistryInv', NEW e \in BagToSet(messages), Deliver(e)
  PROVE  OnceInv'
  <1> DEFINE rest == messages (-) SetToBag({e})
             r == Retried(e)
  <1>1. OneEach(rest) /\ BagToSet(rest) = BagToSet(messages) \ {e}
    BY OneRemoved DEF OnceInv, AtMostOnce
  <1>2. UNCHANGED <<inboxes, pubKeys, out, sends, delivered>>
    BY DEF Deliver, registry, calls
  <1>3. e \in Waiting /\ e \in Envelope /\ e \notin BagToSet(verified)
    BY DEF OnceInv, HistoryOK, AtMostOnce, Waiting
  <1>4. /\ e.from \in Nodes /\ e.to \in Nodes /\ e.send \in DOMAIN sends
        /\ e.from = sends[e.send].from /\ e.signed = sends[e.send].signed
    BY <1>3 DEF Envelope, OnceInv, HistoryOK
  <1>5. CASE Receives(e) /\ Retries(e) /\ messages' = rest (+) SetToBag({r}) /\ UNCHANGED verified
    <2>1. /\ r \in Envelope /\ CopyOf(r) = CopyOf(e) /\ r # e
          /\ r.from = e.from /\ r.signed = e.signed /\ r.send = e.send
      <3>1. e.retries \in 0 .. RetryLimit /\ e.retries < RetryLimit
        BY <1>3, <1>5 DEF Envelope, Retries
      <3>2. e.retries + 1 \in 0 .. RetryLimit /\ e.retries + 1 # e.retries
        BY <3>1, LimitsAssumption
      <3> QED BY <1>3, <3>2 DEF Envelope, Retried, CopyOf
    <2>2. r \notin Waiting
      BY <1>3, <2>1 DEF OnceInv, AtMostOnce
    <2>3. BagToSet(messages') = (BagToSet(messages) \ {e}) \cup {r}
      BY <1>1, <1>5, AddedMembers
    <2>4. Waiting' = (Waiting \ {e}) \cup {r}
      BY <1>3, <1>5, <2>3 DEF Waiting
    <2>5. HistoryOK'
      <3>1. Envelope' = Envelope
        BY <1>2 DEF Envelope
      <3>2. Waiting' \subseteq Envelope
        BY <2>1, <2>4 DEF OnceInv, HistoryOK
      <3>3. \A f \in Waiting' : f.from = sends[f.send].from /\ f.signed = sends[f.send].signed
        BY <1>4, <2>1, <2>4 DEF OnceInv, HistoryOK
      <3> QED BY <1>2, <3>1, <3>2, <3>3 DEF OnceInv, HistoryOK
    <2>6. AtMostOnce'
      <3>1. OneEach(messages') /\ OneEach(verified') /\ OneEach(delivered')
        <4>1. {r} \cap BagToSet(rest) = {}
          BY <1>1, <2>2 DEF Waiting
        <4>2. OneEach(messages')
          BY <1>1, <1>5, <4>1, OneAdded
        <4>3. OneEach(verified') /\ OneEach(delivered')
          BY <1>2, <1>5 DEF OnceInv, AtMostOnce, OneEach
        <4> QED BY <4>2, <4>3
      <3>2. BagToSet(messages') \cap BagToSet(verified') = {}
        BY <1>5, <2>2, <2>3 DEF OnceInv, AtMostOnce, Waiting
      <3>3. \A f, g \in Waiting' : CopyOf(f) = CopyOf(g) => f = g
        BY <1>3, <2>1, <2>4 DEF OnceInv, AtMostOnce
      <3>4. \A f \in Waiting' : CopyOf(f) \notin BagToSet(delivered')
        BY <1>2, <1>3, <2>1, <2>4 DEF OnceInv, AtMostOnce
      <3> QED BY <3>1, <3>2, <3>3, <3>4 DEF AtMostOnce
    <2>7. AtLeastOnce'
      <3>1. \A w, k : Arrives(w, k) => Arrives(w, k)'
        BY <1>2, <2>1, <2>4 DEF Arrives
      <3> QED BY <1>2, <3>1 DEF OnceInv, AtLeastOnce
    <2> QED BY <2>5, <2>6, <2>7 DEF OnceInv
  <1>6. CASE Receives(e) /\ Verifies(e) /\ messages' = rest
             /\ verified' = verified (+) SetToBag({e})
    <2>1. BagToSet(messages') = BagToSet(messages) \ {e}
      BY <1>1, <1>6
    <2>2. BagToSet(verified') = BagToSet(verified) \cup {e}
      BY <1>6, AddedMembers
    <2>3. Waiting' = Waiting
      BY <1>3, <2>1, <2>2 DEF Waiting
    <2>4. HistoryOK'
      BY <1>2, <2>3 DEF OnceInv, HistoryOK, Envelope
    <2>5. AtMostOnce'
      <3>1. OneEach(messages') /\ OneEach(verified') /\ OneEach(delivered')
        <4>1. OneEach(messages')
          BY <1>1, <1>6
        <4>2. OneEach(verified')
          BY <1>3, <1>6, OneAdded DEF OnceInv, AtMostOnce
        <4>3. OneEach(delivered')
          BY <1>2 DEF OnceInv, AtMostOnce, OneEach
        <4> QED BY <4>1, <4>2, <4>3
      <3>2. BagToSet(messages') \cap BagToSet(verified') = {}
        BY <2>1, <2>2 DEF OnceInv, AtMostOnce
      <3> QED BY <1>2, <2>3, <3>1, <3>2 DEF OnceInv, AtMostOnce
    <2>6. AtLeastOnce'
      BY <1>2, <2>3 DEF OnceInv, AtLeastOnce, Arrives
    <2> QED BY <2>4, <2>5, <2>6 DEF OnceInv
  <1>7. CASE (~Receives(e) \/ (~Retries(e) /\ ~Verifies(e)))
             /\ messages' = rest /\ UNCHANGED verified
    <2>1. BagToSet(messages') = BagToSet(messages) \ {e}
      BY <1>1, <1>7
    <2>2. Waiting' = Waiting \ {e}
      BY <1>3, <1>7, <2>1 DEF Waiting
    <2>3. HistoryOK'
      BY <1>2, <2>2 DEF OnceInv, HistoryOK, Envelope
    <2>4. AtMostOnce'
      BY <1>1, <1>2, <1>7, <2>1, <2>2 DEF OnceInv, AtMostOnce, OneEach
    <2>5. ASSUME sends[e.send].from \in Honest
          PROVE  {e.from, e.to} \cap out # {}
      <3>1. e.signed
        BY <1>4, <2>5 DEF OnceInv, HistoryOK
      <3>2. CASE ~Receives(e)
        BY <1>4, <3>2 DEF Receives, OnceInv, RegistryInv
      <3>3. CASE ~Verifies(e)
        BY <1>4, <2>5, <3>1, <3>3 DEF Verifies, OnceInv, RegistryInv
      <3> QED BY <1>7, <3>2, <3>3
    <2>6. ASSUME NEW k \in DOMAIN sends, sends[k].from \in Honest, NEW w \in sends[k].reach
          PROVE  Arrives(w, k)'
      <3>1. Arrives(w, k)
        BY <2>6 DEF OnceInv, AtLeastOnce
      <3>2. CASE CopyOf(e) = <<w, k>>
        BY <1>2, <1>4, <2>5, <2>6, <3>2 DEF CopyOf, Arrives
      <3>3. CASE CopyOf(e) # <<w, k>>
        BY <1>2, <2>2, <3>1, <3>3 DEF Arrives
      <3> QED BY <3>2, <3>3
    <2>7. AtLeastOnce'
      BY <1>2, <2>6 DEF AtLeastOnce
    <2> QED BY <2>3, <2>4, <2>7 DEF OnceInv
  <1> QED BY <1>5, <1>6, <1>7 DEF Deliver

\* A verified message is put into one inbox, once.
LEMMA PutIntoInboxOnce ==
  ASSUME OnceInv, RegistryInv', NEW e \in BagToSet(verified), PutIntoInbox(e)
  PROVE  OnceInv'
  <1>1. UNCHANGED <<out, sends, messages>>
    BY DEF PutIntoInbox, registry, calls
  <1>2. OneEach(verified') /\ BagToSet(verified') = BagToSet(verified) \ {e}
    BY OneRemoved DEF OnceInv, AtMostOnce, PutIntoInbox
  <1>3. e \in Waiting /\ e \in Envelope /\ e \notin BagToSet(messages)
    BY DEF OnceInv, HistoryOK, AtMostOnce, Waiting
  <1>4. CopyOf(e) \in Nodes \X DOMAIN sends
    BY <1>3 DEF Envelope, CopyOf
  <1>5. BagToSet(delivered') = BagToSet(delivered) \cup {CopyOf(e)}
    BY AddedMembers DEF PutIntoInbox, CopyOf
  <1>6. Waiting' = Waiting \ {e}
    BY <1>1, <1>2, <1>3 DEF Waiting
  <1>7. HistoryOK'
    BY <1>1, <1>4, <1>5, <1>6 DEF OnceInv, HistoryOK, Envelope
  <1>8. AtMostOnce'
    <2>1. CopyOf(e) \notin BagToSet(delivered)
      BY <1>3 DEF OnceInv, AtMostOnce
    <2>2. OneEach(delivered')
      BY <2>1, OneAdded DEF OnceInv, AtMostOnce, PutIntoInbox, CopyOf
    <2>3. OneEach(messages')
      BY <1>1 DEF OnceInv, AtMostOnce, OneEach
    <2>4. BagToSet(messages') \cap BagToSet(verified') = {}
      BY <1>1, <1>2 DEF OnceInv, AtMostOnce
    <2>5. \A f \in Waiting' : CopyOf(f) \notin BagToSet(delivered')
      BY <1>3, <1>5, <1>6 DEF OnceInv, AtMostOnce
    <2>6. \A f, g \in Waiting' : CopyOf(f) = CopyOf(g) => f = g
      BY <1>6 DEF OnceInv, AtMostOnce
    <2> QED BY <1>2, <2>2, <2>3, <2>4, <2>5, <2>6 DEF AtMostOnce
  <1>9. AtLeastOnce'
    <2>1. \A w, k : Arrives(w, k) => Arrives(w, k)'
      BY <1>1, <1>5, <1>6 DEF Arrives
    <2> QED BY <1>1, <2>1 DEF OnceInv, AtLeastOnce
  <1> QED BY <1>7, <1>8, <1>9 DEF OnceInv

\* A call of Broadcast or Unicast hands out new copies, one for each receiver.
LEMMA SendOnce ==
  ASSUME OnceInv, RegistryInv', Len(sends) < MaxSends,
         NEW from \in Nodes, NEW reach \in SUBSET Nodes, NEW signed \in BOOLEAN,
         from \in Honest => signed, Send(from, reach, signed),
         UNCHANGED <<out, verified, delivered>>
  PROVE  OnceInv'
  <1>0. PICK k \in Nat : k = Len(sends) + 1
    BY DEF OnceInv, HistoryOK
  <1> DEFINE env(v) == [from |-> from, to |-> v, send |-> k, signed |-> signed, retries |-> 0]
             fresh == {env(v) : v \in reach}
             call == [from |-> from, reach |-> reach, signed |-> signed]
  <1>1. /\ sends \in Seq([from: Nodes, reach: SUBSET Nodes, signed: BOOLEAN])
        /\ call \in [from: Nodes, reach: SUBSET Nodes, signed: BOOLEAN]
    BY DEF OnceInv, HistoryOK
  <1>2. /\ sends' \in Seq([from: Nodes, reach: SUBSET Nodes, signed: BOOLEAN])
        /\ Len(sends') = k /\ Len(sends') <= MaxSends
        /\ DOMAIN sends' = DOMAIN sends \cup {k} /\ k \notin DOMAIN sends
        /\ sends'[k] = call /\ \A j \in DOMAIN sends : sends'[j] = sends[j]
    BY <1>0, <1>1, LimitsAssumption DEF Send
  <1>3. /\ fresh \subseteq Envelope'
        /\ \A e \in fresh : e.send = k /\ e.from = from /\ e.signed = signed
    BY <1>0, <1>2, LimitsAssumption DEF Envelope
  <1>4. /\ \A e \in Waiting : e \in Envelope /\ e.send \in DOMAIN sends
        /\ Envelope \subseteq Envelope'
    <2>1. Envelope \subseteq Envelope'
      BY <1>2 DEF Envelope
    <2>2. \A e \in Waiting : e \in Envelope
      BY DEF OnceInv, HistoryOK
    <2> QED BY <2>1, <2>2 DEF Envelope
  <1>5. fresh \cap Waiting = {}
    BY <1>2, <1>3, <1>4
  <1>6. BagToSet(messages') = BagToSet(messages) \cup fresh
    BY <1>0, AddedMembers DEF Send
  <1>7. Waiting' = Waiting \cup fresh
    BY <1>6 DEF Waiting
  <1>8. \A e \in fresh : CopyOf(e) \in reach \X {k}
    BY DEF CopyOf
  <1>9. \A v \in reach : env(v) \in fresh /\ CopyOf(env(v)) = <<v, k>>
    BY DEF CopyOf
  <1>10. \A e, f \in fresh : CopyOf(e) = CopyOf(f) => e = f
    BY DEF CopyOf
  <1>11. OneEach(messages')
    <2>1. fresh \cap BagToSet(messages) = {}
      BY <1>5 DEF Waiting
    <2> QED BY <1>0, <2>1, OneAdded DEF Send, OnceInv, AtMostOnce
  <1> HIDE DEF fresh, env
  <1>12. HistoryOK'
    <2>1. Waiting' \subseteq Envelope'
      BY <1>3, <1>4, <1>7
    <2>2. \A e \in Waiting' : e.from = sends'[e.send].from /\ e.signed = sends'[e.send].signed
      BY <1>2, <1>3, <1>4, <1>7 DEF OnceInv, HistoryOK
    <2>3. BagToSet(delivered') \subseteq Nodes \X DOMAIN sends'
      BY <1>2 DEF OnceInv, HistoryOK
    <2>4. \A j \in DOMAIN sends' : sends'[j].from \in Honest => sends'[j].signed
      BY <1>2 DEF OnceInv, HistoryOK
    <2> QED BY <1>2, <2>1, <2>2, <2>3, <2>4 DEF HistoryOK
  <1>13. AtMostOnce'
    <2>1. OneEach(verified') /\ OneEach(delivered')
      BY DEF OnceInv, AtMostOnce, OneEach
    <2>2. BagToSet(messages') \cap BagToSet(verified') = {}
      BY <1>5, <1>6 DEF OnceInv, AtMostOnce, Waiting
    <2>3. \A e \in fresh, f \in Waiting : CopyOf(e) # CopyOf(f)
      BY <1>2, <1>4, <1>8 DEF CopyOf
    <2>4. \A e, f \in Waiting' : CopyOf(e) = CopyOf(f) => e = f
      BY <1>7, <1>10, <2>3 DEF OnceInv, AtMostOnce
    <2>5. \A e \in Waiting' : CopyOf(e) \notin BagToSet(delivered')
      <3>1. \A x \in BagToSet(delivered) : x \in Nodes \X DOMAIN sends
        BY DEF OnceInv, HistoryOK
      <3>2. \A e \in fresh : CopyOf(e) \notin BagToSet(delivered)
        BY <1>2, <1>8, <3>1
      <3> QED BY <1>7, <3>2 DEF OnceInv, AtMostOnce
    <2> QED BY <1>11, <2>1, <2>2, <2>4, <2>5 DEF AtMostOnce
  <1>14. AtLeastOnce'
    <2>1. ASSUME NEW j \in DOMAIN sends, NEW w, Arrives(w, j)
          PROVE  Arrives(w, j)'
      BY <1>2, <1>7, <2>1 DEF Arrives
    <2>2. ASSUME NEW w \in reach
          PROVE  Arrives(w, k)'
      BY <1>7, <1>9 DEF Arrives, CopyOf
    <2> QED BY <1>2, <2>1, <2>2 DEF OnceInv, AtLeastOnce
  <1> QED BY <1>12, <1>13, <1>14 DEF OnceInv

LEMMA OnceNext ==
  ASSUME OnceInv, [Next]_vars
  PROVE  OnceInv'
  <1>0. RegistryInv' /\ peers \in [Nodes -> SUBSET Nodes]
    BY RegistryNext DEF OnceInv, RegistryInv, LinksInv
  <1>1. ASSUME NEW e \in BagToSet(messages), Deliver(e)
        PROVE  OnceInv'
    BY <1>0, <1>1, DeliverOnce
  <1>2. ASSUME NEW e \in BagToSet(verified), PutIntoInbox(e)
        PROVE  OnceInv'
    BY <1>0, <1>2, PutIntoInboxOnce
  <1>3. ASSUME NEW v, RecordMisbehavior(v), UNCHANGED <<messages, verified, delivered, sends>>
        PROVE  OnceInv'
    <2>1. out \subseteq out'
      BY <1>3 DEF RecordMisbehavior
    <2> QED BY <1>0, <1>3, <2>1, OnceIdle
  <1>4. ASSUME NEW v, Punish(v)
        PROVE  OnceInv'
    BY <1>3, <1>4 DEF Punish, calls
  <1>5. ASSUME NEW reporter, NEW offender, ReportMisbehavior(reporter, offender)
        PROVE  OnceInv'
    BY <1>3, <1>5 DEF ReportMisbehavior, traffic
  <1>6. ASSUME UNCHANGED <<out, messages, verified, delivered, sends>>
        PROVE  OnceInv'
    BY <1>0, <1>6, OnceIdle
  <1>7. ASSUME NEW id, NEW list,
               UpdatePeers(id, list) \/ \E withKey \in BOOLEAN : Register(id, list, withKey)
        PROVE  OnceInv'
    BY <1>6, <1>7 DEF UpdatePeers, Register, traffic
  <1>8. ASSUME NEW from \in Nodes, NEW signed \in BOOLEAN, Broadcast(from, signed)
        PROVE  OnceInv'
    <2>1. Reach(from) \in SUBSET Nodes
      BY <1>0, ReachType
    <2> QED BY <1>0, <1>8, <2>1, SendOnce DEF Broadcast, registry
  <1>9. ASSUME NEW from \in Nodes, NEW to \in Nodes, NEW signed \in BOOLEAN,
               Unicast(from, to, signed)
        PROVE  OnceInv'
    <2>1. CASE to \in peers[from]
      <3>1. {to} \in SUBSET Nodes
        OBVIOUS
      <3> QED BY <1>0, <1>9, <2>1, <3>1, SendOnce DEF Unicast, registry
    <2>2. CASE to \notin peers[from]
      \* The call is remembered, for nobody.
      <3>0. PICK k \in Nat : k = Len(sends) + 1
        BY DEF OnceInv, HistoryOK
      <3>1. /\ sends' = Append(sends, [from |-> from, reach |-> {}, signed |-> signed])
            /\ UNCHANGED <<messages, verified, delivered, out>>
            /\ Len(sends) < MaxSends /\ (from \in Honest => signed)
        BY <1>9, <2>2 DEF Unicast, registry
      <3>2. /\ sends' \in Seq([from: Nodes, reach: SUBSET Nodes, signed: BOOLEAN])
            /\ Len(sends') = k /\ Len(sends') <= MaxSends
            /\ DOMAIN sends' = DOMAIN sends \cup {k} /\ k \notin DOMAIN sends
            /\ sends'[k] = [from |-> from, reach |-> {}, signed |-> signed]
            /\ \A j \in DOMAIN sends : sends'[j] = sends[j]
        BY <3>0, <3>1, LimitsAssumption DEF OnceInv, HistoryOK
      <3>3. Waiting' = Waiting
        BY <3>1 DEF Waiting
      <3>4. \A e \in Waiting : e \in Envelope' /\ e.send \in DOMAIN sends
        <4>1. Envelope \subseteq Envelope'
          BY <3>2 DEF Envelope
        <4>2. \A e \in Waiting : e \in Envelope
          BY DEF OnceInv, HistoryOK
        <4> QED BY <4>1, <4>2 DEF Envelope
      <3>5. HistoryOK'
        <4>1. Waiting' \subseteq Envelope'
          BY <3>3, <3>4
        <4>2. \A e \in Waiting' : e.from = sends'[e.send].from /\ e.signed = sends'[e.send].signed
          BY <3>2, <3>3, <3>4 DEF OnceInv, HistoryOK
        <4>3. BagToSet(delivered') \subseteq Nodes \X DOMAIN sends'
          BY <3>1, <3>2 DEF OnceInv, HistoryOK
        <4>4. \A j \in DOMAIN sends' : sends'[j].from \in Honest => sends'[j].signed
          BY <3>1, <3>2 DEF OnceInv, HistoryOK
        <4> QED BY <3>2, <4>1, <4>2, <4>3, <4>4 DEF HistoryOK
      <3>6. AtMostOnce'
        BY <3>1, <3>3 DEF OnceInv, AtMostOnce, OneEach
      <3>7. AtLeastOnce'
        <4>1. ASSUME NEW j \in DOMAIN sends, NEW w, Arrives(w, j)
              PROVE  Arrives(w, j)'
          BY <3>1, <3>2, <3>3, <4>1 DEF Arrives
        <4> QED BY <3>2, <4>1 DEF OnceInv, AtLeastOnce
      <3> QED BY <1>0, <3>5, <3>6, <3>7 DEF OnceInv
    <2> QED BY <2>1, <2>2
  <1>10. CASE UNCHANGED vars
    BY <1>6, <1>10 DEF vars, registry, traffic, calls
  <1> QED BY <1>1, <1>2, <1>4, <1>5, <1>7, <1>8, <1>9, <1>10 DEF Next, Work

LEMMA OnceInit ==
  ASSUME Init
  PROVE  OnceInv
  <1>1. BagToSet(messages) = {} /\ BagToSet(verified) = {} /\ BagToSet(delivered) = {}
    BY NoMembers DEF Init
  <1>2. sends = <<>> /\ DOMAIN sends = {} /\ Len(sends) = 0
    BY DEF Init
  <1>3. Waiting = {}
    BY <1>1 DEF Waiting
  <1>4. HistoryOK
    BY <1>1, <1>2, <1>3, LimitsAssumption DEF HistoryOK
  <1>5. AtMostOnce
    BY <1>1, <1>3 DEF AtMostOnce, OneEach
  <1>6. AtLeastOnce
    BY <1>2 DEF AtLeastOnce
  <1> QED BY <1>4, <1>5, <1>6, RegistryInit DEF OnceInv
-----------------------------------------------------------------------------
\* How many there are in a bag of none and in a bag of one kind.
LEMMA NoneInBag ==
  ASSUME NEW bag, bag = [x \in {} |-> bag[x]]
  PROVE  BagCardinality(bag) = 0
  <1>1. DOMAIN bag = {}
    OBVIOUS
  <1> QED BY <1>1 DEF BagCardinality

LEMMA OneKindInBag ==
  ASSUME NEW e, NEW n \in Nat
  PROVE  BagCardinality([x \in {e} |-> n]) = n
  <1> DEFINE f == [x \in {e} |-> n]
             Step(h, S) == LET elt == CHOOSE x \in S : TRUE
                           IN  IF S = {} THEN 0 ELSE f[elt] + h[S \ {elt}]
             D == CHOOSE h : h = [S \in SUBSET DOMAIN f |-> Step(h, S)]
             g == [S \in SUBSET {e} |-> IF S = {} THEN 0 ELSE n]
  <1>1. DOMAIN f = {e} /\ f[e] = n
    OBVIOUS
  <1>2. \A S \in SUBSET {e} : Step(g, S) = IF S = {} THEN 0 ELSE n
    <2>1. ASSUME NEW S \in SUBSET {e}, S # {}
          PROVE  Step(g, S) = n
      <3>1. S = {e}
        BY <2>1
      <3>2. (CHOOSE x \in S : TRUE) = e
        BY <3>1
      <3>3. g[S \ {e}] = 0
        BY <3>1
      <3> QED BY <1>1, <3>1, <3>2, <3>3
    <2> QED BY <2>1
  <1>3. g = [S \in SUBSET DOMAIN f |-> Step(g, S)]
    BY <1>1, <1>2
  <1>4. D = [S \in SUBSET DOMAIN f |-> Step(D, S)]
    BY <1>3
  <1>5. D[{}] = 0
    BY <1>1, <1>4
  <1>6. D[{e}] = f[e] + D[{e} \ {e}]
    <2>1. (CHOOSE x \in {e} : TRUE) = e
      OBVIOUS
    <2> QED BY <1>1, <1>4, <2>1
  <1>7. BagCardinality(f) = D[DOMAIN f]
    BY DEF BagCardinality
  <1> HIDE DEF D, f
  <1>8. {e} \ {e} = {}
    OBVIOUS
  <1>9. BagCardinality(f) = n
    BY <1>1, <1>5, <1>6, <1>7, <1>8
  <1> QED BY <1>9 DEF f

\* The copies of message k for w that wait in a bag.
CopiesHeld(bag, w, k) == {e \in BagToSet(bag) : e.to = w /\ e.send = k}

LEMMA CopiesCounted ==
  ASSUME NEW bag, OneEach(bag), NEW w, NEW k,
         \A e, f \in CopiesHeld(bag, w, k) : e = f
  PROVE  BagCardinality([e \in CopiesHeld(bag, w, k) |-> bag[e]])
           = IF CopiesHeld(bag, w, k) = {} THEN 0 ELSE 1
  <1> DEFINE held == CopiesHeld(bag, w, k)
  <1>1. CASE held = {}
    <2>1. BagCardinality([e \in held |-> bag[e]]) = 0
      BY <1>1, NoneInBag
    <2> QED BY <1>1, <2>1
  <1>2. CASE held # {}
    <2>1. PICK e \in held : TRUE
      BY <1>2
    <2>2. held = {e} /\ bag[e] = 1
      BY <2>1 DEF CopiesHeld, OneEach
    <2>3. [x \in held |-> bag[x]] = [x \in {e} |-> 1]
      BY <2>2
    <2>4. BagCardinality([x \in {e} |-> 1]) = 1
      BY OneKindInBag
    <2> HIDE DEF held
    <2> QED BY <1>2, <2>3, <2>4 DEF held
  <1> QED BY <1>1, <1>2

\* A message of an honest validator is neither lost nor doubled, whatever retries,
\* strikes and new links do, unless one of its ends was cut off (Broadcast, Unicast,
\* deliver).
THEOREM EachArrivesOnce == Spec => []EachOnce
  <1>1. ASSUME OnceInv
        PROVE  EachOnce
    <2> SUFFICES ASSUME NEW k \in DOMAIN sends, sends[k].from \in Honest,
                        NEW w \in sends[k].reach
                 PROVE  \/ Copies(w, k) = 1
                        \/ Copies(w, k) = 0 /\ {sends[k].from, w} \cap out # {}
      BY DEF EachOnce
    <2> DEFINE M == CopiesHeld(messages, w, k)
               V == CopiesHeld(verified, w, k)
               d == IF BagIn(<<w, k>>, delivered) THEN delivered[<<w, k>>] ELSE 0
               m == BagCardinality([e \in M |-> messages[e]])
               v == BagCardinality([e \in V |-> verified[e]])
    <2>1. Copies(w, k) = d + m + v
      BY DEF Copies, CopiesHeld
    <2>2. \A e \in M \cup V : e \in Waiting /\ CopyOf(e) = <<w, k>>
      BY DEF CopiesHeld, Waiting, CopyOf
    <2>3. \A e, f \in M \cup V : e = f
      BY <1>1, <2>2 DEF OnceInv, AtMostOnce
    <2>4. m = IF M = {} THEN 0 ELSE 1
      BY <1>1, <2>3, CopiesCounted DEF OnceInv, AtMostOnce
    <2>5. v = IF V = {} THEN 0 ELSE 1
      BY <1>1, <2>3, CopiesCounted DEF OnceInv, AtMostOnce
    <2>6. d = IF <<w, k>> \in BagToSet(delivered) THEN 1 ELSE 0
      BY <1>1 DEF OnceInv, AtMostOnce, OneEach, BagIn
    <2>7. M = {} \/ V = {}
      BY <1>1, <2>3 DEF OnceInv, AtMostOnce, CopiesHeld
    <2>8. <<w, k>> \in BagToSet(delivered) => M = {} /\ V = {}
      BY <1>1, <2>2 DEF OnceInv, AtMostOnce
    <2>9. Arrives(w, k)
      BY <1>1 DEF OnceInv, AtLeastOnce
    <2>10. \/ M # {} \/ V # {} \/ <<w, k>> \in BagToSet(delivered)
           \/ {sends[k].from, w} \cap out # {}
      <3>1. ASSUME NEW e \in Waiting, CopyOf(e) = <<w, k>>
            PROVE  e \in M \cup V
        BY <3>1 DEF CopiesHeld, Waiting, CopyOf
      <3> QED BY <2>9, <3>1 DEF Arrives
    <2> HIDE DEF M, V, d, m, v
    <2> QED BY <2>1, <2>4, <2>5, <2>6, <2>7, <2>8, <2>10
  <1>2. Init => OnceInv
    BY OnceInit
  <1>3. OnceInv /\ [Next]_vars => OnceInv'
    BY OnceNext
  <1> QED BY <1>1, <1>2, <1>3, PTL DEF Spec
-----------------------------------------------------------------------------
LEMMA BagsKept ==
  ASSUME NEW bag, IsABag(bag), NEW S
  PROVE  IsABag(bag (+) SetToBag(S)) /\ IsABag(bag (-) SetToBag(S))
  <1> DEFINE Pos == {n \in Nat : n > 0}
  <1>1. \A x \in DOMAIN bag : bag[x] \in Pos
    BY DEF IsABag
  <1>2. bag (+) SetToBag(S) \in [DOMAIN bag \cup S -> Pos]
    BY <1>1 DEF (+), SetToBag
  <1>3. \E T : bag (-) SetToBag(S) \in [T -> Pos]
    <2> DEFINE left == [x \in DOMAIN bag |-> IF x \in S THEN bag[x] - 1 ELSE bag[x]]
               T == {x \in DOMAIN bag : left[x] > 0}
    <2>1. \A x \in DOMAIN bag : left[x] \in Nat
      BY <1>1
    <2>2. [x \in T |-> left[x]] \in [T -> Pos]
      BY <2>1
    <2>3. bag (-) SetToBag(S) = [x \in T |-> left[x]]
      BY DEF (-), SetToBag
    <2> QED BY <2>2, <2>3
  <1> QED BY <1>2, <1>3 DEF IsABag

LEMMA EmptyIsABag == IsABag(EmptyBag)
  BY DEF IsABag, EmptyBag, SetToBag

\* The counters, and that what is kept in bags is kept in bags.
CountInv ==
  /\ strikeCount \in [Nodes -> Nat]
  /\ configured \in [Nodes -> SUBSET Nodes]
  /\ changes \in 0 .. MaxChanges
  /\ reported \subseteq Nodes \X Nodes
  /\ relinked \subseteq Nodes
  /\ IsABag(messages) /\ IsABag(verified) /\ IsABag(accused) /\ IsABag(delivered)

LEMMA CountNext ==
  ASSUME CountInv, LinksInv, [Next]_vars
  PROVE  CountInv'
  <1> USE DEF CountInv
  <1>1. ASSUME NEW e \in BagToSet(messages), Deliver(e)
        PROVE  CountInv'
    <2> DEFINE rest == messages (-) SetToBag({e})
    <2>1. IsABag(rest)
      BY BagsKept
    <2>2. UNCHANGED <<registry, calls, delivered>>
      BY <1>1 DEF Deliver
    <2>3. messages' \in {rest, rest (+) SetToBag({Retried(e)})}
      BY <1>1 DEF Deliver
    <2>4. verified' \in {verified, verified (+) SetToBag({e})}
      BY <1>1 DEF Deliver
    <2>5. accused' \in {accused, accused (+) SetToBag({Offender(e)})}
      BY <1>1 DEF Deliver
    <2> HIDE DEF rest
    <2>6. IsABag(messages') /\ IsABag(verified') /\ IsABag(accused')
      BY <2>1, <2>3, <2>4, <2>5, BagsKept
    <2> QED BY <2>2, <2>6 DEF registry, calls
  <1>2. ASSUME NEW e \in BagToSet(verified), PutIntoInbox(e)
        PROVE  CountInv'
    BY <1>2, BagsKept DEF PutIntoInbox, registry, calls
  <1>3. ASSUME NEW v \in Nodes, RecordMisbehavior(v)
        PROVE  strikeCount' \in [Nodes -> Nat]
    BY <1>3 DEF RecordMisbehavior
  <1>4. ASSUME NEW v \in BagToSet(accused), Punish(v)
        PROVE  CountInv'
    <2>1. v \in Nodes
      BY DEF LinksInv, TrafficOK
    <2>2. IsABag(accused')
      BY <1>4, BagsKept DEF Punish
    <2> QED BY <1>3, <1>4, <2>1, <2>2 DEF Punish, calls
  <1>5. ASSUME NEW reporter \in Nodes, NEW offender \in Nodes,
               ReportMisbehavior(reporter, offender)
        PROVE  CountInv'
    BY <1>3, <1>5 DEF ReportMisbehavior, traffic
  <1>6. ASSUME NEW id \in Nodes, NEW list \in NewLists,
               UpdatePeers(id, list) \/ \E withKey \in BOOLEAN : Register(id, list, withKey)
        PROVE  CountInv'
    <2>1. /\ changes < MaxChanges /\ changes' = changes + 1
          /\ configured' = [configured EXCEPT ![id] = list]
          /\ relinked' = relinked \cup {id}
          /\ UNCHANGED <<traffic, strikeCount, reported>>
      BY <1>6 DEF UpdatePeers, Register
    <2>2. list \in SUBSET Nodes
      BY NodesAssumption
    <2>3. changes' \in 0 .. MaxChanges
      BY <2>1, LimitsAssumption
    <2> QED BY <2>1, <2>2, <2>3 DEF traffic
  <1>7. ASSUME NEW from \in Nodes, NEW signed \in BOOLEAN, Broadcast(from, signed)
        PROVE  CountInv'
    BY <1>7, BagsKept DEF Broadcast, Send, registry
  <1>8. ASSUME NEW from \in Nodes, NEW to \in Nodes, NEW signed \in BOOLEAN,
               Unicast(from, to, signed)
        PROVE  CountInv'
    <2>1. UNCHANGED <<registry, verified, delivered, changes, configured, reported, relinked>>
      BY <1>8 DEF Unicast
    <2>2. IsABag(messages') /\ IsABag(accused')
      BY <1>8, BagsKept DEF Unicast, Send
    <2> QED BY <2>1, <2>2 DEF registry
  <1>9. CASE UNCHANGED vars
    BY <1>9 DEF vars, registry, traffic, calls
  <1> QED BY <1>1, <1>2, <1>4, <1>5, <1>6, <1>7, <1>8, <1>9 DEF Next, Work

\* The registry, the links, the traffic and the counters keep their types.
THEOREM NetworkTyped == Spec => []TypeOK
  <1>1. Init => OnceInv /\ CountInv
    <2> SUFFICES ASSUME Init
                 PROVE  CountInv
      BY OnceInit
    <2>1. strikeCount \in [Nodes -> Nat] /\ configured \in [Nodes -> SUBSET Nodes]
      BY NodesAssumption DEF Init
    <2>2. changes \in 0 .. MaxChanges /\ reported = {} /\ relinked = {}
      BY LimitsAssumption DEF Init
    <2> QED BY <2>1, <2>2, EmptyIsABag DEF Init, CountInv
  <1>2. OnceInv /\ CountInv /\ [Next]_vars => OnceInv' /\ CountInv'
    BY OnceNext, CountNext DEF OnceInv, RegistryInv
  <1>3. ASSUME OnceInv, CountInv
        PROVE  TypeOK
    <2>1. DOMAIN sends \subseteq 1 .. MaxSends
      BY <1>3, LimitsAssumption DEF OnceInv, HistoryOK
    <2>2. Envelope \subseteq Envelopes
      BY <2>1 DEF Envelope, Envelopes
    <2>3. BagToSet(messages) \subseteq Envelopes /\ BagToSet(verified) \subseteq Envelopes
      BY <1>3, <2>2 DEF OnceInv, HistoryOK, Waiting
    <2>4. BagToSet(delivered) \subseteq Nodes \X (1 .. MaxSends)
      BY <1>3, <2>1 DEF OnceInv, HistoryOK
    <2>5. /\ inboxes \subseteq Nodes /\ pubKeys \subseteq Nodes /\ out \subseteq Nodes
          /\ peers \in [Nodes -> SUBSET Nodes] /\ BagToSet(accused) \subseteq Nodes
          /\ sends \in Seq([from: Nodes, reach: SUBSET Nodes, signed: BOOLEAN])
      BY <1>3 DEF OnceInv, RegistryInv, LinksInv, TrafficOK, HistoryOK
    <2> QED BY <1>3, <2>3, <2>4, <2>5 DEF TypeOK, CountInv
  <1> QED BY <1>1, <1>2, <1>3, PTL DEF Spec
=============================================================================
