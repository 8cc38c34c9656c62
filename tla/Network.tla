------------------------------- MODULE Network -------------------------------
(***************************************************************************)
(* SimulatedNetwork: who is registered, who is linked to whom, which keys  *)
(* are known, and what becomes of an envelope between Broadcast or Unicast *)
(* and the inbox of its receiver.  Delays and the number of workers are    *)
(* left open: any envelope may be the next one a worker looks at.  The     *)
(* capacities of the queue and of the inboxes, and Stop, are the subject   *)
(* of the module Delivery.                                                 *)
(*                                                                         *)
(* A definition under "Fault:" is a wrong version of the one after it, for *)
(* testing that the properties notice it.                                  *)
(***************************************************************************)
EXTENDS Integers, FiniteSets, Sequences, Bags

CONSTANTS
  Nodes,       \* ids of the validators
  Honest,      \* those that sign, bring a key and unicast to their peers only
  PeerList,    \* the peers each validator is registered with
  NewLists,    \* the peer lists it may be given later
  MaxStrikes,  \* maxStrikes
  RetryLimit,  \* sigRetryLimit
  MaxSends,    \* bound on the calls of Broadcast and Unicast
  MaxChanges   \* bound on the calls of Register and UpdatePeers after set-up

ASSUME NodesAssumption ==
  /\ IsFiniteSet(Nodes) /\ Nodes \subseteq Nat
  /\ Honest \subseteq Nodes
  /\ PeerList \in [Nodes -> SUBSET Nodes]
  /\ NewLists \subseteq SUBSET Nodes

ASSUME LimitsAssumption ==
  /\ MaxStrikes \in Nat \ {0}
  /\ RetryLimit \in Nat
  /\ MaxSends \in Nat
  /\ MaxChanges \in Nat

VARIABLES
  inboxes,      \* validators with an inbox
  pubKeys,      \* validators whose key is known
  peers,        \* the links of each validator
  strikeCount,  \* misbehaviour counted against each validator
  messages,     \* envelopes between two attempts to deliver them
  verified,     \* envelopes past the checks, on their way into the inbox
  accused,      \* validators whose strike is decided but not yet counted
  delivered,    \* <<receiver, send>> of every message put into an inbox
  sends,        \* history: sender and reach of each Broadcast and Unicast
  changes,      \* calls of Register and UpdatePeers after set-up
  configured,   \* Node.peers: the peer list of each validator, as it knows it
  reported,     \* <<reporter, offender>>: a validator reports another once
  out,          \* history: validators that were disconnected at some time
  relinked      \* history: validators that changed their links at some time

registry == <<inboxes, pubKeys, peers, strikeCount, out>>
traffic == <<messages, verified, accused, delivered>>
calls == <<sends, changes, configured, reported, relinked>>

vars == <<registry, traffic, calls>>

Envelopes ==
  [from: Nodes, to: Nodes, send: 1 .. MaxSends, signed: BOOLEAN, retries: 0 .. RetryLimit]
-----------------------------------------------------------------------------
\* Fault: the other end of a new link does not learn of it.
SetPeersOneWay(links, id, list) ==
  [v \in Nodes |->
     IF v = id THEN list \ {id}
     ELSE IF v \in links[id] THEN links[v] \ {id} ELSE links[v]]

\* Replaces the links of id, at both ends.
SetPeers(links, id, list) ==
  [v \in Nodes |->
     IF v = id THEN list \ {id}
     ELSE IF v \in list THEN links[v] \cup {id}
     ELSE IF v \in links[id] THEN links[v] \ {id} ELSE links[v]]

Remove(links, id) ==
  [v \in Nodes |->
     IF v = id THEN {}
     ELSE IF v \in links[id] THEN links[v] \ {id} ELSE links[v]]

\* Fault: a broadcast goes to the neighbours and no further.
ReachNeighbours(from) == (peers[from] \cap inboxes) \ {from}

\* Where a broadcast goes: a breadth-first traversal of the links, wave after
\* wave, that passes through validators with an inbox only.
Reach(from) ==
  LET wave[k \in 0 .. Cardinality(Nodes)] ==
        IF k = 0 THEN {from}
        ELSE wave[k - 1] \cup UNION {peers[v] \cap inboxes : v \in wave[k - 1]}
  IN  wave[Cardinality(Nodes)] \ {from}

\* buildRingPeers, for the ids from 0 on; a validator alone has no peers.
Ring ==
  [v \in Nodes |-> {(v - 1 + Cardinality(Nodes)) % Cardinality(Nodes),
                    (v + 1) % Cardinality(Nodes)} \ {v}]

\* buildFullPeers.
Full == [v \in Nodes |-> Nodes \ {v}]

\* The links RunSimulation and the tests set up: each validator is registered with
\* its peer list, in the order of the ids, and the later of two registrations decides
\* whether there is a link between them.
SetUp ==
  [v \in Nodes |->
     {w \in Nodes : (v < w /\ v \in PeerList[w]) \/ (w < v /\ w \in PeerList[v])}]

Init ==
  /\ inboxes = Nodes
  /\ pubKeys \in {K \in SUBSET Nodes : Honest \subseteq K}
  /\ peers = SetUp
  /\ strikeCount = [v \in Nodes |-> 0]
  /\ messages = EmptyBag /\ verified = EmptyBag /\ accused = EmptyBag
  /\ delivered = EmptyBag
  /\ sends = <<>>
  /\ changes = 0
  /\ configured = PeerList
  /\ reported = {}
  /\ out = {} /\ relinked = {}
-----------------------------------------------------------------------------
\* Whether the next strike of v is the one that disconnects it.
LastStrike(v) == strikeCount[v] + 1 >= MaxStrikes

\* recordMisbehavior with disconnectLocked.
RecordMisbehavior(v) ==
  /\ strikeCount' = [strikeCount EXCEPT ![v] = @ + 1]
  /\ IF LastStrike(v)
     THEN /\ inboxes' = inboxes \ {v}
          /\ pubKeys' = pubKeys \ {v}
          /\ peers' = Remove(peers, v)
          /\ out' = out \cup {v}
     ELSE UNCHANGED <<inboxes, pubKeys, peers, out>>

\* A validator registers again, with or without its key; the network keeps a
\* key it knows.
Register(id, list, withKey) ==
  /\ changes < MaxChanges
  /\ id \in Honest => withKey
  /\ changes' = changes + 1
  /\ inboxes' = inboxes \cup {id}
  /\ pubKeys' = IF withKey THEN pubKeys \cup {id} ELSE pubKeys
  /\ peers' = SetPeers(peers, id, list)
  /\ configured' = [configured EXCEPT ![id] = list]
  /\ relinked' = relinked \cup {id}
  /\ UNCHANGED <<traffic, strikeCount, sends, reported, out>>

UpdatePeers(id, list) ==
  /\ changes < MaxChanges
  /\ changes' = changes + 1
  /\ peers' = SetPeers(peers, id, list)
  /\ configured' = [configured EXCEPT ![id] = list]
  /\ relinked' = relinked \cup {id}
  /\ UNCHANGED <<traffic, inboxes, pubKeys, strikeCount, sends, reported, out>>

\* One envelope for each validator of `reach`.
Send(from, reach, signed) ==
  /\ sends' = Append(sends, [from |-> from, reach |-> reach, signed |-> signed])
  /\ messages' = messages (+) SetToBag(
       {[from |-> from, to |-> v, send |-> Len(sends) + 1, signed |-> signed,
         retries |-> 0] : v \in reach})

Broadcast(from, signed) ==
  /\ Len(sends) < MaxSends
  /\ from \in Honest => signed
  /\ Send(from, Reach(from), signed)
  /\ UNCHANGED <<registry, verified, accused, delivered, changes, configured, reported, relinked>>

\* To somebody without a link: a strike, for which the lock is taken again.
Unicast(from, to, signed) ==
  /\ Len(sends) < MaxSends
  /\ from \in Honest => signed /\ to \in configured[from] \ {from}
  /\ IF to \in peers[from]
     THEN Send(from, {to}, signed) /\ UNCHANGED accused
     ELSE /\ sends' = Append(sends, [from |-> from, reach |-> {}, signed |-> signed])
          /\ accused' = accused (+) SetToBag({from})
          /\ UNCHANGED messages
  /\ UNCHANGED <<registry, verified, delivered, changes, configured, reported, relinked>>

\* Evidence of a double vote; its reporter jails the offender and never reports
\* it again.
ReportMisbehavior(reporter, offender) ==
  /\ offender \notin Honest /\ <<reporter, offender>> \notin reported
  /\ reported' = reported \cup {<<reporter, offender>>}
  /\ RecordMisbehavior(offender)
  /\ UNCHANGED <<traffic, sends, changes, configured, relinked>>
-----------------------------------------------------------------------------
\* Fault: the retries are not counted.
RetriedUncounted(e) == e

\* Fault: they are counted by deliver and by enqueue.
RetriedTwice(e) == [e EXCEPT !.retries = @ + 2]

Retried(e) == [e EXCEPT !.retries = @ + 1]

\* Fault: the receiver pays.
ReceiverPays(e) == e.to

\* Who pays for a message that cannot be verified.
Offender(e) == e.from

\* Fault: a message is dropped when its ends are no longer linked.
ReceivesAlongLink(e) == e.to \in inboxes \cap peers[e.from]

Receives(e) == e.to \in inboxes

Retries(e) == e.from \notin pubKeys /\ e.retries < RetryLimit

\* A missing and an invalid signature are treated alike.
Verifies(e) == e.from \in pubKeys /\ e.signed

\* deliver up to the lock that it releases: what it found decides what it does
\* after.
Deliver(e) ==
  LET rest == messages (-) SetToBag({e})
  IN  /\ \/ /\ ~Receives(e)
            /\ messages' = rest
            /\ UNCHANGED <<verified, accused>>
         \/ /\ Receives(e) /\ Retries(e)
            /\ messages' = rest (+) SetToBag({Retried(e)})
            /\ UNCHANGED <<verified, accused>>
         \/ /\ Receives(e) /\ Verifies(e)
            /\ messages' = rest
            /\ verified' = verified (+) SetToBag({e})
            /\ UNCHANGED accused
         \/ /\ Receives(e) /\ ~Retries(e) /\ ~Verifies(e)
            /\ messages' = rest
            /\ accused' = accused (+) SetToBag({Offender(e)})
            /\ UNCHANGED verified
      /\ UNCHANGED <<registry, calls, delivered>>

\* The strike of deliver or Unicast, once the lock is free.
Punish(v) ==
  /\ BagIn(v, accused)
  /\ accused' = accused (-) SetToBag({v})
  /\ RecordMisbehavior(v)
  /\ UNCHANGED <<calls, messages, verified, delivered>>

\* The message goes into the inbox deliver has read, even if its owner has been
\* disconnected since.
PutIntoInbox(e) ==
  /\ BagIn(e, verified)
  /\ verified' = verified (-) SetToBag({e})
  /\ delivered' = delivered (+) SetToBag({<<e.to, e.send>>})
  /\ UNCHANGED <<registry, calls, messages, accused>>

\* What the workers do.
Work ==
  \/ \E e \in BagToSet(messages) : Deliver(e)
  \/ \E v \in BagToSet(accused) : Punish(v)
  \/ \E e \in BagToSet(verified) : PutIntoInbox(e)

Next ==
  \/ Work
  \/ \E id \in Nodes, list \in NewLists :
       UpdatePeers(id, list) \/ \E withKey \in BOOLEAN : Register(id, list, withKey)
  \/ \E from \in Nodes, signed \in BOOLEAN :
       Broadcast(from, signed) \/ \E to \in Nodes : Unicast(from, to, signed)
  \/ \E reporter, offender \in Nodes : ReportMisbehavior(reporter, offender)

Spec == Init /\ [][Next]_vars

\* Some worker goes on as long as there is work.
FairSpec == Spec /\ WF_vars(Work)
-----------------------------------------------------------------------------
TypeOK ==
  /\ inboxes \subseteq Nodes /\ pubKeys \subseteq Nodes
  /\ peers \in [Nodes -> SUBSET Nodes]
  /\ strikeCount \in [Nodes -> Nat]
  /\ IsABag(messages) /\ BagToSet(messages) \subseteq Envelopes
  /\ IsABag(verified) /\ BagToSet(verified) \subseteq Envelopes
  /\ IsABag(accused) /\ BagToSet(accused) \subseteq Nodes
  /\ IsABag(delivered) /\ BagToSet(delivered) \subseteq Nodes \X (1 .. MaxSends)
  /\ sends \in Seq([from: Nodes, reach: SUBSET Nodes, signed: BOOLEAN])
  /\ changes \in 0 .. MaxChanges
  /\ configured \in [Nodes -> SUBSET Nodes]
  /\ reported \subseteq Nodes \X Nodes
  /\ out \subseteq Nodes /\ relinked \subseteq Nodes

\* Links have two ends, whatever sequence of registrations, new peer lists and
\* disconnections led to them (setPeersLocked, disconnectLocked): gossip that
\* gets from one validator to another also gets back.
LinksSymmetric ==
  \A v, w \in Nodes : v \notin peers[v] /\ (w \in peers[v] <=> v \in peers[w])

\* How many copies of message k for w there are, on the way and delivered.
Copies(w, k) ==
  LET Of(bag) == {e \in BagToSet(bag) : e.to = w /\ e.send = k}
  IN  (IF BagIn(<<w, k>>, delivered) THEN delivered[<<w, k>>] ELSE 0)
        + BagCardinality([e \in Of(messages) |-> messages[e]])
        + BagCardinality([e \in Of(verified) |-> verified[e]])

\* A message of an honest validator is never lost and never doubled by retries,
\* new links or workers, unless its sender or its receiver was disconnected: each
\* validator it was sent to has it once, or it is on its way there (Broadcast,
\* deliver).
EachOnce ==
  \A k \in DOMAIN sends : sends[k].from \in Honest =>
    \A w \in sends[k].reach :
      \/ Copies(w, k) = 1
      \/ Copies(w, k) = 0 /\ {sends[k].from, w} \cap out # {}

\* A validator that signs its messages, has registered its key and unicasts to the
\* peers it was configured with is struck only when somebody else's links had
\* changed or been cut, of which the network does not inform it.  So the first
\* validator the network cuts off in a fixed topology deserved it.
HonestStruckByStaleLink ==
  \A v \in Honest :
    strikeCount[v] > 0 \/ BagIn(v, accused) => (out \cup relinked) \ {v} # {}

\* Unless links are changed, gossip from any validator reaches all that are connected
\* as long as one at most was cut off: in the ring of RunSimulation (buildRingPeers)
\* traffic goes the other way round.
GossipSurvivesOneLoss ==
  Cardinality(out) <= 1 /\ relinked = {} =>
    \A v \in Nodes \ out : Reach(v) = Nodes \ (out \cup {v})

\* Retries come to an end: what is handed to the network is delivered, dropped or
\* punished in the end.
WorkEnds ==
  []<>(messages = EmptyBag /\ accused = EmptyBag /\ verified = EmptyBag)
=============================================================================
