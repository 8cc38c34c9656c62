------------------------------ MODULE Delivery ------------------------------
(***************************************************************************)
(* Who waits for whom in one height: validators in Broadcast wait for the  *)
(* queue, workers for the inbox of a validator or, with a message to retry,*)
(* for the queue, and a validator that has returned, or is in Broadcast,   *)
(* reads nothing.  All validators are linked to all, as in the tests; what *)
(* a message says, and with it when a validator sends and when it returns, *)
(* is left open.                                                           *)
(***************************************************************************)
EXTENDS Integers, FiniteSets, Sequences

LOCAL INSTANCE SequencesExt

CONSTANTS
  Validators,    \* ids of the validators
  Workers,       \* the goroutines of NewSimulatedNetwork
  QueueCap,      \* capacity of the channel messages: 1024
  InboxCap,      \* capacity of the channel In: 64
  RetryLimit,    \* sigRetryLimit
  Keyless,       \* validators registered without a key, which may come later
  MaxBroadcasts, \* bound on the broadcasts of a validator
  Idle, Exited   \* states of a worker without an envelope

Envelopes ==
  [from: Validators, to: Validators, n: 1 .. MaxBroadcasts, retries: 0 .. RetryLimit]

ASSUME DeliveryAssumption ==
  /\ IsFiniteSet(Validators) /\ IsFiniteSet(Workers)
  /\ {QueueCap, InboxCap, MaxBroadcasts} \subseteq Nat \ {0}
  /\ RetryLimit \in Nat
  /\ Keyless \subseteq Validators
  /\ Idle # Exited /\ {Idle, Exited} \cap Envelopes = {}

VARIABLES
  queue,       \* the channel messages
  worker,      \* the envelope each worker is in deliver with
  retrying,    \* workers that are in enqueue with their envelope
  inbox,       \* the channel In of each validator
  toSend,      \* envelopes that the Broadcast a validator is in has yet to enqueue
  broadcasts,  \* how often each validator has called Broadcast
  returned,    \* validators whose StartConsensus has returned
  keys,        \* validators whose key is known
  stopped      \* stopCh is closed

workers == <<worker, retrying>>
nodes == <<toSend, broadcasts, returned>>

vars == <<workers, nodes, queue, inbox, keys, stopped>>

Init ==
  /\ queue = <<>>
  /\ worker = [w \in Workers |-> Idle]
  /\ retrying = {}
  /\ inbox = [v \in Validators |-> <<>>]
  /\ toSend = [v \in Validators |-> <<>>]
  /\ broadcasts = [v \in Validators |-> 0]
  /\ returned = {}
  /\ keys = Validators \ Keyless
  /\ stopped = FALSE

QueueHasRoom == Len(queue) < QueueCap

InboxHasRoom(v) == Len(inbox[v]) < InboxCap
-----------------------------------------------------------------------------
\* One envelope for each of the others, in the order of the traversal.
Broadcast(v) ==
  /\ v \notin returned /\ toSend[v] = <<>> /\ broadcasts[v] < MaxBroadcasts
  /\ broadcasts' = [broadcasts EXCEPT ![v] = @ + 1]
  /\ \E order \in SetToSeqs(Validators \ {v}) :
       toSend' = [toSend EXCEPT ![v] =
         [i \in DOMAIN order |-> [from |-> v, to |-> order[i], n |-> broadcasts'[v],
                                  retries |-> 0]]]
  /\ UNCHANGED <<workers, returned, queue, inbox, keys, stopped>>

\* enqueue, called by Broadcast: waits for room in the queue.
Enqueue(v) ==
  /\ toSend[v] # <<>> /\ QueueHasRoom
  /\ queue' = Append(queue, Head(toSend[v]))
  /\ toSend' = [toSend EXCEPT ![v] = Tail(@)]
  /\ UNCHANGED <<workers, broadcasts, returned, inbox, keys, stopped>>

\* runRound takes the next message.
Read(v) ==
  /\ v \notin returned /\ toSend[v] = <<>> /\ inbox[v] # <<>>
  /\ inbox' = [inbox EXCEPT ![v] = Tail(@)]
  /\ UNCHANGED <<workers, nodes, queue, keys, stopped>>

\* StartConsensus returns: the validator has committed or aborted.
Return(v) ==
  /\ v \notin returned /\ toSend[v] = <<>>
  /\ returned' = returned \cup {v}
  /\ UNCHANGED <<workers, toSend, broadcasts, queue, inbox, keys, stopped>>

\* A later Register brings the key.
RegisterKey(v) ==
  /\ v \notin keys
  /\ keys' = keys \cup {v}
  /\ UNCHANGED <<workers, nodes, queue, inbox, stopped>>

\* RunSimulation and the tests stop the network when RunConsensus has returned.
Stop ==
  /\ ~stopped /\ returned = Validators
  /\ stopped' = TRUE
  /\ UNCHANGED <<workers, nodes, queue, inbox, keys>>
-----------------------------------------------------------------------------
InDeliver(w) == worker[w] \notin {Idle, Exited}

\* process takes an envelope, also when stopCh is closed as well.
Take(w) ==
  /\ worker[w] = Idle /\ queue # <<>>
  /\ worker' = [worker EXCEPT ![w] = Head(queue)]
  /\ queue' = Tail(queue)
  /\ UNCHANGED <<nodes, retrying, inbox, keys, stopped>>

\* Fault: one retry more than the limit.
StartRetryOnceMore(w) ==
  /\ ~stopped /\ InDeliver(w) /\ w \notin retrying
  /\ worker[w].from \notin keys /\ worker[w].retries <= RetryLimit
  /\ retrying' = retrying \cup {w}
  /\ UNCHANGED <<nodes, worker, queue, inbox, keys, stopped>>

\* A message without a key is to be enqueued again, by the worker itself: the first
\* select of enqueue, which lets it go on unless stopCh is closed ...
StartRetry(w) ==
  /\ ~stopped /\ InDeliver(w) /\ w \notin retrying
  /\ worker[w].from \notin keys /\ worker[w].retries < RetryLimit
  /\ retrying' = retrying \cup {w}
  /\ UNCHANGED <<nodes, worker, queue, inbox, keys, stopped>>

\* ... and the second, which waits for room in the queue, whether or not the key
\* comes in the meantime, and may send though stopCh has been closed since.
Requeue(w) ==
  /\ w \in retrying /\ QueueHasRoom
  /\ queue' = Append(queue, [worker[w] EXCEPT !.retries = @ + 1])
  /\ worker' = [worker EXCEPT ![w] = Idle]
  /\ retrying' = retrying \ {w}
  /\ UNCHANGED <<nodes, inbox, keys, stopped>>

\* Fault: a refused message ends the worker.
RefuseAndExit(w) ==
  LET e == worker[w]
  IN  /\ InDeliver(w) /\ e.from \notin keys /\ e.retries = RetryLimit
      /\ worker' = [worker EXCEPT ![w] = Exited]
      /\ UNCHANGED <<nodes, retrying, queue, inbox, keys, stopped>>

\* The retries are used up: a strike for the sender.
Refuse(w) ==
  LET e == worker[w]
  IN  /\ InDeliver(w) /\ e.from \notin keys /\ e.retries = RetryLimit
      /\ worker' = [worker EXCEPT ![w] = Idle]
      /\ UNCHANGED <<nodes, retrying, queue, inbox, keys, stopped>>

PutIntoInbox(w) ==
  LET e == worker[w]
  IN  /\ InDeliver(w) /\ w \notin retrying /\ e.from \in keys /\ InboxHasRoom(e.to)
      /\ inbox' = [inbox EXCEPT ![e.to] = Append(@, e)]
      /\ worker' = [worker EXCEPT ![w] = Idle]
      /\ UNCHANGED <<nodes, retrying, queue, keys, stopped>>

\* Fault: only the delay is cut short, the send into the inbox is not.
GiveUpDelayOnly(w) ==
  /\ stopped /\ InDeliver(w) /\ InboxHasRoom(worker[w].to)
  /\ worker' = [worker EXCEPT ![w] = Idle]
  /\ retrying' = retrying \ {w}
  /\ UNCHANGED <<nodes, queue, inbox, keys, stopped>>

\* Every place where a worker waits in deliver also waits for stopCh.
GiveUp(w) ==
  /\ stopped /\ InDeliver(w)
  /\ worker' = [worker EXCEPT ![w] = Idle]
  /\ retrying' = retrying \ {w}
  /\ UNCHANGED <<nodes, queue, inbox, keys, stopped>>

Exit(w) ==
  /\ stopped /\ worker[w] = Idle
  /\ worker' = [worker EXCEPT ![w] = Exited]
  /\ UNCHANGED <<nodes, retrying, queue, inbox, keys, stopped>>

Process(w) ==
  \/ Take(w)
  \/ StartRetry(w) \/ Requeue(w)
  \/ Refuse(w)
  \/ PutIntoInbox(w)
  \/ GiveUp(w)
  \/ Exit(w)

Next ==
  \/ Stop
  \/ \E v \in Validators :
       Broadcast(v) \/ Enqueue(v) \/ Read(v) \/ Return(v) \/ RegisterKey(v)
  \/ \E w \in Workers : Process(w)

Spec == Init /\ [][Next]_vars

\* Goroutines that can go on do.  When a validator sends or returns, and whether a
\* missing key ever comes, is not assumed.
FairSpec ==
  /\ Spec
  /\ \A v \in Validators : WF_vars(Enqueue(v)) /\ WF_vars(Read(v))
  /\ \A w \in Workers : WF_vars(Process(w))
-----------------------------------------------------------------------------
TypeOK ==
  /\ queue \in Seq(Envelopes) /\ Len(queue) <= QueueCap
  /\ worker \in [Workers -> Envelopes \cup {Idle, Exited}]
  /\ retrying \subseteq {w \in Workers : InDeliver(w)}
  /\ inbox \in [Validators -> Seq(Envelopes)]
  /\ \A v \in Validators : Len(inbox[v]) <= InboxCap
  /\ toSend \in [Validators -> Seq(Envelopes)]
  /\ broadcasts \in [Validators -> 0 .. MaxBroadcasts]
  /\ returned \subseteq Validators /\ keys \subseteq Validators
  /\ stopped \in BOOLEAN

\* Nothing more is delivered: the queue is full and every worker waits, in enqueue
\* for room in the queue, or for room in the inbox of a validator that reads nothing,
\* because it has returned or is itself in Broadcast.
Jam ==
  /\ ~QueueHasRoom
  /\ \A w \in Workers :
       \/ w \in retrying
       \/ /\ InDeliver(w) /\ ~InboxHasRoom(worker[w].to)
          /\ worker[w].to \in returned \/ toSend[worker[w].to] # <<>>

\* Full channels, of validators that have returned or of the queue itself, hold up a
\* Broadcast or a retry only when they hold up everyone: unless there is a jam, a
\* validator gets out of Broadcast and a worker out of enqueue (Broadcast, deliver).
WaitsOnlyInJam ==
  /\ \A v \in Validators : toSend[v] # <<>> ~> toSend[v] = <<>> \/ Jam
  /\ \A w \in Workers : w \in retrying ~> w \notin retrying \/ Jam

\* The comment of enqueue: an envelope is scheduled unless the network is stopping.
\* So no validator waits in Broadcast for ever.  It does in a jam.
BroadcastReturns ==
  \A v \in Validators : toSend[v] # <<>> ~> toSend[v] = <<>>

\* The same comment, for a worker that puts an envelope back (deliver): it gets out of
\* enqueue.  It does not when all workers wait for room in the queue that only they
\* drain, though every inbox has room.
RetriesEnqueued ==
  \A w \in Workers : w \in retrying ~> w \notin retrying

\* Stop returns, wherever the workers wait when it is called.
StopReturns == stopped ~> \A w \in Workers : worker[w] = Exited
=============================================================================
