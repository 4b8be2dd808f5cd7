------------------------------- MODULE DotnetAdapter -------------------------------
(***************************************************************************)
(* The capture adapter of adapters/dotnet, HttpInspectorAdapter.cs: the    *)
(* callers that capture exchanges and database commands, the connection    *)
(* worker, the observers that wait for acknowledgements, the heartbeat and *)
(* the stop.  Every block under the adapter's _gate is one action; the     *)
(* worker, the observers and the callers interleave between them.          *)
(*                                                                         *)
(* The listener is the environment: it accepts or rejects any message, the *)
(* connection may break at any time, a hello may be refused.               *)
(***************************************************************************)
EXTENDS Integers, Sequences, FiniteSets, SequencesExt

CONSTANTS
  None,           (* null                                                   *)
  Exchanges,      (* exchange ids of the handles the application opens      *)
  Commands,       (* database command ids                                   *)
  Outcomes,       (* how exchanges end                                      *)
  HttpCapacity,   (* QueueCapacity                                          *)
  DatabaseCapacity,  (* DatabaseQueueCapacity                               *)
  MaxConnects,    (* bound on the connections that are established          *)
  MaxHeartbeats   (* bound on the heartbeats that are queued                *)

ASSUME OutcomesAssumption == Outcomes \subseteq {"completed", "failed", "cancelled"}
ASSUME CapacityAssumption ==
  /\ HttpCapacity \in Nat \ {0} /\ DatabaseCapacity \in Nat \ {0}
  /\ MaxConnects \in Nat /\ MaxHeartbeats \in Nat

VARIABLES
  started,          (* _started                                             *)
  stop,             (* how far StopAsync is; _stopped from "stopping" on    *)
  handle,           (* handles: unused, open, or done (TerminalQueued)      *)
  tracked,          (* _exchanges: revision and state, or None              *)
  trackedCommands,  (* the keys of _databaseCommands                        *)
  queue,            (* _queue and _databaseQueue                            *)
  pending,          (* _pending and _databasePending                        *)
  awaiting,         (* messages whose observer waits for the listener       *)
  refused,          (* rejected retryably, and not requeued yet             *)
  failed,           (* observers holding an exception, not requeued yet     *)
  signalling,       (* requeued after one, and not signalled a fault yet    *)
  lost,             (* auxiliary: what the listener refused for good        *)
  worker,           (* where the connection worker is                       *)
  inHand,           (* the message it took and has not dispatched           *)
  wake,             (* _wake: a release is available                        *)
  session,          (* _negotiatedSession: does it take database commands   *)
  faulted,          (* _connectionFaulted                                   *)
  connects,         (* connections established so far (0: ~_hasConnected)   *)
  reconnectDisabled,
  heartbeats        (* heartbeats queued so far                             *)

callerVars == <<started, handle>>
trackVars == <<tracked, trackedCommands>>
observerVars == <<awaiting, refused, failed, signalling, lost>>
workerVars == <<worker, inHand, session, connects, reconnectDisabled>>
adapterVars == <<started, stop, handle, tracked, trackedCommands, queue, pending,
                 awaiting, refused, failed, signalling, lost, worker, inHand, wake, session, faulted,
                 connects, reconnectDisabled, heartbeats>>

Stream == {"http", "database"}
Capacity(stream) == IF stream = "http" THEN HttpCapacity ELSE DatabaseCapacity

(***************************************************************************)
(* Outbound messages, by what identifies them: a start, the terminal       *)
(* message (always revision 2) or a recovery snapshot of an exchange, the  *)
(* start or terminal message of a command, or a heartbeat.                 *)
(***************************************************************************)
Message ==
  [stream : {"http"}, kind : {"started", "terminal", "snapshot"}, subject : Exchanges,
   revision : Nat, state : {"inFlight"} \cup Outcomes] \cup
  [stream : {"database"}, kind : {"started", "terminal"}, subject : Commands,
   revision : {1, 2}, state : {"inFlight", "ended"}] \cup
  [stream : {"http"}, kind : {"heartbeat"}, subject : {None},
   revision : Nat, state : {"inFlight"}]

(* What _exchanges keeps of an exchange. *)
ExchangeState == [revision : Nat, state : {"inFlight"} \cup Outcomes]

ASSUME IdsAssumption ==
  /\ Exchanges \cap Commands = {}
  /\ None \notin Exchanges \cup Commands \cup Message \cup ExchangeState

StartedMessage(x) ==
  [stream |-> "http", kind |-> "started", subject |-> x, revision |-> 1, state |-> "inFlight"]
TerminalMessage(x, outcome) ==
  [stream |-> "http", kind |-> "terminal", subject |-> x, revision |-> 2, state |-> outcome]
SnapshotMessage(x, e) ==
  [stream |-> "http", kind |-> "snapshot", subject |-> x, revision |-> e.revision, state |-> e.state]

(* Faulty variant of the next: commands count their revisions from zero. *)
CommandMessageFromZero(d, kind) ==
  [stream |-> "database", kind |-> kind, subject |-> d,
   revision |-> IF kind = "started" THEN 0 ELSE 1,
   state |-> IF kind = "started" THEN "inFlight" ELSE "ended"]

CommandMessage(d, kind) ==
  [stream |-> "database", kind |-> kind, subject |-> d,
   revision |-> IF kind = "started" THEN 1 ELSE 2,
   state |-> IF kind = "started" THEN "inFlight" ELSE "ended"]

HeartbeatMessage(n) ==
  [stream |-> "http", kind |-> "heartbeat", subject |-> None, revision |-> n, state |-> "inFlight"]

(* ReleasesExchangeOnAcknowledgement, ReleasesDatabaseCommandOnAcknowledgement. *)
Releases(m) == m.kind \in {"terminal", "snapshot"} /\ m.state # "inFlight"

AdapterInit ==
  /\ started = FALSE /\ stop = "no"
  /\ handle = [x \in Exchanges \cup Commands |-> "unused"]
  /\ tracked = [x \in Exchanges |-> None] /\ trackedCommands = {}
  /\ queue = [s \in Stream |-> <<>>] /\ pending = [s \in Stream |-> {}]
  /\ awaiting = {} /\ refused = {} /\ failed = {} /\ signalling = {}
  /\ lost = {}
  /\ worker = "none" /\ inHand = None /\ wake = FALSE
  /\ session = None /\ faulted = FALSE /\ connects = 0 /\ reconnectDisabled = FALSE
  /\ heartbeats = 0

Stopped == stop # "no"
Cancelled == stop \notin {"no", "stopping"}

-----------------------------------------------------------------------------------
(* Queueing, under _gate. *)

(***************************************************************************)
(* TryEnqueueLocked and TryEnqueueDatabaseLocked.  A release of _wake is   *)
(* modelled as a flag: further releases only cause further empty rounds.   *)
(***************************************************************************)
IsFull(stream) == Len(queue[stream]) + Cardinality(pending[stream]) >= Capacity(stream)

Enqueues(stream) ==
  /\ ~IsFull(stream)
  /\ stream = "database" => session # FALSE

Enqueue(m) == queue' = [queue EXCEPT ![m.stream] = Append(@, m)]

-----------------------------------------------------------------------------------
(* The application's calls. *)

Start ==
  /\ ~started /\ ~Stopped
  /\ started' = TRUE
  /\ worker' = "connecting"
  /\ UNCHANGED <<stop, handle, trackVars, queue, pending, observerVars, inHand, wake,
                 session, faulted, connects, reconnectDisabled, heartbeats>>

(* CaptureStarted and CaptureDatabaseStarted, after their call of Start. *)
Capture(x, m) ==
  /\ handle[x] = "unused"
  /\ started \/ Stopped
  /\ IF ~Stopped /\ Enqueues(m.stream)
     THEN /\ handle' = [handle EXCEPT ![x] = "open"]
          /\ Enqueue(m)
          /\ IF m.stream = "http"
             THEN /\ tracked' = [tracked EXCEPT ![x] = [revision |-> 1, state |-> "inFlight"]]
                  /\ UNCHANGED trackedCommands
             ELSE /\ trackedCommands' = trackedCommands \cup {x}
                  /\ UNCHANGED tracked
          /\ wake' = TRUE
     ELSE /\ handle' = [handle EXCEPT ![x] = "done"]
          /\ UNCHANGED <<queue, trackVars, wake>>
  /\ UNCHANGED <<started, stop, pending, observerVars, workerVars, faulted, heartbeats>>

CaptureStarted(x) == Capture(x, StartedMessage(x))
CaptureDatabaseStarted(d) == Capture(d, CommandMessage(d, "started"))

(***************************************************************************)
(* QueueTerminal: at most once per handle.  If the queue is full the       *)
(* outcome is dropped and the exchange forgotten.  The adapter's revision  *)
(* becomes 2 whatever it was.                                              *)
(***************************************************************************)
QueueTerminal(x, outcome) ==
  /\ handle[x] = "open"
  /\ handle' = [handle EXCEPT ![x] = "done"]
  /\ IF Stopped \/ tracked[x] = None
     THEN UNCHANGED <<queue, tracked, wake>>
     ELSE IF Enqueues("http")
     THEN /\ Enqueue(TerminalMessage(x, outcome))
          /\ tracked' = [tracked EXCEPT ![x] = [revision |-> 2, state |-> outcome]]
          /\ wake' = TRUE
     ELSE /\ tracked' = [tracked EXCEPT ![x] = None]
          /\ UNCHANGED <<queue, wake>>
  /\ UNCHANGED <<started, stop, trackedCommands, pending, observerVars, workerVars,
                 faulted, heartbeats>>

QueueDatabaseTerminal(d) ==
  /\ handle[d] = "open"
  /\ handle' = [handle EXCEPT ![d] = "done"]
  /\ IF Stopped \/ d \notin trackedCommands
     THEN UNCHANGED <<queue, trackedCommands, wake>>
     ELSE IF Enqueues("database")
     THEN /\ Enqueue(CommandMessage(d, "terminal"))
          /\ wake' = TRUE
          /\ UNCHANGED trackedCommands
     ELSE /\ trackedCommands' = trackedCommands \ {d}
          /\ UNCHANGED <<queue, wake>>
  /\ UNCHANGED <<started, stop, tracked, pending, observerVars, workerVars, faulted, heartbeats>>

(* One round of HeartbeatWorkerAsync; it wakes the worker even if full. *)
Heartbeat ==
  /\ started /\ ~Stopped /\ session # None
  /\ heartbeats < MaxHeartbeats
  /\ heartbeats' = heartbeats + 1
  /\ IF Enqueues("http") THEN Enqueue(HeartbeatMessage(heartbeats + 1)) ELSE UNCHANGED queue
  /\ wake' = TRUE
  /\ UNCHANGED <<callerVars, stop, trackVars, pending, observerVars, workerVars, faulted>>

-----------------------------------------------------------------------------------
(* The connection worker. *)

(***************************************************************************)
(* ConnectAsync returned a session.  A listener without the capability     *)
(* makes the adapter forget its database messages and commands.            *)
(***************************************************************************)
Connect(database) ==
  /\ worker = "connecting" /\ connects < MaxConnects
  /\ session' = database
  /\ faulted' = FALSE
  /\ connects' = connects + 1
  /\ worker' = IF connects > 0 THEN "recovering" ELSE "running"
  /\ IF database
     THEN UNCHANGED <<queue, pending, trackedCommands>>
     ELSE /\ queue' = [queue EXCEPT !["database"] = <<>>]
          /\ pending' = [pending EXCEPT !["database"] = {}]
          /\ trackedCommands' = {}
  /\ UNCHANGED <<callerVars, stop, tracked, observerVars, inHand, wake, reconnectDisabled, heartbeats>>

(* Faulty variant of the next: the revision is not raised first. *)
RecoveredSameRevision(e) == e

(* QueueRecoverySnapshots raises the revision by two... *)
Recovered(e) == [e EXCEPT !.revision = @ + 2]

(* ...of every tracked exchange, and queues as many snapshots as fit. *)
Recover ==
  LET known == {x \in Exchanges : tracked[x] # None}
      room  == LET left == HttpCapacity - Len(queue["http"]) - Cardinality(pending["http"])
               IN  IF left > 0 THEN left ELSE 0
  IN  /\ worker = "recovering"
      /\ worker' = "running"
      /\ tracked' = [x \in Exchanges |-> IF x \in known THEN Recovered(tracked[x]) ELSE None]
      /\ \E order \in SetToSeqs(known) :
           LET snapshots == [i \in DOMAIN order |-> SnapshotMessage(order[i], tracked'[order[i]])]
               fitting   == IF Len(order) <= room THEN Len(order) ELSE room
           IN  queue' = [queue EXCEPT !["http"] = @ \o SubSeq(snapshots, 1, fitting)]
      /\ wake' = TRUE
      /\ UNCHANGED <<callerVars, stop, trackedCommands, pending, observerVars, inHand, session,
                     faulted, connects, reconnectDisabled, heartbeats>>

(* Transport.CloseAsync: FailPending ends every wait for an answer. *)
CloseTransport ==
  /\ failed' = failed \cup awaiting
  /\ awaiting' = {}

(***************************************************************************)
(* ConnectAsync failed.  A refusal that is not retryable ends the worker   *)
(* for good.  When a cancellation is what interrupts it, the worker ends;  *)
(* but a transport error that is reported after the cancellation passes    *)
(* every catch clause (their filters ask for no cancellation) and escapes. *)
(***************************************************************************)
FailConnect(retryable) ==
  /\ worker = "connecting"
  /\ CloseTransport
  /\ \/ ~Cancelled /\ retryable /\ worker' = "backoff" /\ UNCHANGED reconnectDisabled
     \/ ~Cancelled /\ ~retryable /\ worker' = "ended" /\ reconnectDisabled' = TRUE
     \/ Cancelled /\ worker' \in {"ended", "escaped"} /\ UNCHANGED reconnectDisabled
  /\ UNCHANGED <<lost, callerVars, stop, trackVars, queue, pending, refused, signalling, inHand, wake,
                 session, faulted, connects, heartbeats>>

(* The HTTP queue goes first. *)
NextStream == IF queue["http"] # <<>> THEN "http" ELSE "database"

Dequeue ==
  /\ worker = "running" /\ ~faulted /\ ~Cancelled
  /\ queue[NextStream] # <<>>
  /\ inHand' = Head(queue[NextStream])
  /\ queue' = [queue EXCEPT ![NextStream] = Tail(@)]
  /\ worker' = "dispatching"
  /\ UNCHANGED <<callerVars, stop, trackVars, pending, observerVars, wake, session, faulted,
                 connects, reconnectDisabled, heartbeats>>

Dispatch ==
  /\ worker = "dispatching"
  /\ pending' = [pending EXCEPT ![inHand.stream] = @ \cup {inHand}]
  /\ awaiting' = awaiting \cup {inHand}
  /\ inHand' = None
  /\ worker' = "running"
  /\ UNCHANGED <<lost, callerVars, stop, trackVars, queue, refused, failed, signalling, wake, session,
                 faulted, connects, reconnectDisabled, heartbeats>>

Sleep ==
  /\ worker = "running" /\ ~faulted /\ ~Cancelled
  /\ \A s \in Stream : queue[s] = <<>>
  /\ worker' = "asleep"
  /\ UNCHANGED <<callerVars, stop, trackVars, queue, pending, observerVars, inHand, wake, session,
                 faulted, connects, reconnectDisabled, heartbeats>>

WakeUp ==
  /\ worker = "asleep" /\ wake
  /\ worker' = "running"
  /\ wake' = FALSE
  /\ UNCHANGED <<callerVars, stop, trackVars, queue, pending, observerVars, inHand, session,
                 faulted, connects, reconnectDisabled, heartbeats>>

(***************************************************************************)
(* The loop ends on a fault or a cancellation, and the connection closes.  *)
(* A cancellation between the throw for the fault and its catch filters    *)
(* lets the exception escape here, too.                                    *)
(***************************************************************************)
Disconnect ==
  /\ \/ worker = "running" /\ (faulted \/ Cancelled)
     \/ worker = "asleep" /\ Cancelled
  /\ session' = None
  /\ CloseTransport
  /\ \/ ~Cancelled /\ worker' = "backoff"
     \/ Cancelled /\ worker' = "ended"
     \/ Cancelled /\ worker = "running" /\ faulted /\ worker' = "escaped"
  /\ UNCHANGED <<lost, callerVars, stop, trackVars, queue, pending, refused, signalling, inHand, wake,
                 faulted, connects, reconnectDisabled, heartbeats>>

(* The reconnect delay, which a cancellation ends early. *)
EndBackoff ==
  /\ worker = "backoff"
  /\ worker' = IF Cancelled THEN "ended" ELSE "connecting"
  /\ UNCHANGED <<callerVars, stop, trackVars, queue, pending, observerVars, inHand, wake, session,
                 faulted, connects, reconnectDisabled, heartbeats>>

-----------------------------------------------------------------------------------
(* The observers of dispatched messages. *)

(* Faulty variant of the next: the message stays pending. *)
ForgetNothing(m) == pending' = pending

Forget(m) == pending' = [pending EXCEPT ![m.stream] = @ \ {m}]

Accepted(m) ==
  /\ m \in awaiting
  /\ awaiting' = awaiting \ {m}
  /\ Forget(m)
  /\ IF Releases(m) /\ m.stream = "http"
     THEN tracked' = [tracked EXCEPT ![m.subject] = None]
     ELSE UNCHANGED tracked
  /\ trackedCommands' = IF Releases(m) /\ m.stream = "database"
                        THEN trackedCommands \ {m.subject} ELSE trackedCommands
  /\ UNCHANGED <<lost, callerVars, stop, queue, refused, failed, signalling, wake, workerVars, faulted,
                 heartbeats>>

Rejected(m, retryable) ==
  /\ m \in awaiting
  /\ awaiting' = awaiting \ {m}
  /\ Forget(m)
  /\ IF retryable
     THEN refused' = refused \cup {m} /\ UNCHANGED lost
     ELSE lost' = lost \cup {m} /\ UNCHANGED refused
  /\ UNCHANGED <<callerVars, stop, trackVars, queue, failed, signalling, wake, workerVars, faulted,
                 heartbeats>>

(* The send failed, or the connection was lost before the answer.  What is *)
(* thrown can always be sent again: a message has its id, and no second    *)
(* copy of it waits for an answer (MessagesInOnePlace), so that the two    *)
(* exceptions of SendAsync that may not be retried are never thrown.       *)
FailSend(m) ==
  /\ m \in awaiting
  /\ awaiting' = awaiting \ {m}
  /\ failed' = failed \cup {m}
  /\ UNCHANGED <<lost, callerVars, stop, trackVars, queue, pending, refused, signalling, wake, workerVars,
                 faulted, heartbeats>>

(* The cancellation ends the wait; the message stays pending until the end. *)
Abandon(m) ==
  /\ Cancelled
  /\ m \in awaiting
  /\ awaiting' = awaiting \ {m}
  /\ UNCHANGED <<lost, callerVars, stop, trackVars, queue, pending, refused, failed, signalling, wake,
                 workerVars, faulted, heartbeats>>

(* Faulty variant of the next: nobody wakes the worker. *)
PutBackSilently(m) ==
  IF Stopped THEN UNCHANGED <<queue, wake>>
  ELSE queue' = [queue EXCEPT ![m.stream] = <<m>> \o @] /\ UNCHANGED wake

(* Faulty variant of the next: it also goes back when the adapter stopped. *)
PutBackAlways(m) ==
  queue' = [queue EXCEPT ![m.stream] = <<m>> \o @] /\ wake' = TRUE

(* Faulty variant of the next: it goes back only where the queue has room. *)
PutBackIfRoom(m) ==
  IF Stopped \/ IsFull(m.stream) THEN UNCHANGED <<queue, wake>>
  ELSE queue' = [queue EXCEPT ![m.stream] = <<m>> \o @] /\ wake' = TRUE

(* RequeueForRetry: to the front of its queue, unless the adapter stopped. *)
PutBack(m) ==
  IF Stopped THEN UNCHANGED <<queue, wake>>
  ELSE queue' = [queue EXCEPT ![m.stream] = <<m>> \o @] /\ wake' = TRUE

RetryRefused(m) ==
  /\ m \in refused
  /\ refused' = refused \ {m}
  /\ Forget(m)
  /\ PutBack(m)
  /\ UNCHANGED <<lost, callerVars, stop, trackVars, awaiting, failed, signalling, workerVars, faulted,
                 heartbeats>>

(***************************************************************************)
(* RequeueForRetry, then SignalConnectionFault: an observer of a lost      *)
(* message also faults the connection, which by then may be another one.   *)
(***************************************************************************)
RetryFailed(m) ==
  /\ m \in failed
  /\ failed' = failed \ {m}
  /\ signalling' = signalling \cup {m}
  /\ Forget(m)
  /\ PutBack(m)
  /\ UNCHANGED <<lost, callerVars, stop, trackVars, awaiting, refused, workerVars, faulted, heartbeats>>

SignalConnectionFault(m) ==
  /\ m \in signalling
  /\ signalling' = signalling \ {m}
  /\ faulted' = TRUE
  /\ wake' = TRUE
  /\ UNCHANGED <<lost, callerVars, stop, trackVars, queue, pending, awaiting, refused, failed, workerVars,
                 heartbeats>>

-----------------------------------------------------------------------------------
(* StopAsync.  Its flush returns at once and sends nothing. *)

BeginStop ==
  /\ stop = "no"
  /\ stop' = "stopping"
  /\ UNCHANGED <<callerVars, trackVars, queue, pending, observerVars, workerVars, wake, faulted,
                 heartbeats>>

CancelWorkers ==
  /\ stop = "stopping"
  /\ stop' = "cancelled"
  /\ wake' = TRUE
  /\ UNCHANGED <<callerVars, trackVars, queue, pending, observerVars, workerVars, faulted, heartbeats>>

CloseForStop ==
  /\ stop = "cancelled"
  /\ stop' = "closed"
  /\ CloseTransport
  /\ UNCHANGED <<lost, callerVars, trackVars, queue, pending, refused, signalling, workerVars, wake, faulted,
                 heartbeats>>

(***************************************************************************)
(* StopAsync waits for the worker and forgets everything, unless waiting   *)
(* rethrows what escaped the worker.                                       *)
(***************************************************************************)
EndStop ==
  /\ stop = "closed"
  /\ \/ /\ worker \in {"none", "ended"}
        /\ stop' = "stopped"
        /\ queue' = [s \in Stream |-> <<>>]
        /\ pending' = [s \in Stream |-> {}]
        /\ tracked' = [x \in Exchanges |-> None]
        /\ trackedCommands' = {}
        /\ session' = None
     \/ /\ worker = "escaped"
        /\ stop' = "threw"
        /\ UNCHANGED <<queue, pending, trackVars, session>>
  /\ UNCHANGED <<callerVars, observerVars, worker, inHand, connects, reconnectDisabled, wake,
                 faulted, heartbeats>>

-----------------------------------------------------------------------------------
CallerStep ==
  \/ Start
  \/ \E x \in Exchanges : CaptureStarted(x) \/ \E outcome \in Outcomes : QueueTerminal(x, outcome)
  \/ \E d \in Commands : CaptureDatabaseStarted(d) \/ QueueDatabaseTerminal(d)
  \/ Heartbeat

WorkerStep == Recover \/ Dequeue \/ Dispatch \/ Sleep \/ WakeUp \/ Disconnect \/ EndBackoff
RetryStep ==
  \E m \in refused \cup failed \cup signalling :
    RetryRefused(m) \/ RetryFailed(m) \/ SignalConnectionFault(m)
StopStep == CancelWorkers \/ CloseForStop \/ EndStop

(* What the listener and the network decide. *)
ConnectStep == \E b \in BOOLEAN : Connect(b) \/ FailConnect(b)
AnswerStep ==
  \E m \in awaiting : Accepted(m) \/ FailSend(m) \/ Abandon(m) \/ \E b \in BOOLEAN : Rejected(m, b)

AdapterNext ==
  CallerStep \/ WorkerStep \/ RetryStep \/ BeginStop \/ StopStep \/ ConnectStep \/ AnswerStep

AdapterSpec == AdapterInit /\ [][AdapterNext]_adapterVars

-----------------------------------------------------------------------------------
(* Properties. *)

AdapterTypeOK ==
  /\ started \in BOOLEAN /\ faulted \in BOOLEAN /\ wake \in BOOLEAN
  /\ reconnectDisabled \in BOOLEAN
  /\ stop \in {"no", "stopping", "cancelled", "closed", "stopped", "threw"}
  /\ handle \in [Exchanges \cup Commands -> {"unused", "open", "done"}]
  /\ tracked \in [Exchanges -> ExchangeState \cup {None}]
  /\ trackedCommands \subseteq Commands
  /\ queue \in [Stream -> Seq(Message)]
  /\ pending \in [Stream -> SUBSET Message]
  /\ awaiting \subseteq Message /\ refused \subseteq Message /\ failed \subseteq Message
  /\ signalling \subseteq Message /\ lost \subseteq Message
  /\ worker \in {"none", "connecting", "recovering", "running", "dispatching", "asleep",
                 "backoff", "ended", "escaped"}
  /\ inHand \in Message \cup {None}
  /\ session \in BOOLEAN \cup {None}
  /\ connects \in 0 .. MaxConnects /\ heartbeats \in 0 .. MaxHeartbeats

(***************************************************************************)
(* A message is in one place at a time: queued once in its stream's queue, *)
(* in the worker's hand, waiting for its answer or to be requeued.  Until  *)
(* the workers are cancelled, what the adapter holds as pending (and       *)
(* counts against the capacity) has an observer that will take it out      *)
(* again; database messages may have been forgotten meanwhile.             *)
(***************************************************************************)
Queued(s) == {queue[s][i] : i \in DOMAIN queue[s]}
Observed == awaiting \cup refused \cup failed
InHand == {inHand} \ {None}

MessagesInOnePlace ==
  /\ \A s \in Stream : IsInjective(queue[s])
  /\ \A s \in Stream : \A m \in Queued(s) : m.stream = s
  /\ \A s \in Stream : Queued(s) \cap (Observed \cup InHand) = {}
  /\ InHand \cap Observed = {}
  /\ awaiting \cap refused = {} /\ awaiting \cap failed = {} /\ refused \cap failed = {}
  /\ ~Cancelled => /\ pending["http"] = {m \in awaiting \cup failed : m.stream = "http"}
                   /\ pending["database"] \subseteq {m \in awaiting \cup failed : m.stream = "database"}

(***************************************************************************)
(* The worker never sleeps over work: if it sleeps and nothing is about to *)
(* wake it, both queues are empty, the connection is not known to have     *)
(* failed and nobody has cancelled it.                                     *)
(***************************************************************************)
NoWakeUpIsLost ==
  worker = "asleep" /\ ~wake =>
    /\ \A s \in Stream : queue[s] = <<>>
    /\ ~faulted /\ ~Cancelled

(***************************************************************************)
(* While an exchange is in flight, the adapter's revision of it is that of *)
(* the newest message it has on its way, and no two messages share one: a  *)
(* retried start never passes for a recovery snapshot.                     *)
(***************************************************************************)
OnItsWay == (UNION {Queued(s) : s \in Stream}) \cup Observed \cup InHand
About(x) == {m \in OnItsWay : m.subject = x}

InFlightRevisionsGrow ==
  \A x \in Exchanges : tracked[x] # None /\ tracked[x].state = "inFlight" =>
    /\ \A m \in About(x) : m.revision <= tracked[x].revision
    /\ \A m, n \in About(x) : m.revision = n.revision => m = n

(***************************************************************************)
(* An outcome is not lost: until somebody stops the adapter, an exchange   *)
(* or command that ended and is still tracked has a message on its way     *)
(* that will release it, unless the listener refused that one for good.    *)
(***************************************************************************)
OutcomesAreNotLost ==
  stop = "no" =>
    /\ \A x \in Exchanges : tracked[x] # None /\ tracked[x].state # "inFlight" =>
         \E m \in OnItsWay \cup lost : m.subject = x /\ Releases(m)
    /\ \A d \in trackedCommands : handle[d] = "done" =>
         \E m \in OnItsWay \cup lost : m.subject = d /\ Releases(m)

(***************************************************************************)
(* Once StopAsync has returned, the adapter holds nothing, whatever the    *)
(* observers and callers that outlive it still do.                         *)
(***************************************************************************)
StoppedHoldsNothing ==
  stop = "stopped" =>
    /\ \A s \in Stream : queue[s] = <<>> /\ pending[s] = {}
    /\ \A x \in Exchanges : tracked[x] = None
    /\ trackedCommands = {} /\ inHand = None /\ session = None

(***************************************************************************)
(* An exchange's outcome is newer than every in-flight message about it:   *)
(* what the adapter specification asks, and what a reconnect while the     *)
(* exchange is in flight takes away.                                       *)
(***************************************************************************)
OutcomesAreNewest ==
  \A x \in Exchanges : \A m, n \in About(x) :
    Releases(m) /\ n.state = "inFlight" => n.revision < m.revision
===================================================================================
