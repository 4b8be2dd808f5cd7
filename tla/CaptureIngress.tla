------------------------------ MODULE CaptureIngress ------------------------------
(***************************************************************************)
(* How capture messages reach the hub: the adapter connections of          *)
(* crates/inspector-server/src/ingress/capture_socket.rs, one task each,   *)
(* the bounded ingest queue and its processor of ingress/queue.rs, and the *)
(* session calls of ingress/server.rs.                                     *)
(*                                                                         *)
(* A connection's task handles one frame at a time: it stamps the message, *)
(* tries to queue it and waits for the processor's answer before it reads  *)
(* the next frame.  Tasks interleave between a stamp and its use, and the  *)
(* wall clock they read may be set back.                                   *)
(*                                                                         *)
(* The variables cutShort and clockSetBack are auxiliary: no guard reads   *)
(* them.  They record the two ways in which a disconnect leaves work of    *)
(* its source undone for good, which the properties must except.           *)
(***************************************************************************)
EXTENDS CaptureHub

CONSTANTS
  Connections,     (* the WebSocket connections that clients open, once each *)
  QueueCapacity,   (* slots of the ingest channel                            *)
  Messages,        (* exchange messages that clients send                    *)
  CommandMessages  (* database messages that clients send                    *)

ASSUME MessagesAssumption ==
  Messages \subseteq ExchangeMessage /\ CommandMessages \subseteq DatabaseMessage
ASSUME QueueAssumption == QueueCapacity \in Nat \ {0}

VARIABLES
  now,              (* the inspector's clock                                *)
  phase,            (* where the task of a connection is                    *)
  sourceOf,         (* the source a connection's hello named                *)
  errors,           (* consecutive_errors                                   *)
  stamped,          (* the message a task is about to queue, or None        *)
  stamp,            (* the time the task read last                          *)
  ingestQueue,      (* queued captures, oldest first                        *)
  answer,           (* the completion of a queued capture                   *)
  processing,       (* the processor task runs                              *)
  connectedSources, (* connected_sources                                    *)
  cutShort,         (* sources whose last disconnect met an exchange whose  *)
                    (* metadata had no room, and went no further            *)
  clockSetBack      (* the clock was set back during the session            *)

connectionVars == <<phase, sourceOf, errors, stamped, stamp>>
queueVars == <<ingestQueue, answer, processing>>
auxiliaryVars == <<cutShort, clockSetBack>>
ingressVars == <<hubVars, now, connectionVars, queueVars, connectedSources, auxiliaryVars>>

Phase == {"connecting", "open", "stamped", "waiting", "closing", "leaving", "closed"}
Answer == {"none", "accepted", "rejected", "unavailable"}
IngressMessage ==
  [repository : {"exchanges"}, message : Messages] \cup
  [repository : {"commands"}, message : CommandMessages] \cup
  [repository : {"none"}, message : {None}]

IngressInit ==
  /\ HubInit
  /\ now \in {t \in Times : \A u \in Times : t <= u}
  /\ phase = [c \in Connections |-> "connecting"]
  /\ sourceOf = [c \in Connections |-> None]
  /\ errors = [c \in Connections |-> 0]
  /\ stamped = [c \in Connections |-> None]
  /\ stamp = [c \in Connections |-> now]
  /\ ingestQueue = <<>>
  /\ answer = [c \in Connections |-> "none"]
  /\ processing = TRUE
  /\ connectedSources = 0
  /\ cutShort = {}
  /\ clockSetBack = FALSE

-----------------------------------------------------------------------------------
(* The task of a connection. *)

(***************************************************************************)
(* A hello that names a protocol the server supports is accepted; one that *)
(* is late, invalid or unsupported, or an answer that cannot be sent,      *)
(* closes the connection before it counts.                                 *)
(***************************************************************************)
AcceptHello(c, source) ==
  /\ phase[c] = "connecting"
  /\ phase' = [phase EXCEPT ![c] = "open"]
  /\ sourceOf' = [sourceOf EXCEPT ![c] = source]
  /\ connectedSources' = connectedSources + 1
  /\ UNCHANGED <<hubVars, now, errors, stamped, stamp, queueVars, auxiliaryVars>>

RejectHello(c) ==
  /\ phase[c] = "connecting"
  /\ phase' = [phase EXCEPT ![c] = "closed"]
  /\ UNCHANGED <<hubVars, now, sourceOf, errors, stamped, stamp, queueVars, connectedSources, auxiliaryVars>>

(* A well-formed message within the body limits: queue_capture stamps it. *)
ReceiveMessage(c, m) ==
  /\ phase[c] = "open"
  /\ phase' = [phase EXCEPT ![c] = "stamped"]
  /\ stamped' = [stamped EXCEPT ![c] = m]
  /\ stamp' = [stamp EXCEPT ![c] = now]
  /\ UNCHANGED <<hubVars, now, sourceOf, errors, queueVars, connectedSources, auxiliaryVars>>

(* Faulty variant of the next: the task never gives up on a client. *)
AfterErrorReadOn(c) ==
  /\ errors' = [errors EXCEPT ![c] = @ + 1]
  /\ phase' = [phase EXCEPT ![c] = "open"]

(***************************************************************************)
(* After an error the task reads on, unless this is the third one in a row *)
(* or the error cannot be sent (the client is gone).                       *)
(***************************************************************************)
AfterError(c) ==
  /\ errors' = [errors EXCEPT ![c] = @ + 1]
  /\ \/ errors[c] + 1 < 3 /\ phase' = [phase EXCEPT ![c] = "open"]
     \/ phase' = [phase EXCEPT ![c] = "closing"]

(* Unparsable text, a binary frame, or a body beyond the negotiated limit. *)
ReceiveUnusableFrame(c) ==
  /\ phase[c] = "open"
  /\ AfterError(c)
  /\ UNCHANGED <<hubVars, now, sourceOf, stamped, stamp, queueVars, connectedSources, auxiliaryVars>>

(* Faulty variant: the task also notices a lost client while it waits. *)
LoseWaitingClient(c) ==
  /\ phase[c] \in {"open", "waiting"}
  /\ phase' = [phase EXCEPT ![c] = "closing"]
  /\ UNCHANGED <<hubVars, now, sourceOf, errors, stamped, stamp, queueVars, connectedSources, auxiliaryVars>>

(* A close frame or a broken socket. *)
LoseClient(c) ==
  /\ phase[c] = "open"
  /\ phase' = [phase EXCEPT ![c] = "closing"]
  /\ UNCHANGED <<hubVars, now, sourceOf, errors, stamped, stamp, queueVars, connectedSources, auxiliaryVars>>

(***************************************************************************)
(* try_send.  A full or closed channel is an error that closes the         *)
(* connection, so that the adapter reconnects and retries.                 *)
(***************************************************************************)
TryQueue(c) ==
  /\ phase[c] = "stamped"
  /\ stamped' = [stamped EXCEPT ![c] = None]
  /\ IF processing /\ Len(ingestQueue) < QueueCapacity
     THEN /\ phase' = [phase EXCEPT ![c] = "waiting"]
          /\ ingestQueue' = Append(ingestQueue,
               [connection |-> c, capture |-> stamped[c], receivedAt |-> stamp[c]])
          /\ UNCHANGED errors
     ELSE /\ phase' = [phase EXCEPT ![c] = "closing"]
          /\ errors' = [errors EXCEPT ![c] = @ + 1]
          /\ UNCHANGED ingestQueue
  /\ UNCHANGED <<hubVars, now, sourceOf, stamp, answer, processing, connectedSources, auxiliaryVars>>

(* The completion arrived: an acknowledgement resets the error count. *)
Resume(c) ==
  /\ phase[c] = "waiting" /\ answer[c] # "none"
  /\ answer' = [answer EXCEPT ![c] = "none"]
  /\ \/ /\ answer[c] = "accepted"
        /\ errors' = [errors EXCEPT ![c] = 0]
        /\ \E next \in {"open", "closing"} : phase' = [phase EXCEPT ![c] = next]
     \/ answer[c] = "rejected" /\ AfterError(c)
     \/ /\ answer[c] = "unavailable"
        /\ errors' = [errors EXCEPT ![c] = @ + 1]
        /\ phase' = [phase EXCEPT ![c] = "closing"]
  /\ UNCHANGED <<hubVars, now, sourceOf, stamped, stamp, ingestQueue, processing, connectedSources, auxiliaryVars>>

(***************************************************************************)
(* The end of the task: the source count, the time, and then, under the    *)
(* hub's mutex, the source's unfinished exchanges and commands.            *)
(***************************************************************************)
StampLeave(c) ==
  /\ phase[c] = "closing"
  /\ phase' = [phase EXCEPT ![c] = "leaving"]
  /\ stamp' = [stamp EXCEPT ![c] = now]
  /\ connectedSources' = connectedSources - 1
  /\ UNCHANGED <<hubVars, now, sourceOf, errors, stamped, queueVars, auxiliaryVars>>

(* The disconnect of a source at this time stops at an exchange without room. *)
MeetsFullMetadata(source, at) ==
  \E i \in InFlightPositions(source, exchanges, arrivalOrder) :
    /\ arrivalOrder[i] \in MarkedExchanges(source, at)
    /\ MarkIncomplete(exchanges[arrivalOrder[i]]).metadata = "over"

CutShortBy(source, at) ==
  IF MeetsFullMetadata(source, at) THEN cutShort \cup {source}
  ELSE IF DisconnectSucceeds(source, at) THEN cutShort \ {source}
  ELSE cutShort

(* Faulty variant of the next: the disconnect needs the processor. *)
LeaveWhileProcessing(c) ==
  /\ phase[c] = "leaving" /\ processing
  /\ phase' = [phase EXCEPT ![c] = "closed"]
  /\ MarkSourceDisconnected(sourceOf[c], stamp[c])
  /\ cutShort' = CutShortBy(sourceOf[c], stamp[c])
  /\ UNCHANGED <<now, sourceOf, errors, stamped, stamp, queueVars, connectedSources, clockSetBack>>

Leave(c) ==
  /\ phase[c] = "leaving"
  /\ phase' = [phase EXCEPT ![c] = "closed"]
  /\ MarkSourceDisconnected(sourceOf[c], stamp[c])
  /\ cutShort' = CutShortBy(sourceOf[c], stamp[c])
  /\ UNCHANGED <<now, sourceOf, errors, stamped, stamp, queueVars, connectedSources, clockSetBack>>

-----------------------------------------------------------------------------------
(* The processor. *)

(* ingest_with_policy returns an error and has changed nothing. *)
Refused(source, m, at) ==
  \/ m.message.key.source # source
  \/ /\ recording
     /\ \/ /\ m.repository = "exchanges"
           /\ LET current == exchanges[m.message.key]
              IN  ~IsStale(current, m.message) /\
                  ~Merges(current, m.message, at, ArrivalFor(current))
        \/ /\ m.repository = "commands"
           /\ LET current == commands[m.message.key]
              IN  ~IsStale(current, m.message) /\
                  ~MergesDatabase(current, m.message, ArrivalFor(current))

(* ingest: a heartbeat, a stale message and a paused capture change nothing. *)
Ingest(source, m, at) ==
  \/ m.repository = "exchanges" /\ IngestExchange(source, m.message, at, TRUE)
  \/ m.repository = "commands" /\ IngestCommand(source, m.message, TRUE)
  \/ /\ m.repository = "exchanges" => ~StoresExchange(source, m.message, at, TRUE)
     /\ m.repository = "commands" => ~StoresCommand(source, m.message, TRUE)
     /\ UNCHANGED hubVars

ProcessNext ==
  /\ processing /\ ingestQueue # <<>>
  /\ LET queued == Head(ingestQueue)
         source == sourceOf[queued.connection]
         m      == queued.capture
         refused == m.repository # "none" /\ Refused(source, m, queued.receivedAt)
     IN  /\ Ingest(source, m, queued.receivedAt)
         /\ answer' = [answer EXCEPT ![queued.connection] =
                         IF refused THEN "rejected" ELSE "accepted"]
  /\ ingestQueue' = Tail(ingestQueue)
  /\ UNCHANGED <<now, connectionVars, processing, connectedSources, auxiliaryVars>>

(* Faulty variants of the next: the queue outlives the processor; the queued *)
(* captures go and nobody is told.                                          *)
ShutdownKeepingQueue ==
  /\ processing
  /\ processing' = FALSE
  /\ UNCHANGED <<hubVars, now, connectionVars, ingestQueue, answer, connectedSources, auxiliaryVars>>

ShutdownUnanswered ==
  /\ processing
  /\ processing' = FALSE
  /\ ingestQueue' = <<>>
  /\ UNCHANGED <<hubVars, now, connectionVars, answer, connectedSources, auxiliaryVars>>

(***************************************************************************)
(* shutdown aborts the processor at its await: the channel closes, and the *)
(* completions of the captures still queued are dropped unanswered, which  *)
(* their connections see as an unavailable processor.                      *)
(***************************************************************************)
Shutdown ==
  /\ processing
  /\ processing' = FALSE
  /\ ingestQueue' = <<>>
  /\ answer' = [c \in Connections |->
                  IF \E i \in DOMAIN ingestQueue : ingestQueue[i].connection = c
                  THEN "unavailable" ELSE answer[c]]
  /\ UNCHANGED <<hubVars, now, connectionVars, connectedSources, auxiliaryVars>>

(* The calls of the user's session, on the hub alone. *)
UseSession ==
  /\ \/ \E on \in BOOLEAN : SetRecording(on)
     \/ ClearSession
  /\ UNCHANGED <<now, connectionVars, queueVars, connectedSources, auxiliaryVars>>

(* timestamp() reads Utc::now, which is not monotonic. *)
Tick ==
  /\ now' \in Times \ {now}
  /\ clockSetBack' = (clockSetBack \/ now' < now)
  /\ UNCHANGED <<hubVars, connectionVars, queueVars, connectedSources, cutShort>>

(* What a connection's task does by itself, without the client. *)
TaskStep(c) == TryQueue(c) \/ Resume(c) \/ StampLeave(c) \/ Leave(c)

IngressNext ==
  \/ \E c \in Connections :
       \/ \E source \in Sources : AcceptHello(c, source)
       \/ RejectHello(c)
       \/ \E m \in IngressMessage : ReceiveMessage(c, m)
       \/ ReceiveUnusableFrame(c)
       \/ LoseClient(c)
       \/ TaskStep(c)
  \/ ProcessNext
  \/ Shutdown
  \/ UseSession
  \/ Tick

IngressSpec == IngressInit /\ [][IngressNext]_ingressVars

(***************************************************************************)
(* The runtime polls every ready task: a connection's own steps and the    *)
(* processor are not put off for ever.  Clients, the user and the clock    *)
(* owe nothing.                                                            *)
(***************************************************************************)
IngressFairness ==
  /\ \A c \in Connections : WF_ingressVars(TaskStep(c))
  /\ WF_ingressVars(ProcessNext)

FairIngressSpec == IngressSpec /\ IngressFairness

-----------------------------------------------------------------------------------
(* Properties. *)

IngressTypeOK ==
  /\ HubTypeOK
  /\ now \in Times
  /\ phase \in [Connections -> Phase]
  /\ sourceOf \in [Connections -> Sources \cup {None}]
  /\ errors \in [Connections -> 0 .. 3]
  /\ stamped \in [Connections -> IngressMessage \cup {None}]
  /\ stamp \in [Connections -> Times]
  /\ ingestQueue \in Seq([connection : Connections, capture : IngressMessage, receivedAt : Times])
  /\ answer \in [Connections -> Answer]
  /\ processing \in BOOLEAN
  /\ connectedSources \in Nat
  /\ cutShort \subseteq Sources
  /\ clockSetBack \in BOOLEAN

(***************************************************************************)
(* A task waits exactly while its capture is queued or its answer is on    *)
(* the way, never for nothing, also when the processor is aborted under    *)
(* it; and it has one capture in the queue at a time, so that the queue    *)
(* never holds more captures than there are connections.                   *)
(***************************************************************************)
QueuedBy(c) == {i \in DOMAIN ingestQueue : ingestQueue[i].connection = c}

WaitersAreQueued ==
  \A c \in Connections :
    /\ Cardinality(QueuedBy(c)) =
         IF phase[c] = "waiting" /\ answer[c] = "none" THEN 1 ELSE 0
    /\ answer[c] # "none" => phase[c] = "waiting"

(***************************************************************************)
(* Once every connection of a source is gone, nothing of that source is in *)
(* flight: no late message, whatever it waited for, is ingested after the  *)
(* last disconnect, and a disconnect refused because another connection    *)
(* brought a newer exchange is made good by that connection's own.  The    *)
(* exceptions: the clock was set back, or the last disconnect of the       *)
(* source ended at an exchange that had no room for the reason.            *)
(***************************************************************************)
GoneSourceHasNothingInFlight ==
  \A source \in Sources \ cutShort :
    ~clockSetBack /\ (\A c \in Connections : sourceOf[c] = source => phase[c] = "closed") =>
      /\ \A k \in ExchangeKeys : k.source = source => ~IsInFlight(exchanges[k])
      /\ \A k \in CommandKeys : k.source = source => ~IsInFlight(commands[k])

(***************************************************************************)
(* Every capture handed to the queue is answered, and every connection     *)
(* that ends marks its source, also across a shutdown.                     *)
(***************************************************************************)
WaitersAreAnswered ==
  \A c \in Connections : phase[c] = "waiting" ~> phase[c] # "waiting"

EndedConnectionsMarkTheirSource ==
  \A c \in Connections : phase[c] = "closing" ~> phase[c] = "closed"
===================================================================================
