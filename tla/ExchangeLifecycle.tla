---------------------------- MODULE ExchangeLifecycle ----------------------------
(***************************************************************************)
(* How one capture message changes one HTTP exchange: the pure merge of    *)
(* crates/inspector-core/src/application/lifecycle_merger.rs and the       *)
(* checks of crates/inspector-core/src/domain/validation.rs that a merged  *)
(* exchange must pass before the hub stores it.                            *)
(*                                                                         *)
(* An exchange keeps what the rest of the system decides on: its revision, *)
(* its place in arrival order, its state, whether its request is the       *)
(* captured one or the missing-start placeholder, whether a response and   *)
(* a failure are present, when the inspector received it, and how near its *)
(* metadata are to their size limit.  Headers, bodies, timings and tags are *)
(* abstracted away.                                                        *)
(***************************************************************************)
EXTENDS Integers

CONSTANTS
  None,          (* the value of an absent map entry (Option::None)        *)
  Times,         (* readings of the inspector's clock                      *)
  ExchangeKeys,  (* the keys [source, id] that messages speak about        *)
  MaxRevision,   (* bound on the revisions that messages carry             *)
  Metadata,      (* sizes of the metadata that a message brings            *)
  Extensions     (* sizes to which an outcome extends the metadata it finds *)

(***************************************************************************)
(* The serialized size of an exchange's metadata against the limit that    *)
(* validate_metadata checks: there is room for the entry that a disconnect *)
(* adds (or the entry is there already), there is none, or the limit is    *)
(* exceeded.                                                               *)
(***************************************************************************)
MetadataSize == {"roomy", "tight", "over"}

ASSUME TimesAssumption == Times \subseteq Nat
ASSUME MaxRevisionAssumption == MaxRevision \in Nat \ {0}
ASSUME MetadataAssumption ==
  Metadata \subseteq MetadataSize /\ Extensions \subseteq MetadataSize \cup {"kept"}

(***************************************************************************)
(* ExchangeState, and the four states after which nothing more is          *)
(* expected of an exchange.                                                *)
(***************************************************************************)
ExchangeState == {"inFlight", "completed", "failed", "cancelled", "incomplete"}
TerminalState == ExchangeState \ {"inFlight"}

Exchange ==
  [revision : Nat, arrival : Nat, state : ExchangeState,
   request : {"captured", "unknown"}, response : BOOLEAN,
   failure : BOOLEAN, metadata : MetadataSize, receivedAt : Nat]

IsExchange(e) == e # None
IsTerminal(e) == IsExchange(e) /\ e.state \in TerminalState
IsInFlight(e) == IsExchange(e) /\ e.state = "inFlight"

(***************************************************************************)
(* The exchange messages of the v1 protocol.  Revision 0 can be sent; the  *)
(* validation refuses it.  A failure may carry the response it broke on; a *)
(* snapshot carries a whole exchange, whose embedded id may not agree with *)
(* the message and whose parts may contradict its state.  A start and a    *)
(* snapshot bring the metadata, an outcome may extend what it finds (a     *)
(* cancellation by its origin) or keep its size.                           *)
(***************************************************************************)
MessageRevision == 0 .. MaxRevision

StartedMessage   == [kind : {"started"}, key : ExchangeKeys, revision : MessageRevision,
                     metadata : Metadata]
CompletedMessage == [kind : {"completed"}, key : ExchangeKeys, revision : MessageRevision,
                     metadata : Extensions]
FailedMessage    == [kind : {"failed"}, key : ExchangeKeys, revision : MessageRevision,
                     response : BOOLEAN, metadata : Extensions]
CancelledMessage == [kind : {"cancelled"}, key : ExchangeKeys, revision : MessageRevision,
                     metadata : Extensions]
SnapshotMessage  == [kind : {"snapshot"}, key : ExchangeKeys, revision : MessageRevision,
                     state : ExchangeState, response : BOOLEAN, failure : BOOLEAN,
                     metadata : Metadata, sameId : BOOLEAN]

LifecycleMessage == StartedMessage \cup CompletedMessage \cup FailedMessage \cup CancelledMessage
ExchangeMessage  == LifecycleMessage \cup SnapshotMessage

(* A message that is not newer than the stored exchange is ignored.  (The *)
(* faulty variant lets a repeated revision through.)                      *)
IsStaleOffByOne(current, m) == IsExchange(current) /\ m.revision < current.revision

IsStale(current, m) == IsExchange(current) /\ m.revision <= current.revision

(***************************************************************************)
(* What a message merges into when its exchange is unknown: an in-flight   *)
(* exchange whose request is a placeholder.                                *)
(***************************************************************************)
MissingStartExchange(m, at, arrival) ==
  [revision |-> m.revision, arrival |-> arrival, state |-> "inFlight",
   request |-> "unknown", response |-> FALSE, failure |-> FALSE,
   metadata |-> "roomy", receivedAt |-> at]

(* Faulty variant: every message starts over. *)
AlwaysBegin(current, m, at, arrival) == MissingStartExchange(m, at, arrival)

BeginOrCurrent(current, m, at, arrival) ==
  IF IsExchange(current) THEN current ELSE MissingStartExchange(m, at, arrival)

(***************************************************************************)
(* The merge itself.  A start brings the request and leaves a terminal     *)
(* state alone; the three outcomes set the state and the parts that belong *)
(* to it (a cancellation keeps the response it finds); a snapshot replaces *)
(* everything but the place in arrival order.                              *)
(***************************************************************************)
MergeMessage(current, m, at, arrival) ==
  LET found    == BeginOrCurrent(current, m, at, arrival)
      exchange == [found EXCEPT !.revision = m.revision,
                                !.metadata = IF m.metadata = "kept" THEN @ ELSE m.metadata]
  IN  CASE m.kind = "started"   -> [exchange EXCEPT !.request = "captured"]
        [] m.kind = "completed" -> [exchange EXCEPT !.state = "completed",
                                                    !.response = TRUE, !.failure = FALSE]
        [] m.kind = "failed"    -> [exchange EXCEPT !.state = "failed",
                                                    !.response = m.response, !.failure = TRUE]
        [] m.kind = "cancelled" -> [exchange EXCEPT !.state = "cancelled", !.failure = FALSE]
        [] m.kind = "snapshot"  -> [revision |-> m.revision, arrival |-> arrival,
                                    state |-> m.state, request |-> "captured",
                                    response |-> m.response, failure |-> m.failure,
                                    metadata |-> m.metadata, receivedAt |-> at]

(***************************************************************************)
(* validate_exchange_state: a completed exchange has a response, and a     *)
(* failed one, and no other, has a failure.                                *)
(***************************************************************************)
StateMatchesParts(e) ==
  /\ e.state = "completed" => e.response
  /\ e.state = "failed" <=> e.failure

(* Faulty variant of the next: the state is not checked against the parts. *)
IsValidAtIgnoringParts(e, at) ==
  e.revision > 0 /\ e.arrival > 0 /\ e.receivedAt <= at /\ e.metadata # "over"

(***************************************************************************)
(* HttpExchange::validate, run on the merged exchange with lastUpdatedAt   *)
(* set to the receipt time of the message.                                 *)
(***************************************************************************)
IsValidAt(e, at) ==
  /\ e.revision > 0 /\ e.arrival > 0
  /\ e.receivedAt <= at
  /\ e.metadata # "over"
  /\ StateMatchesParts(e)

(* The merge yields an exchange to store: neither ignored nor refused. *)
Merges(current, m, at, arrival) ==
  /\ ~IsStale(current, m)
  /\ m.kind = "snapshot" => m.sameId
  /\ IsValidAt(MergeMessage(current, m, at, arrival), at)
===================================================================================
