---------------------------- MODULE DatabaseLifecycle ----------------------------
(***************************************************************************)
(* How one database message changes one database command: the pure merge   *)
(* of database_lifecycle_merger.rs, DatabaseCommand::validate and          *)
(* DatabaseCommand::retained_byte_length.                                  *)
(*                                                                         *)
(* The content of a command matters through its size only: the hub bounds  *)
(* the serialized bytes it retains.  A command is therefore its revision,  *)
(* arrival and state, whether it has failure details, and the sizes of its *)
(* query, of its outcome and of the reason in its result, which a          *)
(* disconnect replaces.                                                    *)
(***************************************************************************)
EXTENDS Integers, ExchangeLifecycle

CONSTANTS
  CommandKeys,  (* the keys [source, id] that database messages speak about *)
  Sizes,        (* serialized sizes of a query or of an outcome             *)
  Reasons       (* serialized sizes of the reason that a message brings     *)

ASSUME SizesAssumption == Sizes \subseteq Nat /\ Reasons \subseteq Nat

(* Sizes of a missing-start placeholder's query and reason, and of the      *)
(* longer reason that a disconnect stores.                                  *)
PlaceholderBytes == 1
PlaceholderReasonBytes == 1
DisconnectReasonBytes == 2

Command ==
  [revision : Nat, arrival : Nat, state : ExchangeState, failure : BOOLEAN,
   query : Nat, outcome : Nat, reason : Nat]

DatabaseStartedMessage ==
  [kind : {"started"}, key : CommandKeys, revision : MessageRevision, query : Sizes]
DatabaseOutcomeMessage ==
  [kind : {"completed", "failed", "cancelled"}, key : CommandKeys,
   revision : MessageRevision, outcome : Sizes, reason : Reasons]
DatabaseSnapshotMessage ==
  [kind : {"snapshot"}, key : CommandKeys, revision : MessageRevision,
   state : ExchangeState, failure : BOOLEAN, query : Sizes, outcome : Sizes,
   reason : Reasons, sameId : BOOLEAN]

DatabaseLifecycleMessage == DatabaseStartedMessage \cup DatabaseOutcomeMessage
DatabaseMessage == DatabaseLifecycleMessage \cup DatabaseSnapshotMessage

MissingStartCommand(m, arrival) ==
  [revision |-> m.revision, arrival |-> arrival, state |-> "inFlight", failure |-> FALSE,
   query |-> PlaceholderBytes, outcome |-> 0, reason |-> PlaceholderReasonBytes]

BeginOrCurrentCommand(current, m, arrival) ==
  IF IsExchange(current) THEN current ELSE MissingStartCommand(m, arrival)

(***************************************************************************)
(* An outcome replaces the whole result, the reason in it included (which  *)
(* is a cancellation's origin); a start leaves the placeholder's result.   *)
(***************************************************************************)
MergeDatabaseMessage(current, m, arrival) ==
  LET command == [BeginOrCurrentCommand(current, m, arrival) EXCEPT !.revision = m.revision]
      ended(failure) == [command EXCEPT !.state = m.kind, !.failure = failure,
                                        !.outcome = m.outcome, !.reason = m.reason]
  IN  CASE m.kind = "started"                  -> [command EXCEPT !.query = m.query]
        [] m.kind \in {"completed", "cancelled"} -> ended(FALSE)
        [] m.kind = "failed"                   -> ended(TRUE)
        [] m.kind = "snapshot" -> [revision |-> m.revision, arrival |-> arrival,
                                   state |-> m.state, failure |-> m.failure,
                                   query |-> m.query, outcome |-> m.outcome,
                                   reason |-> m.reason]

(* Faulty variant of the next: the state is not checked against the failure. *)
IsValidCommandIgnoringFailure(c) == c.revision > 0 /\ c.arrival > 0

(* DatabaseCommand::validate: unlike an exchange's, it orders no timestamps. *)
IsValidCommand(c) ==
  /\ c.revision > 0 /\ c.arrival > 0
  /\ c.state = "failed" <=> c.failure

MergesDatabase(current, m, arrival) ==
  /\ ~IsStale(current, m)
  /\ m.kind = "snapshot" => m.sameId
  /\ IsValidCommand(MergeDatabaseMessage(current, m, arrival))

RetainedByteLength(c) == IF IsExchange(c) THEN c.query + c.outcome + c.reason ELSE 0
===================================================================================
