-------------------------------- MODULE CaptureHub --------------------------------
(***************************************************************************)
(* The bounded in-memory repository of                                     *)
(* crates/inspector-core/src/application/capture_hub.rs.  Every operation  *)
(* holds the hub's mutex from its first read to its last write, so each is *)
(* one action.  HTTP exchanges and database commands are two repositories  *)
(* with their own limits; they share the arrival counter.                  *)
(***************************************************************************)
EXTENDS DatabaseLifecycle, Sequences, FiniteSets, FiniteSetsExt

CONSTANTS
  Sources,           (* source instance ids                                 *)
  MaxSummaries,      (* RepositoryLimits.max_summaries                      *)
  MaxCommands,       (* DatabaseRepositoryLimits.max_commands               *)
  MaxRetainedBytes,  (* DatabaseRepositoryLimits.max_retained_bytes         *)
  MaxArrivals        (* bound on the arrivals of one session                *)

ASSUME KeysAssumption ==
  /\ \A k \in ExchangeKeys \cup CommandKeys : k.source \in Sources
  /\ IsFiniteSet(ExchangeKeys) /\ IsFiniteSet(CommandKeys)
ASSUME LimitsAssumption ==
  /\ MaxSummaries \in Nat /\ MaxCommands \in Nat /\ MaxRetainedBytes \in Nat
  /\ MaxArrivals \in Nat
ASSUME NoneAssumption == None \notin Exchange \cup Command

VARIABLES
  recording,         (* passive capture is on                               *)
  nextArrival,       (* next_arrival_sequence, shared by both repositories  *)
  exchanges,         (* key -> exchange, or None                            *)
  arrivalOrder,      (* the keys of the exchanges, oldest first             *)
  retentionBlocked,  (* retention_blocked_by_in_flight                      *)
  commands,          (* key -> database command, or None                    *)
  commandOrder,      (* database_arrival_order                              *)
  retainedBytes,     (* database_retained_bytes                             *)
  databaseBlocked    (* database_retention_blocked_by_in_flight             *)

exchangeVars == <<exchanges, arrivalOrder, retentionBlocked>>
databaseVars == <<commands, commandOrder, retainedBytes, databaseBlocked>>
hubVars == <<recording, nextArrival, exchanges, arrivalOrder, retentionBlocked,
             commands, commandOrder, retainedBytes, databaseBlocked>>

HubInit ==
  /\ recording = TRUE
  /\ nextArrival = 1
  /\ exchanges = [k \in ExchangeKeys |-> None]
  /\ arrivalOrder = <<>>
  /\ retentionBlocked = FALSE
  /\ commands = [k \in CommandKeys |-> None]
  /\ commandOrder = <<>>
  /\ retainedBytes = 0
  /\ databaseBlocked = FALSE

-----------------------------------------------------------------------------------
(* Helpers on arrival orders. *)

Retained(map) == {k \in DOMAIN map : IsExchange(map[k])}

TerminalPositions(map, order) == {i \in DOMAIN order : IsTerminal(map[order[i]])}

(* Faulty variant: the order walked from its new end. *)
After(positions, i) == {j \in positions : j > i}

Before(positions, i) == {j \in positions : j < i}

(* saturating_sub *)
Minus(a, b) == IF b \in 0 .. a THEN a - b ELSE 0

(* Faulty variant of the next: evicts one exchange too many. *)
EvictedExchangesOffByOne(map, order) ==
  LET terminal == TerminalPositions(map, order)
      count    == Cardinality(Retained(map))
  IN  {i \in terminal : count - Cardinality(Before(terminal, i)) >= MaxSummaries}

(***************************************************************************)
(* The loop of evict_terminal_exchanges removes the first terminal entry   *)
(* as long as too many are retained: a terminal position goes exactly when *)
(* the limit is still exceeded with every earlier one removed.             *)
(***************************************************************************)
EvictedExchanges(map, order) ==
  LET terminal == TerminalPositions(map, order)
      count    == Cardinality(Retained(map))
  IN  {i \in terminal : count - Cardinality(Before(terminal, i)) > MaxSummaries}

(* evict_terminal_database_commands: the same, on a count and on bytes. *)
EvictedCommands(map, order, bytes) ==
  LET terminal    == TerminalPositions(map, order)
      count       == Cardinality(Retained(map))
      freed(i)    == MapThenSumSet(LAMBDA j : RetainedByteLength(map[order[j]]),
                                   Before(terminal, i))
  IN  {i \in terminal :
         \/ count - Cardinality(Before(terminal, i)) > MaxCommands
         \/ bytes - freed(i) > MaxRetainedBytes}

(* The order once this key's entry is stored: a new one goes last. *)
Longer(map, order, k) == IF IsExchange(map[k]) THEN order ELSE Append(order, k)

(* The map after the entries at these positions of the order are removed. *)
WithoutPositions(map, order, positions) ==
  [k \in DOMAIN map |-> IF \E i \in positions : order[i] = k THEN None ELSE map[k]]

(***************************************************************************)
(* rest is the order after VecDeque::remove of these positions: the other  *)
(* entries, in the order they had.                                         *)
(***************************************************************************)
IsRest(rest, order, positions) ==
  LET kept == DOMAIN order \ positions
  IN  \E pick \in [1 .. Cardinality(kept) -> kept] :
        /\ \A i, j \in 1 .. Cardinality(kept) : i < j => pick[i] < pick[j]
        /\ rest = [i \in 1 .. Cardinality(kept) |-> order[pick[i]]]

-----------------------------------------------------------------------------------
(* Operations. *)

(***************************************************************************)
(* ingest_with_policy for an HTTP message from a registered source at      *)
(* receipt time at.  A message that names another source, that arrives     *)
(* while passive capture is paused, or that the merge ignores or refuses   *)
(* returns early and changes nothing: such a call is a stuttering step.    *)
(***************************************************************************)
(* Faulty variant: an update takes the place of a new arrival. *)
NextArrivalFor(current) == nextArrival

ArrivalFor(current) == IF IsExchange(current) THEN current.arrival ELSE nextArrival

Accepts(source, m, requireRecording) ==
  /\ m.key.source = source
  /\ requireRecording => recording

StoresExchange(source, m, at, requireRecording) ==
  LET current == exchanges[m.key]
  IN  /\ Accepts(source, m, requireRecording)
      /\ Merges(current, m, at, ArrivalFor(current))

StoredExchanges(m, at) ==
  LET current == exchanges[m.key]
  IN  [exchanges EXCEPT ![m.key] = MergeMessage(current, m, at, ArrivalFor(current))]

StoreExchange(m, at) ==
  LET current == exchanges[m.key]
      stored  == StoredExchanges(m, at)
      isNew   == ~IsExchange(current)
      order   == Longer(exchanges, arrivalOrder, m.key)
      evicted == EvictedExchanges(stored, order)
  IN  /\ isNew => nextArrival <= MaxArrivals
      /\ nextArrival' = IF isNew THEN nextArrival + 1 ELSE nextArrival
      /\ exchanges' = WithoutPositions(stored, order, evicted)
      /\ IsRest(arrivalOrder', order, evicted)
      /\ retentionBlocked' = (Cardinality(Retained(stored)) - Cardinality(evicted) > MaxSummaries)
      /\ UNCHANGED <<recording, databaseVars>>

IngestExchange(source, m, at, requireRecording) ==
  /\ StoresExchange(source, m, at, requireRecording)
  /\ StoreExchange(m, at)

(* ingest_with_policy for a database message: ingest_database_command, with *)
(* the same early returns.                                                  *)
StoresCommand(source, m, requireRecording) ==
  LET current == commands[m.key]
  IN  /\ Accepts(source, m, requireRecording)
      /\ MergesDatabase(current, m, ArrivalFor(current))

StoredCommands(m) ==
  LET current == commands[m.key]
  IN  [commands EXCEPT ![m.key] = MergeDatabaseMessage(current, m, ArrivalFor(current))]

BytesWith(m) ==
  Minus(retainedBytes, RetainedByteLength(commands[m.key])) + RetainedByteLength(StoredCommands(m)[m.key])

BytesWithout(bytes, stored, order, evicted) ==
  Minus(bytes, MapThenSumSet(LAMBDA i : RetainedByteLength(stored[order[i]]), evicted))

StoreCommand(m) ==
  LET current == commands[m.key]
      stored  == StoredCommands(m)
      isNew   == ~IsExchange(current)
      order   == Longer(commands, commandOrder, m.key)
      bytes   == BytesWith(m)
      evicted == EvictedCommands(stored, order, bytes)
      left    == BytesWithout(bytes, stored, order, evicted)
  IN  /\ isNew => nextArrival <= MaxArrivals
      /\ nextArrival' = IF isNew THEN nextArrival + 1 ELSE nextArrival
      /\ commands' = WithoutPositions(stored, order, evicted)
      /\ IsRest(commandOrder', order, evicted)
      /\ retainedBytes' = left
      /\ databaseBlocked' = \/ Cardinality(Retained(stored)) - Cardinality(evicted) > MaxCommands
                            \/ left > MaxRetainedBytes
      /\ UNCHANGED <<recording, exchangeVars>>

IngestCommand(source, m, requireRecording) ==
  /\ StoresCommand(source, m, requireRecording)
  /\ StoreCommand(m)

SetRecording(on) ==
  /\ recording' = on
  /\ UNCHANGED <<nextArrival, exchangeVars, databaseVars>>

(***************************************************************************)
(* mark_source_disconnected walks the source's in-flight exchanges in      *)
(* arrival order, then its commands.  Each exchange is changed in place    *)
(* (its metadata get an entry for the reason) before it is validated; one  *)
(* received after at (the clock went back) or whose metadata have no room  *)
(* for the reason fails the call, which leaves it and its predecessors     *)
(* changed and the rest, the commands included, untouched.  Nothing is     *)
(* evicted and the retained bytes are not recounted.                       *)
(***************************************************************************)
MarkIncomplete(e) ==
  [e EXCEPT !.revision = @ + 1, !.state = "incomplete",
            !.metadata = IF @ = "roomy" THEN "roomy" ELSE "over"]

MarkCommandIncomplete(c) ==
  [c EXCEPT !.revision = @ + 1, !.state = "incomplete", !.reason = DisconnectReasonBytes]

InFlightPositions(source, map, order) ==
  {i \in DOMAIN order : order[i].source = source /\ IsInFlight(map[order[i]])}

FailsValidation(i, at) == ~IsValidAt(MarkIncomplete(exchanges[arrivalOrder[i]]), at)

DisconnectSucceeds(source, at) ==
  \A i \in InFlightPositions(source, exchanges, arrivalOrder) : ~FailsValidation(i, at)

MarkedExchanges(source, at) ==
  LET open == InFlightPositions(source, exchanges, arrivalOrder)
  IN  {arrivalOrder[i] : i \in {p \in open : \A q \in Before(open, p) : ~FailsValidation(q, at)}}

MarkedCommands(source, at) ==
  IF DisconnectSucceeds(source, at)
  THEN {commandOrder[i] : i \in InFlightPositions(source, commands, commandOrder)}
  ELSE {}

MarkSourceDisconnected(source, at) ==
  /\ exchanges' = [k \in ExchangeKeys |-> IF k \in MarkedExchanges(source, at)
                                          THEN MarkIncomplete(exchanges[k])
                                          ELSE exchanges[k]]
  /\ commands' = [k \in CommandKeys |-> IF k \in MarkedCommands(source, at)
                                        THEN MarkCommandIncomplete(commands[k])
                                        ELSE commands[k]]
  /\ UNCHANGED <<recording, nextArrival, arrivalOrder, retentionBlocked,
                 commandOrder, retainedBytes, databaseBlocked>>

(* Faulty variants of the next: the counter starts at zero; the flags and  *)
(* the byte account survive.                                               *)
ClearSessionFromZero ==
  /\ nextArrival' = 0
  /\ exchanges' = [k \in ExchangeKeys |-> None]
  /\ commands' = [k \in CommandKeys |-> None]
  /\ arrivalOrder' = <<>> /\ commandOrder' = <<>>
  /\ retentionBlocked' = FALSE /\ databaseBlocked' = FALSE
  /\ retainedBytes' = 0
  /\ UNCHANGED recording

ClearSessionKeepingStatus ==
  /\ nextArrival' = 1
  /\ exchanges' = [k \in ExchangeKeys |-> None]
  /\ commands' = [k \in CommandKeys |-> None]
  /\ arrivalOrder' = <<>> /\ commandOrder' = <<>>
  /\ UNCHANGED <<recording, retentionBlocked, databaseBlocked, retainedBytes>>

(* clear_session keeps the recording flag and forgets everything else. *)
ClearSession ==
  /\ nextArrival' = 1
  /\ exchanges' = [k \in ExchangeKeys |-> None]
  /\ arrivalOrder' = <<>>
  /\ retentionBlocked' = FALSE
  /\ commands' = [k \in CommandKeys |-> None]
  /\ commandOrder' = <<>>
  /\ retainedBytes' = 0
  /\ databaseBlocked' = FALSE
  /\ UNCHANGED recording

HubNext ==
  \/ \E source \in Sources, m \in ExchangeMessage, at \in Times, requireRecording \in BOOLEAN :
       IngestExchange(source, m, at, requireRecording)
  \/ \E source \in Sources, m \in DatabaseMessage, requireRecording \in BOOLEAN :
       IngestCommand(source, m, requireRecording)
  \/ \E on \in BOOLEAN : SetRecording(on)
  \/ \E source \in Sources, at \in Times : MarkSourceDisconnected(source, at)
  \/ ClearSession

HubSpec == HubInit /\ [][HubNext]_hubVars

-----------------------------------------------------------------------------------
(* Properties. *)

HubTypeOK ==
  /\ recording \in BOOLEAN
  /\ nextArrival \in Nat \ {0}
  /\ exchanges \in [ExchangeKeys -> Exchange \cup {None}]
  /\ arrivalOrder \in Seq(ExchangeKeys)
  /\ retentionBlocked \in BOOLEAN
  /\ commands \in [CommandKeys -> Command \cup {None}]
  /\ commandOrder \in Seq(CommandKeys)
  /\ retainedBytes \in Nat
  /\ databaseBlocked \in BOOLEAN

(***************************************************************************)
(* The deque and the map of a repository are kept in step by hand: the     *)
(* deque lists exactly the stored keys, each once, in the order of their   *)
(* arrival sequences.  The two repositories draw those from one counter,   *)
(* so no exchange and no command share an arrival sequence.                *)
(***************************************************************************)
OrderListsMap(map, order, next) ==
  /\ Retained(map) = {order[i] : i \in DOMAIN order}
  /\ \A i, j \in DOMAIN order : i < j => map[order[i]].arrival < map[order[j]].arrival
  /\ \A i \in DOMAIN order : map[order[i]].arrival \in 1 .. next - 1

ArrivalOrderAgrees ==
  /\ OrderListsMap(exchanges, arrivalOrder, nextArrival)
  /\ OrderListsMap(commands, commandOrder, nextArrival)
  /\ \A e \in Retained(exchanges), c \in Retained(commands) :
       exchanges[e].arrival # commands[c].arrival

(***************************************************************************)
(* The status flags say exactly that a limit is exceeded, also after the   *)
(* calls that do not recompute them (a disconnect, an ignored message).    *)
(***************************************************************************)
BlockedExactlyWhenOverLimit ==
  /\ retentionBlocked <=> Cardinality(Retained(exchanges)) > MaxSummaries
  /\ databaseBlocked <=> \/ Cardinality(Retained(commands)) > MaxCommands
                         \/ retainedBytes > MaxRetainedBytes

(***************************************************************************)
(* Every stored exchange and command has the parts its state calls for,    *)
(* whatever messages, disconnects and refused merges it went through.      *)
(***************************************************************************)
PartsMatchStates ==
  /\ \A k \in Retained(exchanges) : StateMatchesParts(exchanges[k])
  /\ \A k \in Retained(commands) : commands[k].state = "failed" <=> commands[k].failure

(***************************************************************************)
(* A start or an outcome newer than the stored exchange is never refused,  *)
(* in any state the exchange can be in, unless the inspector's clock went  *)
(* back behind the time it received the exchange, or the message leaves    *)
(* the metadata over their limit (as an outcome does that keeps what a     *)
(* disconnect without room left); and merging it neither reopens a         *)
(* finished exchange nor loses its captured request.                       *)
(***************************************************************************)
NewerMessagesMergeSafely ==
  \A m \in LifecycleMessage, at \in Times :
    LET current == exchanges[m.key]
        merged  == MergeMessage(current, m, at, current.arrival)
    IN  IsExchange(current) /\ m.revision > current.revision =>
          /\ Merges(current, m, at, current.arrival) <=>
               /\ current.receivedAt <= at
               /\ "over" # IF m.metadata = "kept" THEN current.metadata ELSE m.metadata
          /\ IsTerminal(current) => IsTerminal(merged)
          /\ current.request = "captured" => merged.request = "captured"

(***************************************************************************)
(* The byte account of the database repository is wrong through            *)
(* disconnects only, which store another reason and count nothing: no      *)
(* other step takes the account farther from the bytes of the commands     *)
(* held, or from too few to too many.  A session without a disconnect      *)
(* therefore evicts no command without need and keeps none too many.       *)
(***************************************************************************)
ActualBytes == MapThenSumSet(LAMBDA k : RetainedByteLength(commands[k]), Retained(commands))

Uncounted == ActualBytes - retainedBytes

DisconnectMarks ==
  /\ retainedBytes' = retainedBytes
  /\ \E k \in CommandKeys : IsInFlight(commands[k]) /\ commands'[k] = MarkCommandIncomplete(commands[k])

AccountFollowsCommands ==
  [][\/ DisconnectMarks
     \/ Uncounted >= 0 /\ Uncounted' \in 0 .. Uncounted
     \/ Uncounted <= 0 /\ Uncounted' \in Uncounted .. 0]_hubVars

(***************************************************************************)
(* A stored exchange or command changes only together with a higher        *)
(* revision, and never moves in arrival order: what lets every consumer    *)
(* drop an update whose revision it already has.                           *)
(***************************************************************************)
ChangesRaiseRevision(old, new) ==
  IsExchange(old) /\ IsExchange(new) /\ new # old =>
    new.revision > old.revision /\ new.arrival = old.arrival

RevisionsOnlyGrow ==
  [][/\ \A k \in ExchangeKeys : ChangesRaiseRevision(exchanges[k], exchanges'[k])
     /\ \A k \in CommandKeys : ChangesRaiseRevision(commands[k], commands'[k])]_hubVars

(***************************************************************************)
(* What retention removes with whatever message is stored next: entries    *)
(* that are terminal once it is (an in-flight one goes only with the       *)
(* message that ends it), each before every terminal one that arrived      *)
(* after it, and no more than the limits ask for: with the last of them    *)
(* kept a limit would be exceeded.  And as many as they ask for: a limit   *)
(* is exceeded afterwards only if all that is left is in flight.           *)
(***************************************************************************)
EvictsInOrder(stored, left) ==
  \A gone \in Retained(stored) \ Retained(left) :
    /\ IsTerminal(stored[gone])
    /\ \A k \in Retained(left) : IsTerminal(left[k]) => stored[gone].arrival < left[k].arrival

NoneTerminal(map) == \A k \in DOMAIN map : ~IsTerminal(map[k])

EvictsExchanges(stored, left) ==
  /\ EvictsInOrder(stored, left)
  /\ left # stored => Cardinality(Retained(left)) >= MaxSummaries
  /\ Cardinality(Retained(left)) > MaxSummaries => NoneTerminal(left)

EvictsCommands(stored, left, bytes) ==
  LET gone == Retained(stored) \ Retained(left)
  IN  /\ EvictsInOrder(stored, left)
      /\ \A last \in gone : (\A k \in gone : stored[k].arrival <= stored[last].arrival) =>
           \/ Cardinality(Retained(left)) >= MaxCommands
           \/ bytes + RetainedByteLength(stored[last]) > MaxRetainedBytes
      /\ Cardinality(Retained(left)) > MaxCommands \/ bytes > MaxRetainedBytes
           => NoneTerminal(left)

RetentionIsOrderly ==
  /\ \A m \in ExchangeMessage, at \in Times : StoresExchange(m.key.source, m, at, FALSE) =>
       LET stored == StoredExchanges(m, at)
           order  == Longer(exchanges, arrivalOrder, m.key)
       IN  EvictsExchanges(stored, WithoutPositions(stored, order, EvictedExchanges(stored, order)))
  /\ \A m \in DatabaseMessage : StoresCommand(m.key.source, m, FALSE) =>
       LET stored  == StoredCommands(m)
           order   == Longer(commands, commandOrder, m.key)
           evicted == EvictedCommands(stored, order, BytesWith(m))
       IN  EvictsCommands(stored, WithoutPositions(stored, order, evicted),
                          BytesWithout(BytesWith(m), stored, order, evicted))
===================================================================================
