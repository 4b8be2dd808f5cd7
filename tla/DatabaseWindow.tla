-------------------------------- MODULE DatabaseWindow --------------------------------
(***************************************************************************)
(* The database workspace of a window and the stream behind it: the hub's  *)
(* database commands as their publishers change them, the broadcast        *)
(* channel and the receiver of a hosted window (dev_api.rs) or of the      *)
(* native one (src-tauri/src/lib.rs), the data source that reconnects, and *)
(* the workspace (DatabaseWorkspace.tsx), which keeps rows of its own      *)
(* beside the store, loads a snapshot and subscribes at once, and asks for *)
(* the detail of a selected command.  CaptureHub says how the hub changes  *)
(* a command; here a command is a summary [key, revision, arrival, done].  *)
(* A message on the socket and its reception are one step.                 *)
(***************************************************************************)
EXTENDS Integers, FiniteSets, Sequences

CONSTANTS
  Keys,              (* records [source, id, database, target]              *)
  Null,              (* no batch, no command selected or inspected          *)
  MaxCommands,       (* retention limit of the hub                          *)
  ChannelCapacity,   (* batches the broadcast channel keeps for a receiver  *)
  MaxMutations,      (* bound on the changes of the hub                     *)
  MaxStreams,        (* bound on the subscriptions                          *)
  MaxClicks          (* bound on the steps of the user                      *)

Publishers == {"processor", "connection", "user"}

Summary == [key : Keys, revision : Nat \ {0}, arrival : Nat \ {0}, done : BOOLEAN]

BatchOf(rows) ==
  [kind : {"changes", "reset"}, at : Nat, upserts : SUBSET rows, removes : SUBSET Keys]

ASSUME WindowAssumption ==
  /\ Null \notin Keys \cup BatchOf(Summary)
  /\ {MaxCommands, ChannelCapacity} \subseteq Nat \ {0}
  /\ {MaxMutations, MaxStreams, MaxClicks} \subseteq Nat

VARIABLES
  hosted,       (* a hosted browser window, or the native one               *)
  hub,          (* the summaries of the retained commands                   *)
  arrivals,     (* next_arrival_sequence                                    *)
  unpublished,  (* publisher -> the batch of a change not yet broadcast     *)
  stream,       (* the server's side of the subscription                    *)
  reset,        (* the snapshot that the subscription starts with           *)
  channel,      (* batches the receiver has not taken                       *)
  lagged,       (* batches were overwritten before it took them             *)
  streams,      (* subscriptions so far                                     *)
  mounted,      (* the database workspace is the one in view                *)
  initial,      (* getInitialSnapshot: Idle, Asked or the answer            *)
  summaries,    (* the workspace's rows                                     *)
  selectedKey,
  requests,     (* getCommand calls that have not been answered             *)
  collapsed,    (* collapsedDatabaseNodeIds, which the App keeps            *)
  inspected,    (* selectedDatabaseCommand, which the App keeps             *)
  mutations, clicks,   (* counted for the bounds                            *)
  past,         (* auxiliary: every summary that the hub has had            *)
  wanted,       (* auxiliary: the keys that were selected                   *)
  told,         (* auxiliary: the newest change that reached or missed k    *)
  doubtful      (* auxiliary: keys that missed a change, or got one late    *)

hubState == <<hub, arrivals, unpublished, mutations, past>>
streamState == <<stream, reset, channel, lagged, streams>>
viewState == <<mounted, initial, summaries, selectedKey, requests, collapsed, inspected>>
doubts == <<told, doubtful>>
windowVars == <<hosted, hubState, streamState, viewState, clicks, wanted, doubts>>

(* Every change of a batch is about another key, but for a reset, which     *)
(* replaces all.  (at is auxiliary: which change of the hub it tells.)      *)
Batch(kind, at, upserts, removes) ==
  [kind |-> kind, at |-> at, upserts |-> upserts, removes |-> removes]

Snapshot == Batch("reset", mutations, hub, {})

(* The two states of getInitialSnapshot that are not an answer. *)
Idle == [kind |-> "idle"]

Asked == [kind |-> "asked"]

KeysOf(rows) == {r.key : r \in rows}

(* The window may open on a session that has begun. *)
WindowInit ==
  /\ hosted \in BOOLEAN
  /\ hub \in {{}} \cup {{[key |-> k, revision |-> 1, arrival |-> 1, done |-> FALSE]} : k \in Keys}
  /\ arrivals = Cardinality(hub) + 1 /\ past = hub
  /\ unpublished = [p \in Publishers |-> Null] /\ mutations = 0
  /\ stream = "off" /\ reset = Null /\ channel = <<>> /\ lagged = FALSE /\ streams = 0
  /\ mounted \in BOOLEAN /\ initial = (IF mounted THEN Asked ELSE Idle) /\ summaries = {}
  /\ selectedKey = Null /\ requests = {} /\ collapsed = {} /\ inspected = Null
  /\ clicks = 0 /\ wanted = {}
  /\ told = [k \in Keys |-> 0] /\ doubtful = {}

Touched(batch) ==
  IF batch.kind = "reset" THEN Keys ELSE KeysOf(batch.upserts) \cup batch.removes

Raise(batch) ==
  [k \in Keys |-> IF k \in Touched(batch) /\ told[k] < batch.at THEN batch.at ELSE told[k]]

(* A workspace that is mounted will never be told what this batch tells. *)
Miss(batch) ==
  IF mounted THEN told' = Raise(batch) /\ doubtful' = doubtful \cup Touched(batch)
  ELSE UNCHANGED doubts

-----------------------------------------------------------------------------------
(* The hub and its publishers. *)

Mutate(p, upserts, removes) ==
  /\ unpublished[p] = Null
  /\ mutations < MaxMutations
  /\ mutations' = mutations + 1
  /\ unpublished' = [unpublished EXCEPT ![p] = Batch("changes", mutations + 1, upserts, removes)]
  /\ past' = past \cup upserts

(* Terminal commands leave in the order of arrival while there are too many. *)
Evicted(commands) ==
  LET terminal == {c \in commands : c.done}
      surplus  == Cardinality(commands) - MaxCommands
  IN  {c \in terminal : Cardinality({d \in terminal : d.arrival < c.arrival}) < surplus}

(* The processor ingests a newer message of command k, which may end it; a  *)
(* snapshot may open it again.                                              *)
Ingest(k, done) ==
  LET current == {c \in hub : c.key = k}
      next    == IF current = {} THEN [key |-> k, revision |-> 1, arrival |-> arrivals, done |-> done]
                 ELSE LET c == CHOOSE c \in current : TRUE
                      IN  [c EXCEPT !.revision = @ + 1, !.done = done]
      stored  == (hub \ current) \cup {next}
  IN  /\ hub' = stored \ Evicted(stored)
      /\ arrivals' = arrivals + IF current = {} THEN 1 ELSE 0
      /\ Mutate("processor", {next}, KeysOf(Evicted(stored)))
      /\ UNCHANGED <<hosted, streamState, viewState, clicks, wanted, doubts>>

(* A connection that ends marks the commands of its source. *)
Disconnect(source) ==
  LET open   == {c \in hub : c.key.source = source /\ ~c.done}
      marked == {[c EXCEPT !.revision = @ + 1, !.done = TRUE] : c \in open}
  IN  /\ open # {}
      /\ hub' = (hub \ open) \cup marked
      /\ Mutate("connection", marked, {})
      /\ UNCHANGED <<hosted, arrivals, streamState, viewState, clicks, wanted, doubts>>

(* The native window publishes a reset of the commands, the hosted one none. *)
Clear ==
  LET empty == Batch("reset", mutations + 1, {}, {})
  IN  /\ unpublished["user"] = Null
      /\ mutations < MaxMutations
      /\ mutations' = mutations + 1
      /\ hub' = {} /\ arrivals' = 1
      /\ IF hosted
         THEN Miss(empty) /\ UNCHANGED unpublished
         ELSE unpublished' = [unpublished EXCEPT !["user"] = empty] /\ UNCHANGED doubts
      /\ UNCHANGED <<hosted, past, streamState, viewState, clicks, wanted>>

IsFull == Len(channel) = ChannelCapacity

(* A receiver that has fallen behind loses the oldest batch. *)
Publish(p) ==
  LET batch == unpublished[p]
  IN  /\ batch # Null
      /\ unpublished' = [unpublished EXCEPT ![p] = Null]
      /\ IF stream = "open"
         THEN /\ channel' = Append(IF IsFull THEN Tail(channel) ELSE channel, batch)
              /\ lagged' = (lagged \/ IsFull)
         ELSE UNCHANGED <<channel, lagged>>
      /\ IF stream = "snapshot" /\ batch.at > reset.at THEN Miss(batch) ELSE UNCHANGED doubts
      /\ UNCHANGED <<hosted, hub, arrivals, mutations, past, stream, reset, streams, viewState,
                     clicks, wanted>>

-----------------------------------------------------------------------------------
(* The workspace's rows. *)

(* Faulty variant of the next: the row that is updated stays beside the new. *)
ApplyKeepingOld(rows, batch) ==
  IF batch.kind = "reset" THEN batch.upserts
  ELSE {r \in rows \cup batch.upserts : r.key \notin batch.removes}

ApplyDatabaseDeltas(rows, batch) ==
  IF batch.kind = "reset" THEN batch.upserts
  ELSE {r \in {old \in rows : old.key \notin KeysOf(batch.upserts)} \cup batch.upserts :
          r.key \notin batch.removes}

(* Nothing compares revisions: a batch that is overtaken wins. *)
Apply(batch) ==
  LET late == {k \in Touched(batch) : told[k] > batch.at}
  IN  /\ summaries' = ApplyDatabaseDeltas(summaries, batch)
      /\ told' = Raise(batch)
      /\ doubtful' = (doubtful \ Touched(batch)) \cup late

Node(r) == <<r.key.source, r.key.database, r.key.target>>

(* The database of a target, or of itself. *)
DatabaseOf(node) == <<node[1], node[2]>>

(* The commands of every target of every database; how they are sorted is   *)
(* left out.                                                                *)
GroupCommands(rows) == [node \in {Node(r) : r \in rows} |-> {r \in rows : Node(r) = node}]

-----------------------------------------------------------------------------------
(* The subscription. *)

TakeSnapshot ==
  /\ mounted
  /\ stream = "off" /\ streams < MaxStreams
  /\ stream' = "snapshot"
  /\ streams' = streams + 1
  /\ reset' = Snapshot
  /\ IF hosted THEN Apply(Snapshot) ELSE UNCHANGED <<summaries, doubts>>
  /\ UNCHANGED <<hosted, hubState, channel, lagged, mounted, initial, selectedKey, requests,
                 collapsed, inspected, clicks, wanted>>

Subscribe ==
  /\ stream = "snapshot"
  /\ stream' = "open"
  /\ reset' = Null
  /\ IF hosted THEN UNCHANGED <<summaries, doubts>> ELSE Apply(reset)
  /\ UNCHANGED <<hosted, hubState, channel, lagged, streams, mounted, initial, selectedKey, requests,
                 collapsed, inspected, clicks, wanted>>

Forward ==
  /\ stream = "open" /\ ~lagged /\ channel # <<>>
  /\ channel' = Tail(channel)
  /\ Apply(Head(channel))
  /\ UNCHANGED <<hosted, hubState, stream, reset, lagged, streams, mounted, initial, selectedKey,
                 requests, collapsed, inspected, clicks, wanted>>

(* Faulty variant of the next: the hosted stream carries on without a reset. *)
LagHostedSilently ==
  /\ hosted /\ stream = "open" /\ lagged
  /\ lagged' = FALSE
  /\ UNCHANGED <<hosted, hubState, stream, reset, channel, streams, viewState, clicks, wanted, doubts>>

(* RecvError::Lagged: a hosted window is reset, then sent what is left. *)
LagHosted ==
  /\ hosted /\ stream = "open" /\ lagged
  /\ lagged' = FALSE
  /\ Apply(Snapshot)
  /\ UNCHANGED <<hosted, hubState, stream, reset, channel, streams, mounted, initial, selectedKey,
                 requests, collapsed, inspected, clicks, wanted>>

CloseStream(next) ==
  /\ stream' = next
  /\ reset' = Null /\ channel' = <<>> /\ lagged' = FALSE
  /\ UNCHANGED streams

(* The native window's task ends, or cannot start without a listener. *)
EndNative ==
  /\ ~hosted
  /\ (stream = "open" /\ lagged) \/ (stream = "off" /\ mounted)
  /\ CloseStream("ended")
  /\ UNCHANGED <<hosted, hubState, viewState, clicks, wanted, doubts>>

(* The hosted window's socket closes; a timer connects again. *)
Lose ==
  /\ hosted /\ stream \in {"snapshot", "open"}
  /\ CloseStream("off")
  /\ UNCHANGED <<hosted, hubState, viewState, clicks, wanted, doubts>>

-----------------------------------------------------------------------------------
(* The workspace. *)

Click == clicks < MaxClicks /\ clicks' = clicks + 1

(* The effect: the snapshot is requested while the subscription starts. *)
MountWorkspace ==
  /\ Click
  /\ ~mounted
  /\ mounted' = TRUE
  /\ initial' = Asked
  /\ UNCHANGED <<hosted, hubState, streamState, summaries, selectedKey, requests, collapsed, inspected,
                 wanted, doubts>>

(* Faulty variant of the next: the answer of the snapshot is still taken.   *)
UnmountUndisposed ==
  /\ Click
  /\ mounted
  /\ mounted' = FALSE
  /\ summaries' = {} /\ selectedKey' = Null
  /\ CloseStream("off")
  /\ told' = [k \in Keys |-> 0] /\ doubtful' = {}
  /\ UNCHANGED <<hosted, hubState, initial, requests, collapsed, inspected, wanted>>

(* Disposed: neither the answer nor a later batch is applied; the rows and  *)
(* the selection go with the workspace.                                     *)
Unmount ==
  /\ Click
  /\ mounted
  /\ mounted' = FALSE
  /\ initial' = Idle
  /\ summaries' = {} /\ selectedKey' = Null
  /\ CloseStream("off")
  /\ told' = [k \in Keys |-> 0] /\ doubtful' = {}
  /\ UNCHANGED <<hosted, hubState, requests, collapsed, inspected, wanted>>

AnswerInitial ==
  /\ initial = Asked
  /\ initial' = Snapshot
  /\ UNCHANGED <<hosted, hubState, streamState, mounted, summaries, selectedKey, requests, collapsed,
                 inspected, clicks, wanted, doubts>>

(* setSummaries(snapshot): it replaces the rows whenever it arrives. *)
ApplyInitial ==
  /\ initial \notin {Idle, Asked}
  /\ Apply(initial)
  /\ initial' = Idle
  /\ UNCHANGED <<hosted, hubState, streamState, mounted, selectedKey, requests, collapsed, inspected, clicks, wanted>>

FailInitial ==
  /\ initial = Asked
  /\ initial' = Idle
  /\ UNCHANGED <<hosted, hubState, streamState, mounted, summaries, selectedKey, requests, collapsed,
                 inspected, clicks, wanted, doubts>>

SelectCommand(r) ==
  /\ Click
  /\ mounted /\ {Node(r), DatabaseOf(Node(r))} \cap collapsed = {}
  /\ selectedKey' = r.key
  /\ requests' = requests \cup {r.key}
  /\ wanted' = wanted \cup {r.key}
  /\ UNCHANGED <<hosted, hubState, streamState, mounted, initial, summaries, collapsed, inspected, doubts>>

ToggleNode(node) ==
  /\ Click
  /\ mounted
  /\ node = DatabaseOf(node) \/ DatabaseOf(node) \notin collapsed
  /\ collapsed' = IF node \in collapsed THEN collapsed \ {node} ELSE collapsed \cup {node}
  /\ UNCHANGED <<hosted, hubState, streamState, mounted, initial, summaries, selectedKey, requests,
                 inspected, wanted, doubts>>

Answers(k) == {c \in hub : c.key = k} \cup (IF k \in KeysOf(hub) THEN {} ELSE {Null})

(* onCommandSelected, whatever is selected by then, mounted or not.         *)
AnswerCommand(k) ==
  /\ k \in requests
  /\ requests' = requests \ {k}
  /\ inspected' \in Answers(k)
  /\ UNCHANGED <<hosted, hubState, streamState, mounted, initial, summaries, selectedKey, collapsed,
                 clicks, wanted, doubts>>

FailCommand(k) ==
  /\ k \in requests
  /\ requests' = requests \ {k}
  /\ UNCHANGED <<hosted, hubState, streamState, mounted, initial, summaries, selectedKey, collapsed,
                 inspected, clicks, wanted, doubts>>

-----------------------------------------------------------------------------------

WindowNext ==
  \/ \E k \in Keys, done \in BOOLEAN : Ingest(k, done)
  \/ \E k \in Keys : Disconnect(k.source)
  \/ Clear
  \/ \E p \in Publishers : Publish(p)
  \/ TakeSnapshot
  \/ Subscribe
  \/ Forward
  \/ LagHosted
  \/ EndNative
  \/ Lose
  \/ MountWorkspace
  \/ Unmount
  \/ AnswerInitial
  \/ ApplyInitial
  \/ FailInitial
  \/ \E node \in DOMAIN GroupCommands(summaries) :
       \/ \E r \in GroupCommands(summaries)[node] : SelectCommand(r)
       \/ \E level \in {node, DatabaseOf(node)} : ToggleNode(level)
  \/ \E k \in Keys : AnswerCommand(k) \/ FailCommand(k)

WindowSpec == WindowInit /\ [][WindowNext]_windowVars

-----------------------------------------------------------------------------------
(* Properties. *)

WindowTypeOK ==
  /\ hub \subseteq past /\ past \subseteq Summary
  /\ \A p \in Publishers : unpublished[p] \in BatchOf(past) \cup {Null}
  /\ stream \in {"off", "snapshot", "open", "ended"}
  /\ (reset # Null) <=> (stream = "snapshot")
  /\ reset \in BatchOf(past) \cup {Null}
  /\ channel \in Seq(BatchOf(past)) /\ Len(channel) <= ChannelCapacity
  /\ initial \in BatchOf(past) \cup {Idle, Asked}
  /\ ~mounted => stream = "off" /\ initial = Idle /\ summaries = {}
  /\ requests \subseteq wanted /\ selectedKey \in wanted \cup {Null}
  /\ mutations \in 0 .. MaxMutations /\ streams \in 0 .. MaxStreams /\ clicks \in 0 .. MaxClicks

(***************************************************************************)
(* The workspace and its inspector keep the promise of a live table: the   *)
(* rows are commands as the hub once had them, each command once, though a *)
(* snapshot, resets and changes arrive on two ways in any order; and the   *)
(* command inspected is one that was selected, as the hub once had it.     *)
(***************************************************************************)
Table == INSTANCE LiveTable WITH shown <- summaries, Absent <- Null

ImplementsLiveTable == Table!TableSpec

(* Nothing is on its way from the hub to the workspace. *)
Quiet ==
  /\ \A p \in Publishers : unpublished[p] = Null
  /\ mounted /\ stream = "open" /\ channel = <<>> /\ ~lagged
  /\ initial = Idle

(***************************************************************************)
(* Once nothing is on its way the rows are the hub's, but for the commands *)
(* that missed a change (published before the server subscribed, or        *)
(* cleared with no reset) or got an older one after a newer (the initial   *)
(* snapshot, or two publishers).                                           *)
(***************************************************************************)
QuietRowsAreTheHubs ==
  Quiet => {r \in summaries : r.key \notin doubtful} = {c \in hub : c.key \notin doubtful}
===================================================================================
