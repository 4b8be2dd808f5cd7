---------------------------------- MODULE UiStream ----------------------------------
(***************************************************************************)
(* How a window follows the hub's exchanges: the publishers of             *)
(* crates/inspector-server/src/ingress, which change the hub under its     *)
(* mutex and broadcast the change later; the receiver of a hosted window   *)
(* (dev_api.rs) or of the native one (src-tauri/src/lib.rs); the data      *)
(* source, which refetches the detail of every changed exchange            *)
(* (src/data/adapters/); and the store's reducer                           *)
(* (src/state/capture/captureDeltaReducer.ts).  A message on the socket    *)
(* and its reception are one step: the delay between them is a delay of    *)
(* the translation that follows.                                           *)
(***************************************************************************)
EXTENDS CaptureHub, SequencesExt

CONSTANTS
  Messages,          (* the messages that are ingested                      *)
  ChannelCapacity,   (* batches the broadcast channel keeps for a receiver  *)
  MaxMutations,      (* bound on the changes of the hub                     *)
  MaxStreams,        (* bound on the window's subscriptions                 *)
  MaxTranslations    (* bound on the batches a window translates at a time  *)

BatchType ==
  [kind : {"changes", "reset"}, at : 0 .. MaxMutations,
   upserts : Seq(ExchangeKeys), removes : SUBSET ExchangeKeys]

ASSUME UiAssumption ==
  /\ Messages \subseteq ExchangeMessage
  /\ ChannelCapacity \in Nat \ {0}
  /\ {MaxMutations, MaxStreams, MaxTranslations} \subseteq Nat
  /\ None \notin BatchType

(* Who changes the hub, each at its own pace: the queue's processor, a      *)
(* closing connection, a clear request.                                     *)
Publishers == {"processor", "connection", "user"}

VARIABLES
  hosted,        (* a hosted browser window, or the native one              *)
  unpublished,   (* publisher -> batch of a change not yet broadcast        *)
  stream,        (* the server's side of the window's subscription          *)
  snapshot,      (* the reset the subscription starts with                  *)
  channel,       (* batches the receiver has not taken                      *)
  lagged,        (* batches were overwritten before it took them            *)
  streams,       (* subscriptions so far: connectionAttempt                 *)
  loading,       (* the initial snapshot: "start", "busy" or "done"         *)
  translations,  (* batches whose details are being fetched, in order       *)
  view,          (* the store: rows by key, and their order                 *)
  mutations,     (* auxiliary: changes of the hub so far                    *)
  upserted,      (* auxiliary: newest change that gave the window this row  *)
  removed,       (* auxiliary: newest change that took this row away        *)
  doubtful,      (* auxiliary: rows that missed a change or got one late    *)
  displaced      (* auxiliary: a row changed its arrival where it stood     *)

streamVars == <<stream, snapshot, channel, lagged, streams>>
windowVars == <<loading, translations, view>>
doubtVars == <<upserted, removed, doubtful, displaced>>
uiVars == <<hubVars, hosted, unpublished, streamVars, windowVars, mutations, doubtVars>>

(* Array.filter, and the like. *)
Listing == INSTANCE LeftFold WITH Step <- \o

EmptyView == [rows |-> [k \in ExchangeKeys |-> None], order |-> <<>>]

UiInit ==
  /\ HubInit
  /\ hosted \in BOOLEAN
  /\ unpublished = [p \in Publishers |-> None]
  /\ stream = "off" /\ snapshot = None /\ channel = <<>> /\ lagged = FALSE /\ streams = 0
  /\ loading = "start" /\ translations = <<>> /\ view = EmptyView
  /\ mutations = 0
  /\ upserted = [k \in ExchangeKeys |-> 0]
  /\ removed = [k \in ExchangeKeys |-> 0]
  /\ doubtful = {}
  /\ displaced = FALSE

(***************************************************************************)
(* A batch of deltas: the keys to upsert, in order, and those to remove.   *)
(* A reset replaces every row.  (at is auxiliary: which change it tells.)  *)
(***************************************************************************)
Batch(kind, at, upserts, removes) ==
  [kind |-> kind, at |-> at, upserts |-> upserts, removes |-> removes]

Snapshot == Batch("reset", mutations, arrivalOrder, {})

Touched(batch) ==
  IF batch.kind = "reset" THEN ExchangeKeys ELSE ToSet(batch.upserts) \cup batch.removes

Raise(stamps, keys, at) ==
  [k \in ExchangeKeys |-> IF k \in keys /\ stamps[k] < at THEN at ELSE stamps[k]]

(* The window will never be told what this batch tells. *)
Miss(batch) ==
  /\ doubtful' = doubtful \cup Touched(batch)
  /\ upserted' = Raise(upserted, Touched(batch), batch.at)
  /\ removed' = Raise(removed, Touched(batch), batch.at)
  /\ UNCHANGED displaced

-----------------------------------------------------------------------------------
(* The publishers. *)

Mutate(p, kind, upserts, removes) ==
  /\ unpublished[p] = None
  /\ mutations < MaxMutations
  /\ mutations' = mutations + 1
  /\ unpublished' = [unpublished EXCEPT ![p] = Batch(kind, mutations + 1, upserts, removes)]

(***************************************************************************)
(* The processor ingests; the hub tells an upsert of the message's key and *)
(* a removal of every key that retention evicted.                          *)
(***************************************************************************)
Ingest(m, at) ==
  /\ IngestExchange(m.key.source, m, at, TRUE)
  /\ Mutate("processor", "changes", <<m.key>>,
            (Retained(exchanges) \cup {m.key}) \ Retained(exchanges'))
  /\ UNCHANGED <<hosted, streamVars, windowVars, doubtVars>>

(* A connection marks its source; a call that fails tells nothing of what   *)
(* it changed.                                                              *)
Disconnect(source, at) ==
  LET marked == Listing!Kept(arrivalOrder, MarkedExchanges(source, at))
  IN  /\ marked # <<>>
      /\ MarkSourceDisconnected(source, at)
      /\ IF DisconnectSucceeds(source, at)
         THEN /\ Mutate("connection", "changes", marked, {})
              /\ UNCHANGED doubtVars
         ELSE /\ mutations < MaxMutations
              /\ mutations' = mutations + 1
              /\ Miss(Batch("changes", mutations + 1, marked, {}))
              /\ UNCHANGED unpublished
      /\ UNCHANGED <<hosted, streamVars, windowVars>>

Clear ==
  /\ ClearSession
  /\ Mutate("user", "reset", <<>>, {})
  /\ UNCHANGED <<hosted, streamVars, windowVars, doubtVars>>

(* Faulty variant of the next: the channel grows without bound. *)
SentUnbounded(batch) == Append(channel, batch)

(* Sending to a broadcast channel never waits: the oldest batch goes.       *)
IsFull == Len(channel) = ChannelCapacity

Sent(batch) == Append(IF IsFull THEN Tail(channel) ELSE channel, batch)

Publish(p) ==
  LET batch == unpublished[p]
  IN  /\ batch # None
      /\ unpublished' = [unpublished EXCEPT ![p] = None]
      /\ IF stream = "open"
         THEN /\ channel' = Sent(batch)
              /\ lagged' = (lagged \/ IsFull)
         ELSE UNCHANGED <<channel, lagged>>
      /\ IF stream = "snapshot" /\ batch.at > snapshot.at
         THEN Miss(batch)
         ELSE UNCHANGED doubtVars
      /\ UNCHANGED <<hubVars, hosted, mutations, stream, snapshot, streams, windowVars>>

-----------------------------------------------------------------------------------
(* The store. *)

(* insertArrival: before the first row that arrived later, or that arrived  *)
(* as early and has the greater key.                                        *)
ArrivesBefore(v, k, e, other) ==
  \/ e.arrival < v.rows[other].arrival
  \/ e.arrival = v.rows[other].arrival /\ k.id < other.id

(* Faulty variant of the next: the newest row goes last. *)
InsertLast(v, k, e) == Append(v.order, k)

InsertArrival(v, k, e) ==
  LET first == SelectInSeq(v.order, LAMBDA other : ArrivesBefore(v, k, e, other))
  IN  IF first = 0 THEN Append(v.order, k) ELSE InsertAt(v.order, first, k)

RemoveRows(v, keys) ==
  [rows  |-> [k \in ExchangeKeys |-> IF k \in keys THEN None ELSE v.rows[k]],
   order |-> Listing!Kept(v.order, ExchangeKeys \ keys)]

PutRow(v, k, e) ==
  [rows  |-> [v.rows EXCEPT ![k] = e],
   order |-> IF IsExchange(v.rows[k]) THEN v.order ELSE InsertArrival(v, k, e)]

(* Faulty variant of the next: whatever was fetched replaces the row. *)
UpsertAnyRevision(v, k, e) == PutRow(v, k, e)

UpsertRow(v, k, e) ==
  IF IsExchange(v.rows[k]) /\ v.rows[k].revision >= e.revision THEN v ELSE PutRow(v, k, e)

(***************************************************************************)
(* applyDeltas on a translated batch: the changes of single rows in turn.  *)
(* A key whose detail was not found is removed, and a removal in the batch *)
(* takes the place of an upsert before it.  A reset rebuilds the rows from *)
(* what was fetched; its sort is the one that insertion yields.            *)
(***************************************************************************)
Given(batch, got) == {k \in ToSet(batch.upserts) \ batch.removes : got[k] # None}

ReduceRow(v, row) ==
  IF row.detail = None THEN RemoveRows(v, {row.key}) ELSE UpsertRow(v, row.key, row.detail)

Reducing == INSTANCE LeftFold WITH Step <- ReduceRow

Translated(batch, got) ==
  [i \in 1 .. Len(batch.upserts) |->
     LET k == batch.upserts[i]
     IN  [key |-> k, detail |-> IF k \in Given(batch, got) THEN got[k] ELSE None]]

Reduce(v, batch, got) ==
  RemoveRows(Reducing!Fold(IF batch.kind = "reset" THEN EmptyView ELSE v, Translated(batch, got)),
             batch.removes)

(* An upsert leaves a row where it stands, although its exchange is another *)
(* one: evicted, created again and so arrived at another time.              *)
Displaces(batch, got) ==
  \E k \in Given(batch, got) :
    /\ IsExchange(view.rows[k]) /\ got[k].revision > view.rows[k].revision
    /\ got[k].arrival # view.rows[k].arrival

(* What the auxiliary variables note of it: a row is doubtful when a change *)
(* that gave or took it is applied after a newer one that did the reverse.  *)
Note(batch, got) ==
  LET given == Given(batch, got)
      taken == Touched(batch) \ given
      all   == batch.kind = "reset"
      late  == {k \in given : removed[k] > batch.at} \cup {k \in taken : upserted[k] > batch.at}
  IN  /\ doubtful' = IF all
                     THEN {k \in ExchangeKeys : removed[k] > batch.at \/ upserted[k] > batch.at}
                     ELSE doubtful \cup late
      /\ upserted' = Raise(upserted, IF all THEN ExchangeKeys ELSE given, batch.at)
      /\ removed' = Raise(removed, IF all THEN ExchangeKeys ELSE taken, batch.at)
      /\ displaced' = (~all /\ (displaced \/ Displaces(batch, got)))

ApplyDeltas(batch, got) ==
  /\ view' = Reduce(view, batch, got)
  /\ Note(batch, got)

-----------------------------------------------------------------------------------
(* The data source. *)

(***************************************************************************)
(* translateDeltas starts: every upserted key's detail is requested.  With *)
(* nothing to fetch its promises are settled before the next message.      *)
(***************************************************************************)
Receive(batch, attempt) ==
  IF batch.upserts = <<>>
  THEN /\ ApplyDeltas(batch, <<>>)
       /\ UNCHANGED translations
  ELSE /\ Len(translations) < MaxTranslations
       /\ translations' = Append(translations,
            [batch   |-> batch,
             left    |-> ToSet(batch.upserts),
             got     |-> [k \in ToSet(batch.upserts) |-> None],
             attempt |-> attempt])
       /\ UNCHANGED <<view, doubtVars>>

(* getInitialSnapshot, before the window subscribes. *)
Load ==
  /\ loading = "start"
  /\ Receive(Snapshot, 0)
  /\ loading' = IF arrivalOrder = <<>> THEN "done" ELSE "busy"
  /\ UNCHANGED <<hubVars, hosted, unpublished, mutations, streamVars>>

(* The first await of stream_ui, or of subscribe_capture_deltas: a hosted   *)
(* window is sent the snapshot before the server subscribes for it.         *)
TakeSnapshot ==
  /\ loading = "done"
  /\ stream = "off" /\ streams < MaxStreams
  /\ stream' = "snapshot"
  /\ streams' = streams + 1
  /\ snapshot' = Snapshot
  /\ IF hosted THEN Receive(Snapshot, streams + 1) ELSE UNCHANGED <<translations, view, doubtVars>>
  /\ UNCHANGED <<hubVars, hosted, unpublished, mutations, channel, lagged, loading>>

(* The native window is sent it afterwards. *)
Subscribe ==
  /\ stream = "snapshot"
  /\ stream' = "open"
  /\ snapshot' = None
  /\ IF hosted THEN UNCHANGED <<translations, view, doubtVars>> ELSE Receive(snapshot, streams)
  /\ UNCHANGED <<hubVars, hosted, unpublished, mutations, channel, lagged, streams, loading>>

Forward ==
  /\ stream = "open" /\ ~lagged /\ channel # <<>>
  /\ channel' = Tail(channel)
  /\ Receive(Head(channel), streams)
  /\ UNCHANGED <<hubVars, hosted, unpublished, mutations, stream, snapshot, lagged, streams, loading>>

(* Faulty variant of the next: the hosted stream carries on without a reset. *)
LagHostedSilently ==
  /\ hosted /\ stream = "open" /\ lagged
  /\ lagged' = FALSE
  /\ UNCHANGED <<hubVars, hosted, unpublished, mutations, stream, snapshot, channel, streams,
                 windowVars, doubtVars>>

(* RecvError::Lagged: a hosted window is reset and then sent what is left   *)
(* in the channel.                                                          *)
LagHosted ==
  /\ hosted /\ stream = "open" /\ lagged
  /\ lagged' = FALSE
  /\ Receive(Snapshot, streams)
  /\ UNCHANGED <<hubVars, hosted, unpublished, mutations, stream, snapshot, channel, streams, loading>>

(* The native window's task ends; nothing tells the window. *)
LagNative ==
  /\ ~hosted /\ stream = "open" /\ lagged
  /\ stream' = "ended"
  /\ channel' = <<>> /\ lagged' = FALSE
  /\ UNCHANGED <<hubVars, hosted, unpublished, mutations, snapshot, streams, windowVars, doubtVars>>

(* The hosted window's socket is lost or retried by the user, the native    *)
(* window's ended task is retried; what was sent is still translated.       *)
Reconnect ==
  /\ IF hosted THEN stream \in {"snapshot", "open"} ELSE stream = "ended"
  /\ streams < MaxStreams
  /\ stream' = "off"
  /\ snapshot' = None /\ channel' = <<>> /\ lagged' = FALSE
  /\ UNCHANGED <<hubVars, hosted, unpublished, mutations, streams, windowVars, doubtVars>>

Fetch(i, k) ==
  /\ k \in translations[i].left
  /\ translations' = [translations EXCEPT ![i].left = @ \ {k}, ![i].got[k] = exchanges[k]]
  /\ UNCHANGED <<hubVars, hosted, unpublished, mutations, streamVars, loading, view, doubtVars>>

Loaded(i) == IF translations[i].attempt = 0 THEN "done" ELSE loading

Apply(i) ==
  /\ translations[i].left = {}
  /\ ApplyDeltas(translations[i].batch, translations[i].got)
  /\ translations' = RemoveAt(translations, i)
  /\ loading' = Loaded(i)
  /\ UNCHANGED <<hubVars, hosted, unpublished, mutations, streamVars>>

(* A fetch fails and with it the batch; a hosted window closes the socket   *)
(* that sent it, if it is still that one.                                   *)
FailTranslation(i) ==
  LET current == hosted /\ translations[i].attempt = streams /\ streams > 0
  IN  /\ translations[i].left # {}
      /\ translations' = RemoveAt(translations, i)
      /\ loading' = Loaded(i)
      /\ Miss(translations[i].batch)
      /\ IF current
         THEN stream' = "off" /\ snapshot' = None /\ channel' = <<>> /\ lagged' = FALSE
         ELSE UNCHANGED <<stream, snapshot, channel, lagged>>
      /\ UNCHANGED <<hubVars, hosted, unpublished, mutations, streams, view>>

-----------------------------------------------------------------------------------

UiNext ==
  \/ \E m \in Messages, at \in Times : Ingest(m, at)
  \/ \E source \in Sources, at \in Times : Disconnect(source, at)
  \/ Clear
  \/ \E p \in Publishers : Publish(p)
  \/ Load
  \/ TakeSnapshot
  \/ Subscribe
  \/ Forward
  \/ LagHosted
  \/ LagNative
  \/ Reconnect
  \/ \E i \in DOMAIN translations : \E k \in ExchangeKeys : Fetch(i, k)
  \/ \E i \in DOMAIN translations : Apply(i) \/ FailTranslation(i)

UiSpec == UiInit /\ [][UiNext]_uiVars

-----------------------------------------------------------------------------------
(* Properties. *)

UiTypeOK ==
  /\ HubTypeOK
  /\ hosted \in BOOLEAN
  /\ \A p \in Publishers : unpublished[p] \in BatchType \cup {None}
  /\ stream \in {"off", "snapshot", "open", "ended"}
  /\ snapshot \in BatchType \cup {None}
  /\ (snapshot # None) <=> (stream = "snapshot")
  /\ Len(channel) <= ChannelCapacity /\ \A i \in DOMAIN channel : channel[i] \in BatchType
  /\ (channel # <<>> \/ lagged) => stream = "open"
  /\ streams \in 0 .. MaxStreams
  /\ loading \in {"start", "busy", "done"}
  /\ \A i \in DOMAIN translations :
       /\ translations[i].batch \in BatchType
       /\ translations[i].left \subseteq DOMAIN translations[i].got
       /\ translations[i].attempt \in 0 .. streams
  /\ view.rows \in [ExchangeKeys -> Exchange \cup {None}]
  /\ mutations \in 0 .. MaxMutations
  /\ doubtful \subseteq ExchangeKeys
  /\ displaced \in BOOLEAN

(* Nothing is on its way from the hub to the window. *)
AtRest ==
  /\ \A p \in Publishers : unpublished[p] = None
  /\ stream = "open" /\ channel = <<>> /\ ~lagged
  /\ translations = <<>>

(***************************************************************************)
(* The window's promise.  Every row that missed no change, and to which no *)
(* change was applied after a newer one of the opposite kind, is exactly   *)
(* the hub's once nothing is on its way, whatever was overwritten in the   *)
(* channel, refetched, ignored as stale or lost with a socket before.      *)
(***************************************************************************)
RowsAreRightUnlessDoubtful ==
  AtRest => \A k \in ExchangeKeys \ doubtful : view.rows[k] = exchanges[k]

(***************************************************************************)
(* The order lists every row once, at all times.  The rows that are not    *)
(* doubtful are listed as the hub lists them once nothing is on its way,   *)
(* although they were inserted in any order; that is so until an exchange  *)
(* that was evicted and created again takes the place of its former row.   *)
(***************************************************************************)
RowsInArrivalOrder ==
  /\ IsInjective(view.order) /\ ToSet(view.order) = Retained(view.rows)
  /\ AtRest /\ ~displaced => Listing!Kept(view.order, ExchangeKeys \ doubtful)
                               = Listing!Kept(arrivalOrder, ExchangeKeys \ doubtful)

(***************************************************************************)
(* A window that is sent a snapshot before live deltas, in one ordered     *)
(* channel, shows what the hub holds once nothing is on its way.           *)
(***************************************************************************)
WindowMirrorsHub == AtRest => view.rows = exchanges
===================================================================================
