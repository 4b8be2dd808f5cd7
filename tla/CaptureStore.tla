--------------------------------- MODULE CaptureStore ---------------------------------
(***************************************************************************)
(* The store of the window and the views over it: the deltas that the data *)
(* source applies (src/state/capture/), the tree kept beside the rows, the *)
(* selection that Structure, Sequence and Inspector share, the filter, the *)
(* one editable draft with its executions (src/state/recompose/), and the  *)
(* change between live capture and an imported exchange (src/app/).  The   *)
(* data source may apply the translated batches in any order: they are     *)
(* chosen freely here, and UiStream says where they come from.  Names of   *)
(* hosts and sources are numbers, the key of an exchange is its rank.      *)
(***************************************************************************)
EXTENDS SequenceFilter

CONSTANTS
  Exchanges,    (* the revisions of exchanges that may be told              *)
  Batches,      (* the batches of deltas that a translation may yield       *)
  Snapshots,    (* the initial snapshots: sequences of exchanges            *)
  Imported,     (* the exchange of an import file                           *)
  ReplayKey,    (* the key that a replay's receipt names                    *)
  Filters,      (* the filters a user types: sequences of tokens            *)
  MaxBatches,   (* bound on the batches applied                             *)
  MaxClicks     (* bound on the steps of the user, those of an open menu    *)
                (* apart                                                    *)

Keys == {e.key : e \in Exchanges} \cup {ReplayKey}

(* An upsert is of the exchange that it brings.                             *)
Deltas ==
  {[kind |-> "upsert", key |-> e.key, exchange |-> e] : e \in Exchanges}
    \cup [kind : {"remove"}, key : Keys]
    \cup [kind : {"reset"}, exchanges : Seq(Exchanges)]
    \cup [kind : {"status"}]

(* Of a draft: its id, the exchange it was made of, whether it was edited   *)
(* or executed, whether an execution is awaited and the draft its latest    *)
(* receipt was for.                                                         *)
DraftType ==
  [id : Nat, source : Keys, dirty : BOOLEAN, hasExecuted : BOOLEAN, pending : BOOLEAN,
   latest : Nat \cup {Absent}]

ASSUME StoreAssumption ==
  /\ Imported \in Exchanges
  /\ \A e \in Exchanges : {e.key, e.revision, e.arrival} \subseteq Nat
  /\ \A e \in Exchanges : e.path # Absent => e.path \in Seq(Nat)
  /\ \A e \in Exchanges : {e.duration, e.bytes} \subseteq Nat \cup {Absent}
  /\ ReplayKey \in Nat
  /\ Absent \notin Nat \cup Exchanges \cup DraftType
  /\ Snapshots \subseteq Seq(Exchanges)
  /\ Batches \subseteq Seq(Deltas)
  /\ {MaxBatches, MaxClicks} \subseteq Nat

VARIABLES
  rows,             (* summaryById and detailById, which change together    *)
  arrivalOrder,
  structureTree,
  selectedExchangeId, selectedGroupId, selectedExchangeHidden, selectedExchangeEvicted,
  captureFilter, focusedGroupId,
  expanded, known,  (* expandedStructureNodeIds, knownStructureNodeIds      *)
  workspaceView,
  effectDue,        (* the mounted view has yet to run its effects          *)
  draft,            (* activeRecomposeDraft                                 *)
  draftSelected,    (* selectedRecomposeDraftId is the draft's              *)
  menu,             (* the exchange of the context menu                     *)
  executions,       (* replays whose receipt is awaited                     *)
  dataSource,       (* "live" or "imported"                                 *)
  loading,          (* its initial snapshot is awaited                      *)
  translating,      (* batches of the live source whose details are fetched *)
  batches, clicks, drafts,  (* counted for the bounds; a draft's id         *)
  displaced,        (* auxiliary: since the rows were last replaced, the    *)
                    (* keys whose row changed its arrival where it stood    *)
  blind,            (* auxiliary: the selection was not made on a row       *)
  outlived          (* auxiliary: a draft went while it was executing       *)

entities == <<rows, arrivalOrder, structureTree, displaced>>
selection == <<selectedExchangeId, selectedGroupId, selectedExchangeHidden,
               selectedExchangeEvicted, draftSelected, blind>>
filtering == <<captureFilter, focusedGroupId>>
nodeState == <<expanded, known>>
drafting == <<draft, executions, drafts, outlived>>
sourcing == <<dataSource, loading, translating, batches>>
storeVars == <<entities, selection, filtering, nodeState, workspaceView, effectDue, drafting,
               menu, sourcing, clicks>>

EmptyEntities ==
  [rows |-> [k \in Keys |-> Absent], order |-> <<>>, tree |-> EmptyIndex, displaced |-> {}]

Entities == [rows |-> rows, order |-> arrivalOrder, tree |-> structureTree, displaced |-> displaced]

StoreInit ==
  /\ rows = EmptyEntities.rows /\ arrivalOrder = <<>> /\ structureTree = EmptyIndex /\ displaced = {}
  /\ selectedExchangeId = Absent /\ selectedGroupId = Absent
  /\ selectedExchangeHidden = FALSE /\ selectedExchangeEvicted = FALSE
  /\ captureFilter = <<>> /\ focusedGroupId = Absent
  /\ expanded = {} /\ known = {}
  /\ workspaceView \in {"structure", "sequence", "database"}
  /\ effectDue = TRUE
  /\ draft = Absent /\ draftSelected = FALSE /\ menu = Absent /\ executions = {}
  /\ dataSource = "live" /\ loading = TRUE /\ translating = 0
  /\ batches = 0 /\ clicks = 0 /\ drafts = 0
  /\ blind = FALSE /\ outlived = FALSE

-----------------------------------------------------------------------------------
(* captureDeltaReducer.ts. *)

SameSubject(delta, other) ==
  IF delta.kind = "status" THEN other.kind = "status"
  ELSE other.kind \in {"upsert", "remove"} /\ other.key = delta.key

(* The last change of an exchange takes the place of its first; a reset     *)
(* forgets what came before.                                                *)
AddDelta(result, delta) ==
  LET at == SelectInSeq(result, LAMBDA other : SameSubject(delta, other))
  IN  IF delta.kind = "reset" THEN <<delta>>
      ELSE IF at = 0 THEN Append(result, delta) ELSE [result EXCEPT ![at] = delta]

Adding == INSTANCE LeftFold WITH Step <- AddDelta

Coalesce(deltas) == Adding!Fold(<<>>, deltas)

CompareArrival(e, other) ==
  IF e.arrival # other.arrival THEN e.arrival < other.arrival ELSE e.key < other.key

InsertArrival(state, e) ==
  LET first == SelectInSeq(state.order, LAMBDA k : CompareArrival(e, state.rows[k]))
  IN  IF first = 0 THEN Append(state.order, e.key) ELSE InsertAt(state.order, first, e.key)

(* The hub gives an exchange that it evicted and is told again of a new     *)
(* arrival; the store leaves a row that it still has where it stands.       *)
Displaced(state, e) ==
  LET current == state.rows[e.key]
  IN  IF current # Absent /\ current.arrival # e.arrival THEN state.displaced \cup {e.key}
      ELSE state.displaced

(* Faulty variant of the next: the summary to remove is the new one.        *)
UpsertForgettingPrevious(state, e) ==
  LET current == state.rows[e.key]
  IN  IF current # Absent /\ current.revision >= e.revision THEN state
      ELSE [rows  |-> [state.rows EXCEPT ![e.key] = e],
            order |-> IF current # Absent THEN state.order ELSE InsertArrival(state, e),
            tree  |-> UpsertStructureSummary(state.tree, e.key,
                                             IF current = Absent THEN Absent ELSE e, e),
            displaced |-> Displaced(state, e)]

Upsert(state, e) ==
  LET current == state.rows[e.key]
  IN  IF current # Absent /\ current.revision >= e.revision THEN state
      ELSE [rows  |-> [state.rows EXCEPT ![e.key] = e],
            order |-> IF current # Absent THEN state.order ELSE InsertArrival(state, e),
            tree  |-> UpsertStructureSummary(state.tree, e.key, current, e),
            displaced |-> Displaced(state, e)]

RemoveExchange(state, k) ==
  IF state.rows[k] = Absent THEN state
  ELSE [rows  |-> [state.rows EXCEPT ![k] = Absent],
        order |-> Listing!Kept(state.order, Keys \ {k}),
        tree  |-> RemoveStructureSummary(state.tree, k, state.rows[k]),
        displaced |-> state.displaced]

Upserting == INSTANCE LeftFold WITH Step <- Upsert

(* The sort before it is the order that insertion yields: a snapshot lists  *)
(* every exchange of the hub once.                                          *)
FromSnapshot(exchanges) == Upserting!Fold(EmptyEntities, exchanges)

ReduceCaptureDelta(state, delta) ==
  CASE delta.kind = "reset"  -> FromSnapshot(delta.exchanges)
    [] delta.kind = "status" -> state
    [] delta.kind = "remove" -> RemoveExchange(state, delta.key)
    [] delta.kind = "upsert" -> Upsert(state, delta.exchange)

Reducing == INSTANCE LeftFold WITH Step <- ReduceCaptureDelta

ReduceCaptureDeltas(state, deltas) == Reducing!Fold(state, Coalesce(deltas))

-----------------------------------------------------------------------------------
(* captureEntitiesSlice.ts. *)

SetEntities(next) ==
  /\ rows' = next.rows /\ arrivalOrder' = next.order /\ structureTree' = next.tree
  /\ displaced' = next.displaced

ForgetDraft ==
  /\ draft' = Absent /\ draftSelected' = FALSE
  /\ outlived' = (outlived \/ executions # {})
  /\ UNCHANGED <<executions, drafts>>

KeptGroup(next, keptExchange) ==
  IF keptExchange # Absent \/ selectedGroupId \notin DOMAIN next.tree.nodes THEN Absent
  ELSE selectedGroupId

Apply(deltas, next) ==
  LET Kept(k) == k # Absent /\ next.rows[k] # Absent
      keptExchange == IF Kept(selectedExchangeId) THEN selectedExchangeId ELSE Absent
  IN  /\ SetEntities(next)
      /\ IF \E n \in DOMAIN deltas : deltas[n].kind = "reset"
         THEN /\ selectedExchangeId' = keptExchange
              /\ selectedGroupId' = KeptGroup(next, keptExchange)
              /\ selectedExchangeHidden' = FALSE /\ selectedExchangeEvicted' = FALSE
              /\ blind' = FALSE
              /\ ForgetDraft
              /\ effectDue' = TRUE
         ELSE /\ selectedExchangeEvicted' = (selectedExchangeId # Absent /\ ~Kept(selectedExchangeId))
              /\ effectDue' = (effectDue \/ next.rows # rows)
              /\ UNCHANGED <<selectedExchangeId, selectedGroupId, selectedExchangeHidden,
                             draftSelected, blind, drafting>>

ApplyDeltas(deltas) == Apply(deltas, ReduceCaptureDeltas(Entities, deltas))

(* replaceSnapshot, and App's selection of the snapshot's first exchange. *)
ReplaceSnapshot(exchanges) ==
  /\ SetEntities(FromSnapshot(exchanges))
  /\ selectedExchangeId' = IF exchanges = <<>> THEN Absent ELSE exchanges[1].key
  /\ selectedGroupId' = Absent
  /\ selectedExchangeHidden' = FALSE /\ selectedExchangeEvicted' = FALSE /\ blind' = FALSE
  /\ ForgetDraft
  /\ effectDue' = TRUE

-----------------------------------------------------------------------------------
(* The data source as App sees it. *)

LoadSnapshot(exchanges) ==
  /\ loading
  /\ ReplaceSnapshot(exchanges)
  /\ loading' = FALSE
  /\ UNCHANGED <<filtering, nodeState, workspaceView, menu, dataSource, translating, batches, clicks>>

(* A snapshot that fails is answered with a status; App subscribes all the same. *)
LoadFails ==
  /\ loading /\ dataSource = "live"
  /\ ApplyDeltas(<<[kind |-> "status"]>>)
  /\ loading' = FALSE
  /\ UNCHANGED <<filtering, nodeState, workspaceView, menu, dataSource, translating, batches, clicks>>

(* A message of the live source: its details are fetched one by one. *)
Translate ==
  /\ dataSource = "live" /\ ~loading
  /\ batches < MaxBatches
  /\ translating' = translating + 1
  /\ batches' = batches + 1
  /\ UNCHANGED <<entities, selection, filtering, nodeState, workspaceView, effectDue, drafting,
                 menu, dataSource, loading, clicks>>

(* Nothing asks whether the subscription has ended meanwhile. *)
Deliver(deltas) ==
  /\ translating > 0
  /\ translating' = translating - 1
  /\ ApplyDeltas(deltas)
  /\ UNCHANGED <<filtering, nodeState, workspaceView, menu, dataSource, loading, batches, clicks>>

-----------------------------------------------------------------------------------
(* What the views show. *)

Visible ==
  SelectFilteredExchangeIds(rows, arrivalOrder, captureFilter, structureTree, focusedGroupId)

VisibleGroups == GroupIds(structureTree, Visible)

(* A filter opens every group without changing what the user opened. *)
Open == expanded \cup IF captureFilter # <<>> \/ focusedGroupId # Absent THEN VisibleGroups ELSE {}

StructureRows ==
  FlattenStructureGroups(structureTree, Visible, Open, IF draft = Absent THEN Absent ELSE draft.source)

ClickableRows ==
  CASE workspaceView = "structure" -> StructureRows
    [] workspaceView = "sequence"  -> {[kind |-> "exchange", id |-> k] : k \in Visible}
    [] workspaceView = "database"  -> {}

(* What the Inspector shows (Inspector.tsx). *)
Inspected ==
  IF workspaceView = "database" THEN "command"
  ELSE IF draftSelected THEN "draft"
  ELSE IF selectedExchangeId # Absent /\ rows[selectedExchangeId] # Absent THEN "exchange"
  ELSE IF selectedExchangeEvicted THEN "evicted"
  ELSE IF selectedGroupId \in DOMAIN structureTree.nodes THEN "group"
  ELSE "nothing"

(* Faulty variant of the next: the flag looks at the selected exchange only. *)
HiddenExchange(visible, groups) == selectedExchangeId # Absent /\ selectedExchangeId \notin visible

IsHidden(visible, groups) ==
  \/ selectedExchangeId # Absent /\ selectedExchangeId \notin visible
  \/ selectedGroupId # Absent /\ selectedGroupId \notin groups

(* The effects of the mounted view, some time after it was drawn: the       *)
(* selection's flag, and new groups start open.                             *)
RunViewEffects ==
  /\ effectDue /\ workspaceView # "database"
  /\ effectDue' = FALSE
  /\ selectedExchangeHidden' = IsHidden(Visible, VisibleGroups)
  /\ IF workspaceView = "structure"
     THEN /\ expanded' = expanded \cup (VisibleGroups \ known)
          /\ known' = known \cup VisibleGroups
     ELSE UNCHANGED nodeState
  /\ UNCHANGED <<entities, selectedExchangeId, selectedGroupId, selectedExchangeEvicted, draftSelected,
                 blind, filtering, workspaceView, drafting, menu, sourcing, clicks>>

-----------------------------------------------------------------------------------
(* The user. *)

Click == clicks < MaxClicks /\ clicks' = clicks + 1

Select(exchange, group, isDraft) ==
  /\ selectedExchangeId' = exchange /\ selectedGroupId' = group /\ draftSelected' = isDraft
  /\ selectedExchangeHidden' = FALSE /\ selectedExchangeEvicted' = FALSE

SelectRow(row) ==
  /\ Click
  /\ CASE row.kind = "exchange" -> Select(row.id, Absent, FALSE)
       [] row.kind = "group"    -> Select(Absent, row.id, FALSE)
       [] row.kind = "draft"    -> Select(Absent, Absent, TRUE)
  /\ blind' = FALSE
  /\ UNCHANGED <<entities, filtering, nodeState, workspaceView, effectDue, drafting, menu, sourcing>>

(* Escape, or the Inspector's button. *)
ClearSelection ==
  /\ Click
  /\ Select(Absent, Absent, FALSE) /\ blind' = FALSE
  /\ UNCHANGED <<entities, filtering, nodeState, workspaceView, effectDue, drafting, menu, sourcing>>

ToggleStructureNode(row) ==
  /\ Click
  /\ row.kind = "group"
  /\ expanded' = IF row.id \in expanded THEN expanded \ {row.id} ELSE expanded \cup {row.id}
  /\ UNCHANGED <<entities, selection, filtering, known, workspaceView, effectDue, drafting, menu, sourcing>>

SetWorkspaceView(view) ==
  /\ Click
  /\ view # workspaceView
  /\ workspaceView' = view
  /\ effectDue' = TRUE
  /\ UNCHANGED <<entities, selection, filtering, nodeState, drafting, menu, sourcing>>

(* A filter that does not parse leaves the one in force. *)
SetFilterInput(tokens) ==
  LET parsed == ParseCaptureFilter(tokens)
  IN  /\ Click
      /\ workspaceView = "sequence"
      /\ captureFilter' = IF parsed.error THEN captureFilter ELSE parsed.terms
      /\ effectDue' = (effectDue \/ ~parsed.error)
      /\ UNCHANGED <<entities, selection, focusedGroupId, nodeState, workspaceView, drafting, menu, sourcing>>

ToggleFocused ==
  /\ Click
  /\ workspaceView = "sequence"
  /\ focusedGroupId # Absent \/ selectedGroupId # Absent
  /\ focusedGroupId' = IF focusedGroupId # Absent THEN Absent ELSE selectedGroupId
  /\ effectDue' = TRUE
  /\ UNCHANGED <<entities, selection, captureFilter, nodeState, workspaceView, drafting, menu, sourcing>>

OpenRecomposeMenu(row) ==
  /\ Click
  /\ row.kind = "exchange"
  /\ Select(row.id, Absent, FALSE) /\ blind' = FALSE
  /\ menu' = rows[row.id]
  /\ UNCHANGED <<entities, filtering, nodeState, workspaceView, effectDue, drafting, sourcing>>

CloseMenu ==
  /\ menu # Absent
  /\ menu' = Absent
  /\ UNCHANGED <<entities, selection, filtering, nodeState, workspaceView, effectDue, drafting, sourcing, clicks>>

(* Another file replaces an import. *)
Import ==
  /\ Click
  /\ dataSource' = "imported" /\ loading' = TRUE
  /\ UNCHANGED <<entities, selection, filtering, nodeState, workspaceView, effectDue, drafting, menu,
                 translating, batches>>

ReturnToLiveCapture ==
  /\ Click
  /\ dataSource = "imported"
  /\ dataSource' = "live" /\ loading' = TRUE
  /\ UNCHANGED <<entities, selection, filtering, nodeState, workspaceView, effectDue, drafting, menu,
                 translating, batches>>

ClearImported ==
  /\ Click
  /\ dataSource = "imported" /\ ~loading
  /\ ApplyDeltas(<<[kind |-> "reset", exchanges |-> <<>>]>>)
  /\ UNCHANGED <<filtering, nodeState, workspaceView, menu, sourcing>>

-----------------------------------------------------------------------------------
(* The draft (recomposeDraftSlice.ts, RecomposeEditor.tsx). *)

NewDraft(e) ==
  [id |-> drafts + 1, source |-> e.key, dirty |-> FALSE, hasExecuted |-> FALSE,
   pending |-> FALSE, latest |-> Absent]

Recompose ==
  LET kept == draft # Absent /\ (draft.dirty \/ draft.hasExecuted)
  IN  /\ menu # Absent
      /\ draft' = IF kept THEN draft ELSE NewDraft(menu)
      /\ drafts' = IF kept THEN drafts ELSE drafts + 1
      /\ outlived' = (outlived \/ (~kept /\ executions # {}))
      /\ Select(Absent, Absent, TRUE) /\ blind' = FALSE
      /\ workspaceView' = "structure"
      /\ effectDue' = (effectDue \/ workspaceView # "structure")
      /\ menu' = Absent
      /\ UNCHANGED <<entities, filtering, nodeState, executions, sourcing, clicks>>

(* Faulty variant of the next: an edit makes a new draft of the fields.     *)
EditedForgetting(d, dirty) == [NewDraft([key |-> d.source]) EXCEPT !.id = d.id, !.dirty = dirty]

Edited(d, dirty) == [d EXCEPT !.dirty = dirty]

Editing == Click /\ Inspected = "draft"

(* setRecomposeWorking: dirty is whether the copy differs from the baseline. *)
EditDraft(dirty) ==
  /\ Editing
  /\ draft' = Edited(draft, dirty)
  /\ UNCHANGED <<entities, selection, filtering, nodeState, workspaceView, effectDue, executions,
                 drafts, outlived, menu, sourcing>>

Execute ==
  /\ Editing
  /\ ~draft.pending
  /\ draft' = [draft EXCEPT !.pending = TRUE]
  /\ executions' = executions \cup {[draft |-> draft.id, at |-> clicks, source |-> dataSource]}
  /\ UNCHANGED <<entities, selection, filtering, nodeState, workspaceView, effectDue,
                 drafts, outlived, menu, sourcing>>

(* The receipt goes to the draft that is active now. *)
CompleteExecution(x) ==
  /\ x.source = "live"
  /\ executions' = executions \ {x}
  /\ draft' = IF draft = Absent THEN Absent
              ELSE [draft EXCEPT !.pending = FALSE, !.hasExecuted = TRUE, !.latest = x.draft]
  /\ UNCHANGED <<entities, selection, filtering, nodeState, workspaceView, effectDue,
                 drafts, outlived, menu, sourcing, clicks>>

FailExecution(x) ==
  /\ executions' = executions \ {x}
  /\ draft' = IF draft = Absent THEN Absent ELSE [draft EXCEPT !.pending = FALSE]
  /\ UNCHANGED <<entities, selection, filtering, nodeState, workspaceView, effectDue,
                 drafts, outlived, menu, sourcing, clicks>>

RevertDraft ==
  /\ Editing
  /\ draft' = [NewDraft([key |-> draft.source]) EXCEPT !.id = draft.id]
  /\ outlived' = (outlived \/ executions # {})
  /\ UNCHANGED <<entities, selection, filtering, nodeState, workspaceView, effectDue, executions,
                 drafts, menu, sourcing>>

(* Faulty variant of the next: the draft stays selected. *)
CancelKeepingSelection ==
  /\ Editing
  /\ draft' = Absent
  /\ outlived' = (outlived \/ executions # {})
  /\ Select(draft.source, Absent, TRUE)
  /\ blind' = TRUE
  /\ UNCHANGED <<entities, filtering, nodeState, workspaceView, effectDue, executions, drafts, menu, sourcing>>

(* The source exchange is selected, be it evicted or hidden meanwhile. *)
CancelDraft ==
  /\ Editing
  /\ draft' = Absent
  /\ outlived' = (outlived \/ executions # {})
  /\ Select(draft.source, Absent, FALSE)
  /\ blind' = TRUE
  /\ UNCHANGED <<entities, filtering, nodeState, workspaceView, effectDue, executions, drafts, menu, sourcing>>

(* The replayed exchange is selected, be it captured yet or not. *)
OpenLatestExecution ==
  /\ Editing
  /\ draft.latest # Absent
  /\ Select(ReplayKey, Absent, FALSE)
  /\ blind' = TRUE
  /\ UNCHANGED <<entities, filtering, nodeState, workspaceView, effectDue, drafting, menu, sourcing>>

-----------------------------------------------------------------------------------

StoreNext ==
  \/ \E s \in IF dataSource = "live" THEN Snapshots ELSE {<<Imported>>} : LoadSnapshot(s)
  \/ LoadFails
  \/ Translate
  \/ \E deltas \in Batches : Deliver(deltas)
  \/ RunViewEffects
  \/ /\ clicks < MaxClicks
     /\ \E row \in ClickableRows : SelectRow(row) \/ ToggleStructureNode(row) \/ OpenRecomposeMenu(row)
  \/ ClearSelection
  \/ \E view \in {"structure", "sequence", "database"} : SetWorkspaceView(view)
  \/ \E tokens \in Filters : SetFilterInput(tokens)
  \/ ToggleFocused
  \/ CloseMenu
  \/ Import
  \/ ReturnToLiveCapture
  \/ ClearImported
  \/ Recompose
  \/ \E dirty \in BOOLEAN : EditDraft(dirty)
  \/ Execute
  \/ \E x \in executions : CompleteExecution(x) \/ FailExecution(x)
  \/ RevertDraft
  \/ CancelDraft
  \/ OpenLatestExecution

StoreSpec == StoreInit /\ [][StoreNext]_storeVars

-----------------------------------------------------------------------------------
(* Properties. *)

StoreTypeOK ==
  /\ rows \in [Keys -> Exchanges \cup {Absent}]
  /\ \A k \in Keys : rows[k] # Absent => rows[k].key = k
  /\ displaced \subseteq Keys
  /\ selectedExchangeId \in Keys \cup {Absent}
  /\ {selectedExchangeHidden, selectedExchangeEvicted, draftSelected, effectDue, loading} \subseteq BOOLEAN
  /\ draft \in DraftType \cup {Absent} /\ menu \in Exchanges \cup {Absent}
  /\ expanded \cup known \subseteq Seq({e.host : e \in Exchanges} \cup {InvalidUrl} \cup Nat)
  /\ draftSelected => draft # Absent
  /\ dataSource \in {"live", "imported"}
  /\ translating \in 0 .. batches /\ batches \in 0 .. MaxBatches /\ clicks \in 0 .. MaxClicks

(***************************************************************************)
(* The tree that is maintained change by change is the one that the rows   *)
(* give, with its aggregates, and the order lists every row once, whatever *)
(* moved between groups, was removed, refused as stale or replaced; by     *)
(* arrival, unless an exchange that the hub evicted and got again was told *)
(* to a store that still had its row.                                      *)
(***************************************************************************)
TreeMatchesRows ==
  /\ AgreesWith(structureTree, rows)
  /\ IsInjective(arrivalOrder) /\ ToSet(arrivalOrder) = {k \in Keys : rows[k] # Absent}
  /\ displaced = {} => \A m, n \in DOMAIN arrivalOrder :
       m < n => CompareArrival(rows[arrivalOrder[m]], rows[arrivalOrder[n]])

(***************************************************************************)
(* At most one of an exchange, a group and the draft is selected, and a    *)
(* selected exchange that is gone is shown as evicted: only one that was   *)
(* selected without its row (the source of a cancelled draft, the latest   *)
(* execution) may be gone unannounced, until the next delta.               *)
(***************************************************************************)
OneSelection ==
  /\ Cardinality({s \in {"exchange", "group", "draft"} :
                    \/ s = "exchange" /\ selectedExchangeId # Absent
                    \/ s = "group" /\ selectedGroupId # Absent
                    \/ s = "draft" /\ draftSelected}) <= 1
  /\ selectedExchangeEvicted => selectedExchangeId # Absent /\ rows[selectedExchangeId] = Absent
  /\ selectedExchangeId # Absent /\ ~blind =>
       (selectedExchangeEvicted <=> rows[selectedExchangeId] = Absent)

(***************************************************************************)
(* Once the view has run its effects, the note "outside the current        *)
(* filter" says whether the selected exchange or group is outside of it,   *)
(* however filter, focus, rows and view changed since it was selected.     *)
(***************************************************************************)
HiddenIsTold ==
  /\ selectedExchangeHidden => selectedExchangeId # Absent \/ selectedGroupId # Absent
  /\ ~effectDue /\ ~blind =>
       (selectedExchangeHidden <=> \/ selectedExchangeId \notin Visible \cup {Absent}
                                   \/ selectedGroupId \notin VisibleGroups \cup {Absent})

(***************************************************************************)
(* The draft is pending exactly while a replay of it is under way, and its *)
(* latest execution is its own, unless a draft was cancelled, reverted,    *)
(* cleared or replaced while it was executing.                             *)
(***************************************************************************)
DraftTellsItsExecutions ==
  draft # Absent /\ ~outlived =>
    /\ draft.pending <=> executions # {}
    /\ draft.latest \in {Absent, draft.id}
===================================================================================
