------------------------------------- MODULE GridView -------------------------------------
(***************************************************************************)
(* The Sequence grid (SequenceGrid.tsx): whether it follows the capture,   *)
(* and the order, the widths and the sort of its columns, which the        *)
(* browser keeps with the other preferences of the display.  Positions are *)
(* counted in rows, so the tolerance of eight pixels is none; of a width   *)
(* it matters only whether it is positive.  A change of the store          *)
(* is rendered at once and its effects run with the commit, so that no     *)
(* scroll event or frame comes between them; both come later than what     *)
(* causes them.                                                            *)
(***************************************************************************)
EXTENDS Integers, Sequences, SequencesExt

CONSTANTS
  Columns,       (* the default order of the columns                        *)
  NoColumn,      (* no sort, no column dragged, no width, nothing stored    *)
  Sizes,         (* widths of columns and panes; a drag may round one to 0  *)
  PaneRows,      (* rows that the pane shows at a time                      *)
  Overscan,      (* rows rendered beyond them on either side                *)
  MaxEntries,    (* bound on the entries of the view                        *)
  MaxGridSteps   (* bound on what the user does with the columns            *)

ASSUME GridAssumption ==
  /\ Columns \in Seq(ToSet(Columns)) /\ IsInjective(Columns)
  /\ Sizes \subseteq Nat /\ 44 \in Sizes   \* primary of the default layout
  /\ NoColumn \notin ToSet(Columns) /\ NoColumn \notin Sizes
  /\ NoColumn \notin [order : Seq(ToSet(Columns)), widths : [ToSet(Columns) -> Sizes \cup {NoColumn}],
                      panes : Sizes, view : {"sequence", "other"}]
  /\ PaneRows \in Nat \ {0} /\ {Overscan, MaxEntries, MaxGridSteps} \subseteq Nat

VARIABLES
  entries,       (* rows of the view, after filter and focus                *)
  shown,         (* the workspace is the Sequence                           *)
  scrollTop,
  sequenceAtLiveEdge,
  scrollEvent,   (* the position has moved and no event has told it         *)
  frame,         (* an animation frame is to measure the position           *)
  left,          (* (aux) the user has moved away from the end              *)
  columnOrder,
  columnWidths,  (* column -> width, or NoColumn while it has the default   *)
  paneLayout,    (* the width of the narrower pane                          *)
  stored,        (* the preferences that the browser keeps, or NoColumn     *)
  draggedColumn,
  resized,       (* the column whose handle is held                         *)
  sequenceSort,  (* <<column, direction>> or NoColumn                       *)
  gridSteps

edgeVars == <<entries, shown, scrollTop, sequenceAtLiveEdge, scrollEvent, frame, left>>
preferenceVars == <<columnOrder, columnWidths, paneLayout, stored>>
columnVars == <<preferenceVars, draggedColumn, resized, sequenceSort, gridSteps>>
gridVars == <<edgeVars, columnVars>>

Mounted == shown /\ entries > 0

EndOf(count) == IF count > PaneRows THEN count - PaneRows ELSE 0

(* Faulty variant of the next: the last row may be hidden. *)
NearLiveEdge(top, count) == top + PaneRows >= count - 1

IsScrollAtLiveEdge(top, count) == top + PaneRows >= count

-------------------------------------------------------------------------------------------
(* The preferences of the display; the theme is always one that is taken.  *)
WorkspaceView == IF shown THEN "sequence" ELSE "other"

Preferences ==
  [order |-> columnOrder, widths |-> columnWidths, panes |-> paneLayout, view |-> WorkspaceView]

DefaultPreferences ==
  [order |-> Columns, widths |-> [c \in ToSet(Columns) |-> NoColumn], panes |-> 44,
   view |-> "other"]

(* Every change of a preference stores them all. *)
SaveAndReturn == stored' = Preferences'

IsColumnOrder(value) ==
  Len(value) = Len(Columns) /\ ToSet(value) = ToSet(Columns)

IsColumnWidths(value) == \A c \in DOMAIN value : value[c] # NoColumn => value[c] > 0

(* One part that is not as it should be has all that is stored refused.    *)
IsStoredDisplayPreferences(value) ==
  value.panes > 0 /\ IsColumnOrder(value.order) /\ IsColumnWidths(value.widths)

LoadDisplayPreferences ==
  IF stored # NoColumn /\ IsStoredDisplayPreferences(stored) THEN stored ELSE DefaultPreferences

-------------------------------------------------------------------------------------------
(* Where a commit leaves the position: a list that shrinks carries it, and *)
(* the effect on the number of entries follows the live edge.              *)
Follow(count) ==
  IF sequenceAtLiveEdge /\ count # entries THEN EndOf(count)
  ELSE IF scrollTop > EndOf(count) THEN EndOf(count)
  ELSE scrollTop

(* Captures, the filter, evictions and a cleared session change the        *)
(* entries, the switch the workspace.  Without an entry the grid is not    *)
(* mounted; its position, its listeners and its frames go with it, but a   *)
(* handle that is held is listened to by the document.                     *)
RenderGrid(count, visible) ==
  /\ entries' = count /\ shown' = visible
  /\ scrollTop' = IF Mounted /\ visible /\ count > 0 THEN Follow(count)
                  ELSE IF visible /\ sequenceAtLiveEdge THEN EndOf(count) ELSE 0
  /\ scrollEvent' = (visible /\ count > 0 /\ ((Mounted /\ scrollEvent) \/ scrollTop' # scrollTop))
  /\ frame' = (frame /\ visible /\ count > 0)
  /\ draggedColumn' = IF visible /\ count > 0 THEN draggedColumn ELSE NoColumn
  /\ UNCHANGED <<columnOrder, columnWidths, paneLayout>>
  /\ IF visible # shown THEN SaveAndReturn ELSE UNCHANGED stored
  /\ UNCHANGED <<sequenceAtLiveEdge, left, resized, sequenceSort, gridSteps>>

(* A scroll is told by an event; a wheel asks for a frame at once.         *)
MoveTo(top) ==
  /\ Mounted
  /\ scrollTop' = top
  /\ scrollEvent' = (scrollEvent \/ top # scrollTop)
  /\ left' = (left \/ top # EndOf(entries))
  /\ UNCHANGED <<entries, shown, sequenceAtLiveEdge, columnVars>>

Scroll(top) == MoveTo(top) /\ UNCHANGED frame

Wheel(top) == MoveTo(top) /\ frame' = TRUE

(* Only a rendered row can get the focus; the browser brings it into view. *)
FocusRow(index) ==
  /\ index > scrollTop - Overscan /\ index <= scrollTop + PaneRows + Overscan
  /\ MoveTo(IF index <= scrollTop THEN index - 1
            ELSE IF index > scrollTop + PaneRows THEN index - PaneRows
            ELSE scrollTop)
  /\ UNCHANGED frame

UpdateLiveEdge ==
  /\ sequenceAtLiveEdge' = IsScrollAtLiveEdge(scrollTop, entries)
  /\ left' = (left /\ ~sequenceAtLiveEdge')
  /\ UNCHANGED <<entries, shown, scrollTop, columnVars>>

(* The native listener measures now, the one of the element in a frame.    *)
OnScroll == scrollEvent /\ scrollEvent' = FALSE /\ frame' = TRUE /\ UpdateLiveEdge

OnFrame == frame /\ frame' = FALSE /\ UpdateLiveEdge /\ UNCHANGED scrollEvent

ResumeLive ==
  /\ Mounted /\ ~sequenceAtLiveEdge
  /\ sequenceAtLiveEdge' = TRUE
  /\ scrollTop' = EndOf(entries)
  /\ scrollEvent' = (scrollEvent \/ scrollTop' # scrollTop)
  /\ left' = FALSE
  /\ UNCHANGED <<entries, shown, frame, columnVars>>

-------------------------------------------------------------------------------------------
Listing == INSTANCE LeftFold WITH Step <- \o

(* indexOf *)
ColumnIndex(order, column) == SelectInSeq(order, LAMBDA c : c = column)

(* Faulty variant of the next: the moved column is not taken out first. *)
InsertColumn(order, moved, target) ==
  InsertAt(order, ColumnIndex(order, target), moved)

(* The moved column comes before the target, whichever side it came from. *)
ReorderColumns(order, moved, target) ==
  LET withoutMoved == Listing!Kept(order, ToSet(order) \ {moved})
  IN  InsertAt(withoutMoved, ColumnIndex(withoutMoved, target), moved)

SetSequenceColumnOrder(order) ==
  columnOrder' = order /\ UNCHANGED <<columnWidths, paneLayout, shown>> /\ SaveAndReturn

SetSequenceColumnWidths(widths) ==
  columnWidths' = widths /\ UNCHANGED <<columnOrder, paneLayout, shown>> /\ SaveAndReturn

GridStep ==
  /\ gridSteps < MaxGridSteps
  /\ gridSteps' = gridSteps + 1
  /\ UNCHANGED edgeVars

ColumnStep == Mounted /\ GridStep

DragStart(column) ==
  /\ ColumnStep
  /\ draggedColumn' = column
  /\ UNCHANGED <<preferenceVars, resized, sequenceSort>>

Drop(column) ==
  /\ ColumnStep
  /\ draggedColumn \notin {NoColumn, column}
  /\ SetSequenceColumnOrder(ReorderColumns(columnOrder, draggedColumn, column))
  /\ UNCHANGED <<draggedColumn, resized, sequenceSort>>

DragEnd ==
  /\ draggedColumn # NoColumn
  /\ draggedColumn' = NoColumn
  /\ UNCHANGED <<edgeVars, preferenceVars, resized, sequenceSort, gridSteps>>

(* Alt, Shift and an arrow; to the right the column comes before its own   *)
(* neighbour, which is where it was.                                       *)
MoveColumnWithKeyboard(column, step) ==
  LET target == ColumnIndex(columnOrder, column) + step
  IN  /\ ColumnStep
      /\ target \in DOMAIN columnOrder
      /\ SetSequenceColumnOrder(ReorderColumns(columnOrder, column, columnOrder[target]))
      /\ UNCHANGED <<draggedColumn, resized, sequenceSort>>

(* A handle is held, moved and let go; every move stores the width that it *)
(* comes to, rounded, and a move by the width of the column comes to 0.    *)
StartResize(column) ==
  /\ ColumnStep
  /\ resized' = column
  /\ UNCHANGED <<preferenceVars, draggedColumn, sequenceSort>>

MoveResize(width) ==
  /\ GridStep
  /\ resized # NoColumn
  /\ SetSequenceColumnWidths([columnWidths EXCEPT ![resized] = width])
  /\ UNCHANGED <<draggedColumn, resized, sequenceSort>>

EndResize ==
  /\ resized # NoColumn
  /\ resized' = NoColumn
  /\ UNCHANGED <<edgeVars, preferenceVars, draggedColumn, sequenceSort, gridSteps>>

ResetSize(column) ==
  /\ ColumnStep
  /\ SetSequenceColumnWidths([columnWidths EXCEPT ![column] = NoColumn])
  /\ UNCHANGED <<draggedColumn, resized, sequenceSort>>

(* The panel library reports the layout of the panes, whatever it is.      *)
SetPaneLayout(width) ==
  /\ GridStep
  /\ paneLayout' = width /\ UNCHANGED <<columnOrder, columnWidths>> /\ SaveAndReturn
  /\ UNCHANGED <<draggedColumn, resized, sequenceSort>>

SetTheme ==
  /\ UNCHANGED <<edgeVars, columnOrder, columnWidths, paneLayout>> /\ SaveAndReturn
  /\ UNCHANGED <<draggedColumn, resized, sequenceSort, gridSteps>>

ToggleSort(column) ==
  /\ ColumnStep
  /\ sequenceSort' = IF sequenceSort = <<column, "ascending">> THEN <<column, "descending">>
                     ELSE IF sequenceSort = <<column, "descending">> THEN NoColumn
                     ELSE <<column, "ascending">>
  /\ UNCHANGED <<preferenceVars, draggedColumn, resized>>

(* The page is loaded again; only what is stored outlives it.              *)
Reload ==
  /\ entries' = 0 /\ scrollTop' = 0 /\ sequenceAtLiveEdge' = TRUE
  /\ scrollEvent' = FALSE /\ frame' = FALSE /\ left' = FALSE
  /\ columnOrder' = LoadDisplayPreferences.order
  /\ columnWidths' = LoadDisplayPreferences.widths
  /\ paneLayout' = LoadDisplayPreferences.panes
  /\ shown' = (LoadDisplayPreferences.view = "sequence")
  /\ draggedColumn' = NoColumn /\ resized' = NoColumn /\ sequenceSort' = NoColumn
  /\ UNCHANGED <<stored, gridSteps>>

-------------------------------------------------------------------------------------------
GridInit ==
  /\ entries = 0 /\ shown = FALSE /\ scrollTop = 0 /\ sequenceAtLiveEdge = TRUE
  /\ scrollEvent = FALSE /\ frame = FALSE /\ left = FALSE
  /\ stored = NoColumn /\ columnOrder = DefaultPreferences.order
  /\ columnWidths = DefaultPreferences.widths /\ paneLayout = DefaultPreferences.panes
  /\ draggedColumn = NoColumn /\ resized = NoColumn /\ sequenceSort = NoColumn /\ gridSteps = 0

GridNext ==
  \/ \E count \in 0 .. MaxEntries, visible \in BOOLEAN :
        <<count, visible>> # <<entries, shown>> /\ RenderGrid(count, visible)
  \/ \E top \in 0 .. EndOf(entries) : Scroll(top) \/ Wheel(top)
  \/ \E index \in 1 .. entries : FocusRow(index)
  \/ OnScroll
  \/ OnFrame
  \/ ResumeLive
  \/ DragEnd
  \/ EndResize
  \/ SetTheme
  \/ Reload
  \/ \E column \in ToSet(Columns) :
        DragStart(column) \/ Drop(column) \/ ToggleSort(column) \/ StartResize(column) \/ ResetSize(column)
  \/ \E width \in Sizes : MoveResize(width) \/ SetPaneLayout(width)
  \/ \E column \in ToSet(Columns), step \in {-1, 1} : MoveColumnWithKeyboard(column, step)

(***************************************************************************)
(* Properties                                                              *)
(***************************************************************************)

(* Once every movement has been told, a grid that says it is live shows    *)
(* the last row, and one that says it is not was left by its user.         *)
GridFollowsUntilLeft ==
  Mounted /\ ~scrollEvent /\ ~frame =>
    IF sequenceAtLiveEdge THEN scrollTop = EndOf(entries) ELSE left

(* Preferences with a size of nothing are stored and never taken back.     *)
HasSizes == paneLayout > 0 /\ IsColumnWidths(columnWidths)

(* A reload shows the columns in the order and the widths that they have   *)
(* now, after any moves, resizes and earlier reloads, unless a column or a *)
(* pane was given a size of nothing (displayPreferences.ts:62-71).         *)
ReloadKeepsTheColumns == HasSizes => LoadDisplayPreferences = Preferences

===========================================================================================
