-------------------------------- MODULE DataverseMapView --------------------------------
(***************************************************************************)
(* The Dataverse map of the inspector (DataverseMapViewer.tsx): a diagram  *)
(* of the request with the columns of one captured record, drawn by the    *)
(* Mermaid library, which answers each render in its own time.  Effects    *)
(* run as in MessageView: after the commit of a render, with the values of *)
(* that render, and what they set is committed before the next ones run.   *)
(***************************************************************************)
EXTENDS Integers, FiniteSets

CONSTANTS
  Requests,      (* what the store shows: [id, key, records, attached]       *)
  NoRecord,      (* Absent: no record, no render, no drag                   *)
  MaxMapSteps    (* bound on the steps of the user                          *)

(* Zoom is counted in steps from 1: 0.4 is four below it, 2.5 ten above.     *)
Clamped(step) == IF step < -4 THEN -4 ELSE IF step > 10 THEN 10 ELSE step

Themes == {"light", "dark"}

(* A source is the key of a request and the record it was drawn with, if    *)
(* any: the response's id and the record's index.                           *)
Sources ==
  {r.key : r \in Requests} \X ({NoRecord} \cup ({r.id : r \in Requests} \X Int))

Diagrams ==
  [source : Sources, theme : Themes, transform : {NoRecord} \cup (Int \X Int)]

ASSUME MapAssumption ==
  /\ \A r \in Requests : r.records \in Nat /\ r.attached \in BOOLEAN
  /\ MaxMapSteps \in Nat
  /\ NoRecord \notin (Sources \X Themes) \cup Diagrams

VARIABLES
  request,      (* the props                                                *)
  theme,
  response,     (* records of the captured response: [id, count]            *)
  loading,      (* id of the response that is being fetched, or NoRecord    *)
  recordIndex,
  ranIndex,     (* <<key, record count>> the index effects last ran with    *)
  ranRender,    (* <<source, theme>> the render effect last ran with        *)
  sequence,     (* renderSequence: the number of the latest request         *)
  renders,      (* renders that Mermaid has not answered                    *)
  svg,          (* what the container holds: [source, theme, transform]     *)
  renderError,
  zoom, pan, drag,
  mapSteps

diagramVars == <<ranRender, sequence, renders, renderError>>
indexVars == <<response, loading, recordIndex, ranIndex>>
viewportVars == <<zoom, pan, drag>>
mapVars == <<request, theme, indexVars, diagramVars, svg, viewportVars, mapSteps>>

(* An index beyond the records gives no record. *)
Record == IF recordIndex \in 0 .. response.count - 1 THEN <<response.id, recordIndex>> ELSE NoRecord

MermaidSource == <<request.key, Record>>

Transform == <<zoom, pan>>

IndexDeps == <<request.key, response.count>>

CaptureNeeded == response.id # request.id

MapEffectsPending ==
  \/ CaptureNeeded
  \/ ranIndex # IndexDeps
  \/ ranRender # <<MermaidSource, theme>>
  \/ svg # NoRecord /\ svg.transform # Transform

-----------------------------------------------------------------------------------
(* An attached response has no records before its chunk comes. *)
RunResponse ==
  IF ~CaptureNeeded THEN UNCHANGED <<response, loading>>
  ELSE /\ response' = [id |-> request.id, count |-> IF request.attached THEN 0 ELSE request.records]
       /\ loading' = IF request.attached THEN request.id ELSE NoRecord

(* Another exchange goes back to the query map; fewer records clamp.        *)
RunIndex ==
  LET start == IF ranIndex = NoRecord \/ ranIndex[1] # request.key THEN -1 ELSE recordIndex
      last  == IF response.count = 0 THEN 0 ELSE response.count - 1
  IN  /\ ranIndex' = IndexDeps
      /\ recordIndex' = IF ranIndex # IndexDeps /\ start > last THEN last ELSE start

(* The cleanup disposes the render of the source or theme before. *)
RunRender ==
  IF ranRender = <<MermaidSource, theme>> THEN UNCHANGED <<ranRender, sequence, renders>>
  ELSE /\ ranRender' = <<MermaidSource, theme>>
       /\ sequence' = sequence + 1
       /\ renders' = {[r EXCEPT !.disposed = TRUE] : r \in renders} \cup
            {[id |-> sequence + 1, source |-> MermaidSource, theme |-> theme, disposed |-> FALSE]}

FlushMapEffects ==
  /\ MapEffectsPending
  /\ RunResponse /\ RunIndex /\ RunRender
  /\ svg' = IF svg = NoRecord THEN svg ELSE [svg EXCEPT !.transform = Transform]
  /\ UNCHANGED <<request, theme, renderError, viewportVars, mapSteps>>

AnswerResponse ==
  /\ loading # NoRecord
  /\ loading' = NoRecord
  /\ response' = IF loading = request.id /\ ~CaptureNeeded
                 THEN [response EXCEPT !.count = request.records] ELSE response
  /\ UNCHANGED <<request, theme, recordIndex, ranIndex, diagramVars, svg, viewportVars, mapSteps>>

(* Faulty variant of the next: whatever is drawn is put in the container. *)
TakesAny(render) == TRUE

(* isLatest, and the disposed flag of the effect that asked. *)
Takes(render) == ~render.disposed /\ render.id = sequence

(* A new svg has no transform before the viewport effect has run. *)
FinishRender(render) ==
  /\ renders' = renders \ {render}
  /\ IF Takes(render)
     THEN /\ svg' = [source |-> render.source, theme |-> render.theme, transform |-> NoRecord]
          /\ renderError' = FALSE
     ELSE UNCHANGED <<svg, renderError>>
  /\ UNCHANGED <<request, theme, indexVars, ranRender, sequence, viewportVars, mapSteps>>

(* The old diagram stays below the message. *)
FailRender(render) ==
  /\ renders' = renders \ {render}
  /\ renderError' = (renderError \/ Takes(render))
  /\ UNCHANGED <<request, theme, indexVars, ranRender, sequence, svg, viewportVars, mapSteps>>

-----------------------------------------------------------------------------------
(* The props and the user. *)

MapStep == mapSteps < MaxMapSteps /\ mapSteps' = mapSteps + 1

ShowRequest(r) ==
  /\ MapStep
  /\ r # request
  /\ request' = r
  /\ UNCHANGED <<theme, indexVars, diagramVars, svg, viewportVars>>

ChangeTheme ==
  /\ MapStep
  /\ theme' \in Themes \ {theme}
  /\ UNCHANGED <<request, indexVars, diagramVars, svg, viewportVars>>

Clicks == ~MapEffectsPending /\ MapStep

PreviousRecord ==
  /\ Clicks
  /\ recordIndex >= 0 /\ response.count > 0
  /\ recordIndex' = recordIndex - 1
  /\ UNCHANGED <<request, theme, response, loading, ranIndex, diagramVars, svg, viewportVars>>

NextRecord ==
  /\ Clicks
  /\ recordIndex < response.count - 1
  /\ recordIndex' = recordIndex + 1
  /\ UNCHANGED <<request, theme, response, loading, ranIndex, diagramVars, svg, viewportVars>>

Viewport(newZoom, newPan) ==
  /\ Clicks
  /\ zoom' = Clamped(newZoom) /\ pan' = newPan
  /\ UNCHANGED <<request, theme, indexVars, diagramVars, svg>>

(* The buttons and the wheel. *)
ChangeZoom(by) == Viewport(zoom + by, pan) /\ UNCHANGED drag

ResetViewport == Viewport(0, 0) /\ UNCHANGED drag

(* What fits depends on the layout; it is never above 1. *)
FitViewport == svg # NoRecord /\ Viewport(-2, 16) /\ UNCHANGED drag

BeginPan(pointer) ==
  /\ svg # NoRecord
  /\ Viewport(zoom, pan)
  /\ drag' = [pointer |-> pointer, pan |-> pan]

(* The pan follows the pointer from where it was when the drag began. *)
MovePan(pointer, distance) ==
  /\ drag # NoRecord /\ drag.pointer = pointer
  /\ Viewport(zoom, drag.pan + distance)
  /\ UNCHANGED drag

EndPan(pointer) ==
  /\ drag # NoRecord /\ drag.pointer = pointer
  /\ Viewport(zoom, pan)
  /\ drag' = NoRecord

-----------------------------------------------------------------------------------
(* The tab is opened on some request. *)
MapInit ==
  /\ request \in {r \in Requests : r.attached}
  /\ theme = "light"
  /\ response = [id |-> request.id, count |-> 0] /\ loading = request.id
  /\ recordIndex = -1 /\ ranIndex = NoRecord
  /\ ranRender = NoRecord /\ sequence = 0 /\ renders = {}
  /\ svg = NoRecord /\ renderError = FALSE
  /\ zoom = 0 /\ pan = 0 /\ drag = NoRecord
  /\ mapSteps = 0

RenderAnswers == \E render \in renders : FinishRender(render) \/ FailRender(render)

MapNext ==
  \/ FlushMapEffects
  \/ AnswerResponse
  \/ RenderAnswers
  \/ \E r \in Requests : ShowRequest(r)
  \/ ChangeTheme
  \/ PreviousRecord
  \/ NextRecord
  \/ \E by \in {-1, 1} : ChangeZoom(by)
  \/ ResetViewport
  \/ FitViewport
  \/ \E pointer \in {1, 2} : BeginPan(pointer)
  \/ \E pointer \in {1, 2} : MovePan(pointer, 5)
  \/ \E pointer \in {1, 2} : EndPan(pointer)

-----------------------------------------------------------------------------------
(* Properties. *)

(***************************************************************************)
(* When no effect is pending and Mermaid owes nothing, the diagram in the  *)
(* container is of the request, the record and the theme in view, with the *)
(* viewport the user set, or an error is told.  Renders end in any order   *)
(* and their own effects change the index that chose the record            *)
(* (DataverseMapViewer.tsx:56-108, dataverseMapRenderSequence.ts).         *)
(***************************************************************************)
SettledDiagramIsTheSources ==
  ~MapEffectsPending /\ renders = {} =>
    \/ renderError
    \/ /\ svg = [source |-> MermaidSource, theme |-> theme, transform |-> Transform]
       /\ svg.source[2] # NoRecord => svg.source[2][1] = request.id

===================================================================================
