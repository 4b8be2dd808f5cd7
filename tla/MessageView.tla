---------------------------------- MODULE MessageView ----------------------------------
(***************************************************************************)
(* The response tab of the inspector (MessageInspector.tsx) and the hooks  *)
(* and viewers below it: the captured body and the raw message are fetched *)
(* when they are attachments (useCapturedBody), decoded when they are      *)
(* bytes (useBodyTextPresentation), formatted by a worker when they are    *)
(* long JSON (JsonBodyViewer), searched and paged (HexBodyViewer).  Each   *)
(* stage is an effect of React: it runs after the commit of a render whose *)
(* dependencies differ from those it last ran with, and what it sets is    *)
(* rendered before the next stage sees it.  Between the two, answers and   *)
(* steps of the user may come.  FlushEffects runs all effects of one       *)
(* commit; each sees the values of the render that was committed.          *)
(***************************************************************************)
EXTENDS Integers, SequencesExt

CONSTANTS
  Details,      (* details the store shows: [key, revision, body, raw]      *)
  Absent,
  Placeholder,  (* the text shown for a body that has none                  *)
  CacheLimit,   (* maximumCachedPresentations                               *)
  RowsPerPage,  (* rows of a page of the hex view                           *)
  MaxLooks      (* bound on the details shown and the steps of the user     *)

(* A body is Absent or a record [object, kind, media, text, encodings,      *)
(* damage, complete, stored]: object tells two bodies with the same content *)
(* apart, and stored is what the source keeps for an attachment.  A text is *)
(* [name, json, big, hits, rows, hexHits]: how often the one query that is  *)
(* typed occurs in it, and in which rows of its hex view.                   *)
BodyKinds == {"none", "text", "base64", "attachment"}

ASSUME MessageAssumption ==
  /\ CacheLimit \in Nat \ {0} /\ RowsPerPage \in Nat \ {0} /\ MaxLooks \in Nat
  /\ \A d \in Details : d # Absent
  /\ \A d \in Details : \A body \in {d.body, d.raw} :
       /\ Absent # <<d.key, body>>
       /\ body # Absent => body.kind \in BodyKinds
       /\ body # Absent /\ body.kind = "attachment" => body.stored.kind \in BodyKinds
  /\ Absent # [kind |-> "never"]

Parts == {"body", "raw"}

BodyViews == {"headers", "authentication", "json", "xml", "text", "hex", "raw"}

VARIABLES
  detail,        (* the props: the exchange in view, Absent when unmounted  *)
  newKeyObject,  (* exchangeKey is another object than the effects last saw *)
  ranCapture,    (* part -> dependencies useCapturedBody last ran with      *)
  captured,      (* part -> its result [body, isLoading, failed]            *)
  fetches,       (* getBodyChunk calls that have not been answered          *)
  ranText,       (* the body useBodyTextPresentation last ran with          *)
  decoded,       (* its result [text, isLoading, failed]                    *)
  decodes,       (* decodings under way                                     *)
  activeView,
  viewer,        (* the JSON viewer [slot, ran, presentation]               *)
  worker,        (* its worker's task, or Absent                            *)
  cache,         (* presentationCache, the oldest entry first               *)
  query, matchIndex, ranSearch,  (* the search; "find" is the one query     *)
  page, ranHex,  (* the hex viewer                                          *)
  looks,         (* counted for the bound                                   *)
  typedFor       (* auxiliary: the exchange in view when query was typed    *)

propVars == <<detail, newKeyObject>>
captureVars == <<ranCapture, captured, fetches>>
textVars == <<ranText, decoded, decodes>>
jsonVars == <<viewer, worker, cache>>
searchVars == <<query, matchIndex, ranSearch, typedFor>>
hexVars == <<page, ranHex>>
messageVars ==
  <<propVars, captureVars, textVars, activeView, jsonVars, searchVars, hexVars, looks>>

-----------------------------------------------------------------------------------
(* What a body shows. *)

IsKind(body, kind) == body # Absent /\ body.kind = kind

InitialCapture(body) == [body |-> body, isLoading |-> FALSE, failed |-> FALSE]

InitialText(body) ==
  [text |-> IF IsKind(body, "text") THEN body.text ELSE Absent, isLoading |-> FALSE, failed |-> FALSE]

(* Every layer of the content encoding must be one the runtime can undo. *)
DecodesTo(body) ==
  LET readable == /\ ToSet(body.encodings) \subseteq {"identity", "gzip", "x-gzip", "deflate"}
                  /\ body.damage = "none"
  IN  [text |-> IF readable THEN body.text ELSE Absent, isLoading |-> FALSE, failed |-> ~readable]

(* A body over the worker's threshold is JSON only by its media type. *)
IsJsonCandidate(body, text) == body.media = "json" \/ (~text.big /\ text.json)

AvailableViews(body, text) ==
  {"headers", "authentication", "raw"} \cup
  CASE body = Absent \/ IsKind(body, "none") -> {}
    [] body.media = "xml"                    -> {"xml", "text", "hex"}
    [] text = Absent                         -> {"hex"}
    [] IsJsonCandidate(body, text)           -> {"json", "text", "hex"}
    [] OTHER                                 -> {"text", "hex"}

FirstView(views) ==
  CASE "json" \in views -> "json" [] "xml" \in views -> "xml" [] OTHER -> "headers"

Views == AvailableViews(captured["body"].body, decoded.text)

Content == IF decoded.text = Absent THEN Placeholder ELSE decoded.text

(* The raw view shows a captured HTTP message as it is, and else one that   *)
(* is rebuilt around what there is of the body.                             *)
RawText ==
  LET raw == captured["raw"].body
      body == captured["body"].body
  IN  CASE IsKind(raw, "text") /\ raw.media = "http" -> raw.text
        [] IsKind(raw, "attachment")                 -> Placeholder
        [] IsKind(raw, "text") \/ IsKind(raw, "base64") -> raw.text
        [] IsKind(body, "text")                      -> body.text
        [] OTHER                                     -> Placeholder

(* The hex view and its search need the bytes, which an attachment that is  *)
(* not loaded and bytes that are no base64 do not give.                     *)
HexBody == IF captured["raw"].body # Absent THEN captured["raw"].body ELSE captured["body"].body

HexText ==
  IF IsKind(HexBody, "text") \/ (IsKind(HexBody, "base64") /\ HexBody.damage # "base64")
  THEN HexBody.text ELSE Absent

PageCount ==
  IF HexText = Absent \/ HexText.rows = 0 THEN 1
  ELSE (HexText.rows + RowsPerPage - 1) \div RowsPerPage

SafePage == IF page < PageCount THEN page ELSE PageCount - 1

SearchContent ==
  [view |-> activeView,
   text |-> CASE activeView = "raw" -> RawText [] activeView = "hex" -> HexText [] OTHER -> Content]

MatchCount ==
  CASE query = "" \/ SearchContent.text = Absent -> 0
    [] activeView = "hex" -> Len(HexText.hexHits)
    [] OTHER              -> SearchContent.text.hits

ActiveMatch == IF MatchCount = 0 THEN 0 ELSE matchIndex % MatchCount

(* The row of the hex view that holds the active match. *)
SelectedRow ==
  IF activeView = "hex" /\ ActiveMatch < MatchCount THEN HexText.hexHits[ActiveMatch + 1] ELSE Absent

(* The JSON view and the text view of JSON are two viewers. *)
Slot ==
  CASE activeView = "json" -> "json"
    [] activeView = "text" /\ "json" \in Views -> "text"
    [] OTHER -> "none"

CacheKey == <<detail.revision, Slot>>

Presentation(text) == [valid |-> text.json, original |-> text]

NoViewer == [slot |-> "none", ran |-> Absent, presentation |-> Absent]

-----------------------------------------------------------------------------------
(* The cache of presentations. *)

(* Faulty variant of the next: it trusts the key. *)
CachedByKeyAlone(key, text) ==
  LET hits == {i \in DOMAIN cache : cache[i].key = key}
  IN  IF hits = {} THEN Absent ELSE cache[CHOOSE i \in hits : TRUE].presentation

(* The key does not name the exchange, so a hit must have the content. *)
Cached(key, text) ==
  LET hits == {i \in DOMAIN cache : cache[i].key = key /\ cache[i].presentation.original = text}
  IN  IF hits = {} THEN Absent ELSE cache[CHOOSE i \in hits : TRUE].presentation

CachePut(key, presentation) ==
  LET kept == SelectSeq(cache, LAMBDA c : c.key # key)
      full == Append(kept, [key |-> key, presentation |-> presentation])
  IN  IF Len(full) > CacheLimit THEN Tail(full) ELSE full

-----------------------------------------------------------------------------------
(* The effects, and what they depend on. *)

CaptureDeps(part) == <<detail.key, detail[part]>>

SearchDeps == <<activeView, query, SearchContent>>

(* The viewer's effect depends on cacheKey and content. *)
ViewerDeps == <<CacheKey, Content>>

HexDeps == IF activeView = "hex" THEN [bytes |-> HexBody, row |-> SelectedRow] ELSE Absent

EffectsPending ==
  /\ detail # Absent
  /\ \/ \E part \in Parts : ranCapture[part] # CaptureDeps(part)
     \/ ranText # captured["body"].body
     \/ activeView \notin Views
     \/ ranSearch # SearchDeps
     \/ newKeyObject
     \/ viewer.slot # Slot
     \/ Slot # "none" /\ viewer.ran # ViewerDeps
     \/ ranHex # HexDeps

(* The cleanup of an effect disposes the call that it made. *)
RunCapture ==
  LET again == {part \in Parts : ranCapture[part] # CaptureDeps(part)}
      asked == {part \in again : IsKind(detail[part], "attachment")}
  IN  /\ ranCapture' = [part \in Parts |-> CaptureDeps(part)]
      /\ captured' = [part \in Parts |->
           IF part \notin again THEN captured[part]
           ELSE [InitialCapture(detail[part]) EXCEPT !.isLoading = part \in asked]]
      /\ fetches' = {[f EXCEPT !.disposed = @ \/ f.part \in again] : f \in fetches} \cup
           {[part |-> part, body |-> detail[part], disposed |-> FALSE] : part \in asked}

RunText ==
  LET body == captured["body"].body
      bytes == IsKind(body, "base64")
  IN  IF ranText = body THEN UNCHANGED textVars
      ELSE /\ ranText' = body
           /\ decoded' = [InitialText(body) EXCEPT !.isLoading = bytes]
           /\ decodes' = {[d EXCEPT !.disposed = TRUE] : d \in decodes} \cup
                IF bytes THEN {[body |-> body, disposed |-> FALSE]} ELSE {}

(* An exchangeKey that is another object empties the search. *)
RunSearch ==
  /\ activeView' = IF activeView \in Views THEN activeView ELSE "headers"
  /\ matchIndex' = IF ranSearch = SearchDeps THEN matchIndex ELSE 0
  /\ query' = IF newKeyObject THEN "" ELSE query
  /\ ranSearch' = SearchDeps
  /\ newKeyObject' = FALSE

(* Short content is formatted at once and long content by a worker; the     *)
(* cleanup of the effect terminates the worker of the content before.       *)
RunJson ==
  LET hit  == Cached(CacheKey, Content)
      made == Presentation(Content)
      Set(presentation) ==
        viewer' = [slot |-> Slot, ran |-> ViewerDeps, presentation |-> presentation]
      same == viewer.slot = Slot /\ viewer.ran = ViewerDeps
  IN  \/ Slot = "none" /\ viewer' = NoViewer /\ worker' = Absent /\ UNCHANGED cache
      \/ Slot # "none" /\ same /\ UNCHANGED jsonVars
      \/ /\ Slot # "none" /\ ~same
         /\ IF hit # Absent THEN Set(hit) /\ worker' = Absent /\ UNCHANGED cache
            ELSE IF ~Content.big
            THEN Set(made) /\ worker' = Absent /\ cache' = CachePut(CacheKey, made)
            ELSE Set(Absent) /\ worker' = [key |-> CacheKey, text |-> Content] /\ UNCHANGED cache

(* Other bytes start at the first page, and a match brings its page. *)
RunHex ==
  /\ ranHex' = HexDeps
  /\ page' =
       IF HexDeps = Absent THEN 0
       ELSE LET reset == ranHex = Absent \/ ranHex.bytes # HexDeps.bytes
                moved == ranHex = Absent \/ ranHex.row # HexDeps.row
            IN  IF moved /\ HexDeps.row # Absent THEN HexDeps.row \div RowsPerPage
                ELSE IF reset THEN 0 ELSE page

FlushEffects ==
  /\ EffectsPending
  /\ RunCapture /\ RunText /\ RunSearch /\ RunJson /\ RunHex
  /\ UNCHANGED <<detail, looks, typedFor>>

-----------------------------------------------------------------------------------
(* Answers. *)

(* Faulty variant of the next: a disposed call still sets the result. *)
SettlesLate(call) == TRUE

Settles(call) == ~call.disposed

AnswerChunk(f) ==
  /\ fetches' = fetches \ {f}
  /\ captured' = IF Settles(f)
       THEN [captured EXCEPT ![f.part] = InitialCapture(f.body.stored)] ELSE captured
  /\ UNCHANGED <<propVars, ranCapture, textVars, activeView, jsonVars, searchVars, hexVars, looks>>

(* Faulty variant of the next: it forgets that nothing is loading now. *)
FailChunkStillLoading(f) ==
  /\ fetches' = fetches \ {f}
  /\ captured' = IF Settles(f) THEN [captured EXCEPT ![f.part].failed = TRUE] ELSE captured
  /\ UNCHANGED <<propVars, ranCapture, textVars, activeView, jsonVars, searchVars, hexVars, looks>>

FailChunk(f) ==
  /\ fetches' = fetches \ {f}
  /\ captured' = IF Settles(f)
       THEN [captured EXCEPT ![f.part] = [InitialCapture(f.body) EXCEPT !.failed = TRUE]]
       ELSE captured
  /\ UNCHANGED <<propVars, ranCapture, textVars, activeView, jsonVars, searchVars, hexVars, looks>>

FinishDecode(d) ==
  /\ decodes' = decodes \ {d}
  /\ decoded' = IF Settles(d) THEN DecodesTo(d.body) ELSE decoded
  /\ UNCHANGED <<propVars, captureVars, ranText, activeView, jsonVars, searchVars, hexVars, looks>>

(* A worker that fails leaves the content as invalid JSON. *)
AnswerWorker(answer) ==
  /\ worker # Absent
  /\ worker' = Absent
  /\ viewer' = [viewer EXCEPT !.presentation = answer]
  /\ cache' = CachePut(worker.key, answer)
  /\ UNCHANGED <<propVars, captureVars, textVars, activeView, searchVars, hexVars, looks>>

WorkerFormats == worker # Absent /\ AnswerWorker(Presentation(worker.text))

WorkerFails == worker # Absent /\ AnswerWorker([valid |-> FALSE, original |-> worker.text])

-----------------------------------------------------------------------------------
(* The props and the user. *)

Look == looks < MaxLooks /\ looks' = looks + 1

(* The tab is opened: a new instance, whose first render has initial state. *)
Mount(d) ==
  /\ Look
  /\ detail' = d /\ newKeyObject' = TRUE
  /\ ranCapture' = [part \in Parts |-> Absent]
  /\ captured' = [part \in Parts |-> InitialCapture(d[part])]
  /\ fetches' = {[f EXCEPT !.disposed = TRUE] : f \in fetches}
  /\ ranText' = [kind |-> "never"] /\ decoded' = InitialText(d.body)
  /\ decodes' = {[c EXCEPT !.disposed = TRUE] : c \in decodes}
  /\ activeView' = FirstView(AvailableViews(d.body, InitialText(d.body).text))
  /\ viewer' = NoViewer /\ worker' = Absent /\ UNCHANGED cache
  /\ query' = "" /\ matchIndex' = 0 /\ ranSearch' = Absent /\ typedFor' = Absent
  /\ page' = 0 /\ ranHex' = Absent

(* Another exchange, or a new revision, comes to the same instance. *)
Show(d) ==
  /\ detail # Absent /\ d # detail
  /\ Look
  /\ detail' = d /\ newKeyObject' = TRUE
  /\ UNCHANGED <<captureVars, textVars, activeView, jsonVars, searchVars, hexVars>>

(* The inspector renders again: its exchangeKey is a new object each time. *)
RenderAgain ==
  /\ detail # Absent /\ ~newKeyObject
  /\ newKeyObject' = TRUE
  /\ UNCHANGED <<detail, captureVars, textVars, activeView, jsonVars, searchVars, hexVars, looks>>

(* A browser runs the effects of a commit before it handles a click. *)
UserActs == detail # Absent /\ ~EffectsPending /\ Look

ChooseView(view) ==
  /\ UserActs
  /\ view \in Views \ {activeView}
  /\ activeView' = view
  /\ UNCHANGED <<propVars, captureVars, textVars, jsonVars, searchVars, hexVars>>

HasSearch == activeView \notin {"headers", "authentication"}

Type(text) ==
  /\ UserActs
  /\ HasSearch /\ text # query
  /\ query' = text /\ typedFor' = detail.key
  /\ UNCHANGED <<propVars, captureVars, textVars, activeView, jsonVars, matchIndex, ranSearch, hexVars>>

(* "next" goes one match on, "previous" one back, around the ends. *)
Navigate(by) ==
  /\ UserActs
  /\ HasSearch /\ MatchCount > 0
  /\ matchIndex' = (matchIndex + by + MatchCount) % MatchCount
  /\ UNCHANGED <<propVars, captureVars, textVars, activeView, jsonVars, query, ranSearch, typedFor, hexVars>>

TurnPage(by) ==
  /\ UserActs
  /\ activeView = "hex" /\ HexText # Absent
  /\ SafePage + by \in 0 .. PageCount - 1
  /\ page' = page + by
  /\ UNCHANGED <<propVars, captureVars, textVars, activeView, jsonVars, searchVars, ranHex>>

-----------------------------------------------------------------------------------
MessageInit ==
  /\ detail = Absent /\ newKeyObject = FALSE
  /\ ranCapture = [part \in Parts |-> Absent]
  /\ captured = [part \in Parts |-> InitialCapture(Absent)] /\ fetches = {}
  /\ ranText = Absent /\ decoded = InitialText(Absent) /\ decodes = {}
  /\ activeView = "headers"
  /\ viewer = NoViewer /\ worker = Absent /\ cache = <<>>
  /\ query = "" /\ matchIndex = 0 /\ ranSearch = Absent /\ typedFor = Absent
  /\ page = 0 /\ ranHex = Absent
  /\ looks = 0

MessageAnswers ==
  \/ \E f \in fetches : AnswerChunk(f)
  \/ \E f \in fetches : FailChunk(f)
  \/ \E d \in decodes : FinishDecode(d)
  \/ WorkerFormats
  \/ WorkerFails

MessageNext ==
  \/ \E d \in Details : Mount(d)
  \/ \E d \in Details : Show(d)
  \/ RenderAgain
  \/ FlushEffects
  \/ MessageAnswers
  \/ \E view \in BodyViews : ChooseView(view)
  \/ \E text \in {"", "find"} : Type(text)
  \/ \E by \in {-1, 1} : Navigate(by)
  \/ \E by \in {-1, 1} : TurnPage(by)

(* React runs the effects of every commit, and a call to the source, a      *)
(* decoding and a worker settle in the end.                                 *)
MessageFairness == WF_messageVars(FlushEffects) /\ WF_messageVars(MessageAnswers)

-----------------------------------------------------------------------------------
(* Properties. *)

(***************************************************************************)
(* Once no effect is pending, everything below the props is about the      *)
(* exchange in view: the captured body is the exchange's or what the       *)
(* source stored for it, the text is that body's, the JSON document is     *)
(* made from that text, and a search was typed for that exchange.  The     *)
(* disposed flags, the worker that is terminated, the content check of the *)
(* cache and the order of the effects are what keep this when answers for  *)
(* an exchange looked at before come late (MessageInspector.tsx:35-66).    *)
(***************************************************************************)
SettledViewIsOfTheExchange ==
  detail # Absent /\ ~EffectsPending =>
    /\ \A part \in Parts : LET body == captured[part].body IN
         body = detail[part] \/ (IsKind(detail[part], "attachment") /\ body = detail[part].stored)
    /\ decoded.text # Absent => decoded.text = captured["body"].body.text
    /\ viewer.presentation # Absent => viewer.presentation.original = Content
    /\ query # "" => typedFor = detail.key

Loading ==
  \/ EffectsPending
  \/ captured["body"].isLoading \/ captured["raw"].isLoading \/ decoded.isLoading
  \/ Slot # "none" /\ viewer.presentation = Absent

(***************************************************************************)
(* Whatever the user looked at last is shown in the end: its body is       *)
(* there or its error is told, nothing keeps loading and no effect keeps   *)
(* setting off another one (useCapturedBody.ts:19-36, JsonBodyViewer.tsx:  *)
(* 42-66).  Looks are bounded; renders of the inspector alone are not.     *)
(***************************************************************************)
ShownEventually == <>[](newKeyObject \/ ~Loading)

===================================================================================
