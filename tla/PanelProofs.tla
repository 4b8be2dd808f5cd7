---------------------------------- MODULE PanelProofs ----------------------------------
(***************************************************************************)
(* Proofs about five panels of the window, each a specification of its     *)
(* own, for all exchanges, records, rows, columns and bounds: once no      *)
(* effect of the message view or of the map is pending, what they show is  *)
(* of the exchange in view (MessageView, DataverseMapView); the sequence   *)
(* grid follows its last row until its user leaves it, and a reload gives  *)
(* its columns back (GridView); what is not edited of a captured request   *)
(* is replayed as it was captured (RecomposeForm); and the database        *)
(* workspace keeps its types, implements LiveTable, and its rows end as    *)
(* the hub's (DatabaseWindow).                                             *)
(***************************************************************************)
EXTENDS MessageView, DataverseMapView, GridView, RecomposeForm, DatabaseWindow,
        FiniteSetTheorems, SequenceTheorems, TLAPS

---------------------------------------------------------------------------------------
(* The response tab. *)

MessageSpec == MessageInit /\ [][MessageNext]_messageVars

(* A body, or what the source keeps for it. *)
Loaded(body) == {body} \cup (IF IsKind(body, "attachment") THEN {body.stored} ELSE {})

(* A call that is not disposed is one that the effect made last; what the   *)
(* effect did not start with came from such a call.                         *)
CaptureInv ==
  /\ detail \in Details \cup {Absent}
  /\ captured = [part \in Parts |-> captured[part]]
  /\ \A part \in Parts :
       ranCapture[part] # Absent => captured[part].body \in Loaded(ranCapture[part][2])
  /\ \A f \in fetches :
       /\ f = [part |-> f.part, body |-> f.body, disposed |-> f.disposed]
       /\ f.part \in Parts
       /\ ~f.disposed => f.body = ranCapture[f.part][2] /\ IsKind(f.body, "attachment")

Never == [kind |-> "never"]

TextInv ==
  /\ ranText # Never /\ decoded.text # Absent => decoded.text = ranText.text
  /\ \A d \in decodes : /\ d = [body |-> d.body, disposed |-> d.disposed]
                        /\ ~d.disposed => d.body = ranText

(* The document that is shown, and the one that the worker makes, are of    *)
(* the content that the viewer's effect ran with.                           *)
JsonInv ==
  /\ viewer = [slot |-> viewer.slot, ran |-> viewer.ran, presentation |-> viewer.presentation]
  /\ viewer.slot = "none" => viewer.presentation = Absent /\ worker = Absent
  /\ viewer.presentation # Absent => viewer.presentation.original = viewer.ran[2]
  /\ worker # Absent => worker.text = viewer.ran[2]

SearchInv == query # "" => newKeyObject \/ typedFor = detail.key

(***************************************************************************)
(* The invariant that is inductive: every stage is about what its effect   *)
(* last ran with, whatever is still under way for an exchange before.      *)
(***************************************************************************)
MessageInv == CaptureInv /\ TextInv /\ JsonInv /\ SearchInv

LEMMA BodiesOfDetails ==
  ASSUME NEW d \in Details, NEW part \in Parts
  PROVE  /\ d # Absent /\ Absent # <<d.key, d[part]>>
         /\ \A body \in Loaded(d[part]) : body # Never
<1>1. d[part] \in {d.body, d.raw}
  BY DEF Parts
<1>2. \A body : body # Absent /\ body.kind \in BodyKinds => body # Never
  BY DEF BodyKinds, Never
<1> QED
  BY <1>1, <1>2, MessageAssumption DEF Loaded, IsKind, Never, BodyKinds

LEMMA MessageInitInv == MessageInit => MessageInv
<1> SUFFICES ASSUME MessageInit PROVE MessageInv
  OBVIOUS
<1>1. CaptureInv
  BY DEF MessageInit, CaptureInv
<1>2. TextInv
  BY DEF MessageInit, TextInv, InitialText, IsKind
<1>3. JsonInv
  BY DEF MessageInit, JsonInv, NoViewer
<1>4. SearchInv
  BY DEF MessageInit, SearchInv
<1> QED
  BY <1>1, <1>2, <1>3, <1>4 DEF MessageInv

(* What has settled is about the exchange in view. *)
LEMMA SettledInv == MessageInv => SettledViewIsOfTheExchange
<1> SUFFICES ASSUME MessageInv, detail # Absent, ~EffectsPending
             PROVE  /\ \A part \in Parts : LET body == captured[part].body IN
                         body = detail[part] \/ (IsKind(detail[part], "attachment") /\ body = detail[part].stored)
                    /\ decoded.text # Absent => decoded.text = captured["body"].body.text
                    /\ viewer.presentation # Absent => viewer.presentation.original = Content
                    /\ query # "" => typedFor = detail.key
  BY DEF SettledViewIsOfTheExchange
<1>1. detail \in Details
  BY DEF MessageInv, CaptureInv
<1>2. ASSUME NEW part \in Parts
      PROVE  captured[part].body \in Loaded(detail[part])
  <2>1. ranCapture[part] = <<detail.key, detail[part]>>
    BY DEF EffectsPending, CaptureDeps
  <2>2. ranCapture[part] # Absent
    BY <1>1, <2>1, BodiesOfDetails
  <2>3. captured[part].body \in Loaded(ranCapture[part][2])
    BY <2>2 DEF MessageInv, CaptureInv
  <2>4. ranCapture[part][2] = detail[part]
    BY <2>1
  <2> QED
    BY <2>3, <2>4
<1>3. ASSUME decoded.text # Absent
      PROVE  decoded.text = captured["body"].body.text
  <2>1. ranText = captured["body"].body
    BY DEF EffectsPending
  <2>2. "body" \in Parts /\ captured["body"].body \in Loaded(detail["body"])
    BY <1>2 DEF Parts
  <2>3. ranText # Never
    BY <1>1, <2>1, <2>2, BodiesOfDetails
  <2> QED
    BY <1>3, <2>1, <2>3 DEF MessageInv, TextInv
<1>4. ASSUME viewer.presentation # Absent
      PROVE  viewer.presentation.original = Content
  <2>1. viewer.slot = Slot /\ Slot # "none"
    BY <1>4 DEF EffectsPending, MessageInv, JsonInv
  <2>2. viewer.ran = <<CacheKey, Content>>
    BY <2>1 DEF EffectsPending, ViewerDeps
  <2> QED
    BY <1>4, <2>2 DEF MessageInv, JsonInv
<1>5. query # "" => typedFor = detail.key
  BY DEF EffectsPending, MessageInv, SearchInv
<1> QED
  BY <1>2, <1>3, <1>4, <1>5 DEF Loaded

---------------------------------------------------------------------------------------
(* The parts of the invariant that a step leaves alone. *)

LEMMA OthersUnchanged ==
  /\ CaptureInv /\ UNCHANGED <<propVars, captureVars>> => CaptureInv'
  /\ TextInv /\ UNCHANGED textVars => TextInv'
  /\ JsonInv /\ UNCHANGED jsonVars => JsonInv'
  /\ SearchInv /\ UNCHANGED <<propVars, searchVars>> => SearchInv'
<1>1. CaptureInv /\ UNCHANGED <<propVars, captureVars>> => CaptureInv'
  BY DEF CaptureInv, propVars, captureVars
<1>2. TextInv /\ UNCHANGED textVars => TextInv'
  BY DEF TextInv, textVars
<1>3. JsonInv /\ UNCHANGED jsonVars => JsonInv'
  BY DEF JsonInv, jsonVars
<1>4. SearchInv /\ UNCHANGED <<propVars, searchVars>> => SearchInv'
  <2>1. UNCHANGED <<propVars, searchVars>> =>
          detail' = detail /\ newKeyObject' = newKeyObject /\ query' = query /\ typedFor' = typedFor
    BY DEF propVars, searchVars
  <2> QED
    BY <2>1, Zenon DEF SearchInv
<1> QED
  BY <1>1, <1>2, <1>3, <1>4

(* The effects of one commit. *)

LEMMA RunCaptureKeepsInv ==
  ASSUME CaptureInv, UNCHANGED detail, RunCapture
  PROVE  CaptureInv'
<1> DEFINE again == {part \in Parts : ranCapture[part] # CaptureDeps(part)}
           asked == {part \in again : IsKind(detail[part], "attachment")}
           over  == {[f EXCEPT !.disposed = @ \/ f.part \in again] : f \in fetches}
           begun == {[part |-> part, body |-> detail[part], disposed |-> FALSE] : part \in asked}
<1>1. /\ ranCapture' = [part \in Parts |-> CaptureDeps(part)]
      /\ captured' = [part \in Parts |->
           IF part \notin again THEN captured[part]
           ELSE [InitialCapture(detail[part]) EXCEPT !.isLoading = part \in asked]]
      /\ fetches' = over \cup begun
  BY DEF RunCapture
<1>2. \A part \in Parts : ranCapture'[part] = CaptureDeps(part) /\ ranCapture'[part][2] = detail[part]
  BY <1>1 DEF CaptureDeps
<1>3. ASSUME NEW part \in Parts
      PROVE  ranCapture'[part] # Absent => captured'[part].body \in Loaded(ranCapture'[part][2])
  <2>1. CASE part \in again
    <3>1. captured'[part].body = detail[part]
      BY <1>1, <2>1 DEF InitialCapture
    <3> QED
      BY <1>2, <3>1 DEF Loaded
  <2>2. CASE part \notin again
    <3>1. captured'[part] = captured[part] /\ ranCapture'[part] = ranCapture[part]
      BY <1>1, <1>2, <2>2
    <3> QED
      BY <3>1 DEF CaptureInv
  <2> QED
    BY <2>1, <2>2
<1>4. ASSUME NEW f \in fetches'
      PROVE  /\ f = [part |-> f.part, body |-> f.body, disposed |-> f.disposed]
             /\ f.part \in Parts
             /\ ~f.disposed => f.body = ranCapture'[f.part][2] /\ IsKind(f.body, "attachment")
  <2>1. CASE f \in begun
    <3>1. PICK part \in asked : f = [part |-> part, body |-> detail[part], disposed |-> FALSE]
      BY <2>1
    <3> QED
      BY <1>2, <3>1
  <2>2. CASE f \in over
    <3>1. PICK g \in fetches : f = [g EXCEPT !.disposed = @ \/ g.part \in again]
      BY <2>2
    <3>2. /\ g = [part |-> g.part, body |-> g.body, disposed |-> g.disposed] /\ g.part \in Parts
          /\ ~g.disposed => g.body = ranCapture[g.part][2] /\ IsKind(g.body, "attachment")
      BY DEF CaptureInv
    <3>3. /\ f = [part |-> f.part, body |-> f.body, disposed |-> f.disposed]
          /\ f.part = g.part /\ f.body = g.body /\ f.disposed = (g.disposed \/ g.part \in again)
      <4> HIDE DEF again
      <4> QED
        BY <3>1, <3>2
    <3>4. g.part \notin again => ranCapture'[g.part] = ranCapture[g.part]
      BY <1>2, <3>2
    <3> HIDE DEF again
    <3> QED
      BY <3>2, <3>3, <3>4
  <2> HIDE DEF over, begun
  <2> QED
    BY <1>1, <2>1, <2>2
<1> QED
  BY <1>1, <1>3, <1>4 DEF CaptureInv

LEMMA RunTextKeepsInv ==
  ASSUME TextInv, RunText
  PROVE  TextInv'
<1> DEFINE body == captured["body"].body
<1>1. CASE ranText = body
  BY <1>1 DEF RunText, textVars, TextInv
<1>2. CASE ranText # body
  <2>1. /\ ranText' = body
        /\ decoded' = [InitialText(body) EXCEPT !.isLoading = IsKind(body, "base64")]
        /\ decodes' \subseteq {[d EXCEPT !.disposed = TRUE] : d \in decodes}
                              \cup {[body |-> body, disposed |-> FALSE]}
    BY <1>2 DEF RunText
  <2> HIDE DEF body
  <2>2. decoded'.text # Absent => decoded'.text = ranText'.text
    BY <2>1 DEF InitialText
  <2>3. ASSUME NEW d \in decodes'
        PROVE  d = [body |-> d.body, disposed |-> d.disposed] /\ (~d.disposed => d.body = ranText')
    <3>1. CASE d = [body |-> body, disposed |-> FALSE]
      BY <2>1, <3>1
    <3>2. ASSUME NEW e \in decodes, d = [e EXCEPT !.disposed = TRUE]
          PROVE  d = [body |-> d.body, disposed |-> d.disposed] /\ d.disposed
      <4>1. e = [body |-> e.body, disposed |-> e.disposed]
        BY DEF TextInv
      <4>2. d = [body |-> e.body, disposed |-> TRUE]
        BY <3>2, <4>1
      <4> QED
        BY <4>2
    <3> QED
      BY <2>1, <3>1, <3>2
  <2> QED
    BY <2>2, <2>3 DEF TextInv
<1> QED
  BY <1>1, <1>2

(* What the cache gives has the content, whatever its key. *)
LEMMA CachedIsOfTheContent ==
  ASSUME NEW key, NEW text, Cached(key, text) # Absent
  PROVE  Cached(key, text).original = text
<1> DEFINE hits == {i \in DOMAIN cache : cache[i].key = key /\ cache[i].presentation.original = text}
<1>1. hits # {} /\ Cached(key, text) = cache[CHOOSE i \in hits : TRUE].presentation
  BY DEF Cached
<1>2. PICK i \in hits : i = CHOOSE j \in hits : TRUE
  BY <1>1
<1>3. cache[i].presentation.original = text
  BY <1>2
<1> HIDE DEF hits
<1> QED
  BY <1>1, <1>2, <1>3

LEMMA RunJsonKeepsInv ==
  ASSUME JsonInv, RunJson
  PROVE  JsonInv'
<1> DEFINE hit  == Cached(CacheKey, Content)
           made == Presentation(Content)
           Set(p) == viewer' = [slot |-> Slot, ran |-> ViewerDeps, presentation |-> p]
<1>1. CASE Slot = "none"
  <2>1. viewer' = NoViewer /\ worker' = Absent
    BY <1>1 DEF RunJson
  <2>2. viewer' = [slot |-> viewer'.slot, ran |-> viewer'.ran, presentation |-> viewer'.presentation]
    BY <2>1 DEF NoViewer
  <2>3. viewer'.presentation = Absent
    BY <2>1 DEF NoViewer
  <2> QED
    BY <2>1, <2>2, <2>3 DEF JsonInv
<1>2. CASE Slot # "none" /\ viewer.slot = Slot /\ viewer.ran = ViewerDeps
  BY <1>2 DEF RunJson, jsonVars, JsonInv
<1>3. CASE Slot # "none" /\ ~(viewer.slot = Slot /\ viewer.ran = ViewerDeps)
  <2>1. \/ hit # Absent /\ Set(hit) /\ worker' = Absent
        \/ Set(made) /\ worker' = Absent
        \/ Set(Absent) /\ worker' = [key |-> CacheKey, text |-> Content]
    BY <1>3 DEF RunJson
  <2>2. ViewerDeps[2] = Content /\ made.original = Content
    BY DEF ViewerDeps, Presentation
  <2>3. hit # Absent => hit.original = Content
    BY CachedIsOfTheContent
  <2> HIDE DEF hit, made
  <2> QED
    BY <1>3, <2>1, <2>2, <2>3 DEF JsonInv
<1> QED
  BY <1>1, <1>2, <1>3

LEMMA FlushKeepsInv ==
  ASSUME MessageInv, FlushEffects
  PROVE  MessageInv'
<1>1. /\ RunCapture /\ RunText /\ RunJson
      /\ query' = (IF newKeyObject THEN "" ELSE query) /\ UNCHANGED <<detail, typedFor>>
  BY DEF FlushEffects, RunSearch
<1>2. CaptureInv'
  BY <1>1, RunCaptureKeepsInv DEF MessageInv
<1>3. TextInv'
  BY <1>1, RunTextKeepsInv DEF MessageInv
<1>4. JsonInv'
  BY <1>1, RunJsonKeepsInv DEF MessageInv
<1>5. SearchInv'
  BY <1>1, Zenon DEF MessageInv, SearchInv
<1> QED
  BY <1>2, <1>3, <1>4, <1>5 DEF MessageInv

---------------------------------------------------------------------------------------
(* Answers, props and the user. *)

LEMMA ChunkKeepsInv ==
  ASSUME CaptureInv, UNCHANGED <<detail, ranCapture>>, NEW f \in fetches, fetches' = fetches \ {f},
         NEW answer, answer.body \in Loaded(f.body),
         captured' = IF Settles(f) THEN [captured EXCEPT ![f.part] = answer] ELSE captured
  PROVE  CaptureInv'
<1>1. f.part \in Parts /\ (~f.disposed => f.body = ranCapture[f.part][2])
  BY DEF CaptureInv
<1>2. /\ captured' = [part \in Parts |-> captured'[part]]
      /\ \A part \in Parts : \/ captured'[part] = captured[part]
                             \/ part = f.part /\ Settles(f) /\ captured'[part] = answer
  <2>1. captured = [part \in Parts |-> captured[part]]
    BY DEF CaptureInv
  <2> QED
    BY <1>1, <2>1
<1>3. ASSUME NEW part \in Parts, ranCapture[part] # Absent
      PROVE  captured'[part].body \in Loaded(ranCapture[part][2])
  BY <1>1, <1>2, <1>3 DEF CaptureInv, Settles
<1> QED
  BY <1>2, <1>3 DEF CaptureInv

LEMMA AnswersKeepInv ==
  ASSUME MessageInv, MessageAnswers
  PROVE  MessageInv'
<1>1. ASSUME NEW f \in fetches, AnswerChunk(f) \/ FailChunk(f)
      PROVE  MessageInv'
  <2>1. CASE Settles(f)
    <3>1. PICK answer : /\ answer \in {InitialCapture(f.body.stored),
                                       [InitialCapture(f.body) EXCEPT !.failed = TRUE]}
                        /\ captured' = [captured EXCEPT ![f.part] = answer]
      BY <1>1, <2>1 DEF AnswerChunk, FailChunk
    <3>2. IsKind(f.body, "attachment")
      BY <2>1 DEF MessageInv, CaptureInv, Settles
    <3>3. answer.body \in Loaded(f.body)
      BY <3>1, <3>2 DEF InitialCapture, Loaded
    <3>4. UNCHANGED <<detail, ranCapture>> /\ fetches' = fetches \ {f}
      BY <1>1 DEF AnswerChunk, FailChunk, propVars
    <3> QED
      BY <2>1, <3>1, <3>3, <3>4, ChunkKeepsInv, <1>1, OthersUnchanged
      DEF AnswerChunk, FailChunk, MessageInv
  <2>2. CASE ~Settles(f)
    BY <1>1, <2>2, OthersUnchanged DEF AnswerChunk, FailChunk, MessageInv, CaptureInv, propVars
  <2> QED
    BY <2>1, <2>2
<1>2. ASSUME NEW d \in decodes, FinishDecode(d)
      PROVE  MessageInv'
  <2>1. /\ UNCHANGED <<propVars, captureVars, jsonVars, searchVars, ranText>>
        /\ decodes' = decodes \ {d}
        /\ decoded' = IF Settles(d) THEN DecodesTo(d.body) ELSE decoded
    BY <1>2 DEF FinishDecode
  <2>2. ~d.disposed => d.body = ranText
    BY DEF MessageInv, TextInv
  <2>3. decoded' = decoded \/ decoded'.text = Absent \/ decoded'.text = ranText.text
    BY <2>1, <2>2 DEF Settles, DecodesTo
  <2>4. TextInv'
    BY <2>1, <2>3 DEF MessageInv, TextInv
  <2>5. CaptureInv' /\ JsonInv' /\ SearchInv'
    BY <2>1, OthersUnchanged DEF MessageInv
  <2> QED
    BY <2>4, <2>5 DEF MessageInv
<1>3. CASE WorkerFormats \/ WorkerFails
  <2>1. PICK answer : /\ AnswerWorker(answer)
                      /\ answer.original = worker.text
    BY <1>3 DEF WorkerFormats, WorkerFails, Presentation
  <2>2. /\ UNCHANGED <<propVars, captureVars, textVars, searchVars>>
        /\ worker # Absent /\ worker' = Absent
        /\ viewer' = [viewer EXCEPT !.presentation = answer]
    BY <2>1 DEF AnswerWorker
  <2>3. viewer' = [slot |-> viewer.slot, ran |-> viewer.ran, presentation |-> answer]
    BY <2>2 DEF MessageInv, JsonInv
  <2>4. JsonInv'
    BY <2>1, <2>2, <2>3 DEF MessageInv, JsonInv
  <2>5. CaptureInv' /\ TextInv' /\ SearchInv'
    BY <2>2, OthersUnchanged DEF MessageInv
  <2> QED
    BY <2>4, <2>5 DEF MessageInv
<1> QED
  BY <1>1, <1>2, <1>3 DEF MessageAnswers

(* The tab is opened: no call that is still out belongs to it. *)
LEMMA MountKeepsInv ==
  ASSUME MessageInv, NEW d \in Details, Mount(d)
  PROVE  MessageInv'
<1>1. CaptureInv'
  <2>1. /\ detail' = d /\ ranCapture' = [part \in Parts |-> Absent]
        /\ captured' = [part \in Parts |-> InitialCapture(d[part])]
        /\ fetches' = {[f EXCEPT !.disposed = TRUE] : f \in fetches}
    BY DEF Mount
  <2>2. ASSUME NEW g \in fetches'
        PROVE  /\ g = [part |-> g.part, body |-> g.body, disposed |-> g.disposed]
               /\ g.part \in Parts /\ g.disposed
    <3>1. PICK f \in fetches : g = [f EXCEPT !.disposed = TRUE]
      BY <2>1
    <3>2. f = [part |-> f.part, body |-> f.body, disposed |-> f.disposed] /\ f.part \in Parts
      BY DEF MessageInv, CaptureInv
    <3>3. g = [part |-> f.part, body |-> f.body, disposed |-> TRUE]
      BY <3>1, <3>2
    <3> QED
      BY <3>2, <3>3
  <2> QED
    BY <2>1, <2>2 DEF CaptureInv
<1>2. TextInv'
  <2>1. ranText' = Never /\ decodes' = {[c EXCEPT !.disposed = TRUE] : c \in decodes}
    BY DEF Mount, Never
  <2>2. ASSUME NEW e \in decodes'
        PROVE  e = [body |-> e.body, disposed |-> e.disposed] /\ e.disposed
    <3>1. PICK c \in decodes : e = [c EXCEPT !.disposed = TRUE]
      BY <2>1
    <3>2. c = [body |-> c.body, disposed |-> c.disposed]
      BY DEF MessageInv, TextInv
    <3>3. e = [body |-> c.body, disposed |-> TRUE]
      BY <3>1, <3>2
    <3> QED
      BY <3>3
  <2> QED
    BY <2>1, <2>2 DEF TextInv
<1>3. JsonInv'
  <2>1. viewer' = NoViewer /\ worker' = Absent
    BY DEF Mount
  <2>2. /\ viewer' = [slot |-> viewer'.slot, ran |-> viewer'.ran, presentation |-> viewer'.presentation]
        /\ viewer'.presentation = Absent
    BY <2>1 DEF NoViewer
  <2> QED
    BY <2>1, <2>2 DEF JsonInv
<1>4. SearchInv'
  BY DEF Mount, SearchInv
<1> QED
  BY <1>1, <1>2, <1>3, <1>4 DEF MessageInv

LEMMA ShowKeepsInv ==
  ASSUME MessageInv, RenderAgain \/ \E d \in Details : Show(d)
  PROVE  MessageInv'
<1>1. /\ newKeyObject' = TRUE /\ detail' \in Details \cup {Absent}
      /\ UNCHANGED <<captureVars, textVars, jsonVars>>
  BY DEF RenderAgain, Show, MessageInv, CaptureInv
<1>2. CaptureInv'
  BY <1>1 DEF MessageInv, CaptureInv, captureVars
<1>3. TextInv' /\ JsonInv'
  BY <1>1, OthersUnchanged DEF MessageInv
<1>4. SearchInv'
  BY <1>1 DEF SearchInv
<1> QED
  BY <1>2, <1>3, <1>4 DEF MessageInv

LEMMA MessageNextKeepsInv == MessageInv /\ [MessageNext]_messageVars => MessageInv'
<1> SUFFICES ASSUME MessageInv, [MessageNext]_messageVars PROVE MessageInv'
  OBVIOUS
<1>1. ASSUME NEW d \in Details, Mount(d) PROVE MessageInv'
  BY <1>1, MountKeepsInv
<1>2. CASE RenderAgain \/ \E d \in Details : Show(d)
  BY <1>2, ShowKeepsInv
<1>3. CASE FlushEffects
  BY <1>3, FlushKeepsInv
<1>4. CASE MessageAnswers
  BY <1>4, AnswersKeepInv
<1>5. ASSUME NEW text, Type(text) PROVE MessageInv'
  <2>1. UNCHANGED <<propVars, captureVars, textVars, jsonVars>> /\ typedFor' = detail.key
    BY <1>5 DEF Type
  <2>2. SearchInv'
    BY <2>1 DEF SearchInv, propVars
  <2> QED
    BY <2>1, <2>2, OthersUnchanged DEF MessageInv
<1>6. ASSUME UNCHANGED <<propVars, captureVars, textVars, jsonVars, query, typedFor>>
      PROVE  MessageInv'
  BY <1>6, OthersUnchanged DEF MessageInv, SearchInv, propVars
<1>7. ASSUME NEW view, ChooseView(view) PROVE MessageInv'
  BY <1>6, <1>7 DEF ChooseView, searchVars
<1>8. ASSUME NEW by, Navigate(by) \/ TurnPage(by) PROVE MessageInv'
  BY <1>6, <1>8 DEF Navigate, TurnPage, searchVars
<1>9. CASE UNCHANGED messageVars
  BY <1>6, <1>9 DEF messageVars, searchVars
<1> QED
  BY <1>1, <1>2, <1>3, <1>4, <1>5, <1>7, <1>8, <1>9 DEF MessageNext

(***************************************************************************)
(* Whatever exchanges are shown and in whatever order their bodies, texts  *)
(* and documents come, every stage of the inspector is about what its      *)
(* effect last ran with (useCapturedBody.ts, useBodyTextPresentation.ts,   *)
(* JsonBodyViewer.tsx).                                                    *)
(***************************************************************************)
THEOREM MessageInvariant == MessageSpec => []MessageInv
<1>1. MessageInit => MessageInv
  BY MessageInitInv
<1>2. MessageInv /\ [MessageNext]_messageVars => MessageInv'
  BY MessageNextKeepsInv
<1> QED
  BY <1>1, <1>2, PTL DEF MessageSpec

(***************************************************************************)
(* Once no effect is pending, the bodies, the text, the JSON document and  *)
(* the search of the response tab are of the exchange in view, for every   *)
(* set of exchanges and every size of the cache (MessageInspector.tsx:     *)
(* 35-66).                                                                 *)
(***************************************************************************)
THEOREM SettledViewCorrect == MessageSpec => []SettledViewIsOfTheExchange
<1>1. MessageInv => SettledViewIsOfTheExchange
  BY SettledInv
<1> QED
  BY <1>1, MessageInvariant, PTL

---------------------------------------------------------------------------------------
(* The Dataverse map. *)

MapSpec == MapInit /\ [][MapNext]_mapVars

ResponseIds == {r.id : r \in Requests}

PropsInv ==
  /\ request \in Requests /\ theme \in Themes
  /\ response = [id |-> response.id, count |-> response.count]
  /\ response.id \in ResponseIds /\ response.count \in Nat
  /\ recordIndex \in Int

ViewportInv ==
  /\ zoom \in Int /\ pan \in Int
  /\ drag # NoRecord => drag = [pointer |-> drag.pointer, pan |-> drag.pan] /\ drag.pan \in Int

(* What was asked for last is still being drawn, or it failed, or it is in  *)
(* the container.                                                           *)
Delivered ==
  \/ \E r \in renders : Takes(r)
  \/ renderError = TRUE
  \/ svg # NoRecord /\ svg.source = ranRender[1] /\ svg.theme = ranRender[2]

DiagramInv ==
  /\ ranRender \in {NoRecord} \cup (Sources \X Themes) /\ sequence \in Nat
  /\ \A r \in renders :
       /\ r = [id |-> r.id, source |-> r.source, theme |-> r.theme, disposed |-> r.disposed]
       /\ r.source \in Sources /\ r.theme \in Themes
       /\ Takes(r) => r.source = ranRender[1] /\ r.theme = ranRender[2]
  /\ svg \in {NoRecord} \cup Diagrams
  /\ ranRender # NoRecord => Delivered

(***************************************************************************)
(* The invariant that is inductive: of all renders only the one asked for  *)
(* last can be taken, and until it has been answered nothing else is owed. *)
(***************************************************************************)
MapInv == PropsInv /\ ViewportInv /\ DiagramInv

LEMMA SourceAndTransform ==
  ASSUME PropsInv, ViewportInv
  PROVE  MermaidSource \in Sources /\ Transform \in Int \X Int
<1>1. Record \in {NoRecord} \cup (ResponseIds \X Int)
  BY DEF PropsInv, Record
<1>2. request.key \in {r.key : r \in Requests}
  BY DEF PropsInv
<1> HIDE DEF Record
<1> QED
  BY <1>1, <1>2 DEF MermaidSource, Sources, ResponseIds, Transform, ViewportInv

LEMMA MapInitInv == MapInit => MapInv
<1> SUFFICES ASSUME MapInit PROVE MapInv
  OBVIOUS
<1>1. PropsInv
  BY DEF MapInit, PropsInv, Themes, ResponseIds
<1>2. ViewportInv
  BY DEF MapInit, ViewportInv
<1>3. DiagramInv
  BY DEF MapInit, DiagramInv
<1> QED
  BY <1>1, <1>2, <1>3 DEF MapInv

LEMMA SettledMap == MapInv => SettledDiagramIsTheSources
<1> SUFFICES ASSUME MapInv, ~MapEffectsPending, renders = {}, ~renderError
             PROVE  /\ svg = [source |-> MermaidSource, theme |-> theme, transform |-> Transform]
                    /\ svg.source[2] # NoRecord => svg.source[2][1] = request.id
  BY DEF SettledDiagramIsTheSources
<1>1. ranRender = <<MermaidSource, theme>> /\ response.id = request.id
  BY DEF MapEffectsPending, CaptureNeeded
<1>2. ranRender # NoRecord
  <2>1. ranRender \in Sources \X Themes
    BY <1>1, SourceAndTransform DEF MapInv, PropsInv
  <2> QED
    BY <2>1, MapAssumption
<1>3. svg # NoRecord /\ svg.source = MermaidSource /\ svg.theme = theme
  <2>1. Delivered
    BY <1>2 DEF MapInv, DiagramInv
  <2>2. svg # NoRecord /\ svg.source = ranRender[1] /\ svg.theme = ranRender[2]
    BY <2>1 DEF Delivered
  <2> QED
    BY <1>1, <2>2
<1>4. svg.transform = Transform
  BY <1>3 DEF MapEffectsPending
<1>5. svg = [source |-> MermaidSource, theme |-> theme, transform |-> Transform]
  <2>1. svg \in Diagrams
    BY <1>3 DEF MapInv, DiagramInv
  <2>2. svg = [source |-> svg.source, theme |-> svg.theme, transform |-> svg.transform]
    BY <2>1 DEF Diagrams
  <2> QED
    BY <1>3, <1>4, <2>2
<1>6. svg.source[2] = Record
  BY <1>3 DEF MermaidSource
<1> QED
  BY <1>1, <1>5, <1>6 DEF Record

---------------------------------------------------------------------------------------
(* The effects and answers of the map. *)

LEMMA RunRenderKeepsInv ==
  ASSUME PropsInv, ViewportInv, DiagramInv, RunRender, UNCHANGED renderError,
         svg' = (IF svg = NoRecord THEN svg ELSE [svg EXCEPT !.transform = Transform])
  PROVE  DiagramInv'
<1>1. MermaidSource \in Sources /\ Transform \in Int \X Int /\ theme \in Themes
  BY SourceAndTransform DEF PropsInv
<1>2. /\ svg' \in {NoRecord} \cup Diagrams
      /\ svg = NoRecord => svg' = NoRecord
      /\ svg # NoRecord => svg' # NoRecord /\ svg'.source = svg.source /\ svg'.theme = svg.theme
  <2>1. CASE svg = NoRecord
    BY <2>1
  <2>2. CASE svg # NoRecord
    <3>1. svg = [source |-> svg.source, theme |-> svg.theme, transform |-> svg.transform]
          /\ svg.source \in Sources /\ svg.theme \in Themes
      BY <2>2 DEF DiagramInv, Diagrams
    <3>2. svg' = [source |-> svg.source, theme |-> svg.theme, transform |-> Transform]
      BY <2>2, <3>1
    <3>3. svg' \in Diagrams
      BY <1>1, <3>1, <3>2 DEF Diagrams
    <3>4. svg' # NoRecord
      BY <3>3, MapAssumption
    <3> QED
      BY <2>2, <3>2, <3>3, <3>4
  <2> QED
    BY <2>1, <2>2
<1>3. CASE ranRender = <<MermaidSource, theme>>
  <2>1. UNCHANGED <<ranRender, sequence, renders>>
    BY <1>3 DEF RunRender
  <2>2. ranRender # NoRecord => Delivered'
    BY <1>2, <2>1 DEF DiagramInv, Delivered, Takes
  <2> QED
    BY <1>2, <2>1, <2>2 DEF DiagramInv, Takes
<1>4. CASE ranRender # <<MermaidSource, theme>>
  <2> PICK asked : asked = [id |-> sequence + 1, source |-> MermaidSource, theme |-> theme, disposed |-> FALSE]
    OBVIOUS
  <2>1. /\ ranRender' = <<MermaidSource, theme>> /\ sequence' = sequence + 1
        /\ renders' = {[r EXCEPT !.disposed = TRUE] : r \in renders} \cup {asked}
    BY <1>4 DEF RunRender
  <2>2. ASSUME NEW r \in renders' \ {asked}
        PROVE  /\ r = [id |-> r.id, source |-> r.source, theme |-> r.theme, disposed |-> r.disposed]
               /\ r.source \in Sources /\ r.theme \in Themes /\ r.disposed
    <3>1. PICK q \in renders : r = [q EXCEPT !.disposed = TRUE]
      BY <2>1
    <3>2. /\ q = [id |-> q.id, source |-> q.source, theme |-> q.theme, disposed |-> q.disposed]
          /\ q.source \in Sources /\ q.theme \in Themes
      BY DEF DiagramInv
    <3>3. r = [id |-> q.id, source |-> q.source, theme |-> q.theme, disposed |-> TRUE]
      BY <3>1, <3>2
    <3> QED
      BY <3>2, <3>3
  <2>3. Takes(asked)'
    BY <2>1 DEF Takes
  <2>4. Delivered'
    BY <2>1, <2>3 DEF Delivered
  <2>5. ranRender' \in Sources \X Themes /\ sequence' \in Nat
    BY <1>1, <2>1 DEF DiagramInv
  <2>6. ASSUME NEW r \in renders'
        PROVE  /\ r = [id |-> r.id, source |-> r.source, theme |-> r.theme, disposed |-> r.disposed]
               /\ r.source \in Sources /\ r.theme \in Themes
               /\ Takes(r)' => r.source = ranRender'[1] /\ r.theme = ranRender'[2]
    <3>1. CASE r = asked
      BY <1>1, <2>1, <3>1
    <3>2. CASE r # asked
      BY <2>2, <3>2 DEF Takes
    <3> QED
      BY <3>1, <3>2
  <2> QED
    BY <1>2, <2>4, <2>5, <2>6 DEF DiagramInv, Takes
<1> QED
  BY <1>3, <1>4

LEMMA FlushMapKeepsInv ==
  ASSUME MapInv, FlushMapEffects
  PROVE  MapInv'
<1>1. /\ RunResponse /\ RunIndex /\ RunRender
      /\ svg' = (IF svg = NoRecord THEN svg ELSE [svg EXCEPT !.transform = Transform])
      /\ UNCHANGED <<request, theme, renderError, viewportVars>>
  BY DEF FlushMapEffects
<1>2. DiagramInv'
  BY <1>1, RunRenderKeepsInv DEF MapInv
<1>3. ViewportInv'
  BY <1>1 DEF MapInv, ViewportInv, viewportVars
<1>4. /\ response' = [id |-> response'.id, count |-> response'.count]
      /\ response'.id \in ResponseIds /\ response'.count \in Nat
  <2>1. CASE CaptureNeeded
    <3>1. response' = [id |-> request.id, count |-> IF request.attached THEN 0 ELSE request.records]
      BY <1>1, <2>1 DEF RunResponse
    <3>2. request \in Requests /\ request.id \in ResponseIds /\ request.records \in Nat
      BY MapAssumption DEF MapInv, PropsInv, ResponseIds
    <3> QED
      BY <3>1, <3>2
  <2>2. CASE ~CaptureNeeded
    BY <1>1, <2>2 DEF RunResponse, MapInv, PropsInv
  <2> QED
    BY <2>1, <2>2
<1>5. recordIndex' \in Int
  BY <1>1 DEF RunIndex, MapInv, PropsInv
<1>6. PropsInv'
  BY <1>1, <1>4, <1>5 DEF MapInv, PropsInv
<1> QED
  BY <1>2, <1>3, <1>6 DEF MapInv

LEMMA RenderAnswersKeepInv ==
  ASSUME MapInv, NEW r \in renders, FinishRender(r) \/ FailRender(r)
  PROVE  MapInv'
<1>1. /\ renders' = renders \ {r}
      /\ UNCHANGED <<request, theme, indexVars, ranRender, sequence, viewportVars>>
  BY DEF FinishRender, FailRender
<1>2. PropsInv' /\ ViewportInv'
  BY <1>1 DEF MapInv, PropsInv, ViewportInv, indexVars, viewportVars
<1>3. /\ r.source \in Sources /\ r.theme \in Themes
      /\ Takes(r) => r.source = ranRender[1] /\ r.theme = ranRender[2]
  BY DEF MapInv, DiagramInv
<1>4. \A q : Takes(q)' = Takes(q)
  BY <1>1 DEF Takes
<1>5. /\ svg' \in {NoRecord} \cup Diagrams
      /\ ranRender # NoRecord => Delivered'
  <2>1. CASE FinishRender(r) /\ Takes(r)
    <3>1. svg' = [source |-> r.source, theme |-> r.theme, transform |-> NoRecord]
      BY <2>1 DEF FinishRender
    <3>2. svg' \in Diagrams
      BY <1>3, <3>1 DEF Diagrams
    <3>3. svg' # NoRecord
      BY <3>2, MapAssumption
    <3> QED
      BY <1>1, <1>3, <2>1, <3>1, <3>2, <3>3 DEF Delivered
  <2>2. CASE FailRender(r) /\ Takes(r)
    <3>1. renderError' = TRUE /\ svg' = svg
      BY <2>2 DEF FailRender
    <3> QED
      BY <3>1 DEF Delivered, MapInv, DiagramInv
  <2>3. CASE ~Takes(r)
    <3>1. svg' = svg /\ (renderError = TRUE => renderError' = TRUE)
      BY <2>3 DEF FinishRender, FailRender
    <3>2. (\E q \in renders : Takes(q)) => \E q \in renders' : Takes(q)'
      BY <1>1, <1>4, <2>3
    <3> QED
      BY <1>1, <3>1, <3>2 DEF Delivered, MapInv, DiagramInv
  <2> QED
    BY <2>1, <2>2, <2>3
<1>6. DiagramInv'
  BY <1>1, <1>4, <1>5 DEF MapInv, DiagramInv
<1> QED
  BY <1>2, <1>6 DEF MapInv

LEMMA MapNextKeepsInv == MapInv /\ [MapNext]_mapVars => MapInv'
<1> SUFFICES ASSUME MapInv, [MapNext]_mapVars PROVE MapInv'
  OBVIOUS
<1>1. ASSUME UNCHANGED <<diagramVars, svg>> PROVE DiagramInv'
  BY <1>1 DEF MapInv, DiagramInv, Delivered, Takes, diagramVars
<1>2. CASE FlushMapEffects
  BY <1>2, FlushMapKeepsInv
<1>3. CASE RenderAnswers
  BY <1>3, RenderAnswersKeepInv DEF RenderAnswers
<1>4. CASE AnswerResponse
  <2>1. /\ UNCHANGED <<request, theme, recordIndex, diagramVars, svg, viewportVars>>
        /\ response' = response \/ response' = [response EXCEPT !.count = request.records]
    BY <1>4 DEF AnswerResponse
  <2>2. /\ response' = [id |-> response'.id, count |-> response'.count]
        /\ response'.id \in ResponseIds /\ response'.count \in Nat
    BY <2>1, MapAssumption DEF MapInv, PropsInv
  <2>3. PropsInv' /\ ViewportInv'
    BY <2>1, <2>2 DEF MapInv, PropsInv, ViewportInv, viewportVars
  <2> QED
    BY <1>1, <2>1, <2>3 DEF MapInv
<1>5. CASE ChangeTheme \/ PreviousRecord \/ NextRecord \/ \E r \in Requests : ShowRequest(r)
  <2>1. /\ request' \in Requests /\ theme' \in Themes /\ recordIndex' \in Int
        /\ UNCHANGED <<response, diagramVars, svg, viewportVars>>
    BY <1>5 DEF ChangeTheme, PreviousRecord, NextRecord, ShowRequest, MapInv, PropsInv, indexVars
  <2>2. PropsInv' /\ ViewportInv'
    BY <2>1 DEF MapInv, PropsInv, ViewportInv, viewportVars
  <2> QED
    BY <1>1, <2>1, <2>2 DEF MapInv
<1>6. ASSUME NEW newZoom \in Int, NEW newPan \in Int, Viewport(newZoom, newPan),
             \/ drag' \in {drag, NoRecord}
             \/ \E pointer : drag' = [pointer |-> pointer, pan |-> pan]
      PROVE  MapInv'
  <2>1. /\ UNCHANGED <<request, theme, indexVars, diagramVars, svg>>
        /\ zoom' \in Int /\ pan' \in Int
    BY <1>6 DEF Viewport, Clamped
  <2>2. ViewportInv'
    BY <1>6, <2>1 DEF MapInv, ViewportInv
  <2>3. PropsInv'
    BY <2>1 DEF MapInv, PropsInv, indexVars
  <2> QED
    BY <1>1, <2>1, <2>2, <2>3 DEF MapInv
<1>7. zoom \in Int /\ pan \in Int /\ (drag # NoRecord => drag.pan \in Int)
  BY DEF MapInv, ViewportInv
<1>8. ASSUME NEW by \in {-1, 1}, ChangeZoom(by) PROVE MapInv'
  BY <1>6, <1>7, <1>8 DEF ChangeZoom
<1>9. CASE ResetViewport
  BY <1>6, <1>9 DEF ResetViewport
<1>10. CASE FitViewport
  BY <1>6, <1>10 DEF FitViewport
<1>11. ASSUME NEW pointer, BeginPan(pointer) \/ EndPan(pointer) PROVE MapInv'
  BY <1>6, <1>7, <1>11 DEF BeginPan, EndPan
<1>12. ASSUME NEW pointer, MovePan(pointer, 5) PROVE MapInv'
  BY <1>6, <1>7, <1>12 DEF MovePan
<1>13. CASE UNCHANGED mapVars
  <2>1. UNCHANGED <<request, theme, indexVars, diagramVars, svg, viewportVars>>
    BY <1>13 DEF mapVars
  <2>2. PropsInv' /\ ViewportInv'
    BY <2>1 DEF MapInv, PropsInv, ViewportInv, indexVars, viewportVars
  <2> QED
    BY <1>1, <2>1, <2>2 DEF MapInv
<1> QED
  BY <1>2, <1>3, <1>4, <1>5, <1>8, <1>9, <1>10, <1>11, <1>12, <1>13 DEF MapNext

(***************************************************************************)
(* Whatever requests, records and themes are chosen and in whatever order  *)
(* Mermaid answers, only the render asked for last is taken, and it is     *)
(* under way, failed or shown (dataverseMapRenderSequence.ts,              *)
(* DataverseMapViewer.tsx:84-108).                                         *)
(***************************************************************************)
THEOREM MapInvariant == MapSpec => []MapInv
<1>1. MapInit => MapInv
  BY MapInitInv
<1>2. MapInv /\ [MapNext]_mapVars => MapInv'
  BY MapNextKeepsInv
<1> QED
  BY <1>1, <1>2, PTL DEF MapSpec

(***************************************************************************)
(* When no effect is pending and Mermaid owes nothing, the diagram is of   *)
(* the request, the record, the theme and the viewport in view, or an      *)
(* error is told, for every set of requests (DataverseMapViewer.tsx:       *)
(* 56-108).                                                                *)
(***************************************************************************)
THEOREM SettledDiagramCorrect == MapSpec => []SettledDiagramIsTheSources
<1>1. MapInv => SettledDiagramIsTheSources
  BY SettledMap
<1> QED
  BY <1>1, MapInvariant, PTL

---------------------------------------------------------------------------------------
(* The sequence grid. *)
GridSpec == GridInit /\ [][GridNext]_gridVars

---------------------------------------------------------------------------------------
(***************************************************************************)
(* The inductive invariant.  A grid that claims to be live and is not at   *)
(* the end has been moved by its user and has yet to hear of it; a grid    *)
(* that claims not to be live was left by its user.  Both need the         *)
(* position to be within the rows that there are, and an event or a frame  *)
(* to find the grid mounted.                                               *)
(***************************************************************************)
EdgeTypeOK ==
  /\ entries \in Nat /\ scrollTop \in Nat
  /\ shown \in BOOLEAN /\ sequenceAtLiveEdge \in BOOLEAN
  /\ scrollEvent \in BOOLEAN /\ frame \in BOOLEAN /\ left \in BOOLEAN

PositionInRange == Mounted => scrollTop <= EndOf(entries)

ListenersAreMounted == scrollEvent \/ frame => Mounted

LeftIsTold == ~sequenceAtLiveEdge => left

MoveIsHeard ==
  Mounted /\ sequenceAtLiveEdge /\ scrollTop # EndOf(entries) => left /\ (scrollEvent \/ frame)

EdgeInv == EdgeTypeOK /\ PositionInRange /\ ListenersAreMounted /\ LeftIsTold /\ MoveIsHeard

---------------------------------------------------------------------------------------

LEMMA EndOfType == \A count \in Nat : EndOf(count) \in Nat
BY GridAssumption DEF EndOf

LEMMA EdgeInvInit == GridInit => EdgeInv
<1> SUFFICES ASSUME GridInit PROVE EdgeInv
  OBVIOUS
<1>1. ~Mounted
  BY DEF GridInit, Mounted
<1>2. EdgeTypeOK
  BY DEF GridInit, EdgeTypeOK
<1>3. ~scrollEvent /\ ~frame /\ sequenceAtLiveEdge
  BY DEF GridInit
<1> QED
  BY <1>1, <1>2, <1>3 DEF EdgeInv, PositionInRange, ListenersAreMounted, LeftIsTold, MoveIsHeard

(* A change of the entries or of the workspace: a live grid is at the end. *)
LEMMA RenderKeepsEdge ==
  ASSUME EdgeInv, NEW count \in 0 .. MaxEntries, NEW visible \in BOOLEAN,
         <<count, visible>> # <<entries, shown>>, RenderGrid(count, visible)
  PROVE  EdgeInv'
<1> USE DEF RenderGrid
<1>1. /\ EdgeTypeOK /\ PositionInRange /\ LeftIsTold
      /\ count \in Nat /\ EndOf(count) \in Nat /\ entries' = count /\ shown' = visible
      /\ UNCHANGED <<sequenceAtLiveEdge, left>>
  BY EndOfType, GridAssumption DEF EdgeInv
<1>2. scrollTop' \in Nat /\ scrollTop' <= EndOf(count)
  BY <1>1 DEF Follow, EdgeTypeOK
<1>3. ListenersAreMounted'
  <2>1. scrollEvent' \/ frame' => visible /\ count > 0
    OBVIOUS
  <2> QED
    BY <1>1, <2>1 DEF ListenersAreMounted, Mounted
<1>4. Mounted' /\ sequenceAtLiveEdge => scrollTop' = EndOf(count)
  <2> SUFFICES ASSUME visible, count > 0, sequenceAtLiveEdge PROVE scrollTop' = EndOf(count)
    BY <1>1 DEF Mounted
  <2>1. CASE Mounted
    <3>1. count # entries
      BY <1>1, <2>1 DEF Mounted, EdgeTypeOK
    <3> QED
      BY <2>1, <3>1 DEF Follow
  <2> QED
    BY <2>1
<1>5. scrollEvent' \in BOOLEAN /\ frame' \in BOOLEAN
  BY <1>1 DEF EdgeTypeOK
<1>6. EndOf(entries)' = EndOf(count)
  BY <1>1 DEF EndOf
<1>7. EdgeTypeOK'
  BY <1>1, <1>2, <1>5 DEF EdgeTypeOK
<1> QED
  BY <1>1, <1>2, <1>3, <1>4, <1>6, <1>7 DEF EdgeInv, PositionInRange, LeftIsTold, MoveIsHeard

(* A movement away from the end leaves it, and will be told. *)
LEMMA MoveKeepsEdge ==
  ASSUME EdgeInv, NEW top \in 0 .. EndOf(entries), MoveTo(top),
         frame' = frame \/ frame' = TRUE
  PROVE  EdgeInv'
<1> USE DEF MoveTo
<1>1. /\ EdgeTypeOK /\ ListenersAreMounted /\ LeftIsTold /\ MoveIsHeard /\ Mounted
      /\ EndOf(entries) \in Nat
      /\ UNCHANGED <<entries, shown, sequenceAtLiveEdge>>
  BY EndOfType DEF EdgeInv, EdgeTypeOK
<1>2. Mounted' /\ EndOf(entries)' = EndOf(entries)
  BY <1>1 DEF Mounted, EndOf
<1>3. top \in Nat /\ top <= EndOf(entries)
  BY <1>1
<1>4. EdgeTypeOK'
  BY <1>1, <1>3 DEF EdgeTypeOK
<1>5. PositionInRange' /\ ListenersAreMounted'
  BY <1>2, <1>3 DEF PositionInRange, ListenersAreMounted
<1>6. LeftIsTold'
  <2>1. left => left'
    OBVIOUS
  <2> QED
    BY <1>1, <2>1 DEF LeftIsTold
<1>7. MoveIsHeard'
  <2>1. /\ top # EndOf(entries) => left'
        /\ top # scrollTop => scrollEvent'
        /\ scrollEvent => scrollEvent'
    OBVIOUS
  <2>2. frame => frame'
    <3>1. CASE frame' = frame
      BY <3>1
    <3>2. CASE frame' = TRUE
      BY <3>2
    <3> QED
      BY <3>1, <3>2
  <2> QED
    BY <1>1, <1>2, <2>1, <2>2 DEF MoveIsHeard
<1> QED
  BY <1>4, <1>5, <1>6, <1>7 DEF EdgeInv

(* A measurement: the grid is live exactly when it is at the end. *)
LEMMA MeasureKeepsEdge ==
  ASSUME EdgeInv, UpdateLiveEdge, scrollEvent \/ frame,
         scrollEvent' \in BOOLEAN, frame' \in BOOLEAN
  PROVE  EdgeInv'
<1> USE DEF UpdateLiveEdge
<1>1. /\ EdgeTypeOK /\ PositionInRange /\ LeftIsTold /\ MoveIsHeard /\ Mounted
      /\ EndOf(entries) \in Nat
      /\ UNCHANGED <<entries, shown, scrollTop>>
  BY EndOfType DEF EdgeInv, EdgeTypeOK, ListenersAreMounted
<1>2. Mounted' /\ EndOf(entries)' = EndOf(entries)
  BY <1>1 DEF Mounted, EndOf
<1>3. IsScrollAtLiveEdge(scrollTop, entries) <=> scrollTop = EndOf(entries)
  BY <1>1, GridAssumption DEF IsScrollAtLiveEdge, EndOf, EdgeTypeOK, PositionInRange
<1>4. sequenceAtLiveEdge' \in BOOLEAN /\ left' \in BOOLEAN
  BY <1>1 DEF IsScrollAtLiveEdge, EdgeTypeOK
<1>5. sequenceAtLiveEdge' <=> scrollTop = EndOf(entries)
  BY <1>3
<1>6. LeftIsTold'
  BY <1>1, <1>5 DEF LeftIsTold, MoveIsHeard
<1>7. EdgeTypeOK'
  BY <1>1, <1>4 DEF EdgeTypeOK
<1>8. PositionInRange' /\ ListenersAreMounted' /\ MoveIsHeard'
  BY <1>1, <1>2, <1>5 DEF PositionInRange, ListenersAreMounted, MoveIsHeard
<1> QED
  BY <1>6, <1>7, <1>8 DEF EdgeInv

LEMMA ResumeKeepsEdge ==
  ASSUME EdgeInv, ResumeLive
  PROVE  EdgeInv'
<1> USE DEF ResumeLive
<1>1. /\ EdgeTypeOK /\ ListenersAreMounted /\ Mounted /\ EndOf(entries) \in Nat
      /\ UNCHANGED <<entries, shown, frame>>
  BY EndOfType DEF EdgeInv, EdgeTypeOK
<1>2. Mounted' /\ EndOf(entries)' = EndOf(entries)
  BY <1>1 DEF Mounted, EndOf
<1>3. EdgeTypeOK'
  BY <1>1 DEF EdgeTypeOK
<1> QED
  BY <1>1, <1>2, <1>3
  DEF EdgeInv, PositionInRange, ListenersAreMounted, LeftIsTold, MoveIsHeard

LEMMA EdgeInvNext == EdgeInv /\ [GridNext]_gridVars => EdgeInv'
<1> SUFFICES ASSUME EdgeInv, [GridNext]_gridVars PROVE EdgeInv'
  OBVIOUS
<1>1. CASE \E count \in 0 .. MaxEntries, visible \in BOOLEAN :
             <<count, visible>> # <<entries, shown>> /\ RenderGrid(count, visible)
  BY <1>1, RenderKeepsEdge
<1>2. CASE \E top \in 0 .. EndOf(entries) : Scroll(top) \/ Wheel(top)
  BY <1>2, MoveKeepsEdge DEF Scroll, Wheel
<1>3. ASSUME NEW index \in 1 .. entries, FocusRow(index)
      PROVE  EdgeInv'
  <2> DEFINE top == IF index <= scrollTop THEN index - 1
                    ELSE IF index > scrollTop + PaneRows THEN index - PaneRows
                    ELSE scrollTop
  <2>1. MoveTo(top) /\ UNCHANGED frame
    BY <1>3 DEF FocusRow
  <2>2. entries \in Nat /\ scrollTop \in Nat /\ Mounted /\ scrollTop <= EndOf(entries)
    BY <2>1 DEF MoveTo, EdgeInv, EdgeTypeOK, PositionInRange
  <2>3. top \in 0 .. EndOf(entries)
    BY <2>2, GridAssumption DEF EndOf
  <2> HIDE DEF top
  <2> QED
    BY <2>1, <2>3, MoveKeepsEdge
<1>4. CASE OnScroll \/ OnFrame
  BY <1>4, MeasureKeepsEdge DEF OnScroll, OnFrame, EdgeInv, EdgeTypeOK
<1>5. CASE ResumeLive
  BY <1>5, ResumeKeepsEdge
<1>6. CASE UNCHANGED edgeVars
  BY <1>6 DEF edgeVars, EdgeInv, EdgeTypeOK, PositionInRange, ListenersAreMounted, LeftIsTold,
     MoveIsHeard, Mounted, EndOf
<1>7. \/ DragEnd \/ EndResize \/ SetTheme \/ UNCHANGED gridVars
      \/ \E column \in ToSet(Columns) :
            \/ DragStart(column) \/ Drop(column) \/ ToggleSort(column)
            \/ StartResize(column) \/ ResetSize(column)
      \/ \E width \in Sizes : MoveResize(width) \/ SetPaneLayout(width)
      \/ \E column \in ToSet(Columns), step \in {-1, 1} : MoveColumnWithKeyboard(column, step)
      => UNCHANGED edgeVars
  BY DEF DragEnd, EndResize, SetTheme, gridVars, DragStart, Drop, ToggleSort, StartResize, ResetSize,
     MoveResize, SetPaneLayout, MoveColumnWithKeyboard, ColumnStep, GridStep
<1>8. CASE Reload
  <2>2. EdgeTypeOK'
    BY <1>8 DEF Reload, EdgeTypeOK
  <2>3. ~Mounted' /\ sequenceAtLiveEdge' /\ ~scrollEvent' /\ ~frame'
    BY <1>8 DEF Reload, Mounted
  <2> QED
    BY <2>2, <2>3 DEF EdgeInv, PositionInRange, ListenersAreMounted, LeftIsTold, MoveIsHeard
<1> QED
  BY <1>1, <1>2, <1>3, <1>4, <1>5, <1>6, <1>7, <1>8 DEF GridNext

---------------------------------------------------------------------------------------

(* Once every movement has been told, a grid that says it is live shows    *)
(* the last row, and one that says it is not was left by its user: filters,*)
(* evictions, cleared sessions and changes of the workspace in between can *)
(* neither strand a live grid above the end nor stop it.                   *)
THEOREM GridFollows == GridSpec => []GridFollowsUntilLeft
<1>1. EdgeInv => GridFollowsUntilLeft
  BY DEF EdgeInv, LeftIsTold, MoveIsHeard, GridFollowsUntilLeft
<1> QED
  BY <1>1, EdgeInvInit, EdgeInvNext, PTL DEF GridSpec

---------------------------------------------------------------------------------------
(* The columns of the grid.                                                *)

(* The inductive invariant: the order lists the columns, each once, and    *)
(* the browser keeps the preferences as they are now.  Otherwise they are  *)
(* the default ones, because none are kept or what is kept is refused.     *)
ColumnTypeOK ==
  /\ Listing!Lists(columnOrder, ToSet(Columns))
  /\ columnWidths \in [ToSet(Columns) -> Sizes \cup {NoColumn}] /\ paneLayout \in Sizes
  /\ draggedColumn \in ToSet(Columns) \cup {NoColumn}
  /\ resized \in ToSet(Columns) \cup {NoColumn}

NothingIsTakenBack ==
  Preferences = DefaultPreferences /\ (stored = NoColumn \/ ~IsStoredDisplayPreferences(stored))

ColumnsInv == ColumnTypeOK /\ (stored = Preferences \/ NothingIsTakenBack)

LEMMA ColumnsAreListed == Listing!Lists(Columns, ToSet(Columns))
<1>1. DOMAIN Columns = 1 .. Len(Columns) /\ Len(Columns) \in Nat
  BY GridAssumption
<1> QED
  BY <1>1, GridAssumption DEF Listing!Lists, ToSet, IsInjective

(* Two lists of one set are as long as each other. *)
LEMMA ListIsAsLong ==
  ASSUME NEW C, NEW s, Listing!Lists(s, C)
  PROVE  IsFiniteSet(C) /\ Cardinality(C) = Len(s)
<1> DEFINE D == 1 .. Len(s)
<1>1. Len(s) \in Nat /\ DOMAIN s = D /\ s \in [D -> C]
  BY DEF Listing!Lists
<1>2. s \in Bijection(D, C)
  BY <1>1 DEF Listing!Lists, Bijection, Injection, IsInjective, Surjection
<1>3. IsFiniteSet(D) /\ Cardinality(D) = Len(s)
  BY <1>1, FS_Interval
<1>4. ExistsBijection(D, C)
  BY <1>2 DEF ExistsBijection
<1> QED
  BY <1>3, <1>4, FS_Bijection

LEMMA ListsAgreeOnLength ==
  ASSUME NEW C, NEW s, Listing!Lists(s, C), NEW t, Listing!Lists(t, C)
  PROVE  Len(s) = Len(t)
BY ListIsAsLong

LEMMA ListHasItsSet ==
  ASSUME NEW C, NEW s, Listing!Lists(s, C)
  PROVE  s \in Seq(C) /\ ToSet(s) = C
<1>1. s \in Seq(C) /\ DOMAIN s = 1 .. Len(s) /\ \A n \in 1 .. Len(s) : s[n] \in C
  BY DEF Listing!Lists
<1> QED
  BY <1>1 DEF Listing!Lists, ToSet

(* Where a listed column is found. *)
LEMMA ColumnIsFound ==
  ASSUME NEW C, NEW order, Listing!Lists(order, C), NEW target \in C
  PROVE  LET i == ColumnIndex(order, target)
         IN  i \in 1 .. Len(order) /\ order[i] = target
<1> DEFINE places == {i \in 1 .. Len(order) : order[i] = target}
<1>1. PICK i \in 1 .. Len(order) : order[i] = target
  BY DEF Listing!Lists
<1>2. places = {i}
  BY <1>1 DEF Listing!Lists
<1>3. Min(places) = i
  BY <1>2 DEF Min
<1>4. ColumnIndex(order, target) = i
  BY <1>2, <1>3 DEF ColumnIndex, SelectInSeq
<1> QED
  BY <1>1, <1>4

(* Another position lists another column. *)
LEMMA NeighbourIsAnother ==
  ASSUME NEW C, NEW order, Listing!Lists(order, C), NEW i \in 1 .. Len(order),
         NEW j \in 1 .. Len(order), j # i
  PROVE  order[j] \in C /\ order[j] # order[i]
<1>1. order \in Seq(C) /\ \A m, n \in 1 .. Len(order) : order[m] = order[n] => m = n
  BY DEF Listing!Lists
<1>2. order[j] \in C
  BY <1>1
<1> QED
  BY <1>1, <1>2

(* A column that is moved before another one leaves every column once. *)
LEMMA ReorderListsColumns ==
  ASSUME NEW C, NEW order, Listing!Lists(order, C), NEW moved \in C, NEW target \in C,
         target # moved
  PROVE  Listing!Lists(ReorderColumns(order, moved, target), C)
<1> DEFINE withoutMoved == Listing!Kept(order, ToSet(order) \ {moved})
<1>1. ToSet(order) = C
  BY ListHasItsSet
<1>2. PICK rest : rest = withoutMoved
  OBVIOUS
<1>3. PICK others : others = C \ {moved}
  OBVIOUS
<1>4. C \cap (ToSet(order) \ {moved}) = others
  BY <1>1, <1>3
<1>5. Listing!Lists(rest, others)
  <2>1. Listing!Lists(Listing!Kept(order, others), C \cap others)
    BY Listing!KeptLists
  <2> QED
    BY <1>1, <1>2, <1>3, <2>1
<1>6. PICK i : i = ColumnIndex(rest, target)
  OBVIOUS
<1>7. i \in 1 .. Len(rest)
  BY <1>3, <1>5, <1>6, ColumnIsFound
<1>8. Listing!Lists(Listing!Inserted(rest, i, moved), others \cup {moved})
  BY <1>3, <1>5, <1>7, Listing!InsertLists
<1>9. ReorderColumns(order, moved, target) = Listing!Inserted(rest, i, moved)
  BY <1>2, <1>6 DEF ReorderColumns, InsertAt, Listing!Inserted
<1>10. others \cup {moved} = C
  BY <1>3
<1> QED
  BY <1>8, <1>9, <1>10

(* Whatever is saved is the preferences as they are now. *)
LEMMA SaveKeepsColumns ==
  ASSUME SaveAndReturn, ColumnTypeOK'
  PROVE  ColumnsInv'
BY DEF SaveAndReturn, ColumnsInv

LEMMA StoreKeepsColumns ==
  ASSUME ColumnsInv, NEW moved \in ToSet(Columns), NEW target \in ToSet(Columns),
         target # moved, SetSequenceColumnOrder(ReorderColumns(columnOrder, moved, target)),
         UNCHANGED <<draggedColumn, resized>>
  PROVE  ColumnsInv'
<1>1. Listing!Lists(ReorderColumns(columnOrder, moved, target), ToSet(Columns))
  BY ReorderListsColumns DEF ColumnsInv, ColumnTypeOK
<1> QED
  BY <1>1, SaveKeepsColumns DEF ColumnsInv, ColumnTypeOK, SetSequenceColumnOrder

LEMMA SizeKeepsColumns ==
  ASSUME ColumnsInv, NEW column \in ToSet(Columns), NEW width \in Sizes \cup {NoColumn},
         SetSequenceColumnWidths([columnWidths EXCEPT ![column] = width]),
         UNCHANGED <<draggedColumn, resized>>
  PROVE  ColumnsInv'
BY SaveKeepsColumns DEF ColumnsInv, ColumnTypeOK, SetSequenceColumnWidths

(* What is stored is a record, and none of its parts is refused unless a   *)
(* size is nothing.                                                        *)
LEMMA StoredIsTakenBack ==
  ASSUME ColumnTypeOK, stored = Preferences
  PROVE  /\ stored # NoColumn
         /\ HasSizes => IsStoredDisplayPreferences(stored)
<1>1. columnOrder \in Seq(ToSet(Columns)) /\ ToSet(columnOrder) = ToSet(Columns)
  BY ListHasItsSet DEF ColumnTypeOK
<1>2. Len(columnOrder) = Len(Columns)
  BY ColumnsAreListed, ListsAgreeOnLength DEF ColumnTypeOK
<1>3. stored # NoColumn
  <2>1. WorkspaceView \in {"sequence", "other"}
    BY DEF WorkspaceView
  <2> QED
    BY <1>1, <2>1, GridAssumption DEF ColumnTypeOK, Preferences
<1>4. HasSizes => IsStoredDisplayPreferences(stored)
  BY <1>1, <1>2 DEF Preferences, HasSizes, IsStoredDisplayPreferences, IsColumnOrder
<1> QED
  BY <1>3, <1>4

LEMMA ReloadKeepsColumns ==
  ASSUME ColumnsInv, Reload
  PROVE  ColumnsInv'
<1>1. WorkspaceView \in {"sequence", "other"}
  BY DEF WorkspaceView
<1>2. ColumnTypeOK
  BY DEF ColumnsInv
<1>3. LoadDisplayPreferences.view \in {"sequence", "other"}
  BY <1>1 DEF ColumnsInv, NothingIsTakenBack, LoadDisplayPreferences, Preferences, DefaultPreferences
<1>4. WorkspaceView' = LoadDisplayPreferences.view
  BY <1>3 DEF Reload, WorkspaceView
<1>5. CASE LoadDisplayPreferences = Preferences
  <2>1. UNCHANGED <<columnOrder, columnWidths, paneLayout, stored>> /\ WorkspaceView' = WorkspaceView
    BY <1>4, <1>5 DEF Reload, Preferences
  <2>2. ColumnTypeOK'
    BY <1>2, <2>1 DEF Reload, ColumnTypeOK
  <2>3. Preferences' = Preferences
    BY <2>1 DEF Preferences
  <2> QED
    BY <2>1, <2>2, <2>3 DEF ColumnsInv, NothingIsTakenBack, IsStoredDisplayPreferences
<1>6. CASE /\ LoadDisplayPreferences = DefaultPreferences
           /\ stored = NoColumn \/ ~IsStoredDisplayPreferences(stored)
  <2>1. /\ columnOrder' = Columns /\ columnWidths' = DefaultPreferences.widths /\ paneLayout' = 44
        /\ WorkspaceView' = "other" /\ stored' = stored
        /\ draggedColumn' = NoColumn /\ resized' = NoColumn
    BY <1>4, <1>6 DEF Reload, DefaultPreferences
  <2>2. Preferences' = DefaultPreferences
    BY <2>1 DEF Preferences, DefaultPreferences
  <2>3. ColumnTypeOK'
    BY <2>1, ColumnsAreListed, GridAssumption DEF ColumnTypeOK, DefaultPreferences
  <2> QED
    BY <1>6, <2>1, <2>2, <2>3 DEF ColumnsInv, NothingIsTakenBack, IsStoredDisplayPreferences
<1> QED
  BY <1>5, <1>6 DEF ColumnsInv, NothingIsTakenBack, LoadDisplayPreferences

LEMMA ColumnsInvNext == ColumnsInv /\ [GridNext]_gridVars => ColumnsInv'
<1> SUFFICES ASSUME ColumnsInv, [GridNext]_gridVars PROVE ColumnsInv'
  OBVIOUS
<1>1. CASE /\ UNCHANGED <<preferenceVars, shown>>
           /\ draggedColumn' \in ToSet(Columns) \cup {NoColumn}
           /\ resized' \in ToSet(Columns) \cup {NoColumn}
  <2>1. UNCHANGED <<columnOrder, columnWidths, paneLayout, stored, shown>>
    BY <1>1 DEF preferenceVars
  <2>2. Preferences' = Preferences
    BY <2>1 DEF Preferences, WorkspaceView
  <2>3. ColumnTypeOK'
    BY <1>1, <2>1 DEF ColumnsInv, ColumnTypeOK
  <2> QED
    BY <2>1, <2>2, <2>3 DEF ColumnsInv, NothingIsTakenBack, IsStoredDisplayPreferences
<1>2. ASSUME NEW count \in 0 .. MaxEntries, NEW visible \in BOOLEAN, RenderGrid(count, visible)
      PROVE  ColumnsInv'
  <2>1. /\ UNCHANGED <<columnOrder, columnWidths, paneLayout, resized>>
        /\ draggedColumn' \in {draggedColumn, NoColumn}
    BY <1>2 DEF RenderGrid
  <2>2. ColumnTypeOK'
    BY <2>1 DEF ColumnsInv, ColumnTypeOK
  <2>3. CASE visible # shown
    BY <1>2, <2>2, <2>3, SaveKeepsColumns DEF RenderGrid
  <2>4. CASE visible = shown
    <3>1. UNCHANGED <<preferenceVars, shown>>
      BY <1>2, <2>1, <2>4 DEF RenderGrid, preferenceVars
    <3> QED
      BY <1>1, <2>2, <3>1 DEF ColumnTypeOK
  <2> QED
    BY <2>3, <2>4
<1>3. CASE \/ \E top \in 0 .. EndOf(entries) : Scroll(top) \/ Wheel(top)
           \/ \E index \in 1 .. entries : FocusRow(index)
           \/ OnScroll \/ OnFrame \/ ResumeLive \/ UNCHANGED gridVars
  <2>1. UNCHANGED columnVars /\ UNCHANGED shown
    BY <1>3 DEF Scroll, Wheel, FocusRow, MoveTo, OnScroll, OnFrame, UpdateLiveEdge, ResumeLive,
       gridVars, edgeVars
  <2> QED
    BY <1>1, <2>1 DEF columnVars, ColumnsInv, ColumnTypeOK
<1>4. CASE DragEnd \/ EndResize
  BY <1>1, <1>4 DEF DragEnd, EndResize, edgeVars, ColumnsInv, ColumnTypeOK
<1>5. ASSUME NEW column \in ToSet(Columns),
             DragStart(column) \/ ToggleSort(column) \/ StartResize(column)
      PROVE  ColumnsInv'
  BY <1>1, <1>5 DEF DragStart, ToggleSort, StartResize, ColumnStep, GridStep, edgeVars, ColumnsInv,
     ColumnTypeOK
<1>6. ASSUME NEW column \in ToSet(Columns), Drop(column) PROVE ColumnsInv'
  <2>1. draggedColumn \in ToSet(Columns) /\ column # draggedColumn
    BY <1>6 DEF Drop, ColumnsInv, ColumnTypeOK
  <2> QED
    BY <1>6, <2>1, StoreKeepsColumns DEF Drop
<1>7. ASSUME NEW column \in ToSet(Columns), NEW step \in {-1, 1},
             MoveColumnWithKeyboard(column, step)
      PROVE  ColumnsInv'
  <2>1. PICK i : i = ColumnIndex(columnOrder, column)
    OBVIOUS
  <2>2. i \in 1 .. Len(columnOrder) /\ columnOrder[i] = column
    BY <2>1, ColumnIsFound DEF ColumnsInv, ColumnTypeOK
  <2>3. PICK j : j = i + step
    OBVIOUS
  <2>4. Len(columnOrder) \in Nat /\ DOMAIN columnOrder = 1 .. Len(columnOrder)
    BY DEF ColumnsInv, ColumnTypeOK, Listing!Lists
  <2>5. j \in 1 .. Len(columnOrder)
    BY <1>7, <2>1, <2>3, <2>4 DEF MoveColumnWithKeyboard
  <2>6. j # i
    BY <2>2, <2>3, <2>4
  <2>7. columnOrder[j] \in ToSet(Columns) /\ columnOrder[j] # column
    BY <2>2, <2>5, <2>6, NeighbourIsAnother DEF ColumnsInv, ColumnTypeOK
  <2>8. /\ SetSequenceColumnOrder(ReorderColumns(columnOrder, column, columnOrder[j]))
        /\ UNCHANGED <<draggedColumn, resized>>
    BY <1>7, <2>1, <2>3 DEF MoveColumnWithKeyboard
  <2> QED
    BY <2>7, <2>8, StoreKeepsColumns
<1>8. ASSUME NEW column \in ToSet(Columns), ResetSize(column) PROVE ColumnsInv'
  BY <1>8, SizeKeepsColumns DEF ResetSize
<1>9. ASSUME NEW width \in Sizes, MoveResize(width) PROVE ColumnsInv'
  <2>1. resized \in ToSet(Columns)
    BY <1>9 DEF MoveResize, ColumnsInv, ColumnTypeOK
  <2> QED
    BY <1>9, <2>1, SizeKeepsColumns DEF MoveResize
<1>10. ASSUME NEW width \in Sizes, SetPaneLayout(width) PROVE ColumnsInv'
  BY <1>10, SaveKeepsColumns DEF SetPaneLayout, ColumnsInv, ColumnTypeOK
<1>11. CASE SetTheme
  BY <1>11, SaveKeepsColumns DEF SetTheme, ColumnsInv, ColumnTypeOK
<1>12. CASE Reload
  BY <1>12, ReloadKeepsColumns
<1> QED
  BY <1>2, <1>3, <1>4, <1>5, <1>6, <1>7, <1>8, <1>9, <1>10, <1>11, <1>12 DEF GridNext

(***************************************************************************)
(* A reload shows the columns in the order and the widths that they have   *)
(* now, and the panes and the view with them, unless a column or a pane    *)
(* has a size of nothing: drops and arrow keys leave every column once in  *)
(* the order, whatever they do a positive size is never refused, and what  *)
(* a reload refused is not what the page then shows.                       *)
(***************************************************************************)
THEOREM ReloadCorrect == GridSpec => []ReloadKeepsTheColumns
<1>1. GridInit => ColumnsInv
  BY ColumnsAreListed, GridAssumption
  DEF GridInit, ColumnsInv, ColumnTypeOK, NothingIsTakenBack, Preferences, DefaultPreferences,
      WorkspaceView
<1>2. ColumnsInv => ReloadKeepsTheColumns
  BY StoredIsTakenBack
  DEF ColumnsInv, NothingIsTakenBack, ReloadKeepsTheColumns, LoadDisplayPreferences
<1> QED
  BY <1>1, <1>2, ColumnsInvNext, PTL DEF GridSpec

---------------------------------------------------------------------------------------
(* The form of a replay draft. *)
FormSpec == FormInit /\ [][FormNext]_formVars

---------------------------------------------------------------------------------------
(* Sequences of rows. *)

IsRows(s) == s \in Seq(ToSet(s))

LEMMA RowsAreRows ==
  ASSUME NEW X, NEW s \in Seq(X)
  PROVE  IsRows(s) /\ ToSet(s) \subseteq X
<1>1. Len(s) \in Nat /\ DOMAIN s = 1 .. Len(s) /\ \A i \in 1 .. Len(s) : s[i] \in X
  OBVIOUS
<1> QED
  BY <1>1, SeqDef DEF IsRows, ToSet

LEMMA MappedRows ==
  ASSUME NEW s, Len(s) \in Nat, DOMAIN s = 1 .. Len(s), NEW t, DOMAIN t = 1 .. Len(s),
         t = [i \in DOMAIN t |-> t[i]]
  PROVE  IsRows(t) /\ Len(t) = Len(s) /\ ToSet(t) = {t[i] : i \in 1 .. Len(s)}
<1> DEFINE X == {t[i] : i \in 1 .. Len(s)}
<1>1. t \in [1 .. Len(s) -> X]
  OBVIOUS
<1>2. t \in Seq(X)
  BY <1>1, SeqDef
<1>3. ToSet(t) = X
  BY DEF ToSet
<1>4. Len(t) = Len(s)
  <2> HIDE DEF X
  <2> QED
    BY <1>2
<1> QED
  BY <1>2, <1>3, <1>4 DEF IsRows

LEMMA AppendedRows ==
  ASSUME NEW s, IsRows(s), NEW x
  PROVE  IsRows(Append(s, x)) /\ ToSet(Append(s, x)) \subseteq ToSet(s) \cup {x}
<1> PICK X : X = ToSet(s) \cup {x}
  OBVIOUS
<1>1. ToSet(s) \subseteq X /\ x \in X
  OBVIOUS
<1>2. s \in Seq(X)
  <2>1. Len(s) \in Nat /\ DOMAIN s = 1 .. Len(s) /\ \A i \in 1 .. Len(s) : s[i] \in ToSet(s)
    BY DEF IsRows
  <2>2. s = [i \in 1 .. Len(s) |-> s[i]]
    BY DEF IsRows
  <2> QED
    BY <1>1, <2>1, <2>2
<1>3. Append(s, x) \in Seq(X)
  BY <1>1, <1>2
<1> QED
  BY <1>3, RowsAreRows

LEMMA RemovedRows ==
  ASSUME NEW s, IsRows(s), NEW i \in DOMAIN s
  PROVE  IsRows(RemoveAt(s, i)) /\ ToSet(RemoveAt(s, i)) \subseteq ToSet(s)
<1> PICK X : X = ToSet(s)
  OBVIOUS
<1>1. s \in Seq(X) /\ Len(s) \in Nat /\ i \in 1 .. Len(s)
  BY DEF IsRows
<1>2. SubSeq(s, 1, i - 1) \in Seq(X) /\ SubSeq(s, i + 1, Len(s)) \in Seq(X)
  BY <1>1
<1>3. RemoveAt(s, i) \in Seq(X)
  BY <1>2 DEF RemoveAt
<1> QED
  BY <1>3, RowsAreRows

LEMMA SwappedRows ==
  ASSUME NEW s, IsRows(s), NEW i \in DOMAIN s, NEW j \in DOMAIN s
  PROVE  IsRows(Swapped(s, i, j)) /\ ToSet(Swapped(s, i, j)) \subseteq ToSet(s)
<1> PICK X : X = ToSet(s)
  OBVIOUS
<1>1. s \in Seq(X) /\ s[i] \in X /\ s[j] \in X
  BY DEF IsRows, ToSet
<1>2. Swapped(s, i, j) \in Seq(X)
  BY <1>1 DEF Swapped
<1> QED
  BY <1>2, RowsAreRows

LEMMA ReplacedRows ==
  ASSUME NEW s, IsRows(s), NEW i, NEW x
  PROVE  IsRows([s EXCEPT ![i] = x]) /\ ToSet([s EXCEPT ![i] = x]) \subseteq ToSet(s) \cup {x}
<1> PICK X : X = ToSet(s) \cup {x}
  OBVIOUS
<1> DEFINE t == [s EXCEPT ![i] = x]
<1>1. Len(s) \in Nat /\ DOMAIN s = 1 .. Len(s) /\ \A n \in 1 .. Len(s) : s[n] \in X
  BY DEF IsRows, ToSet
<1>2. t \in [1 .. Len(s) -> X]
  BY <1>1
<1>3. t \in Seq(X)
  BY <1>1, <1>2, SeqDef
<1> QED
  BY <1>3, RowsAreRows

---------------------------------------------------------------------------------------
(* The inductive invariant: every row that names a captured one by its id  *)
(* and that the user has not changed says what was captured.  A row keeps  *)
(* its id wherever it is moved; ids given later are beyond the captured    *)
(* ones; and a raw text that is applied gives new ids to all its rows.     *)

CapturedIds == Len(capture.components) + Len(capture.headers)

QueryRowIsRight(row, changed) ==
  /\ "id" \in DOMAIN row /\ row.id \in Nat
  /\ row.id \in DOMAIN capture.components /\ row.id \notin changed =>
       Serialize(row) = capture.components[row.id]

HeaderRowIsRight(row, changed) ==
  /\ "id" \in DOMAIN row /\ row.id \in Nat
  /\ \A j \in DOMAIN capture.headers :
       row.id = j + Len(capture.components) /\ row.id \notin changed =>
         <<row.name, row.value>> = capture.headers[j]

IsQuery(rows, changed) ==
  IsRows(rows) /\ \A row \in ToSet(rows) : QueryRowIsRight(row, changed)

IsHeaders(rows, changed) ==
  IsRows(rows) /\ \A row \in ToSet(rows) : HeaderRowIsRight(row, changed)

RequestFields == {"method", "base", "protocol", "query", "headers", "body", "bodyUnavailable"}
RawFields == {"method", "query", "headers", "protocol", "body", "separated"}

IsRequest(copy, changed) ==
  /\ DOMAIN copy = RequestFields
  /\ IsQuery(copy.query, changed)
  /\ IsHeaders(copy.headers, changed)

IsRaw(raw) == DOMAIN raw = RawFields /\ IsRows(raw.query) /\ IsRows(raw.headers)

FormInv ==
  /\ capture \in CapturedRequests
  /\ baseline = Baseline(capture)
  /\ IsRequest(working, touched)
  /\ rawText # Nothing => IsRaw(rawText)
  /\ rowIds \in Nat /\ rowIds >= CapturedIds
  /\ ~dirty => working = baseline /\ rawText = Nothing

(* A row taken from the URL and not edited is put back as it was spelled. *)
LEMMA QueryRowRoundTrip ==
  ASSUME NEW id, NEW c \in (DOMAIN Decode) \X ((DOMAIN Decode) \cup {Nothing})
  PROVE  Serialize(QueryRow(id, c)) = c
<1>0. c = <<c[1], c[2]>> /\ c[1] \in DOMAIN Decode /\ c[2] \in (DOMAIN Decode) \cup {Nothing}
  OBVIOUS
<1>1. c[1] # Nothing
  BY <1>0, FormAssumption
<1>2. c[2] # Nothing => DecodedOrNothing(c[2]) # Nothing
  BY <1>0, FormAssumption DEF DecodedOrNothing
<1>3. c[2] = Nothing => DecodedOrNothing(c[2]) = Nothing
  BY DEF DecodedOrNothing
<1>4. Serialize(QueryRow(id, c)) = <<c[1], c[2]>>
  BY <1>1, <1>2, <1>3 DEF Serialize, QueryRow
<1> QED
  BY <1>0, <1>4

(* The rows of the components of a URL, whose ids begin after from. *)
LEMMA QueryRowIds ==
  ASSUME NEW C, IsRows(C), NEW from \in Nat
  PROVE  /\ IsRows(QueryRows(C, from))
         /\ \A row \in ToSet(QueryRows(C, from)) :
              \E i \in 1 .. Len(C) : row = QueryRow(from + i, C[i])
<1>1. Len(C) \in Nat /\ DOMAIN C = 1 .. Len(C)
  BY DEF IsRows
<1>2. PICK rows : rows = QueryRows(C, from)
  OBVIOUS
<1>3. rows = [i \in 1 .. Len(C) |-> QueryRow(from + i, C[i])]
  BY <1>1, <1>2 DEF QueryRows
<1>4. IsRows(rows) /\ ToSet(rows) = {rows[i] : i \in 1 .. Len(C)}
  BY <1>1, <1>3, MappedRows
<1> QED
  BY <1>2, <1>3, <1>4

LEMMA HeaderRowIds ==
  ASSUME NEW H, IsRows(H), NEW from \in Nat
  PROVE  /\ IsRows(HeaderRows(H, from))
         /\ \A row \in ToSet(HeaderRows(H, from)) :
              \E i \in 1 .. Len(H) : row = [id |-> from + i, name |-> H[i][1], value |-> H[i][2]]
<1>1. Len(H) \in Nat /\ DOMAIN H = 1 .. Len(H)
  BY DEF IsRows
<1>2. PICK rows : rows = HeaderRows(H, from)
  OBVIOUS
<1>3. rows = [i \in 1 .. Len(H) |-> [id |-> from + i, name |-> H[i][1], value |-> H[i][2]]]
  BY <1>1, <1>2 DEF HeaderRows
<1>4. IsRows(rows) /\ ToSet(rows) = {rows[i] : i \in 1 .. Len(H)}
  <2>1. DOMAIN rows = 1 .. Len(H) /\ rows = [i \in DOMAIN rows |-> rows[i]]
    BY <1>3
  <2> QED
    BY <1>1, <2>1, MappedRows
<1> QED
  BY <1>2, <1>3, <1>4

LEMMA CapturedParts ==
  ASSUME NEW copy \in CapturedRequests
  PROVE  /\ copy.components \in Seq((DOMAIN Decode) \X ((DOMAIN Decode) \cup {Nothing}))
         /\ copy.headers \in Seq(STRING \X STRING)
         /\ IsRows(copy.components) /\ IsRows(copy.headers)
         /\ Len(copy.components) \in Nat /\ Len(copy.headers) \in Nat
<1>1. /\ copy.components \in Seq((DOMAIN Decode) \X ((DOMAIN Decode) \cup {Nothing}))
      /\ copy.headers \in Seq(STRING \X STRING)
  BY FormAssumption
<1> QED
  BY <1>1, RowsAreRows

LEMMA BaselineIsRequest ==
  ASSUME capture \in CapturedRequests, NEW changed
  PROVE  IsRequest(Baseline(capture), changed)
<1> PICK C : C = capture.components
  OBVIOUS
<1> PICK H : H = capture.headers
  OBVIOUS
<1>1. /\ C \in Seq((DOMAIN Decode) \X ((DOMAIN Decode) \cup {Nothing})) /\ IsRows(C)
      /\ H \in Seq(STRING \X STRING) /\ IsRows(H) /\ Len(C) \in Nat
  BY CapturedParts
<1>2. /\ Baseline(capture).query = QueryRows(C, 0)
      /\ Baseline(capture).headers = HeaderRows(H, Len(C))
      /\ DOMAIN Baseline(capture) = RequestFields
  BY DEF Baseline, RequestFields
<1>3. ASSUME NEW row \in ToSet(QueryRows(C, 0)) PROVE QueryRowIsRight(row, changed)
  <2>1. PICK i \in 1 .. Len(C) : row = QueryRow(0 + i, C[i])
    BY <1>1, QueryRowIds
  <2>2. i \in Nat /\ C[i] \in (DOMAIN Decode) \X ((DOMAIN Decode) \cup {Nothing})
    BY <1>1
  <2>3. Serialize(row) = C[i]
    BY <2>1, <2>2, QueryRowRoundTrip
  <2>4. "id" \in DOMAIN row /\ row.id = i
    BY <2>1, <2>2 DEF QueryRow
  <2> QED
    BY <2>2, <2>3, <2>4 DEF QueryRowIsRight
<1>4. ASSUME NEW row \in ToSet(HeaderRows(H, Len(C))) PROVE HeaderRowIsRight(row, changed)
  <2>1. PICK i \in 1 .. Len(H) :
          row = [id |-> Len(C) + i, name |-> H[i][1], value |-> H[i][2]]
    BY <1>1, HeaderRowIds
  <2>2. /\ "id" \in DOMAIN row /\ row.id = Len(C) + i /\ row.id \in Nat
        /\ row.name = H[i][1] /\ row.value = H[i][2]
    BY <1>1, <2>1
  <2>3. H[i] \in STRING \X STRING
    BY <1>1
  <2>4. <<row.name, row.value>> = H[i]
    BY <2>2, <2>3
  <2>5. \A j \in DOMAIN H : row.id = j + Len(C) => j = i
    BY <1>1, <2>2
  <2> QED
    BY <2>2, <2>4, <2>5 DEF HeaderRowIsRight
<1>5. IsRows(QueryRows(C, 0)) /\ IsRows(HeaderRows(H, Len(C)))
  BY <1>1, QueryRowIds, HeaderRowIds
<1> QED
  BY <1>2, <1>3, <1>4, <1>5 DEF IsRequest, IsQuery, IsHeaders

---------------------------------------------------------------------------------------

LEMMA CapturedIdsType ==
  ASSUME capture \in CapturedRequests
  PROVE  CapturedIds \in Nat
<1>1. PICK a : a = Len(capture.components)
  OBVIOUS
<1>2. PICK b : b = Len(capture.headers)
  OBVIOUS
<1>3. a \in Nat /\ b \in Nat
  BY <1>1, <1>2, CapturedParts
<1>4. CapturedIds = a + b
  BY <1>1, <1>2 DEF CapturedIds
<1> QED
  BY <1>3, <1>4

LEMMA FormInitInv == FormInit => FormInv
<1> SUFFICES ASSUME FormInit PROVE FormInv
  OBVIOUS
<1>1. IsRequest(Baseline(capture), touched)
  BY BaselineIsRequest DEF FormInit
<1>2. capture \in CapturedRequests /\ rowIds = CapturedIds
  BY DEF FormInit, CapturedIds
<1>3. rowIds \in Nat /\ rowIds >= CapturedIds
  BY <1>2, CapturedIdsType
<1>4. baseline = Baseline(capture) /\ working = baseline /\ rawText = Nothing
  BY DEF FormInit
<1> QED
  BY <1>1, <1>2, <1>3, <1>4 DEF FormInv

(* Changes of rows can only make less be asked of them. *)
LEMMA MoreChanged ==
  ASSUME NEW changed, NEW more, changed \subseteq more
  PROVE  /\ \A row : QueryRowIsRight(row, changed) => QueryRowIsRight(row, more)
         /\ \A row : HeaderRowIsRight(row, changed) => HeaderRowIsRight(row, more)
BY DEF QueryRowIsRight, HeaderRowIsRight

LEMMA MoreRowsChanged ==
  ASSUME NEW rows, NEW changed, NEW more, changed \subseteq more
  PROVE  /\ IsQuery(rows, changed) => IsQuery(rows, more)
         /\ IsHeaders(rows, changed) => IsHeaders(rows, more)
BY MoreChanged DEF IsQuery, IsHeaders

(* What remains of the invariant once the request is known to be right. *)
LEMMA WorkingKeepsForm ==
  ASSUME FormInv, NEW next, UNCHANGED <<capture, baseline>>, working' = next,
         rawText' = Nothing, dirty' = (next # baseline),
         IsRequest(next, touched'), rowIds' \in Nat, rowIds' >= rowIds
  PROVE  FormInv'
<1>1. CapturedIds \in Nat /\ rowIds \in Nat /\ rowIds >= CapturedIds
  BY CapturedIdsType DEF FormInv
<1>2. CapturedIds' = CapturedIds
  BY DEF CapturedIds
<1>3. IsRequest(working, touched)'
  BY DEF IsRequest, IsQuery, IsHeaders, QueryRowIsRight, HeaderRowIsRight
<1>4. rowIds' >= CapturedIds'
  BY <1>1, <1>2
<1>5. Baseline(capture)' = Baseline(capture)
  OBVIOUS
<1> QED
  BY <1>3, <1>4, <1>5 DEF FormInv

LEMMA SetKeepsForm ==
  ASSUME FormInv, NEW next, SetWorking(next), IsRequest(next, touched'),
         rowIds' \in Nat, rowIds' >= rowIds
  PROVE  FormInv'
BY WorkingKeepsForm DEF SetWorking

(* And when the request stays. *)
LEMMA RawKeepsForm ==
  ASSUME FormInv, UNCHANGED <<capture, baseline, working, rowIds, touched>>,
         (UNCHANGED <<rawText, dirty>>) \/ (dirty' = TRUE /\ IsRaw(rawText'))
  PROVE  FormInv'
<1>1. IsRequest(working, touched)'
  BY DEF FormInv, IsRequest, IsQuery, IsHeaders, QueryRowIsRight, HeaderRowIsRight
<1>2. CapturedIds' = CapturedIds
  BY DEF CapturedIds
<1>3. (rawText # Nothing => IsRaw(rawText))' /\ (~dirty => working = baseline /\ rawText = Nothing)'
  BY DEF FormInv
<1>4. Baseline(capture)' = Baseline(capture)
  OBVIOUS
<1>5. (rowIds \in Nat /\ rowIds >= CapturedIds)'
  BY <1>2 DEF FormInv
<1> QED
  BY <1>1, <1>3, <1>4, <1>5 DEF FormInv

(* A field of the request that is set leaves its rows alone. *)
LEMMA FieldKeepsForm ==
  ASSUME FormInv, NEW next, SetField(next), DOMAIN next = RequestFields,
         next.query = working.query, next.headers = working.headers
  PROVE  FormInv'
<1>1. IsRequest(next, touched)
  <2>1. PICK copy : copy = working
    OBVIOUS
  <2>2. PICK changed : changed = touched
    OBVIOUS
  <2>3. IsRequest(copy, changed) /\ next.query = copy.query /\ next.headers = copy.headers
    BY <2>1, <2>2 DEF FormInv
  <2>4. IsRequest(next, changed)
    BY <2>3 DEF IsRequest
  <2> QED
    BY <2>2, <2>4
<1>2. SetWorking(next) /\ touched' = touched /\ rowIds' = rowIds /\ rowIds \in Nat
  BY DEF SetField, FormInv
<1> QED
  BY <1>1, <1>2, SetKeepsForm

LEMMA FieldsKeepForm ==
  ASSUME FormInv,
         \/ \E method \in {"", "PUT"} : SetMethod(method)
         \/ SetBase("/relative")
         \/ \E protocol \in {"auto", "http2"} : SetProtocol(protocol)
         \/ \E text \in DOMAIN Encode : UpdateBody(text)
  PROVE  FormInv'
<1>1. DOMAIN working = RequestFields
  BY DEF FormInv, IsRequest
<1>2. ASSUME NEW method, SetMethod(method) PROVE FormInv'
  <2> DEFINE next == [working EXCEPT !.method = method]
  <2>1. SetField(next)
    BY <1>2 DEF SetMethod
  <2>2. DOMAIN next = RequestFields /\ next.query = working.query /\ next.headers = working.headers
    BY <1>1 DEF RequestFields
  <2> HIDE DEF next
  <2> QED
    BY <2>1, <2>2, FieldKeepsForm
<1>3. ASSUME SetBase("/relative") PROVE FormInv'
  <2> DEFINE next == [working EXCEPT !.base = "/relative"]
  <2>1. SetField(next)
    BY <1>3 DEF SetBase
  <2>2. DOMAIN next = RequestFields /\ next.query = working.query /\ next.headers = working.headers
    BY <1>1 DEF RequestFields
  <2> HIDE DEF next
  <2> QED
    BY <2>1, <2>2, FieldKeepsForm
<1>4. ASSUME NEW protocol, SetProtocol(protocol) PROVE FormInv'
  <2> DEFINE next == [working EXCEPT !.protocol = protocol]
  <2>1. SetField(next)
    BY <1>4 DEF SetProtocol
  <2>2. DOMAIN next = RequestFields /\ next.query = working.query /\ next.headers = working.headers
    BY <1>1 DEF RequestFields
  <2> HIDE DEF next
  <2> QED
    BY <2>1, <2>2, FieldKeepsForm
<1>5. ASSUME NEW text, UpdateBody(text) PROVE FormInv'
  <2> DEFINE next == [working EXCEPT !.body = [kind |-> "text", value |-> text],
                                     !.bodyUnavailable = FALSE]
  <2>1. SetField(next)
    BY <1>5 DEF UpdateBody
  <2>2. DOMAIN next = RequestFields /\ next.query = working.query /\ next.headers = working.headers
    BY <1>1 DEF RequestFields
  <2> HIDE DEF next
  <2> QED
    BY <2>1, <2>2, FieldKeepsForm
<1> QED
  BY <1>2, <1>3, <1>4, <1>5

(* Rows that are set. *)
LEMMA QueryRowsKeepForm ==
  ASSUME FormInv, NEW rows, NEW changedIds, NEW newIds \in {0, 1},
         SetRows("query", rows, changedIds, newIds), IsQuery(rows, touched \cup changedIds)
  PROVE  FormInv'
<1>1. PICK next : next = [working EXCEPT !["query"] = rows]
  OBVIOUS
<1>2. SetWorking(next) /\ touched' = touched \cup changedIds /\ rowIds' = rowIds + newIds
  BY <1>1 DEF SetRows
<1>3. IsRequest(working, touched) /\ rowIds \in Nat
  BY DEF FormInv
<1>4. PICK more : more = touched \cup changedIds
  OBVIOUS
<1>5. IsHeaders(working.headers, more)
  <2>1. PICK others : others = working.headers
    OBVIOUS
  <2>2. PICK changed : changed = touched
    OBVIOUS
  <2>3. IsHeaders(others, changed) /\ changed \subseteq more
    BY <1>3, <1>4, <2>1, <2>2 DEF IsRequest
  <2> QED
    BY <2>1, <2>3, MoreRowsChanged
<1>6. IsRequest(next, more)
  <2>1. /\ DOMAIN next = RequestFields /\ next.query = rows
        /\ next.headers = working.headers
    BY <1>1, <1>3 DEF IsRequest, RequestFields
  <2>2. IsQuery(rows, more)
    BY <1>4
  <2> QED
    BY <1>5, <2>1, <2>2 DEF IsRequest
<1>7. IsRequest(next, touched')
  BY <1>2, <1>4, <1>6
<1>8. rowIds' \in Nat /\ rowIds' >= rowIds
  BY <1>2, <1>3
<1> QED
  BY <1>2, <1>7, <1>8, SetKeepsForm

LEMMA HeaderRowsKeepForm ==
  ASSUME FormInv, NEW rows, NEW changedIds, NEW newIds \in {0, 1},
         SetRows("headers", rows, changedIds, newIds), IsHeaders(rows, touched \cup changedIds)
  PROVE  FormInv'
<1>1. PICK next : next = [working EXCEPT !["headers"] = rows]
  OBVIOUS
<1>2. SetWorking(next) /\ touched' = touched \cup changedIds /\ rowIds' = rowIds + newIds
  BY <1>1 DEF SetRows
<1>3. IsRequest(working, touched) /\ rowIds \in Nat
  BY DEF FormInv
<1>4. PICK more : more = touched \cup changedIds
  OBVIOUS
<1>5. IsQuery(working.query, more)
  <2>1. PICK others : others = working.query
    OBVIOUS
  <2>2. PICK changed : changed = touched
    OBVIOUS
  <2>3. IsQuery(others, changed) /\ changed \subseteq more
    BY <1>3, <1>4, <2>1, <2>2 DEF IsRequest
  <2> QED
    BY <2>1, <2>3, MoreRowsChanged
<1>6. IsRequest(next, more)
  <2>1. /\ DOMAIN next = RequestFields /\ next.headers = rows
        /\ next.query = working.query
    BY <1>1, <1>3 DEF IsRequest, RequestFields
  <2>2. IsHeaders(rows, more)
    BY <1>4
  <2> QED
    BY <1>5, <2>1, <2>2 DEF IsRequest
<1>7. IsRequest(next, touched')
  BY <1>2, <1>4, <1>6
<1>8. rowIds' \in Nat /\ rowIds' >= rowIds
  BY <1>2, <1>3
<1> QED
  BY <1>2, <1>7, <1>8, SetKeepsForm

(* Rows of which each is one of the old rows, or this one. *)
LEMMA RowsAreRight ==
  ASSUME NEW rows, IsRows(rows), NEW old, NEW row, ToSet(rows) \subseteq ToSet(old) \cup {row},
         NEW changed
  PROVE  /\ IsQuery(old, changed) /\ QueryRowIsRight(row, changed) => IsQuery(rows, changed)
         /\ IsHeaders(old, changed) /\ HeaderRowIsRight(row, changed) => IsHeaders(rows, changed)
<1>1. \A r \in ToSet(rows) : r \in ToSet(old) \/ r = row
  OBVIOUS
<1> QED
  BY <1>1 DEF IsQuery, IsHeaders

LEMMA FewerRowsAreRight ==
  ASSUME NEW rows, IsRows(rows), NEW old, ToSet(rows) \subseteq ToSet(old), NEW changed
  PROVE  /\ IsQuery(old, changed) => IsQuery(rows, changed)
         /\ IsHeaders(old, changed) => IsHeaders(rows, changed)
BY DEF IsQuery, IsHeaders

(* An id given later names no captured row. *)
LEMMA LaterIdsAreFresh ==
  ASSUME FormInv, NEW row, NEW changed, "id" \in DOMAIN row, row.id \in Nat, row.id > rowIds
  PROVE  QueryRowIsRight(row, changed) /\ HeaderRowIsRight(row, changed)
<1>1. PICK a : a = Len(capture.components)
  OBVIOUS
<1>2. PICK b : b = Len(capture.headers)
  OBVIOUS
<1>3. a \in Nat /\ b \in Nat /\ DOMAIN capture.components = 1 .. a /\ DOMAIN capture.headers = 1 .. b
  <2>1. capture.components \in Seq((DOMAIN Decode) \X ((DOMAIN Decode) \cup {Nothing}))
        /\ capture.headers \in Seq(STRING \X STRING)
    BY CapturedParts DEF FormInv
  <2> QED
    BY <1>1, <1>2, <2>1
<1>4. row.id > a + b
  <2>1. rowIds >= a + b /\ rowIds \in Nat
    BY <1>1, <1>2 DEF FormInv, CapturedIds
  <2> QED
    BY <1>3, <2>1
<1>5. row.id \notin 1 .. a /\ \A j \in 1 .. b : row.id # j + a
  BY <1>3, <1>4
<1> QED
  BY <1>1, <1>3, <1>5 DEF QueryRowIsRight, HeaderRowIsRight

(* A changed row keeps its id, which is one of the changed ones. *)
LEMMA ChangedRowIsRight ==
  ASSUME NEW row, NEW changed, "id" \in DOMAIN row, row.id \in Nat, row.id \in changed
  PROVE  QueryRowIsRight(row, changed) /\ HeaderRowIsRight(row, changed)
BY DEF QueryRowIsRight, HeaderRowIsRight


(* The parameters of the URL. *)
LEMMA ParametersKeepForm ==
  ASSUME FormInv,
         \/ AddParameter
         \/ \E i \in Positions, field \in {"name", "value"}, text \in DOMAIN Encode \cup {Nothing} :
              UpdateParameter(i, field, text)
         \/ \E i \in Positions : RemoveParameter(i) \/ \E offset \in {-1, 1} : MoveParameter(i, offset)
  PROVE  FormInv'
<1>1. PICK old : old = working.query
  OBVIOUS
<1>2. PICK changed : changed = touched
  OBVIOUS
<1>3. IsRows(old) /\ IsQuery(old, changed)
  BY <1>1, <1>2 DEF FormInv, IsRequest, IsQuery
<1>4. rowIds \in Nat
  BY DEF FormInv
<1>5. CASE AddParameter
  <2>1. PICK row : row = NewQueryRow(rowIds + 1)
    OBVIOUS
  <2>2. "id" \in DOMAIN row /\ row.id \in Nat /\ row.id > rowIds
    <3>1. "id" \in DOMAIN row /\ row.id = rowIds + 1
      BY <2>1 DEF NewQueryRow
    <3> QED
      BY <1>4, <3>1
  <2>3. PICK changedIds : changedIds = {rowIds + 1}
    OBVIOUS
  <2>4. QueryRowIsRight(row, touched \cup changedIds)
    BY <2>2, LaterIdsAreFresh
  <2>5. PICK rows : rows = Append(old, row)
    OBVIOUS
  <2>6. SetRows("query", rows, changedIds, 1)
    BY <1>1, <1>5, <2>1, <2>3, <2>5 DEF AddParameter
  <2>7. IsRows(rows) /\ ToSet(rows) \subseteq ToSet(old) \cup {row}
    BY <1>1, <1>3, <2>5, AppendedRows
  <2>8. PICK more : more = touched \cup changedIds
    OBVIOUS
  <2>9. IsQuery(old, more) /\ QueryRowIsRight(row, more)
    BY <1>2, <1>3, <2>4, <2>8, MoreRowsChanged
  <2>10. IsQuery(rows, touched \cup changedIds)
    BY <2>7, <2>8, <2>9, RowsAreRight
  <2> QED
    BY <2>6, <2>10, QueryRowsKeepForm
<1>6. ASSUME NEW i, NEW field \in {"name", "value"}, NEW text, UpdateParameter(i, field, text)
      PROVE  FormInv'
  <2>1. i \in DOMAIN old
    BY <1>1, <1>6 DEF UpdateParameter
  <2>2. PICK was : was = old[i]
    OBVIOUS
  <2>3. "id" \in DOMAIN was /\ was.id \in Nat
    BY <1>3, <2>1, <2>2 DEF IsQuery, QueryRowIsRight, ToSet
  <2>4. PICK row : row = [was EXCEPT ![field] = text, !.edited = TRUE]
    OBVIOUS
  <2>5. PICK changedIds : changedIds = {was.id}
    OBVIOUS
  <2>6. "id" \in DOMAIN row /\ row.id = was.id
    BY <1>6, <2>3, <2>4
  <2>7. QueryRowIsRight(row, touched \cup changedIds)
    BY <2>3, <2>5, <2>6, ChangedRowIsRight
  <2>8. PICK rows : rows = [old EXCEPT ![i] = row]
    OBVIOUS
  <2>9. rows = [working.query EXCEPT ![i] = [@ EXCEPT ![field] = text, !.edited = TRUE]]
    BY <1>1, <2>1, <2>2, <2>4, <2>8
  <2>10. SetRows("query", rows, changedIds, 0)
    BY <1>1, <1>6, <2>2, <2>5, <2>9 DEF UpdateParameter
  <2>11. IsRows(rows) /\ ToSet(rows) \subseteq ToSet(old) \cup {row}
    BY <1>1, <1>3, <2>8, ReplacedRows
  <2>12. PICK more : more = touched \cup changedIds
    OBVIOUS
  <2>13. IsQuery(old, more) /\ QueryRowIsRight(row, more)
    BY <1>2, <1>3, <2>7, <2>12, MoreRowsChanged
  <2>14. IsQuery(rows, touched \cup changedIds)
    BY <2>11, <2>12, <2>13, RowsAreRight
  <2> QED
    BY <2>10, <2>14, QueryRowsKeepForm
<1>7. ASSUME NEW i \in Positions, NEW offset \in {-1, 1}, MoveParameter(i, offset)
      PROVE  FormInv'
  <2>1. i \in DOMAIN old /\ i + offset \in DOMAIN old
    BY <1>1, <1>7 DEF MoveParameter
  <2>2. PICK rows : rows = Swapped(old, i, i + offset)
    OBVIOUS
  <2>3. SetRows("query", rows, {}, 0)
    BY <1>1, <1>7, <2>2 DEF MoveParameter
  <2>4. IsRows(rows) /\ ToSet(rows) \subseteq ToSet(old)
    BY <1>1, <1>3, <2>1, <2>2, SwappedRows
  <2>5. IsQuery(rows, changed)
    BY <1>3, <2>4, FewerRowsAreRight
  <2>6. IsQuery(rows, touched \cup {})
    <3>1. touched \cup {} = changed
      BY <1>2
    <3> QED
      BY <2>5, <3>1
  <2> QED
    BY <2>3, <2>6, QueryRowsKeepForm
<1>8. ASSUME NEW i, RemoveParameter(i)
      PROVE  FormInv'
  <2>1. i \in DOMAIN old
    BY <1>1, <1>8 DEF RemoveParameter
  <2>2. PICK rows : rows = RemoveAt(old, i)
    OBVIOUS
  <2>3. SetRows("query", rows, {}, 0)
    BY <1>1, <1>8, <2>2 DEF RemoveParameter
  <2>4. IsRows(rows) /\ ToSet(rows) \subseteq ToSet(old)
    BY <1>1, <1>3, <2>1, <2>2, RemovedRows
  <2>5. IsQuery(rows, changed)
    BY <1>3, <2>4, FewerRowsAreRight
  <2>6. IsQuery(rows, touched \cup {})
    <3>1. touched \cup {} = changed
      BY <1>2
    <3> QED
      BY <2>5, <3>1
  <2> QED
    BY <2>3, <2>6, QueryRowsKeepForm
<1> QED
  BY <1>5, <1>6, <1>7, <1>8

(* A position of the view shows a row of the headers. *)
LEMMA ShownIsAHeader ==
  ASSUME FormInv, NEW position \in DOMAIN Shown
  PROVE  Shown[position] \in DOMAIN working.headers
<1>1. PICK n : n = Len(working.headers)
  OBVIOUS
<1>2. n \in Nat /\ DOMAIN working.headers = 1 .. n
  BY <1>1 DEF FormInv, IsRequest, IsRows
<1>3. PICK indices : indices = [i \in DOMAIN working.headers |-> i]
  OBVIOUS
<1>4. indices \in Seq(1 .. n)
  BY <1>2, <1>3
<1>5. PICK visible : visible = {i \in DOMAIN working.headers :
                         mode # "authentication" \/ working.headers[i].name \in AuthenticationNames}
  OBVIOUS
<1>6. Shown = Showing!Kept(indices, visible)
  BY <1>3, <1>5 DEF Shown
<1> QED
  BY <1>2, <1>4, <1>6, Showing!KeptInOrder

(* The headers. *)
LEMMA HeadersKeepForm ==
  ASSUME FormInv,
         \/ AddHeader
         \/ \E position \in Positions, field \in {"name", "value"}, text \in DOMAIN Encode :
              UpdateHeader(position, field, text)
         \/ \E position \in Positions :
              RemoveHeader(position) \/ \E offset \in {-1, 1} : MoveHeader(position, offset)
  PROVE  FormInv'
<1>1. PICK old : old = working.headers
  OBVIOUS
<1>2. PICK changed : changed = touched
  OBVIOUS
<1>3. IsRows(old) /\ IsHeaders(old, changed)
  BY <1>1, <1>2 DEF FormInv, IsRequest, IsHeaders
<1>4. rowIds \in Nat /\ DOMAIN old = 1 .. Len(old) /\ Len(old) \in Nat
  BY <1>3 DEF FormInv, IsRows
<1>5. CASE AddHeader
  <2>1. PICK row : row = [id |-> rowIds + 1,
                          name |-> IF mode = "authentication" THEN "Authorization" ELSE "",
                          value |-> ""]
    OBVIOUS
  <2>2. "id" \in DOMAIN row /\ row.id \in Nat /\ row.id > rowIds
    <3>1. "id" \in DOMAIN row /\ row.id = rowIds + 1
      BY <2>1
    <3> QED
      BY <1>4, <3>1
  <2>3. PICK changedIds : changedIds = {rowIds + 1}
    OBVIOUS
  <2>4. HeaderRowIsRight(row, touched \cup changedIds)
    BY <2>2, LaterIdsAreFresh
  <2>5. PICK rows : rows = Append(old, row)
    OBVIOUS
  <2>6. SetRows("headers", rows, changedIds, 1)
    BY <1>1, <1>5, <2>1, <2>3, <2>5 DEF AddHeader
  <2>7. IsRows(rows) /\ ToSet(rows) \subseteq ToSet(old) \cup {row}
    BY <1>1, <1>3, <2>5, AppendedRows
  <2>8. PICK more : more = touched \cup changedIds
    OBVIOUS
  <2>9. IsHeaders(old, more) /\ HeaderRowIsRight(row, more)
    BY <1>2, <1>3, <2>4, <2>8, MoreRowsChanged
  <2>10. IsHeaders(rows, touched \cup changedIds)
    BY <2>7, <2>8, <2>9, RowsAreRight
  <2> QED
    BY <2>6, <2>10, HeaderRowsKeepForm
<1>6. ASSUME NEW position, NEW field \in {"name", "value"}, NEW text,
             UpdateHeader(position, field, text)
      PROVE  FormInv'
  <2>1. PICK i : i = Shown[position]
    OBVIOUS
  <2>2. i \in DOMAIN old
    BY <1>1, <1>6, <2>1, ShownIsAHeader DEF UpdateHeader
  <2>3. PICK was : was = old[i]
    OBVIOUS
  <2>4. "id" \in DOMAIN was /\ was.id \in Nat
    BY <1>3, <2>2, <2>3 DEF IsHeaders, HeaderRowIsRight, ToSet
  <2>5. PICK row : row = [was EXCEPT ![field] = text]
    OBVIOUS
  <2>6. PICK changedIds : changedIds = {was.id}
    OBVIOUS
  <2>7. "id" \in DOMAIN row /\ row.id = was.id
    BY <1>6, <2>4, <2>5
  <2>8. HeaderRowIsRight(row, touched \cup changedIds)
    BY <2>4, <2>6, <2>7, ChangedRowIsRight
  <2>9. PICK rows : rows = [old EXCEPT ![i] = row]
    OBVIOUS
  <2>10. rows = [working.headers EXCEPT ![i] = [@ EXCEPT ![field] = text]]
    BY <1>1, <2>2, <2>3, <2>5, <2>9
  <2>11. SetRows("headers", rows, changedIds, 0)
    BY <1>1, <1>6, <2>1, <2>3, <2>6, <2>10 DEF UpdateHeader, HeaderIndex
  <2>12. IsRows(rows) /\ ToSet(rows) \subseteq ToSet(old) \cup {row}
    BY <1>1, <1>3, <2>9, ReplacedRows
  <2>13. PICK more : more = touched \cup changedIds
    OBVIOUS
  <2>14. IsHeaders(old, more) /\ HeaderRowIsRight(row, more)
    BY <1>2, <1>3, <2>8, <2>13, MoreRowsChanged
  <2>15. IsHeaders(rows, touched \cup changedIds)
    BY <2>12, <2>13, <2>14, RowsAreRight
  <2> QED
    BY <2>11, <2>15, HeaderRowsKeepForm
<1>7. ASSUME NEW position, NEW offset \in {-1, 1}, MoveHeader(position, offset)
      PROVE  FormInv'
  <2>1. PICK i : i = Shown[position]
    OBVIOUS
  <2>2. i \in DOMAIN old
    BY <1>1, <1>7, <2>1, ShownIsAHeader DEF MoveHeader
  <2>3. i + offset \in DOMAIN old
    BY <1>1, <1>7, <2>1 DEF MoveHeader, HeaderIndex
  <2>4. PICK rows : rows = Swapped(old, i, i + offset)
    OBVIOUS
  <2>5. SetRows("headers", rows, {}, 0)
    BY <1>1, <1>7, <2>1, <2>4 DEF MoveHeader, HeaderIndex
  <2>6. IsRows(rows) /\ ToSet(rows) \subseteq ToSet(old)
    BY <1>1, <1>3, <2>2, <2>3, <2>4, SwappedRows
  <2>7. IsHeaders(rows, changed)
    BY <1>3, <2>6, FewerRowsAreRight
  <2>8. IsHeaders(rows, touched \cup {})
    <3>1. touched \cup {} = changed
      BY <1>2
    <3> QED
      BY <2>7, <3>1
  <2> QED
    BY <2>5, <2>8, HeaderRowsKeepForm
<1>8. ASSUME NEW position, RemoveHeader(position)
      PROVE  FormInv'
  <2>1. PICK i : i = Shown[position]
    OBVIOUS
  <2>2. i \in DOMAIN old
    BY <1>1, <1>8, <2>1, ShownIsAHeader DEF RemoveHeader
  <2>3. PICK rows : rows = RemoveAt(old, i)
    OBVIOUS
  <2>4. SetRows("headers", rows, {}, 0)
    BY <1>1, <1>8, <2>1, <2>3 DEF RemoveHeader, HeaderIndex
  <2>5. IsRows(rows) /\ ToSet(rows) \subseteq ToSet(old)
    BY <1>1, <1>3, <2>2, <2>3, RemovedRows
  <2>6. IsHeaders(rows, changed)
    BY <1>3, <2>5, FewerRowsAreRight
  <2>7. IsHeaders(rows, touched \cup {})
    <3>1. touched \cup {} = changed
      BY <1>2
    <3> QED
      BY <2>6, <3>1
  <2> QED
    BY <2>4, <2>7, HeaderRowsKeepForm
<1> QED
  BY <1>5, <1>6, <1>7, <1>8

(* The raw text. *)
LEMMA UrlQueryIsRows ==
  ASSUME NEW C, IsRows(C)
  PROVE  IsRows(UrlQuery(C)) /\ Len(UrlQuery(C)) = Len(C)
<1>1. Len(C) \in Nat /\ DOMAIN C = 1 .. Len(C)
  BY DEF IsRows
<1>2. PICK rows : rows = UrlQuery(C)
  OBVIOUS
<1>3. DOMAIN rows = 1 .. Len(C) /\ rows = [i \in DOMAIN rows |-> rows[i]]
  BY <1>1, <1>2 DEF UrlQuery
<1>4. IsRows(rows) /\ Len(rows) = Len(C)
  BY <1>1, <1>3, MappedRows
<1> QED
  BY <1>2, <1>4

LEMMA RawRequestIsRaw ==
  ASSUME NEW copy, NEW changed, IsRequest(copy, changed)
  PROVE  IsRaw(RawRequest(copy))
<1>1. PICK Q : Q = copy.query
  OBVIOUS
<1>2. PICK H : H = copy.headers
  OBVIOUS
<1>3. /\ Len(Q) \in Nat /\ DOMAIN Q = 1 .. Len(Q)
      /\ Len(H) \in Nat /\ DOMAIN H = 1 .. Len(H)
  BY <1>1, <1>2 DEF IsRequest, IsQuery, IsHeaders, IsRows
<1>4. PICK parameters : parameters = ReplayQuery(copy)
  OBVIOUS
<1>5. parameters = [i \in DOMAIN Q |-> Serialize(Q[i])]
  BY <1>1, <1>4 DEF ReplayQuery
<1>6. PICK headers : headers = HeaderPairs(copy)
  OBVIOUS
<1>7. headers = [i \in DOMAIN H |-> <<H[i].name, H[i].value>>]
  BY <1>2, <1>6 DEF HeaderPairs
<1>8. IsRows(parameters)
  <2>1. DOMAIN parameters = 1 .. Len(Q) /\ parameters = [i \in DOMAIN parameters |-> parameters[i]]
    BY <1>3, <1>5
  <2> QED
    BY <1>3, <2>1, MappedRows
<1>9. IsRows(headers)
  <2>1. DOMAIN headers = 1 .. Len(H) /\ headers = [i \in DOMAIN headers |-> headers[i]]
    BY <1>3, <1>7
  <2> QED
    BY <1>3, <2>1, MappedRows
<1>10. PICK raw : raw = RawRequest(copy)
  OBVIOUS
<1>11. PICK spelled : spelled = UrlQuery(parameters)
  OBVIOUS
<1>12. IsRows(spelled)
  BY <1>8, <1>11, UrlQueryIsRows
<1>13. DOMAIN raw = RawFields /\ raw.query \in {spelled, parameters} /\ raw.headers = headers
  BY <1>4, <1>6, <1>10, <1>11 DEF RawRequest, RawFields
<1> QED
  BY <1>8, <1>9, <1>10, <1>12, <1>13 DEF IsRaw

LEMMA RawShownIsRaw ==
  ASSUME FormInv
  PROVE  IsRaw(RawShown)
<1>1. IsRaw(RawRequest(working))
  <2>1. PICK copy : copy = working
    OBVIOUS
  <2>2. PICK changed : changed = touched
    OBVIOUS
  <2>3. IsRequest(copy, changed)
    BY <2>1, <2>2 DEF FormInv
  <2> QED
    BY <2>1, <2>3, RawRequestIsRaw
<1> QED
  BY <1>1 DEF RawShown, FormInv

LEMMA RawEditsAreRaw ==
  ASSUME FormInv, NEW raw \in RawEdits
  PROVE  IsRaw(raw)
<1>1. PICK text : text = RawShown
  OBVIOUS
<1>2. DOMAIN text = RawFields /\ IsRows(text.query) /\ IsRows(text.headers)
  BY <1>1, RawShownIsRaw DEF IsRaw
<1>3. \/ raw = [text EXCEPT !.separated = FALSE]
      \/ raw = [text EXCEPT !.method = ""]
      \/ raw = [text EXCEPT !.body = ""]
      \/ raw = [text EXCEPT !.headers = Append(text.headers, <<"", "">>)]
  BY <1>1, <1>2 DEF RawEdits, RawFields
<1>4. IsRows(Append(text.headers, <<"", "">>))
  BY <1>2, AppendedRows
<1>5. CASE raw = [text EXCEPT !.headers = Append(text.headers, <<"", "">>)]
  <2>1. /\ DOMAIN raw = RawFields /\ raw.query = text.query
        /\ raw.headers = Append(text.headers, <<"", "">>)
    BY <1>2, <1>5 DEF RawFields
  <2> QED
    BY <1>2, <1>4, <2>1 DEF IsRaw
<1>6. CASE raw # [text EXCEPT !.headers = Append(text.headers, <<"", "">>)]
  <2>1. DOMAIN raw = RawFields /\ raw.query = text.query /\ raw.headers = text.headers
    BY <1>2, <1>3, <1>6 DEF RawFields
  <2> QED
    BY <1>2, <2>1 DEF IsRaw
<1> QED
  BY <1>5, <1>6

(* The rows of a text that is parsed are new ones. *)
LEMMA ParsedIsRequest ==
  ASSUME FormInv, NEW raw, IsRaw(raw), NEW changed
  PROVE  /\ IsRequest(ParseRaw(raw, working), changed)
         /\ RawIds(raw) \in Nat /\ RawIds(raw) >= rowIds
<1>1. PICK Q : Q = UrlQuery(raw.query)
  OBVIOUS
<1>2. PICK H : H = raw.headers
  OBVIOUS
<1>3. PICK ids : ids = rowIds
  OBVIOUS
<1>16. IsRows(Q) /\ Len(Q) = Len(raw.query)
  <2>1. PICK typed : typed = raw.query
    OBVIOUS
  <2>2. IsRows(typed)
    BY <2>1 DEF IsRaw
  <2> QED
    BY <1>1, <2>1, <2>2, UrlQueryIsRows
<1>4. IsRows(Q) /\ IsRows(H) /\ Len(Q) \in Nat /\ Len(H) \in Nat /\ ids \in Nat
  BY <1>2, <1>3, <1>16 DEF IsRaw, IsRows, FormInv
<1>5. PICK later : later = ids + Len(Q)
  OBVIOUS
<1>6. later \in Nat /\ later >= ids
  BY <1>4, <1>5
<1>7. PICK parameters : parameters = QueryRows(Q, ids)
  OBVIOUS
<1>8. PICK headers : headers = HeaderRows(H, later)
  OBVIOUS
<1>9. IsQuery(parameters, changed)
  <2>1. IsRows(parameters)
    BY <1>4, <1>7, QueryRowIds
  <2>2. ASSUME NEW row \in ToSet(parameters) PROVE QueryRowIsRight(row, changed)
    <3>1. PICK i \in 1 .. Len(Q) : row = QueryRow(ids + i, Q[i])
      BY <1>4, <1>7, <2>2, QueryRowIds
    <3>2. "id" \in DOMAIN row /\ row.id = ids + i
      BY <3>1 DEF QueryRow
    <3>3. row.id \in Nat /\ row.id > ids
      BY <1>4, <3>2
    <3> QED
      BY <1>3, <3>2, <3>3, LaterIdsAreFresh
  <2> QED
    BY <2>1, <2>2 DEF IsQuery
<1>10. IsHeaders(headers, changed)
  <2>1. IsRows(headers)
    BY <1>4, <1>6, <1>8, HeaderRowIds
  <2>2. ASSUME NEW row \in ToSet(headers) PROVE HeaderRowIsRight(row, changed)
    <3>1. PICK i \in 1 .. Len(H) : row = [id |-> later + i, name |-> H[i][1], value |-> H[i][2]]
      BY <1>4, <1>6, <1>8, <2>2, HeaderRowIds
    <3>2. "id" \in DOMAIN row /\ row.id = later + i
      BY <3>1
    <3>3. row.id \in Nat /\ row.id > ids
      BY <1>4, <1>6, <3>2
    <3> QED
      BY <1>3, <3>2, <3>3, LaterIdsAreFresh
  <2> QED
    BY <2>1, <2>2 DEF IsHeaders
<1>11. PICK parsed : parsed = ParseRaw(raw, working)
  OBVIOUS
<1>12. DOMAIN parsed = RequestFields /\ parsed.query = parameters /\ parsed.headers = headers
  <2>1. DOMAIN working = RequestFields
    BY DEF FormInv, IsRequest
  <2> QED
    BY <1>1, <1>2, <1>3, <1>5, <1>7, <1>8, <1>11, <1>16, <2>1 DEF ParseRaw, RequestFields
<1>13. IsRequest(parsed, changed)
  BY <1>9, <1>10, <1>12 DEF IsRequest
<1>14. RawIds(raw) = later + Len(H)
  BY <1>2, <1>3, <1>5, <1>16 DEF RawIds
<1>15. RawIds(raw) \in Nat /\ RawIds(raw) >= rowIds
  BY <1>3, <1>4, <1>6, <1>14
<1> QED
  BY <1>11, <1>13, <1>15

LEMMA ParsedKeepsForm ==
  ASSUME FormInv, NEW raw, IsRaw(raw), UNCHANGED <<capture, baseline, touched>>,
         working' = ParseRaw(raw, working), rawText' = Nothing,
         dirty' = (ParseRaw(raw, working) # baseline), rowIds' = RawIds(raw)
  PROVE  FormInv'
<1>1. PICK next : next = ParseRaw(raw, working)
  OBVIOUS
<1>2. PICK changed : changed = touched
  OBVIOUS
<1>3. IsRequest(next, changed)
  BY <1>1, ParsedIsRequest
<1>4. rowIds' \in Nat /\ rowIds' >= rowIds
  BY ParsedIsRequest
<1>5. IsRequest(next, touched')
  BY <1>2, <1>3
<1> QED
  BY <1>1, <1>4, <1>5, WorkingKeepsForm

LEMMA FormInvNext == FormInv /\ [FormNext]_formVars => FormInv'
<1> SUFFICES ASSUME FormInv, [FormNext]_formVars PROVE FormInv'
  OBVIOUS
<1>1. CASE UNCHANGED formVars
  BY <1>1, RawKeepsForm DEF formVars
<1>2. ASSUME NEW m, SetMode(m) PROVE FormInv'
  BY <1>2, RawKeepsForm DEF SetMode
<1>3. CASE \/ \E method \in {"", "PUT"} : SetMethod(method)
           \/ SetBase("/relative")
           \/ \E protocol \in {"auto", "http2"} : SetProtocol(protocol)
           \/ \E text \in DOMAIN Encode : UpdateBody(text)
  BY <1>3, FieldsKeepForm
<1>4. CASE \/ AddParameter
           \/ \E i \in Positions, field \in {"name", "value"}, text \in DOMAIN Encode \cup {Nothing} :
                UpdateParameter(i, field, text)
           \/ \E i \in Positions : RemoveParameter(i) \/ \E offset \in {-1, 1} : MoveParameter(i, offset)
  BY <1>4, ParametersKeepForm
<1>5. CASE \/ AddHeader
           \/ \E position \in Positions, field \in {"name", "value"}, text \in DOMAIN Encode :
                UpdateHeader(position, field, text)
           \/ \E position \in Positions :
                RemoveHeader(position) \/ \E offset \in {-1, 1} : MoveHeader(position, offset)
  BY <1>5, HeadersKeepForm
<1>6. ASSUME NEW raw \in RawEdits, EditRaw(raw) PROVE FormInv'
  BY <1>6, RawEditsAreRaw, RawKeepsForm DEF EditRaw
<1>7. ASSUME RefuseRaw PROVE FormInv'
  BY <1>7, RawKeepsForm DEF RefuseRaw
<1>8. CASE ApplyRaw
  <2>1. CASE RefuseRaw
    BY <1>7, <2>1
  <2>2. CASE ~RefuseRaw
    <3>1. /\ SetWorking(ParseRaw(RawShown, working)) /\ rowIds' = RawIds(RawShown)
          /\ touched' = touched
      BY <1>8, <2>2 DEF ApplyRaw
    <3>2. PICK raw : raw = RawShown
      OBVIOUS
    <3>3. IsRaw(raw)
      BY <3>2, RawShownIsRaw
    <3> QED
      BY <3>1, <3>2, <3>3, ParsedKeepsForm DEF SetWorking
  <2> QED
    BY <2>1, <2>2
<1>9. CASE Execute
  <2>1. CASE RefuseRaw
    BY <1>7, <2>1
  <2>2. CASE UNCHANGED <<capture, baseline, working, mode, rawText, rawError, dirty, rowIds, touched>>
    BY <2>2, RawKeepsForm
  <2>3. CASE /\ ~RefuseRaw
             /\ ~UNCHANGED <<capture, baseline, working, mode, rawText, rawError, dirty, rowIds, touched>>
    <3>1. /\ rawText # Nothing
          /\ working' = ParseRaw(rawText, working) /\ dirty' = (ParseRaw(rawText, working) # baseline)
          /\ rowIds' = RawIds(rawText) /\ rawText' = Nothing
          /\ UNCHANGED <<capture, baseline, touched>>
      BY <1>9, <2>3 DEF Execute
    <3>2. PICK raw : raw = rawText
      OBVIOUS
    <3>3. IsRaw(raw)
      BY <3>1, <3>2 DEF FormInv
    <3> QED
      BY <3>1, <3>2, <3>3, ParsedKeepsForm
  <2> QED
    BY <2>1, <2>2, <2>3
<1>10. CASE Revert
  <2>1. PICK next : next = Baseline(capture)
    OBVIOUS
  <2>2. PICK changed : changed = {}
    OBVIOUS
  <2>3. IsRequest(next, changed)
    BY <2>1, BaselineIsRequest DEF FormInv
  <2>4. IsRequest(next, touched') /\ touched' = {}
    BY <1>10, <2>2, <2>3 DEF Revert
  <2>5. next = baseline /\ rowIds \in Nat
    BY <2>1 DEF FormInv
  <2>6. /\ UNCHANGED <<capture, baseline, rowIds>> /\ working' = next /\ rawText' = Nothing
        /\ dirty' = (next # baseline)
    BY <1>10, <2>5 DEF Revert
  <2>7. rowIds' \in Nat /\ rowIds' >= rowIds
    BY <2>5, <2>6
  <2> QED
    BY <2>4, <2>6, <2>7, WorkingKeepsForm
<1> QED
  BY <1>1, <1>2, <1>3, <1>4, <1>5, <1>6, <1>8, <1>9, <1>10 DEF FormNext

(* The draft that is not changed is the captured request. *)
LEMMA BaselineIsTheCapture ==
  ASSUME capture \in CapturedRequests
  PROVE  /\ ReplayQuery(Baseline(capture)) = capture.components
         /\ HeaderPairs(Baseline(capture)) = capture.headers
<1> PICK C : C = capture.components
  OBVIOUS
<1> PICK H : H = capture.headers
  OBVIOUS
<1>1. /\ C \in Seq((DOMAIN Decode) \X ((DOMAIN Decode) \cup {Nothing}))
      /\ H \in Seq(STRING \X STRING) /\ Len(C) \in Nat
  BY CapturedParts
<1>2. PICK parameters : parameters = QueryRows(C, 0)
  OBVIOUS
<1>3. PICK headers : headers = HeaderRows(H, Len(C))
  OBVIOUS
<1>4. Baseline(capture).query = parameters /\ Baseline(capture).headers = headers
  BY <1>2, <1>3 DEF Baseline
<1>5. parameters = [i \in DOMAIN C |-> QueryRow(0 + i, C[i])]
  BY <1>2 DEF QueryRows
<1>6. \A i \in DOMAIN C : Serialize(parameters[i]) = C[i]
  <2> TAKE i \in DOMAIN C
  <2>1. C[i] \in (DOMAIN Decode) \X ((DOMAIN Decode) \cup {Nothing})
    BY <1>1
  <2>2. parameters[i] = QueryRow(0 + i, C[i])
    BY <1>5
  <2> QED
    BY <2>1, <2>2, QueryRowRoundTrip
<1>7. ReplayQuery(Baseline(capture)) = [i \in DOMAIN C |-> C[i]]
  BY <1>4, <1>5, <1>6 DEF ReplayQuery
<1>8. C = [i \in DOMAIN C |-> C[i]] /\ H = [i \in DOMAIN H |-> H[i]]
  BY <1>1
<1>9. DOMAIN headers = DOMAIN H /\ \A i \in DOMAIN H : <<headers[i].name, headers[i].value>> = H[i]
  <2>1. headers = [i \in DOMAIN H |-> [id |-> Len(C) + i, name |-> H[i][1], value |-> H[i][2]]]
    BY <1>3 DEF HeaderRows
  <2>2. \A i \in DOMAIN H : H[i] = <<H[i][1], H[i][2]>>
    BY <1>1
  <2> QED
    BY <2>1, <2>2
<1>10. HeaderPairs(Baseline(capture)) = [i \in DOMAIN H |-> H[i]]
  BY <1>4, <1>9 DEF HeaderPairs
<1> QED
  BY <1>7, <1>8, <1>10

LEMMA FormInvKeeps ==
  ASSUME FormInv
  PROVE  FormKeepsTheCapture
<1>1. IsQuery(working.query, touched) /\ IsHeaders(working.headers, touched)
  BY DEF FormInv, IsRequest
<1>2. ASSUME NEW i \in Untouched(working.query), NEW j \in DOMAIN capture.components,
             working.query[i].id = j
      PROVE  Serialize(working.query[i]) = capture.components[j]
  <2>1. i \in DOMAIN working.query /\ working.query[i].id \notin touched
    BY DEF Untouched
  <2>2. QueryRowIsRight(working.query[i], touched)
    BY <1>1, <2>1 DEF IsQuery, ToSet
  <2> QED
    BY <1>2, <2>1, <2>2 DEF QueryRowIsRight
<1>3. ASSUME NEW i \in Untouched(working.headers), NEW j \in DOMAIN capture.headers,
             working.headers[i].id = j + Len(capture.components)
      PROVE  HeaderPairs(working)[i] = capture.headers[j]
  <2>1. i \in DOMAIN working.headers /\ working.headers[i].id \notin touched
    BY DEF Untouched
  <2>2. HeaderRowIsRight(working.headers[i], touched)
    BY <1>1, <2>1 DEF IsHeaders, ToSet
  <2>3. HeaderPairs(working)[i] = <<working.headers[i].name, working.headers[i].value>>
    BY <2>1 DEF HeaderPairs
  <2> QED
    BY <1>3, <2>1, <2>2, <2>3 DEF HeaderRowIsRight
<1>4. ~dirty => /\ rawText = Nothing
                /\ ReplayQuery(working) = capture.components
                /\ HeaderPairs(working) = capture.headers
                /\ \A field \in {"method", "base", "protocol", "body"} :
                     working[field] = capture[field]
  BY BaselineIsTheCapture DEF FormInv, Baseline
<1> QED
  BY <1>2, <1>3, <1>4 DEF FormKeepsTheCapture

(* What the user has not changed of a captured request is replayed as it    *)
(* was captured, whatever the rows around it went through; and the replay   *)
(* of a draft that is not dirty is the captured request.                    *)
THEOREM FormCorrect == FormSpec => []FormKeepsTheCapture
<1>1. FormInit => FormInv
  BY FormInitInv
<1>2. FormInv /\ [FormNext]_formVars => FormInv'
  BY FormInvNext
<1>3. FormInv => FormKeepsTheCapture
  BY FormInvKeeps
<1> QED
  BY <1>1, <1>2, <1>3, PTL DEF FormSpec

---------------------------------------------------------------------------------------
(* The database workspace. *)

GoodRows(rows) == rows \subseteq past /\ Table!OncePerKey(rows)

GoodBatches == {b \in BatchOf(past) : Table!OncePerKey(b.upserts)}

HubInv ==
  /\ past \subseteq Summary /\ GoodRows(hub)
  /\ arrivals \in Nat \ {0}
  /\ mutations \in 0 .. MaxMutations
  /\ unpublished \in [Publishers -> GoodBatches \cup {Null}]

StreamInv ==
  /\ stream \in {"off", "snapshot", "open", "ended"}
  /\ (reset # Null) <=> (stream = "snapshot")
  /\ reset \in GoodBatches \cup {Null}
  /\ channel \in Seq(GoodBatches) /\ Len(channel) <= ChannelCapacity
  /\ streams \in 0 .. MaxStreams

ViewInv ==
  /\ initial \in GoodBatches \cup {Idle, Asked}
  /\ ~mounted => stream = "off" /\ initial = Idle /\ summaries = {}
  /\ GoodRows(summaries)
  /\ requests \subseteq wanted /\ selectedKey \in wanted \cup {Null}
  /\ inspected \in {e \in past : e.key \in wanted} \cup {Null}
  /\ clicks \in 0 .. MaxClicks

(***************************************************************************)
(* The invariant that is inductive: every set of rows and every batch,     *)
(* wherever it is, holds commands as the hub has had them, each once.      *)
(***************************************************************************)
WindowInv == HubInv /\ StreamInv /\ ViewInv

---------------------------------------------------------------------------------------
(* What is good stays good. *)

LEMMA GoodBatchesGrow ==
  ASSUME past \subseteq past'
  PROVE  GoodBatches \subseteq GoodBatches'
<1> SUFFICES ASSUME NEW b \in GoodBatches PROVE b \in GoodBatches'
  OBVIOUS
<1>1. b \in BatchOf(past) /\ Table!OncePerKey(b.upserts)
  BY DEF GoodBatches
<1>2. b \in BatchOf(past')
  BY <1>1 DEF BatchOf
<1> QED
  BY <1>1, <1>2 DEF GoodBatches

LEMMA SameGoodBatches ==
  ASSUME past' = past
  PROVE  GoodBatches' = GoodBatches
BY DEF GoodBatches, BatchOf

LEMMA NoBatchIsNull ==
  ASSUME past \subseteq Summary
  PROVE  Null \notin GoodBatches
<1>1. GoodBatches \subseteq BatchOf(Summary)
  BY DEF GoodBatches, BatchOf
<1> QED
  BY <1>1, WindowAssumption

LEMMA SnapshotIsGood ==
  ASSUME HubInv
  PROVE  Snapshot \in GoodBatches /\ Snapshot # Null
<1>1. Snapshot \in BatchOf(past) /\ Snapshot.upserts = hub
  BY WindowAssumption DEF HubInv, GoodRows, Snapshot, Batch, BatchOf
<1>2. Snapshot \in GoodBatches
  BY <1>1 DEF GoodBatches, HubInv, GoodRows
<1> QED
  BY <1>2, NoBatchIsNull DEF HubInv

(* Rows that batches are applied to stay the hub's, each command once. *)
LEMMA ApplyKeepsRowsGood ==
  ASSUME NEW b \in GoodBatches, GoodRows(summaries), Apply(b)
  PROVE  summaries' \subseteq past /\ Table!OncePerKey(summaries')
<1>1. b.upserts \subseteq past /\ Table!OncePerKey(b.upserts)
  BY DEF GoodBatches, BatchOf
<1>2. summaries' = ApplyDatabaseDeltas(summaries, b)
  BY DEF Apply
<1>3. CASE b.kind = "reset"
  BY <1>1, <1>2, <1>3 DEF ApplyDatabaseDeltas
<1>4. CASE b.kind # "reset"
  <2> DEFINE kept == {old \in summaries : old.key \notin KeysOf(b.upserts)}
  <2>1. summaries' = {r \in kept \cup b.upserts : r.key \notin b.removes}
    BY <1>2, <1>4 DEF ApplyDatabaseDeltas
  <2>2. summaries' \subseteq past
    BY <1>1, <2>1 DEF GoodRows
  <2>3. ASSUME NEW r \in kept, NEW s \in b.upserts
        PROVE  r.key # s.key
    BY DEF KeysOf
  <2>4. ASSUME NEW r \in summaries', NEW s \in summaries', r.key = s.key
        PROVE  r = s
    <3> HIDE DEF kept
    <3>1. r \in kept \cup b.upserts /\ s \in kept \cup b.upserts
      BY <2>1
    <3>2. CASE r \in b.upserts /\ s \in b.upserts
      BY <1>1, <2>4, <3>2 DEF Table!OncePerKey
    <3>3. CASE r \in kept /\ s \in kept
      BY <2>4, <3>3 DEF GoodRows, Table!OncePerKey, kept
    <3>4. QED
      BY <2>3, <2>4, <3>1, <3>2, <3>3
  <2> QED
    BY <2>2, <2>4 DEF Table!OncePerKey
<1> QED
  BY <1>3, <1>4

---------------------------------------------------------------------------------------
(* The initial states, and what the invariant implies. *)

LEMMA InitInv == WindowInit => WindowInv
<1> SUFFICES ASSUME WindowInit PROVE WindowInv
  OBVIOUS
<1>1. /\ Cardinality(hub) \in Nat
      /\ hub \subseteq Summary /\ Table!OncePerKey(hub)
  <2>1. CASE hub = {}
    BY <2>1, FS_EmptySet DEF Table!OncePerKey
  <2>2. CASE hub # {}
    <3>1. PICK k \in Keys : hub = {[key |-> k, revision |-> 1, arrival |-> 1, done |-> FALSE]}
      BY <2>2 DEF WindowInit
    <3> DEFINE first == [key |-> k, revision |-> 1, arrival |-> 1, done |-> FALSE]
    <3>2. first \in Summary
      BY DEF Summary
    <3>3. hub = {first}
      BY <3>1
    <3> HIDE DEF first
    <3>4. Cardinality(hub) = 1
      BY <3>3, FS_Singleton
    <3>5. Table!OncePerKey(hub)
      BY <3>3 DEF Table!OncePerKey
    <3> QED
      BY <3>2, <3>3, <3>4, <3>5
  <2> QED
    BY <2>1, <2>2
<1>2. arrivals \in Nat \ {0}
  BY <1>1 DEF WindowInit
<1>4. HubInv
  BY <1>1, <1>2, WindowAssumption DEF WindowInit, HubInv, GoodRows
<1>5. StreamInv
  BY WindowAssumption DEF WindowInit, StreamInv
<1>6. ViewInv
  BY WindowAssumption DEF WindowInit, ViewInv, GoodRows, Table!OncePerKey
<1> QED
  BY <1>4, <1>5, <1>6 DEF WindowInv

LEMMA InvType == WindowInv => WindowTypeOK
<1> SUFFICES ASSUME WindowInv PROVE WindowTypeOK
  OBVIOUS
<1>1. GoodBatches \subseteq BatchOf(past)
  BY DEF GoodBatches
<1>2. channel \in Seq(BatchOf(past))
  BY <1>1 DEF WindowInv, StreamInv
<1> QED
  BY <1>1, <1>2 DEF WindowInv, HubInv, StreamInv, ViewInv, GoodRows, WindowTypeOK

---------------------------------------------------------------------------------------
(* The parts of the invariant that a step leaves alone. *)

LEMMA HubUnchanged ==
  ASSUME HubInv, UNCHANGED hubState
  PROVE  HubInv' /\ GoodBatches' = GoodBatches
<1>1. GoodBatches' = GoodBatches
  BY SameGoodBatches DEF hubState
<1> QED
  BY <1>1 DEF HubInv, GoodRows, hubState

LEMMA StreamUnchanged ==
  ASSUME StreamInv, UNCHANGED streamState, GoodBatches \subseteq GoodBatches'
  PROVE  StreamInv'
<1>1. channel' \in Seq(GoodBatches')
  BY DEF StreamInv, streamState
<1> QED
  BY <1>1 DEF StreamInv, streamState

LEMMA ViewUnchanged ==
  ASSUME ViewInv, UNCHANGED <<viewState, clicks, wanted, stream>>, past \subseteq past'
  PROVE  ViewInv'
<1>1. GoodBatches \subseteq GoodBatches'
  BY GoodBatchesGrow
<1> QED
  BY <1>1 DEF ViewInv, GoodRows, viewState, Table!OncePerKey

---------------------------------------------------------------------------------------
(* The hub. *)

LEMMA MutateKeepsInv ==
  ASSUME WindowInv, NEW p \in Publishers, NEW upserts \in SUBSET Summary, NEW removes \in SUBSET Keys,
         Table!OncePerKey(upserts), Mutate(p, upserts, removes)
  PROVE  /\ past \subseteq past' /\ past' \subseteq Summary
         /\ mutations' \in 0 .. MaxMutations
         /\ unpublished' \in [Publishers -> GoodBatches' \cup {Null}]
<1> DEFINE batch == Batch("changes", mutations + 1, upserts, removes)
<1>1. past' = past \cup upserts /\ past' \subseteq Summary
  BY DEF Mutate, WindowInv, HubInv
<1>2. mutations' = mutations + 1 /\ mutations' \in 0 .. MaxMutations
  BY WindowAssumption DEF Mutate, WindowInv, HubInv
<1>3. batch \in BatchOf(past') /\ batch.upserts = upserts
  BY <1>1, <1>2 DEF BatchOf, Batch
<1>4. batch \in GoodBatches'
  <2> HIDE DEF batch
  <2> QED
    BY <1>3 DEF GoodBatches, Table!OncePerKey
<1>5. GoodBatches \subseteq GoodBatches'
  BY <1>1, GoodBatchesGrow
<1>6. unpublished' = [unpublished EXCEPT ![p] = batch]
  BY DEF Mutate
<1> HIDE DEF batch
<1>7. unpublished' \in [Publishers -> GoodBatches' \cup {Null}]
  BY <1>4, <1>5, <1>6 DEF WindowInv, HubInv
<1> QED
  BY <1>1, <1>2, <1>7

LEMMA RevisedSummary ==
  ASSUME NEW c \in Summary, NEW done \in BOOLEAN
  PROVE  LET revised == [c EXCEPT !.revision = @ + 1, !.done = done]
         IN  revised \in Summary /\ revised.key = c.key
<1>1. c.revision \in Nat \ {0} /\ c.revision + 1 \in Nat \ {0}
  BY DEF Summary
<1> DEFINE counted == [c EXCEPT !.revision = c.revision + 1]
<1>2. counted \in Summary /\ counted.key = c.key
  BY <1>1 DEF Summary
<1> HIDE DEF counted
<1>3. [counted EXCEPT !.done = done] \in Summary /\ [counted EXCEPT !.done = done].key = c.key
  BY <1>2 DEF Summary
<1> QED
  BY <1>3 DEF counted

LEMMA IngestKeepsInv ==
  ASSUME WindowInv, NEW k \in Keys, NEW done \in BOOLEAN, Ingest(k, done)
  PROVE  WindowInv'
<1> DEFINE current == {c \in hub : c.key = k}
           begun   == [key |-> k, revision |-> 1, arrival |-> arrivals, done |-> done]
           next    == IF current = {} THEN begun
                      ELSE LET c == CHOOSE c \in current : TRUE
                           IN  [c EXCEPT !.revision = @ + 1, !.done = done]
           kept    == (hub \ current) \cup {next}
<1>1. next \in Summary /\ next.key = k
  <2>1. begun \in Summary
    BY DEF WindowInv, HubInv, Summary
  <2>2. ASSUME NEW c \in current
        PROVE  [c EXCEPT !.revision = @ + 1, !.done = done] \in Summary
    <3>1. c \in Summary
      BY DEF WindowInv, HubInv, GoodRows
    <3> QED
      BY <3>1, RevisedSummary
  <2>3. current # {} => (CHOOSE c \in current : TRUE) \in current
    OBVIOUS
  <2>4. ASSUME NEW c \in current
        PROVE  [c EXCEPT !.revision = @ + 1, !.done = done].key = k
    <3>1. c \in Summary
      BY DEF WindowInv, HubInv, GoodRows
    <3> QED
      BY <3>1, RevisedSummary
  <2> QED
    BY <2>1, <2>2, <2>3, <2>4
<1>2. /\ hub' = kept \ Evicted(kept)
      /\ arrivals' = arrivals + IF current = {} THEN 1 ELSE 0
      /\ Mutate("processor", {next}, KeysOf(Evicted(kept)))
      /\ UNCHANGED <<streamState, viewState, clicks, wanted>>
  BY DEF Ingest
<1> HIDE DEF next
<1>3. kept \subseteq Summary
  BY <1>1 DEF WindowInv, HubInv, GoodRows
<1>4. KeysOf(Evicted(kept)) \subseteq Keys
  <2> HIDE DEF kept
  <2> QED
    BY <1>3 DEF KeysOf, Evicted, Summary
<1>5. Table!OncePerKey({next})
  BY DEF Table!OncePerKey
<1>6. /\ past \subseteq past' /\ past' \subseteq Summary
      /\ mutations' \in 0 .. MaxMutations
      /\ unpublished' \in [Publishers -> GoodBatches' \cup {Null}]
  BY <1>1, <1>2, <1>4, <1>5, MutateKeepsInv DEF Publishers
<1>7. hub' \subseteq past'
  <2>1. past' = past \cup {next}
    BY <1>2 DEF Mutate
  <2> QED
    BY <1>2, <2>1 DEF WindowInv, HubInv, GoodRows
<1>8. Table!OncePerKey(hub')
  <2>1. Table!OncePerKey(kept)
    <3>1. \A c \in hub \ current : c.key # k
      OBVIOUS
    <3> HIDE DEF current
    <3> QED
      BY <1>1, <3>1 DEF WindowInv, HubInv, GoodRows, Table!OncePerKey
  <2> HIDE DEF kept
  <2> QED
    BY <1>2, <2>1 DEF Table!OncePerKey
<1>9. HubInv'
  BY <1>2, <1>6, <1>7, <1>8 DEF WindowInv, HubInv, GoodRows
<1>10. StreamInv' /\ ViewInv'
  BY <1>2, <1>6, GoodBatchesGrow, StreamUnchanged, ViewUnchanged DEF WindowInv, streamState
<1> QED
  BY <1>9, <1>10 DEF WindowInv

LEMMA DisconnectKeepsInv ==
  ASSUME WindowInv, NEW source, Disconnect(source)
  PROVE  WindowInv'
<1> DEFINE open   == {c \in hub : c.key.source = source /\ ~c.done}
           ended(c) == [c EXCEPT !.revision = @ + 1, !.done = TRUE]
           marked == {ended(c) : c \in open}
<1>1. /\ hub' = (hub \ open) \cup marked
      /\ Mutate("connection", marked, {})
      /\ UNCHANGED <<arrivals, streamState, viewState, clicks, wanted>>
  BY DEF Disconnect
<1>2. ASSUME NEW c \in hub
      PROVE  c \in Summary /\ ended(c) \in Summary /\ ended(c).key = c.key
  <2>1. c \in Summary
    BY DEF WindowInv, HubInv, GoodRows
  <2> QED
    BY <2>1, RevisedSummary
<1> HIDE DEF ended
<1>3. marked \subseteq Summary
  BY <1>2
<1>4. Table!OncePerKey(marked)
  <2> SUFFICES ASSUME NEW r \in marked, NEW s \in marked, r.key = s.key PROVE r = s
    BY DEF Table!OncePerKey
  <2>1. PICK c \in open, d \in open : r = ended(c) /\ s = ended(d)
    OBVIOUS
  <2>2. c = d
    BY <1>2, <2>1 DEF WindowInv, HubInv, GoodRows, Table!OncePerKey
  <2> QED
    BY <2>1, <2>2
<1>5. Table!OncePerKey(hub')
  <2>1. ASSUME NEW c \in hub \ open, NEW d \in open
        PROVE  c.key # ended(d).key
    BY <1>2 DEF WindowInv, HubInv, GoodRows, Table!OncePerKey
  <2>2. \A c \in hub \ open, e \in marked : c.key # e.key
    BY <2>1
  <2>3. Table!OncePerKey(hub \ open)
    BY DEF WindowInv, HubInv, GoodRows, Table!OncePerKey
  <2> HIDE DEF open, marked
  <2> QED
    BY <1>1, <1>4, <2>2, <2>3 DEF Table!OncePerKey
<1> HIDE DEF marked
<1>6. /\ past \subseteq past' /\ past' \subseteq Summary
      /\ mutations' \in 0 .. MaxMutations
      /\ unpublished' \in [Publishers -> GoodBatches' \cup {Null}]
  BY <1>1, <1>3, <1>4, MutateKeepsInv DEF Publishers
<1>7. hub' \subseteq past'
  <2>1. past' = past \cup marked
    BY <1>1 DEF Mutate
  <2> QED
    BY <1>1, <2>1 DEF WindowInv, HubInv, GoodRows
<1>8. HubInv'
  BY <1>1, <1>5, <1>6, <1>7 DEF WindowInv, HubInv, GoodRows
<1>9. StreamInv' /\ ViewInv'
  BY <1>1, <1>6, GoodBatchesGrow, StreamUnchanged, ViewUnchanged DEF WindowInv, streamState
<1> QED
  BY <1>8, <1>9 DEF WindowInv

LEMMA ClearKeepsInv ==
  ASSUME WindowInv, Clear
  PROVE  WindowInv'
<1> DEFINE empty == Batch("reset", mutations + 1, {}, {})
<1>1. /\ hub' = {} /\ arrivals' = 1 /\ past' = past
      /\ mutations' = mutations + 1 /\ mutations' \in 0 .. MaxMutations
      /\ UNCHANGED <<streamState, viewState, clicks, wanted>>
      /\ unpublished' \in {unpublished, [unpublished EXCEPT !["user"] = empty]}
  BY WindowAssumption DEF Clear, WindowInv, HubInv
<1>2. GoodBatches' = GoodBatches
  BY <1>1, SameGoodBatches
<1>3. empty \in GoodBatches
  <2>1. empty \in BatchOf(past) /\ empty.upserts = {}
    BY <1>1 DEF Batch, BatchOf
  <2> QED
    BY <2>1 DEF GoodBatches, Table!OncePerKey
<1> HIDE DEF empty
<1>4. HubInv'
  BY <1>1, <1>2, <1>3 DEF WindowInv, HubInv, GoodRows, Table!OncePerKey, Publishers
<1>5. StreamInv' /\ ViewInv'
  BY <1>1, <1>2, StreamUnchanged, ViewUnchanged DEF WindowInv, streamState
<1> QED
  BY <1>4, <1>5 DEF WindowInv

LEMMA PublishKeepsInv ==
  ASSUME WindowInv, NEW p \in Publishers, Publish(p)
  PROVE  WindowInv'
<1>1. /\ unpublished[p] \in GoodBatches
      /\ unpublished' = [unpublished EXCEPT ![p] = Null]
      /\ UNCHANGED <<hub, arrivals, mutations, past, stream, reset, streams, viewState, clicks, wanted>>
  BY DEF Publish, WindowInv, HubInv
<1>2. GoodBatches' = GoodBatches
  BY <1>1, SameGoodBatches
<1>3. HubInv'
  BY <1>1, <1>2 DEF WindowInv, HubInv, GoodRows
<1>4. channel' \in Seq(GoodBatches) /\ Len(channel') <= ChannelCapacity
  <2> DEFINE kept == IF IsFull THEN Tail(channel) ELSE channel
  <2>1. channel \in Seq(GoodBatches) /\ Len(channel) <= ChannelCapacity
    BY DEF WindowInv, StreamInv
  <2>2. ChannelCapacity \in Nat \ {0}
    BY WindowAssumption
  <2>3. kept \in Seq(GoodBatches) /\ Len(kept) + 1 <= ChannelCapacity
    <3>1. CASE IsFull
      <4>1. channel # <<>>
        BY <2>1, <2>2, <3>1 DEF IsFull
      <4> QED
        BY <2>1, <2>2, <3>1, <4>1, HeadTailProperties DEF IsFull
    <3>2. CASE ~IsFull
      BY <2>1, <2>2, <3>2 DEF IsFull
    <3> QED
      BY <3>1, <3>2
  <2>4. channel' \in {channel, Append(kept, unpublished[p])}
    BY DEF Publish
  <2> HIDE DEF kept
  <2> QED
    BY <1>1, <2>1, <2>2, <2>3, <2>4, AppendProperties
<1>5. StreamInv'
  BY <1>1, <1>2, <1>4 DEF WindowInv, StreamInv
<1>6. ViewInv'
  BY <1>1, ViewUnchanged DEF WindowInv
<1> QED
  BY <1>3, <1>5, <1>6 DEF WindowInv

---------------------------------------------------------------------------------------
(* The subscription. *)

LEMMA StreamStepKeepsInv ==
  ASSUME WindowInv, TakeSnapshot \/ Subscribe \/ Forward \/ LagHosted
  PROVE  WindowInv'
<1>1. /\ mounted /\ UNCHANGED <<hubState, mounted, initial, selectedKey, requests, inspected, clicks, wanted>>
      /\ stream \in {"off", "snapshot", "open"} /\ stream' \in {"snapshot", "open"}
  BY DEF TakeSnapshot, Subscribe, Forward, LagHosted, WindowInv, ViewInv
<1>2. HubInv' /\ GoodBatches' = GoodBatches
  BY <1>1, HubUnchanged DEF WindowInv
<1>3. past' = past
  BY <1>1 DEF hubState
<1>4. Snapshot \in GoodBatches /\ Snapshot # Null
  BY SnapshotIsGood DEF WindowInv
<1>5. StreamInv' /\ GoodRows(summaries)'
  <2>1. CASE TakeSnapshot
    <3>1. summaries' = summaries \/ Apply(Snapshot)
      BY <2>1 DEF TakeSnapshot
    <3>2. GoodRows(summaries)'
      BY <1>3, <1>4, <3>1, ApplyKeepsRowsGood DEF WindowInv, ViewInv, GoodRows
    <3> QED
      BY <1>2, <1>4, <2>1, <3>2, WindowAssumption DEF TakeSnapshot, WindowInv, StreamInv
  <2>2. CASE Subscribe
    <3>1. reset \in GoodBatches
      BY <2>2 DEF Subscribe, WindowInv, StreamInv
    <3>2. summaries' = summaries \/ Apply(reset)
      BY <2>2 DEF Subscribe
    <3>3. GoodRows(summaries)'
      BY <1>3, <3>1, <3>2, ApplyKeepsRowsGood DEF WindowInv, ViewInv, GoodRows
    <3> QED
      BY <1>2, <2>2, <3>3 DEF Subscribe, WindowInv, StreamInv
  <2>3. CASE Forward
    <3>1. /\ Head(channel) \in GoodBatches
          /\ Tail(channel) \in Seq(GoodBatches) /\ Len(Tail(channel)) <= ChannelCapacity
      BY <2>3, WindowAssumption, HeadTailProperties DEF Forward, WindowInv, StreamInv
    <3>2. Apply(Head(channel))
      BY <2>3 DEF Forward
    <3>3. GoodRows(summaries)'
      BY <1>3, <3>1, <3>2, ApplyKeepsRowsGood DEF WindowInv, ViewInv, GoodRows
    <3> QED
      BY <1>2, <2>3, <3>1, <3>3 DEF Forward, WindowInv, StreamInv
  <2>4. CASE LagHosted
    <3>1. GoodRows(summaries)'
      BY <1>3, <1>4, <2>4, ApplyKeepsRowsGood DEF LagHosted, WindowInv, ViewInv, GoodRows
    <3> QED
      BY <1>2, <2>4, <3>1 DEF LagHosted, WindowInv, StreamInv
  <2> QED
    BY <2>1, <2>2, <2>3, <2>4
<1>6. ViewInv'
  BY <1>1, <1>2, <1>3, <1>5 DEF WindowInv, ViewInv
<1> QED
  BY <1>2, <1>5, <1>6 DEF WindowInv

(* A subscription that is closed leaves nothing behind. *)
LEMMA ClosedStream ==
  ASSUME StreamInv, NEW next \in {"off", "ended"}, CloseStream(next)
  PROVE  StreamInv'
<1>1. <<>> \in Seq(GoodBatches') /\ Len(<<>>) = 0
  OBVIOUS
<1> QED
  BY <1>1, WindowAssumption DEF StreamInv, CloseStream

LEMMA CloseKeepsInv ==
  ASSUME WindowInv, EndNative \/ Lose
  PROVE  WindowInv'
<1>1. UNCHANGED <<hubState, viewState, clicks, wanted>> /\ mounted
  BY DEF EndNative, Lose, WindowInv, ViewInv
<1>2. HubInv' /\ GoodBatches' = GoodBatches
  BY <1>1, HubUnchanged DEF WindowInv
<1>3. StreamInv'
  BY ClosedStream DEF EndNative, Lose, WindowInv
<1>4. ViewInv'
  BY <1>1, <1>2 DEF WindowInv, ViewInv, GoodRows, viewState, hubState
<1> QED
  BY <1>2, <1>3, <1>4 DEF WindowInv

---------------------------------------------------------------------------------------
(* The workspace. *)

LEMMA ClickCounts ==
  ASSUME ViewInv, Click
  PROVE  clicks' \in 0 .. MaxClicks
BY WindowAssumption DEF ViewInv, Click

(* What a step of the workspace leaves to be shown about the view. *)
LEMMA HubAndStreamUnchanged ==
  ASSUME WindowInv, UNCHANGED <<hubState, streamState>>
  PROVE  HubInv' /\ StreamInv' /\ GoodBatches' = GoodBatches /\ past' = past
<1>1. HubInv' /\ GoodBatches' = GoodBatches
  BY HubUnchanged DEF WindowInv
<1> QED
  BY <1>1, StreamUnchanged DEF WindowInv, hubState

LEMMA MountWorkspaceKeepsInv ==
  ASSUME WindowInv, MountWorkspace \/ Unmount
  PROVE  WindowInv'
<1>1. CASE MountWorkspace
  <2>1. HubInv' /\ StreamInv' /\ GoodBatches' = GoodBatches /\ past' = past
    BY <1>1, HubAndStreamUnchanged DEF MountWorkspace
  <2>2. ViewInv'
    BY <1>1, <2>1, ClickCounts DEF MountWorkspace, WindowInv, ViewInv, GoodRows
  <2> QED
    BY <2>1, <2>2 DEF WindowInv
<1>2. CASE Unmount
  <2>1. HubInv' /\ GoodBatches' = GoodBatches /\ past' = past
    BY <1>2, HubUnchanged DEF Unmount, WindowInv, hubState
  <2>2. StreamInv' /\ stream' = "off"
    BY <1>2, ClosedStream DEF Unmount, CloseStream, WindowInv
  <2>3. ViewInv'
    BY <1>2, <2>1, <2>2, ClickCounts DEF Unmount, WindowInv, ViewInv, GoodRows, Table!OncePerKey
  <2> QED
    BY <2>1, <2>2, <2>3 DEF WindowInv
<1> QED
  BY <1>1, <1>2

LEMMA InitialKeepsInv ==
  ASSUME WindowInv, AnswerInitial \/ ApplyInitial \/ FailInitial
  PROVE  WindowInv'
<1>1. UNCHANGED <<hubState, streamState, mounted, selectedKey, requests, inspected, clicks, wanted>>
  BY DEF AnswerInitial, ApplyInitial, FailInitial
<1>2. HubInv' /\ StreamInv' /\ GoodBatches' = GoodBatches /\ past' = past
  BY <1>1, HubAndStreamUnchanged
<1>3. mounted
  <2>1. initial # Idle
    BY DEF AnswerInitial, ApplyInitial, FailInitial, Idle, Asked
  <2> QED
    BY <2>1 DEF WindowInv, ViewInv
<1>4. initial' \in GoodBatches \cup {Idle}
  <2>1. Snapshot \in GoodBatches
    BY SnapshotIsGood DEF WindowInv
  <2> QED
    BY <2>1 DEF AnswerInitial, ApplyInitial, FailInitial
<1>5. GoodRows(summaries)'
  <2>1. CASE ApplyInitial
    <3>1. initial \in GoodBatches /\ Apply(initial)
      BY <2>1 DEF ApplyInitial, WindowInv, ViewInv
    <3> QED
      BY <1>2, <3>1, ApplyKeepsRowsGood DEF WindowInv, ViewInv, GoodRows
  <2>2. CASE AnswerInitial \/ FailInitial
    BY <1>2, <2>2 DEF AnswerInitial, FailInitial, WindowInv, ViewInv, GoodRows
  <2> QED
    BY <2>1, <2>2
<1>6. ViewInv'
  BY <1>1, <1>2, <1>3, <1>4, <1>5 DEF WindowInv, ViewInv
<1> QED
  BY <1>2, <1>6 DEF WindowInv

(* The steps of the reader, and the answers about one command. *)
ReaderStep ==
  \/ \E node \in DOMAIN GroupCommands(summaries) :
       \/ \E r \in GroupCommands(summaries)[node] : SelectCommand(r)
       \/ \E level \in {node, DatabaseOf(node)} : ToggleNode(level)
  \/ \E k \in Keys : AnswerCommand(k) \/ FailCommand(k)

LEMMA SelectedRowIsShown ==
  ASSUME NEW node \in DOMAIN GroupCommands(summaries), NEW r \in GroupCommands(summaries)[node]
  PROVE  r \in summaries
BY DEF GroupCommands

LEMMA AnswerIsWanted ==
  ASSUME WindowInv, NEW k \in Keys, AnswerCommand(k)
  PROVE  inspected' \in {e \in past : e.key \in wanted} \cup {Null}
<1>1. k \in wanted /\ inspected' \in Answers(k)
  BY DEF AnswerCommand, WindowInv, ViewInv
<1>2. inspected' \in {c \in hub : c.key = k} \cup {Null}
  BY <1>1 DEF Answers
<1> QED
  BY <1>1, <1>2 DEF WindowInv, HubInv, GoodRows

LEMMA ReaderKeepsInv ==
  ASSUME WindowInv, ReaderStep
  PROVE  WindowInv'
<1>1. UNCHANGED <<hubState, streamState, mounted, initial, summaries>>
  BY DEF ReaderStep, SelectCommand, ToggleNode, AnswerCommand, FailCommand
<1>2. HubInv' /\ StreamInv' /\ GoodBatches' = GoodBatches /\ past' = past
  BY <1>1, HubAndStreamUnchanged
<1>3. /\ initial' \in GoodBatches' \cup {Idle, Asked}
      /\ ~mounted' => stream' = "off" /\ initial' = Idle /\ summaries' = {}
      /\ GoodRows(summaries)'
  BY <1>1, <1>2 DEF WindowInv, ViewInv, GoodRows, streamState
<1> DEFINE Reader == /\ requests' \subseteq wanted' /\ selectedKey' \in wanted' \cup {Null}
                     /\ inspected' \in {e \in past : e.key \in wanted'} \cup {Null}
                     /\ clicks' \in 0 .. MaxClicks
<1>4. Reader
  <2>1. ASSUME NEW r, SelectCommand(r)
        PROVE  Reader
    BY <2>1, ClickCounts DEF SelectCommand, WindowInv, ViewInv
  <2>2. ASSUME NEW node, ToggleNode(node)
        PROVE  Reader
    BY <2>2, ClickCounts DEF ToggleNode, WindowInv, ViewInv
  <2>3. ASSUME NEW k \in Keys, AnswerCommand(k)
        PROVE  Reader
    BY <2>3, AnswerIsWanted DEF AnswerCommand, WindowInv, ViewInv
  <2>4. ASSUME NEW k \in Keys, FailCommand(k)
        PROVE  Reader
    BY <2>4 DEF FailCommand, WindowInv, ViewInv
  <2> QED
    BY <2>1, <2>2, <2>3, <2>4 DEF ReaderStep
<1>5. ViewInv'
  BY <1>2, <1>3, <1>4 DEF ViewInv
<1> QED
  BY <1>2, <1>5 DEF WindowInv

---------------------------------------------------------------------------------------
(* Every step. *)

LEMMA NextKeepsInv == WindowInv /\ [WindowNext]_windowVars => WindowInv'
<1> SUFFICES ASSUME WindowInv, [WindowNext]_windowVars PROVE WindowInv'
  OBVIOUS
<1>1. ASSUME NEW k \in Keys, NEW done \in BOOLEAN, Ingest(k, done) PROVE WindowInv'
  BY <1>1, IngestKeepsInv
<1>2. ASSUME NEW k \in Keys, Disconnect(k.source) PROVE WindowInv'
  BY <1>2, DisconnectKeepsInv
<1>3. CASE Clear
  BY <1>3, ClearKeepsInv
<1>4. ASSUME NEW p \in Publishers, Publish(p) PROVE WindowInv'
  BY <1>4, PublishKeepsInv
<1>5. CASE TakeSnapshot \/ Subscribe \/ Forward \/ LagHosted
  BY <1>5, StreamStepKeepsInv
<1>6. CASE EndNative \/ Lose
  BY <1>6, CloseKeepsInv
<1>7. CASE MountWorkspace \/ Unmount
  BY <1>7, MountWorkspaceKeepsInv
<1>8. CASE AnswerInitial \/ ApplyInitial \/ FailInitial
  BY <1>8, InitialKeepsInv
<1>9. CASE ReaderStep
  BY <1>9, ReaderKeepsInv
<1>10. CASE UNCHANGED windowVars
  <2>1. UNCHANGED <<hubState, streamState, viewState, clicks, wanted>>
    BY <1>10 DEF windowVars
  <2>2. HubInv' /\ StreamInv' /\ past' = past
    BY <2>1, HubAndStreamUnchanged
  <2>3. ViewInv'
    BY <2>1, <2>2, ViewUnchanged DEF WindowInv, streamState
  <2> QED
    BY <2>2, <2>3 DEF WindowInv
<1> QED
  BY <1>1, <1>2, <1>3, <1>4, <1>5, <1>6, <1>7, <1>8, <1>9, <1>10 DEF WindowNext, ReaderStep

(***************************************************************************)
(* Whatever the hub, the stream and the reader do, and in whatever order   *)
(* snapshots, resets and changes arrive (DatabaseWorkspace.tsx:24-47,      *)
(* dev_api.rs:120-150), every set of rows and every batch on its way holds *)
(* commands as the hub has had them, each once.                            *)
(***************************************************************************)
THEOREM WindowInvariant == WindowSpec => []WindowInv
<1>1. WindowInit => WindowInv
  BY InitInv
<1>2. WindowInv /\ [WindowNext]_windowVars => WindowInv'
  BY NextKeepsInv
<1> QED
  BY <1>1, <1>2, PTL DEF WindowSpec

(***************************************************************************)
(* The window's state keeps its types: the channel never holds more than   *)
(* its capacity, a snapshot is held exactly while a subscription starts,   *)
(* and a workspace that is not in view has no rows, no subscription and no *)
(* snapshot to come (DatabaseWorkspace.tsx:24-47).                         *)
(***************************************************************************)
THEOREM WindowTypeCorrect == WindowSpec => []WindowTypeOK
<1>1. WindowInv => WindowTypeOK
  BY InvType
<1> QED
  BY <1>1, WindowInvariant, PTL

---------------------------------------------------------------------------------------
(* Every step is one of the live table, or none to it. *)

LEMMA StepImplements ==
  WindowInv /\ WindowInv' /\ [WindowNext]_windowVars => [Table!TableNext]_(Table!tableVars)
<1> SUFFICES ASSUME WindowInv, WindowInv', [WindowNext]_windowVars
             PROVE  Table!TableNext \/ UNCHANGED Table!tableVars
  OBVIOUS
<1>1. (* Only the hub changes. *)
      ASSUME past \subseteq past', UNCHANGED <<summaries, wanted, inspected>>
      PROVE  Table!TableNext
  BY <1>1 DEF Table!TableNext, Table!Capture
<1>2. (* Only the rows change. *)
      ASSUME UNCHANGED <<past, wanted, inspected>>
      PROVE  Table!TableNext
  <2>1. summaries' \subseteq past /\ Table!OncePerKey(summaries')
    BY <1>2 DEF WindowInv, ViewInv, GoodRows, Table!OncePerKey
  <2> QED
    BY <1>2, <2>1 DEF Table!TableNext, Table!Show
<1>3. ASSUME NEW k \in Keys, NEW done \in BOOLEAN, Ingest(k, done) PROVE Table!TableNext
  <2>1. past \subseteq past' /\ UNCHANGED <<summaries, wanted, inspected>>
    BY <1>3 DEF Ingest, Mutate, viewState
  <2> QED
    BY <1>1, <2>1
<1>4. ASSUME NEW k \in Keys, Disconnect(k.source) PROVE Table!TableNext
  <2>1. past \subseteq past' /\ UNCHANGED <<summaries, wanted, inspected>>
    BY <1>4 DEF Disconnect, Mutate, viewState
  <2> QED
    BY <1>1, <2>1
<1>5. CASE Clear \/ \E p \in Publishers : Publish(p)
  BY <1>2, <1>5 DEF Clear, Publish, viewState
<1>6. CASE TakeSnapshot \/ Subscribe \/ Forward \/ LagHosted \/ EndNative \/ Lose
  BY <1>2, <1>6 DEF TakeSnapshot, Subscribe, Forward, LagHosted, EndNative, Lose, hubState, viewState
<1>7. CASE MountWorkspace \/ Unmount \/ AnswerInitial \/ ApplyInitial \/ FailInitial
  BY <1>2, <1>7 DEF MountWorkspace, Unmount, AnswerInitial, ApplyInitial, FailInitial, hubState
<1>8. ASSUME NEW node \in DOMAIN GroupCommands(summaries), NEW r \in GroupCommands(summaries)[node],
             SelectCommand(r)
      PROVE  Table!TableNext
  <2>1. r \in summaries
    BY SelectedRowIsShown
  <2>2. wanted' = wanted \cup {r.key} /\ UNCHANGED <<past, summaries, inspected>>
    BY <1>8 DEF SelectCommand, hubState
  <2> QED
    BY <2>1, <2>2 DEF Table!TableNext, Table!Want
<1>9. ASSUME NEW node, ToggleNode(node) PROVE Table!TableNext
  BY <1>2, <1>9 DEF ToggleNode, hubState
<1>10. ASSUME NEW k \in Keys, AnswerCommand(k) PROVE Table!TableNext
  <2>1. inspected' \in {e \in past : e.key \in wanted} \cup {Null}
    BY <1>10, AnswerIsWanted
  <2>2. UNCHANGED <<past, summaries, wanted>>
    BY <1>10 DEF AnswerCommand, hubState
  <2> QED
    BY <2>1, <2>2 DEF Table!TableNext, Table!Inspect
<1>11. ASSUME NEW k \in Keys, FailCommand(k) PROVE Table!TableNext
  BY <1>2, <1>11 DEF FailCommand, hubState
<1>12. CASE UNCHANGED windowVars
  BY <1>12 DEF windowVars, hubState, viewState, Table!tableVars
<1> QED
  BY <1>3, <1>4, <1>5, <1>6, <1>7, <1>8, <1>9, <1>10, <1>11, <1>12 DEF WindowNext

(***************************************************************************)
(* The database workspace implements the live table: rows that the hub     *)
(* once had, each command once, and a detail that was asked for, though    *)
(* nothing compares revisions and answers come late (DatabaseWorkspace     *)
(* .tsx:24-60, databaseTree.ts).                                           *)
(***************************************************************************)
THEOREM WindowImplementsLiveTable == WindowSpec => ImplementsLiveTable
<1>1. WindowInit => Table!TableInit
  BY DEF WindowInit, Table!TableInit
<1>2. WindowInv /\ WindowInv' /\ [WindowNext]_windowVars => [Table!TableNext]_(Table!tableVars)
  BY StepImplements
<1> QED
  BY <1>1, <1>2, WindowInvariant, PTL DEF WindowSpec, ImplementsLiveTable, Table!TableSpec

---------------------------------------------------------------------------------------
(* Rows against what is still on its way. *)

About(rows, k) == {r \in rows : r.key = k}

(* The row of command k that a batch leaves where it is applied. *)
Says(batch, k) ==
  IF batch.kind # "reset" /\ k \in batch.removes THEN {} ELSE About(batch.upserts, k)

OnTheWay ==
  {unpublished[p] : p \in Publishers} \cup {channel[i] : i \in 1 .. Len(channel)} \cup {reset, initial}

(* A batch no older than the newest change of a command tells it as the     *)
(* hub has it.                                                              *)
NewestAreTheHubs(last) ==
  \A b \in OnTheWay \ {Null, Idle, Asked} :
     /\ b.at \in 0 .. mutations
     /\ \A k \in Touched(b) : b.at >= last[k] => Says(b, k) = About(hub, k)

(* Some batch still tells the newest change of command k. *)
WillTell(k, at) ==
  \/ \E p \in Publishers : /\ unpublished[p] # Null
                           /\ unpublished[p].at = at /\ k \in Touched(unpublished[p])
  \/ \E i \in 1 .. Len(channel) : channel[i].at = at /\ k \in Touched(channel[i])

(* The changes up to here have reached command k's row, were missed, or are *)
(* in the snapshot that the subscription starts with.                       *)
UpTo(k) == {told[k]} \cup (IF stream = "snapshot" THEN {reset.at} ELSE {})

NothingIsLost(last) ==
  (stream = "open" /\ ~lagged) \/ stream = "snapshot" =>
     \A k \in Keys : (\A n \in UpTo(k) : n < last[k]) => WillTell(k, last[k])

(* The first snapshot of the subscription has been applied. *)
Started == stream = "open" \/ (hosted /\ stream = "snapshot")

RowsAreNewest(last) ==
  Started => \A k \in Keys \ doubtful : told[k] >= last[k] => About(summaries, k) = About(hub, k)

TimesInv(last) ==
  /\ last \in [Keys -> 0 .. mutations] /\ told \in [Keys -> 0 .. mutations]
  /\ hosted \in BOOLEAN /\ doubtful \subseteq Keys
  /\ stream = "snapshot" => reset.kind = "reset"
  /\ hosted /\ stream = "snapshot" => \A k \in Keys : told[k] >= reset.at

FreshInv(last) ==
  TimesInv(last) /\ NewestAreTheHubs(last) /\ NothingIsLost(last) /\ RowsAreNewest(last)

(***************************************************************************)
(* Why the rows end as the hub's: there is a newest change of every        *)
(* command, and it is in the row, or missed, or still on its way; a batch  *)
(* or a row that is as new as that is as the hub has it.                   *)
(***************************************************************************)
IsFresh == \E last \in [Keys -> Nat] : FreshInv(last)

LEMMA InitFresh == WindowInit => IsFresh
<1> SUFFICES ASSUME WindowInit PROVE IsFresh
  OBVIOUS
<1> DEFINE last == [k \in Keys |-> 0]
<1>1. TimesInv(last)
  BY DEF WindowInit, TimesInv
<1>2. NewestAreTheHubs(last)
  <2>1. OnTheWay \subseteq {Null, Idle, Asked}
    BY DEF WindowInit, OnTheWay
  <2> QED
    BY <2>1 DEF NewestAreTheHubs
<1>3. NothingIsLost(last) /\ RowsAreNewest(last)
  BY DEF WindowInit, NothingIsLost, RowsAreNewest, Started
<1>4. last \in [Keys -> Nat]
  OBVIOUS
<1> QED
  BY <1>1, <1>2, <1>3, <1>4 DEF IsFresh, FreshInv

LEMMA QuietFresh == WindowInv /\ IsFresh => QuietRowsAreTheHubs
<1> SUFFICES ASSUME WindowInv, IsFresh, Quiet
             PROVE  {r \in summaries : r.key \notin doubtful} = {c \in hub : c.key \notin doubtful}
  BY DEF QuietRowsAreTheHubs
<1>1. PICK last \in [Keys -> Nat] : FreshInv(last)
  BY DEF IsFresh
<1>2. ASSUME NEW k \in Keys \ doubtful
      PROVE  About(summaries, k) = About(hub, k)
  <2>1. ~WillTell(k, last[k])
    BY DEF Quiet, WillTell
  <2>2. told[k] \in Nat /\ last[k] \in Nat
    BY <1>1 DEF FreshInv, TimesInv
  <2>3. told[k] >= last[k]
    BY <1>1, <2>1, <2>2 DEF FreshInv, NothingIsLost, UpTo, Quiet
  <2> QED
    BY <1>1, <2>3 DEF FreshInv, RowsAreNewest, Started, Quiet
<1>3. \A r \in summaries \cup hub : r.key \in Keys
  BY DEF WindowInv, HubInv, ViewInv, GoodRows, Summary
<1>4. ASSUME NEW r, r.key \in Keys, r.key \notin doubtful
      PROVE  r \in summaries <=> r \in hub
  BY <1>2, <1>4 DEF About
<1> QED
  BY <1>3, <1>4

---------------------------------------------------------------------------------------
(* A batch that is applied. *)

LEMMA RaisedTimes ==
  ASSUME told \in [Keys -> 0 .. mutations], NEW b, b.at \in 0 .. mutations
  PROVE  /\ Raise(b) \in [Keys -> 0 .. mutations]
         /\ \A k \in Keys : Raise(b)[k] >= told[k]
         /\ \A k \in Keys \ Touched(b) : Raise(b)[k] = told[k]
         /\ \A k \in Keys \cap Touched(b) : Raise(b)[k] >= b.at
         /\ \A k \in Keys \cap Touched(b) : told[k] <= b.at => Raise(b)[k] = b.at
<1> DEFINE raised(k) == IF k \in Touched(b) /\ told[k] < b.at THEN b.at ELSE told[k]
<1>1. \A k \in Keys : Raise(b)[k] = raised(k)
  BY DEF Raise
<1>2. \A k \in Keys : told[k] \in Int /\ told[k] \in 0 .. mutations
  OBVIOUS
<1>3. \A k \in Keys : raised(k) \in 0 .. mutations
  BY <1>2
<1>4. Raise(b) \in [Keys -> 0 .. mutations]
  <2> HIDE DEF raised
  <2>1. Raise(b) = [k \in Keys |-> raised(k)]
    BY DEF Raise, raised
  <2> QED
    BY <1>3, <2>1
<1> QED
  BY <1>1, <1>2, <1>4

LEMMA RowsAfterApply ==
  ASSUME NEW b \in GoodBatches, Apply(b), NEW k \in Keys
  PROVE  /\ k \in Touched(b) => About(summaries', k) = Says(b, k)
         /\ k \notin Touched(b) => About(summaries', k) = About(summaries, k)
<1>1. summaries' = ApplyDatabaseDeltas(summaries, b)
  BY DEF Apply
<1>2. CASE b.kind = "reset"
  BY <1>1, <1>2 DEF ApplyDatabaseDeltas, Touched, About, Says
<1>3. CASE b.kind # "reset"
  <2>1. \A r : r \in summaries' <=> /\ r.key \notin b.removes
                                    /\ \/ r \in summaries /\ r.key \notin KeysOf(b.upserts)
                                       \/ r \in b.upserts
    BY <1>1, <1>3 DEF ApplyDatabaseDeltas
  <2>2. \A r \in b.upserts : r.key \in KeysOf(b.upserts)
    BY DEF KeysOf
  <2>3. CASE k \in b.removes
    BY <1>3, <2>1, <2>3 DEF Touched, About, Says
  <2>4. CASE k \notin b.removes
    BY <1>3, <2>1, <2>2, <2>4 DEF Touched, About, Says
  <2> QED
    BY <2>3, <2>4
<1> QED
  BY <1>2, <1>3

LEMMA TouchedAreKeys ==
  ASSUME WindowInv, NEW b \in OnTheWay \ {Null, Idle, Asked}
  PROVE  b \in GoodBatches /\ Touched(b) \subseteq Keys
<1>1. b \in GoodBatches
  <2>1. channel \in Seq(GoodBatches)
    BY DEF WindowInv, StreamInv
  <2>2. \A i \in 1 .. Len(channel) : channel[i] \in GoodBatches
    BY <2>1
  <2> QED
    BY <2>2 DEF WindowInv, HubInv, StreamInv, ViewInv, OnTheWay
<1>2. b.upserts \subseteq Summary /\ b.removes \subseteq Keys
  BY <1>1 DEF GoodBatches, BatchOf, WindowInv, HubInv
<1> QED
  BY <1>1, <1>2 DEF Touched, KeysOf, Summary

LEMMA GoodIsAnswer ==
  ASSUME NEW b \in GoodBatches
  PROVE  b # Idle /\ b # Asked
<1>1. b.kind \in {"changes", "reset"}
  BY DEF GoodBatches, BatchOf
<1> QED
  BY <1>1 DEF Idle, Asked

LEMMA ResetIsOnTheWay ==
  ASSUME WindowInv, stream = "snapshot"
  PROVE  reset \in GoodBatches /\ reset \in OnTheWay \ {Null, Idle, Asked}
<1>1. reset \in GoodBatches /\ reset # Null
  BY DEF WindowInv, StreamInv
<1> QED
  BY <1>1, GoodIsAnswer DEF OnTheWay

(* What a batch does to the times, the doubts and a row. *)
LEMMA ApplyIsFresh ==
  ASSUME NEW last \in [Keys -> Nat], TimesInv(last), NEW b \in GoodBatches, Apply(b),
         b.at \in 0 .. mutations, Touched(b) \subseteq Keys,
         \A k \in Touched(b) : b.at >= last[k] => Says(b, k) = About(hub, k)
  PROVE  /\ told' \in [Keys -> 0 .. mutations] /\ doubtful' \subseteq Keys
         /\ \A k \in Keys : told'[k] >= told[k]
         /\ \A k \in Touched(b) : told'[k] >= b.at
         /\ \A k \in Touched(b) \ doubtful' :
               told'[k] >= last[k] => About(summaries', k) = About(hub, k)
         /\ \A k \in Keys \ Touched(b) : /\ told'[k] = told[k] /\ (k \in doubtful' <=> k \in doubtful)
                                         /\ About(summaries', k) = About(summaries, k)
<1>1. /\ told' = Raise(b)
      /\ doubtful' = (doubtful \ Touched(b)) \cup {k \in Touched(b) : told[k] > b.at}
  BY DEF Apply
<1>2. told \in [Keys -> 0 .. mutations] /\ doubtful \subseteq Keys
  BY DEF TimesInv
<1>3. /\ told' \in [Keys -> 0 .. mutations]
      /\ \A k \in Keys : told'[k] >= told[k]
      /\ \A k \in Keys \ Touched(b) : told'[k] = told[k]
      /\ \A k \in Keys \cap Touched(b) : told'[k] >= b.at
      /\ \A k \in Keys \cap Touched(b) : told[k] <= b.at => told'[k] = b.at
  BY <1>1, <1>2, RaisedTimes
<1>4. ASSUME NEW k \in Touched(b) \ doubtful', told'[k] >= last[k]
      PROVE  About(summaries', k) = About(hub, k)
  <2>1. k \in Keys /\ ~(told[k] > b.at) /\ told[k] \in Int
    BY <1>1, <1>2, <1>4
  <2>2. told'[k] = b.at
    BY <1>3, <2>1
  <2> QED
    BY <1>4, <2>1, <2>2, RowsAfterApply
<1>5. ASSUME NEW k \in Keys \ Touched(b)
      PROVE  (k \in doubtful' <=> k \in doubtful) /\ About(summaries', k) = About(summaries, k)
  BY <1>1, RowsAfterApply
<1>6. doubtful' \subseteq Keys
  BY <1>1, <1>2
<1> QED
  BY <1>3, <1>4, <1>5, <1>6

---------------------------------------------------------------------------------------
(* A change of the hub. *)

(* Publisher p holds a batch that tells what the change has touched. *)
LEMMA ChangeIsFresh ==
  ASSUME WindowInv, NEW last \in [Keys -> Nat], FreshInv(last),
         mutations' = mutations + 1,
         UNCHANGED <<hosted, streamState, viewState, doubts>>,
         NEW p \in Publishers, unpublished[p] = Null,
         NEW b, b # Null, unpublished' = [unpublished EXCEPT ![p] = b], b.at = mutations + 1,
         \A k \in Touched(b) : Says(b, k) = About(hub', k),
         \A k \in Keys \ Touched(b) : About(hub', k) = About(hub, k)
  PROVE  IsFresh'
<1>1. /\ mutations \in Nat /\ last \in [Keys -> 0 .. mutations]
      /\ told \in [Keys -> 0 .. mutations] /\ unpublished \in [Publishers -> GoodBatches \cup {Null}]
  BY WindowAssumption DEF WindowInv, HubInv, FreshInv, TimesInv
<1>2. PICK newest \in [Keys -> 0 .. mutations + 1] :
         \A k \in Keys : newest[k] = IF k \in Touched(b) THEN mutations + 1 ELSE last[k]
  <2> DEFINE f == [k \in Keys |-> IF k \in Touched(b) THEN mutations + 1 ELSE last[k]]
  <2>1. f \in [Keys -> 0 .. mutations + 1] /\ \A k \in Keys : f[k] = IF k \in Touched(b) THEN mutations + 1 ELSE last[k]
    BY <1>1
  <2> QED
    BY <2>1
<1>3. TimesInv(newest)'
  <2>1. told' \in [Keys -> 0 .. mutations'] /\ newest \in [Keys -> 0 .. mutations']
    BY <1>1, <1>2 DEF doubts
  <2> QED
    BY <2>1 DEF FreshInv, TimesInv, streamState, doubts
<1>4. \A k \in Keys : \/ k \in Touched(b) /\ newest[k] = mutations + 1
                      \/ k \notin Touched(b) /\ newest[k] = last[k] /\ About(hub', k) = About(hub, k)
  BY <1>2
<1>5. unpublished'[p] = b /\ \A q \in Publishers \ {p} : unpublished'[q] = unpublished[q]
  BY <1>1
<1>6. \A c : Touched(c)' = Touched(c) /\ \A k : Says(c, k)' = Says(c, k)
  BY DEF Touched, Says, About
<1>7. \A c \in OnTheWay' : c = b \/ c \in OnTheWay
  BY <1>5 DEF OnTheWay, streamState, viewState
<1>8. NewestAreTheHubs(newest)'
  <2> SUFFICES ASSUME NEW c \in OnTheWay' \ {Null, Idle, Asked}
               PROVE  /\ c.at \in 0 .. mutations'
                      /\ \A k \in Touched(c) : c.at >= newest[k] => Says(c, k) = About(hub', k)
    BY <1>6 DEF NewestAreTheHubs, Idle, Asked, About
  <2>1. CASE c = b
    BY <1>1, <2>1
  <2>2. CASE c \in OnTheWay
    <3>1. /\ c.at \in 0 .. mutations
          /\ \A k \in Touched(c) : c.at >= last[k] => Says(c, k) = About(hub, k)
      BY <2>2 DEF FreshInv, NewestAreTheHubs
    <3>2. ASSUME NEW k \in Touched(c), c.at >= newest[k], k \in Keys
          PROVE  Says(c, k) = About(hub', k)
      BY <1>1, <1>4, <3>1, <3>2
    <3>3. Touched(c) \subseteq Keys
      BY <1>1, <2>2, TouchedAreKeys DEF WindowInv, StreamInv, ViewInv
    <3> QED
      BY <1>1, <3>1, <3>2, <3>3
  <2> QED
    BY <1>7, <2>1, <2>2
<1>9. NothingIsLost(newest)'
  <2> SUFFICES ASSUME (stream = "open" /\ ~lagged) \/ stream = "snapshot",
                      NEW k \in Keys, \A n \in UpTo(k) : n < newest[k]
               PROVE  WillTell(k, newest[k])'
    BY DEF NothingIsLost, UpTo, streamState, doubts
  <2>1. CASE k \in Touched(b)
    BY <1>4, <1>5, <1>6, <2>1 DEF WillTell
  <2>2. CASE k \notin Touched(b)
    <3>1. WillTell(k, last[k])
      BY <1>4, <2>2 DEF FreshInv, NothingIsLost
    <3>2. CASE \E q \in Publishers : /\ unpublished[q] # Null
                                     /\ unpublished[q].at = last[k] /\ k \in Touched(unpublished[q])
      <4>1. PICK q \in Publishers : /\ unpublished[q] # Null
                                    /\ unpublished[q].at = last[k] /\ k \in Touched(unpublished[q])
        BY <3>2
      <4>2. unpublished'[q] = unpublished[q]
        BY <1>5, <4>1
      <4> QED
        BY <1>4, <1>6, <2>2, <4>1, <4>2 DEF WillTell
    <3>3. CASE \E i \in 1 .. Len(channel) : channel[i].at = last[k] /\ k \in Touched(channel[i])
      BY <1>4, <1>6, <2>2, <3>3 DEF WillTell, streamState
    <3> QED
      BY <3>1, <3>2, <3>3 DEF WillTell
  <2> QED
    BY <2>1, <2>2
<1>10. RowsAreNewest(newest)'
  <2> SUFFICES ASSUME Started, NEW k \in Keys \ doubtful, told[k] >= newest[k]
               PROVE  About(summaries, k) = About(hub', k)
    BY DEF RowsAreNewest, Started, streamState, viewState, doubts, About
  <2>1. newest[k] = last[k] /\ About(hub', k) = About(hub, k)
    BY <1>1, <1>4
  <2> QED
    BY <2>1 DEF FreshInv, RowsAreNewest
<1> QED
  <2>1. newest \in [Keys -> Nat]
    BY <1>1, <1>2
  <2>2. FreshInv(newest)'
    BY <1>3, <1>8, <1>9, <1>10 DEF FreshInv
  <2> QED
    BY <2>1, <2>2 DEF IsFresh

LEMMA IngestIsFresh ==
  ASSUME WindowInv, NEW last \in [Keys -> Nat], FreshInv(last),
         NEW k \in Keys, NEW done \in BOOLEAN, Ingest(k, done)
  PROVE  IsFresh'
<1> DEFINE current == {c \in hub : c.key = k}
           begun   == [key |-> k, revision |-> 1, arrival |-> arrivals, done |-> done]
           next    == IF current = {} THEN begun
                      ELSE LET c == CHOOSE c \in current : TRUE
                           IN  [c EXCEPT !.revision = @ + 1, !.done = done]
           kept    == (hub \ current) \cup {next}
           gone    == KeysOf(Evicted(kept))
           b       == Batch("changes", mutations + 1, {next}, gone)
<1>1. next.key = k
  <2>1. ASSUME NEW c \in current
        PROVE  [c EXCEPT !.revision = @ + 1, !.done = done].key = k
    <3>1. c \in Summary
      BY DEF WindowInv, HubInv, GoodRows
    <3> QED
      BY <3>1, RevisedSummary
  <2>2. current # {} => (CHOOSE c \in current : TRUE) \in current
    OBVIOUS
  <2> QED
    BY <2>1, <2>2
<1>2. /\ hub' = kept \ Evicted(kept)
      /\ Mutate("processor", {next}, gone)
      /\ UNCHANGED <<hosted, streamState, viewState, doubts>>
  BY DEF Ingest
<1> HIDE DEF next
<1>3. /\ mutations' = mutations + 1 /\ unpublished["processor"] = Null
      /\ unpublished' = [unpublished EXCEPT !["processor"] = b]
  BY <1>2 DEF Mutate
<1>4. /\ b.kind = "changes" /\ b.at = mutations + 1 /\ b.upserts = {next} /\ b.removes = gone
      /\ Touched(b) = {k} \cup gone
  BY <1>1 DEF Batch, Touched, KeysOf
<1>5. \A c \in kept, d \in kept : c.key = d.key => c = d
  <2>1. \A c \in hub \ current : c.key # k
    OBVIOUS
  <2> HIDE DEF current
  <2> QED
    BY <1>1, <2>1 DEF WindowInv, HubInv, GoodRows, Table!OncePerKey
<1>6. \A c \in hub : c.key = k <=> c \in current
  OBVIOUS
<1>7. \A c : c \in Evicted(kept) => c \in kept /\ c.key \in gone
  <2> HIDE DEF kept
  <2> QED
    BY DEF Evicted, KeysOf
<1>8. \A j \in gone : \E c \in Evicted(kept) : c.key = j
  BY DEF KeysOf
<1>9. ASSUME NEW j \in Touched(b)
      PROVE  Says(b, j) = About(hub', j)
  <2>1. CASE j \in gone
    <3>1. About(hub', j) = {}
      <4> HIDE DEF kept, gone
      <4> QED
        BY <1>2, <1>5, <1>7, <1>8, <2>1 DEF About
    <3> HIDE DEF b, gone
    <3> QED
      BY <1>4, <2>1, <3>1 DEF Says
  <2>2. CASE j \notin gone
    <3>1. j = k
      BY <1>4, <2>2
    <3>2. next \notin Evicted(kept)
      BY <1>1, <1>7, <2>2, <3>1
    <3>3. About(hub', j) = {next}
      <4>1. \A c \in kept : c.key = k => c = next
        BY <1>1, <1>5
      <4> HIDE DEF gone, current
      <4> QED
        BY <1>1, <1>2, <3>1, <3>2, <4>1 DEF About
    <3>4. Says(b, j) = About({next}, j)
      <4> HIDE DEF b, gone
      <4> QED
        BY <1>4, <2>2 DEF Says
    <3> QED
      BY <1>1, <3>1, <3>3, <3>4 DEF About
  <2> QED
    BY <2>1, <2>2
<1>10. ASSUME NEW j \in Keys \ Touched(b)
       PROVE  About(hub', j) = About(hub, j)
  <2>1. j # k /\ j \notin gone
    BY <1>4
  <2>2. \A c : c.key = j => (c \in kept <=> c \in hub) /\ c \notin Evicted(kept)
    BY <1>1, <1>7, <2>1
  <2> HIDE DEF kept, gone, current
  <2> QED
    BY <1>2, <2>2 DEF About
<1>11. b # Null
  <2>1. unpublished'["processor"] \in GoodBatches' \cup {Null} /\ past' \subseteq Summary
    BY IngestKeepsInv DEF WindowInv, HubInv, Publishers
  <2>2. b \in BatchOf(Summary)
    <3>1. next \in past' /\ gone \subseteq Keys /\ mutations + 1 \in Nat
      <4>1. past' = past \cup {next}
        BY <1>2 DEF Mutate
      <4>2. mutations + 1 \in Nat
        BY WindowAssumption DEF WindowInv, HubInv
      <4>3. kept \subseteq Summary
        BY <2>1, <4>1 DEF WindowInv, HubInv, GoodRows
      <4>4. gone \subseteq Keys
        <5> HIDE DEF kept
        <5> QED
          BY <1>7, <4>3 DEF KeysOf, Summary
      <4> QED
        BY <4>1, <4>2, <4>4
    <3> HIDE DEF gone
    <3> QED
      BY <2>1, <3>1 DEF Batch, BatchOf
  <2> QED
    BY <2>2, WindowAssumption
<1> HIDE DEF b, gone
<1> QED
  BY <1>2, <1>3, <1>4, <1>9, <1>10, <1>11, ChangeIsFresh DEF Publishers

LEMMA DisconnectIsFresh ==
  ASSUME WindowInv, NEW last \in [Keys -> Nat], FreshInv(last), NEW source, Disconnect(source)
  PROVE  IsFresh'
<1> DEFINE open   == {c \in hub : c.key.source = source /\ ~c.done}
           ended(c) == [c EXCEPT !.revision = @ + 1, !.done = TRUE]
           marked == {ended(c) : c \in open}
           b      == Batch("changes", mutations + 1, marked, {})
<1>1. /\ hub' = (hub \ open) \cup marked
      /\ Mutate("connection", marked, {})
      /\ UNCHANGED <<hosted, streamState, viewState, doubts>>
  BY DEF Disconnect
<1>2. ASSUME NEW c \in hub
      PROVE  c \in Summary /\ ended(c) \in Summary /\ ended(c).key = c.key
  <2>1. c \in Summary
    BY DEF WindowInv, HubInv, GoodRows
  <2> QED
    BY <2>1, RevisedSummary
<1> HIDE DEF ended
<1>3. \A j : j \in KeysOf(marked) <=> j \in KeysOf(open)
  BY <1>2 DEF KeysOf
<1>4. \A c \in hub : c \in open <=> c.key \in KeysOf(open)
  BY DEF KeysOf, WindowInv, HubInv, GoodRows, Table!OncePerKey
<1>5. marked \subseteq Summary
  BY <1>2
<1>6. \A m \in marked : m.key \in KeysOf(marked)
  BY DEF KeysOf
<1> HIDE DEF open, marked
<1>7. /\ mutations' = mutations + 1 /\ unpublished["connection"] = Null
      /\ unpublished' = [unpublished EXCEPT !["connection"] = b]
  BY <1>1 DEF Mutate
<1>8. /\ b.kind = "changes" /\ b.at = mutations + 1 /\ b.upserts = marked /\ b.removes = {}
      /\ Touched(b) = KeysOf(marked)
  BY DEF Batch, Touched
<1>9. b # Null
  <2>1. mutations + 1 \in Nat
    BY WindowAssumption DEF WindowInv, HubInv
  <2>2. b \in BatchOf(Summary)
    BY <1>5, <2>1 DEF Batch, BatchOf
  <2> QED
    BY <2>2, WindowAssumption
<1> HIDE DEF b
<1>10. \A j \in Touched(b) : Says(b, j) = About(hub', j)
  BY <1>1, <1>3, <1>4, <1>8 DEF Says, About
<1>11. \A j \in Keys \ Touched(b) : About(hub', j) = About(hub, j)
  BY <1>1, <1>3, <1>4, <1>6, <1>8 DEF About
<1> QED
  BY <1>1, <1>7, <1>8, <1>9, <1>10, <1>11, ChangeIsFresh DEF Publishers

LEMMA ClearIsFresh ==
  ASSUME WindowInv, NEW last \in [Keys -> Nat], FreshInv(last), Clear
  PROVE  IsFresh'
<1> DEFINE b == Batch("reset", mutations + 1, {}, {})
<1>1. /\ unpublished["user"] = Null /\ mutations' = mutations + 1 /\ hub' = {}
      /\ UNCHANGED <<hosted, streamState, viewState>>
  BY DEF Clear
<1>2. b.kind = "reset" /\ b.at = mutations + 1 /\ b.upserts = {} /\ Touched(b) = Keys
  BY DEF Batch, Touched
<1>3. mutations \in Nat /\ told \in [Keys -> 0 .. mutations] /\ last \in [Keys -> 0 .. mutations]
  BY WindowAssumption DEF WindowInv, HubInv, FreshInv, TimesInv
<1>4. b # Null
  <2>1. b \in BatchOf(Summary)
    BY <1>3 DEF Batch, BatchOf
  <2> QED
    BY <2>1, WindowAssumption
<1>5. CASE ~hosted
  <2>1. unpublished' = [unpublished EXCEPT !["user"] = b] /\ UNCHANGED doubts
    BY <1>5 DEF Clear
  <2> HIDE DEF b
  <2>2. \A k \in Touched(b) : Says(b, k) = About(hub', k)
    BY <1>1, <1>2 DEF Says, About
  <2> QED
    BY <1>1, <1>2, <1>4, <2>1, <2>2, ChangeIsFresh DEF Publishers
<1>6. CASE hosted
  <2>1. Miss(b) /\ UNCHANGED unpublished
    BY <1>6 DEF Clear
  <2> HIDE DEF b
  <2>2. PICK newest \in [Keys -> {mutations + 1}] : TRUE
    <3>1. [k \in Keys |-> mutations + 1] \in [Keys -> {mutations + 1}]
      OBVIOUS
    <3> QED
      BY <3>1
  <2>3. mutations + 1 \in 0 .. mutations' /\ mutations + 1 \in Nat
    BY <1>1, <1>3
  <2>4. newest \in [Keys -> 0 .. mutations'] /\ newest \in [Keys -> Nat]
    BY <2>2, <2>3
  <2>5. \/ mounted /\ told' = [k \in Keys |-> mutations + 1] /\ doubtful' = Keys
        \/ ~mounted /\ UNCHANGED doubts
    <3>1. CASE mounted
      <4>1. Raise(b) = [k \in Keys |-> mutations + 1]
        <5>1. \A k \in Keys : told[k] < b.at
          BY <1>2, <1>3
        <5> QED
          BY <1>2, <5>1 DEF Raise
      <4>2. doubtful \subseteq Keys
        BY DEF FreshInv, TimesInv
      <4> QED
        BY <1>2, <2>1, <3>1, <4>1, <4>2 DEF Miss
    <3>2. CASE ~mounted
      BY <2>1, <3>2 DEF Miss
    <3> QED
      BY <3>1, <3>2
  <2>6. told' \in [Keys -> 0 .. mutations'] /\ \A k \in Keys : told'[k] >= told[k]
    BY <1>1, <1>3, <2>3, <2>5 DEF doubts
  <2>7. TimesInv(newest)'
    <3>1. doubtful' \subseteq Keys
      BY <2>5 DEF FreshInv, TimesInv, doubts
    <3>2. hosted /\ stream = "snapshot" => \A k \in Keys : told'[k] >= reset.at
      <4> SUFFICES ASSUME stream = "snapshot", NEW k \in Keys PROVE told'[k] >= reset.at
        BY <1>6
      <4>1. reset \in OnTheWay \ {Null, Idle, Asked}
        BY <1>6, ResetIsOnTheWay
      <4>2. reset.at \in Int
        BY <1>3, <4>1 DEF FreshInv, NewestAreTheHubs
      <4>3. told[k] >= reset.at
        BY <1>6 DEF FreshInv, TimesInv
      <4> QED
        BY <1>1, <1>3, <2>6, <4>2, <4>3
    <3> QED
      BY <1>1, <2>4, <2>6, <3>1, <3>2 DEF FreshInv, TimesInv, streamState
  <2>8. NewestAreTheHubs(newest)'
    <3>1. OnTheWay' = OnTheWay
      BY <1>1, <2>1 DEF OnTheWay, streamState, viewState
    <3>2. ASSUME NEW c \in OnTheWay \ {Null, Idle, Asked}
          PROVE  /\ c.at \in 0 .. mutations'
                 /\ \A k \in Touched(c) : ~(c.at >= newest[k])
      <4>1. c.at \in 0 .. mutations
        BY <3>2 DEF FreshInv, NewestAreTheHubs
      <4>2. Touched(c) \subseteq Keys
        BY TouchedAreKeys
      <4> QED
        BY <1>1, <1>3, <2>2, <4>1, <4>2
    <3> QED
      BY <3>1, <3>2 DEF NewestAreTheHubs, Touched, Idle, Asked
  <2>9. NothingIsLost(newest)'
    <3>1. mounted => \A k \in Keys : told'[k] = newest[k]
      BY <2>2, <2>5
    <3>2. ~mounted => stream = "off"
      BY DEF WindowInv, ViewInv
    <3> QED
      BY <1>1, <2>3, <2>4, <3>1, <3>2 DEF NothingIsLost, UpTo, streamState
  <2>10. RowsAreNewest(newest)'
    <3>1. ~mounted => stream = "off"
      BY DEF WindowInv, ViewInv
    <3> QED
      BY <1>1, <2>5, <3>1 DEF RowsAreNewest, Started, streamState
  <2> QED
    BY <2>4, <2>7, <2>8, <2>9, <2>10 DEF IsFresh, FreshInv
<1> QED
  BY <1>5, <1>6

---------------------------------------------------------------------------------------
(* The stream. *)

LEMMA PublishIsFresh ==
  ASSUME WindowInv, NEW last \in [Keys -> Nat], FreshInv(last), NEW p \in Publishers, Publish(p)
  PROVE  FreshInv(last)'
<1> DEFINE b == unpublished[p]
<1>1. /\ b # Null
      /\ unpublished' = [unpublished EXCEPT ![p] = Null]
      /\ UNCHANGED <<hosted, hub, mutations, stream, reset, viewState>>
  BY DEF Publish
<1>2. /\ channel \in Seq(GoodBatches) /\ unpublished \in [Publishers -> GoodBatches \cup {Null}]
      /\ mutations \in Nat /\ told \in [Keys -> 0 .. mutations] /\ last \in [Keys -> 0 .. mutations]
      /\ doubtful \subseteq Keys
  BY WindowAssumption DEF WindowInv, HubInv, StreamInv, FreshInv, TimesInv
<1>3. b \in OnTheWay \ {Null, Idle, Asked}
  <2>1. b \in GoodBatches
    BY <1>1, <1>2
  <2> QED
    BY <1>1, <2>1, GoodIsAnswer DEF OnTheWay
<1>4. Touched(b) \subseteq Keys /\ b \in GoodBatches /\ b.at \in 0 .. mutations
  BY <1>3, TouchedAreKeys DEF FreshInv, NewestAreTheHubs
<1>5. unpublished'[p] = Null /\ \A q \in Publishers \ {p} : unpublished'[q] = unpublished[q]
  BY <1>1, <1>2
<1>6. \A c : Touched(c)' = Touched(c) /\ \A k : Says(c, k)' = Says(c, k)
  BY DEF Touched, Says, About
<1> HIDE DEF b
<1>7. \/ stream = "open" /\ ~IsFull /\ channel' = Append(channel, b) /\ (lagged => lagged')
      \/ stream = "open" /\ IsFull /\ channel' = Append(Tail(channel), b) /\ lagged'
      \/ stream # "open" /\ UNCHANGED <<channel, lagged>>
  BY DEF Publish, b
<1>8. \A c \in OnTheWay' : c \in OnTheWay \cup {Null}
  <2>1. \A i \in 1 .. Len(channel') : channel'[i] \in OnTheWay
    <3>1. CASE stream = "open" /\ ~IsFull /\ channel' = Append(channel, b)
      <4>1. \A i \in 1 .. Len(channel') : channel'[i] = b \/ (i \in 1 .. Len(channel) /\ channel'[i] = channel[i])
        BY <1>2, <1>4, <3>1
      <4> QED
        BY <1>3, <4>1 DEF OnTheWay
    <3>2. CASE stream = "open" /\ IsFull /\ channel' = Append(Tail(channel), b)
      <4>1. channel # <<>>
        BY <1>2, <3>2, WindowAssumption DEF IsFull
      <4>2. /\ Tail(channel) \in Seq(GoodBatches) /\ Len(Tail(channel)) = Len(channel) - 1
            /\ \A i \in 1 .. Len(Tail(channel)) : Tail(channel)[i] = channel[i + 1]
        BY <1>2, <4>1, HeadTailProperties
      <4>3. \A i \in 1 .. Len(channel') :
               channel'[i] = b \/ (i \in 1 .. Len(Tail(channel)) /\ channel'[i] = Tail(channel)[i])
        <5> DEFINE rest == Tail(channel)
        <5>1. rest \in Seq(GoodBatches) /\ channel' = Append(rest, b)
          BY <3>2, <4>2
        <5> HIDE DEF rest
        <5>2. \A i \in 1 .. Len(channel') :
                 channel'[i] = b \/ (i \in 1 .. Len(rest) /\ channel'[i] = rest[i])
          BY <1>4, <5>1
        <5> QED
          BY <5>2 DEF rest
      <4>4. \A i \in 1 .. Len(Tail(channel)) : i + 1 \in 1 .. Len(channel)
        BY <1>2, <4>2
      <4> QED
        BY <1>3, <4>2, <4>3, <4>4 DEF OnTheWay
    <3>3. CASE stream # "open" /\ UNCHANGED <<channel, lagged>>
      BY <3>3 DEF OnTheWay
    <3> QED
      BY <1>7, <3>1, <3>2, <3>3
  <2>2. \A q \in Publishers : unpublished'[q] \in OnTheWay \cup {Null}
    BY <1>5 DEF OnTheWay
  <2>3. reset' \in OnTheWay /\ initial' \in OnTheWay
    BY <1>1 DEF OnTheWay, viewState
  <2> QED
    BY <2>1, <2>2, <2>3 DEF OnTheWay
<1>9. NewestAreTheHubs(last)'
  <2> SUFFICES ASSUME NEW c \in OnTheWay' \ {Null, Idle, Asked}
               PROVE  /\ c.at \in 0 .. mutations
                      /\ \A k \in Touched(c) : c.at >= last[k] => Says(c, k) = About(hub, k)
    BY <1>1, <1>6 DEF NewestAreTheHubs, Idle, Asked, About
  <2> QED
    BY <1>8 DEF FreshInv, NewestAreTheHubs
<1>10. \/ stream # "snapshot" /\ UNCHANGED doubts
       \/ stream = "snapshot" /\ ~(b.at > reset.at) /\ UNCHANGED doubts
       \/ /\ stream = "snapshot" /\ b.at > reset.at /\ mounted
          /\ told' = Raise(b) /\ doubtful' = doubtful \cup Touched(b)
  <2>1. stream = "snapshot" => mounted
    BY DEF WindowInv, ViewInv
  <2> QED
    BY <2>1 DEF Publish, Miss, b
<1>11. /\ told' \in [Keys -> 0 .. mutations]
       /\ \A k \in Keys : told'[k] >= told[k]
       /\ \A k \in Keys \ doubtful' : k \notin doubtful /\ told'[k] = told[k]
       /\ doubtful' \subseteq Keys
  <2>1. CASE UNCHANGED doubts
    BY <1>2, <2>1 DEF doubts
  <2>2. CASE told' = Raise(b) /\ doubtful' = doubtful \cup Touched(b)
    BY <1>2, <1>4, <2>2, RaisedTimes
  <2> QED
    BY <1>10, <2>1, <2>2
<1>12. TimesInv(last)'
  <2>1. ASSUME hosted, stream = "snapshot", NEW k \in Keys
        PROVE  told'[k] >= reset.at
    <3>1. reset.at \in Int
      BY <1>2, <2>1, ResetIsOnTheWay DEF FreshInv, NewestAreTheHubs
    <3>2. told[k] >= reset.at
      BY <2>1 DEF FreshInv, TimesInv
    <3> QED
      BY <1>2, <1>11, <3>1, <3>2
  <2> QED
    BY <1>1, <1>2, <1>11, <2>1 DEF FreshInv, TimesInv
<1>13. NothingIsLost(last)'
  <2> SUFFICES ASSUME (stream = "open" /\ ~lagged') \/ stream = "snapshot",
                      NEW k \in Keys, \A n \in UpTo(k)' : n < last[k]
               PROVE  WillTell(k, last[k])'
    BY <1>1 DEF NothingIsLost
  <2>1. told'[k] < last[k] /\ told[k] < last[k]
    BY <1>2, <1>11 DEF UpTo
  <2>2. stream = "snapshot" => reset.at < last[k]
    BY <1>1 DEF UpTo
  <2>3. WillTell(k, last[k])
    <3>1. (stream = "open" /\ ~lagged) \/ stream = "snapshot"
      BY <1>7
    <3>2. \A n \in UpTo(k) : n < last[k]
      BY <2>1, <2>2 DEF UpTo
    <3> QED
      BY <3>1, <3>2 DEF FreshInv, NothingIsLost
  <2>4. CASE \E i \in 1 .. Len(channel) : channel[i].at = last[k] /\ k \in Touched(channel[i])
    <3>1. PICK i \in 1 .. Len(channel) : channel[i].at = last[k] /\ k \in Touched(channel[i])
      BY <2>4
    <3>2. i \in 1 .. Len(channel') /\ channel'[i] = channel[i]
      BY <1>2, <1>4, <1>7
    <3> QED
      BY <1>6, <3>1, <3>2 DEF WillTell
  <2>5. CASE \E q \in Publishers : /\ unpublished[q] # Null
                                   /\ unpublished[q].at = last[k] /\ k \in Touched(unpublished[q])
    <3>1. PICK q \in Publishers : /\ unpublished[q] # Null
                                  /\ unpublished[q].at = last[k] /\ k \in Touched(unpublished[q])
      BY <2>5
    <3>2. CASE q # p
      <4>1. unpublished'[q] = unpublished[q]
        BY <1>5, <3>2
      <4> QED
        BY <1>6, <3>1, <4>1 DEF WillTell
    <3>3. CASE q = p
      <4>1. b.at = last[k] /\ k \in Touched(b)
        BY <3>1, <3>3 DEF b
      <4>2. CASE stream = "open"
        <5>1. Len(channel) + 1 \in 1 .. Len(channel') /\ channel'[Len(channel) + 1] = b
          BY <1>2, <1>4, <1>7, <4>2
        <5> QED
          BY <1>6, <4>1, <5>1 DEF WillTell
      <4>3. CASE stream = "snapshot"
        <5>1. b.at > reset.at
          <6>1. reset.at \in Int /\ last[k] \in Int
            BY <1>2, <4>3, ResetIsOnTheWay DEF FreshInv, NewestAreTheHubs
          <6> QED
            BY <2>2, <4>1, <4>3, <6>1
        <5>2. told' = Raise(b)
          BY <1>10, <4>3, <5>1
        <5>3. told'[k] >= last[k]
          BY <1>2, <1>4, <4>1, <5>2, RaisedTimes
        <5> QED
          BY <1>2, <1>11, <2>1, <5>3
      <4> QED
        BY <4>2, <4>3
    <3> QED
      BY <3>2, <3>3
  <2> QED
    BY <2>3, <2>4, <2>5 DEF WillTell
<1>14. RowsAreNewest(last)'
  <2> SUFFICES ASSUME Started, NEW k \in Keys \ doubtful', told'[k] >= last[k]
               PROVE  About(summaries, k) = About(hub, k)
    BY <1>1 DEF RowsAreNewest, Started, viewState, About
  <2> QED
    BY <1>11 DEF FreshInv, RowsAreNewest
<1> QED
  BY <1>9, <1>12, <1>13, <1>14 DEF FreshInv

(* A step that leaves the hub alone and puts nothing on the way but, at     *)
(* most, a snapshot.                                                        *)
LEMMA SnapshotsAreNewest ==
  ASSUME WindowInv, NEW last \in [Keys -> Nat], FreshInv(last), UNCHANGED hubState,
         OnTheWay' \subseteq OnTheWay \cup {Null, Idle, Asked, Snapshot}
  PROVE  NewestAreTheHubs(last)'
<1>1. hub' = hub /\ mutations' = mutations /\ mutations \in Nat
  BY WindowAssumption DEF hubState, WindowInv, HubInv
<1>2. \A c : Touched(c)' = Touched(c) /\ \A k : Says(c, k)' = Says(c, k)
  BY DEF Touched, Says, About
<1>3. Snapshot.at = mutations /\ \A k : Says(Snapshot, k) = About(hub, k)
  BY DEF Snapshot, Batch, Says
<1> SUFFICES ASSUME NEW c \in OnTheWay' \ {Null, Idle, Asked}
             PROVE  /\ c.at \in 0 .. mutations
                    /\ \A k \in Touched(c) : c.at >= last[k] => Says(c, k) = About(hub, k)
  BY <1>1, <1>2 DEF NewestAreTheHubs, Idle, Asked, About
<1>4. CASE c \in OnTheWay
  BY <1>4 DEF FreshInv, NewestAreTheHubs
<1>5. CASE c = Snapshot
  <2> HIDE DEF Snapshot
  <2> QED
    BY <1>1, <1>3, <1>5
<1> QED
  BY <1>4, <1>5

LEMMA SnapshotApplies ==
  ASSUME WindowInv, NEW last
  PROVE  /\ Snapshot \in GoodBatches /\ Snapshot.at = mutations /\ mutations \in 0 .. mutations
         /\ Touched(Snapshot) = Keys
         /\ \A k \in Keys : Snapshot.at >= last[k] => Says(Snapshot, k) = About(hub, k)
<1>1. Snapshot \in GoodBatches
  BY SnapshotIsGood DEF WindowInv
<1>2. mutations \in Nat
  BY WindowAssumption DEF WindowInv, HubInv
<1> QED
  BY <1>1, <1>2 DEF Snapshot, Batch, Touched, Says

(* The whole table as the hub has it: nothing is doubtful or lost then. *)
LEMMA SnapshotIsFresh ==
  ASSUME WindowInv, NEW last \in [Keys -> Nat], FreshInv(last), UNCHANGED <<hosted, hubState>>,
         Apply(Snapshot), OnTheWay' \subseteq OnTheWay \cup {Null, Idle, Asked, Snapshot},
         stream' = "snapshot" => reset'.at = mutations /\ reset'.kind = "reset"
  PROVE  FreshInv(last)'
<1>1. /\ Snapshot \in GoodBatches /\ Snapshot.at = mutations /\ mutations \in 0 .. mutations
      /\ Touched(Snapshot) = Keys
      /\ \A k \in Keys : Snapshot.at >= last[k] => Says(Snapshot, k) = About(hub, k)
  BY SnapshotApplies
<1>2. TimesInv(last) /\ last \in [Keys -> 0 .. mutations]
  BY DEF FreshInv, TimesInv
<1> HIDE DEF Snapshot
<1>3. /\ told' \in [Keys -> 0 .. mutations] /\ doubtful' \subseteq Keys
      /\ \A k \in Keys : told'[k] >= mutations
      /\ \A k \in Keys \ doubtful' : told'[k] >= last[k] => About(summaries', k) = About(hub, k)
  BY <1>1, <1>2, ApplyIsFresh
<1>4. NewestAreTheHubs(last)'
  BY SnapshotsAreNewest
<1>5. hub' = hub /\ mutations' = mutations /\ hosted' = hosted
  BY DEF hubState
<1>6. TimesInv(last)'
  BY <1>2, <1>3, <1>5 DEF TimesInv
<1>7. NothingIsLost(last)'
  <2>1. ASSUME NEW k \in Keys
        PROVE  ~(told'[k] < last[k])
    <3>1. told'[k] \in Int /\ last[k] \in 0 .. mutations /\ mutations \in Nat
      BY <1>2, <1>3, WindowAssumption DEF WindowInv, HubInv
    <3> QED
      BY <1>3, <3>1
  <2> QED
    BY <2>1 DEF NothingIsLost, UpTo
<1>8. RowsAreNewest(last)'
  BY <1>3, <1>5 DEF RowsAreNewest, About
<1> QED
  BY <1>4, <1>6, <1>7, <1>8 DEF FreshInv

LEMMA TakeSnapshotIsFresh ==
  ASSUME WindowInv, NEW last \in [Keys -> Nat], FreshInv(last), TakeSnapshot
  PROVE  FreshInv(last)'
<1>1. /\ stream' = "snapshot" /\ reset' = Snapshot
      /\ UNCHANGED <<hosted, hubState, channel, lagged, initial>>
  BY DEF TakeSnapshot
<1>2. OnTheWay' \subseteq OnTheWay \cup {Null, Idle, Asked, Snapshot}
  <2> HIDE DEF Snapshot
  <2> QED
    BY <1>1 DEF OnTheWay, hubState
<1>3. Snapshot.at = mutations /\ Snapshot.kind = "reset"
  BY DEF Snapshot, Batch
<1> HIDE DEF Snapshot
<1>4. CASE hosted
  <2>1. Apply(Snapshot)
    BY <1>4 DEF TakeSnapshot
  <2> QED
    BY <1>1, <1>2, <1>3, <2>1, SnapshotIsFresh
<1>5. CASE ~hosted
  <2>1. UNCHANGED <<summaries, doubts>>
    BY <1>5 DEF TakeSnapshot
  <2>2. NewestAreTheHubs(last)'
    BY <1>1, <1>2, SnapshotsAreNewest
  <2>3. TimesInv(last)'
    BY <1>1, <1>3, <1>5, <2>1 DEF FreshInv, TimesInv, hubState, doubts
  <2>4. NothingIsLost(last)'
    <3>1. \A k \in Keys : ~(mutations < last[k])
      <4>1. last \in [Keys -> 0 .. mutations] /\ mutations \in Nat
        BY WindowAssumption DEF FreshInv, TimesInv, WindowInv, HubInv
      <4> QED
        BY <4>1
    <3> QED
      BY <1>1, <1>3, <3>1 DEF NothingIsLost, UpTo
  <2>5. RowsAreNewest(last)'
    BY <1>1, <1>5 DEF RowsAreNewest, Started
  <2> QED
    BY <2>2, <2>3, <2>4, <2>5 DEF FreshInv
<1> QED
  BY <1>4, <1>5

LEMMA SubscribeIsFresh ==
  ASSUME WindowInv, NEW last \in [Keys -> Nat], FreshInv(last), Subscribe
  PROVE  FreshInv(last)'
<1>1. /\ stream = "snapshot" /\ stream' = "open" /\ reset' = Null
      /\ UNCHANGED <<hosted, hubState, channel, lagged, initial>>
  BY DEF Subscribe
<1>2. reset \in GoodBatches /\ reset \in OnTheWay \ {Null, Idle, Asked}
  BY <1>1, ResetIsOnTheWay
<1>3. NewestAreTheHubs(last)'
  <2>1. OnTheWay' \subseteq OnTheWay \cup {Null}
    BY <1>1 DEF OnTheWay, hubState
  <2> QED
    BY <1>1, <2>1, SnapshotsAreNewest
<1>4. /\ hub' = hub /\ mutations' = mutations /\ unpublished' = unpublished
      /\ \A c : Touched(c)' = Touched(c)
  BY <1>1 DEF hubState, Touched
<1>5. /\ last \in [Keys -> 0 .. mutations] /\ told \in [Keys -> 0 .. mutations]
      /\ reset.at \in 0 .. mutations /\ mutations \in Nat
  BY <1>2, WindowAssumption DEF FreshInv, TimesInv, NewestAreTheHubs, WindowInv, HubInv
<1>6. /\ TimesInv(last)' /\ RowsAreNewest(last)'
      /\ \A k \in Keys : told'[k] \in Int /\ told'[k] >= told[k] /\ told'[k] >= reset.at
  <2>1. CASE hosted
    <3>1. UNCHANGED <<summaries, doubts>>
      BY <2>1 DEF Subscribe
    <3>2. TimesInv(last)'
      BY <1>1, <1>4, <3>1 DEF FreshInv, TimesInv, doubts
    <3>3. RowsAreNewest(last)'
      BY <1>1, <1>4, <2>1, <3>1 DEF FreshInv, RowsAreNewest, Started, About, doubts
    <3>4. \A k \in Keys : told'[k] \in Int /\ told'[k] >= told[k] /\ told'[k] >= reset.at
      BY <1>1, <1>5, <2>1, <3>1 DEF FreshInv, TimesInv, doubts
    <3> QED
      BY <3>2, <3>3, <3>4
  <2>2. CASE ~hosted
    <3>1. Apply(reset) /\ Touched(reset) = Keys
      <4>1. reset.kind = "reset"
        BY <1>1 DEF FreshInv, TimesInv
      <4> QED
        BY <2>2, <4>1 DEF Subscribe, Touched
    <3>2. /\ told' \in [Keys -> 0 .. mutations] /\ doubtful' \subseteq Keys
          /\ \A k \in Keys : told'[k] >= told[k] /\ told'[k] >= reset.at
          /\ \A k \in Keys \ doubtful' : told'[k] >= last[k] => About(summaries', k) = About(hub, k)
      BY <1>2, <1>5, <3>1, ApplyIsFresh DEF FreshInv, NewestAreTheHubs
    <3>3. TimesInv(last)'
      BY <1>1, <1>4, <1>5, <2>2, <3>2 DEF FreshInv, TimesInv
    <3>4. RowsAreNewest(last)'
      BY <1>4, <3>2 DEF RowsAreNewest, About
    <3> QED
      BY <1>5, <3>2, <3>3, <3>4
  <2> QED
    BY <2>1, <2>2
<1>7. NothingIsLost(last)'
  <2> SUFFICES ASSUME NEW k \in Keys, told'[k] < last[k]
               PROVE  WillTell(k, last[k])'
    BY DEF NothingIsLost, UpTo
  <2>1. told[k] < last[k] /\ reset.at < last[k]
    BY <1>5, <1>6
  <2>2. WillTell(k, last[k])
    BY <1>1, <2>1 DEF FreshInv, NothingIsLost, UpTo
  <2> QED
    BY <1>1, <1>4, <2>2 DEF WillTell
<1> QED
  BY <1>3, <1>6, <1>7 DEF FreshInv

LEMMA ForwardIsFresh ==
  ASSUME WindowInv, NEW last \in [Keys -> Nat], FreshInv(last), Forward
  PROVE  FreshInv(last)'
<1> DEFINE b == Head(channel)
<1>1. /\ stream = "open" /\ channel # <<>> /\ channel' = Tail(channel) /\ Apply(b)
      /\ UNCHANGED <<hosted, hubState, stream, reset, lagged, initial>>
  BY DEF Forward
<1>2. channel \in Seq(GoodBatches)
  BY DEF WindowInv, StreamInv
<1>3. /\ 1 \in 1 .. Len(channel) /\ b = channel[1]
      /\ Len(channel') = Len(channel) - 1
      /\ \A i \in 1 .. Len(channel') : i + 1 \in 1 .. Len(channel) /\ channel'[i] = channel[i + 1]
  BY <1>1, <1>2, HeadTailProperties
<1>4. b \in GoodBatches /\ b \in OnTheWay \ {Null, Idle, Asked}
  <2>1. b \in GoodBatches
    BY <1>2, <1>3
  <2> QED
    BY <1>3, <2>1, GoodIsAnswer, NoBatchIsNull DEF OnTheWay, WindowInv, HubInv
<1> HIDE DEF b
<1>5. NewestAreTheHubs(last)'
  <2>1. OnTheWay' \subseteq OnTheWay
    BY <1>1, <1>3 DEF OnTheWay, hubState
  <2> QED
    BY <1>1, <2>1, SnapshotsAreNewest
<1>6. /\ hub' = hub /\ mutations' = mutations /\ unpublished' = unpublished
      /\ \A c : Touched(c)' = Touched(c)
  BY <1>1 DEF hubState, Touched
<1>7. /\ last \in [Keys -> 0 .. mutations] /\ told \in [Keys -> 0 .. mutations] /\ TimesInv(last)
      /\ b.at \in 0 .. mutations /\ Touched(b) \subseteq Keys
      /\ \A k \in Touched(b) : b.at >= last[k] => Says(b, k) = About(hub, k)
  BY <1>4, TouchedAreKeys DEF FreshInv, TimesInv, NewestAreTheHubs
<1>8. /\ told' \in [Keys -> 0 .. mutations] /\ doubtful' \subseteq Keys
      /\ \A k \in Keys : told'[k] >= told[k]
      /\ \A k \in Touched(b) : told'[k] >= b.at
      /\ \A k \in Touched(b) \ doubtful' :
            told'[k] >= last[k] => About(summaries', k) = About(hub, k)
      /\ \A k \in Keys \ Touched(b) : /\ told'[k] = told[k] /\ (k \in doubtful' <=> k \in doubtful)
                                      /\ About(summaries', k) = About(summaries, k)
  BY <1>1, <1>4, <1>7, ApplyIsFresh
<1>9. TimesInv(last)'
  BY <1>1, <1>6, <1>7, <1>8 DEF TimesInv
<1>10. NothingIsLost(last)'
  <2> SUFFICES ASSUME ~lagged, NEW k \in Keys, told'[k] < last[k]
               PROVE  WillTell(k, last[k])'
    BY <1>1 DEF NothingIsLost, UpTo
  <2>1. told[k] < last[k]
    BY <1>7, <1>8
  <2>2. WillTell(k, last[k])
    BY <1>1, <2>1 DEF FreshInv, NothingIsLost, UpTo
  <2>3. CASE \E i \in 1 .. Len(channel) : channel[i].at = last[k] /\ k \in Touched(channel[i])
    <3>1. PICK i \in 1 .. Len(channel) : channel[i].at = last[k] /\ k \in Touched(channel[i])
      BY <2>3
    <3>2. i # 1
      BY <1>3, <1>7, <1>8, <3>1
    <3>3. i - 1 \in 1 .. Len(channel') /\ channel'[i - 1] = channel[i]
      BY <1>2, <1>3, <3>2
    <3> QED
      BY <1>6, <3>1, <3>3 DEF WillTell
  <2>4. CASE \E p \in Publishers : /\ unpublished[p] # Null
                                   /\ unpublished[p].at = last[k] /\ k \in Touched(unpublished[p])
    BY <1>6, <2>4 DEF WillTell
  <2> QED
    BY <2>2, <2>3, <2>4 DEF WillTell
<1>11. RowsAreNewest(last)'
  <2> SUFFICES ASSUME NEW k \in Keys \ doubtful', told'[k] >= last[k]
               PROVE  About(summaries', k) = About(hub, k)
    BY <1>6 DEF RowsAreNewest, About
  <2> QED
    BY <1>1, <1>8 DEF FreshInv, RowsAreNewest, Started
<1> QED
  BY <1>5, <1>9, <1>10, <1>11 DEF FreshInv

LEMMA LagIsFresh ==
  ASSUME WindowInv, NEW last \in [Keys -> Nat], FreshInv(last), LagHosted
  PROVE  FreshInv(last)'
<1>1. /\ stream' = "open" /\ Apply(Snapshot)
      /\ UNCHANGED <<hosted, hubState, reset, channel, initial>>
  BY DEF LagHosted
<1>2. OnTheWay' = OnTheWay
  BY <1>1 DEF OnTheWay, hubState
<1> HIDE DEF Snapshot
<1> QED
  BY <1>1, <1>2, SnapshotIsFresh

(* What is left on the way when the stream has closed.                      *)
LEMMA ClosedIsFresh ==
  ASSUME WindowInv, NEW last \in [Keys -> Nat], FreshInv(last),
         UNCHANGED <<hosted, hubState>>, initial' \in {initial, Idle},
         NEW next \in {"off", "ended"}, CloseStream(next),
         \/ UNCHANGED doubts
         \/ told' = [k \in Keys |-> 0] /\ doubtful' = {}
  PROVE  FreshInv(last)'
<1>1. stream' = next /\ reset' = Null /\ channel' = <<>>
  BY DEF CloseStream
<1>2. OnTheWay' \subseteq OnTheWay \cup {Null, Idle}
  <2>1. {channel'[i] : i \in 1 .. Len(channel')} = {}
    BY <1>1
  <2>2. unpublished' = unpublished
    BY DEF hubState
  <2>3. OnTheWay' = {unpublished[p] : p \in Publishers} \cup {Null, initial'}
    BY <1>1, <2>1, <2>2 DEF OnTheWay
  <2> QED
    BY <2>3 DEF OnTheWay
<1>3. NewestAreTheHubs(last)'
  BY <1>2, SnapshotsAreNewest
<1>4. mutations' = mutations /\ 0 \in 0 .. mutations
  BY WindowAssumption DEF WindowInv, HubInv, hubState
<1>5. told' \in [Keys -> 0 .. mutations] /\ doubtful' \subseteq Keys
  BY <1>4 DEF FreshInv, TimesInv, doubts
<1>6. TimesInv(last)'
  BY <1>1, <1>4, <1>5 DEF FreshInv, TimesInv
<1>7. NothingIsLost(last)' /\ RowsAreNewest(last)'
  BY <1>1 DEF NothingIsLost, RowsAreNewest, Started
<1> QED
  BY <1>3, <1>6, <1>7 DEF FreshInv

(* Neither the stream nor the rows change.                                  *)
LEMMA SameIsFresh ==
  ASSUME WindowInv, NEW last \in [Keys -> Nat], FreshInv(last),
         UNCHANGED <<hosted, hubState, streamState, summaries, doubts>>,
         initial' = initial \/ initial' \in {Idle, Asked, Snapshot}
  PROVE  FreshInv(last)'
<1>1. OnTheWay' \subseteq OnTheWay \cup {Null, Idle, Asked, Snapshot}
  BY DEF OnTheWay, hubState, streamState
<1>2. NewestAreTheHubs(last)'
  BY <1>1, SnapshotsAreNewest
<1>3. TimesInv(last)'
  BY DEF FreshInv, TimesInv, hubState, streamState, doubts
<1>4. NothingIsLost(last)'
  BY DEF FreshInv, NothingIsLost, UpTo, WillTell, Touched, hubState, streamState, doubts
<1>5. RowsAreNewest(last)'
  BY DEF FreshInv, RowsAreNewest, Started, About, hubState, streamState, doubts
<1> QED
  BY <1>2, <1>3, <1>4, <1>5 DEF FreshInv

---------------------------------------------------------------------------------------
(* The workspace. *)

LEMMA ApplyInitialIsFresh ==
  ASSUME WindowInv, NEW last \in [Keys -> Nat], FreshInv(last), ApplyInitial
  PROVE  FreshInv(last)'
<1>1. /\ initial \notin {Idle, Asked} /\ Apply(initial) /\ initial' = Idle
      /\ UNCHANGED <<hosted, hubState, streamState>>
  BY DEF ApplyInitial
<1>2. initial \in GoodBatches /\ initial \in OnTheWay \ {Null, Idle, Asked}
  <2>1. initial \in GoodBatches
    BY <1>1 DEF WindowInv, ViewInv
  <2> QED
    BY <1>1, <2>1, NoBatchIsNull DEF OnTheWay, WindowInv, HubInv
<1>3. NewestAreTheHubs(last)'
  <2>1. OnTheWay' \subseteq OnTheWay \cup {Idle}
    BY <1>1 DEF OnTheWay, hubState, streamState
  <2> QED
    BY <1>1, <2>1, SnapshotsAreNewest
<1>4. /\ last \in [Keys -> 0 .. mutations] /\ told \in [Keys -> 0 .. mutations] /\ TimesInv(last)
      /\ initial.at \in 0 .. mutations /\ Touched(initial) \subseteq Keys
      /\ \A k \in Touched(initial) : initial.at >= last[k] => Says(initial, k) = About(hub, k)
  BY <1>2, TouchedAreKeys DEF FreshInv, TimesInv, NewestAreTheHubs
<1>5. /\ told' \in [Keys -> 0 .. mutations] /\ doubtful' \subseteq Keys
      /\ \A k \in Keys : told'[k] >= told[k]
      /\ \A k \in Touched(initial) \ doubtful' :
            told'[k] >= last[k] => About(summaries', k) = About(hub, k)
      /\ \A k \in Keys \ Touched(initial) :
            /\ told'[k] = told[k] /\ (k \in doubtful' <=> k \in doubtful)
            /\ About(summaries', k) = About(summaries, k)
  BY <1>1, <1>2, <1>4, ApplyIsFresh
<1>6. TimesInv(last)'
  <2>1. ASSUME hosted, stream = "snapshot", NEW k \in Keys
        PROVE  told'[k] >= reset.at
    <3>1. reset.at \in Int /\ told[k] \in Int /\ told'[k] \in Int
      BY <1>4, <1>5, <2>1, ResetIsOnTheWay DEF FreshInv, NewestAreTheHubs
    <3> QED
      BY <1>4, <1>5, <2>1, <3>1 DEF TimesInv
  <2> QED
    BY <1>1, <1>4, <1>5, <2>1 DEF TimesInv, hubState, streamState
<1>7. NothingIsLost(last)'
  <2> SUFFICES ASSUME (stream = "open" /\ ~lagged) \/ stream = "snapshot",
                      NEW k \in Keys, \A n \in UpTo(k)' : n < last[k]
               PROVE  WillTell(k, last[k])'
    BY <1>1 DEF NothingIsLost, streamState
  <2>1. told[k] < last[k]
    BY <1>4, <1>5 DEF UpTo
  <2>2. stream = "snapshot" => reset.at < last[k]
    BY <1>1 DEF UpTo, streamState
  <2>3. WillTell(k, last[k])
    BY <2>1, <2>2 DEF FreshInv, NothingIsLost, UpTo
  <2> QED
    BY <1>1, <2>3 DEF WillTell, Touched, hubState, streamState
<1>8. RowsAreNewest(last)'
  <2> SUFFICES ASSUME Started, NEW k \in Keys \ doubtful', told'[k] >= last[k]
               PROVE  About(summaries', k) = About(hub, k)
    BY <1>1 DEF RowsAreNewest, Started, About, hubState, streamState
  <2> QED
    BY <1>5 DEF FreshInv, RowsAreNewest
<1> QED
  BY <1>3, <1>6, <1>7, <1>8 DEF FreshInv

LEMMA NextKeepsFresh == WindowInv /\ IsFresh /\ [WindowNext]_windowVars => IsFresh'
<1> SUFFICES ASSUME WindowInv, IsFresh, [WindowNext]_windowVars PROVE IsFresh'
  OBVIOUS
<1>1. PICK last \in [Keys -> Nat] : FreshInv(last)
  BY DEF IsFresh
<1>2. ASSUME FreshInv(last)' PROVE IsFresh'
  BY <1>2 DEF IsFresh
<1>3. ASSUME NEW k \in Keys, NEW done \in BOOLEAN, Ingest(k, done) PROVE IsFresh'
  BY <1>1, <1>3, IngestIsFresh
<1>4. ASSUME NEW k \in Keys, Disconnect(k.source) PROVE IsFresh'
  BY <1>1, <1>4, DisconnectIsFresh
<1>5. CASE Clear
  BY <1>1, <1>5, ClearIsFresh
<1>6. ASSUME NEW p \in Publishers, Publish(p) PROVE IsFresh'
  BY <1>1, <1>2, <1>6, PublishIsFresh
<1>7. CASE TakeSnapshot
  BY <1>1, <1>2, <1>7, TakeSnapshotIsFresh
<1>8. CASE Subscribe
  BY <1>1, <1>2, <1>8, SubscribeIsFresh
<1>9. CASE Forward
  BY <1>1, <1>2, <1>9, ForwardIsFresh
<1>10. CASE LagHosted
  BY <1>1, <1>2, <1>10, LagIsFresh
<1>11. CASE EndNative \/ Lose \/ Unmount
  <2>1. /\ UNCHANGED <<hosted, hubState>> /\ initial' \in {initial, Idle}
        /\ CloseStream("off") \/ CloseStream("ended")
        /\ UNCHANGED doubts \/ (told' = [k \in Keys |-> 0] /\ doubtful' = {})
    BY <1>11 DEF EndNative, Lose, Unmount, viewState
  <2> QED
    BY <1>1, <1>2, <2>1, ClosedIsFresh
<1>12. CASE ApplyInitial
  BY <1>1, <1>2, <1>12, ApplyInitialIsFresh
<1>13. CASE MountWorkspace \/ AnswerInitial \/ FailInitial \/ ReaderStep \/ UNCHANGED windowVars
  <2>1. /\ UNCHANGED <<hosted, hubState, streamState, summaries, doubts>>
        /\ initial' = initial \/ initial' \in {Idle, Asked, Snapshot}
    <3>1. CASE ReaderStep
      BY <3>1 DEF ReaderStep, SelectCommand, ToggleNode, AnswerCommand, FailCommand
    <3>2. CASE MountWorkspace \/ AnswerInitial \/ FailInitial
      BY <3>2 DEF MountWorkspace, AnswerInitial, FailInitial
    <3>3. CASE UNCHANGED windowVars
      BY <3>3 DEF windowVars, viewState
    <3> QED
      BY <1>13, <3>1, <3>2, <3>3
  <2> QED
    BY <1>1, <1>2, <2>1, SameIsFresh
<1> QED
  BY <1>3, <1>4, <1>5, <1>6, <1>7, <1>8, <1>9, <1>10, <1>11, <1>12, <1>13 DEF WindowNext, ReaderStep

(***************************************************************************)
(* The rows of a workspace at rest are the hub's, but for the commands the *)
(* model marks: that a change was published between the snapshot of the    *)
(* subscription and its start, that a session was cleared without a reset, *)
(* or that an older batch came last (dev_api.rs:120-150, databaseTree.ts,  *)
(* DatabaseWorkspace.tsx:24-47).  A receiver that lagged, a socket that    *)
(* was lost and any order of publishers otherwise leave no stale row.      *)
(***************************************************************************)
THEOREM QuietRowsCorrect == WindowSpec => []QuietRowsAreTheHubs
<1>1. WindowInit => IsFresh
  BY InitFresh
<1>2. WindowInv /\ IsFresh /\ [WindowNext]_windowVars => IsFresh'
  BY NextKeepsFresh
<1>3. WindowInv /\ IsFresh => QuietRowsAreTheHubs
  BY QuietFresh
<1> QED
  BY <1>1, <1>2, <1>3, WindowInvariant, PTL DEF WindowSpec
=======================================================================================
