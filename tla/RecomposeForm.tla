---------------------------------- MODULE RecomposeForm ----------------------------------
(***************************************************************************)
(* The editor of a replay draft (src/features/recompose/): the request is  *)
(* a captured one, taken apart into rows of its query and of its headers,  *)
(* edited field by field or as one raw text that is parsed when it is      *)
(* applied, and put together when it is executed.  CaptureStore has the    *)
(* life of the draft; here it is open and selected.  Text is a constant of *)
(* the model, a raw text the record of what its lines say, and a base URL  *)
(* is spelled as new URL would spell it.                                   *)
(***************************************************************************)
EXTENDS Integers, SequencesExt

CONSTANTS
  CapturedRequests,  (* [method, base, components, protocol, headers, body, *)
                     (* unavailable], with components <<name, value>> as    *)
                     (* the URL spells them and headers <<name, value>>     *)
  Nothing,           (* no value, no body, no raw text                      *)
  Decode, Encode,    (* decodeURIComponent (+ is a space), and its inverse  *)
  UrlSpelling,       (* a component of a query as new URL spells it          *)
  AuthenticationNames,
  Absolute,          (* the base URLs that new URL accepts                  *)
  MaxEdits           (* bound on the steps of the user                      *)

(* The captured spellings can be decoded, and no text is Nothing. *)
ASSUME FormAssumption ==
  /\ MaxEdits \in Nat /\ "" \notin AuthenticationNames
  /\ Nothing \notin DOMAIN Decode /\ \A t \in DOMAIN Decode : Decode[t] # Nothing
  /\ \A request \in CapturedRequests :
       /\ request.components \in Seq((DOMAIN Decode) \X ((DOMAIN Decode) \cup {Nothing}))
       /\ request.headers \in Seq(STRING \X STRING)

VARIABLES
  capture,    (* auxiliary: the captured request                          *)
  baseline, working, mode, rawText, rawError, dirty, error,  (* the draft   *)
  replayed,     (* the last request that was handed to executeReplay        *)
  rowIds,       (* row ids given so far                                     *)
  edits,
  touched       (* auxiliary: ids of the rows whose fields the user changed *)

formVars == <<capture, baseline, working, mode, rawText, rawError, dirty, error, replayed,
              rowIds, edits, touched>>

-----------------------------------------------------------------------------------
(* The URL: rows that are not edited keep the spelling they came with. *)

DecodedOrNothing(text) == IF text = Nothing THEN Nothing ELSE Decode[text]

QueryRow(id, component) ==
  [id |-> id, name |-> Decode[component[1]], value |-> DecodedOrNothing(component[2]),
   encodedName |-> component[1], encodedValue |-> component[2], edited |-> FALSE]

NewQueryRow(id) ==
  [id |-> id, name |-> "", value |-> "", encodedName |-> Nothing, encodedValue |-> Nothing,
   edited |-> TRUE]

(* Faulty variant of the next: every row is encoded again. *)
SerializeAgain(row) ==
  <<Encode[row.name], IF row.value = Nothing THEN Nothing ELSE Encode[row.value]>>

Serialize(row) ==
  LET Spelled(encoded, text) == IF row.edited \/ encoded = Nothing THEN Encode[text] ELSE encoded
  IN  <<Spelled(row.encodedName, row.name),
        IF row.value = Nothing THEN Nothing ELSE Spelled(row.encodedValue, row.value)>>

ReplayQuery(request) == [i \in DOMAIN request.query |-> Serialize(request.query[i])]

QueryRows(components, from) ==
  [i \in DOMAIN components |-> QueryRow(from + i, components[i])]

HeaderRows(headers, from) ==
  [i \in DOMAIN headers |-> [id |-> from + i, name |-> headers[i][1], value |-> headers[i][2]]]

HeaderPairs(request) ==
  [i \in DOMAIN request.headers |-> <<request.headers[i].name, request.headers[i].value>>]

(* createRecomposeDraft: a body that is neither text nor base64 is missing. *)
Baseline(request) ==
  [method |-> request.method, base |-> request.base, protocol |-> request.protocol,
   query |-> QueryRows(request.components, 0),
   headers |-> HeaderRows(request.headers, Len(request.components)),
   body |-> request.body, bodyUnavailable |-> request.unavailable]

-----------------------------------------------------------------------------------
(* The raw text. *)

UrlQuery(components) ==
  [i \in DOMAIN components |->
     LET name == components[i][1]  value == components[i][2]
     IN  <<UrlSpelling[name], IF value = Nothing THEN Nothing ELSE UrlSpelling[value]>>]

(* The raw text has no automatic protocol, a base64 body is text in it, and *)
(* the target of an absolute URL is spelled anew.                           *)
RawRequest(request) ==
  [method |-> request.method, headers |-> HeaderPairs(request),
   query |-> IF request.base \in Absolute THEN UrlQuery(ReplayQuery(request)) ELSE ReplayQuery(request),
   protocol |-> IF request.protocol = "http2" THEN "http2" ELSE "http11",
   body |-> IF request.body = Nothing THEN "" ELSE request.body.value, separated |-> TRUE]

RawErrors(raw, current) ==
  {problem \in {"separator", "start", "header", "target"} :
     \/ problem = "separator" /\ ~raw.separated
     \/ problem = "start" /\ raw.method = ""
     \/ problem = "header" /\ \E i \in DOMAIN raw.headers : raw.headers[i][1] = ""
     \/ problem = "target" /\ current.base \notin Absolute}

ParseRaw(raw, current) ==
  [current EXCEPT
     !.method = raw.method, !.protocol = raw.protocol,
     !.query = QueryRows(UrlQuery(raw.query), rowIds),
     !.headers = HeaderRows(raw.headers, rowIds + Len(raw.query)),
     !.body = IF raw.body # "" \/ current.body # Nothing THEN [kind |-> "text", value |-> raw.body]
              ELSE Nothing,
     !.bodyUnavailable = FALSE]

RawIds(raw) == rowIds + Len(raw.query) + Len(raw.headers)

-----------------------------------------------------------------------------------
(* The draft's setters (recomposeDraftSlice.ts). *)

Edit == edits < MaxEdits /\ edits' = edits + 1

SetWorking(next) ==
  /\ working' = next
  /\ dirty' = (next # baseline)
  /\ rawText' = Nothing /\ rawError' = FALSE /\ error' = FALSE
  /\ UNCHANGED <<capture, baseline>>

SetMode(m) ==
  /\ Edit
  /\ m # mode /\ mode' = m
  /\ UNCHANGED <<capture, baseline, working, rawText, rawError, dirty, error, replayed, rowIds, touched>>

SetField(next) ==
  /\ Edit
  /\ next # working
  /\ SetWorking(next)
  /\ UNCHANGED <<mode, replayed, rowIds, touched>>

SetMethod(method) == SetField([working EXCEPT !.method = method])

SetBase(base) == SetField([working EXCEPT !.base = base])

SetProtocol(protocol) == SetField([working EXCEPT !.protocol = protocol])

UpdateBody(text) ==
  /\ mode = "text"
  /\ SetField([working EXCEPT !.body = [kind |-> "text", value |-> text], !.bodyUnavailable = FALSE])

(* Rows of the query or of the headers. *)
SetRows(field, rows, changedIds, newIds) ==
  /\ Edit
  /\ SetWorking([working EXCEPT ![field] = rows])
  /\ touched' = touched \cup changedIds
  /\ rowIds' = rowIds + newIds
  /\ UNCHANGED <<mode, replayed>>

Swapped(rows, i, j) == [rows EXCEPT ![i] = rows[j], ![j] = rows[i]]

AddParameter ==
  /\ mode = "url"
  /\ SetRows("query", Append(working.query, NewQueryRow(rowIds + 1)), {rowIds + 1}, 1)

UpdateParameter(i, field, text) ==
  /\ mode = "url" /\ i \in DOMAIN working.query
  /\ field = "name" => text # Nothing
  /\ working.query[i][field] # text
  /\ SetRows("query", [working.query EXCEPT ![i] = [@ EXCEPT ![field] = text, !.edited = TRUE]],
             {working.query[i].id}, 0)

MoveParameter(i, offset) ==
  /\ mode = "url" /\ {i, i + offset} \subseteq DOMAIN working.query
  /\ SetRows("query", Swapped(working.query, i, i + offset), {}, 0)

RemoveParameter(i) ==
  /\ mode = "url" /\ i \in DOMAIN working.query
  /\ SetRows("query", RemoveAt(working.query, i), {}, 0)

(* The authentication view shows some of the rows, each with its index in   *)
(* all of them.                                                             *)
Showing == INSTANCE LeftFold WITH Step <- \o

Shown ==
  Showing!Kept([i \in DOMAIN working.headers |-> i],
               {i \in DOMAIN working.headers :
                  mode # "authentication" \/ working.headers[i].name \in AuthenticationNames})

(* Faulty variant of the next: the index among the rows that are shown. *)
IndexAmongVisible(position) == position

HeaderIndex(position) == Shown[position]

EditsHeaders == mode \in {"headers", "authentication"}

AddHeader ==
  LET name == IF mode = "authentication" THEN "Authorization" ELSE ""
      row  == [id |-> rowIds + 1, name |-> name, value |-> ""]
  IN  EditsHeaders /\ SetRows("headers", Append(working.headers, row), {rowIds + 1}, 1)

(* The user changes the row at this position of the view. *)
UpdateHeader(position, field, text) ==
  LET i == HeaderIndex(position) IN
  /\ EditsHeaders /\ position \in DOMAIN Shown
  /\ working.headers[i][field] # text
  /\ SetRows("headers", [working.headers EXCEPT ![i] = [@ EXCEPT ![field] = text]],
             {working.headers[Shown[position]].id}, 0)

(* The neighbour is the one among all rows, shown or not. *)
MoveHeader(position, offset) ==
  LET i == HeaderIndex(position) IN
  /\ EditsHeaders /\ position \in DOMAIN Shown /\ i + offset \in DOMAIN working.headers
  /\ SetRows("headers", Swapped(working.headers, i, i + offset), {}, 0)

RemoveHeader(position) ==
  /\ EditsHeaders /\ position \in DOMAIN Shown
  /\ SetRows("headers", RemoveAt(working.headers, HeaderIndex(position)), {}, 0)

-----------------------------------------------------------------------------------
(* Raw mode. *)

RawShown == IF rawText = Nothing THEN RawRequest(working) ELSE rawText

RawEdits ==
  {[RawShown EXCEPT !.separated = FALSE], [RawShown EXCEPT !.method = ""],
   [RawShown EXCEPT !.body = ""], [RawShown EXCEPT !.headers = Append(@, <<"", "">>)]}

EditRaw(raw) ==
  /\ Edit
  /\ mode = "raw" /\ raw # RawShown
  /\ rawText' = raw /\ rawError' = FALSE /\ dirty' = TRUE /\ error' = FALSE
  /\ UNCHANGED <<capture, baseline, working, mode, replayed, rowIds, touched>>

RefuseRaw ==
  /\ rawError' = TRUE
  /\ UNCHANGED <<capture, baseline, working, mode, rawText, dirty, error, replayed, rowIds, touched>>

ApplyRaw ==
  /\ Edit
  /\ mode = "raw"
  /\ IF RawErrors(RawShown, working) # {} THEN RefuseRaw
     ELSE /\ SetWorking(ParseRaw(RawShown, working)) /\ rowIds' = RawIds(RawShown)
          /\ UNCHANGED <<mode, replayed, touched>>

-----------------------------------------------------------------------------------
(* Execute and revert. *)

IsValid(request) ==
  /\ request.method # "" /\ request.base \in Absolute
  /\ \A i \in DOMAIN request.headers : request.headers[i].name # ""
  /\ ~request.bodyUnavailable

ReplayRequest(request) ==
  [method |-> request.method, base |-> request.base, query |-> ReplayQuery(request),
   protocol |-> request.protocol, headers |-> HeaderPairs(request), body |-> request.body,
   edited |-> request # baseline]

(* A valid working copy is replayed, and one that is not is told. *)
Replay(request) ==
  IF IsValid(request) THEN replayed' = ReplayRequest(request) /\ error' = FALSE
  ELSE error' = TRUE /\ UNCHANGED replayed

(* In raw mode an edited text is parsed first, and set. *)
Execute ==
  LET parses == mode = "raw" /\ rawText # Nothing
      parsed == ParseRaw(rawText, working)
  IN  /\ Edit
      /\ IF parses /\ RawErrors(rawText, working) # {} THEN RefuseRaw
         ELSE IF parses
         THEN /\ Replay(parsed)
              /\ working' = parsed /\ dirty' = (parsed # baseline) /\ rowIds' = RawIds(rawText)
              /\ rawText' = Nothing /\ rawError' = FALSE
              /\ UNCHANGED <<capture, baseline, mode, touched>>
         ELSE /\ Replay(working)
              /\ UNCHANGED <<capture, baseline, working, mode, rawText, rawError, dirty, rowIds, touched>>

Revert ==
  /\ Edit
  /\ working' = baseline /\ mode' = "url" /\ rawText' = Nothing /\ rawError' = FALSE
  /\ dirty' = FALSE /\ error' = FALSE /\ touched' = {}
  /\ UNCHANGED <<capture, baseline, replayed, rowIds>>

-----------------------------------------------------------------------------------
FormInit ==
  /\ capture \in CapturedRequests
  /\ baseline = Baseline(capture) /\ working = baseline
  /\ mode = "url" /\ rawText = Nothing /\ rawError = FALSE /\ dirty = FALSE
  /\ error = capture.unavailable /\ replayed = Nothing
  /\ rowIds = Len(capture.components) + Len(capture.headers)
  /\ edits = 0 /\ touched = {}

Positions == 1 .. 3

FormNext ==
  \/ \E m \in {"url", "headers", "authentication", "text", "raw"} : SetMode(m)
  \/ \E method \in {"", "PUT"} : SetMethod(method)
  \/ SetBase("/relative")
  \/ \E protocol \in {"auto", "http2"} : SetProtocol(protocol)
  \/ \E text \in DOMAIN Encode : UpdateBody(text)
  \/ AddParameter
  \/ \E i \in Positions, field \in {"name", "value"}, text \in DOMAIN Encode \cup {Nothing} :
       UpdateParameter(i, field, text)
  \/ \E i \in Positions : RemoveParameter(i) \/ \E offset \in {-1, 1} : MoveParameter(i, offset)
  \/ AddHeader
  \/ \E position \in Positions, field \in {"name", "value"}, text \in DOMAIN Encode :
       UpdateHeader(position, field, text)
  \/ \E position \in Positions :
       RemoveHeader(position) \/ \E offset \in {-1, 1} : MoveHeader(position, offset)
  \/ \E raw \in RawEdits : EditRaw(raw)
  \/ ApplyRaw
  \/ Execute
  \/ Revert

-----------------------------------------------------------------------------------
(* Properties. *)

Untouched(rows) == {i \in DOMAIN rows : rows[i].id \notin touched}

(***************************************************************************)
(* A row of the captured request that the user has not changed is what was *)
(* captured, to the spelling of its URL component, whatever was added,     *)
(* moved and removed around it and in whichever view; and a draft that is  *)
(* not dirty, which another one may replace, replays the captured request. *)
(* The plan says so in http_inspector_implementation_plan.md:576-578.      *)
(***************************************************************************)
FormKeepsTheCapture ==
  /\ \A i \in Untouched(working.query) : \A j \in DOMAIN capture.components :
       working.query[i].id = j => Serialize(working.query[i]) = capture.components[j]
  /\ \A i \in Untouched(working.headers) : \A j \in DOMAIN capture.headers :
       working.headers[i].id = j + Len(capture.components) =>
         HeaderPairs(working)[i] = capture.headers[j]
  /\ ~dirty => /\ rawText = Nothing
               /\ ReplayQuery(working) = capture.components
               /\ HeaderPairs(working) = capture.headers
               /\ \A field \in {"method", "base", "protocol", "body"} : working[field] = capture[field]

===================================================================================
