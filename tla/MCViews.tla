------------------------------------- MODULE MCViews -------------------------------------
(* Small instances of the panels of the workspace, for TLC.  The panels    *)
(* share no state but the store's, which CaptureStore models, so a         *)
(* behaviour moves one of them and leaves the others as they begin.        *)
EXTENDS MessageView, DataverseMapView, TextScan, RecomposeForm, GridView

(* A text: whether it is JSON and large, where a search hits it, its rows   *)
(* in hex and the rows that a hex search hits.                              *)
TextOf(name, json, big, hits, rows, hexHits) ==
  [name |-> name, json |-> json, big |-> big, hits |-> hits, rows |-> rows, hexHits |-> hexHits]
short == TextOf("short", TRUE, FALSE, 2, 3, <<0, 2>>)
long == TextOf("long", TRUE, TRUE, 1, 3, <<2>>)
broken == TextOf("broken", FALSE, FALSE, 0, 1, <<>>)
MCPlaceholder == TextOf("placeholder", FALSE, FALSE, 1, 1, <<0>>)

StoredBody(object, as, media, of, encodings, damage) ==
  [object |-> object, kind |-> as, media |-> media, text |-> of, encodings |-> encodings,
   damage |-> damage, complete |-> TRUE, stored |-> Absent]
AttachedBody(object, media, chunk) ==
  [StoredBody(object, "attachment", media, Absent, <<>>, "none") EXCEPT !.complete = FALSE, !.stored = chunk]

MCDetails ==
  {[key |-> 1, revision |-> 1, raw |-> Absent,
    body |-> StoredBody(11, "base64", "json", short, <<"gzip", "identity">>, "none")],
   [key |-> 2, revision |-> 1, raw |-> StoredBody(22, "text", "http", broken, <<>>, "none"),
    body |-> AttachedBody(21, "json", StoredBody(23, "text", "json", long, <<>>, "none"))],
   [key |-> 1, revision |-> 2, raw |-> Absent,
    body |-> StoredBody(12, "text", "other", short, <<>>, "none")],
   [key |-> 3, revision |-> 1, raw |-> AttachedBody(32, "other", StoredBody(33, "base64", "other", short, <<"br">>, "none")),
    body |-> StoredBody(31, "text", "xml", broken, <<>>, "none")]}

(* Two versions of one request, the first with attached records, and another. *)
MCRequests ==
  {[id |-> 1, key |-> 1, records |-> 2, attached |-> TRUE],
   [id |-> 3, key |-> 1, records |-> 1, attached |-> FALSE],
   [id |-> 2, key |-> 2, records |-> 1, attached |-> FALSE]}

MCAlphabet ==
  [xml   |-> {"<", ">", "/", "!", "-", "q", "x", " "},
   odata |-> {"(", ")", "'", ",", "x", " "},
   plain |-> {"a", "A", "b", "I"},
   names |-> {[stem |-> "account", suffix |-> <<>>], [stem |-> "account", suffix |-> <<2>>],
             [stem |-> "EXPAND", suffix |-> <<>>]}]

MCOpenings ==
  [xml   |-> {<<>>, <<"<", "x", ">">>, <<"<", "!", "-", "-">>, <<"<", "!", "C">>, <<"<", "?">>, <<"<", "x">>},
   odata |-> {<<>>, <<"(">>},
   plain |-> {<<>>, <<"a">>},
   names |-> {<<>>}]

(* "I" is the capital with a dot, which lower case makes two code units. *)
MCLower ==
  [c \in {"a", "A", "b", "I", " "} |->
     CASE c = "A" -> <<"a">> [] c = "I" -> <<"i", "dot">> [] OTHER -> <<c>>]

MCQueries == {<<"A">>, <<" ", "a", "a">>, <<"a", "b", "a", " ">>, <<"I">>, <<" ">>}

MCCaptured ==
  {[method |-> "GET", base |-> "/absolute", components |-> <<<<"a+b", Nothing>>, <<"x'", "a%20b">>>>,
    protocol |-> "auto", headers |-> <<<<"x'", "x'">>, <<"Cookie", "x'">>>>,
    body |-> Nothing, unavailable |-> TRUE],
   [method |-> "PUT", base |-> "/absolute", components |-> <<<<"%zz", "">>>>,
    protocol |-> "http2", headers |-> <<<<"x'", "">>, <<"x'", "x'">>, <<"Authorization", "x'">>>>,
    body |-> [kind |-> "base64", value |-> "x'"], unavailable |-> FALSE]}

MCDecode ==
  [t \in {"", "x'", "x%27", "a+b", "a%20b", "%zz", "%25zz"} |->
     CASE t = "x%27" -> "x'" [] t = "%25zz" -> "%zz" [] t \in {"a+b", "a%20b"} -> "a b" [] OTHER -> t]

MCEncode ==
  [t \in {"", "x'", "a b", "%zz"} |->
     CASE t = "a b" -> "a%20b" [] t = "%zz" -> "%25zz" [] OTHER -> t]

MCSpelling == [t \in DOMAIN MCDecode |-> IF t = "x'" THEN "x%27" ELSE t]

MCColumns == <<"status", "host", "path">>

VARIABLE panel   (* the panel that moves *)

ViewsInit ==
  /\ MessageInit /\ MapInit /\ ScanInit /\ FormInit /\ GridInit
  /\ panel \in {"message", "map", "text", "form", "grid"}
  /\ panel # "text" => kind = "plain" /\ text = <<>>
  /\ panel # "form" => capture.unavailable

ViewsNext ==
  /\ UNCHANGED panel
  /\ \/ /\ panel = "message" /\ MessageNext
        /\ UNCHANGED <<mapVars, scanVars, formVars, gridVars>>
     \/ /\ panel = "map" /\ MapNext
        /\ UNCHANGED <<messageVars, scanVars, formVars, gridVars>>
     \/ /\ panel = "text" /\ ScanNext
        /\ UNCHANGED <<messageVars, mapVars, formVars, gridVars>>
     \/ /\ panel = "form" /\ FormNext
        /\ UNCHANGED <<messageVars, mapVars, scanVars, gridVars>>
     \/ /\ panel = "grid" /\ GridNext
        /\ UNCHANGED <<messageVars, mapVars, scanVars, formVars>>

viewsVars == <<panel, messageVars, mapVars, scanVars, formVars, gridVars>>

ViewsSpec == ViewsInit /\ [][ViewsNext]_viewsVars /\ MessageFairness
=========================================================================================
