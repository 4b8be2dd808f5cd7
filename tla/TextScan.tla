------------------------------------ MODULE TextScan ------------------------------------
(***************************************************************************)
(* The scanners that the inspector runs over captured text: the XML        *)
(* tokenizer and formatter (xmlPresentation.ts), the splitter of OData     *)
(* options (parseDataverseMap.ts), the search (bodySearch.ts) with the     *)
(* plain viewer that marks its matches (CodeBodyViewer.tsx), and the class *)
(* ids of expansions (renderDataverseClassDiagram.ts).  A text is a        *)
(* sequence of characters; runs of characters that the scanner does not    *)
(* tell apart are one character: "C" is [CDATA[, "]" is ]], " " is any     *)
(* blank and "," is the delimiter at which a caller splits (a comma, a     *)
(* semicolon, or the word and or or between blanks).  Captured text        *)
(* arrives one character at a time, so that every text is scanned.         *)
(* A while loop over an index is a loop over the places of the text that   *)
(* leaves its state alone at a place before the index.                     *)
(***************************************************************************)
EXTENDS Integers, FiniteSets, SequencesExt

CONSTANTS
  Alphabet,     (* kind of text -> its characters                           *)
  Openings,     (* kind of text -> texts it may begin with                  *)
  Lower,        (* toLowerCase of a character: one character or more        *)
  Queries,      (* what is searched for                                     *)
  MaxMatches,   (* maximumSearchMatches                                     *)
  MaxTyped      (* bound on the characters after the opening                *)

IsText(s) == s \in Seq(ToSet(s))

Characters == STRING

Blank == " "

(* A class name ends with any numbers: account_2 is account with 2. *)
Names == [stem : STRING, suffix : Seq(Nat)]

ASSUME ScanAssumption ==
  /\ MaxMatches \in Nat \ {0} /\ MaxTyped \in Nat
  /\ DOMAIN Alphabet = DOMAIN Openings /\ DOMAIN Alphabet \subseteq {"xml", "odata", "plain", "names"}
  /\ \A t \in DOMAIN Openings : \A opening \in Openings[t] : IsText(opening)
  /\ \A c \in DOMAIN Lower : Lower[c] \in Seq(Characters) /\ Lower[c] # <<>>
  /\ Queries \subseteq Seq(DOMAIN Lower)
  /\ "plain" \in DOMAIN Openings =>
       Alphabet["plain"] \subseteq DOMAIN Lower /\ Openings["plain"] \subseteq Seq(DOMAIN Lower)
  /\ "names" \in DOMAIN Openings => Alphabet["names"] \subseteq Names /\ Openings["names"] \subseteq Seq(Names)

VARIABLES kind, text, typed

scanVars == <<kind, text, typed>>

(* indexOf: the first place at or after from, or 0 where there is none. *)
IndexOf(value, pattern, from) ==
  LET places == {i \in from .. Len(value) - Len(pattern) + 1 :
                   SubSeq(value, i, i + Len(pattern) - 1) = pattern}
  IN  IF places = {} THEN 0 ELSE CHOOSE i \in places : \A j \in places : i <= j

StartsWith(value, pattern, at) ==
  at + Len(pattern) - 1 <= Len(value) /\ SubSeq(value, at, at + Len(pattern) - 1) = pattern

Places(value) == [i \in 1 .. Len(value) |-> i]

Joining == INSTANCE LeftFold WITH Step <- \o

(* trim *)
Trim(s) ==
  LET solid == {i \in DOMAIN s : s[i] # Blank}
  IN  IF solid = {} THEN <<>> ELSE SubSeq(s, Min(solid), Max(solid))

-----------------------------------------------------------------------------------
(* XML: tokens, and lines with their depth. *)

EndingIndex(value, ending, from) ==
  LET at == IndexOf(value, ending, from) IN IF at = 0 THEN 0 ELSE at + Len(ending) - 1

Quotes == {"'", "q"}

InTag(tag, character) ==
  IF tag.closed THEN tag
  ELSE [at     |-> tag.at + 1,
        quote  |-> IF tag.quote = "none" THEN (IF character \in Quotes THEN character ELSE "none")
                   ELSE IF tag.quote = character THEN "none" ELSE tag.quote,
        closed |-> tag.quote = "none" /\ character = ">"]

TagScan == INSTANCE LeftFold WITH Step <- InTag

(* The first ">" after start that is not inside an attribute's quotes. *)
TagEnd(value, start) ==
  LET tag == TagScan!Fold([at |-> start, quote |-> "none", closed |-> FALSE],
                          SubSeq(value, start + 1, Len(value)))
  IN  IF tag.closed THEN tag.at ELSE 0

MarkupEnd(value, start) ==
  CASE StartsWith(value, <<"<", "!", "-", "-">>, start) ->
         EndingIndex(value, <<"-", "-", ">">>, start + 4)
    [] StartsWith(value, <<"<", "!", "C">>, start) -> EndingIndex(value, <<"]", ">">>, start + 3)
    [] StartsWith(value, <<"<", "?">>, start)      -> EndingIndex(value, <<"?", ">">>, start + 2)
    [] OTHER                                       -> TagEnd(value, start)

NoTokens == <<<<>>>>

(* Faulty variant of the next: a token leaves out its last character. *)
TokenUpTo(value, from, end) == SubSeq(value, from, end - 1)

Token(value, from, end) == SubSeq(value, from, end)

TokenEnd(value, i) ==
  LET next == IndexOf(value, <<"<">>, i)
  IN  CASE value[i] = "<"               -> MarkupEnd(value, i)
        [] value[i] # "<" /\ next = 0   -> Len(value)
        [] OTHER                        -> next - 1

(* The index is 0 once a markup does not end. *)
NextToken(state, i) ==
  LET end == TokenEnd(state.value, i)
  IN  IF i # state.index THEN state
      ELSE IF end = 0 THEN [state EXCEPT !.index = 0]
      ELSE [state EXCEPT !.index = end + 1, !.tokens = Append(@, Token(state.value, i, end))]

Tokenizing == INSTANCE LeftFold WITH Step <- NextToken

Tokenize(value) ==
  LET done == Tokenizing!Fold([value |-> value, index |-> 1, tokens |-> <<>>], Places(value))
  IN  IF done.index = 0 THEN NoTokens ELSE done.tokens

IsMarkup(token) == token[1] = "<"

IsEnd(token) == StartsWith(token, <<"<", "/">>, 1)

(* Blanks may stand between the "/" and the ">" of an element without content. *)
IsAlone(token) ==
  \/ Len(token) > 1 /\ token[2] \in {"?", "!"}
  \/ \E slash \in 2 .. Len(token) - 1 :
       token[slash] = "/" /\ \A i \in slash + 1 .. Len(token) - 1 : token[i] = Blank

Opens(token) == IsMarkup(token) /\ ~IsEnd(token) /\ ~IsAlone(token)

LineText(token) == IF IsMarkup(token) THEN token ELSE Trim(token)

IsBlank(token) == LineText(token) = <<>>

(* Lines [depth, text] with the depth after them, -1 when an end tag has   *)
(* nothing to end; text of blanks makes no line.                           *)
AddLine(state, token) ==
  LET at == IF IsEnd(token) THEN state.depth - 1 ELSE state.depth
  IN  IF state.depth = -1 \/ at = -1 THEN [state EXCEPT !.depth = -1]
      ELSE IF IsBlank(token) THEN state
      ELSE [lines |-> Append(state.lines, [depth |-> at, text |-> LineText(token)]),
            depth |-> IF Opens(token) THEN at + 1 ELSE at]

Formatting == INSTANCE LeftFold WITH Step <- AddLine

Format(tokens) == Formatting!Fold([lines |-> <<>>, depth |-> 0], tokens)

(* createXmlPresentation; the original is kept beside what is pretty. *)
XmlPresentation(value) ==
  LET tokens == Tokenize(value) IN
  IF tokens = NoTokens \/ Format(tokens).depth # 0 THEN [valid |-> FALSE, lines |-> <<>>]
  ELSE [valid |-> TRUE, lines |-> Format(tokens).lines]

-----------------------------------------------------------------------------------
(* OData: parts between the delimiters outside quotes and parentheses. *)

(* Faulty variant of the next: delimiters and parentheses in a literal count. *)
ScanLiterals(state, character) ==
  LET read == [state EXCEPT !.part = Append(@, character)] IN
  CASE character = "(" -> [read EXCEPT !.depth = @ + 1]
    [] character = ")" -> [read EXCEPT !.depth = @ - 1]
    [] character = "," /\ state.depth = 0 ->
         [state EXCEPT !.parts = Append(@, state.part), !.part = <<>>]
    [] OTHER           -> read

(* A quote of '' closes and opens the literal, which comes to the same. *)
Scan(state, character) ==
  LET read == [state EXCEPT !.part = Append(@, character)] IN
  IF character = "'" THEN [read EXCEPT !.quote = ~@]
  ELSE IF state.quote THEN read
  ELSE CASE character = "(" -> [read EXCEPT !.depth = @ + 1]
         [] character = ")" -> [read EXCEPT !.depth = @ - 1]
         [] character = "," /\ state.depth = 0 ->
              [state EXCEPT !.parts = Append(@, state.part), !.part = <<>>]
         [] OTHER           -> read

Scanning == INSTANCE LeftFold WITH Step <- Scan

Scanned(value) == Scanning!Fold([parts |-> <<>>, part |-> <<>>, depth |-> 0, quote |-> FALSE], value)

Options(parts) ==
  SelectSeq([n \in 1 .. Len(parts) |-> Trim(parts[n])], LAMBDA option : option # <<>>)

SplitTopLevel(value) == Options(Append(Scanned(value).parts, Scanned(value).part))

Inside(value) == SubSeq(value, 2, Len(value) - 1)

(* The parentheses go only when the first one closes with the last. *)
IsInParentheses(value) ==
  LET Closes(prefix) == Scanned(prefix).depth = 0 /\ ~Scanned(prefix).quote
  IN  /\ Len(value) >= 2 /\ value[1] = "(" /\ Last(value) = ")"
      /\ \A prefix \in Prefixes(value) \ {<<>>, value} : ~Closes(prefix)

RemoveOuterParentheses(value) == IF IsInParentheses(value) THEN Trim(Inside(value)) ELSE value

-----------------------------------------------------------------------------------
(* Search: the matches of a query, and the pieces the plain viewer shows. *)

(* Faulty variant of the next: the next match may overlap the last. *)
NextOverlapping(state, i) ==
  IF \/ i < state.start \/ Len(state.matches) = MaxMatches
     \/ ~StartsWith(state.content, state.pattern, i)
  THEN state
  ELSE [state EXCEPT !.start = i + 1, !.matches = Append(@, i)]

NextMatch(state, i) ==
  IF \/ i < state.start \/ Len(state.matches) = MaxMatches
     \/ ~StartsWith(state.content, state.pattern, i)
  THEN state
  ELSE [state EXCEPT !.start = i + Len(state.pattern), !.matches = Append(@, i)]

Searching == INSTANCE LeftFold WITH Step <- NextMatch

FindAll(content, pattern) ==
  Searching!Fold([content |-> content, pattern |-> pattern, start |-> 1, matches |-> <<>>],
                 Places(content)).matches

LowerCase(s) == Joining!Fold(<<>>, [i \in 1 .. Len(s) |-> Lower[s[i]]])

NormalizedQuery(query) == LowerCase(Trim(query))

(* The places are those of the content in lower case, which may be longer. *)
Search(content, query) ==
  IF NormalizedQuery(query) = <<>> THEN <<>>
  ELSE FindAll(LowerCase(content), NormalizedQuery(query))

(* slice: what the text has of the places. *)
Slice(s, from, to) == SubSeq(s, from, IF to < Len(s) THEN to ELSE Len(s))

Piece(state, at) ==
  LET after == at + Len(state.pattern)
  IN  [state EXCEPT !.cursor = after,
                    !.pieces = @ \o <<Slice(state.content, state.cursor, at - 1),
                                      Slice(state.content, at, after - 1)>>]

Marking == INSTANCE LeftFold WITH Step <- Piece

(* What stands before each match, the match, and what stands after all;    *)
(* the places of the matches are taken for places of the content.          *)
RenderContent(content, query) ==
  LET start == [content |-> content, pattern |-> NormalizedQuery(query), cursor |-> 1, pieces |-> <<>>]
      done  == Marking!Fold(start, Search(content, query))
  IN  Append(done.pieces, SubSeq(content, done.cursor, Len(content)))

-----------------------------------------------------------------------------------
(* Class ids of expansions, in the order they are made: a node before its   *)
(* children.                                                               *)

Reserved == {[stem |-> stem, suffix |-> <<>>] : stem \in {"REQUEST", "ALL", "EXPAND"}}

Numbered(name, n) == [name EXCEPT !.suffix = Append(@, n)]

(* Faulty variant of the next: the second of a name is always name_2. *)
SecondClassId(name, used) == IF name \in used THEN Numbered(name, 2) ELSE name

UniqueClassId(name, used) ==
  IF name \notin used THEN name
  ELSE Numbered(name, CHOOSE n \in 2 .. 2 + Cardinality(used) :
                        /\ Numbered(name, n) \notin used
                        /\ \A m \in 2 .. n - 1 : Numbered(name, m) \in used)

AddClassId(ids, name) == Append(ids, UniqueClassId(name, Reserved \cup ToSet(ids)))

Naming == INSTANCE LeftFold WITH Step <- AddClassId

ClassIds(names) == Naming!Fold(<<>>, names)

-----------------------------------------------------------------------------------
ScanInit == kind \in DOMAIN Alphabet /\ text \in Openings[kind] /\ typed = 0

ScanNext ==
  /\ typed < MaxTyped /\ typed' = typed + 1
  /\ \E character \in Alphabet[kind] : text' = Append(text, character)
  /\ UNCHANGED kind

-----------------------------------------------------------------------------------
(* Properties. *)

(* A token is as deep as elements are opened before it and not closed by it. *)
DepthOf(tokens, n) ==
  Cardinality({j \in 1 .. n - 1 : Opens(tokens[j])}) - Cardinality({j \in 1 .. n : IsEnd(tokens[j])})

(* Nothing of the captured XML is lost or moved, but blanks next to markup  *)
(* that the layout replaces: a token is a line, of its depth, with all that *)
(* the token has between the blanks around it.                              *)
XmlKeepsTheSource(value) ==
  LET tokens == Tokenize(value)
      kept   == Joining!Kept(tokens, {t \in ToSet(tokens) : ~IsBlank(t)})
      shown  == XmlPresentation(value)
      lines  == shown.lines
  IN  /\ tokens # NoTokens => Joining!Fold(<<>>, tokens) = value
      /\ shown.valid =>
           /\ Len(lines) = Len(kept)
           /\ \A n \in 1 .. Len(lines) :
                /\ lines[n].text = LineText(kept[n])
                /\ lines[n].depth = DepthOf(kept, n) /\ lines[n].depth >= 0

(* A place is outside literals when an even number of quotes is before it,  *)
(* and outside parentheses when as many opened as closed out there.         *)
TopLevel(value, i) ==
  LET Free(j) == Cardinality({q \in 1 .. j - 1 : value[q] = "'"}) % 2 = 0
      Count(c) == Cardinality({j \in 1 .. i - 1 : value[j] = c /\ Free(j)})
  IN  Free(i) /\ Count("(") = Count(")")

NthOf(S, n) == CHOOSE i \in S : Cardinality({j \in S : j < i}) = n - 1

SplitsAtTheTopLevel(value) ==
  LET cuts  == {i \in DOMAIN value : value[i] = "," /\ TopLevel(value, i)}
      ends  == {0, Len(value) + 1} \cup cuts
      parts == [n \in 1 .. Cardinality(cuts) + 1 |->
                  SubSeq(value, NthOf(ends, n) + 1, NthOf(ends, n + 1) - 1)]
  IN  /\ SplitTopLevel(value) = Options(parts)
      /\ RemoveOuterParentheses(value) # value =>
           \A prefix \in Prefixes(Inside(value)) : Scanned(prefix).quote \/ Scanned(prefix).depth >= 0

KeepsPlaces(value) == \A i \in 1 .. Len(value) : Len(Lower[value[i]]) = 1

(* The text reads like what is sought, but for the case. *)
Occurs(value, sought, i) ==
  /\ i + Len(sought) - 1 <= Len(value)
  /\ \A k \in 1 .. Len(sought) : Lower[value[i + k - 1]] = <<sought[k]>>

(* What the plain viewer shows is the content.  Where lower case keeps the  *)
(* places, what it marks are occurrences, and one that is not marked        *)
(* overlaps a match or comes after the last one that is sought.             *)
MatchesCoverTheContent(value, query) ==
  LET matches == Search(value, query)
      sought  == NormalizedQuery(query)
  IN  /\ Joining!Fold(<<>>, RenderContent(value, query)) = value
      /\ KeepsPlaces(value) /\ sought # <<>> =>
           /\ \A m \in ToSet(matches) : Occurs(value, sought, m)
           /\ \A i \in 1 .. Len(value) - Len(sought) + 1 :
                Occurs(value, sought, i) =>
                  \/ \E m \in ToSet(matches) : i - m \in 0 .. Len(sought) - 1
                  \/ Len(matches) = MaxMatches /\ i > Last(matches)

(***************************************************************************)
(* The scanners lose, move and confuse nothing of the captured text: XML   *)
(* is formatted without changing its tokens but for the blanks around a    *)
(* text (xmlPresentation.ts:5), OData options are split outside literals   *)
(* and parentheses only, the marked text is the text (CodeBodyViewer.tsx   *)
(* line 12) and, where lower case keeps the places, every occurrence is    *)
(* accounted for, and an expansion never shares a card of the diagram with *)
(* another or with the request.                                            *)
(***************************************************************************)
ScansKeepTheText ==
  CASE kind = "xml"   -> XmlKeepsTheSource(text)
    [] kind = "odata" -> SplitsAtTheTopLevel(text)
    [] kind = "plain" -> \A query \in Queries : MatchesCoverTheContent(text, query)
    [] kind = "names" -> IsInjective(ClassIds(text)) /\ ToSet(ClassIds(text)) \cap Reserved = {}

===================================================================================
