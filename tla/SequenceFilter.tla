-------------------------------- MODULE SequenceFilter --------------------------------
(***************************************************************************)
(* The filter of the rows (src/state/sequence/): the tokens of a filter,   *)
(* the terms they are parsed to and the exchanges that the terms keep.  A  *)
(* token is a record [key, value], its key "none" when it has no colon; a  *)
(* text is found in the words of an exchange, a name that is compared is a *)
(* number.                                                                 *)
(***************************************************************************)
EXTENDS StructureIndex

Term(kind, value) == [kind |-> kind, value |-> value]

ParseError == [kind |-> "error", value |-> Absent]

(* [minimum, maximum], each of three digits; a single status is both.       *)
ParseStatus(value) ==
  IF value.minimum < 100 \/ value.maximum > 599 \/ value.minimum > value.maximum
  THEN ParseError ELSE Term("status", value)

States == {"inFlight", "completed", "failed", "cancelled", "incomplete"}

ParseState(value) == IF value \in States THEN Term("state", value) ELSE ParseError

ParseDuration(value) ==
  Term("duration", [operator |-> value.operator,
                    milliseconds |-> value.magnitude * (IF value.unit = "s" THEN 1000 ELSE 1)])

Keywords == {"method", "status", "host", "source", "state", "duration"}

ParseToken(token) ==
  CASE token.key \notin Keywords -> Term("text", token.value)
    [] token.key \in Keywords /\ token.value = Absent -> ParseError
    [] token.key \in {"method", "host", "source"} /\ token.value # Absent -> Term(token.key, token.value)
    [] token.key = "status" /\ token.value # Absent -> ParseStatus(token.value)
    [] token.key = "state" /\ token.value # Absent -> ParseState(token.value)
    [] token.key = "duration" /\ token.value # Absent -> ParseDuration(token.value)

(* The terms of a filter, or the first token that does not parse.           *)
ParseCaptureFilter(tokens) ==
  LET terms == [n \in DOMAIN tokens |-> ParseToken(tokens[n])]
  IN  [terms |-> terms, error |-> ParseError \in ToSet(terms)]

-----------------------------------------------------------------------------------

MatchesDuration(duration, limit) ==
  /\ duration # Absent
  /\ CASE limit.operator = ">"  -> duration > limit.milliseconds
       [] limit.operator = ">=" -> duration >= limit.milliseconds
       [] limit.operator = "<"  -> duration < limit.milliseconds
       [] limit.operator = "<=" -> duration <= limit.milliseconds
       [] limit.operator = "="  -> duration = limit.milliseconds

MatchesTerm(e, term) ==
  CASE term.kind = "method"   -> e.method = term.value
    [] term.kind = "status"   -> e.status # Absent /\ e.status \in term.value.minimum .. term.value.maximum
    [] term.kind = "host"     -> e.host # Absent /\ e.host = term.value
    [] term.kind = "source"   -> e.source = term.value
    [] term.kind = "state"    -> e.state = term.value
    [] term.kind = "duration" -> MatchesDuration(e.duration, term.value)
    [] term.kind = "text"     -> term.value \in {e.method, e.host, e.source, e.status} \ {Absent}

MatchesCaptureFilter(e, terms) == \A n \in DOMAIN terms : MatchesTerm(e, terms[n])

ExchangeIdsUnderGroup(index, id) ==
  IF id \in DOMAIN index.nodes THEN ExchangeIdsUnder(index)[id] ELSE {}

(* The retained exchanges of the focused group that match, in no order.     *)
SelectFilteredExchangeIds(rows, order, terms, index, focused) ==
  {k \in ToSet(order) : /\ rows[k] # Absent
                        /\ focused # Absent => k \in ExchangeIdsUnderGroup(index, focused)
                        /\ MatchesCaptureFilter(rows[k], terms)}
===================================================================================
