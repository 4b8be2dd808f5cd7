----------------------------------- MODULE LiveTable -----------------------------------
(***************************************************************************)
(* What a window that follows a hub promises its reader, however it is     *)
(* told: a table that lists every subject once and only as the hub really  *)
(* had it, and a detail that is one the reader asked for.  It does not     *)
(* promise that the table is current: that is a property of its own.       *)
(***************************************************************************)
EXTENDS FiniteSets

CONSTANT Absent

VARIABLES
  past,       (* every summary that the hub has had                         *)
  shown,      (* the rows of the table                                      *)
  wanted,     (* the keys whose detail the reader asked for                 *)
  inspected   (* the detail shown, or Absent                                *)

tableVars == <<past, shown, wanted, inspected>>

OncePerKey(rows) == \A r, s \in rows : r.key = s.key => r = s

TableInit == shown = {} /\ wanted = {} /\ inspected = Absent

Capture ==
  /\ past \subseteq past'
  /\ UNCHANGED <<shown, wanted, inspected>>

Show ==
  /\ shown' \subseteq past /\ OncePerKey(shown')
  /\ UNCHANGED <<past, wanted, inspected>>

Want ==
  /\ \E r \in shown : wanted' = wanted \cup {r.key}
  /\ UNCHANGED <<past, shown, inspected>>

Inspect ==
  /\ inspected' \in {e \in past : e.key \in wanted} \cup {Absent}
  /\ UNCHANGED <<past, shown, wanted>>

TableNext == Capture \/ Show \/ Want \/ Inspect

TableSpec == TableInit /\ [][TableNext]_tableVars
===================================================================================
