------------------------------- MODULE MCUiStream -------------------------------
(* Small instances of UiStream for TLC. *)
EXTENDS UiStream

CONSTANT s1

x1 == [source |-> s1, id |-> 1]
x2 == [source |-> s1, id |-> 2]

MCKeys == {x1, x2}

MCNoKeys == {}

(* The start and the outcome of one exchange, and the start of another, which  *)
(* only a disconnect ends.                                                     *)
MCMessages ==
  {[kind |-> "started", key |-> x1, revision |-> 1, metadata |-> "roomy"],
   [kind |-> "completed", key |-> x1, revision |-> 2, metadata |-> "kept"],
   [kind |-> "started", key |-> x2, revision |-> 1, metadata |-> "roomy"]}
=================================================================================
