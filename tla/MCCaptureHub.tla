------------------------------ MODULE MCCaptureHub ------------------------------
(* Small instances of CaptureHub for TLC. *)
EXTENDS CaptureHub

CONSTANTS s1, s2

(* Two exchanges of one source and one of another. *)
MCExchangeKeys ==
  {[source |-> s1, id |-> 1], [source |-> s1, id |-> 2], [source |-> s2, id |-> 1]}

MCTwoKeys == {[source |-> s1, id |-> 1], [source |-> s1, id |-> 2]}

MCOneKey == {[source |-> s1, id |-> 3]}

MCNoKeys == {}
==================================================================================
