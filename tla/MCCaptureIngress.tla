---------------------------- MODULE MCCaptureIngress ----------------------------
(* Small instances of CaptureIngress for TLC. *)
EXTENDS CaptureIngress, TLC

CONSTANTS s1, s2, c1, c2

x1 == [source |-> s1, id |-> 1]
d1 == [source |-> s1, id |-> 2]

MCOneKey == {x1}
MCCommandKey == {d1}
MCNoKeys == {}

Started(k, size) == [kind |-> "started", key |-> k, revision |-> 1, metadata |-> size]
Completed(k) == [kind |-> "completed", key |-> k, revision |-> 2, metadata |-> "kept"]

(* The start of an exchange, with or without room for the reason of a       *)
(* disconnect; that and its outcome; the start of a command.                *)
MCStarts == {Started(x1, "roomy"), Started(x1, "tight")}
MCLifecycle == {Started(x1, "roomy"), Completed(x1)}
MCCommandStart == {[kind |-> "started", key |-> d1, revision |-> 1, query |-> 1]}
MCNoMessages == {}

(* Nothing tells the connections apart. *)
MCSymmetry == Permutations(Connections)
=================================================================================
