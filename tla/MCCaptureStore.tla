-------------------------------- MODULE MCCaptureStore --------------------------------
(* Small instances of CaptureStore for TLC. *)
EXTENDS CaptureStore

Version(k, revision, host, path, state, status) ==
  [key |-> k, revision |-> revision, arrival |-> k, host |-> host, path |-> path, state |-> state,
   status |-> status, source |-> 1 + (k % 2), method |-> 7, bytes |-> 10 * k,
   duration |-> IF state = "inFlight" THEN Absent ELSE 700 * k]

(* The second revision of the first exchange moves it to another group. *)
x1 == Version(1, 1, 5, <<8, 9>>, "inFlight", Absent)
x1moved == Version(1, 2, 5, <<9>>, "completed", 200)
x2 == Version(2, 1, 5, <<8, 8>>, "completed", 404)
x3 == Version(3, 1, Absent, <<>>, "failed", Absent)

(* The hub evicted the first exchange and was told of it again. *)
x1again == [Version(1, 3, 5, <<9>>, "completed", 200) EXCEPT !.arrival = 4]

MCExchanges == {x1, x1moved, x1again, x2, x3}

Up(e) == [kind |-> "upsert", key |-> e.key, exchange |-> e]
Down(k) == [kind |-> "remove", key |-> k]
Reset(exchanges) == [kind |-> "reset", exchanges |-> exchanges]

MCBatches ==
  {<<Up(x1)>>, <<Up(x1moved)>>, <<Up(x1again)>>, <<Up(x2), Down(1)>>, <<Down(2)>>,
   <<Up(x3), [kind |-> "status"]>>,
   <<Down(3), Reset(<<x2, x1>>), Up(x1moved)>>}

MCSnapshots == {<<>>, <<x1, x2>>}

(* No filter; state:completed duration:>1s status:4xx; and an error. *)
MCFilters ==
  {<<>>,
   <<[key |-> "state", value |-> "completed"],
     [key |-> "duration", value |-> [operator |-> ">", magnitude |-> 1, unit |-> "s"]],
     [key |-> "status", value |-> [minimum |-> 400, maximum |-> 499]]>>,
   <<[key |-> "none", value |-> 5], [key |-> "host", value |-> Absent]>>}
===================================================================================
