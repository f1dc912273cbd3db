--------------------------- MODULE MCMetricsView ---------------------------
(* The measurements MetricsView is checked with: an action that timed out   *)
(* after one answer, one with a negative round trip and none; a callback    *)
(* with a request and a listen; an action that never ran.                   *)
EXTENDS Integers, Sequences

Plain == [name |-> "login", result |-> "success", wall |-> 2, rtts |-> <<>>, failed |-> 0,
          waits |-> <<>>, ready |-> 0, listenTimeouts |-> 0, send |-> 0, recv |-> 0,
          costs |-> [build |-> 1], code |-> 0, callback |-> FALSE, pending |-> FALSE]

TheSamples ==
    {[Plain EXCEPT !.result = "timeout", !.wall = 8, !.rtts = <<2, -1>>, !.failed = 1, !.code = 7],
     [Plain EXCEPT !.name = "match", !.callback = TRUE, !.rtts = <<1>>, !.send = 1, !.waits = <<8, 0>>,
                   !.listenTimeouts = 1],
     [Plain EXCEPT !.result = "canceled", !.pending = TRUE]}
TheDurations == {1, 2, 8}
=============================================================================
