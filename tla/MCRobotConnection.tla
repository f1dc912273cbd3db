------------------------- MODULE MCRobotConnection -------------------------
\* TLC instance of RobotConnection: short scripts that connect, listen and ask.
EXTENDS RobotConnection

Plan(s, cb, pushes, hb, t, f) ==
    [script |-> s, callback |-> cb, pushes |-> pushes, heartbeat |-> hb, transport |-> t,
     faults |-> f]

SomePlans ==
    {\* a callback listens to what the script listens to
     Plan(<<"connect", "listeners", "listen", "sleep">>, <<"listen">>,
          <<"call", "push", "push">>, "none", "tcp", {"stop"}),
     \* callbacks ask on the script's own route
     Plan(<<"connect", "listeners", "request", "request">>, <<"request">>,
          <<"call">>, "none", "udp", {"send"}),
     \* a second connection while answers of the first are on their way
     Plan(<<"connect", "request", "close", "connect", "request">>, <<>>,
          <<>>, "plain", "udp", {"peer", "dial"}),
     \* the heartbeat waits for a key, on two connections
     Plan(<<"connect", "key", "sleep", "close", "connect", "emptykey">>, <<>>,
          <<>>, "keyed", "tcp", {"peer", "stop", "slow"}),
     \* pushes beyond what the channels hold, and a script that fails
     Plan(<<"connect", "listeners", "sleep", "raise">>, <<"sleep">>,
          <<"call", "call", "call">>, "none", "tcp", {"peer", "pump", "stop", "slow"})}
============================================================================
