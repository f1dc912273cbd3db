------------------------------ MODULE MCFlows ------------------------------
\* The flows FlowExecutor is checked with: a task with every kind of node, one whose
\* endless loop leaves through its break condition only, one of handlers, two with
\* faults in their configuration and two that do not load.
EXTENDS Integers, Sequences

Steps(next) == [type |-> "sequence", next |-> next]
Loop(n, c, b, body) ==
    [type |-> "loop", loopCount |-> n, condition |-> c, breakCondition |-> b, body |-> body]
If(c, t, f) == [type |-> "boolean", condition |-> c, trueNext |-> t, falseNext |-> f]
Signal(kind) == [type |-> kind]
Wait(min, max, ms, then) ==
    [type |-> "wait", waitMin |-> min, waitMax |-> max, waitMs |-> ms, then |-> then]
\* An action node without listens, handler or retries that resumes.
Plain(action) ==
    [type |-> "action", action |-> action, listen |-> "", handler |-> "", maxRetries |-> 0,
     retryDelayMs |-> 0, strategy |-> "resume", ignore |-> FALSE, delayMs |-> -1]
Act(pattern) == [pattern |-> pattern, clearsProtected |-> FALSE]

Everything ==
    [nodes |->
        [main |-> Steps(<<"open", "rounds", "leave", "close">>),
         open |-> [Plain("open") EXCEPT !.listen = "pushes", !.delayMs = 0, !.strategy = "abort"],
         rounds |-> Loop(-1, "state", "state", "round"),
         round |-> Steps(<<"ask", "pick", "send">>),
         ask |-> [Plain("ask") EXCEPT !.handler = "mend", !.maxRetries = 1, !.retryDelayMs = 5,
                                      !.strategy = "skip", !.ignore = TRUE],
         mend |-> Steps(<<"fix", "which">>),
         fix |-> [Plain("fix") EXCEPT !.strategy = "skip"],
         which |-> [type |-> "switch", cases |-> <<"again", "">>, defaultNext |-> "stop"],
         again |-> Signal("continue"), stop |-> Signal("break"),
         pick |-> [type |-> "weighted",
                   options |-> <<[node |-> "pause", weight |-> 1], [node |-> "stop", weight |-> -1],
                                 [node |-> "hear", weight |-> 2]>>],
         pause |-> Wait(1, 2, 0, "hear"),
         hear |-> [Plain("hear") EXCEPT !.maxRetries = 1],
         send |-> Plain("send"),
         leave |-> If("state", "script", ""),
         script |-> [Plain("script") EXCEPT !.listen = "pushes", !.maxRetries = 1],
         close |-> Plain("close")],
     actions |-> [open |-> Act("connect"), ask |-> Act("request"), fix |-> Act("http"),
                  hear |-> Act("listen"), send |-> Act("send"), script |-> Act("lua"),
                  close |-> Act("close")],
     listens |-> {"pushes"}, finite |-> FALSE]

Leaving ==
    [nodes |->
        [main |-> Steps(<<"rounds", "twice">>),
         rounds |-> Loop(-1, "", "true", "round"),
         round |-> Steps(<<"ask", "again">>),
         ask |-> Plain("ask"),
         again |-> Signal("continue"),
         twice |-> Loop(2, "", "", "listening"),
         listening |-> [Plain("") EXCEPT !.listen = "pushes", !.strategy = "skip"]],
     actions |-> [ask |-> Act("state")],
     listens |-> {"pushes"}, finite |-> TRUE]

Faulty ==
    [nodes |->
        [main |-> Steps(<<"idle", "empty", "drawn", "gone">>),
         idle |-> Plain(""),
         empty |-> [type |-> "weighted", options |-> <<>>],
         drawn |-> Wait(0, 3, 0, "maybe"),
         maybe |-> If("state", "zero", "odd"),
         odd |-> [type |-> "switch", cases |-> <<"unknown", "goto", "">>, defaultNext |-> "gone"],
         goto |-> Signal("goto"),
         zero |-> [type |-> "weighted", options |-> <<[node |-> "idle", weight |-> 0]>>],
         unknown |-> Plain("undefined")],
     actions |-> [ask |-> Act("state")],
     listens |-> {}, finite |-> TRUE]

\* A break outside any loop ends the whole flow.
Stray == [Faulty EXCEPT !.nodes = [main |-> Wait(0, 0, 4, "stop"), stop |-> Signal("break")]]

\* Handlers that are scripts, retries without delays and a skip nobody catches.
Mending ==
    [nodes |->
        [main |-> Wait(0, 0, 0, "ask"),
         ask |-> [Plain("ask") EXCEPT !.handler = "mend", !.maxRetries = 1, !.strategy = "skip"],
         mend |-> [Plain("script") EXCEPT !.handler = "again", !.maxRetries = 1],
         again |-> Plain("script")],
     actions |-> [ask |-> Act("request"), script |-> Act("lua")],
     listens |-> {}, finite |-> TRUE]

Unheard == [Leaving EXCEPT !.listens = {}]
Clearing ==
    [Leaving EXCEPT !.actions = [ask |-> [Act("state") EXCEPT !.clearsProtected = TRUE]]]

TheFlows == [everything |-> Everything, leaving |-> Leaving, faulty |-> Faulty,
             stray |-> Stray, mending |-> Mending, unheard |-> Unheard, clearing |-> Clearing]
=============================================================================
