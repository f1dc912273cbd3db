---------------------------- MODULE FlowExecutor ----------------------------
(***************************************************************************)
(* One robot walks through its flow: the node interpreter of               *)
(* engine/executor.go, the patterns of the declarative action executor     *)
(* (engine/action.go) and the shell of robot/robot.go that runs an action, *)
(* corrects its error while the robot stops and records the sample.        *)
(*                                                                         *)
(* The Go call stack is a sequence of frames, the running function first.  *)
(* `call' is the node executeNode was just asked for, `ret' the error a    *)
(* function has just returned.  The context of the robot can be cancelled  *)
(* between any two steps.  What a condition evaluates to, which weighted   *)
(* branch is drawn and how an action ends is up to the environment; the    *)
(* network under the actions is in RobotConnection.                        *)
(***************************************************************************)
EXTENDS Integers, Sequences, FiniteSets

CONSTANT Flows      \* the flows a task may load, by name

VARIABLES name,       \* the flow this robot was given
          stack,      \* the frames of the interpreter, the innermost first
          call,       \* the node that is being entered, or None
          ret,        \* the error a call returned ("ok" for nil), or None
          canceled,   \* ctx.Err() # nil
          executing,  \* the collector's gauge of running actions
          late,       \* history: attempts started after the cancellation
          insisting,  \* history: retries it found waiting for their handlers
          broken      \* what the last sequence cut short by it accounted for

vars == <<name, stack, call, ret, canceled, executing, late, insisting, broken>>

None == "none"
(* The errors an executeNode returns; the first is nil.                    *)
Results == {"ok", "break", "continue", "skip", "canceled", "error"}
Signals == {"break", "continue"}
NodeTypes == {"sequence", "action", "loop", "boolean", "switch", "weighted", "wait"}
(* What an action ends with; "business" is a code of the server.           *)
Errors == {"ok", "failure", "business", "timeout", "canceled"}

flow == Flows[name]
Nodes == flow.nodes
Frame == Head(stack)
Node == Nodes[Frame.node]
Running(type, at) ==
    /\ call = None /\ ret = None /\ stack # <<>>
    /\ Node.type = type /\ Frame.at = at
Returned(type, at) ==
    /\ call = None /\ ret # None /\ stack # <<>>
    /\ Node.type = type /\ Frame.at = at

(* The ways on from a frame: to another point of it, into a child, back.   *)
GoTo(f) ==
    /\ stack' = <<f>> \o Tail(stack)
    /\ call' = None
    /\ ret' = None
Call(id, f) ==
    /\ stack' = <<f>> \o Tail(stack)
    /\ call' = id
    /\ ret' = None
Return(v) ==
    /\ stack' = Tail(stack)
    /\ call' = None
    /\ ret' = v
At(label) == [Frame EXCEPT !.at = label]
Rest == UNCHANGED <<name, canceled, executing, late, insisting, broken>>
-----------------------------------------------------------------------------
(* A flow as it is decoded: every type of node uses fields of its own.     *)
Ids == STRING \ {None}    \* of nodes; "" where there is none
IsNode(node) ==
    /\ node.type \in STRING
    /\ node.type = "sequence" => node.next \in Seq(Ids)
    /\ node.type = "loop"     => node.body \in Ids /\ node.loopCount \in Int
    /\ node.type = "boolean"  => node.trueNext \in Ids /\ node.falseNext \in Ids
    /\ node.type = "switch"   => node.cases \in Seq(Ids) /\ node.defaultNext \in Ids
    /\ node.type = "weighted" => \A k \in DOMAIN node.options : node.options[k].node \in Ids
    /\ node.type = "wait"     => node.then \in Ids
    /\ node.type = "action"   => /\ node.handler \in Ids
                                /\ node.maxRetries \in Int /\ node.retryDelayMs \in Int
IsFlow(f) == \A id \in DOMAIN f.nodes : IsNode(f.nodes[id])

(* Loading: every listen a node refers to is defined, no action clears a   *)
(* key the robot's life depends on, every condition compiles.              *)
PrepareTaskFlow(f) ==
    /\ \A a \in DOMAIN f.actions : ~f.actions[a].clearsProtected
    /\ \A id \in DOMAIN f.nodes :
        /\ f.nodes[id].type = "action" => f.nodes[id].listen \in f.listens \cup {""}
        /\ f.nodes[id].type \in {"loop", "boolean"} => f.nodes[id].condition # "malformed"

Init ==
    /\ name \in {f \in DOMAIN Flows : PrepareTaskFlow(Flows[f])}
    /\ stack = <<>>
    /\ call = "main"
    /\ ret = None
    /\ canceled = FALSE
    /\ executing = 0
    /\ late = 0 /\ insisting = 0
    /\ broken = [missing |-> {}, twice |-> {}]

(* An action that will be tried again when its handler is over, without a  *)
(* delay and so without a look at the context (retryDelay).                *)
Insists(f) ==
    f.at = "handler" /\ f.i <= Nodes[f.node].maxRetries /\ Nodes[f.node].retryDelayMs <= 0

(* The robot is stopped, or its connection is lost.                        *)
Cancel ==
    /\ ~canceled
    /\ canceled' = TRUE
    /\ insisting' = Cardinality({k \in DOMAIN stack : Insists(stack[k])})
    /\ UNCHANGED <<name, stack, call, ret, executing, late, broken>>
-----------------------------------------------------------------------------
(* executeNode: a cancelled context, an unknown node or type and the two   *)
(* signals return at once, the other types get their frame.                *)
EntryOf(node) ==
    CASE node.type = "action" -> IF node.action = "" THEN "listenOnly" ELSE "lookup"
      [] node.type = "switch" -> "case"
      [] OTHER -> "start"

executeNode ==
    /\ call # None
    /\ call' = None
    /\ \/ /\ canceled
          /\ ret' = "canceled"
          /\ UNCHANGED stack
       \/ /\ ~canceled
          /\ call \in DOMAIN Nodes => Nodes[call].type \notin NodeTypes \cup Signals
          /\ ret' = "error"
          /\ UNCHANGED stack
       \/ /\ ~canceled /\ call \in DOMAIN Nodes
          /\ Nodes[call].type \in Signals
          /\ ret' = Nodes[call].type
          /\ UNCHANGED stack
       \/ /\ ~canceled /\ call \in DOMAIN Nodes
          /\ Nodes[call].type \in NodeTypes
          /\ stack' = <<[node |-> call, at |-> EntryOf(Nodes[call]), i |-> 1,
                         err |-> "ok", sampled |-> {}]>> \o stack
          /\ ret' = None
    /\ Rest
-----------------------------------------------------------------------------
(* executeSequence.  The frame's `sampled' holds the children that have    *)
(* left a sample: those whose action started.  reportRemainingCanceled     *)
(* writes off the action children from k on; broken keeps, for the reader  *)
(* of the panel, the children without a sample and those with two.         *)
IsActionNode(id) ==
    id \in DOMAIN Nodes /\ Nodes[id].type = "action" /\ Nodes[id].action # ""
ActionChildren == {k \in DOMAIN Node.next : IsActionNode(Node.next[k])}
WriteOff(reported) ==
    broken' = [missing |-> ActionChildren \ (Frame.sampled \cup reported),
               twice |-> Frame.sampled \cap reported]

\* Mutant: the child that has just been counted is counted again.
MutantReportRemaining(k) == WriteOff({j \in ActionChildren : j >= k - 1})
reportRemainingCanceled(k) == WriteOff({j \in ActionChildren : j >= k})

SequenceNext ==
    /\ Running("sequence", "start")
    /\ \/ /\ Frame.i > Len(Node.next)
          /\ Return("ok")
          /\ UNCHANGED broken
       \/ /\ Frame.i <= Len(Node.next) /\ canceled
          /\ reportRemainingCanceled(Frame.i)
          /\ Return("canceled")
       \/ /\ Frame.i <= Len(Node.next) /\ ~canceled
          /\ Call(Node.next[Frame.i], Frame)
          /\ UNCHANGED broken
    /\ UNCHANGED <<name, canceled, executing, late, insisting>>

SequenceBack ==
    /\ Returned("sequence", "start")
    /\ \/ /\ ret = "ok"
          /\ GoTo([Frame EXCEPT !.i = @ + 1])
          /\ UNCHANGED broken
       \/ /\ ret = "skip"
          /\ Return("ok")
          /\ UNCHANGED broken
       \/ /\ ret = "canceled"
          /\ reportRemainingCanceled(Frame.i + 1)
          /\ Return(ret)
       \/ /\ ret \in {"break", "continue", "error"}
          /\ Return(ret)
          /\ UNCHANGED broken
    /\ UNCHANGED <<name, canceled, executing, late, insisting>>

-----------------------------------------------------------------------------
(* executeLoop: i is the iteration (held at 1 in an endless loop).         *)
(* An empty condition counts as true; "true" stands for one that holds in  *)
(* every state of the robot, any other may go either way.                  *)
Evaluate(condition) == IF condition \in {"", "true"} THEN {TRUE} ELSE BOOLEAN

LoopNext ==
    /\ Running("loop", "start")
    /\ \/ /\ Node.loopCount >= 0 /\ Frame.i > Node.loopCount
          /\ Return("ok")
       \/ /\ Node.loopCount < 0 \/ Frame.i <= Node.loopCount
          /\ canceled
          /\ Return("canceled")
       \/ /\ Node.loopCount < 0 \/ Frame.i <= Node.loopCount
          /\ ~canceled
          /\ \E go \in Evaluate(Node.condition) :
                IF go THEN Call(Node.body, [Frame EXCEPT !.at = "body"])
                      ELSE Return("ok")
    /\ Rest

(* The break condition is looked at after a normal end of the body and     *)
(* after a continue.                                                       *)
Iterate ==
    GoTo([Frame EXCEPT !.at = "start", !.i = IF Node.loopCount < 0 THEN 1 ELSE @ + 1])
CheckBreak ==
    \/ /\ Node.breakCondition # ""
       /\ \E exit \in Evaluate(Node.breakCondition) : IF exit THEN Return("ok") ELSE Iterate
    \/ Node.breakCondition = "" /\ Iterate

\* Mutant: continue goes on without a look at the break condition.
MutantOnContinue == Iterate
OnContinue == CheckBreak

LoopExits == {"break", "skip"}
LoopBack ==
    /\ Returned("loop", "body")
    /\ \/ ret \in LoopExits /\ Return("ok")
       \/ ret = "continue" /\ OnContinue
       \/ ret = "ok" /\ CheckBreak
       \/ ret \notin LoopExits \cup {"continue", "ok"} /\ Return(ret)
    /\ Rest
-----------------------------------------------------------------------------
(* The branching nodes end normally when the branch they took skips.       *)
Branch(id) == IF id = "" THEN Return("ok") ELSE Call(id, At("branch"))

executeBoolean ==
    /\ Running("boolean", "start")
    /\ \E holds \in Evaluate(Node.condition) :
            Branch(IF holds THEN Node.trueNext ELSE Node.falseNext)
    /\ Rest

(* One case per step: the context is read before each of them.             *)
executeSwitch ==
    /\ Running("switch", "case")
    /\ \/ /\ Frame.i <= Len(Node.cases) /\ canceled
          /\ Return("canceled")
       \/ /\ Frame.i <= Len(Node.cases) /\ ~canceled
          /\ \/ Branch(Node.cases[Frame.i])
             \/ GoTo([Frame EXCEPT !.i = @ + 1])
       \/ /\ Frame.i > Len(Node.cases)
          /\ Branch(Node.defaultNext)
    /\ Rest

(* Options with a weight of zero or less are never drawn; a node none of   *)
(* whose options can be drawn is a configuration error.                    *)
Drawable == {k \in DOMAIN Node.options : Node.options[k].weight > 0}
executeWeighted ==
    /\ Running("weighted", "start")
    /\ IF Node.options = <<>> THEN Return("ok")
       ELSE IF Drawable = {} THEN Return("error")
       ELSE \E k \in Drawable : Call(Node.options[k].node, At("branch"))
    /\ Rest

BranchBack ==
    /\ \E type \in {"boolean", "switch", "weighted"} : Returned(type, "branch")
    /\ Return(IF ret = "skip" THEN "ok" ELSE ret)
    /\ Rest

(* executeWait: the milliseconds it sleeps, then its only successor, whose *)
(* result it passes on as it is.                                           *)
WaitChoices ==
    IF Node.waitMin > 0 /\ Node.waitMax > 0
    THEN IF Node.waitMin >= Node.waitMax THEN {Node.waitMin} ELSE Node.waitMin..Node.waitMax
    ELSE IF Node.waitMin > 0 \/ Node.waitMax > 0 THEN {0}
    ELSE IF Node.waitMs > 0 THEN {Node.waitMs} ELSE {0}
WaitOver == IF Node.then = "" THEN Return("ok") ELSE Call(Node.then, At("then"))

executeWait ==
    /\ \/ /\ Running("wait", "start")
          /\ \E ms \in WaitChoices : IF ms > 0 THEN GoTo(At("sleep")) ELSE WaitOver
       \/ /\ Running("wait", "sleep")
          /\ \/ ~canceled /\ WaitOver
             \/ canceled /\ Return("canceled")
       \/ /\ Returned("wait", "then")
          /\ Return(ret)
    /\ Rest
-----------------------------------------------------------------------------
(* One attempt at an action.  The frame's i is one more than the retries   *)
(* used, err what the action returned.                                     *)

(* The node's action is looked up once; then RecordActionStart opens every *)
(* attempt.  A parent sequence sees the sample of the first one.           *)
LookUpAction ==
    /\ Running("action", "lookup")
    /\ IF Node.action \in DOMAIN flow.actions THEN GoTo(At("execute"))
                                              ELSE Return("error")
    /\ Rest

Pattern == flow.actions[Node.action].pattern
SampledIn(parent) ==
    IF Nodes[parent.node].type = "sequence"
    THEN [parent EXCEPT !.sampled = @ \cup {parent.i}] ELSE parent
ExecuteAction ==
    /\ Running("action", "execute")
    /\ executing' = executing + 1
    /\ late' = IF canceled THEN late + 1 ELSE late
    /\ stack' = LET opened == <<[Frame EXCEPT !.at = "attempt"]>> \o Tail(stack)
                IN  IF Len(stack) > 1 /\ Frame.i = 1
                    THEN [opened EXCEPT ![2] = SampledIn(@)] ELSE opened
    /\ UNCHANGED <<name, call, ret, canceled, insisting, broken>>

(* How the patterns end, apart from a cancellation.  Closing a connection  *)
(* always succeeds.  State, sends and everything that builds a message can *)
(* fail on a binding; a send on an unmapped codec or a lost connection; a  *)
(* connect on an empty address or the dial; an HTTP request on its body,   *)
(* the round trip or a status that is not 2xx (a body that does not parse  *)
(* is not an error).  A request and a listen store the answer, cannot      *)
(* parse it, return the server's code after storing what came with it, or  *)
(* time out.  A script ends as it likes; any error that is not an action   *)
(* error is wrapped into a failure.                                        *)
CloseOutcomes == {"ok"}
StateOutcomes == {"ok", "failure"}
SendOutcomes == {"ok", "failure"}
ConnectOutcomes == {"ok", "failure"}
HTTPOutcomes == {"ok", "failure"}
RequestOutcomes == {"ok", "failure", "business", "timeout"}
ListenOutcomes == {"ok", "failure", "business", "timeout"}
LuaOutcomes == {"ok", "failure", "business", "timeout"}
Immediate == [close |-> CloseOutcomes, state |-> StateOutcomes, send |-> SendOutcomes]
Awaited == [connect |-> ConnectOutcomes, http |-> HTTPOutcomes, request |-> RequestOutcomes,
            listen |-> ListenOutcomes, lua |-> LuaOutcomes]

(* Execute turns a cancelled context away before anything is sent or       *)
(* written; a Lua script is started all the same.                          *)
Ends(e) == GoTo([Frame EXCEPT !.at = "ended", !.err = e])
Execute ==
    /\ Running("action", "attempt")
    /\ \/ /\ canceled /\ Pattern # "lua"
          /\ Ends("canceled")
       \/ /\ ~canceled
          /\ Pattern \in DOMAIN Immediate
          /\ \E e \in Immediate[Pattern] : Ends(e)
       \/ /\ ~canceled \/ Pattern = "lua"
          /\ Pattern \in DOMAIN Awaited
          /\ Ends("failure") \/ GoTo(At("io"))
    /\ Rest

(* runIO looks at the context once more before it hands a dial or an HTTP  *)
(* round trip over; then the job is waited for.                            *)
runIO ==
    /\ Running("action", "io")
    /\ IF Pattern \in {"connect", "http"} /\ canceled
       THEN Ends("canceled") ELSE GoTo(At("waiting"))
    /\ Rest

(* Every wait ends with an outcome of its pattern or with the              *)
(* cancellation.                                                           *)
IOEnds ==
    /\ Running("action", "waiting")
    /\ \/ \E e \in Awaited[Pattern] : Ends(e)
       \/ canceled /\ Ends("canceled")
    /\ Rest

(* The shell around an action: while the robot stops, an error is a        *)
(* cancellation whatever its code (normalizeActionCancel); the sample is   *)
(* recorded under the corrected error.                                     *)
\* Mutant: an error of a stopping robot keeps its code, and may be retried.
MutantNormalized(e) == e
Normalized(e) == IF canceled /\ e # "ok" THEN "canceled" ELSE e
Ignored(e) == e = "business" /\ Node.ignore
Ended(e) == executing - 1
RecordAction ==
    /\ Running("action", "ended")
    /\ executing' = Ended(Normalized(Frame.err))
    /\ LET e == Normalized(Frame.err)
       IN  CASE e = "canceled" -> Return("canceled")
             [] e = "ok" \/ Ignored(e) -> GoTo([Frame EXCEPT !.err = e, !.at = "listens"])
             [] OTHER -> GoTo([Frame EXCEPT !.err = e, !.at = "failed"])
    /\ UNCHANGED <<name, canceled, late, insisting, broken>>
-----------------------------------------------------------------------------
(* executeAction after an attempt that failed: the handler's subflow, a    *)
(* retry after its delay, or the end of the node by its strategy.  A skip  *)
(* inside the handler ends the handler only.                               *)
AfterHandler ==
    IF Frame.i <= Node.maxRetries
    THEN GoTo([Frame EXCEPT !.i = @ + 1, !.at = "retryDelay"])
    ELSE GoTo(At("finalDelay"))
OnErrorHandler ==
    /\ \/ /\ Running("action", "failed")
          /\ IF Node.handler = "" THEN AfterHandler ELSE Call(Node.handler, At("handler"))
       \/ /\ Returned("action", "handler")
          /\ IF ret \in {"ok", "skip"} THEN AfterHandler ELSE Return(ret)
    /\ Rest

(* CooperativeSleep: it looks at the context first and last, and is over   *)
(* when its time is.  A delay that is negative (delayMs, or the default of *)
(* the task where a node has none) and a retry without one do not look at  *)
(* the context at all.                                                     *)
Sleep(label, sleeps, onward) ==
    /\ Running("action", label)
    /\ \/ (sleeps => ~canceled) /\ onward
       \/ sleeps /\ canceled /\ Return("canceled")
    /\ Rest
RetryDelay == Sleep("retryDelay", Node.retryDelayMs > 0, GoTo(At("execute")))

applyOnErrorStrategy(resume) ==
    CASE Node.strategy = "abort" -> Return("error")
      [] Node.strategy = "skip" -> Return("skip")
      [] OTHER -> resume
FinalDelay == Sleep("finalDelay", Node.delayMs >= 0, applyOnErrorStrategy(Return("ok")))
NodeDelay == Sleep("delay", Node.delayMs >= 0, Return("ok"))

(* registerActionListens: a failure is final, the action is not repeated;  *)
(* under the strategy "resume" the node then goes through its ordinary     *)
(* delay as well.                                                          *)
RegisterListens ==
    /\ Running("action", "listens")
    /\ \/ GoTo(At("delay"))
       \/ Node.listen # "" /\ GoTo(At("listenDelay"))
    /\ Rest
ListenFailed == Sleep("listenDelay", Node.delayMs >= 0, applyOnErrorStrategy(GoTo(At("delay"))))

executeListenOnly ==
    /\ Running("action", "listenOnly")
    /\ IF Node.listen = "" THEN Return("ok") ELSE GoTo(At("listens"))
    /\ Rest
-----------------------------------------------------------------------------
Done == stack = <<>> /\ call = None
Finished == Done /\ UNCHANGED vars

Composite ==
    \/ SequenceNext \/ SequenceBack \/ LoopNext \/ LoopBack
    \/ executeBoolean \/ executeSwitch \/ executeWeighted \/ BranchBack \/ executeWait
Attempt ==
    \/ LookUpAction \/ ExecuteAction \/ Execute \/ runIO \/ IOEnds \/ RecordAction
    \/ OnErrorHandler \/ RetryDelay \/ FinalDelay \/ NodeDelay
    \/ RegisterListens \/ ListenFailed \/ executeListenOnly
Run == executeNode \/ Composite \/ Attempt

Next == Cancel \/ Run \/ Finished
Spec == Init /\ [][Next]_vars
(* The executor's goroutine runs on; sleeps have an end, and every wait    *)
(* has its own timeout.                                                    *)
FairSpec == Spec /\ WF_vars(Run)
-----------------------------------------------------------------------------
(* The frames of the stack are of nodes of this flow.                       *)
TypeOK ==
    /\ name \in DOMAIN Flows
    /\ call \in Ids \cup {"main", None} /\ ret \in Results \cup {None}
    /\ canceled \in BOOLEAN /\ late \in Nat
    /\ \A k \in DOMAIN stack : stack[k].node \in DOMAIN Nodes

(* The gauge of running actions is the number of attempts on the stack:    *)
(* it is zero again whenever the executor rests between two attempts, also *)
(* after a cancellation and inside error handlers.                         *)
Attempting == {"attempt", "io", "waiting", "ended"}
GaugeIsExact ==
    executing = Cardinality({k \in DOMAIN stack : stack[k].at \in Attempting})

(* reportRemainingCanceled exists so that no robot vanishes between two    *)
(* neighbouring actions of the panel.  When a cancellation ends a          *)
(* sequence, no action of it is counted twice and at most one is missing:  *)
(* the one that executeNode turned away between the sequence's look at the *)
(* context and its own.                                                    *)
SamplesAreContinuous ==
    broken.twice = {} /\ Cardinality(broken.missing) <= 1

(* Once the robot is stopped at most one more attempt begins, wherever the *)
(* cancellation fell: in a retry, a handler, a loop without delays.  A     *)
(* script begins under a cancelled context and may succeed, and when it    *)
(* was the end of a handler, the action it was to mend is tried again:     *)
(* one more attempt for each retry that waited for its handler.            *)
PromptStop == late <= 1 + insisting

(* The nodes a node may go on to.                                          *)
NextOf(node) ==
    CASE node.type = "sequence" -> {node.next[k] : k \in DOMAIN node.next}
      [] node.type = "loop"     -> {node.body}
      [] node.type = "boolean"  -> {node.trueNext, node.falseNext}
      [] node.type = "switch"   -> {node.cases[k] : k \in DOMAIN node.cases} \cup {node.defaultNext}
      [] node.type = "weighted" -> {node.options[k].node : k \in DOMAIN node.options}
      [] node.type = "wait"     -> {node.then}
      [] node.type = "action"   -> {node.handler}
      [] OTHER                  -> {}

(* The nodes `open' can be where nothing above catches: main, and what     *)
(* follows a node of it that is not of a type that catches.                *)
Uncaught(nodes, open, catching) ==
    /\ "main" \in DOMAIN nodes => "main" \in open
    /\ \A id \in open :
        nodes[id].type \notin catching => NextOf(nodes[id]) \cap DOMAIN nodes \subseteq open

(* All break and continue nodes are inside loops; all skips are inside a   *)
(* node that catches them, which a wait does not.                          *)
WellNested(f) ==
    \E open \in SUBSET DOMAIN f.nodes :
        /\ Uncaught(f.nodes, open, {"loop"})
        /\ \A id \in open : f.nodes[id].type \notin Signals
SkipsAreCaught(f) ==
    \E open \in SUBSET DOMAIN f.nodes :
        /\ Uncaught(f.nodes, open, NodeTypes \ {"wait"})
        /\ \A id \in open : ~(f.nodes[id].type = "action" /\ f.nodes[id].strategy = "skip")

(* break, continue and skip are signals inside a flow: it ends with one of *)
(* them only if there was nothing around the node to catch it.             *)
SignalsAreConfined ==
    Done => /\ ret \in Signals => ~WellNested(flow)
            /\ ret = "skip" => ~SkipsAreCaught(flow)

(* What a flow leaves behind is exact, however it is cut short: the gauge  *)
(* of running actions, the samples of a broken sequence and the result.    *)
FlowIsExact == TypeOK /\ GaugeIsExact /\ SamplesAreContinuous /\ SignalsAreConfined

(* A stopped robot leaves its flow, whatever node it is in; and a flow     *)
(* whose endless loops all have a break condition that holds comes to its  *)
(* end by itself, a body that always ends with continue included.          *)
FlowEnds == (canceled \/ flow.finite) ~> Done
=============================================================================
