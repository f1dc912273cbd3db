---------------------------- MODULE AgentProofs ----------------------------
(***************************************************************************)
(* Proofs about the parts of Agent that RobotManagerProofs does not treat: *)
(* the flow of a robot, for every flow that can be decoded, and the bundle *)
(* cache, for every set of agents and every size of the bundle.            *)
(***************************************************************************)
EXTENDS Agent, TLAPS, FiniteSetTheorems

-----------------------------------------------------------------------------
(* The flow: types and positions.                                          *)

None == "none"
N == Flows[name].nodes
Type(f) == N[f.node].type
Top == stack[1]
Running == call = None /\ ret = None

Labels ==
    {"start", "lookup", "listenOnly", "case", "body", "branch", "sleep", "then", "execute", "attempt",
     "io", "waiting", "ended", "listens", "failed", "handler", "retryDelay", "finalDelay", "delay",
     "listenDelay"}
Frames ==
    [node : DOMAIN N, at : Labels, i : Nat \ {0}, err : Flow!Errors, sampled : SUBSET Nat]

(* A frame that waits for the node it has called (executeNode returns to   *)
(* it).                                                                    *)
Waits(f) ==
    \/ Type(f) = "sequence" /\ f.at = "start"
    \/ Type(f) = "loop" /\ f.at = "body"
    \/ Type(f) \in {"boolean", "switch", "weighted"} /\ f.at = "branch"
    \/ Type(f) = "wait" /\ f.at = "then"
    \/ Type(f) = "action" /\ f.at = "handler"

FlowTypes ==
    /\ name \in DOMAIN Flows
    /\ stack \in Seq(Frames)
    /\ call \in Flow!Ids \cup {"main", None} /\ ret \in Flow!Results \cup {None}
    /\ stopped \in BOOLEAN
    /\ late \in Nat /\ insisting \in Nat

(* Only the frame on top runs; of an action that has nothing to execute    *)
(* only the listens are registered, and only an attempt that can wait      *)
(* comes to a wait.                                                        *)
PositionInv ==
    /\ call # None => ret = None
    /\ stack = <<>> /\ call = None => ret # None
    /\ \A k \in DOMAIN stack :
        /\ Type(stack[k]) \in Flow!NodeTypes
        /\ k > 1 \/ ~Running => Waits(stack[k])
        /\ stack[k].at = "lookup" => stack[k].i = 1
        /\ stack[k].at = "listenOnly" => N[stack[k].node].action = ""
        /\ stack[k].at \in {"io", "waiting"} =>
              Flows[name].actions[N[stack[k].node].action].pattern \in DOMAIN Flow!Awaited

(* The gauge counts the attempt on top (RecordActionStart, RecordAction).  *)
GaugeInv ==
    executing = IF stack # <<>> /\ Top.at \in Flow!Attempting THEN 1 ELSE 0

-----------------------------------------------------------------------------
(* The samples of a sequence.                                              *)

Follows(f, id) == f.i \in DOMAIN N[f.node].next /\ N[f.node].next[f.i] = id
ActionKids(f) == {k \in DOMAIN N[f.node].next : Flow!IsActionNode(N[f.node].next[k])}

(* An action whose first attempt has begun.                                *)
Tried(f) ==
    /\ Type(f) = "action" /\ N[f.node].action # ""
    /\ f.at # "lookup" /\ ~(f.at = "execute" /\ f.i = 1)

(* Of a sequence's children none after the current one has a sample, and   *)
(* every action before it has; the current one has when it was tried.      *)
SamplesOf(f) ==
    /\ f.sampled \subseteq 1 .. f.i
    /\ ActionKids(f) \cap 1 .. (f.i - 1) \subseteq f.sampled
SampleWith(f, child) ==
    /\ Follows(f, child.node)
    /\ Tried(child) => f.i \in f.sampled

SampleInv ==
    /\ \A k \in DOMAIN stack : Type(stack[k]) = "sequence" =>
        /\ SamplesOf(stack[k])
        /\ k > 1 => SampleWith(stack[k], stack[k-1])
    /\ stack # <<>> /\ Type(Top) = "sequence" =>
        /\ call # None => Follows(Top, call)
        /\ ret # None =>
              /\ Top.i \in DOMAIN N[Top.node].next
              /\ ret = "ok" /\ Top.i \in ActionKids(Top) => Top.i \in Top.sampled
        /\ Running => Top.i \notin Top.sampled

BrokenInv == broken.twice = {} /\ \E m : broken.missing \subseteq {m}

-----------------------------------------------------------------------------
(* The signals.                                                            *)

(* What is not below a node that catches is among the open ones.           *)
OpenInv ==
    \A open \in SUBSET DOMAIN N, catching \in SUBSET Flow!NodeTypes :
        Flow!Uncaught(N, open, catching) =>
            /\ \A k \in DOMAIN stack :
                (\A j \in (k+1) .. Len(stack) : Type(stack[j]) \notin catching) => stack[k].node \in open
            /\ call \in DOMAIN N \ {None} /\ (\A j \in DOMAIN stack : Type(stack[j]) \notin catching)
                  => call \in open

SignalInv ==
    /\ ret \in Flow!Signals /\ Flow!WellNested(Flows[name]) =>
          \E j \in DOMAIN stack : Type(stack[j]) = "loop"
    /\ ret = "skip" /\ Flow!SkipsAreCaught(Flows[name]) =>
          \E j \in DOMAIN stack : Type(stack[j]) # "wait"

-----------------------------------------------------------------------------
(* The end of a stopped robot.                                             *)

(* From here the next attempt begins without a look at the context.        *)
Starting(f) ==
    /\ Type(f) = "action"
    /\ \/ f.at \in {"lookup", "execute", "failed"}
       \/ f.at = "retryDelay" /\ N[f.node].retryDelayMs <= 0
InsistingIn(s) == {k \in DOMAIN s : Flow!Insists(s[k])}
One(b) == IF b THEN 1 ELSE 0

(* The attempts a stopped robot has begun and may still begin.             *)
PromptInv ==
    /\ ~stopped => late = 0
    /\ stopped =>
        late + Cardinality(InsistingIn(stack)) + One(stack # <<>> /\ Running /\ Starting(Top))
            <= 1 + insisting

FlowInv ==
    /\ FlowTypes /\ PositionInv /\ GaugeInv
    /\ SampleInv /\ BrokenInv
    /\ OpenInv /\ SignalInv
    /\ PromptInv

-----------------------------------------------------------------------------
(* Every step of the executor enters the node that was called, turns the   *)
(* call away, moves the frame on top, calls from it, or returns from it;   *)
(* the beginning and the end of an attempt do a little more.               *)

Kept == UNCHANGED <<name, stopped, executing, late, insisting, broken>>

Enters ==
    /\ call # None /\ call \in DOMAIN N /\ N[call].type \in Flow!NodeTypes /\ ~stopped
    /\ stack' = <<[node |-> call, at |-> Flow!EntryOf(N[call]), i |-> 1,
                   err |-> "ok", sampled |-> {}]>> \o stack
    /\ call' = None /\ ret' = None /\ Kept

Refuses ==
    /\ call # None
    /\ stack' = stack /\ call' = None /\ Kept
    /\ \/ ret' \in {"canceled", "error"}
       \/ call \in DOMAIN N /\ ret' = N[call].type /\ ret' \in Flow!Signals

MovesTo(g) ==
    /\ g \in Frames /\ stack # <<>> /\ call = None
    /\ stack' = <<g>> \o Tail(stack) /\ call' = None /\ ret' = None /\ Kept
    /\ g.node = Top.node
    /\ g.at \in Flow!Attempting <=> Top.at \in Flow!Attempting
    /\ g.at \notin {"lookup", "listenOnly", "handler"}
    /\ Type(Top) = "sequence" => ret = "ok" /\ g = [Top EXCEPT !.i = @ + 1]
    /\ Tried(g) => Tried(Top)
    /\ g.at \in {"io", "waiting"} =>
          Flows[name].actions[N[g.node].action].pattern \in DOMAIN Flow!Awaited
    /\ stopped /\ Starting(g) =>
          \/ ret = None /\ Starting(Top)
          \/ ret # None /\ Flow!Insists(Top)

CallsFrom(id, g) ==
    /\ g \in Frames /\ stack # <<>> /\ Running
    /\ stack' = <<g>> \o Tail(stack) /\ call' = id /\ ret' = None /\ Kept
    /\ g.node = Top.node
    /\ id \in Flow!Ids /\ id \in Flow!NextOf(N[g.node])
    /\ Waits(g) /\ Top.at \notin Flow!Attempting
    /\ Type(Top) = "sequence" => g = Top /\ Follows(g, id)
    /\ Tried(g) => Tried(Top)
    /\ Flow!Insists(g) => Starting(Top)

(* What a sequence writes off when a cancellation ends it.                 *)
CutShort ==
    /\ Type(Top) = "sequence"
    /\ \E k \in {Top.i, Top.i + 1} :
        /\ k = Top.i => Running
        /\ k = Top.i + 1 => ret = "canceled"
        /\ Flow!reportRemainingCanceled(k)

Leaves(v) ==
    /\ v \in Flow!Results /\ stack # <<>> /\ call = None
    /\ stack' = Tail(stack) /\ call' = None /\ ret' = v
    /\ UNCHANGED <<name, stopped, late, insisting>>
    /\ v \in Flow!Signals => ret = v /\ Type(Top) # "loop"
    /\ v = "skip" => \/ ret = "skip" /\ Type(Top) = "wait"
                     \/ Type(Top) = "action" /\ N[Top.node].strategy = "skip"
    /\ v = "ok" /\ Type(Top) = "action" /\ N[Top.node].action # "" => Tried(Top)

Returns(v) ==
    /\ Leaves(v)
    /\ executing' = executing /\ Top.at \notin Flow!Attempting
    /\ broken' = broken \/ CutShort

(* RecordAction: the attempt is over, canceled or with an outcome.         *)
Records ==
    /\ Running /\ stack # <<>> /\ Top.at = "ended" /\ Type(Top) = "action"
    /\ executing' = executing - 1 /\ UNCHANGED <<name, stopped, late, insisting, broken>>
    /\ \/ Leaves("canceled")
       \/ \E g \in Frames :
            /\ stack' = <<g>> \o Tail(stack) /\ call' = None /\ ret' = None
            /\ g.node = Top.node /\ g.i = Top.i
            /\ g.at = "listens" \/ (g.at = "failed" /\ ~stopped)

Shapes ==
    \/ Enters \/ Refuses
    \/ \E g \in Frames : MovesTo(g)
    \/ \E g \in Frames, id \in Flow!Ids : CallsFrom(id, g)
    \/ \E v \in Flow!Results : Returns(v)
    \/ Flow!ExecuteAction \/ Records

FlowShape == FlowTypes /\ PositionInv

(* The frame on top, and the ways on from it.                              *)
LEMMA TopIsFrame ==
    ASSUME FlowTypes, stack # <<>>
    PROVE  /\ Top \in Frames /\ Flow!Frame = Top /\ Flow!Node = N[Top.node]
           /\ 1 \in DOMAIN stack /\ Top.node \in DOMAIN N
<1>1. stack \in Seq(Frames) /\ 1 \in DOMAIN stack /\ Top = Head(stack)
  BY DEF FlowTypes, Top
<1>2. Top \in Frames
  BY <1>1 DEF Top
<1>3. Top.node \in DOMAIN N
  BY <1>2 DEF Frames
<1> QED  BY <1>1, <1>2, <1>3 DEF Flow!Frame, Flow!Node, Flow!Nodes, Flow!flow, N

LEMMA AtOfFrame ==
    ASSUME NEW f \in Frames, NEW at \in Labels, NEW g, g = [f EXCEPT !.at = at]
    PROVE  /\ g \in Frames /\ g.node = f.node /\ g.at = at
           /\ g.i = f.i /\ g.sampled = f.sampled
  BY DEF Frames

LEMMA StepOfFrame ==
    ASSUME NEW f \in Frames, NEW g, g = [f EXCEPT !.i = @ + 1]
    PROVE  /\ g \in Frames /\ g.node = f.node /\ g.at = f.at
           /\ g.i = f.i + 1 /\ g.sampled = f.sampled
  BY DEF Frames

(* The flows are decoded ones.                                             *)
LEMMA NodeIsDecoded ==
    ASSUME FlowTypes, NEW id \in DOMAIN N
    PROVE  Flow!IsNode(N[id])
  BY AgentAssumption DEF FlowTypes, N, Flow!IsFlow

-----------------------------------------------------------------------------
(* Shapes of the steps: executeNode and the composite nodes.               *)

LEMMA ExecuteNodeShape ==
    ASSUME FlowShape, Flow!executeNode
    PROVE  Shapes
<1> USE DEF None
<1>1. call # None /\ call' = None /\ Kept
  BY DEF Flow!executeNode, Flow!Rest, Kept, Flow!None
<1>2. CASE stopped /\ ret' = "canceled" /\ UNCHANGED stack
  BY <1>1, <1>2 DEF Shapes, Refuses
<1>3. CASE ret' = "error" /\ UNCHANGED stack
  BY <1>1, <1>3 DEF Shapes, Refuses
<1>4. CASE call \in DOMAIN N /\ N[call].type \in Flow!Signals /\ ret' = N[call].type /\ UNCHANGED stack
  BY <1>1, <1>4 DEF Shapes, Refuses
<1>5. CASE /\ ~stopped /\ call \in DOMAIN N /\ N[call].type \in Flow!NodeTypes
           /\ stack' = <<[node |-> call, at |-> Flow!EntryOf(N[call]), i |-> 1,
                         err |-> "ok", sampled |-> {}]>> \o stack
           /\ ret' = None
  BY <1>1, <1>5 DEF Shapes, Enters
<1> QED
  BY <1>2, <1>3, <1>4, <1>5 DEF Flow!executeNode, Flow!Nodes, Flow!flow, N, Flow!None

LEMMA SequenceShape ==
    ASSUME FlowShape, Flow!SequenceNext \/ Flow!SequenceBack
    PROVE  Shapes
<1> USE DEF None, Flow!None
<1> stack # <<>> /\ call = None
  BY DEF Flow!SequenceNext, Flow!SequenceBack, Flow!Running, Flow!Returned
<1> DEFINE f == Top
<1>1. f \in Frames /\ Flow!Frame = f /\ Flow!Node = N[f.node] /\ f.node \in DOMAIN N
  BY TopIsFrame DEF FlowShape
<1>2. Type(f) = "sequence" /\ f.at = "start"
  BY <1>1 DEF Flow!SequenceNext, Flow!SequenceBack, Flow!Running, Flow!Returned, Type
<1>3. N[f.node].next \in Seq(Flow!Ids)
  BY <1>1, <1>2, NodeIsDecoded DEF FlowShape, Flow!IsNode, Type
<1>4. f.i \in Nat \ {0} /\ [f EXCEPT !.i = @ + 1] \in Frames
  BY <1>1 DEF Frames
<1>5. CASE Flow!SequenceNext
  <2>1. Running /\ UNCHANGED <<name, stopped, executing, late, insisting>>
    BY <1>5 DEF Flow!SequenceNext, Flow!Running, Running
  <2>2. CASE Flow!Return("ok") /\ UNCHANGED broken
    <3>1. Returns("ok")
      BY <2>1, <2>2, <1>2 DEF Returns, Leaves, Flow!Return, Flow!Results, Flow!Signals, Flow!Attempting
    <3> QED  BY <3>1 DEF Shapes, Flow!Results
  <2>3. CASE stopped /\ Flow!reportRemainingCanceled(f.i) /\ Flow!Return("canceled")
    <3>1. CutShort
      BY <2>1, <2>3, <1>2, <1>4 DEF CutShort
    <3>2. Returns("canceled")
      BY <2>1, <2>3, <3>1, <1>2 DEF Returns, Leaves, Flow!Return, Flow!Results, Flow!Signals, Flow!Attempting
    <3> QED  BY <3>2 DEF Shapes, Flow!Results
  <2>4. CASE f.i <= Len(N[f.node].next) /\ Flow!Call(N[f.node].next[f.i], f) /\ UNCHANGED broken
    <3> DEFINE id == N[f.node].next[f.i]
    <3>1. f.i \in DOMAIN N[f.node].next /\ id \in Flow!Ids
      BY <2>4, <1>3, <1>4 DEF Flow!Ids
    <3>2. id \in Flow!NextOf(N[f.node])
      BY <3>1, <1>2 DEF Flow!NextOf, Type
    <3>3. ~Tried(f) /\ ~Flow!Insists(f)
      BY <1>2 DEF Tried, Flow!Insists
    <3>4. Waits(f) /\ f.at \notin Flow!Attempting /\ Follows(f, id)
      BY <1>2, <3>1 DEF Waits, Flow!Attempting, Follows
    <3>5. CallsFrom(id, f)
      BY <2>1, <2>4, <1>1, <3>1, <3>2, <3>3, <3>4 DEF CallsFrom, Flow!Call, Kept
    <3> QED  BY <3>5, <3>1, <1>1 DEF Shapes
  <2> QED  BY <1>1, <1>5, <2>2, <2>3, <2>4 DEF Flow!SequenceNext
<1>6. CASE Flow!SequenceBack
  <2>1. ret # None /\ UNCHANGED <<name, stopped, executing, late, insisting>>
    BY <1>6 DEF Flow!SequenceBack, Flow!Returned
  <2>2. CASE ret = "ok" /\ Flow!GoTo([f EXCEPT !.i = @ + 1]) /\ UNCHANGED broken
    <3> DEFINE g == [f EXCEPT !.i = @ + 1]
    <3>1. g.node = f.node /\ g.at = f.at /\ g \in Frames
      BY <1>1, <1>4 DEF Frames
    <3>2. ~Tried(g) /\ ~Starting(g)
      BY <1>2, <3>1 DEF Tried, Starting, Type
    <3>3. MovesTo(g)
      BY <2>1, <2>2, <1>1, <1>2, <3>1, <3>2 DEF MovesTo, Flow!GoTo, Kept, Flow!Attempting
    <3> QED  BY <3>3, <3>1 DEF Shapes
  <2>3. CASE ret = "skip" /\ Flow!Return("ok") /\ UNCHANGED broken
    <3>1. Returns("ok")
      BY <2>1, <2>3, <1>2 DEF Returns, Leaves, Flow!Return, Flow!Results, Flow!Signals, Flow!Attempting
    <3> QED  BY <3>1 DEF Shapes, Flow!Results
  <2>4. CASE ret = "canceled" /\ Flow!reportRemainingCanceled(f.i + 1) /\ Flow!Return(ret)
    <3>1. CutShort
      BY <2>1, <2>4, <1>2, <1>4 DEF CutShort
    <3>2. Returns("canceled")
      BY <2>1, <2>4, <3>1, <1>2 DEF Returns, Leaves, Flow!Return, Flow!Results, Flow!Signals, Flow!Attempting
    <3> QED  BY <3>2 DEF Shapes, Flow!Results
  <2>5. CASE ret \in {"break", "continue", "error"} /\ Flow!Return(ret) /\ UNCHANGED broken
    <3>1. Returns(ret)
      BY <2>1, <2>5, <1>2 DEF Returns, Leaves, Flow!Return, Flow!Results, Flow!Signals, Flow!Attempting
    <3> QED  BY <3>1, <2>5 DEF Shapes, Flow!Results
  <2> QED  BY <1>1, <1>6, <2>2, <2>3, <2>4, <2>5 DEF Flow!SequenceBack
<1> QED  BY <1>5, <1>6

(* From a frame that is no sequence: a return, a call, and a move whose    *)
(* target has nothing to do with attempts.                                 *)
LEMMA PlainReturn ==
    ASSUME FlowShape, stack # <<>>, call = None, Type(Top) # "sequence", Top.at \notin Flow!Attempting,
           NEW v \in Flow!Results, Flow!Return(v), Flow!Rest,
           v \in Flow!Signals => ret = v /\ Type(Top) # "loop",
           v = "skip" => \/ ret = "skip" /\ Type(Top) = "wait"
                         \/ Type(Top) = "action" /\ N[Top.node].strategy = "skip",
           v = "ok" /\ Type(Top) = "action" /\ N[Top.node].action # "" => Tried(Top)
    PROVE  Shapes
<1>1. Returns(v)
  BY DEF Returns, Leaves, Flow!Return, Flow!Rest, None, Flow!None
<1> QED  BY <1>1 DEF Shapes

LEMMA PlainCall ==
    ASSUME FlowShape, stack # <<>>, Running, Type(Top) # "sequence", Top.at \notin Flow!Attempting,
           NEW g \in Frames, g.node = Top.node,
           NEW id \in Flow!Ids, id \in Flow!NextOf(N[Top.node]),
           Flow!Call(id, g), Flow!Rest,
           Waits(g), Tried(g) => Tried(Top), Flow!Insists(g) => Starting(Top)
    PROVE  Shapes
<1>1. CallsFrom(id, g)
  BY DEF CallsFrom, Flow!Call, Flow!Rest, Kept, None, Flow!None
<1> QED  BY <1>1 DEF Shapes

LEMMA CompositeMove ==
    ASSUME FlowShape, stack # <<>>, call = None, Type(Top) \notin {"sequence", "action"},
           Top.at \notin Flow!Attempting,
           NEW g \in Frames, g.node = Top.node, g.at \notin Flow!Attempting \cup {"lookup", "listenOnly", "handler"},
           Flow!GoTo(g), Flow!Rest
    PROVE  Shapes
<1>1. ~Tried(g) /\ ~Starting(g)
  BY DEF Tried, Starting, Type
<1>2. MovesTo(g)
  BY <1>1 DEF MovesTo, Flow!GoTo, Flow!Rest, Kept, None, Flow!None, Flow!Attempting
<1> QED  BY <1>2 DEF Shapes

LEMMA LoopShape ==
    ASSUME FlowShape, Flow!LoopNext \/ Flow!LoopBack
    PROVE  Shapes
<1> USE DEF None, Flow!None
<1> stack # <<>> /\ call = None /\ Flow!Rest
  BY DEF Flow!LoopNext, Flow!LoopBack, Flow!Running, Flow!Returned
<1> DEFINE f == Top
<1>1. f \in Frames /\ Flow!Frame = f /\ Flow!Node = N[f.node] /\ f.node \in DOMAIN N
  BY TopIsFrame DEF FlowShape
<1>2. Type(f) = "loop" /\ f.at \in {"start", "body"}
  BY <1>1 DEF Flow!LoopNext, Flow!LoopBack, Flow!Running, Flow!Returned, Type
<1>3. N[f.node].body \in Flow!Ids
  BY <1>1, <1>2, NodeIsDecoded DEF FlowShape, Flow!IsNode, Flow!Ids, Type
<1>4. f.at \notin Flow!Attempting /\ f.i \in Nat \ {0}
  BY <1>1, <1>2 DEF Flow!Attempting, Frames
<1>5. ASSUME NEW v \in {"ok", "canceled", "error"}, Flow!Return(v)
      PROVE  Shapes
  BY <1>2, <1>4, <1>5, PlainReturn DEF Flow!Results, Flow!Signals
<1>6. CASE Flow!LoopNext
  <2>1. Running /\ (Flow!Return("ok") \/ Flow!Return("canceled") \/ Flow!Call(N[f.node].body, [f EXCEPT !.at = "body"]))
    BY <1>1, <1>6 DEF Flow!LoopNext, Flow!Running, Running
  <2>2. CASE Flow!Call(N[f.node].body, [f EXCEPT !.at = "body"])
    <3> DEFINE g == [f EXCEPT !.at = "body"]
    <3>1. Type(g) = "loop" /\ g.at = "body" /\ g \in Frames /\ g.node = f.node
      BY <1>1, <1>2, AtOfFrame DEF Type, Labels
    <3>2. N[f.node].body \in Flow!NextOf(N[f.node])
      BY <1>2 DEF Flow!NextOf, Type
    <3>3. Waits(g) /\ ~Tried(g) /\ ~Flow!Insists(g)
      BY <3>1 DEF Waits, Tried, Flow!Insists
    <3>4. Flow!Call(N[f.node].body, g)
      BY <2>2
    <3> HIDE DEF g
    <3> QED  BY <2>1, <3>1, <3>2, <3>3, <3>4, <1>2, <1>3, <1>4, PlainCall
  <2> QED  BY <2>1, <2>2, <1>5
<1>7. CASE Flow!LoopBack
  <2>1. ASSUME Flow!Iterate
        PROVE  Shapes
    <3> DEFINE i == IF N[f.node].loopCount < 0 THEN 1 ELSE f.i + 1
    <3> DEFINE g == [f EXCEPT !.at = "start", !.i = i]
    <3>1. i \in Nat \ {0} /\ Flow!GoTo(g)
      BY <1>1, <1>4, <2>1 DEF Flow!Iterate
    <3>2. g = [f EXCEPT !.at = "start", !.i = i]
      OBVIOUS
    <3> HIDE DEF i, g
    <3>3. g \in Frames /\ g.node = f.node /\ g.at = "start"
      BY <1>1, <3>1, <3>2 DEF Frames, Labels
    <3> QED  BY <3>1, <3>3, <1>2, <1>4, CompositeMove DEF Flow!Attempting
  <2>2. Flow!CheckBreak => Flow!Return("ok") \/ Flow!Iterate
    BY DEF Flow!CheckBreak
  <2>3. ret \in Flow!Results /\ (Flow!Return("ok") \/ Flow!Iterate \/ (Flow!Return(ret) /\ ret \in {"canceled", "error"}))
    BY <1>7, <2>2 DEF Flow!LoopBack, Flow!OnContinue, Flow!LoopExits, Flow!Returned, FlowShape, FlowTypes, Flow!Results
  <2> QED  BY <2>1, <2>3, <1>5
<1> QED  BY <1>6, <1>7

LEMMA BranchShape ==
    ASSUME FlowShape, Flow!executeBoolean \/ Flow!executeSwitch \/ Flow!executeWeighted \/ Flow!BranchBack
    PROVE  Shapes
<1> USE DEF None, Flow!None
<1> stack # <<>> /\ call = None /\ Flow!Rest
  BY DEF Flow!executeBoolean, Flow!executeSwitch, Flow!executeWeighted, Flow!BranchBack, Flow!Running, Flow!Returned
<1> DEFINE f == Top
<1>1. f \in Frames /\ Flow!Frame = f /\ Flow!Node = N[f.node] /\ f.node \in DOMAIN N
  BY TopIsFrame DEF FlowShape
<1>2. Type(f) \in {"boolean", "switch", "weighted"} /\ f.at \in {"start", "case", "branch"}
  BY <1>1 DEF Flow!executeBoolean, Flow!executeSwitch, Flow!executeWeighted, Flow!BranchBack,
              Flow!Running, Flow!Returned, Type
<1>3. Flow!IsNode(N[f.node])
  BY <1>1, NodeIsDecoded DEF FlowShape
<1>4. f.at \notin Flow!Attempting /\ f.i \in Nat \ {0}
  BY <1>1, <1>2 DEF Flow!Attempting, Frames
<1>5. ASSUME NEW v \in {"ok", "canceled", "error"}, Flow!Return(v)
      PROVE  Shapes
  BY <1>2, <1>4, <1>5, PlainReturn DEF Flow!Results, Flow!Signals
<1>6. ASSUME Running, NEW id \in Flow!Ids, id \in Flow!NextOf(N[f.node]),
             Flow!Call(id, [f EXCEPT !.at = "branch"])
      PROVE  Shapes
  <2> DEFINE g == [f EXCEPT !.at = "branch"]
  <2>1. Type(g) = Type(f) /\ g.at = "branch" /\ g \in Frames /\ g.node = f.node
    BY <1>1, AtOfFrame DEF Type, Labels
  <2>2. Waits(g) /\ ~Tried(g) /\ ~Flow!Insists(g)
    BY <2>1, <1>2 DEF Waits, Tried, Flow!Insists
  <2>3. Flow!Call(id, g)
    BY <1>6
  <2> HIDE DEF g
  <2> QED  BY <1>6, <2>1, <2>2, <2>3, <1>2, <1>4, PlainCall
<1>7. ASSUME Running, NEW id \in Flow!Ids, id \in Flow!NextOf(N[f.node]), Flow!Branch(id)
      PROVE  Shapes
  BY <1>1, <1>5, <1>6, <1>7 DEF Flow!Branch, Flow!At, Flow!Ids
<1>8. CASE Flow!executeBoolean
  <2>1. Running /\ Type(f) = "boolean"
    BY <1>1, <1>8 DEF Flow!executeBoolean, Flow!Running, Running, Type
  <2>2. /\ N[f.node].trueNext \in Flow!Ids /\ N[f.node].falseNext \in Flow!Ids
        /\ {N[f.node].trueNext, N[f.node].falseNext} = Flow!NextOf(N[f.node])
    BY <2>1, <1>3 DEF Flow!IsNode, Flow!NextOf, Type
  <2>3. Flow!Branch(N[f.node].trueNext) \/ Flow!Branch(N[f.node].falseNext)
    BY <1>1, <1>8 DEF Flow!executeBoolean
  <2> QED  BY <2>1, <2>2, <2>3, <1>7
<1>9. CASE Flow!executeSwitch
  <2>1. Running /\ Type(f) = "switch"
    BY <1>1, <1>9 DEF Flow!executeSwitch, Flow!Running, Running, Type
  <2>2. /\ N[f.node].cases \in Seq(Flow!Ids) /\ N[f.node].defaultNext \in Flow!Ids
        /\ Flow!NextOf(N[f.node]) =
              {N[f.node].cases[k] : k \in DOMAIN N[f.node].cases} \cup {N[f.node].defaultNext}
    BY <2>1, <1>3 DEF Flow!IsNode, Flow!NextOf, Type
  <2>3. CASE f.i <= Len(N[f.node].cases) /\ Flow!Branch(N[f.node].cases[f.i])
    <3>1. f.i \in DOMAIN N[f.node].cases /\ N[f.node].cases[f.i] \in Flow!Ids
      BY <2>2, <2>3, <1>4
    <3> QED  BY <2>1, <2>2, <2>3, <3>1, <1>7
  <2>4. CASE Flow!GoTo([f EXCEPT !.i = @ + 1]) /\ f.at = "case"
    <3> DEFINE g == [f EXCEPT !.i = @ + 1]
    <3>1. g \in Frames /\ g.node = f.node /\ g.at = "case"
      BY <1>1, <2>4, StepOfFrame
    <3>2. Flow!GoTo(g)
      BY <2>4
    <3> HIDE DEF g
    <3> QED  BY <3>1, <3>2, <1>2, <1>4, CompositeMove DEF Flow!Attempting
  <2>5. \/ Flow!Return("canceled") \/ Flow!Branch(N[f.node].defaultNext)
        \/ f.i <= Len(N[f.node].cases) /\ Flow!Branch(N[f.node].cases[f.i])
        \/ Flow!GoTo([f EXCEPT !.i = @ + 1]) /\ f.at = "case"
    BY <1>1, <1>9 DEF Flow!executeSwitch, Flow!Running
  <2> QED  BY <2>1, <2>2, <2>3, <2>4, <2>5, <1>5, <1>7
<1>10. CASE Flow!executeWeighted
  <2>1. Running /\ Type(f) = "weighted"
    BY <1>1, <1>10 DEF Flow!executeWeighted, Flow!Running, Running, Type
  <2>2. /\ \A k \in DOMAIN N[f.node].options : N[f.node].options[k].node \in Flow!Ids
        /\ Flow!NextOf(N[f.node]) = {N[f.node].options[k].node : k \in DOMAIN N[f.node].options}
    BY <2>1, <1>3 DEF Flow!IsNode, Flow!NextOf, Type
  <2>3. \/ Flow!Return("ok") \/ Flow!Return("error")
        \/ \E k \in DOMAIN N[f.node].options :
              Flow!Call(N[f.node].options[k].node, [f EXCEPT !.at = "branch"])
    BY <1>1, <1>10 DEF Flow!executeWeighted, Flow!Drawable, Flow!At
  <2>4. ASSUME NEW k \in DOMAIN N[f.node].options,
               Flow!Call(N[f.node].options[k].node, [f EXCEPT !.at = "branch"])
        PROVE  Shapes
    <3>1. N[f.node].options[k].node \in Flow!Ids /\ N[f.node].options[k].node \in Flow!NextOf(N[f.node])
      BY <2>2 DEF Flow!Ids
    <3> QED  BY <2>1, <2>4, <3>1, <1>6
  <2> QED  BY <2>3, <2>4, <1>5
<1>11. CASE Flow!BranchBack
  <2> DEFINE v == IF ret = "skip" THEN "ok" ELSE ret
  <2>1. Flow!Return(v) /\ ret \in Flow!Results
    BY <1>11 DEF Flow!BranchBack, Flow!Returned, FlowShape, FlowTypes
  <2>2. v \in Flow!Results /\ v # "skip" /\ (v \in Flow!Signals => ret = v)
    BY <2>1 DEF Flow!Results, Flow!Signals
  <2> HIDE DEF v
  <2> QED  BY <2>1, <2>2, <1>2, <1>4, PlainReturn
<1> QED  BY <1>8, <1>9, <1>10, <1>11

LEMMA WaitShape ==
    ASSUME FlowShape, Flow!executeWait
    PROVE  Shapes
<1> USE DEF None, Flow!None
<1> stack # <<>> /\ call = None /\ Flow!Rest
  BY DEF Flow!executeWait, Flow!Running, Flow!Returned
<1> DEFINE f == Top
<1>1. f \in Frames /\ Flow!Frame = f /\ Flow!Node = N[f.node] /\ f.node \in DOMAIN N
  BY TopIsFrame DEF FlowShape
<1>2. Type(f) = "wait" /\ f.at \in {"start", "sleep", "then"}
  BY <1>1 DEF Flow!executeWait, Flow!Running, Flow!Returned, Type
<1>3. N[f.node].then \in Flow!Ids
  BY <1>1, <1>2, NodeIsDecoded DEF FlowShape, Flow!IsNode, Type
<1>4. f.at \notin Flow!Attempting /\ f.i \in Nat \ {0}
  BY <1>1, <1>2 DEF Flow!Attempting, Frames
<1>5. ASSUME Running, Flow!WaitOver
      PROVE  Shapes
  <2>1. CASE Flow!Return("ok")
    BY <2>1, <1>2, <1>4, PlainReturn DEF Flow!Results, Flow!Signals
  <2>2. CASE Flow!Call(N[f.node].then, [f EXCEPT !.at = "then"])
    <3> DEFINE g == [f EXCEPT !.at = "then"]
    <3>1. Type(g) = "wait" /\ g.at = "then" /\ g \in Frames /\ g.node = f.node
      BY <1>1, <1>2, AtOfFrame DEF Type, Labels
    <3>2. N[f.node].then \in Flow!NextOf(N[f.node]) /\ N[f.node].then \in Flow!Ids
      BY <1>2, <1>3 DEF Flow!NextOf, Type, Flow!Ids
    <3>3. Waits(g) /\ ~Tried(g) /\ ~Flow!Insists(g)
      BY <3>1 DEF Waits, Tried, Flow!Insists
    <3>4. Flow!Call(N[f.node].then, g)
      BY <2>2
    <3> HIDE DEF g
    <3> QED  BY <1>5, <3>1, <3>2, <3>3, <3>4, <1>2, <1>4, PlainCall
  <2> QED  BY <1>1, <1>5, <2>1, <2>2 DEF Flow!WaitOver, Flow!At
<1>6. CASE Flow!Running("wait", "start") /\ Flow!GoTo([f EXCEPT !.at = "sleep"])
  <2> DEFINE g == [f EXCEPT !.at = "sleep"]
  <2>1. g \in Frames /\ g.node = f.node /\ g.at = "sleep"
    BY <1>1, AtOfFrame DEF Labels
  <2>2. Flow!GoTo(g)
    BY <1>6
  <2> HIDE DEF g
  <2> QED  BY <1>2, <1>4, <2>1, <2>2, CompositeMove DEF Flow!Attempting
<1>7. CASE Flow!Return("canceled")
  BY <1>7, <1>2, <1>4, PlainReturn DEF Flow!Results, Flow!Signals
<1>8. CASE Flow!Returned("wait", "then") /\ Flow!Return(ret)
  <2>1. ret \in Flow!Results
    BY <1>8 DEF Flow!Returned, FlowShape, FlowTypes
  <2> QED  BY <1>8, <2>1, <1>2, <1>4, PlainReturn
<1>9. Flow!Running("wait", "start") \/ Flow!Running("wait", "sleep") => Running
  BY DEF Flow!Running, Running
<1> QED  BY <1>5, <1>6, <1>7, <1>8, <1>9, <1>1 DEF Flow!executeWait, Flow!At


-----------------------------------------------------------------------------
(* Shapes of the steps: one attempt at an action and what follows it.      *)

LEMMA ActionMove ==
    ASSUME FlowShape, stack # <<>>, call = None, Type(Top) = "action",
           NEW g \in Frames, g.node = Top.node, g.at \notin {"lookup", "listenOnly", "handler"},
           Flow!GoTo(g), Flow!Rest,
           g.at \in Flow!Attempting <=> Top.at \in Flow!Attempting,
           Tried(g) => Tried(Top),
           g.at \in {"io", "waiting"} =>
              Flows[name].actions[N[g.node].action].pattern \in DOMAIN Flow!Awaited,
           stopped /\ Starting(g) => \/ ret = None /\ Starting(Top)
                                     \/ ret # None /\ Flow!Insists(Top)
    PROVE  Shapes
<1>1. MovesTo(g)
  BY DEF MovesTo, Flow!GoTo, Flow!Rest, Kept, None, Flow!None
<1> QED  BY <1>1 DEF Shapes

(* A move that starts no attempt, from a frame that has been tried.        *)
LEMMA QuietMove ==
    ASSUME FlowShape, stack # <<>>, call = None, Type(Top) = "action",
           Top.at \notin {"lookup", "execute"} \cup Flow!Attempting \/ N[Top.node].action = "",
           Top.at \notin Flow!Attempting,
           NEW at \in {"finalDelay", "delay", "listenDelay", "listens"},
           Flow!GoTo([Top EXCEPT !.at = at]), Flow!Rest
    PROVE  Shapes
<1> DEFINE g == [Top EXCEPT !.at = at]
<1>1. Flow!GoTo(g) /\ g = [Top EXCEPT !.at = at]
  OBVIOUS
<1> HIDE DEF g
<1>2. g \in Frames /\ g.node = Top.node /\ g.at = at
  <2>1. at \in Labels /\ Top \in Frames
    BY TopIsFrame DEF FlowShape, Labels
  <2> QED  BY <1>1, <2>1 DEF Frames
<1>3. Tried(g) => Tried(Top)
  BY <1>2 DEF Tried, Type, Flow!Attempting
<1>4. ~Starting(g)
  BY <1>2 DEF Starting
<1> QED  BY <1>1, <1>2, <1>3, <1>4, ActionMove DEF Flow!Attempting

LEMMA AttemptBegins ==
    ASSUME FlowShape, Flow!LookUpAction \/ Flow!RetryDelay
    PROVE  Shapes
<1> USE DEF None, Flow!None
<1> stack # <<>> /\ Running /\ Flow!Rest
  BY DEF Flow!LookUpAction, Flow!RetryDelay, Flow!Sleep, Flow!Running, Running
<1> DEFINE f == Top
<1>1. f \in Frames /\ Flow!Frame = f /\ Flow!Node = N[f.node] /\ f.node \in DOMAIN N
  BY TopIsFrame DEF FlowShape
<1>2. Type(f) = "action" /\ ((Flow!LookUpAction /\ f.at = "lookup") \/ (Flow!RetryDelay /\ f.at = "retryDelay"))
  <2>1. CASE Flow!LookUpAction
    <3>1. Flow!Running("action", "lookup")
      BY <2>1 DEF Flow!LookUpAction
    <3> QED  BY <1>1, <2>1, <3>1 DEF Flow!Running, Type
  <2>2. CASE Flow!RetryDelay
    <3>1. Flow!Running("action", "retryDelay")
      BY <2>2 DEF Flow!RetryDelay, Flow!Sleep
    <3> QED  BY <1>1, <2>2, <3>1 DEF Flow!Running, Type
  <2> QED  BY <2>1, <2>2
<1>3. N[f.node].retryDelayMs \in Int
  BY <1>1, <1>2, NodeIsDecoded DEF FlowShape, Flow!IsNode, Type
<1>4. ASSUME NEW v \in {"canceled", "error"}, Flow!Return(v)
      PROVE  Shapes
  BY <1>2, <1>4, PlainReturn DEF Flow!Results, Flow!Signals, Flow!Attempting, Running
<1>5. CASE Flow!GoTo([f EXCEPT !.at = "execute"]) /\ (f.at = "retryDelay" /\ stopped => N[f.node].retryDelayMs <= 0)
  <2> DEFINE g == [f EXCEPT !.at = "execute"]
  <2>1. Flow!GoTo(g)
    BY <1>5
  <2>2. g \in Frames /\ g.node = f.node /\ g.at = "execute" /\ g.i = f.i
    BY <1>1, AtOfFrame DEF Labels
  <2> HIDE DEF g
  <2>3. f.at = "lookup" => f.i = 1
    BY TopIsFrame DEF FlowShape, PositionInv, Top
  <2>4. Tried(g) => Tried(f)
    BY <1>2, <2>2, <2>3 DEF Tried, Type
  <2>5. stopped => Starting(f)
    BY <1>2, <1>5 DEF Starting
  <2> QED  BY <1>2, <2>1, <2>2, <2>4, <2>5, ActionMove DEF Flow!Attempting, Running
<1>6. CASE Flow!LookUpAction /\ f.at = "lookup"
  <2>1. Flow!GoTo([f EXCEPT !.at = "execute"]) \/ Flow!Return("error")
    BY <1>1, <1>6 DEF Flow!LookUpAction, Flow!At
  <2> QED  BY <1>4, <1>5, <1>6, <2>1
<1>7. CASE Flow!RetryDelay /\ f.at = "retryDelay"
  <2>1. \/ Flow!Return("canceled")
        \/ (N[f.node].retryDelayMs > 0 => ~stopped) /\ Flow!GoTo([f EXCEPT !.at = "execute"])
    BY <1>1, <1>7 DEF Flow!RetryDelay, Flow!Sleep, Flow!At
  <2> QED  BY <1>3, <1>4, <1>5, <1>7, <2>1
<1> QED  BY <1>2, <1>6, <1>7

LEMMA AttemptRuns ==
    ASSUME FlowShape, Flow!Execute \/ Flow!runIO \/ Flow!IOEnds
    PROVE  Shapes
<1> USE DEF None, Flow!None
<1> stack # <<>> /\ Running /\ Flow!Rest
  BY DEF Flow!Execute, Flow!runIO, Flow!IOEnds, Flow!Running, Running
<1> DEFINE f == Top
           pattern == Flows[name].actions[N[f.node].action].pattern
<1>1. f \in Frames /\ Flow!Frame = f /\ Flow!Node = N[f.node] /\ f.node \in DOMAIN N /\ Flow!Pattern = pattern
  BY TopIsFrame DEF FlowShape, Flow!Pattern, Flow!flow
<1>2. Type(f) = "action" /\ f.at \in {"attempt", "io", "waiting"}
  BY <1>1 DEF Flow!Execute, Flow!runIO, Flow!IOEnds, Flow!Running, Type
<1>3. f.at \in {"io", "waiting"} => pattern \in DOMAIN Flow!Awaited
  BY TopIsFrame DEF FlowShape, PositionInv, Top
<1>4. /\ \A p \in DOMAIN Flow!Immediate : Flow!Immediate[p] \subseteq Flow!Errors
      /\ \A p \in DOMAIN Flow!Awaited : Flow!Awaited[p] \subseteq Flow!Errors
  BY DEF Flow!Immediate, Flow!Awaited, Flow!Errors, Flow!CloseOutcomes, Flow!StateOutcomes, Flow!SendOutcomes,
         Flow!ConnectOutcomes, Flow!HTTPOutcomes, Flow!RequestOutcomes, Flow!ListenOutcomes, Flow!LuaOutcomes
<1>5. ASSUME NEW g \in Frames, g.node = f.node, Flow!GoTo(g),
             g.at = "ended" \/ (g.at \in {"io", "waiting"} /\ pattern \in DOMAIN Flow!Awaited)
      PROVE  Shapes
  <2>1. (Tried(g) => Tried(f)) /\ ~Starting(g)
    BY <1>2, <1>5 DEF Tried, Starting, Type
  <2> QED  BY <1>2, <1>5, <2>1, ActionMove DEF Flow!Attempting, Running
<1>6. ASSUME NEW e \in Flow!Errors, Flow!Ends(e)
      PROVE  Shapes
  <2> DEFINE g == [f EXCEPT !.at = "ended", !.err = e]
  <2>1. Flow!GoTo(g)
    BY <1>1, <1>6 DEF Flow!Ends
  <2>2. g \in Frames /\ g.node = f.node /\ g.at = "ended"
    BY <1>1 DEF Frames, Labels
  <2>3. g.at = "ended" \/ (g.at \in {"io", "waiting"} /\ pattern \in DOMAIN Flow!Awaited)
    BY <2>2
  <2> HIDE DEF g, pattern
  <2> QED  BY <1>5, <2>1, <2>2, <2>3
<1>7. ASSUME NEW at \in {"io", "waiting"}, pattern \in DOMAIN Flow!Awaited, Flow!GoTo(Flow!At(at))
      PROVE  Shapes
  <2> DEFINE g == [f EXCEPT !.at = at]
  <2>1. Flow!GoTo(g)
    BY <1>1, <1>7 DEF Flow!At
  <2>2. g \in Frames /\ g.node = f.node /\ g.at = at
    BY <1>1, AtOfFrame DEF Labels
  <2> HIDE DEF g
  <2> QED  BY <1>5, <1>7, <2>1, <2>2
<1>8. CASE Flow!Execute
  <2>1. \/ \E e \in Flow!Errors : Flow!Ends(e)
        \/ pattern \in DOMAIN Flow!Awaited /\ Flow!GoTo(Flow!At("io"))
    BY <1>1, <1>4, <1>8 DEF Flow!Execute, Flow!Errors
  <2> QED  BY <1>6, <1>7, <2>1
<1>9. CASE Flow!runIO
  <2>1. f.at = "io" /\ (Flow!Ends("canceled") \/ Flow!GoTo(Flow!At("waiting")))
    BY <1>1, <1>9 DEF Flow!runIO, Flow!Running
  <2> QED  BY <1>3, <1>6, <1>7, <2>1 DEF Flow!Errors
<1>10. CASE Flow!IOEnds
  <2>1. f.at = "waiting" /\ ((\E e \in Flow!Awaited[pattern] : Flow!Ends(e)) \/ Flow!Ends("canceled"))
    BY <1>1, <1>10 DEF Flow!IOEnds, Flow!Running
  <2> QED  BY <1>3, <1>4, <1>6, <2>1 DEF Flow!Errors
<1> QED  BY <1>8, <1>9, <1>10

LEMMA RecordActionShape ==
    ASSUME FlowShape, Flow!RecordAction
    PROVE  Shapes
<1> USE DEF None, Flow!None
<1> DEFINE f == Top
           e == Flow!Normalized(f.err)
<1>1. stack # <<>> /\ Running
  BY DEF Flow!RecordAction, Flow!Running, Running
<1>2. f \in Frames /\ Flow!Frame = f /\ Flow!Node = N[f.node] /\ f.node \in DOMAIN N
  BY <1>1, TopIsFrame DEF FlowShape
<1>3. Type(f) = "action" /\ f.at = "ended"
  BY <1>2 DEF Flow!RecordAction, Flow!Running, Type
<1>4. executing' = executing - 1 /\ UNCHANGED <<name, stopped, late, insisting, broken>>
  BY DEF Flow!RecordAction, Flow!Ended
<1>5. e \in Flow!Errors /\ (stopped => e \in {"ok", "canceled"})
  BY <1>2 DEF Flow!Normalized, Flow!Errors, Frames
<1>6. CASE Flow!Return("canceled")
  <2>1. Leaves("canceled")
    BY <1>1, <1>4, <1>6 DEF Leaves, Flow!Return, Flow!Results, Flow!Signals, Running
  <2> QED  BY <1>1, <1>3, <1>4, <2>1 DEF Shapes, Records
<1>7. ASSUME NEW at \in {"listens", "failed"}, at = "failed" => ~stopped,
             Flow!GoTo([f EXCEPT !.err = e, !.at = at])
      PROVE  Shapes
  <2> HIDE DEF e
  <2> DEFINE g == [f EXCEPT !.err = e, !.at = at]
  <2>1. g \in Frames /\ g.node = f.node /\ g.at = at /\ g.i = f.i
    BY <1>2, <1>5 DEF Frames, Labels
  <2>2. stack' = <<g>> \o Tail(stack) /\ call' = None /\ ret' = None
    BY <1>7 DEF Flow!GoTo
  <2> HIDE DEF g
  <2>3. Records
    BY <1>1, <1>3, <1>4, <1>7, <2>1, <2>2 DEF Records
  <2> QED  BY <2>3 DEF Shapes
<1>9. \/ Flow!Return("canceled")
      \/ Flow!GoTo([f EXCEPT !.err = e, !.at = "listens"])
      \/ e \notin {"ok", "canceled"} /\ Flow!GoTo([f EXCEPT !.err = e, !.at = "failed"])
  BY <1>2 DEF Flow!RecordAction
<1> QED  BY <1>5, <1>6, <1>7, <1>9

LEMMA HandlerShape ==
    ASSUME FlowShape, Flow!OnErrorHandler
    PROVE  Shapes
<1> USE DEF None, Flow!None
<1> stack # <<>> /\ call = None /\ Flow!Rest
  BY DEF Flow!OnErrorHandler, Flow!Running, Flow!Returned
<1> DEFINE f == Top
<1>1. f \in Frames /\ Flow!Frame = f /\ Flow!Node = N[f.node] /\ f.node \in DOMAIN N
  BY TopIsFrame DEF FlowShape
<1>2. Type(f) = "action" /\ ((Running /\ f.at = "failed") \/ (ret # None /\ f.at = "handler"))
  BY <1>1 DEF Flow!OnErrorHandler, Flow!Running, Flow!Returned, Running, Type
<1>3. N[f.node].handler \in Flow!Ids /\ N[f.node].maxRetries \in Int
  BY <1>1, <1>2, NodeIsDecoded DEF FlowShape, Flow!IsNode, Type
<1>4. CASE Flow!AfterHandler
  <2>1. CASE f.i <= N[f.node].maxRetries /\ Flow!GoTo([f EXCEPT !.i = @ + 1, !.at = "retryDelay"])
    <3> DEFINE g == [f EXCEPT !.i = @ + 1, !.at = "retryDelay"]
    <3>1. g \in Frames /\ g.node = f.node /\ g.at = "retryDelay"
      <4>1. f.i + 1 \in Nat \ {0}
        BY <1>1 DEF Frames
      <4> QED  BY <1>1, <4>1 DEF Frames, Labels
    <3>2. Flow!GoTo(g)
      BY <2>1
    <3> HIDE DEF g
    <3>3. Tried(g) => Tried(f)
      BY <1>2, <3>1 DEF Tried, Type
    <3>4. Starting(g) => (ret = None /\ Starting(f)) \/ (ret # None /\ Flow!Insists(f))
      BY <1>1, <1>2, <2>1, <3>1 DEF Starting, Flow!Insists, Flow!Nodes, Flow!flow, N, Running
    <3> QED  BY <1>2, <3>1, <3>2, <3>3, <3>4, ActionMove DEF Flow!Attempting
  <2>2. CASE Flow!GoTo([f EXCEPT !.at = "finalDelay"])
    BY <1>2, <2>2, QuietMove DEF Flow!Attempting
  <2> QED  BY <1>1, <1>4, <2>1, <2>2 DEF Flow!AfterHandler, Flow!At
<1>5. CASE Running /\ f.at = "failed" /\ Flow!Call(N[f.node].handler, [f EXCEPT !.at = "handler"])
  <2> DEFINE g == [f EXCEPT !.at = "handler"]
  <2>1. g \in Frames /\ g.node = f.node /\ g.at = "handler"
    BY <1>1 DEF Frames, Labels
  <2>2. Flow!Call(N[f.node].handler, g)
    BY <1>5
  <2> HIDE DEF g
  <2>3. N[f.node].handler \in Flow!NextOf(N[f.node])
    BY <1>2 DEF Flow!NextOf, Type
  <2>4. Waits(g) /\ Starting(f) /\ (Tried(g) => Tried(f))
    BY <1>2, <1>5, <2>1 DEF Waits, Starting, Tried, Type
  <2> QED  BY <1>2, <1>3, <1>5, <2>1, <2>2, <2>3, <2>4, PlainCall DEF Flow!Attempting
<1>6. CASE ret \notin {"ok", "skip"} /\ ret # None /\ f.at = "handler" /\ Flow!Return(ret)
  <2>1. ret \in Flow!Results
    BY <1>6 DEF FlowShape, FlowTypes
  <2> QED  BY <1>2, <1>6, <2>1, PlainReturn DEF Flow!Attempting
<1> QED
  BY <1>1, <1>2, <1>4, <1>5, <1>6 DEF Flow!OnErrorHandler, Flow!Running, Flow!Returned, Flow!At, Running

LEMMA EndingShape ==
    ASSUME FlowShape,
           \/ Flow!FinalDelay \/ Flow!NodeDelay \/ Flow!RegisterListens
           \/ Flow!ListenFailed \/ Flow!executeListenOnly
    PROVE  Shapes
<1> USE DEF None, Flow!None
<1> stack # <<>> /\ Running /\ Flow!Rest
  BY DEF Flow!FinalDelay, Flow!NodeDelay, Flow!RegisterListens, Flow!ListenFailed,
         Flow!executeListenOnly, Flow!Sleep, Flow!Running, Running
<1> DEFINE f == Top
<1>1. f \in Frames /\ Flow!Frame = f /\ Flow!Node = N[f.node] /\ f.node \in DOMAIN N
  BY TopIsFrame DEF FlowShape
<1>2. Type(f) = "action" /\ f.at \in {"finalDelay", "delay", "listens", "listenDelay", "listenOnly"}
  BY <1>1 DEF Flow!FinalDelay, Flow!NodeDelay, Flow!RegisterListens, Flow!ListenFailed,
              Flow!executeListenOnly, Flow!Sleep, Flow!Running, Type
<1>3. f.at = "listenOnly" => N[f.node].action = ""
  BY TopIsFrame DEF FlowShape, PositionInv, Top
<1>4. N[f.node].action # "" => Tried(f)
  BY <1>2, <1>3 DEF Tried
<1>5. ASSUME NEW v \in {"ok", "canceled", "error"}, Flow!Return(v)
      PROVE  Shapes
  BY <1>2, <1>4, <1>5, PlainReturn DEF Flow!Results, Flow!Signals, Flow!Attempting, Running
<1>6. CASE N[f.node].strategy = "skip" /\ Flow!Return("skip")
  BY <1>2, <1>6, PlainReturn DEF Flow!Results, Flow!Signals, Flow!Attempting, Running
<1>7. ASSUME NEW at \in {"delay", "listenDelay", "listens"}, Flow!GoTo(Flow!At(at))
      PROVE  Shapes
  <2>1. Flow!GoTo([f EXCEPT !.at = at])
    BY <1>1, <1>7 DEF Flow!At
  <2> QED  BY <1>2, <1>3, <2>1, QuietMove DEF Flow!Attempting, Running
<1>8. Flow!FinalDelay \/ Flow!NodeDelay \/ Flow!ListenFailed =>
        \/ Flow!Return("ok") \/ Flow!Return("canceled") \/ Flow!Return("error")
        \/ N[f.node].strategy = "skip" /\ Flow!Return("skip")
        \/ Flow!GoTo(Flow!At("delay"))
  BY <1>1 DEF Flow!FinalDelay, Flow!NodeDelay, Flow!ListenFailed, Flow!Sleep, Flow!applyOnErrorStrategy
<1>9. Flow!RegisterListens \/ Flow!executeListenOnly =>
        \/ Flow!Return("ok")
        \/ \E at \in {"delay", "listenDelay", "listens"} : Flow!GoTo(Flow!At(at))
  BY DEF Flow!RegisterListens, Flow!executeListenOnly
<1> QED  BY <1>5, <1>6, <1>7, <1>8, <1>9

(* Every step of the executor has one of the shapes.                       *)
LEMMA RunShapes ==
    ASSUME FlowShape, Flow!Run
    PROVE  Shapes
<1>1. CASE Flow!Composite
  BY <1>1, SequenceShape, LoopShape, BranchShape, WaitShape DEF Flow!Composite
<1>2. CASE Flow!Attempt
  BY <1>2, AttemptBegins, AttemptRuns, RecordActionShape, HandlerShape, EndingShape
  DEF Flow!Attempt, Shapes
<1> QED  BY <1>1, <1>2, ExecuteNodeShape DEF Flow!Run

-----------------------------------------------------------------------------
(* What the shapes do to the stack.                                        *)

LEMMA Pushed ==
    ASSUME NEW S, NEW s \in Seq(S), NEW f \in S, NEW t, t = <<f>> \o s
    PROVE  /\ t \in Seq(S) /\ t # <<>> /\ Len(t) = Len(s) + 1 /\ t[1] = f /\ 1 \in DOMAIN t
           /\ \A k \in DOMAIN s : k + 1 \in DOMAIN t /\ t[k+1] = s[k]
           /\ \A k \in DOMAIN t : k # 1 => k - 1 \in DOMAIN s /\ t[k] = s[k-1]
  OBVIOUS

LEMMA Replaced ==
    ASSUME NEW S, NEW s \in Seq(S), s # <<>>, NEW f \in S, NEW t, t = <<f>> \o Tail(s)
    PROVE  /\ t \in Seq(S) /\ t # <<>> /\ Len(t) = Len(s) /\ DOMAIN t = DOMAIN s
           /\ t[1] = f /\ 1 \in DOMAIN t
           /\ \A k \in DOMAIN s : k # 1 => t[k] = s[k]
  OBVIOUS

LEMMA Popped ==
    ASSUME NEW S, NEW s \in Seq(S), s # <<>>, NEW t, t = Tail(s)
    PROVE  /\ t \in Seq(S) /\ Len(t) = Len(s) - 1
           /\ \A k \in DOMAIN t : k + 1 \in DOMAIN s /\ t[k] = s[k+1]
           /\ \A k \in DOMAIN s : k # 1 => k - 1 \in DOMAIN t /\ t[k-1] = s[k]
           /\ t # <<>> => 1 \in DOMAIN t
  OBVIOUS

LEMMA SameFlow ==
    ASSUME UNCHANGED name
    PROVE  /\ N' = N /\ Frames' = Frames /\ Flow!Nodes' = N /\ Flow!Nodes = N /\ Flow!flow' = Flow!flow
           /\ Flow!flow = Flows[name]
  BY DEF N, Frames, Flow!Nodes, Flow!flow

(* The first attempt of a child leaves its sample with the parent; node,   *)
(* label and index of every other frame stay.                              *)
LEMMA AttemptOpened ==
    ASSUME FlowShape, Flow!ExecuteAction
    PROVE  /\ Running /\ stack # <<>> /\ Type(Top) = "action" /\ Top.at = "execute"
           /\ UNCHANGED <<name, call, ret, stopped, insisting, broken>>
           /\ stack' \in Seq(Frames) /\ DOMAIN stack' = DOMAIN stack /\ Len(stack') = Len(stack)
           /\ \A k \in DOMAIN stack :
                /\ stack'[k].node = stack[k].node /\ stack'[k].i = stack[k].i
                /\ stack'[k].at = IF k = 1 THEN "attempt" ELSE stack[k].at
                /\ stack'[k].sampled = IF k = 2 /\ Top.i = 1 /\ Type(stack[2]) = "sequence"
                                       THEN stack[2].sampled \cup {stack[2].i} ELSE stack[k].sampled
<1> USE DEF None, Flow!None
<1>1. Running /\ stack # <<>>
  BY DEF Flow!ExecuteAction, Flow!Running, Running
<1>2. Top \in Frames /\ Flow!Frame = Top /\ Flow!Node = N[Top.node] /\ 1 \in DOMAIN stack
  BY <1>1, TopIsFrame DEF FlowShape
<1>3. Type(Top) = "action" /\ Top.at = "execute"
  BY <1>2 DEF Flow!ExecuteAction, Flow!Running, Type
<1>4. UNCHANGED <<name, call, ret, stopped, insisting, broken>>
  BY DEF Flow!ExecuteAction
<1>5. stack \in Seq(Frames) /\ \A k \in DOMAIN stack : stack[k] \in Frames
  BY DEF FlowShape, FlowTypes
<1> DEFINE g == [Top EXCEPT !.at = "attempt"]
           opened == <<g>> \o Tail(stack)
<1>6. g \in Frames /\ g.node = Top.node /\ g.at = "attempt" /\ g.i = Top.i /\ g.sampled = Top.sampled
  BY <1>2 DEF Frames, Labels
<1>7. stack' = IF Len(stack) > 1 /\ Top.i = 1 THEN [opened EXCEPT ![2] = Flow!SampledIn(@)] ELSE opened
  BY <1>2 DEF Flow!ExecuteAction
<1> HIDE DEF g
<1>8. /\ opened \in Seq(Frames) /\ Len(opened) = Len(stack) /\ DOMAIN opened = DOMAIN stack
      /\ opened[1] = g /\ \A k \in DOMAIN stack : k # 1 => opened[k] = stack[k]
  BY <1>1, <1>5, <1>6, Replaced
<1> HIDE DEF opened
<1>9. CASE Len(stack) > 1 /\ Top.i = 1
  <2> DEFINE h == Flow!SampledIn(stack[2])
  <2>1. 2 \in DOMAIN stack /\ opened[2] = stack[2] /\ stack[2] \in Frames
    BY <1>5, <1>8, <1>9
  <2>2. h \in Frames /\ h.node = stack[2].node /\ h.at = stack[2].at /\ h.i = stack[2].i
    BY <2>1 DEF Flow!SampledIn, Frames
  <2>3. h.sampled = IF Type(stack[2]) = "sequence" THEN stack[2].sampled \cup {stack[2].i} ELSE stack[2].sampled
    BY <2>1 DEF Flow!SampledIn, Frames, Type, Flow!Nodes, Flow!flow, N
  <2>4. stack' = [opened EXCEPT ![2] = h]
    BY <1>7, <1>9, <2>1
  <2> HIDE DEF h
  <2>5. /\ stack' \in Seq(Frames) /\ DOMAIN stack' = DOMAIN stack /\ Len(stack') = Len(stack)
        /\ stack'[2] = h /\ stack'[1] = g /\ \A k \in DOMAIN stack : k \notin {1, 2} => stack'[k] = stack[k]
    BY <1>2, <1>8, <2>1, <2>2, <2>4
  <2> QED  BY <1>1, <1>2, <1>3, <1>4, <1>6, <1>9, <2>1, <2>2, <2>3, <2>5 DEF Top
<1>10. CASE ~(Len(stack) > 1 /\ Top.i = 1)
  <2>1. stack' = opened /\ ~(2 \in DOMAIN stack /\ Top.i = 1)
    BY <1>5, <1>7, <1>10
  <2> QED  BY <1>1, <1>2, <1>3, <1>4, <1>6, <1>8, <2>1 DEF Top
<1> QED  BY <1>9, <1>10

-----------------------------------------------------------------------------
(* Types, positions and the gauge.                                         *)

(* A frame in its place, whatever is above it.                             *)
Placed(f) ==
    /\ Type(f) \in Flow!NodeTypes
    /\ f.at = "lookup" => f.i = 1
    /\ f.at = "listenOnly" => N[f.node].action = ""
    /\ f.at \in {"io", "waiting"} =>
          Flows[name].actions[N[f.node].action].pattern \in DOMAIN Flow!Awaited

LEMMA PositionMeans ==
    ASSUME FlowShape
    PROVE  /\ \A k \in DOMAIN stack : Placed(stack[k])
           /\ \A k \in DOMAIN stack : k # 1 => Waits(stack[k])
           /\ ~Running => \A k \in DOMAIN stack : Waits(stack[k])
           /\ \A k \in DOMAIN stack : stack[k] \in Frames
<1>1. stack \in Seq(Frames)
  BY DEF FlowShape, FlowTypes
<1>2. \A k \in DOMAIN stack : k # 1 => k > 1
  BY <1>1
<1>3. \A k \in DOMAIN stack : Placed(stack[k])
  BY DEF FlowShape, PositionInv, Placed
<1>4. \A k \in DOMAIN stack : k > 1 \/ ~Running => Waits(stack[k])
  BY DEF FlowShape, PositionInv
<1> QED  BY <1>1, <1>2, <1>3, <1>4

LEMMA PositionFollows ==
    ASSUME UNCHANGED name, stack' \in Seq(Frames),
           call' # None => ret' = None,
           stack' = <<>> /\ call' = None => ret' # None,
           \A k \in DOMAIN stack' : Placed(stack'[k]) /\ (k # 1 => Waits(stack'[k])),
           stack' # <<>> => Running' \/ Waits(stack'[1])
    PROVE  PositionInv'
<1>1. N' = N
  BY SameFlow
<1>2. \A k \in DOMAIN stack' : k > 1 => k # 1
  OBVIOUS
<1>3. \A k \in DOMAIN stack' : k = 1 => stack' # <<>>
  OBVIOUS
<1>4. ASSUME NEW k \in DOMAIN stack'
      PROVE  (k > 1 \/ ~Running' => Waits(stack'[k])) /\ Placed(stack'[k])
  BY <1>2, <1>3
<1> QED  BY <1>1, <1>4 DEF PositionInv, Placed, Waits, Type, Running, None

LEMMA PositionStays ==
    ASSUME FlowShape, UNCHANGED <<name, stack, call, ret>>
    PROVE  PositionInv'
<1>1. stack' \in Seq(Frames) /\ (Running' <=> Running)
  BY DEF FlowShape, FlowTypes, Running
<1>2. call' # None => ret' = None
  BY DEF FlowShape, PositionInv
<1>3. stack' = <<>> /\ call' = None => ret' # None
  BY DEF FlowShape, PositionInv
<1>4. \A k \in DOMAIN stack' : Placed(stack'[k]) /\ (k # 1 => Waits(stack'[k]))
  BY PositionMeans
<1>5. stack' # <<>> => Running' \/ Waits(stack'[1])
  <2>1. stack # <<>> => 1 \in DOMAIN stack
    BY <1>1
  <2> QED  BY <1>1, <2>1, PositionMeans
<1> QED  BY <1>1, <1>2, <1>3, <1>4, <1>5, PositionFollows

LEMMA WaitingFrame ==
    ASSUME NEW f, Waits(f)
    PROVE  /\ f.at \notin Flow!Attempting \cup {"lookup", "listenOnly"}
           /\ Type(f) \in Flow!NodeTypes
           /\ Placed(f)
  BY DEF Waits, Flow!Attempting, Flow!NodeTypes, Placed

LEMMA EnteredFrame ==
    ASSUME FlowTypes, Enters, NEW f, f = [node |-> call, at |-> Flow!EntryOf(N[call]), i |-> 1,
                                      err |-> "ok", sampled |-> {}]
    PROVE  /\ f \in Frames /\ Placed(f) /\ f.node = call /\ f.i = 1 /\ f.sampled = {}
           /\ f.at \in {"start", "case", "lookup", "listenOnly"} /\ ~Tried(f) /\ ~Flow!Insists(f)
<1>1. call \in DOMAIN N /\ Type(f) \in Flow!NodeTypes /\ Type(f) = N[call].type
  BY DEF Enters, Type
<1>2. f.at = Flow!EntryOf(N[call]) /\ f.at \in {"start", "case", "lookup", "listenOnly"}
  BY DEF Flow!EntryOf
<1>3. f.at = "listenOnly" => N[call].action = ""
  BY <1>2 DEF Flow!EntryOf
<1>4. f \in Frames
  BY <1>1, <1>2 DEF Frames, Labels, Flow!Errors
<1>5. f.at = "start" => Type(f) # "action"
  BY <1>1 DEF Flow!EntryOf
<1>6. f.at = "case" => Type(f) # "action"
  BY <1>1 DEF Flow!EntryOf
<1>7. ~Tried(f)
  BY <1>2, <1>3, <1>5, <1>6 DEF Tried
<1> QED  BY <1>1, <1>2, <1>3, <1>4, <1>7 DEF Placed, Flow!Insists

LEMMA EntersPlaced ==
    ASSUME FlowShape, GaugeInv, Enters
    PROVE  FlowShape' /\ GaugeInv'
<1> USE DEF Flow!None
<1> DEFINE f == [node |-> call, at |-> Flow!EntryOf(N[call]), i |-> 1, err |-> "ok", sampled |-> {}]
<1>1. stack' = <<f>> \o stack /\ call' = None /\ ret' = None /\ Kept
  BY DEF Enters
<1>2. f \in Frames /\ Placed(f) /\ f.at \notin Flow!Attempting
  BY EnteredFrame DEF FlowShape, Flow!Attempting
<1> HIDE DEF f
<1>3. stack \in Seq(Frames) /\ ~Running
  BY DEF FlowShape, FlowTypes, Running, Enters
<1>4. /\ stack' \in Seq(Frames) /\ stack' # <<>> /\ stack'[1] = f /\ 1 \in DOMAIN stack'
      /\ \A k \in DOMAIN stack' : k # 1 => k - 1 \in DOMAIN stack /\ stack'[k] = stack[k-1]
  BY <1>1, <1>2, <1>3, Pushed
<1>5. \A k \in DOMAIN stack : Waits(stack[k]) /\ Placed(stack[k])
  BY <1>3, PositionMeans
<1>6. FlowTypes'
  BY <1>1, <1>4, SameFlow DEF FlowShape, FlowTypes, Kept
<1>7. PositionInv'
  BY <1>1, <1>2, <1>4, <1>5, PositionFollows DEF Kept, Running
<1>8. stack # <<>> => Waits(Top)
  BY <1>3, <1>5 DEF Top
<1>9. executing = 0
  BY <1>8, WaitingFrame DEF GaugeInv
<1>10. GaugeInv'
  BY <1>1, <1>2, <1>4, <1>9 DEF GaugeInv, Top, Kept
<1> QED  BY <1>6, <1>7, <1>10 DEF FlowShape

LEMMA RefusesPlaced ==
    ASSUME FlowShape, GaugeInv, Refuses
    PROVE  FlowShape' /\ GaugeInv'
<1> USE DEF Flow!None
<1>1. stack' = stack /\ call' = None /\ Kept /\ ret' \in Flow!Results /\ ret' # None /\ ~Running
  BY DEF Refuses, Flow!Results, Flow!Signals, Running, None
<1>2. stack \in Seq(Frames)
  BY DEF FlowShape, FlowTypes
<1>3. \A k \in DOMAIN stack : Waits(stack[k]) /\ Placed(stack[k])
  BY <1>1, PositionMeans
<1>4. FlowTypes'
  BY <1>1, SameFlow DEF FlowShape, FlowTypes, Kept
<1>5. stack' # <<>> => Waits(stack'[1])
  BY <1>1, <1>2, <1>3
<1>6. PositionInv'
  BY <1>1, <1>2, <1>3, <1>5, PositionFollows DEF Kept
<1>7. GaugeInv'
  BY <1>1 DEF GaugeInv, Top, Kept
<1> QED  BY <1>4, <1>6, <1>7 DEF FlowShape

LEMMA MovesPlaced ==
    ASSUME FlowShape, GaugeInv, NEW g \in Frames, MovesTo(g)
    PROVE  FlowShape' /\ GaugeInv'
<1> USE DEF Flow!None
<1>1. stack # <<>> /\ stack' = <<g>> \o Tail(stack) /\ call' = None /\ ret' = None /\ Kept /\ g.node = Top.node
  BY DEF MovesTo
<1>2. stack \in Seq(Frames) /\ 1 \in DOMAIN stack
  BY <1>1 DEF FlowShape, FlowTypes
<1>3. /\ stack' \in Seq(Frames) /\ stack' # <<>> /\ DOMAIN stack' = DOMAIN stack /\ stack'[1] = g
      /\ \A k \in DOMAIN stack : k # 1 => stack'[k] = stack[k]
  BY <1>1, <1>2, Replaced
<1>4. \A k \in DOMAIN stack : Placed(stack[k]) /\ (k # 1 => Waits(stack[k]))
  BY PositionMeans
<1>5. Placed(Top)
  BY <1>2, <1>4 DEF Top
<1>6. Placed(g)
  BY <1>1, <1>5 DEF Placed, Type, MovesTo
<1>7. FlowTypes'
  BY <1>1, <1>3, SameFlow DEF FlowShape, FlowTypes, Kept
<1>8. \A k \in DOMAIN stack' : Placed(stack'[k]) /\ (k # 1 => Waits(stack'[k]))
  BY <1>3, <1>4, <1>6
<1>9. PositionInv'
  BY <1>1, <1>3, <1>8, PositionFollows DEF Kept, Running
<1>10. GaugeInv'
  BY <1>1, <1>3 DEF GaugeInv, Top, Kept, MovesTo
<1> QED  BY <1>7, <1>9, <1>10 DEF FlowShape

LEMMA CallsPlaced ==
    ASSUME FlowShape, GaugeInv, NEW g \in Frames, NEW id \in Flow!Ids, CallsFrom(id, g)
    PROVE  FlowShape' /\ GaugeInv'
<1> USE DEF Flow!None
<1>1. /\ stack # <<>> /\ stack' = <<g>> \o Tail(stack) /\ call' = id /\ ret' = None /\ Kept
      /\ g.node = Top.node /\ Waits(g)
  BY DEF CallsFrom
<1>2. stack \in Seq(Frames) /\ 1 \in DOMAIN stack
  BY <1>1 DEF FlowShape, FlowTypes
<1>3. /\ stack' \in Seq(Frames) /\ stack' # <<>> /\ DOMAIN stack' = DOMAIN stack /\ stack'[1] = g
      /\ \A k \in DOMAIN stack : k # 1 => stack'[k] = stack[k]
  BY <1>1, <1>2, Replaced
<1>4. \A k \in DOMAIN stack : Placed(stack[k]) /\ (k # 1 => Waits(stack[k]))
  BY PositionMeans
<1>5. Placed(g) /\ g.at \notin Flow!Attempting
  BY <1>1, WaitingFrame
<1>6. FlowTypes'
  BY <1>1, <1>3, SameFlow DEF FlowShape, FlowTypes, Kept
<1>7. \A k \in DOMAIN stack' : Placed(stack'[k]) /\ Waits(stack'[k])
  BY <1>1, <1>3, <1>4, <1>5
<1>8. stack' # <<>> => Waits(stack'[1])
  BY <1>1, <1>3
<1>9. PositionInv'
  BY <1>1, <1>3, <1>7, <1>8, PositionFollows DEF Kept
<1>10. GaugeInv'
  BY <1>1, <1>3, <1>5 DEF GaugeInv, Top, Kept, CallsFrom
<1> QED  BY <1>6, <1>9, <1>10 DEF FlowShape

(* What a return leaves on the stack waits for it.                         *)
LEMMA LeavesPlaced ==
    ASSUME FlowShape, NEW v \in Flow!Results, Leaves(v)
    PROVE  FlowShape' /\ (stack' # <<>> => Top'.at \notin Flow!Attempting)
<1> USE DEF Flow!None
<1>1. stack # <<>> /\ stack' = Tail(stack) /\ call' = None /\ ret' = v /\ UNCHANGED <<name, stopped, late, insisting>>
  BY DEF Leaves
<1>2. stack \in Seq(Frames) /\ v # None
  BY DEF FlowShape, FlowTypes, Flow!Results, None
<1>3. /\ stack' \in Seq(Frames) /\ Len(stack') = Len(stack) - 1
      /\ \A k \in DOMAIN stack' : k + 1 \in DOMAIN stack /\ stack'[k] = stack[k+1]
      /\ stack' # <<>> => 1 \in DOMAIN stack'
  BY <1>1, <1>2, Popped
<1>4. \A k \in DOMAIN stack : Placed(stack[k]) /\ (k # 1 => Waits(stack[k]))
  BY PositionMeans
<1>5. \A k \in DOMAIN stack' : Placed(stack'[k]) /\ Waits(stack'[k])
  <2> TAKE k \in DOMAIN stack'
  <2>1. k \in Nat /\ k # 0 /\ k + 1 # 1 /\ k + 1 \in DOMAIN stack /\ stack'[k] = stack[k+1]
    BY <1>3
  <2> QED  BY <1>4, <2>1
<1>6. FlowTypes'
  BY <1>1, <1>3, SameFlow DEF FlowShape, FlowTypes
<1>7. PositionInv'
  BY <1>1, <1>2, <1>3, <1>5, PositionFollows
<1> QED  BY <1>3, <1>5, <1>6, <1>7, WaitingFrame DEF FlowShape, Top

LEMMA ReturnsPlaced ==
    ASSUME FlowShape, GaugeInv, NEW v \in Flow!Results, Returns(v)
    PROVE  FlowShape' /\ GaugeInv'
<1>1. FlowShape' /\ (stack' # <<>> => Top'.at \notin Flow!Attempting)
  BY LeavesPlaced DEF Returns
<1> QED  BY <1>1 DEF GaugeInv, Returns, Leaves

LEMMA RecordsPlaced ==
    ASSUME FlowShape, GaugeInv, Records
    PROVE  FlowShape' /\ GaugeInv'
<1> USE DEF Flow!None
<1>1. /\ stack # <<>> /\ Top.at = "ended" /\ Type(Top) = "action"
      /\ executing' = executing - 1 /\ UNCHANGED <<name, stopped, late, insisting, broken>>
  BY DEF Records
<1>2. executing' = 0
  BY <1>1 DEF GaugeInv, Flow!Attempting
<1>3. CASE Leaves("canceled")
  BY <1>2, <1>3, LeavesPlaced DEF GaugeInv, Flow!Results
<1>4. ASSUME NEW g \in Frames, stack' = <<g>> \o Tail(stack), call' = None, ret' = None,
             g.node = Top.node, g.at \in {"listens", "failed"}
      PROVE  FlowShape' /\ GaugeInv'
  <2>1. stack \in Seq(Frames) /\ 1 \in DOMAIN stack
    BY <1>1 DEF FlowShape, FlowTypes
  <2>2. /\ stack' \in Seq(Frames) /\ stack' # <<>> /\ DOMAIN stack' = DOMAIN stack /\ stack'[1] = g
        /\ \A k \in DOMAIN stack : k # 1 => stack'[k] = stack[k]
    BY <1>1, <1>4, <2>1, Replaced
  <2>3. \A k \in DOMAIN stack : Placed(stack[k]) /\ (k # 1 => Waits(stack[k]))
    BY PositionMeans
  <2>4. Placed(g) /\ g.at \notin Flow!Attempting
    BY <1>1, <1>4 DEF Placed, Type, Flow!Attempting, Flow!NodeTypes
  <2>5. FlowTypes'
    BY <1>1, <1>4, <2>2, SameFlow DEF FlowShape, FlowTypes
  <2>6. \A k \in DOMAIN stack' : Placed(stack'[k]) /\ (k # 1 => Waits(stack'[k]))
    BY <2>2, <2>3, <2>4
  <2>7. PositionInv'
    BY <1>1, <1>4, <2>2, <2>6, PositionFollows DEF Running
  <2>8. GaugeInv'
    BY <1>2, <2>2, <2>4 DEF GaugeInv, Top
  <2> QED  BY <2>5, <2>7, <2>8 DEF FlowShape
<1> QED  BY <1>3, <1>4 DEF Records

LEMMA AttemptPlaced ==
    ASSUME FlowShape, GaugeInv, Flow!ExecuteAction
    PROVE  FlowShape' /\ GaugeInv'
<1> USE DEF Flow!None
<1>1. /\ Running /\ stack # <<>> /\ Type(Top) = "action" /\ Top.at = "execute"
      /\ UNCHANGED <<name, call, ret, stopped, insisting, broken>>
      /\ stack' \in Seq(Frames) /\ DOMAIN stack' = DOMAIN stack
      /\ \A k \in DOMAIN stack :
            /\ stack'[k].node = stack[k].node /\ stack'[k].i = stack[k].i
            /\ stack'[k].at = IF k = 1 THEN "attempt" ELSE stack[k].at
  BY AttemptOpened
<1>2. executing' = executing + 1 /\ late' \in Nat
  BY DEF Flow!ExecuteAction, FlowShape, FlowTypes
<1>3. \A k \in DOMAIN stack : Placed(stack[k]) /\ (k # 1 => Waits(stack[k]))
  BY PositionMeans
<1>4. \A k \in DOMAIN stack' : Placed(stack'[k]) /\ (k # 1 => Waits(stack'[k]))
  <2> TAKE k \in DOMAIN stack'
  <2>1. CASE k = 1
    BY <1>1, <1>3, <2>1 DEF Placed, Type
  <2>2. CASE k # 1
    <3>1. stack'[k].node = stack[k].node /\ stack'[k].i = stack[k].i /\ stack'[k].at = stack[k].at
      BY <1>1, <2>2
    <3>2. Placed(stack[k]) /\ Waits(stack[k])
      BY <1>1, <1>3, <2>2
    <3>3. Placed(stack'[k])
      BY <3>1, <3>2 DEF Placed, Type
    <3>4. Waits(stack'[k])
      BY <3>1, <3>2 DEF Waits, Type
    <3> QED  BY <2>2, <3>3, <3>4
  <2> QED  BY <2>1, <2>2
<1>5. FlowTypes'
  BY <1>1, <1>2, SameFlow DEF FlowShape, FlowTypes
<1>6. PositionInv'
  BY <1>1, <1>4, PositionFollows DEF Running
<1>7. stack' # <<>> /\ stack'[1].at = "attempt"
  BY <1>1
<1>8. executing = 0
  BY <1>1 DEF GaugeInv, Flow!Attempting
<1>9. GaugeInv'
  BY <1>2, <1>7, <1>8 DEF GaugeInv, Top, Flow!Attempting
<1> QED  BY <1>5, <1>6, <1>9 DEF FlowShape

-----------------------------------------------------------------------------
(* The samples: one lemma per shape; what a sequence writes off last.      *)

(* SampleInv with the stack of the next state.                             *)
LEMMA SampleFollows ==
    ASSUME UNCHANGED name,
           \A k \in DOMAIN stack' : Type(stack'[k]) = "sequence" =>
               SamplesOf(stack'[k]) /\ (k # 1 => SampleWith(stack'[k], stack'[k-1])),
           stack' # <<>> /\ Type(stack'[1]) = "sequence" =>
               /\ call' # None => Follows(stack'[1], call')
               /\ ret' # None =>
                    /\ stack'[1].i \in DOMAIN N[stack'[1].node].next
                    /\ ret' = "ok" /\ stack'[1].i \in ActionKids(stack'[1])
                          => stack'[1].i \in stack'[1].sampled
               /\ Running' => stack'[1].i \notin stack'[1].sampled
    PROVE  SampleInv'
<1>1. N' = N
  BY SameFlow
<1>2. \A k \in DOMAIN stack' : k > 1 => k # 1
  OBVIOUS
<1>4. \A id : Flow!IsActionNode(id)' = Flow!IsActionNode(id)
  BY SameFlow DEF Flow!IsActionNode
<1>5. \A f : ActionKids(f)' = ActionKids(f)
  BY <1>1, <1>4 DEF ActionKids
<1> QED
  BY <1>1, <1>2, <1>5 DEF SampleInv, SamplesOf, SampleWith, Follows, Tried, Type, Top, Running, None

LEMMA EntersSamples ==
    ASSUME FlowShape, SampleInv, Enters
    PROVE  SampleInv'
<1> DEFINE f == [node |-> call, at |-> Flow!EntryOf(N[call]), i |-> 1, err |-> "ok", sampled |-> {}]
<1>1. stack' = <<f>> \o stack /\ call' = None /\ ret' = None /\ UNCHANGED name /\ call # None
  BY DEF Enters, Kept
<1>2. f \in Frames /\ f.node = call /\ f.i = 1 /\ f.sampled = {} /\ ~Tried(f)
  BY EnteredFrame DEF FlowShape
<1> HIDE DEF f
<1>3. stack \in Seq(Frames)
  BY DEF FlowShape, FlowTypes
<1>4. /\ stack' \in Seq(Frames) /\ stack' # <<>> /\ stack'[1] = f /\ 1 \in DOMAIN stack'
      /\ \A k \in DOMAIN stack' : k # 1 => k - 1 \in DOMAIN stack /\ stack'[k] = stack[k-1]
  BY <1>1, <1>2, <1>3, Pushed
<1>5. SamplesOf(f)
  BY <1>2 DEF SamplesOf
<1>6. ASSUME NEW k \in DOMAIN stack', k # 1, Type(stack'[k]) = "sequence"
      PROVE  SamplesOf(stack'[k]) /\ SampleWith(stack'[k], stack'[k-1])
  <2>1. k - 1 \in DOMAIN stack /\ stack'[k] = stack[k-1] /\ k \in Nat /\ k > 1
    BY <1>4, <1>6
  <2>2. SamplesOf(stack'[k])
    BY <1>6, <2>1 DEF SampleInv
  <2>3. CASE k = 2
    <3>1. stack'[k] = Top /\ stack'[k-1] = f /\ stack # <<>>
      BY <1>3, <1>4, <2>1, <2>3 DEF Top
    <3>2. Follows(Top, call)
      BY <1>1, <1>6, <3>1 DEF SampleInv
    <3> QED  BY <1>2, <2>2, <3>1, <3>2 DEF SampleWith
  <2>4. CASE k > 2
    <3>1. k - 1 # 1 /\ k - 1 > 1 /\ k - 1 \in DOMAIN stack'
      BY <1>4, <2>1, <2>4
    <3>2. stack'[k-1] = stack[(k-1)-1]
      BY <1>4, <3>1
    <3> QED  BY <1>6, <2>1, <2>2, <3>1, <3>2 DEF SampleInv
  <2> QED  BY <2>1, <2>3, <2>4
<1> QED  BY <1>1, <1>2, <1>4, <1>5, <1>6, SampleFollows

LEMMA RefusesSamples ==
    ASSUME FlowShape, SampleInv, Refuses
    PROVE  SampleInv'
<1>1. stack' = stack /\ call' = None /\ UNCHANGED name /\ ret' # "ok" /\ ret' # None /\ call # None
  BY DEF Refuses, Kept, Flow!Signals, None
<1>2. stack \in Seq(Frames)
  BY DEF FlowShape, FlowTypes
<1>3. \A k \in DOMAIN stack : k # 1 => k > 1
  BY <1>2
<1>4. stack # <<>> /\ Type(stack[1]) = "sequence" => stack[1].i \in DOMAIN N[stack[1].node].next
  BY <1>1 DEF SampleInv, Follows, Top
<1>5. ~Running'
  BY <1>1 DEF Running, None
<1> QED  BY <1>1, <1>3, <1>4, <1>5, SampleFollows DEF SampleInv

(* Of a frame that is no sequence only the beginning of its first attempt  *)
(* matters.                                                                *)
LEMMA ReplacesSamples ==
    ASSUME FlowShape, SampleInv, UNCHANGED name, stack # <<>>,
           NEW g \in Frames, stack' = <<g>> \o Tail(stack), g.node = Top.node, Tried(g) => Tried(Top),
           Type(g) = "sequence" =>
              /\ SamplesOf(g)
              /\ call' # None => Follows(g, call')
              /\ ret' = None
              /\ Running' => g.i \notin g.sampled
    PROVE  SampleInv'
<1>1. stack \in Seq(Frames) /\ 1 \in DOMAIN stack
  BY DEF FlowShape, FlowTypes
<1>2. /\ stack' \in Seq(Frames) /\ stack' # <<>> /\ DOMAIN stack' = DOMAIN stack /\ stack'[1] = g
      /\ \A k \in DOMAIN stack : k # 1 => stack'[k] = stack[k]
  BY <1>1, Replaced
<1>3. ASSUME NEW k \in DOMAIN stack', k # 1, Type(stack'[k]) = "sequence"
      PROVE  SamplesOf(stack'[k]) /\ SampleWith(stack'[k], stack'[k-1])
  <2>1. k \in DOMAIN stack /\ stack'[k] = stack[k] /\ k > 1 /\ k - 1 \in DOMAIN stack
    BY <1>1, <1>2, <1>3
  <2>2. SamplesOf(stack[k]) /\ SampleWith(stack[k], stack[k-1])
    BY <1>3, <2>1 DEF SampleInv
  <2>3. CASE k - 1 = 1
    BY <1>2, <2>1, <2>2, <2>3 DEF SampleWith, Top
  <2>4. CASE k - 1 # 1
    BY <1>2, <2>1, <2>2, <2>4
  <2> QED  BY <2>3, <2>4
<1> QED  BY <1>2, <1>3, SampleFollows DEF None

LEMMA MovesSamples ==
    ASSUME FlowShape, SampleInv, NEW g \in Frames, MovesTo(g)
    PROVE  SampleInv'
<1>1. /\ stack # <<>> /\ stack' = <<g>> \o Tail(stack) /\ call' = None /\ ret' = None /\ UNCHANGED name
      /\ g.node = Top.node /\ (Tried(g) => Tried(Top))
  BY DEF MovesTo, Kept
<1>2. Top \in Frames /\ 1 \in DOMAIN stack
  BY <1>1, TopIsFrame DEF FlowShape
<1>3. ASSUME Type(g) = "sequence"
      PROVE  SamplesOf(g) /\ g.i \notin g.sampled
  <2>1. Type(Top) = "sequence" /\ ret = "ok" /\ g = [Top EXCEPT !.i = @ + 1]
    BY <1>1, <1>3 DEF MovesTo, Type
  <2>2. g.i = Top.i + 1 /\ g.sampled = Top.sampled /\ Top.i \in Nat \ {0}
    BY <1>2, <2>1, StepOfFrame DEF Frames
  <2>3. SamplesOf(Top) /\ Top.i \in DOMAIN N[Top.node].next /\ (Top.i \in ActionKids(Top) => Top.i \in Top.sampled)
    BY <1>1, <1>2, <2>1 DEF SampleInv, Top, None
  <2>4. ActionKids(g) = ActionKids(Top)
    BY <1>1 DEF ActionKids
  <2>5. \A j \in 1 .. Top.i : j = Top.i \/ j \in 1 .. (Top.i - 1)
    BY <2>2
  <2>6. \A j \in 1 .. Top.i : j \in 1 .. (Top.i + 1)
    BY <2>2
  <2>7. (Top.i + 1) - 1 = Top.i /\ Top.i + 1 \notin 1 .. Top.i
    BY <2>2
  <2> QED  BY <2>2, <2>3, <2>4, <2>5, <2>6, <2>7 DEF SamplesOf
<1> QED  BY <1>1, <1>3, ReplacesSamples

LEMMA CallsSamples ==
    ASSUME FlowShape, SampleInv, NEW g \in Frames, NEW id \in Flow!Ids, CallsFrom(id, g)
    PROVE  SampleInv'
<1>1. /\ stack # <<>> /\ stack' = <<g>> \o Tail(stack) /\ call' = id /\ ret' = None /\ UNCHANGED name
      /\ g.node = Top.node /\ (Tried(g) => Tried(Top)) /\ id # None
  BY DEF CallsFrom, Kept, Flow!Ids, Flow!None, None
<1>2. Top \in Frames /\ 1 \in DOMAIN stack
  BY <1>1, TopIsFrame DEF FlowShape
<1>3. ~Running'
  BY <1>1 DEF Running
<1>4. ASSUME Type(g) = "sequence"
      PROVE  SamplesOf(g) /\ Follows(g, id)
  <2>1. Type(Top) = "sequence" /\ g = Top /\ Follows(g, id)
    BY <1>1, <1>4 DEF CallsFrom, Type
  <2> QED  BY <1>2, <2>1 DEF SampleInv, Top
<1> QED  BY <1>1, <1>3, <1>4, ReplacesSamples

LEMMA LeavesSamples ==
    ASSUME FlowShape, SampleInv, NEW v \in Flow!Results, Leaves(v)
    PROVE  SampleInv'
<1>1. /\ stack # <<>> /\ stack' = Tail(stack) /\ call' = None /\ ret' = v /\ UNCHANGED name
      /\ (v = "ok" /\ Type(Top) = "action" /\ N[Top.node].action # "" => Tried(Top))
  BY DEF Leaves
<1>2. stack \in Seq(Frames) /\ v # None
  BY DEF FlowShape, FlowTypes, Flow!Results, None
<1>3. /\ stack' \in Seq(Frames) /\ Len(stack') = Len(stack) - 1
      /\ \A k \in DOMAIN stack' : k + 1 \in DOMAIN stack /\ stack'[k] = stack[k+1]
      /\ stack' # <<>> => 1 \in DOMAIN stack'
  <2>1. stack # <<>> /\ stack' = Tail(stack) /\ stack \in Seq(Frames)
    BY <1>1, <1>2
  <2> QED  BY <2>1, Popped
<1>4. ASSUME NEW k \in DOMAIN stack', Type(stack'[k]) = "sequence"
      PROVE  /\ k + 1 \in DOMAIN stack /\ stack'[k] = stack[k+1]
             /\ SamplesOf(stack'[k]) /\ SampleWith(stack'[k], stack[k])
  <2>1. k + 1 \in DOMAIN stack /\ stack'[k] = stack[k+1] /\ k + 1 > 1 /\ (k + 1) - 1 = k
    BY <1>3
  <2> QED  BY <1>4, <2>1 DEF SampleInv
<1>5. ASSUME NEW k \in DOMAIN stack', k # 1, Type(stack'[k]) = "sequence"
      PROVE  SampleWith(stack'[k], stack'[k-1])
  <2>1. k - 1 \in DOMAIN stack' /\ (k - 1) + 1 = k
    BY <1>3, <1>5
  <2>2. stack'[k-1] = stack[k]
    BY <1>3, <2>1
  <2> QED  BY <1>4, <1>5, <2>2
<1>6. ASSUME stack' # <<>>, Type(stack'[1]) = "sequence"
      PROVE  /\ stack'[1].i \in DOMAIN N[stack'[1].node].next
             /\ v = "ok" /\ stack'[1].i \in ActionKids(stack'[1]) => stack'[1].i \in stack'[1].sampled
  <2>1. SampleWith(stack'[1], Top)
    BY <1>3, <1>4, <1>6 DEF Top
  <2>2. stack'[1].i \in ActionKids(stack'[1]) => Flow!IsActionNode(Top.node)
    BY <2>1 DEF ActionKids, SampleWith, Follows
  <2>3. Flow!IsActionNode(Top.node) => Type(Top) = "action" /\ N[Top.node].action # ""
    BY SameFlow DEF Flow!IsActionNode, Type, Flow!Nodes, Flow!flow, N
  <2> QED  BY <1>1, <2>1, <2>2, <2>3 DEF SampleWith, Follows
<1> QED  BY <1>1, <1>2, <1>4, <1>5, <1>6, SampleFollows DEF Running

LEMMA RecordsSamples ==
    ASSUME FlowShape, SampleInv, Records
    PROVE  SampleInv'
<1>1. CASE Leaves("canceled")
  BY <1>1, LeavesSamples DEF Flow!Results
<1>2. ASSUME NEW g \in Frames, stack' = <<g>> \o Tail(stack), g.node = Top.node
      PROVE  SampleInv'
  <2>1. stack # <<>> /\ Top.at = "ended" /\ Type(Top) = "action" /\ UNCHANGED name
    BY DEF Records
  <2>2. Type(g) = "action" /\ (Tried(g) => Tried(Top))
    BY <1>2, <2>1 DEF Tried, Type
  <2> QED  BY <1>2, <2>1, <2>2, ReplacesSamples
<1> QED  BY <1>1, <1>2 DEF Records

LEMMA AttemptSamples ==
    ASSUME FlowShape, SampleInv, Flow!ExecuteAction
    PROVE  SampleInv'
<1>1. /\ Running /\ stack # <<>> /\ Type(Top) = "action" /\ Top.at = "execute"
      /\ UNCHANGED <<name, call, ret, stopped, insisting, broken>>
      /\ stack' \in Seq(Frames) /\ DOMAIN stack' = DOMAIN stack
      /\ \A k \in DOMAIN stack :
            /\ stack'[k].node = stack[k].node /\ stack'[k].i = stack[k].i
            /\ stack'[k].at = IF k = 1 THEN "attempt" ELSE stack[k].at
            /\ stack'[k].sampled = IF k = 2 /\ Top.i = 1 /\ Type(stack[2]) = "sequence"
                                   THEN stack[2].sampled \cup {stack[2].i} ELSE stack[k].sampled
  BY AttemptOpened
<1>2. stack \in Seq(Frames) /\ \A k \in DOMAIN stack : stack[k].i \in Nat \ {0}
  <2>1. \A k \in DOMAIN stack : stack[k] \in Frames
    BY PositionMeans
  <2> QED  BY <2>1 DEF FlowShape, FlowTypes, Frames
<1>3. ASSUME NEW k \in DOMAIN stack
      PROVE  Type(stack'[k]) = Type(stack[k]) /\ ActionKids(stack'[k]) = ActionKids(stack[k])
  BY <1>1 DEF Type, ActionKids
<1>4. ASSUME NEW k \in DOMAIN stack, k # 1, Type(stack[k]) = "sequence"
      PROVE  SamplesOf(stack'[k]) /\ SampleWith(stack'[k], stack'[k-1])
  <2>1. k > 1 /\ k - 1 \in DOMAIN stack
    BY <1>2, <1>4
  <2>2. SamplesOf(stack[k]) /\ SampleWith(stack[k], stack[k-1])
    BY <1>4, <2>1 DEF SampleInv
  <2>3. stack[k].sampled \subseteq stack'[k].sampled /\ stack'[k].sampled \subseteq stack[k].sampled \cup {stack[k].i}
    BY <1>1, <1>4
  <2>4. SamplesOf(stack'[k])
    <3>1. stack[k].i \in 1 .. stack[k].i
      BY <1>2
    <3> QED  BY <1>1, <1>3, <2>2, <2>3, <3>1 DEF SamplesOf
  <2>5. Follows(stack'[k], stack'[k-1].node)
    BY <1>1, <2>1, <2>2 DEF SampleWith, Follows
  <2>6. CASE k = 2
    <3>1. stack[k-1] = Top
      BY <2>6 DEF Top
    <3>2. Top.i = 1 => stack'[k].i \in stack'[k].sampled
      BY <1>1, <1>4, <2>6
    <3>3. Top.i # 1 /\ Tried(stack'[k-1]) => Tried(Top)
      BY <1>1, <1>3, <2>1, <3>1 DEF Tried
    <3>4. Tried(Top) => stack[k].i \in stack'[k].sampled
      BY <2>2, <2>3, <3>1 DEF SampleWith
    <3>5. stack'[k].i = stack[k].i
      BY <1>1
    <3>6. Tried(stack'[k-1]) => stack'[k].i \in stack'[k].sampled
      BY <3>2, <3>3, <3>4, <3>5
    <3> QED  BY <2>4, <2>5, <3>6, Zenon DEF SampleWith
  <2>7. CASE k # 2
    <3>1. k - 1 # 1
      BY <2>1, <2>7
    <3>2. Tried(stack'[k-1]) => Tried(stack[k-1])
      BY <1>1, <1>3, <2>1, <3>1 DEF Tried
    <3> QED  BY <1>1, <2>2, <2>3, <2>4, <2>5, <3>2 DEF SampleWith
  <2> QED  BY <2>4, <2>6, <2>7
<1>5. Type(stack'[1]) = "action" /\ 1 \in DOMAIN stack
  BY <1>1, <1>2, <1>3 DEF Top
<1> QED  BY <1>1, <1>3, <1>4, <1>5, SampleFollows

-----------------------------------------------------------------------------
(* What a cancelled sequence writes off.                                   *)

LEMMA CutShortIsExact ==
    ASSUME FlowShape, SampleInv, stack # <<>>, CutShort
    PROVE  BrokenInv'
<1>1. Top \in Frames /\ Flow!Frame = Top /\ Flow!Node = N[Top.node] /\ 1 \in DOMAIN stack
  BY TopIsFrame DEF FlowShape
<1>2. Flow!ActionChildren = ActionKids(Top)
  BY <1>1 DEF Flow!ActionChildren, ActionKids
<1>3. PICK k \in {Top.i, Top.i + 1} :
        /\ k = Top.i => Running
        /\ k = Top.i + 1 => ret = "canceled"
        /\ Flow!reportRemainingCanceled(k)
  BY DEF CutShort
<1>4. broken' = [missing |-> ActionKids(Top) \ (Top.sampled \cup {j \in ActionKids(Top) : j >= k}),
                 twice |-> Top.sampled \cap {j \in ActionKids(Top) : j >= k}]
  BY <1>1, <1>2, <1>3 DEF Flow!reportRemainingCanceled, Flow!WriteOff
<1>5. SamplesOf(Top) /\ (Running => Top.i \notin Top.sampled)
  BY <1>1 DEF CutShort, SampleInv, Top
<1>6. Top.i \in Nat \ {0} /\ N[Top.node].next \in Seq(Flow!Ids)
  BY <1>1, NodeIsDecoded DEF FlowShape, Frames, CutShort, Type, Flow!IsNode
<1>7. ActionKids(Top) \subseteq Nat \ {0}
  BY <1>6 DEF ActionKids
<1>8. \A j \in ActionKids(Top) : j < Top.i => j \in Top.sampled
  BY <1>5, <1>6, <1>7 DEF SamplesOf
<1>9. \A j \in Top.sampled : j \in Nat /\ j <= Top.i
  BY <1>5, <1>6 DEF SamplesOf
<1>10. broken'.missing \subseteq {Top.i}
  BY <1>3, <1>4, <1>6, <1>7, <1>8
<1>11. broken'.twice = {}
  BY <1>3, <1>4, <1>5, <1>6, <1>7, <1>9
<1> QED  BY <1>10, <1>11 DEF BrokenInv

-----------------------------------------------------------------------------
(* The signals: what is above a frame, and what a return passes on.        *)

(* One choice of the open nodes and of the types that catch.               *)
OpenFor(open, catching) ==
    /\ \A k \in DOMAIN stack :
        (\A j \in (k+1) .. Len(stack) : Type(stack[j]) \notin catching) => stack[k].node \in open
    /\ call \in DOMAIN N \ {None} /\ (\A j \in DOMAIN stack : Type(stack[j]) \notin catching)
          => call \in open

LEMMA OpenFollows ==
    ASSUME UNCHANGED name, OpenInv,
           \A open \in SUBSET DOMAIN N, catching \in SUBSET Flow!NodeTypes :
              Flow!Uncaught(N, open, catching) /\ OpenFor(open, catching) =>
                /\ \A k \in DOMAIN stack' :
                    (\A j \in (k+1) .. Len(stack') : Type(stack'[j]) \notin catching) => stack'[k].node \in open
                /\ call' \in DOMAIN N \ {None} /\ (\A j \in DOMAIN stack' : Type(stack'[j]) \notin catching)
                      => call' \in open
    PROVE  OpenInv'
<1>1. N' = N
  BY SameFlow
<1> SUFFICES ASSUME NEW open \in SUBSET DOMAIN N, NEW catching \in SUBSET Flow!NodeTypes,
                    Flow!Uncaught(N, open, catching)
             PROVE  /\ \A k \in DOMAIN stack' :
                       (\A j \in (k+1) .. Len(stack') : Type(stack'[j]) \notin catching)
                          => stack'[k].node \in open
                    /\ call' \in DOMAIN N \ {None} /\ (\A j \in DOMAIN stack' : Type(stack'[j]) \notin catching)
                          => call' \in open
  BY <1>1 DEF OpenInv, Type, None
<1>2. OpenFor(open, catching)
  BY DEF OpenInv, OpenFor
<1> QED  BY <1>2

(* The same frames with the same nodes, and no new call or one of the      *)
(* frame on top.                                                           *)
LEMMA SameNodesOpen ==
    ASSUME FlowShape, OpenInv, UNCHANGED name,
           DOMAIN stack' = DOMAIN stack, Len(stack') = Len(stack),
           \A k \in DOMAIN stack : stack'[k].node = stack[k].node,
           call' = None \/ (stack # <<>> /\ call' \in Flow!NextOf(N[Top.node]))
    PROVE  OpenInv'
<1>1. ASSUME NEW open \in SUBSET DOMAIN N, NEW catching \in SUBSET Flow!NodeTypes,
             Flow!Uncaught(N, open, catching), OpenFor(open, catching)
      PROVE  /\ \A k \in DOMAIN stack' :
                (\A j \in (k+1) .. Len(stack') : Type(stack'[j]) \notin catching) => stack'[k].node \in open
             /\ call' \in DOMAIN N \ {None} /\ (\A j \in DOMAIN stack' : Type(stack'[j]) \notin catching)
                   => call' \in open
  <2>1. stack \in Seq(Frames)
    BY DEF FlowShape, FlowTypes
  <2>2. \A k \in DOMAIN stack : Type(stack'[k]) = Type(stack[k])
    BY DEF Type
  <2>3. \A k \in DOMAIN stack : \A j \in (k+1) .. Len(stack) : j \in DOMAIN stack
    BY <2>1
  <2>4. ASSUME NEW k \in DOMAIN stack', \A j \in (k+1) .. Len(stack') : Type(stack'[j]) \notin catching
        PROVE  stack'[k].node \in open
    BY <1>1, <2>2, <2>3, <2>4 DEF OpenFor
  <2>5. ASSUME call' \in DOMAIN N \ {None}, \A j \in DOMAIN stack' : Type(stack'[j]) \notin catching
        PROVE  call' \in open
    <3>1. stack # <<>> /\ call' \in Flow!NextOf(N[Top.node]) /\ 1 \in DOMAIN stack
      BY <2>1, <2>5
    <3>2. Top.node \in open
      BY <1>1, <2>2, <2>3, <2>5, <3>1 DEF OpenFor, Top
    <3>3. N[Top.node].type \notin catching
      BY <2>2, <2>5, <3>1 DEF Top, Type
    <3> QED  BY <1>1, <2>5, <3>1, <3>2, <3>3 DEF Flow!Uncaught
  <2> QED  BY <2>4, <2>5
<1> QED  BY <1>1, OpenFollows

LEMMA ReplacesOpen ==
    ASSUME FlowShape, OpenInv, UNCHANGED name, stack # <<>>,
           NEW g \in Frames, stack' = <<g>> \o Tail(stack), g.node = Top.node,
           call' = None \/ call' \in Flow!NextOf(N[Top.node])
    PROVE  OpenInv'
<1>1. stack \in Seq(Frames)
  BY DEF FlowShape, FlowTypes
<1>2. /\ Len(stack') = Len(stack) /\ DOMAIN stack' = DOMAIN stack /\ stack'[1] = g
      /\ \A k \in DOMAIN stack : k # 1 => stack'[k] = stack[k]
  BY <1>1, Replaced
<1>3. \A k \in DOMAIN stack : stack'[k].node = stack[k].node
  BY <1>2 DEF Top
<1> QED  BY <1>2, <1>3, SameNodesOpen

LEMMA EntersOpen ==
    ASSUME FlowShape, OpenInv, Enters
    PROVE  OpenInv'
<1> DEFINE f == [node |-> call, at |-> Flow!EntryOf(N[call]), i |-> 1, err |-> "ok", sampled |-> {}]
<1>1. stack' = <<f>> \o stack /\ call' = None /\ UNCHANGED name /\ call \in DOMAIN N \ {None}
  BY DEF Enters, Kept
<1>2. f \in Frames /\ f.node = call
  BY EnteredFrame DEF FlowShape
<1> HIDE DEF f
<1>3. stack \in Seq(Frames)
  BY DEF FlowShape, FlowTypes
<1>4. /\ Len(stack') = Len(stack) + 1 /\ stack' \in Seq(Frames) /\ stack'[1] = f
      /\ \A k \in DOMAIN stack : k + 1 \in DOMAIN stack' /\ stack'[k+1] = stack[k]
      /\ \A k \in DOMAIN stack' : k # 1 => k - 1 \in DOMAIN stack /\ stack'[k] = stack[k-1]
  BY <1>1, <1>2, <1>3, Pushed
<1>5. ASSUME NEW open \in SUBSET DOMAIN N, NEW catching \in SUBSET Flow!NodeTypes,
             OpenFor(open, catching),
             NEW k \in DOMAIN stack', \A j \in (k+1) .. Len(stack') : Type(stack'[j]) \notin catching
      PROVE  stack'[k].node \in open
  <2>1. CASE k = 1
    <3>1. \A j \in DOMAIN stack : j + 1 \in (k+1) .. Len(stack') /\ Type(stack[j]) = Type(stack'[j+1])
      BY <1>3, <1>4, <2>1
    <3>2. \A j \in DOMAIN stack : Type(stack[j]) \notin catching
      BY <1>5, <3>1
    <3> QED  BY <1>1, <1>2, <1>4, <1>5, <2>1, <3>2 DEF OpenFor
  <2>2. CASE k # 1
    <3>1. k - 1 \in DOMAIN stack /\ stack'[k] = stack[k-1]
      BY <1>4, <2>2
    <3>2. \A j \in ((k-1)+1) .. Len(stack) : j \in DOMAIN stack /\ j + 1 \in (k+1) .. Len(stack') /\ stack[j] = stack'[j+1]
      BY <1>3, <1>4, <3>1
    <3>3. \A j \in ((k-1)+1) .. Len(stack) : Type(stack[j]) \notin catching
      BY <1>5, <3>2
    <3> QED  BY <1>5, <3>1, <3>3 DEF OpenFor
  <2> QED  BY <2>1, <2>2
<1> QED  BY <1>1, <1>5, OpenFollows

LEMMA LeavesOpen ==
    ASSUME FlowShape, OpenInv, NEW v, Leaves(v)
    PROVE  OpenInv'
<1>1. stack # <<>> /\ stack' = Tail(stack) /\ call' = None /\ UNCHANGED name
  BY DEF Leaves
<1>2. stack \in Seq(Frames)
  BY DEF FlowShape, FlowTypes
<1>3. /\ stack' \in Seq(Frames) /\ Len(stack') = Len(stack) - 1
      /\ \A k \in DOMAIN stack' : k + 1 \in DOMAIN stack /\ stack'[k] = stack[k+1]
      /\ \A k \in DOMAIN stack : k # 1 => k - 1 \in DOMAIN stack' /\ stack'[k-1] = stack[k]
  BY <1>1, <1>2, Popped
<1>4. ASSUME NEW open \in SUBSET DOMAIN N, NEW catching \in SUBSET Flow!NodeTypes,
             OpenFor(open, catching),
             NEW k \in DOMAIN stack', \A j \in (k+1) .. Len(stack') : Type(stack'[j]) \notin catching
      PROVE  stack'[k].node \in open
  <2>1. k + 1 \in DOMAIN stack /\ stack'[k] = stack[k+1]
    BY <1>3
  <2>2. \A j \in ((k+1)+1) .. Len(stack) :
          j \in DOMAIN stack /\ j # 1 /\ j - 1 \in (k+1) .. Len(stack') /\ stack[j] = stack'[j-1]
    BY <1>2, <1>3
  <2>3. \A j \in ((k+1)+1) .. Len(stack) : Type(stack[j]) \notin catching
    BY <1>4, <2>2
  <2> QED  BY <1>4, <2>1, <2>3 DEF OpenFor
<1> QED  BY <1>1, <1>4, OpenFollows

(* A signal that executeNode finds where nothing catches it is not of a    *)
(* well-nested flow.                                                       *)
LEMMA RefusesSignals ==
    ASSUME FlowShape, OpenInv, Refuses
    PROVE  SignalInv'
<1>1. stack' = stack /\ UNCHANGED name /\ ret' # "skip" /\ call # None
  BY DEF Refuses, Kept, Flow!Signals
<1>2. ASSUME ret' \in Flow!Signals, Flow!WellNested(Flows[name]), \A j \in DOMAIN stack : Type(stack[j]) # "loop"
      PROVE  FALSE
  <2>1. call \in DOMAIN N \ {None} /\ N[call].type \in Flow!Signals
    BY <1>1, <1>2 DEF Refuses, Flow!Signals
  <2>2. PICK open \in SUBSET DOMAIN N :
          Flow!Uncaught(N, open, {"loop"}) /\ \A id \in open : N[id].type \notin Flow!Signals
    BY <1>2 DEF Flow!WellNested, N
  <2>3. {"loop"} \in SUBSET Flow!NodeTypes
    BY DEF Flow!NodeTypes
  <2>4. \A j \in DOMAIN stack : Type(stack[j]) \notin {"loop"}
    BY <1>2
  <2>5. call \in open
    BY <2>1, <2>2, <2>3, <2>4 DEF OpenInv
  <2> QED  BY <2>1, <2>2, <2>5
<1>3. Flow!WellNested(Flows[name])' = Flow!WellNested(Flows[name])
  BY <1>1
<1> QED  BY <1>1, <1>2, <1>3, SameFlow DEF SignalInv, Type

LEMMA LeavesSignals ==
    ASSUME FlowShape, OpenInv, SignalInv, NEW v \in Flow!Results, Leaves(v)
    PROVE  SignalInv'
<1>1. /\ stack # <<>> /\ stack' = Tail(stack)
      /\ ret' = v /\ UNCHANGED name
  BY DEF Leaves
<1>2. stack \in Seq(Frames) /\ 1 \in DOMAIN stack /\ Top = stack[1]
  BY <1>1 DEF FlowShape, FlowTypes, Top
<1>3. /\ stack' \in Seq(Frames)
      /\ \A k \in DOMAIN stack : k # 1 => k - 1 \in DOMAIN stack' /\ stack'[k-1] = stack[k]
  <2>1. stack # <<>> /\ stack' = Tail(stack) /\ stack \in Seq(Frames)
    BY <1>1, <1>2
  <2> QED  BY <2>1, Popped
<1>4. ASSUME v \in Flow!Signals, Flow!WellNested(Flows[name])
      PROVE  \E j \in DOMAIN stack' : Type(stack'[j]) = "loop"
  <2>1. ret = v /\ Type(Top) # "loop"
    BY <1>4 DEF Leaves
  <2>2. PICK j \in DOMAIN stack : Type(stack[j]) = "loop"
    BY <1>4, <2>1 DEF SignalInv
  <2>3. j # 1
    BY <1>2, <2>1, <2>2
  <2> QED  BY <1>3, <2>2, <2>3
<1>5. ASSUME v = "skip", Flow!SkipsAreCaught(Flows[name])
      PROVE  \E j \in DOMAIN stack' : Type(stack'[j]) # "wait"
  <2>1. CASE ret = "skip" /\ Type(Top) = "wait"
    <3>1. PICK j \in DOMAIN stack : Type(stack[j]) # "wait"
      BY <1>5, <2>1 DEF SignalInv
    <3>2. j # 1
      BY <1>2, <2>1, <3>1
    <3> QED  BY <1>3, <3>1, <3>2
  <2>2. CASE Type(Top) = "action" /\ N[Top.node].strategy = "skip"
    <3> DEFINE catching == Flow!NodeTypes \ {"wait"}
    <3>1. PICK open \in SUBSET DOMAIN N :
            /\ Flow!Uncaught(N, open, catching)
            /\ \A id \in open : ~(N[id].type = "action" /\ N[id].strategy = "skip")
      BY <1>5 DEF Flow!SkipsAreCaught, N
    <3>2. Top.node \notin open
      BY <2>2, <3>1 DEF Type
    <3>3. catching \in SUBSET Flow!NodeTypes
      OBVIOUS
    <3> HIDE DEF catching
    <3>4. PICK j \in 2 .. Len(stack) : Type(stack[j]) \in catching
      <4>1. 1 + 1 = 2
        OBVIOUS
      <4> QED  BY <1>2, <3>1, <3>2, <3>3, <4>1 DEF OpenInv
    <3>5. j \in DOMAIN stack /\ j # 1
      BY <1>2, <3>4
    <3>6. Type(stack[j]) # "wait"
      BY <3>4 DEF catching
    <3> QED  BY <1>3, <3>5, <3>6
  <2> QED  BY <1>5, <2>1, <2>2 DEF Leaves
<1> QED  BY <1>1, <1>4, <1>5, SameFlow DEF SignalInv, Type

LEMMA QuietSignals ==
    ASSUME ret' = None
    PROVE  SignalInv'
  BY DEF SignalInv, None, Flow!Signals

-----------------------------------------------------------------------------
(* The end of a stopped robot: what its stack may still begin.             *)

LEMMA InsistingIsFinite ==
    ASSUME NEW s \in Seq(Frames)
    PROVE  IsFiniteSet(InsistingIn(s)) /\ Cardinality(InsistingIn(s)) \in Nat
<1>1. InsistingIn(s) \subseteq 1 .. Len(s) /\ Len(s) \in Nat
  BY DEF InsistingIn
<1>2. IsFiniteSet(1 .. Len(s))
  BY <1>1, FS_Interval
<1>3. IsFiniteSet(InsistingIn(s))
  BY <1>1, <1>2, FS_Subset
<1> QED  BY <1>3, FS_CardinalityType

(* A frame on top counts for itself.                                       *)
LEMMA InsistingOnTop ==
    ASSUME NEW s \in Seq(Frames), NEW f \in Frames
    PROVE  Cardinality(InsistingIn(<<f>> \o s)) = One(Flow!Insists(f)) + Cardinality(InsistingIn(s))
<1> DEFINE t == <<f>> \o s
           A == InsistingIn(s)
           B == InsistingIn(t) \ {1}
           h == [k \in A |-> k + 1]
<1>1. /\ t \in Seq(Frames) /\ t[1] = f /\ 1 \in DOMAIN t
      /\ \A k \in DOMAIN s : k + 1 \in DOMAIN t /\ t[k+1] = s[k]
      /\ \A k \in DOMAIN t : k # 1 => k - 1 \in DOMAIN s /\ t[k] = s[k-1]
  BY Pushed
<1>2. \A k \in DOMAIN s : k \in Nat /\ k # 0
  OBVIOUS
<1>3. \A k \in DOMAIN t : k \in Nat
  BY <1>1
<1> HIDE DEF t
<1>4. A \subseteq DOMAIN s /\ B \subseteq DOMAIN t
  BY DEF InsistingIn
<1>5. \A k \in A : k + 1 \in B
  BY <1>1, <1>2, <1>4 DEF InsistingIn
<1>6. \A k \in B : k - 1 \in A
  BY <1>1, <1>4 DEF InsistingIn
<1>7. h \in Bijection(A, B)
  <2>1. h \in [A -> B]
    BY <1>5
  <2>2. \A x, y \in A : h[x] = h[y] => x = y
    BY <1>2, <1>4
  <2>3. \A y \in B : \E x \in A : h[x] = y
    <3> TAKE y \in B
    <3>1. y - 1 \in A /\ (y - 1) + 1 = y
      BY <1>3, <1>4, <1>6
    <3> QED  BY <3>1
  <2> HIDE DEF A, B, h
  <2> QED  BY <2>1, <2>2, <2>3 DEF Bijection, Injection, Surjection, IsInjective
<1>8. IsFiniteSet(A) /\ Cardinality(A) \in Nat
  BY InsistingIsFinite
<1>9. IsFiniteSet(B) /\ Cardinality(B) = Cardinality(A)
  <2> HIDE DEF A, B, h
  <2>1. ExistsBijection(A, B)
    BY <1>7 DEF ExistsBijection
  <2> QED  BY <1>8, <2>1, FS_Bijection
<1>10. CASE Flow!Insists(f)
  <2>1. InsistingIn(t) = B \cup {1} /\ 1 \notin B
    BY <1>1, <1>10 DEF InsistingIn
  <2>2. Cardinality(B \cup {1}) = Cardinality(B) + 1
    BY <1>9, <2>1, FS_AddElement
  <2>3. One(Flow!Insists(f)) = 1
    BY <1>10 DEF One
  <2>4. Cardinality(InsistingIn(t)) = One(Flow!Insists(f)) + Cardinality(A)
    <3> HIDE DEF A, B, h
    <3> QED  BY <1>8, <1>9, <2>1, <2>2, <2>3
  <2> QED  BY <2>4 DEF t
<1>11. CASE ~Flow!Insists(f)
  <2>1. InsistingIn(t) = B
    BY <1>1, <1>11 DEF InsistingIn
  <2>2. One(Flow!Insists(f)) = 0
    BY <1>11 DEF One
  <2>3. Cardinality(InsistingIn(t)) = One(Flow!Insists(f)) + Cardinality(A)
    <3> HIDE DEF A, B, h
    <3> QED  BY <1>8, <1>9, <2>1, <2>2
  <2> QED  BY <2>3 DEF t
<1> QED  BY <1>10, <1>11

LEMMA InsistingOfStack ==
    ASSUME FlowShape, stack # <<>>
    PROVE  /\ Cardinality(InsistingIn(stack)) = One(Flow!Insists(Top)) + Cardinality(InsistingIn(Tail(stack)))
           /\ Tail(stack) \in Seq(Frames) /\ Cardinality(InsistingIn(Tail(stack))) \in Nat
<1>1. stack \in Seq(Frames) /\ Top \in Frames /\ Tail(stack) \in Seq(Frames) /\ stack = <<Top>> \o Tail(stack)
  <2>1. stack \in Seq(Frames)
    BY DEF FlowShape, FlowTypes
  <2> QED  BY <2>1, TopIsFrame DEF Top
<1> QED  BY <1>1, InsistingOnTop, InsistingIsFinite

LEMMA InsistingStays ==
    ASSUME UNCHANGED name
    PROVE  InsistingIn(stack)' = InsistingIn(stack')
  BY SameFlow DEF InsistingIn, Flow!Insists

(* The invariant with the attempts that may still begin written out.       *)
LEMMA PromptFollows ==
    ASSUME FlowShape, PromptInv, FlowShape', UNCHANGED <<name, stopped, insisting>>,
           ~stopped => late' = late,
           stopped => /\ late' \in Nat
                      /\ late' + Cardinality(InsistingIn(stack'))
                              + One(stack' # <<>> /\ Running' /\ Starting(stack'[1])) <= 1 + insisting
    PROVE  PromptInv'
<1>1. InsistingIn(stack)' = InsistingIn(stack')
  BY InsistingStays
<1>2. Starting(Top)' = Starting(stack'[1])
  BY SameFlow DEF Starting, Top, Type
<1> QED  BY <1>1, <1>2 DEF PromptInv, One

LEMMA PromptMeans ==
    ASSUME FlowShape, PromptInv
    PROVE  /\ late \in Nat /\ insisting \in Nat /\ (~stopped => late = 0)
           /\ stopped => late + Cardinality(InsistingIn(stack))
                              + One(stack # <<>> /\ Running /\ Starting(Top)) <= 1 + insisting
           /\ Cardinality(InsistingIn(stack)) \in Nat
  BY InsistingIsFinite DEF FlowShape, FlowTypes, PromptInv

LEMMA EntersPrompt ==
    ASSUME FlowShape, PromptInv, FlowShape', Enters
    PROVE  PromptInv'
  BY PromptFollows DEF Enters, Kept

LEMMA RefusesPrompt ==
    ASSUME FlowShape, PromptInv, FlowShape', Refuses
    PROVE  PromptInv'
<1>1. UNCHANGED <<name, stopped, late, insisting>> /\ stack' = stack /\ ~Running /\ ~Running'
  BY DEF Refuses, Kept, Running, Flow!Signals, None
<1> QED  BY <1>1, PromptMeans, PromptFollows DEF One

LEMMA MovesPrompt ==
    ASSUME FlowShape, PromptInv, FlowShape', NEW g \in Frames, MovesTo(g)
    PROVE  PromptInv'
<1>1. UNCHANGED <<name, stopped, late, insisting>> /\ stack # <<>> /\ stack' = <<g>> \o Tail(stack)
  BY DEF MovesTo, Kept
<1>2. /\ call = None /\ g.at # "handler"
      /\ stopped /\ Starting(g) => (ret = None /\ Starting(Top)) \/ (ret # None /\ Flow!Insists(Top))
  BY DEF MovesTo
<1> DEFINE c == Cardinality(InsistingIn(Tail(stack)))
<1>3. Cardinality(InsistingIn(stack)) = One(Flow!Insists(Top)) + c /\ c \in Nat /\ Tail(stack) \in Seq(Frames)
  BY <1>1, InsistingOfStack
<1>4. Cardinality(InsistingIn(stack')) = c
  <2>1. ~Flow!Insists(g)
    BY <1>2 DEF Flow!Insists
  <2>2. One(Flow!Insists(g)) = 0
    BY <2>1 DEF One
  <2>3. Cardinality(InsistingIn(stack')) = One(Flow!Insists(g)) + c
    BY <1>1, <1>3, InsistingOnTop
  <2> QED  BY <1>3, <2>2, <2>3
<1>5. stack' # <<>> /\ stack'[1] = g
  BY <1>1, <1>3
<1>6. Flow!Insists(Top) \in BOOLEAN
  BY DEF Flow!Insists
<1>7. ASSUME stopped
      PROVE  late' + c + One(stack' # <<>> /\ Running' /\ Starting(g)) <= 1 + insisting
  <2>1. late + (One(Flow!Insists(Top)) + c) + One(stack # <<>> /\ Running /\ Starting(Top)) <= 1 + insisting
    BY <1>3, <1>7, PromptMeans
  <2>2. late \in Nat /\ insisting \in Nat
    BY PromptMeans
  <2>3. CASE ~Starting(g)
    BY <1>1, <1>3, <2>1, <2>2, <2>3 DEF One
  <2>4. CASE ret = None /\ Starting(Top)
    BY <1>1, <1>2, <1>3, <2>1, <2>2, <2>4 DEF One, Running
  <2>5. CASE ret # None /\ Flow!Insists(Top)
    BY <1>1, <1>3, <2>1, <2>2, <2>5 DEF One
  <2> QED  BY <1>2, <1>7, <2>3, <2>4, <2>5
<1> HIDE DEF c
<1> QED  BY <1>1, <1>4, <1>5, <1>7, PromptMeans, PromptFollows

LEMMA CallsPrompt ==
    ASSUME FlowShape, PromptInv, FlowShape', NEW g \in Frames, NEW id \in Flow!Ids, CallsFrom(id, g)
    PROVE  PromptInv'
<1>1. UNCHANGED <<name, stopped, late, insisting>> /\ stack # <<>> /\ stack' = <<g>> \o Tail(stack)
  BY DEF CallsFrom, Kept
<1>2. Running /\ ~Running' /\ (Flow!Insists(g) => Starting(Top))
  BY DEF CallsFrom, Running, Flow!Ids, Flow!None, None
<1> DEFINE c == Cardinality(InsistingIn(Tail(stack)))
<1>3. Cardinality(InsistingIn(stack)) = One(Flow!Insists(Top)) + c /\ c \in Nat /\ Tail(stack) \in Seq(Frames)
  BY <1>1, InsistingOfStack
<1>4. Cardinality(InsistingIn(stack')) = One(Flow!Insists(g)) + c
  BY <1>1, <1>3, InsistingOnTop
<1>5. ASSUME stopped
      PROVE  late' + (One(Flow!Insists(g)) + c) + One(stack' # <<>> /\ Running' /\ Starting(stack'[1])) <= 1 + insisting
  <2>1. late + (One(Flow!Insists(Top)) + c) + One(stack # <<>> /\ Running /\ Starting(Top)) <= 1 + insisting
    BY <1>3, <1>5, PromptMeans
  <2>2. late \in Nat /\ insisting \in Nat
    BY PromptMeans
  <2> QED  BY <1>1, <1>2, <1>3, <2>1, <2>2 DEF One
<1> HIDE DEF c
<1> QED  BY <1>1, <1>4, <1>5, PromptMeans, PromptFollows

LEMMA LeavesPrompt ==
    ASSUME FlowShape, PromptInv, FlowShape', NEW v \in Flow!Results, Leaves(v)
    PROVE  PromptInv'
<1>1. UNCHANGED <<name, stopped, late, insisting>> /\ stack # <<>> /\ stack' = Tail(stack) /\ ~Running'
  BY DEF Leaves, Running, Flow!Results, None
<1>2. /\ Cardinality(InsistingIn(stack)) = One(Flow!Insists(Top)) + Cardinality(InsistingIn(stack'))
      /\ Cardinality(InsistingIn(stack')) \in Nat
  BY <1>1, InsistingOfStack
<1>3. ASSUME stopped
      PROVE  late' + Cardinality(InsistingIn(stack')) + One(stack' # <<>> /\ Running' /\ Starting(stack'[1]))
                <= 1 + insisting
  BY <1>1, <1>2, <1>3, PromptMeans DEF One
<1> QED  BY <1>1, <1>3, PromptMeans, PromptFollows

LEMMA RecordsPrompt ==
    ASSUME FlowShape, PromptInv, FlowShape', Records
    PROVE  PromptInv'
<1>1. CASE Leaves("canceled")
  BY <1>1, LeavesPrompt DEF Flow!Results
<1>2. ASSUME NEW g \in Frames, stack' = <<g>> \o Tail(stack), g.at = "listens" \/ (g.at = "failed" /\ ~stopped)
      PROVE  PromptInv'
  <2>1. UNCHANGED <<name, stopped, late, insisting>> /\ stack # <<>>
    BY DEF Records
  <2> DEFINE c == Cardinality(InsistingIn(Tail(stack)))
  <2>2. Cardinality(InsistingIn(stack)) = One(Flow!Insists(Top)) + c /\ c \in Nat /\ Tail(stack) \in Seq(Frames)
    BY <2>1, InsistingOfStack
  <2>3. Cardinality(InsistingIn(stack')) = c /\ stack'[1] = g
    <3>1. ~Flow!Insists(g)
      BY <1>2 DEF Flow!Insists
    <3>2. One(Flow!Insists(g)) = 0
      BY <3>1 DEF One
    <3>3. Cardinality(InsistingIn(stack')) = One(Flow!Insists(g)) + c
      BY <1>2, <2>2, InsistingOnTop
    <3>4. stack'[1] = g
      BY <1>2, <2>2
    <3> QED  BY <2>2, <3>2, <3>3, <3>4
  <2>4. stopped => ~Starting(g)
    BY <1>2 DEF Starting
  <2>5. stopped => late' + c + One(stack' # <<>> /\ Running' /\ Starting(g)) <= 1 + insisting
    BY <2>1, <2>2, <2>4, PromptMeans DEF One
  <2> HIDE DEF c
  <2> QED  BY <2>1, <2>3, <2>5, PromptMeans, PromptFollows
<1> QED  BY <1>1, <1>2 DEF Records

LEMMA AttemptPrompt ==
    ASSUME FlowShape, PromptInv, FlowShape', Flow!ExecuteAction
    PROVE  PromptInv'
<1>1. /\ Running /\ stack # <<>> /\ Type(Top) = "action" /\ Top.at = "execute"
      /\ UNCHANGED <<name, call, ret, stopped, insisting, broken>>
      /\ stack' \in Seq(Frames) /\ DOMAIN stack' = DOMAIN stack
      /\ \A k \in DOMAIN stack :
            /\ stack'[k].node = stack[k].node /\ stack'[k].i = stack[k].i
            /\ stack'[k].at = IF k = 1 THEN "attempt" ELSE stack[k].at
  BY AttemptOpened
<1>2. late' = IF stopped THEN late + 1 ELSE late
  BY DEF Flow!ExecuteAction
<1>3. 1 \in DOMAIN stack /\ Top = stack[1] /\ stack'[1].at = "attempt"
  BY <1>1, TopIsFrame DEF Top, FlowShape
<1>4. Starting(Top) /\ ~Starting(stack'[1])
  BY <1>1, <1>3 DEF Starting
<1>5. InsistingIn(stack') = InsistingIn(stack)
  <2>1. \A k \in DOMAIN stack : Flow!Insists(stack'[k]) <=> Flow!Insists(stack[k])
    BY <1>1, <1>3 DEF Flow!Insists, Top
  <2> QED  BY <1>1, <2>1 DEF InsistingIn
<1>6. stopped => late' + Cardinality(InsistingIn(stack')) + One(stack' # <<>> /\ Running' /\ Starting(stack'[1]))
                    <= 1 + insisting
  BY <1>1, <1>2, <1>4, <1>5, PromptMeans DEF One
<1> QED  BY <1>1, <1>2, <1>6, PromptMeans, PromptFollows

-----------------------------------------------------------------------------
(* The invariant of a flow, step by step.                                  *)

LEMMA FlowInit ==
    ASSUME Flow!Init
    PROVE  FlowInv
<1> USE DEF None, Flow!None
<1>1. /\ name \in DOMAIN Flows /\ stack = <<>> /\ call = "main" /\ ret = None /\ stopped = FALSE
      /\ executing = 0 /\ late = 0 /\ insisting = 0
      /\ broken.missing = {} /\ broken.twice = {}
  BY DEF Flow!Init
<1>2. FlowTypes /\ PositionInv /\ GaugeInv
  <2>1. stack \in Seq(Frames) /\ DOMAIN stack = {}
    BY <1>1
  <2>2. FlowTypes
    BY <1>1, <2>1 DEF FlowTypes
  <2>3. PositionInv
    BY <1>1, <2>1 DEF PositionInv
  <2>4. GaugeInv
    BY <1>1 DEF GaugeInv
  <2> QED  BY <2>2, <2>3, <2>4
<1>3. SampleInv /\ BrokenInv /\ SignalInv /\ PromptInv
  BY <1>1 DEF SampleInv, BrokenInv, SignalInv, Flow!Signals, PromptInv
<1>4. OpenInv
  BY <1>1 DEF OpenInv, Flow!Uncaught
<1> QED  BY <1>2, <1>3, <1>4 DEF FlowInv

LEMMA FlowStep ==
    ASSUME FlowInv, Flow!Run
    PROVE  FlowInv'
<1> USE DEF FlowInv
<1>1. FlowShape
  BY DEF FlowShape
<1>2. CASE Enters
  <2>1. FlowShape' /\ GaugeInv'
    BY <1>1, <1>2, EntersPlaced
  <2>2. SampleInv' /\ OpenInv' /\ PromptInv'
    BY <1>1, <1>2, <2>1, EntersSamples, EntersOpen, EntersPrompt
  <2>3. SignalInv' /\ BrokenInv'
    BY <1>2, QuietSignals DEF Enters, Kept, BrokenInv
  <2> QED  BY <2>1, <2>2, <2>3 DEF FlowShape
<1>3. CASE Refuses
  <2>1. FlowShape' /\ GaugeInv'
    BY <1>1, <1>3, RefusesPlaced
  <2>2. SampleInv' /\ SignalInv' /\ PromptInv'
    BY <1>1, <1>3, <2>1, RefusesSamples, RefusesSignals, RefusesPrompt
  <2>3. OpenInv'
    BY <1>1, <1>3, SameNodesOpen DEF Refuses, Kept
  <2>4. BrokenInv'
    BY <1>3 DEF Refuses, Kept, BrokenInv
  <2> QED  BY <2>1, <2>2, <2>3, <2>4 DEF FlowShape
<1>4. ASSUME NEW g \in Frames, MovesTo(g)
      PROVE  FlowInv'
  <2>1. FlowShape' /\ GaugeInv'
    BY <1>1, <1>4, MovesPlaced
  <2>2. SampleInv' /\ PromptInv'
    BY <1>1, <1>4, <2>1, MovesSamples, MovesPrompt
  <2>3. OpenInv'
    BY <1>1, <1>4, ReplacesOpen DEF MovesTo, Kept
  <2>4. SignalInv' /\ BrokenInv'
    BY <1>4, QuietSignals DEF MovesTo, Kept, BrokenInv
  <2> QED  BY <2>1, <2>2, <2>3, <2>4 DEF FlowShape
<1>5. ASSUME NEW g \in Frames, NEW id \in Flow!Ids, CallsFrom(id, g)
      PROVE  FlowInv'
  <2>1. FlowShape' /\ GaugeInv'
    BY <1>1, <1>5, CallsPlaced
  <2>2. SampleInv' /\ PromptInv'
    BY <1>1, <1>5, <2>1, CallsSamples, CallsPrompt
  <2>3. OpenInv'
    BY <1>1, <1>5, ReplacesOpen DEF CallsFrom, Kept
  <2>4. SignalInv' /\ BrokenInv'
    BY <1>5, QuietSignals DEF CallsFrom, Kept, BrokenInv
  <2> QED  BY <2>1, <2>2, <2>3, <2>4 DEF FlowShape
<1>6. ASSUME NEW v \in Flow!Results, Returns(v)
      PROVE  FlowInv'
  <2>1. FlowShape' /\ GaugeInv' /\ Leaves(v)
    BY <1>1, <1>6, ReturnsPlaced DEF Returns
  <2>2. SampleInv' /\ PromptInv' /\ OpenInv' /\ SignalInv'
    BY <1>1, <2>1, LeavesSamples, LeavesPrompt, LeavesOpen, LeavesSignals
  <2>3. BrokenInv'
    BY <1>1, <1>6, CutShortIsExact DEF Returns, Leaves, BrokenInv
  <2> QED  BY <2>1, <2>2, <2>3 DEF FlowShape
<1>7. CASE Records
  <2>1. FlowShape' /\ GaugeInv'
    BY <1>1, <1>7, RecordsPlaced
  <2>2. SampleInv' /\ PromptInv'
    BY <1>1, <1>7, <2>1, RecordsSamples, RecordsPrompt
  <2>3. BrokenInv'
    BY <1>7 DEF Records, BrokenInv
  <2>4. CASE Leaves("canceled")
    <3>1. OpenInv' /\ SignalInv'
      BY <1>1, <2>4, LeavesOpen, LeavesSignals DEF Flow!Results
    <3> QED  BY <2>1, <2>2, <2>3, <3>1 DEF FlowShape
  <2>5. ASSUME NEW g \in Frames, stack' = <<g>> \o Tail(stack), call' = None, ret' = None, g.node = Top.node
        PROVE  FlowInv'
    <3>1. OpenInv'
      BY <1>1, <1>7, <2>5, ReplacesOpen DEF Records
    <3>2. SignalInv'
      BY <2>5, QuietSignals
    <3> QED  BY <2>1, <2>2, <2>3, <3>1, <3>2 DEF FlowShape
  <2> QED  BY <1>7, <2>4, <2>5 DEF Records
<1>8. CASE Flow!ExecuteAction
  <2>1. FlowShape' /\ GaugeInv'
    BY <1>1, <1>8, AttemptPlaced
  <2>2. SampleInv' /\ PromptInv'
    BY <1>1, <1>8, <2>1, AttemptSamples, AttemptPrompt
  <2>3. OpenInv'
    BY <1>1, <1>8, AttemptOpened, SameNodesOpen DEF Running
  <2>4. SignalInv' /\ BrokenInv'
    BY <1>1, <1>8, AttemptOpened, QuietSignals DEF Running, BrokenInv
  <2> QED  BY <2>1, <2>2, <2>3, <2>4 DEF FlowShape
<1> QED  BY <1>1, <1>2, <1>3, <1>4, <1>5, <1>6, <1>7, <1>8, RunShapes DEF Shapes

(* A cancellation counts what insists, and nothing else changes.           *)
LEMMA FlowCancel ==
    ASSUME FlowInv, Flow!Cancel
    PROVE  FlowInv'
<1>1. /\ ~stopped /\ stopped' = TRUE /\ UNCHANGED <<name, stack, call, ret, executing, late, broken>>
      /\ insisting' = Cardinality(InsistingIn(stack))
  <2>1. insisting' = Cardinality(InsistingIn(stack))
    BY Zenon DEF Flow!Cancel, InsistingIn, Cardinality, Flow!Cardinality
  <2> QED  BY <2>1 DEF Flow!Cancel
<1>2. N' = N /\ Frames' = Frames /\ Flow!Nodes' = Flow!Nodes
  BY <1>1, SameFlow
<1>3. stack \in Seq(Frames) /\ late = 0
  BY <1>1 DEF FlowInv, FlowTypes, PromptInv
<1>4. Cardinality(InsistingIn(stack)) \in Nat
  BY <1>3, InsistingIsFinite
<1>5. FlowTypes'
  BY <1>1, <1>2, <1>4 DEF FlowInv, FlowTypes
<1>6. PositionInv' /\ GaugeInv' /\ BrokenInv'
  <2>1. PositionInv'
    BY <1>1, PositionStays DEF FlowInv, FlowShape
  <2>2. GaugeInv'
    BY <1>1 DEF FlowInv, GaugeInv, Top
  <2>3. BrokenInv'
    BY <1>1 DEF FlowInv, BrokenInv
  <2> QED  BY <2>1, <2>2, <2>3
<1>7. SampleInv'
  <2>1. FlowShape
    BY DEF FlowInv, FlowShape
  <2>2. \A k \in DOMAIN stack : k # 1 => k > 1
    BY <1>3
  <2> QED  BY <1>1, <2>2, SampleFollows DEF FlowInv, SampleInv, Running, Top
<1>8. OpenInv'
  BY <1>1, OpenFollows DEF FlowInv, OpenFor
<1>9. SignalInv'
  BY <1>1, <1>2 DEF FlowInv, SignalInv, Type
<1>10. PromptInv'
  <2>1. InsistingIn(stack)' = InsistingIn(stack)
    BY <1>1, InsistingStays
  <2> QED  BY <1>1, <1>3, <1>4, <2>1 DEF PromptInv, One
<1> QED  BY <1>5, <1>6, <1>7, <1>8, <1>9, <1>10 DEF FlowInv


LEMMA FlowRests ==
    ASSUME FlowInv, UNCHANGED flowVars
    PROVE  FlowInv'
<1>1. /\ UNCHANGED <<name, stack, call, ret, stopped, executing, late, insisting, broken>>
  BY DEF flowVars
<1>2. N' = N /\ Frames' = Frames /\ Flow!Nodes' = Flow!Nodes
  BY <1>1, SameFlow
<1>3. FlowTypes' /\ PositionInv' /\ GaugeInv' /\ BrokenInv'
  <2>1. FlowTypes'
    BY <1>1, <1>2 DEF FlowInv, FlowTypes
  <2>2. PositionInv'
    BY <1>1, PositionStays DEF FlowInv, FlowShape
  <2>3. GaugeInv'
    BY <1>1 DEF FlowInv, GaugeInv, Top
  <2>4. BrokenInv'
    BY <1>1 DEF FlowInv, BrokenInv
  <2> QED  BY <2>1, <2>2, <2>3, <2>4
<1>4. SampleInv'
  <2>1. \A k \in DOMAIN stack : k # 1 => k > 1
    BY DEF FlowInv, FlowTypes
  <2> QED  BY <1>1, <2>1, SampleFollows DEF FlowInv, SampleInv, Running, Top
<1>5. OpenInv'
  BY <1>1, OpenFollows DEF FlowInv, OpenFor
<1>6. SignalInv'
  BY <1>1, <1>2 DEF FlowInv, SignalInv, Type
<1>7. PromptInv'
  <2>1. FlowShape /\ FlowShape' /\ PromptInv
    BY <1>3 DEF FlowShape, FlowInv
  <2> QED  BY <1>1, <2>1, PromptMeans, PromptFollows DEF Running, Top
<1> QED  BY <1>3, <1>4, <1>5, <1>6, <1>7 DEF FlowInv

-----------------------------------------------------------------------------
(* What the invariant says of the properties.                              *)

LEMMA FlowInvIsExact ==
    ASSUME FlowInv
    PROVE  FlowIsExact
<1> USE DEF None, Flow!None
<1>1. FlowShape /\ stack \in Seq(Frames)
  BY DEF FlowInv, FlowShape, FlowTypes
<1>2. Flow!TypeOK
  <2>1. \A k \in DOMAIN stack : stack[k].node \in DOMAIN N
    <3>1. \A k \in DOMAIN stack : stack[k] \in Frames
      BY <1>1, PositionMeans
    <3> QED  BY <3>1 DEF Frames
  <2> QED  BY <1>1, <2>1 DEF FlowShape, FlowTypes, Flow!TypeOK, Flow!Nodes, Flow!flow, N
<1>3. Flow!GaugeIsExact
  <2> DEFINE A == {k \in DOMAIN stack : stack[k].at \in Flow!Attempting}
  <2>1. \A k \in DOMAIN stack : k # 1 => stack[k].at \notin Flow!Attempting
    BY <1>1, PositionMeans, WaitingFrame
  <2>2. executing = Cardinality(A)
    <3>1. CASE stack # <<>> /\ Top.at \in Flow!Attempting
      <4>1. A = {1}
        BY <1>1, <2>1, <3>1 DEF Top
      <4> QED  BY <3>1, <4>1, FS_Singleton DEF FlowInv, GaugeInv
    <3>2. CASE ~(stack # <<>> /\ Top.at \in Flow!Attempting)
      <4>1. A = {}
        BY <1>1, <2>1, <3>2 DEF Top
      <4> QED  BY <3>2, <4>1, FS_EmptySet DEF FlowInv, GaugeInv
    <3> QED  BY <3>1, <3>2
  <2> QED  BY <2>2, Zenon DEF Flow!GaugeIsExact, Cardinality, Flow!Cardinality
<1>4. Flow!SamplesAreContinuous
  <2>1. broken.twice = {}
    BY DEF FlowInv, BrokenInv
  <2>2. PICK m : broken.missing \subseteq {m}
    BY DEF FlowInv, BrokenInv
  <2>3. broken.missing = {} \/ broken.missing = {m}
    BY <2>2
  <2>4. Cardinality(broken.missing) <= 1
    <3>1. CASE broken.missing = {}
      BY <3>1, FS_EmptySet
    <3>2. CASE broken.missing = {m}
      <4>1. Cardinality({m}) = 1
        BY FS_Singleton
      <4> QED  BY <3>2, <4>1
    <3> QED  BY <2>3, <3>1, <3>2
  <2>5. Flow!Cardinality(broken.missing) = Cardinality(broken.missing)
    BY Zenon DEF Cardinality, Flow!Cardinality
  <2> QED  BY <2>1, <2>4, <2>5 DEF Flow!SamplesAreContinuous
<1>5. Flow!SignalsAreConfined
  BY DEF FlowInv, SignalInv, Flow!SignalsAreConfined, Flow!Done, Flow!flow
<1> QED  BY <1>2, <1>3, <1>4, <1>5 DEF FlowIsExact, Flow!FlowIsExact

LEMMA FlowInvStopsPromptly ==
    ASSUME FlowInv
    PROVE  PromptStop
<1>1. late \in Nat /\ insisting \in Nat /\ Cardinality(InsistingIn(stack)) \in Nat
      /\ (~stopped => late = 0)
      /\ (stopped => late + Cardinality(InsistingIn(stack)) + One(stack # <<>> /\ Running /\ Starting(Top))
                        <= 1 + insisting)
  BY PromptMeans DEF FlowInv, FlowShape, FlowTypes
<1> QED  BY <1>1 DEF PromptStop, Flow!PromptStop, FlowInv, FlowTypes, One

(* The invariant of a flow holds in every flow that can be decoded, for    *)
(* every way its conditions, its actions and the cancellation fall         *)
(* (engine/executor.go, robot/robot.go).                                   *)
THEOREM FlowInductive == Flow!Spec => []FlowInv
<1>1. Flow!Init => FlowInv
  BY FlowInit
<1>2. FlowInv /\ [Flow!Next]_(Flow!vars) => FlowInv'
  <2> SUFFICES ASSUME FlowInv, [Flow!Next]_(Flow!vars)
               PROVE  FlowInv'
    OBVIOUS
  <2>1. CASE Flow!Cancel
    BY <2>1, FlowCancel
  <2>2. CASE Flow!Run
    BY <2>2, FlowStep
  <2>3. CASE UNCHANGED flowVars
    BY <2>3, FlowRests
  <2> QED
    BY <2>1, <2>2, <2>3 DEF Flow!Next, Flow!Finished, Flow!vars, flowVars
<1> QED  BY <1>1, <1>2, PTL DEF Flow!Spec

(* However a flow is cut short, it leaves an exact gauge of running        *)
(* actions, no action of a broken sequence counted twice and at most one   *)
(* lost, and no signal that something around it would have caught          *)
(* (engine/executor.go, robot/robot.go).                                   *)
THEOREM FlowLeavesExact == Flow!Spec => []FlowIsExact
<1> QED  BY FlowInductive, FlowInvIsExact, PTL

(* A stopped robot begins one more attempt at most, and one more for each  *)
(* retry that waited for its handler, in every flow: whatever the depth of *)
(* its handlers, the number of its retries and the length of its delays    *)
(* (engine/executor.go, robot/robot.go).                                   *)
THEOREM FlowStopsPromptly == Flow!Spec => []PromptStop
<1> QED  BY FlowInductive, FlowInvStopsPromptly, PTL

-----------------------------------------------------------------------------
(* The bundle cache.                                                       *)
(*                                                                         *)
(* BundleIsWhole speaks of the agents that Ensure has returned to.  What   *)
(* makes it inductive is what every step of Ensure may rely on: a          *)
(* directory under the published name is whole or absent, because it gets  *)
(* that name only from a temporary directory with all its entries; those   *)
(* entries are right because the archive was checked when the unpacking    *)
(* began and nothing touches an archive that is being unpacked; and an     *)
(* agent whose Ensure is under way has not been given a directory, so that *)
(* the removal of an old one takes nothing from anybody.                   *)

Whole == [i \in 1..Bundle!Complete |-> TRUE]
Places == {"idle", "open", "request", "receive", "extract", "publish"}

\* The types the proof needs, and no directory between absent and whole.
CacheTypes ==
    /\ ensurePc \in [BundleAgents -> Places]
    /\ ensured \in [BundleAgents -> BOOLEAN]
    /\ tmp \in [BundleAgents -> Seq(BOOLEAN)]
    /\ DOMAIN archive = BundleAgents
    /\ dir \in [BundleAgents -> {Bundle!NoFile, Whole}]

\* What an agent's Ensure has made sure of at the place where it is.
Secured(a) ==
    /\ ensurePc[a] # "idle" => ~ ensured[a]
    /\ ensurePc[a] = "extract" =>
         /\ Bundle!Good(archive[a])
         /\ Len(tmp[a]) <= Bundle!Complete
         /\ \A i \in 1..Len(tmp[a]) : tmp[a][i]
    /\ ensurePc[a] = "publish" => tmp[a] = Whole
    /\ ensurePc[a] \notin {"extract", "publish"} => tmp[a] = <<>>
    /\ ensured[a] => dir[a] = Whole

CacheInv == CacheTypes /\ \A a \in BundleAgents : Secured(a)

-----------------------------------------------------------------------------
\* A directory that has its mark is whole (the test of .ready in Ensure).
LEMMA PublishedIsWhole ==
    ASSUME CacheTypes, NEW a \in BundleAgents, Bundle!Published(a)
    PROVE  dir[a] = Whole
BY DEF CacheTypes, Bundle!Published

\* A sequence with as many entries as the bundle, all of them right, is the
\* whole directory (the rename of extractBundle).
LEMMA AllEntriesAreWhole ==
    ASSUME Size \in Nat, NEW s \in Seq(BOOLEAN), Len(s) = Bundle!Complete,
           \A i \in 1..Len(s) : s[i]
    PROVE  s = Whole
<1>1. s \in [1..Bundle!Complete -> BOOLEAN]  OBVIOUS
<1>2. \A i \in 1..Bundle!Complete : s[i] = TRUE  BY <1>1
<1> QED  BY <1>1, <1>2 DEF Whole

\* An archive whose digest was checked is the one of the bundle.
LEMMA VerifiedIsGood == ASSUME NEW f, Bundle!Verified(f) PROVE Bundle!Good(f)
BY DEF Bundle!Verified

\* A step that leaves an agent's part of the state alone keeps what its Ensure
\* has made sure of.
LEMMA OthersKeep ==
    ASSUME NEW b \in BundleAgents, Secured(b),
           ensurePc'[b] = ensurePc[b], ensured'[b] = ensured[b], tmp'[b] = tmp[b], dir'[b] = dir[b],
           archive'[b] = archive[b]
    PROVE  Secured(b)'
BY DEF Secured, Bundle!Good, Whole, Bundle!Complete

-----------------------------------------------------------------------------
\* Every step of Ensure, of the admin and of the environment keeps CacheInv.
LEMMA CacheStep ==
    ASSUME Size \in Nat, CacheInv, [Bundle!Next]_(Bundle!vars)
    PROVE  CacheInv'
<1> USE DEF CacheInv
<1> Whole' = Whole  BY DEF Whole, Bundle!Complete
<1> Bundle!NoFile' = Bundle!NoFile  BY DEF Bundle!NoFile
<1>1. CASE UNCHANGED <<ensurePc, ensured, tmp, archive, dir>>
  <2>1. CacheTypes'  BY <1>1 DEF CacheTypes
  <2>2. \A b \in BundleAgents : Secured(b)'  BY <1>1, OthersKeep
  <2> QED  BY <2>1, <2>2
<1>2. ASSUME NEW a \in BundleAgents,
             Bundle!Ensure(a) \/ Bundle!Interrupted(a) \/ Bundle!Crash(a) \/ Bundle!Spoil(a)
      PROVE  CacheInv'
  <2> Secured(a)  OBVIOUS
  <2>1. CASE Bundle!EnsureBegin(a)
    <3>1. CacheTypes'  BY <2>1 DEF Bundle!EnsureBegin, CacheTypes, Bundle!Goto, Places
    <3>2. Secured(a)'
      <4>1. CASE Bundle!Published(a) /\ ensured' = [ensured EXCEPT ![a] = TRUE] /\ UNCHANGED <<ensurePc, archive>>
        BY <2>1, <4>1, PublishedIsWhole DEF Bundle!EnsureBegin, Secured, CacheTypes
      <4>2. CASE ~Bundle!Published(a) /\ Bundle!Verified(archive[a]) /\ Bundle!Goto(a, "extract")
                   /\ UNCHANGED <<ensured, archive>>
        <5>1. Bundle!Good(archive'[a]) /\ tmp'[a] = <<>> /\ ~ensured'[a] /\ ensurePc'[a] = "extract"
          BY <2>1, <4>2, VerifiedIsGood DEF Bundle!EnsureBegin, Secured, CacheTypes, Bundle!Goto
        <5> QED  BY <5>1 DEF Secured, Bundle!Good, Bundle!Complete
      <4>3. CASE /\ ~Bundle!Published(a) /\ ~Bundle!Verified(archive[a])
                 /\ archive' = [archive EXCEPT ![a] = Bundle!NoFile]
                 /\ Bundle!Goto(a, "open") /\ UNCHANGED ensured
        BY <2>1, <4>3 DEF Bundle!EnsureBegin, Secured, CacheTypes, Bundle!Goto
      <4> QED  BY <2>1, <4>1, <4>2, <4>3 DEF Bundle!EnsureBegin
    <3>3. \A b \in BundleAgents \ {a} : Secured(b)'
      BY <2>1, OthersKeep DEF Bundle!EnsureBegin, CacheTypes, Bundle!Goto
    <3> QED  BY <3>1, <3>2, <3>3
  <2>2. CASE Bundle!DownloadOpen(a) \/ Bundle!StreamOpen(a) \/ Bundle!Interrupted(a)
    <3>1. UNCHANGED <<ensured, tmp, archive, dir>> /\ ensurePc[a] \in {"open", "request", "receive"}
          /\ \E p \in {"request", "receive", "idle"} : ensurePc' = [ensurePc EXCEPT ![a] = p]
      BY <2>2 DEF Bundle!DownloadOpen, Bundle!StreamOpen, Bundle!Interrupted, Bundle!Goto, Bundle!diskVars
    <3>2. CacheTypes'  BY <3>1 DEF CacheTypes, Places
    <3>3. Secured(a)'  BY <3>1 DEF Secured, CacheTypes
    <3>4. \A b \in BundleAgents \ {a} : Secured(b)'  BY <3>1, OthersKeep DEF CacheTypes
    <3> QED  BY <3>2, <3>3, <3>4
  <2>3. CASE Bundle!Receive(a)
    BY <2>3, <1>1 DEF Bundle!Receive
  <2>4. CASE Bundle!Received(a)
    <3>1. CacheTypes'  BY <2>4 DEF Bundle!Received, CacheTypes, Bundle!Goto, Places
    <3>2. Secured(a)'
      <4>1. CASE Bundle!Verified(download[a]) /\ archive' = [archive EXCEPT ![a] = download[a]]
                   /\ Bundle!Goto(a, "extract")
        <5>1. Bundle!Good(archive'[a]) /\ tmp'[a] = <<>> /\ ~ensured'[a] /\ ensurePc'[a] = "extract"
          BY <2>4, <4>1, VerifiedIsGood DEF Bundle!Received, Secured, CacheTypes, Bundle!Goto
        <5> QED  BY <5>1 DEF Secured, Bundle!Good, Bundle!Complete
      <4>2. CASE ensurePc' = [ensurePc EXCEPT ![a] = IF retry[a] THEN "open" ELSE "idle"]
        BY <2>4, <4>2 DEF Bundle!Received, Secured, CacheTypes
      <4> QED  BY <2>4, <4>1, <4>2 DEF Bundle!Received, Bundle!Goto
    <3>3. \A b \in BundleAgents \ {a} : Secured(b)'
      BY <2>4, OthersKeep DEF Bundle!Received, CacheTypes, Bundle!Goto
    <3> QED  BY <3>1, <3>2, <3>3
  <2>5. CASE Bundle!Extract(a)
    <3> DEFINE s == tmp[a]
    <3>1. s \in Seq(BOOLEAN) /\ tmp' = [tmp EXCEPT ![a] = Append(s, TRUE)]
          /\ UNCHANGED <<ensurePc, ensured, archive, dir>> /\ ensurePc[a] = "extract" /\ Len(s) < Bundle!Complete
      BY <2>5 DEF Bundle!Extract, CacheTypes, Secured
    <3>2. Append(s, TRUE) \in Seq(BOOLEAN)  BY <3>1
    <3>3. CacheTypes'  BY <3>1, <3>2 DEF CacheTypes
    <3>4. Secured(a)'
      <4>1. tmp'[a] = Append(s, TRUE)  BY <3>1 DEF CacheTypes
      <4>2. Len(tmp'[a]) <= Bundle!Complete  BY <3>1, <4>1 DEF Bundle!Complete
      <4>3. \A i \in 1..Len(tmp'[a]) : tmp'[a][i]  BY <3>1, <4>1 DEF Secured
      <4>4. Bundle!Good(archive'[a])  BY <3>1 DEF Secured
      <4> QED  BY <3>1, <4>2, <4>3, <4>4 DEF Secured, Bundle!Good, Bundle!Complete
    <3>5. \A b \in BundleAgents \ {a} : Secured(b)'  BY <3>1, OthersKeep DEF CacheTypes
    <3> QED  BY <3>3, <3>4, <3>5
  <2>6. CASE Bundle!RemoveOld(a)
    <3>1. CacheTypes'  BY <2>6 DEF Bundle!RemoveOld, CacheTypes, Bundle!Goto, Places
    <3>2. Secured(a)'
      <4>1. tmp[a] = Whole
        BY <2>6, AllEntriesAreWhole DEF Bundle!RemoveOld, CacheTypes, Secured
      <4> QED  BY <2>6, <4>1 DEF Bundle!RemoveOld, CacheTypes, Secured, Bundle!Goto
    <3>3. \A b \in BundleAgents \ {a} : Secured(b)'
      BY <2>6, OthersKeep DEF Bundle!RemoveOld, CacheTypes, Bundle!Goto
    <3> QED  BY <3>1, <3>2, <3>3
  <2>7. CASE Bundle!Publish(a)
    <3>1. tmp[a] = Whole  BY <2>7 DEF Bundle!Publish, Secured
    <3>2. CacheTypes'  BY <2>7, <3>1 DEF Bundle!Publish, CacheTypes, Bundle!Goto, Places
    <3>3. Secured(a)'  BY <2>7, <3>1 DEF Bundle!Publish, CacheTypes, Secured, Bundle!Goto
    <3>4. \A b \in BundleAgents \ {a} : Secured(b)'
      BY <2>7, OthersKeep DEF Bundle!Publish, CacheTypes, Bundle!Goto
    <3> QED  BY <3>2, <3>3, <3>4
  <2>8. CASE Bundle!Crash(a)
    <3>1. CacheTypes'  BY <2>8 DEF Bundle!Crash, CacheTypes, Bundle!Goto, Places
    <3>2. Secured(a)'  BY <2>8 DEF Bundle!Crash, CacheTypes, Secured, Bundle!Goto
    <3>3. \A b \in BundleAgents \ {a} : Secured(b)'
      BY <2>8, OthersKeep DEF Bundle!Crash, CacheTypes, Bundle!Goto
    <3> QED  BY <3>1, <3>2, <3>3
  <2>9. CASE Bundle!Spoil(a)
    <3>1. CacheTypes'  BY <2>9 DEF Bundle!Spoil, CacheTypes
    <3>2. Secured(a)'  BY <2>9 DEF Bundle!Spoil, CacheTypes, Secured
    <3>3. \A b \in BundleAgents \ {a} : Secured(b)'
      BY <2>9, OthersKeep DEF Bundle!Spoil, CacheTypes
    <3> QED  BY <3>1, <3>2, <3>3
  <2> QED
    BY <1>2, <2>1, <2>2, <2>3, <2>4, <2>5, <2>6, <2>7, <2>8, <2>9 DEF Bundle!Ensure
<1>3. CASE Bundle!BuildWrite \/ Bundle!BuildPublish
  BY <1>1, <1>3 DEF Bundle!BuildWrite, Bundle!BuildPublish, Bundle!diskVars
<1>4. CASE UNCHANGED Bundle!vars
  BY <1>1, <1>4 DEF Bundle!vars
<1> QED  BY <1>2, <1>3, <1>4 DEF Bundle!Next

-----------------------------------------------------------------------------

(* BundleIsWhole for every set of agents, every size of the bundle, any    *)
(* number of streams and any number of faults: wherever a download broke   *)
(* off, an agent crashed or a kept file was spoiled, Ensure                *)
(* (agent/bundle/cache.go) returns a directory unpacked in full from an    *)
(* archive whose digest was checked.                                       *)
THEOREM CacheBundleIsWhole == Bundle!Spec => []BundleIsWhole
<1>1. Bundle!Init => CacheInv
  BY DEF Bundle!Init, CacheInv, CacheTypes, Secured, Places
<1>2. CacheInv /\ [Bundle!Next]_(Bundle!vars) => CacheInv'
  BY CacheStep, AgentAssumption
<1>3. CacheInv => BundleIsWhole
  BY DEF CacheInv, Secured, BundleIsWhole, Bundle!BundleIsWhole, Whole
<1> QED  BY <1>1, <1>2, <1>3, PTL DEF Bundle!Spec
=============================================================================
