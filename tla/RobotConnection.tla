-------------------------- MODULE RobotConnection --------------------------
(***************************************************************************)
(* One robot and the connections it makes to one service: the goroutine     *)
(* that owns the robot (robot/scheduler.go, script/coroutine.go), the dial   *)
(* job, the pump of every connection (network/connection.go), the gnet      *)
(* event loop (network/gnet.go) and the clean-up of the robot.              *)
(*                                                                          *)
(* The owner runs one action script, a list of calls.  While it waits in    *)
(* a call it runs the callbacks of the mailbox in place, and a callback is   *)
(* itself a script that may wait: the waits form a stack.  A deadline may    *)
(* pass whenever somebody waits for it.  A frame is an answer, named by its  *)
(* request, a "push" for the cached listener or a "call" for the listener    *)
(* with a callback; how frames are cut and decoded is left out.  The pump    *)
(* takes up to sixteen frames before it looks at its other channels; here    *)
(* it may look after each.                                                   *)
(***************************************************************************)
EXTENDS Integers, Sequences, FiniteSets

CONSTANTS
    Plans,       \* what the robot does: records of the action script, the
                 \* script of the callback, the kind of heartbeat the codec
                 \* configures, the transport, the pushes of the server, and
                 \* the faults that may happen
    MaxConns,    \* bound: connections a plan makes at most
    InboundCap,  \* inboundChSize
    MailboxCap,  \* robotTaskQueueSize
    QueueSize,   \* queueSize of the cached listener
    ControlCap,  \* controlChSize
    MaxIdle      \* maxIdleTrampThreads

ASSUME CapacityAssumption ==
    /\ MaxConns \in Nat /\ InboundCap \in Nat /\ MailboxCap \in Nat /\ MaxIdle \in Nat
    /\ QueueSize \in Nat \ {0} /\ ControlCap \in Nat \ {0}

\* The calls of a script.
Ops == {"connect", "listeners", "listen", "request", "sleep", "key", "emptykey", "close", "raise"}

ASSUME PlanAssumption ==
    \A p \in Plans :
      /\ p.heartbeat \in {"none", "plain", "keyed"}
      /\ p.script \in Seq(Ops) /\ p.callback \in Seq(Ops) /\ p.pushes \in Seq({"push", "call"})
      /\ Cardinality({i \in DOMAIN p.script : p.script[i] = "connect"}) <= MaxConns

VARIABLES plan,
          conns,      \* the connections made so far
          cur,        \* the connection in client.tcpConn (0 for none)
          reqs,       \* the PendingRequests so far
          frames,     \* pushes sent by the server so far
          stack,      \* the scripts the owner is in, the innermost last
          idle, top,  \* ctx.trampThreads and ctx.topThread
          refused,    \* history: an await was refused for its thread
          job,        \* the dial job
          mailbox,    \* s.taskCh
          ran,        \* callbacks run so far
          pending,    \* r.pendingHeartbeats has the service
          cancelled,  \* r.ctx
          exec,       \* the executor goroutine
          clean,      \* the clean-up
          closing,    \* the connections CloseAllWithTimeout took
          monitor     \* the connection counters of the monitor

owner == <<stack, idle, top, refused>>
vars == <<plan, conns, cur, reqs, frames, owner, job, mailbox, ran, pending,
          cancelled, exec, clean, closing, monitor>>

Fault(f) == f \in plan.faults
Conns == DOMAIN conns
NoWait == [kind |-> "none", pt |-> "none", id |-> 0]
Waiting(kind, pt, id) == [kind |-> kind, pt |-> pt, id |-> id]
None == [pt |-> "none", conn |-> 0]
Threads == 1 .. Len(stack) + 1    \* one more than are in use

\* A new Connection: not closed, nothing registered, no pump.
NewConnection ==
    [closed |-> FALSE, ctx |-> FALSE, gnet |-> "none", pump |-> "off",
     inb |-> <<>>, ctl |-> <<>>, hb |-> FALSE, key |-> FALSE, resp |-> 0,
     listens |-> FALSE, queue |-> <<>>, token |-> FALSE, pub |-> <<>>,
     closedEv |-> [set |-> FALSE, occurred |-> FALSE, delivered |-> 0],
     dropEv |-> [set |-> FALSE, occurred |-> FALSE, delivered |-> 0],
     established |-> FALSE, peer |-> FALSE, empty |-> FALSE, bare |-> FALSE]

Init ==
    /\ plan \in Plans
    /\ conns = <<>> /\ cur = 0 /\ reqs = <<>> /\ frames = 0
    /\ stack = <<>> /\ idle = <<>> /\ top = 0 /\ refused = FALSE
    /\ job = None /\ mailbox = <<>> /\ ran = <<>> /\ pending = FALSE
    /\ cancelled = FALSE /\ exec = "ready" /\ clean = "idle" /\ closing = {}
    /\ monitor = [established |-> 0, closed |-> 0, dropped |-> 0]
-----------------------------------------------------------------------------
(* Closing a connection.  Both ways start with the swap of isClose; the      *)
(* events they publish are separate critical sections of c.mu, kept in pub.  *)

Posted(ctl, cmd) == IF Len(ctl) < ControlCap THEN Append(ctl, cmd) ELSE ctl

\* StopHeartbeat: a command if there is room, else the pump's own clean-up.
StopHeartbeat(k) ==
    IF k.pump = "off" THEN k ELSE [k EXCEPT !.ctl = Posted(@, "stop")]

\* Mutant of DoClose: the pump is told to drop the heartbeat and never to end.
MutantDoClose(k) == StopHeartbeat(k)

\* doClose: the context first, then the heartbeat.
DoClose(k) == StopHeartbeat([k EXCEPT !.ctx = TRUE])

\* Connection.Close up to its publishClosed.
CloseConn(k) ==
    IF k.closed THEN k
    ELSE DoClose([k EXCEPT !.closed = TRUE, !.pub = <<"closed">>,
                           !.gnet = IF @ = "open" THEN "closing" ELSE @])

\* Connection.onClose, called by the event loop.
OnClose(k) ==
    IF k.closed THEN [k EXCEPT !.gnet = "shut"]
    ELSE DoClose([k EXCEPT !.closed = TRUE, !.gnet = "shut", !.peer = TRUE,
                           !.pub = <<"drop", "closed">>])

\* What a callback does when the event of a connection is delivered to it.
\* The disconnect of a TCP main service stops the robot.
Deliver(event) ==
    IF event = "closed"
    THEN /\ monitor' = [monitor EXCEPT !.closed = @ + 1]
         /\ UNCHANGED cancelled
    ELSE /\ monitor' = [monitor EXCEPT !.dropped = @ + 1]
         /\ cancelled' = (cancelled \/ plan.transport = "tcp")

\* publishClosed and publishDisconnected: the callback is called at most once.
Published(ev) ==
    [ev EXCEPT !.occurred = TRUE,
               !.delivered = IF ev.set /\ @ = 0 THEN 1 ELSE @]

\* Mutant of Registered: an event that occurred before is not delivered.
MutantRegistered(ev) == [ev EXCEPT !.set = TRUE]

\* SetOnClosed and SetOnDisconnect: an event that has occurred is delivered late.
Registered(ev) ==
    [ev EXCEPT !.set = TRUE,
               !.delivered = IF ev.occurred /\ @ = 0 THEN 1 ELSE @]

Delivers(old, new, event) ==
    IF new.delivered > old.delivered THEN Deliver(event)
    ELSE UNCHANGED <<monitor, cancelled>>

\* The closing goroutine publishes the next event of connection c.
Publish(c) ==
    LET k == conns[c]
    IN /\ k.pub # <<>>
       /\ IF Head(k.pub) = "closed"
          THEN /\ conns' = [conns EXCEPT ![c].pub = Tail(@),
                                         ![c].closedEv = Published(@)]
               /\ Delivers(k.closedEv, Published(k.closedEv), "closed")
          ELSE /\ conns' = [conns EXCEPT ![c].pub = Tail(@),
                                         ![c].dropEv = Published(@)]
               /\ Delivers(k.dropEv, Published(k.dropEv), "drop")
       /\ UNCHANGED <<plan, cur, reqs, frames, owner, job, mailbox, ran, pending,
                      exec, clean, closing>>

-----------------------------------------------------------------------------
(* The event loop. *)

\* startPumpWithSubmit: everything is rolled back if the pool refuses.
StartPump(k, pool) == [k EXCEPT !.pump = IF pool THEN "run" ELSE "off"]

\* OnOpen binds, registers and starts the pump, or closes the connection.
OnOpen(k, pool) ==
    [StartPump(k, pool) EXCEPT !.gnet = IF pool THEN "open" ELSE "closing"]

\* EnqueueRaw: "closed" drops the frame, "full" asks for the connection's end.
EnqueueRaw(k) ==
    IF k.closed \/ k.pump = "off" THEN "closed"
    ELSE IF Len(k.inb) < InboundCap THEN "ok" ELSE "full"

\* OnTraffic with one complete frame.
OnTraffic(c, f) ==
    /\ conns[c].gnet \in {"open", "closing"}
    /\ LET result == EnqueueRaw(conns[c])
       IN conns' = [conns EXCEPT ![c].inb = IF result = "ok" THEN Append(@, f) ELSE @,
                                 ![c].gnet = IF result = "full" THEN "closing" ELSE @]

\* The server answers a request that was sent on the connection, once.
ServerAnswers(c, r) ==
    /\ reqs[r].conn = c /\ reqs[r].sent
    /\ OnTraffic(c, [kind |-> "answer", id |-> r])
    /\ reqs' = [reqs EXCEPT ![r].sent = FALSE]
    /\ UNCHANGED <<plan, cur, frames, owner, job, mailbox, ran, pending, cancelled,
                   exec, clean, closing, monitor>>

\* The server pushes a message of its own.
ServerPushes(c) ==
    /\ frames < Len(plan.pushes)
    /\ frames' = frames + 1
    /\ OnTraffic(c, [kind |-> plan.pushes[frames'], id |-> frames'])
    /\ UNCHANGED <<plan, cur, reqs, owner, job, mailbox, ran, pending, cancelled,
                   exec, clean, closing, monitor>>

\* The event loop closes a connection: asked to, or because the peer did.
GnetOnClose(c) ==
    /\ conns[c].gnet = "closing" \/ (conns[c].gnet = "open" /\ Fault("peer"))
    /\ conns' = [conns EXCEPT ![c] = OnClose(@)]
    /\ UNCHANGED <<plan, cur, reqs, frames, owner, job, mailbox, ran, pending,
                   cancelled, exec, clean, closing, monitor>>
-----------------------------------------------------------------------------
(* The pump. *)

\* listenQueue.Push: a full queue loses its oldest message; always a signal.
Push(k, id) ==
    [k EXCEPT !.queue = Append(IF Len(@) < QueueSize THEN @ ELSE Tail(@), id),
              !.token = TRUE]

\* listenQueue.Pop: the signal is cleared with the last message.
Pop(k) ==
    [k EXCEPT !.queue = Tail(@), !.token = IF Len(k.queue) = 1 THEN FALSE ELSE @]

\* robotScheduler.enqueue: never blocks the pump, loses the newest.
Enqueued(m, id) == IF Len(m) < MailboxCap THEN Append(m, id) ELSE m

\* createListenCallback: the pump only posts to the mailbox, unless the robot is
\* stopping.
CallbackPosts(id) == IF cancelled THEN mailbox ELSE Enqueued(mailbox, id)

\* OnReceive: the request registered for the route, else the listener, else
\* nobody.
OnReceive(c, f) ==
    LET k == conns[c]
        rest == [conns EXCEPT ![c].inb = Tail(@)]
    IN IF k.closed THEN conns' = rest /\ UNCHANGED <<reqs, mailbox>>
       ELSE CASE f.kind = "answer" /\ k.resp # 0 ->
                   /\ conns' = rest
                   /\ reqs' = [reqs EXCEPT ![k.resp].buf = IF @ = 0 THEN f.id ELSE @]
                   /\ UNCHANGED mailbox
              [] f.kind = "push" /\ k.listens ->
                   /\ conns' = [rest EXCEPT ![c] = Push(@, f.id)]
                   /\ UNCHANGED <<reqs, mailbox>>
              [] f.kind = "call" /\ k.listens ->
                   /\ conns' = rest
                   /\ mailbox' = CallbackPosts(f.id)
                   /\ UNCHANGED reqs
              [] OTHER -> conns' = rest /\ UNCHANGED <<reqs, mailbox>>

PumpFrame(c) ==
    /\ conns[c].pump = "run" /\ conns[c].inb # <<>>
    /\ OnReceive(c, Head(conns[c].inb))
    /\ UNCHANGED <<plan, cur, frames, owner, job, ran, pending, cancelled, exec,
                   clean, closing, monitor>>

\* handleControlLocked: install or replace the heartbeat, or remove it.
PumpControl(c) ==
    /\ conns[c].pump = "run" /\ conns[c].ctl # <<>>
    /\ conns' = [conns EXCEPT ![c].hb = Head(conns[c].ctl) = "heartbeat",
                              ![c].ctl = Tail(@)]
    /\ UNCHANGED <<plan, cur, reqs, frames, owner, job, mailbox, ran, pending,
                   cancelled, exec, clean, closing, monitor>>

\* The context is cancelled: the frames left are dropped and the timer stopped.
PumpExit(c) ==
    /\ conns[c].pump = "run" /\ conns[c].ctx
    /\ conns' = [conns EXCEPT ![c].pump = "done", ![c].inb = <<>>, ![c].hb = FALSE]
    /\ UNCHANGED <<plan, cur, reqs, frames, owner, job, mailbox, ran, pending,
                   cancelled, exec, clean, closing, monitor>>

\* sendHeartbeatLocked: nothing is sent once the connection is closed.  Bare
\* records that a heartbeat went out without a key.
PumpBeat(c) ==
    /\ conns[c].pump = "run" /\ conns[c].hb /\ ~ conns[c].closed
    /\ conns' = [conns EXCEPT ![c].bare = @ \/ ~ conns[c].key]
    /\ UNCHANGED <<plan, cur, reqs, frames, owner, job, mailbox, ran, pending,
                   cancelled, exec, clean, closing, monitor>>
-----------------------------------------------------------------------------
(* Scripts: each runs on a thread of its own, taken from the robot's cache,   *)
(* and may wait only on the thread that the scheduler resumed last.           *)

Me == stack[Len(stack)]
InScript == stack # <<>>
Running == InScript /\ Me.w = NoWait
In(kind) == InScript /\ Me.w.kind = kind
Replaced(e) == [stack EXCEPT ![Len(stack)] = e]
Below == SubSeq(stack, 1, Len(stack) - 1)
Cached == {idle[i] : i \in DOMAIN idle}
Held == {stack[i].th : i \in DOMAIN stack}

\* acquireTrampThread: the last one of the cache, else a new one.
AcquireThread ==
    IF idle # <<>> THEN idle[Len(idle)]
    ELSE CHOOSE t \in Threads : t \notin Held

\* startCoroutine and the first resumeCoroutine.
EnterScript(under, todo) ==
    /\ stack' = Append(under, [th |-> AcquireThread, todo |-> todo, w |-> NoWait])
    /\ idle' = IF idle # <<>> THEN SubSeq(idle, 1, Len(idle) - 1) ELSE idle
    /\ top' = AcquireThread
    /\ UNCHANGED refused

\* resumeCoroutine after a wait: the thread becomes the top one again.
Resume ==
    /\ stack' = Replaced([Me EXCEPT !.w = NoWait])
    /\ top' = Me.th
    /\ UNCHANGED <<idle, refused>>

\* The script's next call, which waits (awaitYield) or returns at once.
Calls(op) == Running /\ Me.todo # <<>> /\ Head(Me.todo) = op /\ ~ cancelled
Await(w) ==
    /\ stack' = Replaced([Me EXCEPT !.todo = Tail(@), !.w = w])
    /\ refused' = (refused \/ top # Me.th)
    /\ UNCHANGED <<idle, top>>
Returns ==
    /\ stack' = Replaced([Me EXCEPT !.todo = Tail(@)])
    /\ UNCHANGED <<idle, top, refused>>

\* RunActionScript starts.
StartScript ==
    /\ exec = "ready" /\ stack = <<>>
    /\ EnterScript(stack, plan.script)
    /\ exec' = "running"
    /\ UNCHANGED <<plan, conns, cur, reqs, frames, job, mailbox, ran, pending,
                   cancelled, clean, closing, monitor>>

\* releaseTrampThread: a clean thread goes back unless the cache is full.
EndScript ==
    /\ Running /\ Me.todo = <<>>
    /\ stack' = Below
    /\ idle' = IF Len(idle) < MaxIdle THEN Append(idle, Me.th) ELSE idle
    /\ UNCHANGED <<plan, conns, cur, reqs, frames, top, refused, job, mailbox, ran,
                   pending, cancelled, exec, clean, closing, monitor>>

\* A script that is resumed under a cancelled context, or that raises an
\* error, dies inside and its thread is not used again.
AbortScript ==
    /\ Running /\ (cancelled \/ Calls("raise"))
    /\ stack' = Below
    /\ UNCHANGED <<plan, conns, cur, reqs, frames, idle, top, refused, job, mailbox,
                   ran, pending, cancelled, exec, clean, closing, monitor>>

\* The flow is over: the executor goroutine ends.
EndExecutor ==
    /\ exec = "running" /\ stack = <<>>
    /\ exec' = "done"
    /\ UNCHANGED <<plan, conns, cur, reqs, frames, owner, job, mailbox, ran, pending,
                   cancelled, clean, closing, monitor>>
-----------------------------------------------------------------------------
(* Calls that return at once. *)

\* Connection.RegisterListen: idempotent, refused by a closed connection.
RegisterListen(k) == IF k.closed THEN k ELSE [k EXCEPT !.listens = TRUE]

\* The robot's RegisterListen, for its two listeners: skipped without a
\* connection.
CallListenOn ==
    /\ Calls("listeners")
    /\ conns' = IF cur = 0 THEN conns
                ELSE [conns EXCEPT ![cur] = RegisterListen(@)]
    /\ Returns
    /\ UNCHANGED <<plan, cur, reqs, frames, job, mailbox, ran, pending, cancelled,
                   exec, clean, closing, monitor>>

\* Connection.SetSecretKey: an empty key and a closed connection are ignored.
KeySet(k, given) == IF k.closed \/ ~ given THEN k ELSE [k EXCEPT !.key = TRUE]

\* Connection.RegisterHeartbeat: refused before the pump runs and after the
\* connection is closed, lost if the channel is full.
RegisterHeartbeat(k) ==
    IF k.closed \/ k.pump = "off" THEN k
    ELSE [k EXCEPT !.ctl = Posted(@, "heartbeat")]

\* installHeartbeat, on the connection the pool holds now.
InstallHeartbeat(cs) ==
    IF cancelled \/ cur = 0 THEN cs
    ELSE [cs EXCEPT ![cur] = RegisterHeartbeat(@)]

\* SetTCPSecretKey: the key, then the heartbeat that waits for one, whichever
\* key was given.
CallSetKey(op) ==
    /\ Calls(op)
    /\ IF cur = 0 THEN UNCHANGED <<conns, pending>>
       ELSE LET keyed == KeySet(conns[cur], op = "key")
                noted == [keyed EXCEPT !.empty = @ \/ op = "emptykey"]
                set == [conns EXCEPT ![cur] = noted]
            IN /\ conns' = IF pending THEN InstallHeartbeat(set) ELSE set
               /\ pending' = FALSE
    /\ Returns
    /\ UNCHANGED <<plan, cur, reqs, frames, job, mailbox, ran, cancelled, exec, clean,
                   closing, monitor>>

\* Client.CloseTCP: out of the pool first, then closed; it returns once the
\* connection has published its end.
CallClose ==
    /\ Calls("close")
    /\ cur' = 0
    /\ IF cur = 0 THEN Returns /\ UNCHANGED conns
       ELSE /\ conns' = [conns EXCEPT ![cur] = CloseConn(@)]
            /\ stack' = Replaced([Me EXCEPT !.todo = Tail(@),
                                            !.w = Waiting("close", "none", cur)])
            /\ UNCHANGED <<idle, top, refused>>
    /\ UNCHANGED <<plan, reqs, frames, job, mailbox, ran, pending, cancelled, exec,
                   clean, closing, monitor>>

CloseReturns ==
    /\ In("close") /\ conns[Me.w.id].pub = <<>>
    /\ stack' = Replaced([Me EXCEPT !.w = NoWait])
    /\ UNCHANGED <<plan, conns, cur, reqs, frames, idle, top, refused, job, mailbox,
                   ran, pending, cancelled, exec, clean, closing, monitor>>
-----------------------------------------------------------------------------
(* Requests. *)

\* Mutant of CloseRequest: a request that gives up leaves its entry behind.
MutantCloseRequest(r, answer) ==
    /\ reqs' = [reqs EXCEPT ![r].open = FALSE, ![r].got = answer]
    /\ conns' = [conns EXCEPT ![reqs[r].conn].resp = IF @ = r /\ answer # 0 THEN 0 ELSE @]

\* PendingRequest.Close: only its own entry is removed.
CloseRequest(r, answer) ==
    /\ reqs' = [reqs EXCEPT ![r].open = FALSE, ![r].got = answer]
    /\ conns' = [conns EXCEPT ![reqs[r].conn].resp = IF @ = r THEN 0 ELSE @]

\* SendRequest: the route's entry is overwritten; a send that fails takes the
\* entry back.
SendRequest(sent) ==
    /\ reqs' = Append(reqs, [conn |-> cur, open |-> sent, sent |-> sent, buf |-> 0, got |-> 0])
    /\ conns' = [conns EXCEPT ![cur].resp = IF sent THEN Len(reqs') ELSE 0]

\* tcp_request: awaitResponse up to its select, or an error at once.
CallRequest ==
    /\ Calls("request")
    /\ IF cur = 0 \/ conns[cur].closed
       THEN Returns /\ UNCHANGED <<reqs, conns>>
       ELSE \/ SendRequest(TRUE) /\ Await(Waiting("request", "select", Len(reqs) + 1))
            \/ Fault("send") /\ SendRequest(FALSE) /\ Returns
    /\ UNCHANGED <<plan, cur, frames, job, mailbox, ran, pending, cancelled, exec,
                   clean, closing, monitor>>

\* The answer is in the channel.
RequestAnswered ==
    /\ In("request") /\ reqs[Me.w.id].buf # 0
    /\ CloseRequest(Me.w.id, reqs[Me.w.id].buf)
    /\ Resume
    /\ UNCHANGED <<plan, cur, frames, job, mailbox, ran, pending, cancelled, exec,
                   clean, closing, monitor>>

\* The timer of the request fires, or the robot is stopped.
RequestGivenUp ==
    /\ In("request")
    /\ CloseRequest(Me.w.id, 0)
    /\ Resume
    /\ UNCHANGED <<plan, cur, frames, job, mailbox, ran, pending, cancelled, exec,
                   clean, closing, monitor>>
-----------------------------------------------------------------------------
(* Sleeping and listening: robotScheduler.wait.  At the top of the loop it    *)
(* looks at the queue, then parks; "last" is the look after the deadline.     *)

CallSleep ==
    /\ Calls("sleep")
    /\ Await(Waiting("sleep", "select", 0))
    /\ UNCHANGED <<plan, conns, cur, reqs, frames, job, mailbox, ran, pending,
                   cancelled, exec, clean, closing, monitor>>

\* waitListen takes the wake channel of the connection of this moment; there is
\* none if nothing is registered or the connection is closed.
CallListen ==
    /\ Calls("listen")
    /\ LET wake == IF cur # 0 /\ ~ conns[cur].closed /\ conns[cur].listens THEN cur ELSE 0
       IN Await(Waiting("listen", "top", wake))
    /\ UNCHANGED <<plan, conns, cur, reqs, frames, job, mailbox, ran, pending,
                   cancelled, exec, clean, closing, monitor>>

\* GetListenResp, on the connection that is current now.
Available == cur # 0 /\ ~ conns[cur].closed /\ conns[cur].queue # <<>>

\* The look at the queue: a message ends the wait; none parks the owner, or
\* ends the wait after the deadline.
ListenLooks ==
    /\ In("listen") /\ Me.w.pt \in {"top", "last"} /\ ~ cancelled
    /\ IF Available
       THEN conns' = [conns EXCEPT ![cur] = Pop(@)] /\ Resume
       ELSE /\ IF Me.w.pt = "last" THEN Resume
               ELSE /\ stack' = Replaced([Me EXCEPT !.w.pt = "select"])
                    /\ UNCHANGED <<idle, top, refused>>
            /\ UNCHANGED conns
    /\ UNCHANGED <<plan, cur, reqs, frames, job, mailbox, ran, pending, cancelled, exec,
                   clean, closing, monitor>>

\* The wake channel: a hint only, the queue is looked at again.
ListenWoken ==
    /\ In("listen") /\ Me.w.pt = "select" /\ Me.w.id # 0 /\ conns[Me.w.id].token
    /\ conns' = [conns EXCEPT ![Me.w.id].token = FALSE]
    /\ stack' = Replaced([Me EXCEPT !.w.pt = "top"])
    /\ UNCHANGED <<plan, cur, reqs, frames, idle, top, refused, job, mailbox, ran,
                   pending, cancelled, exec, clean, closing, monitor>>

ListenDeadline ==
    /\ In("listen") /\ Me.w.pt = "select"
    /\ stack' = Replaced([Me EXCEPT !.w.pt = "last"])
    /\ UNCHANGED <<plan, conns, cur, reqs, frames, idle, top, refused, job, mailbox,
                   ran, pending, cancelled, exec, clean, closing, monitor>>

\* A sleep is over, or a sleep or listen ends because the robot is stopped.
WaitEnds ==
    /\ In("sleep") \/ (In("listen") /\ cancelled)
    /\ Resume
    /\ UNCHANGED <<plan, conns, cur, reqs, frames, job, mailbox, ran, pending,
                   cancelled, exec, clean, closing, monitor>>

\* Mutant of AfterTask: the owner parks again without looking at the queue.
MutantAfterTask(w) == w

\* Where the loop of a wait goes on after a task.
AfterTask(w) == IF w.kind = "listen" THEN [w EXCEPT !.pt = "top"] ELSE w

\* A parked owner takes a task of the mailbox: runListenScript, or nothing if
\* the robot is stopping.
RunTask ==
    /\ InScript /\ Me.w.kind \in {"sleep", "listen", "request", "connect"}
    /\ Me.w.pt = "select" /\ mailbox # <<>>
    /\ mailbox' = Tail(mailbox)
    /\ LET again == Replaced([Me EXCEPT !.w = AfterTask(@)])
       IN IF cancelled
          THEN stack' = again /\ UNCHANGED <<idle, top, refused, ran>>
          ELSE /\ ran' = Append(ran, Head(mailbox))
               /\ EnterScript(again, plan.callback)
    /\ UNCHANGED <<plan, conns, cur, reqs, frames, job, pending, cancelled, exec,
                   clean, closing, monitor>>
-----------------------------------------------------------------------------
(* Connecting: Robot.ConnectTCP runs as a job of the pool while the owner     *)
(* waits in runIO and runs callbacks.                                         *)

CallConnect ==
    /\ Calls("connect")
    /\ job = None /\ Len(conns) < MaxConns
    /\ job' = [pt |-> "place", conn |-> 0]
    /\ Await(Waiting("connect", "select", 0))
    /\ UNCHANGED <<plan, conns, cur, reqs, frames, mailbox, ran, pending, cancelled,
                   exec, clean, closing, monitor>>

\* Client.ConnectTCP: a placeholder, unless the pool has one, open or not.
JobPlace ==
    /\ job.pt = "place"
    /\ IF cur # 0
       THEN job' = [job EXCEPT !.pt = "done"] /\ UNCHANGED <<conns, cur>>
       ELSE /\ conns' = Append(conns, NewConnection)
            /\ cur' = Len(conns')
            /\ job' = [pt |-> "dial", conn |-> Len(conns')]
    /\ UNCHANGED <<plan, reqs, frames, owner, mailbox, ran, pending, cancelled, exec,
                   clean, closing, monitor>>

\* A connect that failed closes what the pool holds for the service.
Failed(cs) ==
    /\ conns' = IF cur = 0 THEN cs ELSE [cs EXCEPT ![cur] = CloseConn(@)]
    /\ cur' = 0
    /\ job' = [job EXCEPT !.pt = "failed"]

\* Dialer.dial up to the return of DialContext; OnOpen runs inside it.
JobDial ==
    /\ job.pt = "dial"
    /\ \/ /\ cancelled \/ Fault("dial")
          /\ Failed(conns)
       \/ /\ ~ cancelled
          /\ \E pool \in {TRUE} \union (IF Fault("pump") THEN {FALSE} ELSE {}) :
               conns' = [conns EXCEPT ![job.conn] = OnOpen(@, pool)]
          /\ job' = [job EXCEPT !.pt = "opened"]
          /\ UNCHANGED cur
    /\ UNCHANGED <<plan, reqs, frames, owner, mailbox, ran, pending, cancelled, exec,
                   clean, closing, monitor>>

\* The check of the context after the dial; then the connection counts.
JobOpened ==
    /\ job.pt = "opened"
    /\ IF cancelled
       THEN /\ Failed([conns EXCEPT ![job.conn].gnet =
                           IF @ = "open" THEN "closing" ELSE @])
            /\ UNCHANGED monitor
       ELSE /\ conns' = [conns EXCEPT ![job.conn].established = TRUE]
            /\ monitor' = [monitor EXCEPT !.established = @ + 1]
            /\ job' = [job EXCEPT !.pt = "heartbeat"]
            /\ UNCHANGED cur
    /\ UNCHANGED <<plan, reqs, frames, owner, mailbox, ran, pending, cancelled, exec,
                   clean, closing>>

\* RequireSecretKey: the heartbeat waits for the key.
Deferred == plan.heartbeat = "keyed"

\* RegisterCodecHeartbeat: at once, or when a key is set; on the connection
\* the pool holds now.
JobHeartbeat ==
    /\ job.pt = "heartbeat"
    /\ pending' = (pending \/ Deferred)
    /\ conns' = IF plan.heartbeat = "none" \/ Deferred THEN conns
                ELSE InstallHeartbeat(conns)
    /\ job' = [job EXCEPT !.pt = "onclosed"]
    /\ UNCHANGED <<plan, cur, reqs, frames, owner, mailbox, ran, cancelled, exec, clean,
                   closing, monitor>>

JobOnClosed ==
    /\ job.pt = "onclosed"
    /\ LET ev == conns[job.conn].closedEv
       IN /\ conns' = [conns EXCEPT ![job.conn].closedEv = Registered(ev)]
          /\ Delivers(ev, Registered(ev), "closed")
    /\ job' = [job EXCEPT !.pt = "ondisconnect"]
    /\ UNCHANGED <<plan, cur, reqs, frames, owner, mailbox, ran, pending, exec, clean,
                   closing>>

JobOnDisconnect ==
    /\ job.pt = "ondisconnect"
    /\ LET ev == conns[job.conn].dropEv
       IN /\ conns' = [conns EXCEPT ![job.conn].dropEv = Registered(ev)]
          /\ Delivers(ev, Registered(ev), "drop")
    /\ job' = [job EXCEPT !.pt = "done"]
    /\ UNCHANGED <<plan, cur, reqs, frames, owner, mailbox, ran, pending, exec, clean,
                   closing>>

\* runIO returns when the job is done, whatever became of the robot.
ConnectReturns ==
    /\ In("connect") /\ job.pt \in {"done", "failed"}
    /\ job.conn = 0 \/ job.pt = "done" \/ conns[job.conn].pub = <<>>
    /\ job' = None
    /\ Resume
    /\ UNCHANGED <<plan, conns, cur, reqs, frames, mailbox, ran, pending, cancelled,
                   exec, clean, closing, monitor>>
-----------------------------------------------------------------------------
(* Stopping and cleaning up: Robot.cleanup, started by the manager or by the   *)
(* end of the executor.                                                        *)

CleanupStarts ==
    /\ clean = "idle" /\ (exec = "done" \/ Fault("stop"))
    /\ clean' = "stopped" /\ cancelled' = TRUE
    /\ UNCHANGED <<plan, conns, cur, reqs, frames, owner, job, mailbox, ran, pending,
                   exec, closing, monitor>>

\* CloseAllWithTimeout takes the connections and closes them ...
CloseAll ==
    /\ clean = "stopped"
    /\ cur' = 0 /\ clean' = "closing"
    /\ closing' = {cur} \ {0}
    /\ conns' = [c \in Conns |-> IF c = cur THEN CloseConn(conns[c]) ELSE conns[c]]
    /\ UNCHANGED <<plan, reqs, frames, owner, job, mailbox, ran, pending, cancelled,
                   exec, monitor>>

\* ... and waits for their pumps.
Closed == \A c \in closing : conns[c].pub = <<>> /\ conns[c].pump # "run"

\* Mutant of CleanupDone: the Lua state goes back without the executor's end.
MutantCleanupDone ==
    /\ clean = "closing" /\ Closed
    /\ clean' = "ok" /\ idle' = <<>>
    /\ UNCHANGED <<plan, conns, cur, reqs, frames, stack, top, refused, job, mailbox,
                   ran, pending, cancelled, exec, closing, monitor>>

\* Everything is over in time: the Lua state goes back to the pool.
CleanupDone ==
    /\ clean = "closing" /\ Closed /\ exec = "done"
    /\ clean' = "ok" /\ idle' = <<>>
    /\ UNCHANGED <<plan, conns, cur, reqs, frames, stack, top, refused, job, mailbox,
                   ran, pending, cancelled, exec, closing, monitor>>

\* The timer fires first: the Lua state is given up.
CleanupTimesOut ==
    /\ clean = "closing" /\ ~ (Closed /\ exec = "done") /\ Fault("slow")
    /\ clean' = "timeout"
    /\ UNCHANGED <<plan, conns, cur, reqs, frames, owner, job, mailbox, ran, pending,
                   cancelled, exec, closing, monitor>>
-----------------------------------------------------------------------------
Network ==
    \E c \in Conns : \/ \E r \in DOMAIN reqs : ServerAnswers(c, r)
                     \/ ServerPushes(c)
                     \/ GnetOnClose(c)
Pump == \E c \in Conns : PumpFrame(c) \/ PumpControl(c) \/ PumpExit(c) \/ PumpBeat(c)
Calling ==
    \/ CallListenOn \/ CallSetKey("key") \/ CallSetKey("emptykey") \/ CallClose
    \/ CallRequest \/ CallSleep \/ CallListen \/ CallConnect
Ending ==
    \/ CloseReturns \/ RequestAnswered \/ RequestGivenUp \/ ListenLooks \/ ListenWoken
    \/ ListenDeadline \/ WaitEnds \/ ConnectReturns
Job ==
    JobPlace \/ JobDial \/ JobOpened \/ JobHeartbeat \/ JobOnClosed \/ JobOnDisconnect
Cleanup == CleanupStarts \/ CloseAll \/ CleanupDone \/ CleanupTimesOut
Next ==
    \/ Network \/ Pump \/ Calling \/ Ending \/ RunTask \/ Job \/ Cleanup
    \/ StartScript \/ EndScript \/ AbortScript \/ EndExecutor
    \/ \E c \in Conns : Publish(c)

\* The goroutines run and timers fire; the server owes nothing.
Fairness ==
    /\ WF_vars(Calling \/ Ending \/ StartScript \/ EndScript \/ AbortScript \/ EndExecutor)
    /\ WF_vars(Job) /\ WF_vars(Cleanup)
    /\ \A c \in 1 .. MaxConns :
         /\ WF_vars(c \in Conns /\ PumpExit(c))
         /\ WF_vars(c \in Conns /\ Publish(c))
Spec == Init /\ [][Next]_vars /\ Fairness
-----------------------------------------------------------------------------
(* Properties. *)

\* The state has the types of the structures it stands for.
TypeOK ==
    /\ cur \in 0 .. Len(conns) /\ Len(conns) <= MaxConns
    /\ \A c \in Conns :
         /\ conns[c].gnet \in {"none", "open", "closing", "shut"}
         /\ conns[c].pump \in {"off", "run", "done"}
         /\ Len(conns[c].inb) <= InboundCap /\ Len(conns[c].queue) <= QueueSize
         /\ Len(conns[c].ctl) <= ControlCap
         /\ conns[c].resp \in 0 .. Len(reqs)
    /\ Len(mailbox) <= MailboxCap /\ Len(idle) <= MaxIdle
    /\ exec \in {"ready", "running", "done"}
    /\ clean \in {"idle", "stopped", "closing", "ok", "timeout"}

Settled(c) == conns[c].closed /\ conns[c].pub = <<>> /\ job.conn # c

\* Connection counting: whatever the order in which a connection is counted, is
\* given its callbacks and is closed by either side, once all three are over it
\* was counted closed exactly once if it was counted established and never
\* otherwise, and as dropped only if the peer closed it.
CountedOnce ==
    /\ \A c \in Conns :
         LET k == conns[c]
         IN /\ k.dropEv.delivered > 0 => k.peer
            /\ Settled(c) =>
                 /\ k.closedEv.delivered = IF k.established THEN 1 ELSE 0
                 /\ k.dropEv.delivered = IF k.established /\ k.peer THEN 1 ELSE 0
    /\ job = None =>
         monitor.established - monitor.closed =
             Cardinality({c \in Conns : conns[c].established
                                        /\ conns[c].closedEv.delivered = 0})

\* Responses (PendingRequest.Close, OnReceive): the pump never finds a request
\* that has given up, so it never sends on a closed channel; and the answer a
\* request takes is its own, or that of an earlier request on the same
\* connection that went without.
AnswerIsOwn ==
    /\ \A c \in Conns : conns[c].resp # 0 => reqs[conns[c].resp].open
    /\ \A r \in DOMAIN reqs :
         LET g == reqs[r].got
         IN g \notin {0, r} => /\ g < r
                               /\ reqs[g].conn = reqs[r].conn
                               /\ reqs[g].got # g

\* Waking (listenQueue, robotScheduler.wait): an owner parked in a listen never
\* sleeps over a message of the connection it listens to, even when a callback
\* it ran took the signal.
NoLostWakeup ==
    (In("listen") /\ Me.w.pt = "select" /\ Me.w.id # 0 /\ Me.w.id = cur
        /\ ~ conns[cur].closed /\ conns[cur].queue # <<>>)
    => conns[cur].token

\* Threads (acquireTrampThread, resumeCoroutine): no two scripts in progress
\* share a thread, a cached one is nobody's, and no wait of a script is refused.
ThreadsAreExclusive ==
    /\ ~ refused
    /\ \A i, j \in DOMAIN stack : stack[i].th = stack[j].th => i = j
    /\ Held \cap Cached = {}

\* Heartbeat (RegisterCodecHeartbeat, startPendingHeartbeatAfterSecretKey): an
\* open connection has its heartbeat, or the order for it, once it is connected
\* and, if one is needed, has its key; and beats without a key only if the
\* script gave it an empty one.
HeartbeatIsInstalled ==
    \A c \in Conns :
      LET k == conns[c]
      IN /\ (c = cur /\ ~ k.closed /\ k.pump = "run" /\ job = None /\ ~ cancelled
               /\ (plan.heartbeat = "plain" \/ (plan.heartbeat = "keyed" /\ k.key)))
            => k.hb \/ k.ctl # <<>>
         /\ (plan.heartbeat = "keyed" /\ k.bare) => k.empty

\* The owner of a robot gets what it waits for, on a thread of its own, and
\* its connections stay alive.
OwnerIsServed == TypeOK /\ NoLostWakeup /\ ThreadsAreExclusive /\ HeartbeatIsInstalled

\* Clean-up (cleanupWithSubmit): once the Lua state is back in the pool, no
\* script, callback or mailbox of this robot moves again.
QuietOnceReleased == [][clean = "ok" => UNCHANGED <<stack, idle, ran, mailbox>>]_vars

\* Every wait ends, with or without an answer: the executor, the clean-up and
\* every pump come to their end.
EverythingEnds ==
    <>(exec = "done" /\ clean \in {"ok", "timeout"}
         /\ \A c \in Conns : conns[c].pump # "run")
=============================================================================
