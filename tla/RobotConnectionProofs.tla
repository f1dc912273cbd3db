------------------------ MODULE RobotConnectionProofs ------------------------
(***************************************************************************)
(* Theorems about one robot and its connections, for any channel sizes,    *)
(* any set of plans and any number of connections.                         *)
(*                                                                         *)
(* The module goes from the operators to the theorems.                     *)
(*  - Types: the structures of RobotConnection, and an "effect" lemma for  *)
(*    each helper that rewrites a connection, the scripts or the job; the  *)
(*    rest of the module uses the effects and not the definitions.         *)
(*    ConnectionTypeOK.                                                    *)
(*  - Clean-up: which steps belong to a script.                            *)
(*    ConnectionQuietOnceReleased.                                         *)
(*  - Counting: the two lifecycle events of a connection, against what is  *)
(*    still to be published and what the dial job has still to do.         *)
(*    ConnectionCountedOnce.                                               *)
(*  - Answers: the newest request of a connection, and where an answer may *)
(*    be while it is under way.  ConnectionAnswerIsOwn.                    *)
(*  - Threads and waking: every step by what it does to the stack of       *)
(*    scripts (OwnerSteps).  ConnectionOwnerIsWoken.                       *)
(*  - Heartbeats: orders, keys, and the time between dial and              *)
(*    registration.  ConnectionOwnerIsServed.                              *)
(***************************************************************************)
EXTENDS RobotConnection, FiniteSetTheorems, TLAPS

(* The structures, with the limits of their channels. *)
FrameKinds == {"answer", "push", "call"}
Orders == {"heartbeat", "stop"}
WaitKinds == {"none", "request", "listen", "sleep", "connect", "close"}
WaitPlaces == {"none", "select", "top", "last"}
JobPlaces == {"none", "place", "dial", "opened", "heartbeat", "onclosed", "ondisconnect",
              "done", "failed"}
Frames == [kind : FrameKinds, id : Nat]
Inbox == {s \in Seq(Frames) : Len(s) <= InboundCap}
Controls == {s \in Seq(Orders) : Len(s) <= ControlCap}
Backlog == {s \in Seq(Nat) : Len(s) <= QueueSize}
Publications == {<<>>, <<"closed">>, <<"drop", "closed">>}
LifecycleEvents == [set : BOOLEAN, occurred : BOOLEAN, delivered : {0, 1}]
Connections ==
    [closed : BOOLEAN, ctx : BOOLEAN, gnet : {"none", "open", "closing", "shut"},
     pump : {"off", "run", "done"}, inb : Inbox, ctl : Controls, hb : BOOLEAN,
     key : BOOLEAN, resp : Nat, listens : BOOLEAN, queue : Backlog, token : BOOLEAN,
     pub : Publications, closedEv : LifecycleEvents, dropEv : LifecycleEvents,
     established : BOOLEAN, peer : BOOLEAN, empty : BOOLEAN, bare : BOOLEAN]
Requests == [conn : Nat, open : BOOLEAN, sent : BOOLEAN, buf : Nat, got : Nat]
Waits == [kind : WaitKinds, pt : WaitPlaces, id : Nat]
Scripts == [th : Nat, todo : Seq(Ops), w : Waits]
Jobs == [pt : JobPlaces, conn : Nat]
Counters == [established : Int, closed : Int, dropped : Int]

\* The connections, the pool and the requests.
NetTypes ==
    /\ conns \in Seq(Connections) /\ Len(conns) <= MaxConns
    /\ cur \in 0 .. Len(conns)
    /\ reqs \in Seq(Requests)
    /\ \A r \in 1 .. Len(reqs) : reqs[r].conn \in 1 .. Len(conns)
    /\ \A c \in 1 .. Len(conns) : conns[c].resp \in 0 .. Len(reqs)

\* What a wait of the owner names exists.
Names(w) ==
    /\ w.kind = "request" => w.id \in 1 .. Len(reqs)
    /\ w.kind = "listen" => w.id \in 0 .. Len(conns)
    /\ w.kind = "close" => w.id \in 1 .. Len(conns)

\* The goroutine that owns the robot.
OwnerTypes ==
    /\ stack \in Seq(Scripts)
    /\ idle \in Seq(Nat) /\ Len(idle) <= MaxIdle
    /\ top \in Nat /\ refused \in BOOLEAN
    /\ \A i \in 1 .. Len(stack) : Names(stack[i].w)

\* The dial job.
Dialing == {"dial", "opened", "heartbeat", "onclosed", "ondisconnect"}
JobTypes ==
    /\ job \in Jobs
    /\ job.conn \in 0 .. Len(conns)
    /\ job.pt \in Dialing => job.conn # 0 /\ cur \in {0, job.conn}
    /\ job.pt = "place" => job.conn = 0 /\ Len(conns) < MaxConns

\* The rest.
RobotTypes ==
    /\ plan \in Plans
    /\ frames \in Nat
    /\ mailbox \in Seq(Nat) /\ Len(mailbox) <= MailboxCap
    /\ pending \in BOOLEAN /\ cancelled \in BOOLEAN
    /\ exec \in {"ready", "running", "done"}
    /\ clean \in {"idle", "stopped", "closing", "ok", "timeout"}
    /\ monitor \in Counters

TypeInv == NetTypes /\ OwnerTypes /\ JobTypes /\ RobotTypes

-----------------------------------------------------------------------------
(* Sequences. *)

\* An element of a sequence replaced.
LEMMA SeqExcept ==
    ASSUME NEW S, NEW s \in Seq(S), NEW i \in 1..Len(s), NEW e \in S
    PROVE  /\ [s EXCEPT ![i] = e] \in Seq(S)
           /\ Len([s EXCEPT ![i] = e]) = Len(s)
           /\ [s EXCEPT ![i] = e][i] = e
           /\ \A j \in 1..Len(s) : j # i => [s EXCEPT ![i] = e][j] = s[j]
OBVIOUS

\* A sequence grown by one element.
LEMMA SeqAppend ==
    ASSUME NEW S, NEW s \in Seq(S), NEW e \in S
    PROVE  /\ Append(s, e) \in Seq(S)
           /\ Len(Append(s, e)) = Len(s) + 1
           /\ Append(s, e)[Len(s) + 1] = e
           /\ \A j \in 1..Len(s) : Append(s, e)[j] = s[j]
OBVIOUS

\* A sequence without its first element.
LEMMA SeqTail ==
    ASSUME NEW S, NEW s \in Seq(S), s # <<>>
    PROVE  /\ Tail(s) \in Seq(S) /\ Head(s) \in S
           /\ Head(s) = s[1]
           /\ Len(Tail(s)) = Len(s) - 1 /\ Len(s) \in Nat \ {0}
           /\ \A j \in 1..Len(Tail(s)) : Tail(s)[j] = s[j + 1]
OBVIOUS

\* A sequence without its last element.
LEMMA SeqFront ==
    ASSUME NEW S, NEW s \in Seq(S), s # <<>>
    PROVE  /\ SubSeq(s, 1, Len(s) - 1) \in Seq(S)
           /\ Len(SubSeq(s, 1, Len(s) - 1)) = Len(s) - 1 /\ Len(s) \in Nat \ {0}
           /\ \A j \in 1..(Len(s) - 1) : SubSeq(s, 1, Len(s) - 1)[j] = s[j]
           /\ s[Len(s)] \in S
<1>1. Len(s) \in Nat \ {0} /\ s[Len(s)] \in S  OBVIOUS
<1>2. SubSeq(s, 1, Len(s) - 1) \in Seq(S)  BY <1>1
<1>3. Len(SubSeq(s, 1, Len(s) - 1)) = Len(s) - 1
  <2>1. CASE Len(s) = 1  BY <1>1, <2>1
  <2>2. CASE Len(s) > 1  BY <1>1, <2>2
  <2> QED  BY <1>1, <2>1, <2>2
<1>4. \A j \in 1..(Len(s) - 1) : SubSeq(s, 1, Len(s) - 1)[j] = s[j]  BY <1>1
<1> QED  BY <1>1, <1>2, <1>3, <1>4

-----------------------------------------------------------------------------
(* Channels. *)

LEMMA PostedStays ==
    ASSUME NEW s \in Controls, NEW x \in Orders
    PROVE  Posted(s, x) \in Controls /\ Posted(s, x) # <<>>
<1>1. CASE Len(s) < ControlCap
  <2>1. s \in Seq(Orders) /\ Posted(s, x) = Append(s, x)  BY <1>1 DEF Posted, Controls
  <2>2. /\ Append(s, x) \in Seq(Orders) /\ Len(Append(s, x)) = Len(s) + 1
        /\ Len(s) \in Nat
    BY <2>1, SeqAppend
  <2> QED  BY <1>1, <2>1, <2>2, CapacityAssumption DEF Controls
<1>2. CASE ~ (Len(s) < ControlCap)
  BY <1>2, CapacityAssumption DEF Posted, Controls
<1> QED  BY <1>1, <1>2

LEMMA EmptyChannels ==
    <<>> \in Inbox /\ <<>> \in Controls /\ <<>> \in Backlog
BY CapacityAssumption DEF Inbox, Controls, Backlog

LEMMA TailStays ==
    /\ \A s \in Inbox : s # <<>> => Tail(s) \in Inbox /\ Head(s) \in Frames
    /\ \A s \in Controls : s # <<>> => Tail(s) \in Controls /\ Head(s) \in Orders
    /\ \A s \in Backlog : s # <<>> => Tail(s) \in Backlog
<1>1. ASSUME NEW s \in Inbox, s # <<>> PROVE Tail(s) \in Inbox /\ Head(s) \in Frames
  BY <1>1, CapacityAssumption, SeqTail DEF Inbox
<1>2. ASSUME NEW s \in Controls, s # <<>> PROVE Tail(s) \in Controls /\ Head(s) \in Orders
  BY <1>2, CapacityAssumption, SeqTail DEF Controls
<1>3. ASSUME NEW s \in Backlog, s # <<>> PROVE Tail(s) \in Backlog
  BY <1>3, CapacityAssumption, SeqTail DEF Backlog
<1> QED  BY <1>1, <1>2, <1>3

LEMMA InboxGrows ==
    ASSUME NEW s \in Inbox, NEW f \in Frames, Len(s) < InboundCap
    PROVE  Append(s, f) \in Inbox
BY CapacityAssumption, SeqAppend DEF Inbox

LEMMA BacklogGrows ==
    ASSUME NEW s \in Backlog, NEW n \in Nat
    PROVE  Append(IF Len(s) < QueueSize THEN s ELSE Tail(s), n) \in Backlog
<1>1. CASE Len(s) < QueueSize
  BY <1>1, CapacityAssumption, SeqAppend DEF Backlog
<1>2. CASE ~ (Len(s) < QueueSize)
  <2>1. s \in Seq(Nat) /\ Len(s) = QueueSize /\ s # <<>>
    BY <1>2, CapacityAssumption DEF Backlog
  <2>2. Tail(s) \in Seq(Nat) /\ Len(Tail(s)) = QueueSize - 1
    BY <2>1, SeqTail, CapacityAssumption
  <2>3. Append(Tail(s), n) \in Seq(Nat) /\ Len(Append(Tail(s), n)) = QueueSize
    BY <2>2, SeqAppend, CapacityAssumption
  <2> QED  BY <1>2, <2>3, CapacityAssumption DEF Backlog
<1> QED  BY <1>1, <1>2

-----------------------------------------------------------------------------
(* What the operations on a connection give.                               *)

LEMMA OrdersIn == "heartbeat" \in Orders /\ "stop" \in Orders
BY DEF Orders

LEMMA ConnectionFields ==
    ASSUME NEW k \in Connections
    PROVE  /\ k.closed \in BOOLEAN /\ k.ctx \in BOOLEAN
           /\ k.gnet \in {"none", "open", "closing", "shut"}
           /\ k.pump \in {"off", "run", "done"}
           /\ k.inb \in Inbox /\ k.ctl \in Controls /\ k.queue \in Backlog
           /\ k.hb \in BOOLEAN /\ k.key \in BOOLEAN /\ k.resp \in Nat /\ k.listens \in BOOLEAN
           /\ k.token \in BOOLEAN /\ k.pub \in Publications
           /\ k.closedEv \in LifecycleEvents /\ k.dropEv \in LifecycleEvents
           /\ k.established \in BOOLEAN /\ k.peer \in BOOLEAN
           /\ k.empty \in BOOLEAN /\ k.bare \in BOOLEAN
BY DEF Connections

LEMMA PublicationTail ==
    ASSUME NEW p \in Publications, p # <<>>
    PROVE  /\ Tail(p) \in Publications
           /\ p = <<"closed">> => Head(p) = "closed" /\ Tail(p) = <<>>
           /\ p = <<"drop", "closed">> => Head(p) = "drop" /\ Tail(p) = <<"closed">>
<1>1. Tail(<<"closed">>) = <<>>  OBVIOUS
<1>2. Tail(<<"drop", "closed">>) = <<"closed">>  OBVIOUS
<1>3. Head(<<"closed">>) = "closed"  OBVIOUS
<1>4. Head(<<"drop", "closed">>) = "drop"  OBVIOUS
<1>5. CASE p = <<"closed">>
  <2>1. p # <<"drop", "closed">>  BY <1>5
  <2> QED  BY <1>1, <1>3, <1>5, <2>1 DEF Publications
<1>6. CASE p = <<"drop", "closed">>
  <2>1. p # <<"closed">>  BY <1>6
  <2> QED  BY <1>2, <1>4, <1>6, <2>1 DEF Publications
<1> QED  BY <1>5, <1>6 DEF Publications

LEMMA NewConnectionIs == NewConnection \in Connections
<1>1. [set |-> FALSE, occurred |-> FALSE, delivered |-> 0] \in LifecycleEvents
  BY DEF LifecycleEvents
<1>2. <<>> \in Publications  BY DEF Publications
<1> QED  BY <1>1, <1>2, EmptyChannels DEF NewConnection, Connections

\* An event that is published or gets its callback is still an event; it is
\* delivered exactly when both have happened.
LEMMA EventStays ==
    ASSUME NEW ev \in LifecycleEvents
    PROVE  /\ Published(ev) \in LifecycleEvents
           /\ Published(ev).occurred /\ Published(ev).set = ev.set
           /\ (ev.delivered = 1 => ev.set /\ ev.occurred) =>
                Published(ev).delivered = IF ev.set THEN 1 ELSE 0
           /\ Registered(ev) \in LifecycleEvents
           /\ Registered(ev).set /\ Registered(ev).occurred = ev.occurred
           /\ (ev.delivered = 1 => ev.set /\ ev.occurred) =>
                Registered(ev).delivered = IF ev.occurred THEN 1 ELSE 0
BY DEF LifecycleEvents, Published, Registered

LEMMA StopHeartbeatIs ==
    ASSUME NEW k \in Connections
    PROVE  /\ StopHeartbeat(k) \in Connections
           /\ StopHeartbeat(k) = [k EXCEPT !.ctl = StopHeartbeat(k).ctl]
           /\ StopHeartbeat(k).ctl \in {k.ctl, Posted(k.ctl, "stop")}
<1>1. Posted(k.ctl, "stop") \in Controls
  BY ConnectionFields, PostedStays, OrdersIn
<1>2. CASE k.pump = "off"
  <2>1. StopHeartbeat(k) = k  BY <1>2 DEF StopHeartbeat
  <2> QED  BY <2>1 DEF Connections
<1>3. CASE k.pump # "off"
  <2>1. StopHeartbeat(k) = [k EXCEPT !.ctl = Posted(k.ctl, "stop")]  BY <1>3 DEF StopHeartbeat
  <2> QED  BY <1>1, <2>1 DEF Connections
<1> QED  BY <1>2, <1>3

\* What closing, by either side, leaves alone.
SameBut(k, n) ==
    /\ n.inb = k.inb /\ n.hb = k.hb /\ n.key = k.key /\ n.resp = k.resp
    /\ n.queue = k.queue /\ n.token = k.token /\ n.pump = k.pump
    /\ n.closedEv = k.closedEv /\ n.dropEv = k.dropEv /\ n.established = k.established
    /\ n.empty = k.empty /\ n.bare = k.bare
    /\ n.ctl \in {k.ctl, Posted(k.ctl, "stop")}

LEMMA CloseConnIs ==
    ASSUME NEW k \in Connections
    PROVE  /\ CloseConn(k) \in Connections
           /\ SameBut(k, CloseConn(k))
           /\ CloseConn(k).closed /\ CloseConn(k).peer = k.peer
           /\ IF k.closed THEN CloseConn(k) = k ELSE CloseConn(k).pub = <<"closed">> /\ CloseConn(k).ctx
<1>1. CASE k.closed
  <2>1. CloseConn(k) = k  BY <1>1 DEF CloseConn
  <2> QED  BY <1>1, <2>1 DEF SameBut
<1>2. CASE ~ k.closed
  <2> DEFINE h == [k EXCEPT !.closed = TRUE, !.pub = <<"closed">>,
                            !.gnet = IF @ = "open" THEN "closing" ELSE @]
             j == [h EXCEPT !.ctx = TRUE]
  <2>1. CloseConn(k) = StopHeartbeat(j)  BY <1>2 DEF CloseConn, DoClose
  <2>2. <<"closed">> \in Publications  BY DEF Publications
  <2>3. h \in Connections  BY <2>2 DEF Connections
  <2>4. j \in Connections  BY <2>3 DEF Connections
  <2>5. j.closed /\ j.ctx /\ j.pub = <<"closed">> /\ j.peer = k.peer /\ SameBut(k, j) /\ j.ctl = k.ctl
    BY DEF Connections, SameBut
  <2> HIDE DEF h, j
  <2>6. StopHeartbeat(j) \in Connections
        /\ StopHeartbeat(j) = [j EXCEPT !.ctl = StopHeartbeat(j).ctl]
        /\ StopHeartbeat(j).ctl \in {j.ctl, Posted(j.ctl, "stop")}
    BY <2>4, StopHeartbeatIs
  <2> DEFINE n == StopHeartbeat(j)
  <2>7. n.closed /\ n.ctx /\ n.pub = j.pub /\ n.peer = j.peer /\ SameBut(j, n)
    BY <2>4, <2>5, <2>6 DEF Connections, SameBut
  <2> QED  BY <1>2, <2>1, <2>5, <2>6, <2>7 DEF SameBut
<1> QED  BY <1>1, <1>2

LEMMA OnCloseIs ==
    ASSUME NEW k \in Connections
    PROVE  /\ OnClose(k) \in Connections
           /\ SameBut(k, OnClose(k))
           /\ OnClose(k).closed
           /\ IF k.closed
              THEN /\ OnClose(k).pub = k.pub /\ OnClose(k).peer = k.peer
                   /\ OnClose(k).ctl = k.ctl /\ OnClose(k).ctx = k.ctx
              ELSE /\ OnClose(k).pub = <<"drop", "closed">> /\ OnClose(k).peer
                   /\ OnClose(k).ctx
<1>1. CASE k.closed
  <2>1. OnClose(k) = [k EXCEPT !.gnet = "shut"]  BY <1>1 DEF OnClose
  <2> QED  BY <1>1, <2>1 DEF SameBut, Connections
<1>2. CASE ~ k.closed
  <2> DEFINE h == [k EXCEPT !.closed = TRUE, !.gnet = "shut", !.peer = TRUE,
                            !.pub = <<"drop", "closed">>]
             j == [h EXCEPT !.ctx = TRUE]
  <2>1. OnClose(k) = StopHeartbeat(j)  BY <1>2 DEF OnClose, DoClose
  <2>2. <<"drop", "closed">> \in Publications  BY DEF Publications
  <2>3. h \in Connections  BY <2>2 DEF Connections
  <2>4. j \in Connections  BY <2>3 DEF Connections
  <2>5. j.closed /\ j.ctx /\ j.pub = <<"drop", "closed">> /\ j.peer /\ SameBut(k, j) /\ j.ctl = k.ctl
    BY DEF Connections, SameBut
  <2> HIDE DEF h, j
  <2>6. StopHeartbeat(j) \in Connections
        /\ StopHeartbeat(j) = [j EXCEPT !.ctl = StopHeartbeat(j).ctl]
        /\ StopHeartbeat(j).ctl \in {j.ctl, Posted(j.ctl, "stop")}
    BY <2>4, StopHeartbeatIs
  <2> DEFINE n == StopHeartbeat(j)
  <2>7. n.closed /\ n.ctx /\ n.pub = j.pub /\ n.peer = j.peer /\ SameBut(j, n)
    BY <2>4, <2>5, <2>6 DEF Connections, SameBut
  <2> QED  BY <1>2, <2>1, <2>5, <2>6, <2>7 DEF SameBut
<1> QED  BY <1>1, <1>2

-----------------------------------------------------------------------------
(* What the actions do to the connections: one of them changes, and most   *)
(* of it stays as it is.                                                   *)

\* Only connection c changes.
Changes(c) ==
    /\ c \in 1 .. Len(conns)
    /\ conns' \in Seq(Connections) /\ Len(conns') = Len(conns)
    /\ \A d \in 1 .. Len(conns) : d # c => conns'[d] = conns[d]

\* The parts of a connection: its life and its events, its answers, its
\* heartbeat, its listener.
SameLife(k, n) ==
    /\ n.closed = k.closed /\ n.pub = k.pub /\ n.peer = k.peer
    /\ n.closedEv = k.closedEv /\ n.dropEv = k.dropEv /\ n.established = k.established
SameAnswers(k, n) == n.inb = k.inb /\ n.resp = k.resp
SameBeat(k, n) ==
    /\ n.closed = k.closed /\ n.ctx = k.ctx /\ n.pump = k.pump /\ n.hb = k.hb
    /\ n.ctl = k.ctl /\ n.key = k.key /\ n.empty = k.empty /\ n.bare = k.bare
SameListener(k, n) == n.closed = k.closed /\ n.queue = k.queue /\ n.token = k.token

LEMMA UpdateIs ==
    ASSUME conns \in Seq(Connections), NEW c \in 1 .. Len(conns), NEW n \in Connections,
           conns' = [conns EXCEPT ![c] = n]
    PROVE  Changes(c) /\ conns'[c] = n
BY SeqExcept DEF Changes

LEMMA IndexIs ==
    ASSUME NetTypes
    PROVE  /\ Conns = 1 .. Len(conns) /\ conns \in Seq(Connections)
           /\ \A c \in Conns : conns[c] \in Connections
           /\ DOMAIN reqs = 1 .. Len(reqs)
           /\ \A r \in DOMAIN reqs : reqs[r] \in Requests
           /\ cur # 0 => cur \in Conns
BY DEF NetTypes, Conns

LEMMA PublishEffect ==
    ASSUME NetTypes, NEW c \in Conns, Publish(c)
    PROVE  /\ Changes(c)
           /\ SameAnswers(conns[c], conns'[c]) /\ SameBeat(conns[c], conns'[c])
           /\ SameListener(conns[c], conns'[c])
           /\ conns'[c].established = conns[c].established /\ conns'[c].peer = conns[c].peer
           /\ conns[c].pub # <<>> /\ conns'[c].pub = Tail(conns[c].pub)
           /\ IF Head(conns[c].pub) = "closed"
              THEN /\ conns'[c].closedEv = Published(conns[c].closedEv)
                   /\ conns'[c].dropEv = conns[c].dropEv
                   /\ Delivers(conns[c].closedEv, Published(conns[c].closedEv), "closed")
              ELSE /\ conns'[c].dropEv = Published(conns[c].dropEv)
                   /\ conns'[c].closedEv = conns[c].closedEv
                   /\ Delivers(conns[c].dropEv, Published(conns[c].dropEv), "drop")
<1> DEFINE k == conns[c]
<1>0. conns \in Seq(Connections) /\ c \in 1 .. Len(conns) /\ k \in Connections
  BY IndexIs
<1>1. k.pub \in Publications /\ k.pub # <<>> /\ k.closedEv \in LifecycleEvents /\ k.dropEv \in LifecycleEvents
  BY <1>0, ConnectionFields DEF Publish
<1>2. Tail(k.pub) \in Publications  BY <1>1, PublicationTail
<1>3. CASE Head(k.pub) = "closed"
  <2> DEFINE n == [k EXCEPT !.pub = Tail(k.pub), !.closedEv = Published(k.closedEv)]
  <2>1. conns' = [conns EXCEPT ![c] = n]  BY <1>0, <1>3 DEF Publish
  <2>2. Published(k.closedEv) \in LifecycleEvents  BY <1>1, EventStays
  <2>3. n \in Connections  BY <1>0, <1>2, <2>2 DEF Connections
  <2>4. /\ SameAnswers(k, n) /\ SameBeat(k, n) /\ SameListener(k, n)
        /\ n.established = k.established /\ n.peer = k.peer /\ n.pub = Tail(k.pub)
        /\ n.closedEv = Published(k.closedEv) /\ n.dropEv = k.dropEv
    BY <1>0 DEF Connections, SameAnswers, SameBeat, SameListener
  <2> HIDE DEF n
  <2>5. Changes(c) /\ conns'[c] = n  BY <1>0, <2>1, <2>3, UpdateIs
  <2> QED  BY <1>1, <1>3, <2>4, <2>5 DEF Publish
<1>4. CASE Head(k.pub) # "closed"
  <2> DEFINE n == [k EXCEPT !.pub = Tail(k.pub), !.dropEv = Published(k.dropEv)]
  <2>1. conns' = [conns EXCEPT ![c] = n]  BY <1>0, <1>4 DEF Publish
  <2>2. Published(k.dropEv) \in LifecycleEvents  BY <1>1, EventStays
  <2>3. n \in Connections  BY <1>0, <1>2, <2>2 DEF Connections
  <2>4. /\ SameAnswers(k, n) /\ SameBeat(k, n) /\ SameListener(k, n)
        /\ n.established = k.established /\ n.peer = k.peer /\ n.pub = Tail(k.pub)
        /\ n.dropEv = Published(k.dropEv) /\ n.closedEv = k.closedEv
    BY <1>0 DEF Connections, SameAnswers, SameBeat, SameListener
  <2> HIDE DEF n
  <2>5. Changes(c) /\ conns'[c] = n  BY <1>0, <2>1, <2>3, UpdateIs
  <2> QED  BY <1>1, <1>4, <2>4, <2>5 DEF Publish
<1> QED  BY <1>3, <1>4

LEMMA OnTrafficEffect ==
    ASSUME NetTypes, NEW c \in Conns, NEW f \in Frames, OnTraffic(c, f)
    PROVE  /\ Changes(c)
           /\ SameLife(conns[c], conns'[c]) /\ SameBeat(conns[c], conns'[c])
           /\ SameListener(conns[c], conns'[c]) /\ conns'[c].resp = conns[c].resp
           /\ conns'[c].inb \in {conns[c].inb, Append(conns[c].inb, f)}
<1> DEFINE k == conns[c]
           result == EnqueueRaw(k)
           n == [k EXCEPT !.inb = IF result = "ok" THEN Append(k.inb, f) ELSE k.inb,
                          !.gnet = IF result = "full" THEN "closing" ELSE k.gnet]
<1>0. conns \in Seq(Connections) /\ c \in 1 .. Len(conns) /\ k \in Connections
  BY IndexIs
<1>1. conns' = [conns EXCEPT ![c] = n]  BY <1>0 DEF OnTraffic
<1>2. (IF result = "ok" THEN Append(k.inb, f) ELSE k.inb) \in Inbox
  BY <1>0, ConnectionFields, InboxGrows DEF EnqueueRaw
<1>3. n \in Connections  BY <1>0, <1>2 DEF Connections
<1>4. /\ SameLife(k, n) /\ SameBeat(k, n) /\ SameListener(k, n) /\ n.resp = k.resp
      /\ n.inb \in {k.inb, Append(k.inb, f)}
  BY <1>0 DEF Connections, SameLife, SameBeat, SameListener
<1> HIDE DEF n
<1>5. Changes(c) /\ conns'[c] = n  BY <1>0, <1>1, <1>3, UpdateIs
<1> QED  BY <1>4, <1>5

LEMMA GnetOnCloseEffect ==
    ASSUME NetTypes, NEW c \in Conns, GnetOnClose(c)
    PROVE  Changes(c) /\ conns'[c] = OnClose(conns[c])
<1>0. conns \in Seq(Connections) /\ c \in 1 .. Len(conns) /\ conns[c] \in Connections
  BY IndexIs
<1>1. OnClose(conns[c]) \in Connections  BY <1>0, OnCloseIs
<1>2. conns' = [conns EXCEPT ![c] = OnClose(conns[c])]  BY <1>0 DEF GnetOnClose
<1> QED  BY <1>0, <1>1, <1>2, UpdateIs

-----------------------------------------------------------------------------
\* OnReceive either leaves the requests, or puts the answer in the empty channel
\* of the request that is registered.
LEMMA PumpFrameEffect ==
    ASSUME NetTypes, NEW c \in Conns, PumpFrame(c)
    PROVE  /\ Changes(c)
           /\ SameLife(conns[c], conns'[c]) /\ SameBeat(conns[c], conns'[c])
           /\ conns'[c].resp = conns[c].resp
           /\ conns[c].inb # <<>> /\ conns'[c].inb = Tail(conns[c].inb)
           /\ \/ SameListener(conns[c], conns'[c])
              \/ conns'[c].token /\ conns'[c].closed = conns[c].closed
           /\ \/ UNCHANGED reqs
              \/ /\ Head(conns[c].inb).kind = "answer" /\ conns[c].resp # 0
                 /\ reqs' = [reqs EXCEPT ![conns[c].resp].buf =
                               IF @ = 0 THEN Head(conns[c].inb).id ELSE @]
           /\ \/ UNCHANGED mailbox
              \/ /\ ~ cancelled
                 /\ mailbox' = Enqueued(mailbox, Head(conns[c].inb).id)
<1> DEFINE k == conns[c]
           f == Head(k.inb)
           t == [k EXCEPT !.inb = Tail(k.inb)]
           rest == [conns EXCEPT ![c].inb = Tail(@)]
<1>0. conns \in Seq(Connections) /\ c \in 1 .. Len(conns) /\ k \in Connections
  BY IndexIs
<1>1. k.inb # <<>> /\ k.inb \in Inbox /\ OnReceive(c, f)
  BY <1>0, ConnectionFields DEF PumpFrame
<1>2. Tail(k.inb) \in Inbox /\ f \in Frames  BY <1>1, TailStays
<1>3. t \in Connections /\ rest = [conns EXCEPT ![c] = t]
  BY <1>0, <1>2 DEF Connections
<1>4. /\ SameLife(k, t) /\ SameBeat(k, t) /\ t.resp = k.resp /\ t.inb = Tail(k.inb)
      /\ SameListener(k, t) /\ t.queue = k.queue
  BY <1>0 DEF Connections, SameLife, SameBeat, SameListener
<1>5. ASSUME conns' = rest
      PROVE  Changes(c) /\ conns'[c] = t
  BY <1>0, <1>3, <1>5, UpdateIs
<1>6. CASE k.closed
  BY <1>1, <1>4, <1>5, <1>6 DEF OnReceive
<1>7. CASE ~ k.closed /\ f.kind = "answer" /\ k.resp # 0
  <2>1. /\ conns' = rest /\ UNCHANGED mailbox
        /\ reqs' = [reqs EXCEPT ![k.resp].buf = IF @ = 0 THEN f.id ELSE @]
    BY <1>1, <1>7 DEF OnReceive
  <2> QED  BY <1>1, <1>4, <1>5, <1>7, <2>1
<1>8. CASE ~ k.closed /\ f.kind = "push" /\ k.listens
  <2> DEFINE n == [t EXCEPT !.queue = Append(IF Len(t.queue) < QueueSize THEN t.queue ELSE Tail(t.queue), f.id),
                            !.token = TRUE]
  <2>1. conns' = [rest EXCEPT ![c] = Push(@, f.id)] /\ UNCHANGED <<reqs, mailbox>>
    BY <1>1, <1>8 DEF OnReceive
  <2>a. rest[c] = t
    <3> HIDE DEF t, rest
    <3> QED  BY <1>0, <1>3, SeqExcept
  <2>b. Push(t, f.id) = n
    <3> HIDE DEF t, f
    <3> QED  BY <1>3 DEF Push, Connections
  <2>2. rest[c] = t /\ Push(t, f.id) = n  BY <2>a, <2>b
  <2>3. conns' = [conns EXCEPT ![c] = n]  BY <1>0, <1>3, <2>1, <2>2
  <2>4. t.queue \in Backlog /\ f.id \in Nat
    BY <1>2, <1>3, ConnectionFields DEF Frames
  <2>5. Append(IF Len(t.queue) < QueueSize THEN t.queue ELSE Tail(t.queue), f.id) \in Backlog
    BY <2>4, BacklogGrows
  <2>6. n \in Connections  BY <1>3, <2>5 DEF Connections
  <2>7. SameLife(t, n) /\ SameBeat(t, n) /\ n.resp = t.resp /\ n.inb = t.inb /\ n.token
        /\ n.closed = t.closed
    BY <1>3 DEF Connections, SameLife, SameBeat
  <2> HIDE DEF n, t
  <2>8. Changes(c) /\ conns'[c] = n  BY <1>0, <2>3, <2>6, UpdateIs
  <2>9. SameLife(k, n) /\ SameBeat(k, n) /\ n.closed = k.closed
    BY <1>4, <2>7 DEF SameLife, SameBeat
  <2> QED  BY <1>1, <1>4, <2>1, <2>7, <2>8, <2>9
<1>9. CASE ~ k.closed /\ f.kind = "call" /\ k.listens
  <2>1. conns' = rest /\ UNCHANGED reqs /\ mailbox' = CallbackPosts(f.id)
    BY <1>1, <1>9 DEF OnReceive
  <2> QED  BY <1>1, <1>4, <1>5, <2>1 DEF CallbackPosts
<1>10. CASE /\ ~ k.closed /\ ~ (f.kind = "answer" /\ k.resp # 0)
            /\ ~ (f.kind = "push" /\ k.listens) /\ ~ (f.kind = "call" /\ k.listens)
  <2>1. conns' = rest /\ UNCHANGED <<reqs, mailbox>>
    BY <1>1, <1>10 DEF OnReceive
  <2> QED  BY <1>1, <1>4, <1>5, <2>1
<1> QED  BY <1>6, <1>7, <1>8, <1>9, <1>10

LEMMA PumpControlEffect ==
    ASSUME NetTypes, NEW c \in Conns, PumpControl(c)
    PROVE  /\ Changes(c)
           /\ SameLife(conns[c], conns'[c]) /\ SameAnswers(conns[c], conns'[c])
           /\ SameListener(conns[c], conns'[c])
           /\ conns'[c].hb = (Head(conns[c].ctl) = "heartbeat")
           /\ conns[c].ctl # <<>> /\ conns'[c].ctl = Tail(conns[c].ctl)
           /\ conns'[c].ctx = conns[c].ctx /\ conns'[c].pump = conns[c].pump
           /\ conns'[c].key = conns[c].key /\ conns'[c].empty = conns[c].empty
           /\ conns'[c].bare = conns[c].bare
<1> DEFINE k == conns[c]
           n == [k EXCEPT !.hb = (Head(k.ctl) = "heartbeat"), !.ctl = Tail(k.ctl)]
<1>0. conns \in Seq(Connections) /\ c \in 1 .. Len(conns) /\ k \in Connections
  BY IndexIs
<1>1. k.ctl # <<>> /\ k.ctl \in Controls  BY <1>0, ConnectionFields DEF PumpControl
<1>2. conns' = [conns EXCEPT ![c] = n]  BY <1>0 DEF PumpControl
<1>3. n \in Connections  BY <1>0, <1>1, TailStays DEF Connections
<1>4. /\ SameLife(k, n) /\ SameAnswers(k, n) /\ SameListener(k, n)
      /\ n.hb = (Head(k.ctl) = "heartbeat") /\ n.ctl = Tail(k.ctl)
      /\ n.ctx = k.ctx /\ n.pump = k.pump /\ n.key = k.key /\ n.empty = k.empty
      /\ n.bare = k.bare
  BY <1>0 DEF Connections, SameLife, SameAnswers, SameListener
<1> HIDE DEF n
<1>5. Changes(c) /\ conns'[c] = n  BY <1>0, <1>2, <1>3, UpdateIs
<1> QED  BY <1>1, <1>4, <1>5

LEMMA PumpExitEffect ==
    ASSUME NetTypes, NEW c \in Conns, PumpExit(c)
    PROVE  /\ Changes(c)
           /\ SameLife(conns[c], conns'[c]) /\ SameListener(conns[c], conns'[c])
           /\ conns'[c].inb = <<>> /\ conns'[c].resp = conns[c].resp
           /\ conns[c].ctx /\ conns'[c].ctx /\ conns'[c].pump = "done" /\ ~ conns'[c].hb
           /\ conns'[c].ctl = conns[c].ctl /\ conns'[c].key = conns[c].key
           /\ conns'[c].empty = conns[c].empty /\ conns'[c].bare = conns[c].bare
<1> DEFINE k == conns[c]
           n == [k EXCEPT !.pump = "done", !.inb = <<>>, !.hb = FALSE]
<1>0. conns \in Seq(Connections) /\ c \in 1 .. Len(conns) /\ k \in Connections
  BY IndexIs
<1>1. conns' = [conns EXCEPT ![c] = n] /\ k.ctx  BY <1>0 DEF PumpExit
<1>2. n \in Connections  BY <1>0, EmptyChannels DEF Connections
<1>3. /\ SameLife(k, n) /\ SameListener(k, n) /\ n.inb = <<>> /\ n.resp = k.resp
      /\ n.ctx = k.ctx /\ n.pump = "done" /\ ~ n.hb
      /\ n.ctl = k.ctl /\ n.key = k.key /\ n.empty = k.empty /\ n.bare = k.bare
  BY <1>0 DEF Connections, SameLife, SameListener
<1> HIDE DEF n
<1>4. Changes(c) /\ conns'[c] = n  BY <1>0, <1>1, <1>2, UpdateIs
<1> QED  BY <1>1, <1>3, <1>4

LEMMA PumpBeatEffect ==
    ASSUME NetTypes, NEW c \in Conns, PumpBeat(c)
    PROVE  /\ Changes(c)
           /\ SameLife(conns[c], conns'[c]) /\ SameAnswers(conns[c], conns'[c])
           /\ SameListener(conns[c], conns'[c])
           /\ conns[c].hb /\ conns'[c].hb
           /\ conns'[c].ctx = conns[c].ctx /\ conns'[c].pump = conns[c].pump
           /\ conns'[c].ctl = conns[c].ctl /\ conns'[c].key = conns[c].key
           /\ conns'[c].empty = conns[c].empty
           /\ conns'[c].bare = (conns[c].bare \/ ~ conns[c].key)
<1> DEFINE k == conns[c]
           n == [k EXCEPT !.bare = k.bare \/ ~ k.key]
<1>0. conns \in Seq(Connections) /\ c \in 1 .. Len(conns) /\ k \in Connections
  BY IndexIs
<1>1. conns' = [conns EXCEPT ![c] = n] /\ k.hb  BY <1>0 DEF PumpBeat
<1>2. n \in Connections  BY <1>0 DEF Connections
<1>3. /\ SameLife(k, n) /\ SameAnswers(k, n) /\ SameListener(k, n)
      /\ n.hb = k.hb /\ n.ctx = k.ctx /\ n.pump = k.pump /\ n.ctl = k.ctl
      /\ n.key = k.key /\ n.empty = k.empty /\ n.bare = (k.bare \/ ~ k.key)
  BY <1>0 DEF Connections, SameLife, SameAnswers, SameListener
<1> HIDE DEF n
<1>4. Changes(c) /\ conns'[c] = n  BY <1>0, <1>1, <1>2, UpdateIs
<1> QED  BY <1>1, <1>3, <1>4

-----------------------------------------------------------------------------
(* The calls of the owner. *)

\* Everything but the state of the socket and what is listened to.
SameParts(k, n) ==
    SameLife(k, n) /\ SameAnswers(k, n) /\ SameBeat(k, n) /\ SameListener(k, n)

\* A connection that is closed by this side, or was closed before.
Closes(k, n) ==
    /\ SameBut(k, n) /\ n.closed /\ n.peer = k.peer
    /\ k.closed => n.pub = k.pub /\ n.ctl = k.ctl /\ n.ctx = k.ctx
    /\ ~ k.closed => n.pub = <<"closed">> /\ n.ctx

LEMMA CloseConnCloses ==
    ASSUME NEW k \in Connections
    PROVE  CloseConn(k) \in Connections /\ Closes(k, CloseConn(k))
BY CloseConnIs DEF Closes

LEMMA CallListenOnEffect ==
    ASSUME NetTypes, CallListenOn
    PROVE  \/ UNCHANGED conns
           \/ cur # 0 /\ Changes(cur) /\ SameParts(conns[cur], conns'[cur])
<1> DEFINE k == conns[cur]
           n == RegisterListen(k)
<1>1. CASE cur = 0  BY <1>1 DEF CallListenOn
<1>2. CASE cur # 0
  <2>0. conns \in Seq(Connections) /\ cur \in 1 .. Len(conns) /\ k \in Connections
    BY <1>2, IndexIs
  <2>1. conns' = [conns EXCEPT ![cur] = n]  BY <1>2, <2>0 DEF CallListenOn
  <2>2. n \in Connections /\ SameParts(k, n)
    <3>1. CASE k.closed
      BY <2>0, <3>1 DEF RegisterListen, SameParts, SameLife, SameAnswers, SameBeat, SameListener
    <3>2. CASE ~ k.closed
      <4> DEFINE l == [k EXCEPT !.listens = TRUE]
      <4>1. n = l  BY <3>2 DEF RegisterListen
      <4>2. l \in Connections  BY <2>0 DEF Connections
      <4>3. SameParts(k, l)
        BY <2>0 DEF Connections, SameParts, SameLife, SameAnswers, SameBeat, SameListener
      <4> QED  BY <4>1, <4>2, <4>3
    <3> QED  BY <3>1, <3>2
  <2> HIDE DEF n
  <2>3. Changes(cur) /\ conns'[cur] = n  BY <2>0, <2>1, <2>2, UpdateIs
  <2> QED  BY <1>2, <2>2, <2>3
<1> QED  BY <1>1, <1>2

\* An order on the control channel: heartbeat h is in it or the channel is full.
Ordered(k, n) ==
    /\ SameLife(k, n) /\ SameAnswers(k, n) /\ SameListener(k, n)
    /\ n.ctx = k.ctx /\ n.pump = k.pump /\ n.hb = k.hb /\ n.bare = k.bare
    /\ n.key = k.key /\ n.empty = k.empty
    /\ n.ctl = IF k.closed \/ k.pump = "off" THEN k.ctl ELSE Posted(k.ctl, "heartbeat")

LEMMA RegisterHeartbeatIs ==
    ASSUME NEW k \in Connections
    PROVE  RegisterHeartbeat(k) \in Connections /\ Ordered(k, RegisterHeartbeat(k))
<1>1. Posted(k.ctl, "heartbeat") \in Controls
  BY ConnectionFields, PostedStays, OrdersIn
<1>2. CASE k.closed \/ k.pump = "off"
  BY <1>2 DEF RegisterHeartbeat, Ordered, SameLife, SameAnswers, SameListener
<1>3. CASE ~ (k.closed \/ k.pump = "off")
  <2> DEFINE n == [k EXCEPT !.ctl = Posted(k.ctl, "heartbeat")]
  <2>1. RegisterHeartbeat(k) = n  BY <1>3 DEF RegisterHeartbeat
  <2>2. n \in Connections  BY <1>1 DEF Connections
  <2>3. Ordered(k, n)  BY <1>3 DEF Connections, Ordered, SameLife, SameAnswers, SameListener
  <2> QED  BY <2>1, <2>2, <2>3
<1> QED  BY <1>2, <1>3

LEMMA CallSetKeyEffect ==
    ASSUME NetTypes, NEW op, CallSetKey(op)
    PROVE  \/ UNCHANGED <<conns, pending>> /\ cur = 0
           \/ /\ cur # 0 /\ Changes(cur) /\ pending' = FALSE
              /\ SameLife(conns[cur], conns'[cur]) /\ SameAnswers(conns[cur], conns'[cur])
              /\ SameListener(conns[cur], conns'[cur])
              /\ conns'[cur].ctx = conns[cur].ctx /\ conns'[cur].pump = conns[cur].pump
              /\ conns'[cur].hb = conns[cur].hb /\ conns'[cur].bare = conns[cur].bare
              /\ conns'[cur].empty = (conns[cur].empty \/ op = "emptykey")
              /\ conns'[cur].key = (conns[cur].key \/ (~ conns[cur].closed /\ op = "key"))
              /\ conns'[cur].ctl =
                   IF pending /\ ~ cancelled /\ ~ conns[cur].closed /\ conns[cur].pump # "off"
                   THEN Posted(conns[cur].ctl, "heartbeat") ELSE conns[cur].ctl
<1> DEFINE k == conns[cur]
           keyed == KeySet(k, op = "key")
           noted == [keyed EXCEPT !.empty = @ \/ op = "emptykey"]
           set == [conns EXCEPT ![cur] = noted]
<1>1. CASE cur = 0  BY <1>1 DEF CallSetKey
<1>2. CASE cur # 0
  <2>0. conns \in Seq(Connections) /\ cur \in 1 .. Len(conns) /\ k \in Connections
    BY <1>2, IndexIs
  <2>1. /\ pending' = FALSE
        /\ conns' = IF pending THEN InstallHeartbeat(set) ELSE set
    BY <1>2 DEF CallSetKey
  <2>2. /\ keyed \in Connections
        /\ keyed = [k EXCEPT !.key = k.key \/ (~ k.closed /\ op = "key")]
    <3>1. CASE k.closed \/ op # "key"
      <4>1. keyed = k  BY <3>1 DEF KeySet
      <4> QED  BY <2>0, <3>1, <4>1 DEF Connections
    <3>2. CASE ~ k.closed /\ op = "key"
      <4>1. keyed = [k EXCEPT !.key = TRUE]  BY <3>2 DEF KeySet
      <4> QED  BY <2>0, <3>2, <4>1 DEF Connections
    <3> QED  BY <3>1, <3>2
  <2>3. /\ noted \in Connections
        /\ SameLife(k, noted) /\ SameAnswers(k, noted) /\ SameListener(k, noted)
        /\ noted.ctx = k.ctx /\ noted.pump = k.pump /\ noted.hb = k.hb /\ noted.bare = k.bare
        /\ noted.ctl = k.ctl /\ noted.closed = k.closed
        /\ noted.empty = (k.empty \/ op = "emptykey")
        /\ noted.key = (k.key \/ (~ k.closed /\ op = "key"))
    <3> DEFINE kk == k.key \/ (~ k.closed /\ op = "key")
               ee == k.empty \/ op = "emptykey"
               m == [k EXCEPT !.key = kk, !.empty = ee]
    <3>1. kk \in BOOLEAN /\ ee \in BOOLEAN  BY <2>0, ConnectionFields
    <3>2. noted = m
      <4>0. keyed = [k EXCEPT !.key = kk]  BY <2>2
      <4> HIDE DEF keyed, kk
      <4>1. keyed.empty = k.empty  BY <2>0, <4>0 DEF Connections
      <4>2. noted = [keyed EXCEPT !.empty = ee]  BY <4>1
      <4> HIDE DEF noted, ee
      <4> QED  BY <2>0, <4>0, <4>2 DEF Connections
    <3> HIDE DEF kk, ee
    <3>3. m \in Connections  BY <2>0, <3>1 DEF Connections
    <3>4. /\ SameLife(k, m) /\ SameAnswers(k, m) /\ SameListener(k, m)
          /\ m.ctx = k.ctx /\ m.pump = k.pump /\ m.hb = k.hb /\ m.bare = k.bare
          /\ m.ctl = k.ctl /\ m.closed = k.closed /\ m.empty = ee /\ m.key = kk
      BY <2>0 DEF Connections, SameLife, SameAnswers, SameListener
    <3> HIDE DEF m, noted
    <3> QED  BY <3>2, <3>3, <3>4 DEF kk, ee
  <2> HIDE DEF noted
  <2>4. set \in Seq(Connections) /\ Len(set) = Len(conns) /\ set[cur] = noted
        /\ \A d \in 1 .. Len(conns) : d # cur => set[d] = conns[d]
    BY <2>0, <2>3, SeqExcept
  <2>5. CASE pending /\ ~ cancelled
    <3> DEFINE n == RegisterHeartbeat(noted)
    <3>1. n \in Connections /\ Ordered(noted, n)  BY <2>3, RegisterHeartbeatIs
    <3>2. conns' = [set EXCEPT ![cur] = n]
      BY <1>2, <2>1, <2>4, <2>5 DEF InstallHeartbeat
    <3> HIDE DEF n, set
    <3>3. /\ conns' \in Seq(Connections) /\ Len(conns') = Len(conns) /\ conns'[cur] = n
          /\ \A d \in 1 .. Len(conns) : d # cur => conns'[d] = conns[d]
      BY <2>0, <2>4, <3>1, <3>2, SeqExcept
    <3>4. Changes(cur)  BY <2>0, <3>3 DEF Changes
    <3>5. SameLife(k, n) /\ SameAnswers(k, n) /\ SameListener(k, n)
      BY <2>3, <3>1 DEF Ordered, SameLife, SameAnswers, SameListener
    <3>6. n.ctx = k.ctx /\ n.pump = k.pump /\ n.hb = k.hb /\ n.bare = k.bare
      BY <2>3, <3>1 DEF Ordered
    <3>7. /\ n.empty = (k.empty \/ op = "emptykey")
          /\ n.key = (k.key \/ (~ k.closed /\ op = "key"))
      BY <2>3, <3>1 DEF Ordered
    <3>8. n.ctl = IF k.closed \/ k.pump = "off" THEN k.ctl ELSE Posted(k.ctl, "heartbeat")
      BY <2>3, <3>1 DEF Ordered
    <3> QED  BY <1>2, <2>1, <2>5, <3>3, <3>4, <3>5, <3>6, <3>7, <3>8
  <2>6. CASE ~ (pending /\ ~ cancelled)
    <3>1. conns' = set  BY <2>1, <2>6 DEF InstallHeartbeat
    <3> HIDE DEF set
    <3>2. Changes(cur) /\ conns'[cur] = noted  BY <2>0, <2>4, <3>1 DEF Changes
    <3> QED  BY <1>2, <2>1, <2>3, <2>6, <3>2
  <2> QED  BY <2>5, <2>6
<1> QED  BY <1>1, <1>2

LEMMA CallCloseEffect ==
    ASSUME NetTypes, CallClose
    PROVE  /\ cur' = 0
           /\ \/ UNCHANGED conns /\ cur = 0
              \/ cur # 0 /\ Changes(cur) /\ Closes(conns[cur], conns'[cur])
<1>1. CASE cur = 0  BY <1>1 DEF CallClose
<1>2. CASE cur # 0
  <2>0. conns \in Seq(Connections) /\ cur \in 1 .. Len(conns) /\ conns[cur] \in Connections
    BY <1>2, IndexIs
  <2>1. conns' = [conns EXCEPT ![cur] = CloseConn(conns[cur])] /\ cur' = 0
    BY <1>2, <2>0 DEF CallClose
  <2> QED  BY <1>2, <2>0, <2>1, CloseConnCloses, UpdateIs
<1> QED  BY <1>1, <1>2

LEMMA CloseAllEffect ==
    ASSUME NetTypes, CloseAll
    PROVE  /\ cur' = 0
           /\ \/ UNCHANGED conns /\ cur = 0
              \/ cur # 0 /\ Changes(cur) /\ Closes(conns[cur], conns'[cur])
<1>1. cur' = 0 /\ conns' = [c \in Conns |-> IF c = cur THEN CloseConn(conns[c]) ELSE conns[c]]
  BY DEF CloseAll
<1>2. CASE cur = 0
  <2>1. conns' = conns  BY <1>1, <1>2, IndexIs
  <2> QED  BY <1>1, <1>2, <2>1
<1>3. CASE cur # 0
  <2>0. conns \in Seq(Connections) /\ cur \in 1 .. Len(conns) /\ conns[cur] \in Connections
    BY <1>3, IndexIs
  <2>1. conns' = [conns EXCEPT ![cur] = CloseConn(conns[cur])]
    BY <1>1, <1>3, <2>0, IndexIs
  <2> QED  BY <1>1, <1>3, <2>0, <2>1, CloseConnCloses, UpdateIs
<1> QED  BY <1>2, <1>3

-----------------------------------------------------------------------------
\* Everything but the entry of the request.
SameButResp(k, n) ==
    SameLife(k, n) /\ SameBeat(k, n) /\ SameListener(k, n) /\ n.inb = k.inb

LEMMA RespIs ==
    ASSUME NEW k \in Connections, NEW r \in Nat
    PROVE  /\ [k EXCEPT !.resp = r] \in Connections
           /\ SameButResp(k, [k EXCEPT !.resp = r])
           /\ [k EXCEPT !.resp = r].resp = r
BY DEF Connections, SameButResp, SameLife, SameBeat, SameListener

LEMMA SendRequestEffect ==
    ASSUME NetTypes, NEW sent \in BOOLEAN, cur # 0, SendRequest(sent)
    PROVE  /\ Changes(cur) /\ SameButResp(conns[cur], conns'[cur])
           /\ conns'[cur].resp = IF sent THEN Len(reqs) + 1 ELSE 0
           /\ reqs' \in Seq(Requests) /\ Len(reqs') = Len(reqs) + 1
           /\ reqs'[Len(reqs) + 1] =
                [conn |-> cur, open |-> sent, sent |-> sent, buf |-> 0, got |-> 0]
           /\ \A r \in 1 .. Len(reqs) : reqs'[r] = reqs[r]
<1> DEFINE k == conns[cur]
           q == [conn |-> cur, open |-> sent, sent |-> sent, buf |-> 0, got |-> 0]
           v == IF sent THEN Len(reqs) + 1 ELSE 0
           n == [k EXCEPT !.resp = v]
<1>0. /\ conns \in Seq(Connections) /\ cur \in 1 .. Len(conns) /\ k \in Connections
      /\ reqs \in Seq(Requests) /\ Len(reqs) \in Nat
  BY IndexIs DEF NetTypes
<1>1. q \in Requests /\ v \in Nat  BY <1>0 DEF Requests
<1>2. reqs' = Append(reqs, q)  BY DEF SendRequest
<1> HIDE DEF q
<1>3. /\ reqs' \in Seq(Requests) /\ Len(reqs') = Len(reqs) + 1 /\ reqs'[Len(reqs) + 1] = q
      /\ \A r \in 1 .. Len(reqs) : reqs'[r] = reqs[r]
  BY <1>0, <1>1, <1>2, SeqAppend
<1>4. conns' = [conns EXCEPT ![cur] = n]  BY <1>0, <1>3 DEF SendRequest
<1> HIDE DEF v
<1>5. n \in Connections /\ SameButResp(k, n) /\ n.resp = v  BY <1>0, <1>1, RespIs
<1> HIDE DEF n
<1>6. Changes(cur) /\ conns'[cur] = n  BY <1>0, <1>4, <1>5, UpdateIs
<1> QED  BY <1>3, <1>5, <1>6 DEF v, q

LEMMA CloseRequestEffect ==
    ASSUME NetTypes, NEW r \in 1 .. Len(reqs), NEW answer \in Nat, CloseRequest(r, answer)
    PROVE  /\ Changes(reqs[r].conn)
           /\ SameButResp(conns[reqs[r].conn], conns'[reqs[r].conn])
           /\ conns'[reqs[r].conn].resp =
                IF conns[reqs[r].conn].resp = r THEN 0 ELSE conns[reqs[r].conn].resp
           /\ reqs' \in Seq(Requests) /\ Len(reqs') = Len(reqs)
           /\ reqs'[r] = [reqs[r] EXCEPT !.open = FALSE, !.got = answer]
           /\ \A s \in 1 .. Len(reqs) : s # r => reqs'[s] = reqs[s]
<1> DEFINE c == reqs[r].conn
           k == conns[c]
           q == [reqs[r] EXCEPT !.open = FALSE, !.got = answer]
           v == IF k.resp = r THEN 0 ELSE k.resp
           n == [k EXCEPT !.resp = v]
<1>0. /\ conns \in Seq(Connections) /\ c \in 1 .. Len(conns) /\ k \in Connections
      /\ reqs \in Seq(Requests) /\ reqs[r] \in Requests
  BY IndexIs DEF NetTypes
<1>1. q \in Requests  BY <1>0 DEF Requests
<1>2. v \in Nat  BY <1>0, ConnectionFields
<1>3. reqs' = [reqs EXCEPT ![r] = q]  BY <1>0 DEF CloseRequest
<1>4. conns' = [conns EXCEPT ![c] = n]
  <2>1. conns' = [conns EXCEPT ![c].resp = IF @ = r THEN 0 ELSE @]  BY DEF CloseRequest
  <2> HIDE DEF c
  <2> QED  BY <1>0, <2>1
<1> HIDE DEF q, v
<1>5. /\ reqs' \in Seq(Requests) /\ Len(reqs') = Len(reqs) /\ reqs'[r] = q
      /\ \A s \in 1 .. Len(reqs) : s # r => reqs'[s] = reqs[s]
  BY <1>0, <1>1, <1>3, SeqExcept
<1>6. n \in Connections /\ SameButResp(k, n) /\ n.resp = v  BY <1>0, <1>2, RespIs
<1> HIDE DEF n
<1>7. Changes(c) /\ conns'[c] = n
  <2> HIDE DEF c
  <2> QED  BY <1>0, <1>4, <1>6, UpdateIs
<1> QED  BY <1>5, <1>6, <1>7 DEF v, q

\* Everything but the queue of the listener and its signal.
SameButQueue(k, n) == SameLife(k, n) /\ SameAnswers(k, n) /\ SameBeat(k, n)

LEMMA ListenLooksEffect ==
    ASSUME NetTypes, ListenLooks
    PROVE  \/ UNCHANGED conns /\ ~ Available
           \/ /\ Available /\ cur # 0 /\ Resume
              /\ Changes(cur) /\ SameButQueue(conns[cur], conns'[cur])
<1> DEFINE k == conns[cur]
           n == Pop(k)
<1>1. CASE ~ Available  BY <1>1 DEF ListenLooks
<1>2. CASE Available
  <2>0. /\ conns \in Seq(Connections) /\ cur # 0 /\ cur \in 1 .. Len(conns)
        /\ k \in Connections /\ k.queue # <<>>
    BY <1>2, IndexIs DEF Available
  <2>1. conns' = [conns EXCEPT ![cur] = n] /\ Resume  BY <1>2, <2>0 DEF ListenLooks
  <2>2. k.queue \in Backlog /\ Tail(k.queue) \in Backlog /\ k.token \in BOOLEAN
    BY <2>0, ConnectionFields, TailStays
  <2>3. n \in Connections  BY <2>0, <2>2 DEF Pop, Connections
  <2>4. SameButQueue(k, n)
    BY <2>0 DEF Pop, Connections, SameButQueue, SameLife, SameAnswers, SameBeat
  <2> HIDE DEF n
  <2>5. Changes(cur) /\ conns'[cur] = n  BY <2>0, <2>1, <2>3, UpdateIs
  <2> QED  BY <1>2, <2>0, <2>1, <2>4, <2>5
<1> QED  BY <1>1, <1>2

LEMMA ListenWokenEffect ==
    ASSUME NetTypes, OwnerTypes, ListenWoken
    PROVE  Changes(Me.w.id) /\ SameButQueue(conns[Me.w.id], conns'[Me.w.id])
<1> DEFINE c == Me.w.id
           k == conns[c]
           n == [k EXCEPT !.token = FALSE]
<1>0. stack \in Seq(Scripts) /\ stack # <<>> /\ Me.w.kind = "listen" /\ c # 0
  BY DEF ListenWoken, In, InScript, OwnerTypes
<1>1. c \in 0 .. Len(conns)  BY <1>0 DEF OwnerTypes, Names, Me
<1>2. conns \in Seq(Connections) /\ c \in 1 .. Len(conns) /\ k \in Connections
  BY <1>0, <1>1, IndexIs DEF NetTypes
<1>3. conns' = [conns EXCEPT ![c] = n]
  <2>1. conns' = [conns EXCEPT ![c].token = FALSE]  BY DEF ListenWoken
  <2> HIDE DEF c
  <2> QED  BY <1>2, <2>1
<1>4. n \in Connections  BY <1>2 DEF Connections
<1>5. SameButQueue(k, n)
  BY <1>2 DEF Connections, SameButQueue, SameLife, SameAnswers, SameBeat
<1> HIDE DEF n
<1>6. Changes(c) /\ conns'[c] = n
  <2> HIDE DEF c
  <2> QED  BY <1>2, <1>3, <1>4, UpdateIs
<1> QED  BY <1>5, <1>6

-----------------------------------------------------------------------------
(* The dial job. *)

LEMMA JobIndex ==
    ASSUME NetTypes, JobTypes, job.pt \in Dialing
    PROVE  /\ job.conn \in Conns /\ job.conn \in 1 .. Len(conns)
           /\ conns[job.conn] \in Connections /\ conns \in Seq(Connections)
           /\ cur \in {0, job.conn}
BY IndexIs DEF JobTypes, NetTypes

LEMMA FailedEffect ==
    ASSUME NetTypes, JobTypes, job.pt \in Dialing,
           NEW cs, NEW k \in Connections,
           cs = [conns EXCEPT ![job.conn] = k], SameParts(conns[job.conn], k),
           Failed(cs)
    PROVE  /\ cur' = 0 /\ job' = [job EXCEPT !.pt = "failed"]
           /\ Changes(job.conn)
           /\ \/ SameParts(conns[job.conn], conns'[job.conn]) /\ cur = 0
              \/ Closes(conns[job.conn], conns'[job.conn]) /\ cur = job.conn
<1> DEFINE c == job.conn
<1>0. /\ conns \in Seq(Connections) /\ c \in 1 .. Len(conns) /\ conns[c] \in Connections
      /\ cur \in {0, c}
  BY JobIndex
<1>1. cur' = 0 /\ job' = [job EXCEPT !.pt = "failed"]  BY DEF Failed
<1>2. CASE cur = 0
  <2>1. conns' = [conns EXCEPT ![c] = k]  BY <1>2 DEF Failed
  <2>2. Changes(c) /\ conns'[c] = k
    <3> HIDE DEF c
    <3> QED  BY <1>0, <2>1, UpdateIs
  <2> QED  BY <1>1, <1>2, <2>2
<1>3. CASE cur # 0
  <2> DEFINE n == CloseConn(k)
  <2>0. cur = c /\ c \in Nat  BY <1>0, <1>3
  <2>1. cs \in Seq(Connections) /\ cs[c] = k /\ Len(cs) = Len(conns)
        /\ \A d \in 1 .. Len(conns) : d # c => cs[d] = conns[d]
    BY <1>0, SeqExcept
  <2>2. conns' = [cs EXCEPT ![cur] = CloseConn(@)]  BY <1>3 DEF Failed
  <2>3. n \in Connections /\ Closes(k, n)  BY CloseConnCloses
  <2>4. conns' = [cs EXCEPT ![c] = n]  BY <1>0, <2>0, <2>1, <2>2
  <2> HIDE DEF n
  <2>5. /\ conns' \in Seq(Connections) /\ Len(conns') = Len(conns) /\ conns'[c] = n
        /\ \A d \in 1 .. Len(conns) : d # c => conns'[d] = conns[d]
    <3> HIDE DEF c
    <3> QED  BY <1>0, <2>1, <2>3, <2>4, SeqExcept
  <2>6. Changes(c)  BY <1>0, <2>5 DEF Changes
  <2>7. Closes(conns[c], n)
    <3>1. SameLife(conns[c], k) /\ SameAnswers(conns[c], k) /\ SameBeat(conns[c], k)
          /\ SameListener(conns[c], k)
      BY DEF SameParts
    <3>2. SameBut(k, n)  BY <2>3 DEF Closes
    <3>3. SameBut(conns[c], n)
      BY <3>1, <3>2 DEF SameBut, SameLife, SameAnswers, SameBeat, SameListener
    <3> QED  BY <2>3, <3>1, <3>3 DEF Closes, SameLife, SameBeat
  <2> QED  BY <1>1, <2>0, <2>5, <2>6, <2>7
<1> QED  BY <1>2, <1>3

LEMMA JobDialEffect ==
    ASSUME NetTypes, JobTypes, JobDial
    PROVE  /\ Changes(job.conn) /\ job.pt \in Dialing
           /\ \/ /\ cur' = 0 /\ job' = [job EXCEPT !.pt = "failed"]
                 /\ \/ SameParts(conns[job.conn], conns'[job.conn]) /\ cur = 0
                    \/ Closes(conns[job.conn], conns'[job.conn]) /\ cur = job.conn
              \/ /\ UNCHANGED cur /\ job' = [job EXCEPT !.pt = "opened"] /\ ~ cancelled
                 /\ SameLife(conns[job.conn], conns'[job.conn])
                 /\ SameAnswers(conns[job.conn], conns'[job.conn])
                 /\ SameListener(conns[job.conn], conns'[job.conn])
                 /\ conns'[job.conn].ctx = conns[job.conn].ctx
                 /\ conns'[job.conn].hb = conns[job.conn].hb
                 /\ conns'[job.conn].ctl = conns[job.conn].ctl
                 /\ conns'[job.conn].key = conns[job.conn].key
                 /\ conns'[job.conn].empty = conns[job.conn].empty
                 /\ conns'[job.conn].bare = conns[job.conn].bare
<1> DEFINE c == job.conn
           k == conns[c]
<1>0. job.pt \in Dialing  BY DEF JobDial, Dialing
<1>1. conns \in Seq(Connections) /\ c \in 1 .. Len(conns) /\ k \in Connections
  BY <1>0, JobIndex
<1>2. CASE Failed(conns)
  <2>1. conns = [conns EXCEPT ![c] = k] /\ SameParts(k, k)
    BY <1>1 DEF SameParts, SameLife, SameAnswers, SameBeat, SameListener
  <2> QED  BY <1>0, <1>1, <1>2, <2>1, FailedEffect
<1>3. ASSUME NEW pool \in BOOLEAN, conns' = [conns EXCEPT ![c] = OnOpen(@, pool)],
             job' = [job EXCEPT !.pt = "opened"], UNCHANGED cur, ~ cancelled
      PROVE  /\ Changes(job.conn)
             /\ SameLife(k, conns'[c]) /\ SameAnswers(k, conns'[c]) /\ SameListener(k, conns'[c])
             /\ conns'[c].ctx = k.ctx /\ conns'[c].hb = k.hb /\ conns'[c].ctl = k.ctl
             /\ conns'[c].key = k.key /\ conns'[c].empty = k.empty /\ conns'[c].bare = k.bare
  <2> DEFINE pp == IF pool THEN "run" ELSE "off"
             gg == IF pool THEN "open" ELSE "closing"
             n == [k EXCEPT !.pump = pp, !.gnet = gg]
  <2>0. pp \in {"off", "run", "done"} /\ gg \in {"none", "open", "closing", "shut"}  OBVIOUS
  <2>1. OnOpen(k, pool) = n  BY <1>1 DEF OnOpen, StartPump, Connections
  <2> HIDE DEF pp, gg
  <2>2. conns' = [conns EXCEPT ![c] = n]  BY <1>1, <1>3, <2>1
  <2>3. n \in Connections  BY <1>1, <2>0 DEF Connections
  <2>4. /\ SameLife(k, n) /\ SameAnswers(k, n) /\ SameListener(k, n)
        /\ n.ctx = k.ctx /\ n.hb = k.hb /\ n.ctl = k.ctl
        /\ n.key = k.key /\ n.empty = k.empty /\ n.bare = k.bare
    BY <1>1 DEF Connections, SameLife, SameAnswers, SameListener
  <2> HIDE DEF n
  <2>5. Changes(c) /\ conns'[c] = n
    <3> HIDE DEF c
    <3> QED  BY <1>1, <2>2, <2>3, UpdateIs
  <2> QED  BY <2>4, <2>5
<1> QED  BY <1>0, <1>2, <1>3 DEF JobDial

LEMMA JobOpenedEffect ==
    ASSUME NetTypes, JobTypes, JobOpened
    PROVE  /\ Changes(job.conn) /\ job.pt \in Dialing
           /\ \/ /\ cancelled /\ cur' = 0 /\ job' = [job EXCEPT !.pt = "failed"]
                 /\ UNCHANGED monitor
                 /\ \/ SameParts(conns[job.conn], conns'[job.conn]) /\ cur = 0
                    \/ Closes(conns[job.conn], conns'[job.conn]) /\ cur = job.conn
              \/ /\ ~ cancelled /\ UNCHANGED cur /\ job' = [job EXCEPT !.pt = "heartbeat"]
                 /\ monitor' = [monitor EXCEPT !.established = @ + 1]
                 /\ SameAnswers(conns[job.conn], conns'[job.conn])
                 /\ SameBeat(conns[job.conn], conns'[job.conn])
                 /\ SameListener(conns[job.conn], conns'[job.conn])
                 /\ conns'[job.conn].pub = conns[job.conn].pub
                 /\ conns'[job.conn].peer = conns[job.conn].peer
                 /\ conns'[job.conn].closedEv = conns[job.conn].closedEv
                 /\ conns'[job.conn].dropEv = conns[job.conn].dropEv
                 /\ conns'[job.conn].established
<1> DEFINE c == job.conn
           k == conns[c]
<1>0. job.pt \in Dialing  BY DEF JobOpened, Dialing
<1>1. conns \in Seq(Connections) /\ c \in 1 .. Len(conns) /\ k \in Connections
  BY <1>0, JobIndex
<1>2. CASE cancelled
  <2> DEFINE g == IF k.gnet = "open" THEN "closing" ELSE k.gnet
             h == [k EXCEPT !.gnet = g]
             cs == [conns EXCEPT ![c].gnet = IF @ = "open" THEN "closing" ELSE @]
  <2>1. Failed(cs) /\ UNCHANGED monitor  BY <1>2 DEF JobOpened
  <2>2. cs = [conns EXCEPT ![c] = h]
    <3> HIDE DEF c
    <3> QED  BY <1>1
  <2>3. g \in {"none", "open", "closing", "shut"}  BY <1>1, ConnectionFields
  <2> HIDE DEF g
  <2>4. h \in Connections  BY <1>1, <2>3 DEF Connections
  <2>5. SameParts(k, h)
    BY <1>1 DEF Connections, SameParts, SameLife, SameAnswers, SameBeat, SameListener
  <2> HIDE DEF h, cs
  <2> QED  BY <1>0, <1>2, <2>1, <2>2, <2>4, <2>5, FailedEffect
<1>3. CASE ~ cancelled
  <2> DEFINE n == [k EXCEPT !.established = TRUE]
  <2>1. conns' = [conns EXCEPT ![c] = n]
    <3>1. conns' = [conns EXCEPT ![c].established = TRUE]  BY <1>3 DEF JobOpened
    <3> HIDE DEF c
    <3> QED  BY <1>1, <3>1
  <2>2. n \in Connections  BY <1>1 DEF Connections
  <2>3. /\ SameAnswers(k, n) /\ SameBeat(k, n) /\ SameListener(k, n) /\ n.pub = k.pub
        /\ n.peer = k.peer /\ n.closedEv = k.closedEv /\ n.dropEv = k.dropEv
        /\ n.established
    BY <1>1 DEF Connections, SameAnswers, SameBeat, SameListener
  <2> HIDE DEF n
  <2>4. Changes(c) /\ conns'[c] = n
    <3> HIDE DEF c
    <3> QED  BY <1>1, <2>1, <2>2, UpdateIs
  <2>5. /\ UNCHANGED cur /\ job' = [job EXCEPT !.pt = "heartbeat"]
        /\ monitor' = [monitor EXCEPT !.established = @ + 1]
    BY <1>3 DEF JobOpened
  <2> QED  BY <1>0, <1>3, <2>3, <2>4, <2>5
<1> QED  BY <1>2, <1>3

LEMMA JobHeartbeatEffect ==
    ASSUME NetTypes, JobHeartbeat
    PROVE  \/ /\ UNCHANGED conns
              /\ plan.heartbeat = "none" \/ Deferred \/ cancelled \/ cur = 0
           \/ cur # 0 /\ Changes(cur) /\ Ordered(conns[cur], conns'[cur]) /\ ~ Deferred
<1>1. CASE plan.heartbeat = "none" \/ Deferred \/ cancelled \/ cur = 0
  BY <1>1 DEF JobHeartbeat, InstallHeartbeat
<1>2. CASE ~ (plan.heartbeat = "none" \/ Deferred \/ cancelled \/ cur = 0)
  <2> DEFINE k == conns[cur]
             n == RegisterHeartbeat(k)
  <2>0. conns \in Seq(Connections) /\ cur \in 1 .. Len(conns) /\ k \in Connections
    BY <1>2, IndexIs
  <2>1. conns' = [conns EXCEPT ![cur] = n]  BY <1>2, <2>0 DEF JobHeartbeat, InstallHeartbeat
  <2>2. n \in Connections /\ Ordered(k, n)  BY <2>0, RegisterHeartbeatIs
  <2> HIDE DEF n
  <2>3. Changes(cur) /\ conns'[cur] = n  BY <2>0, <2>1, <2>2, UpdateIs
  <2> QED  BY <1>2, <2>2, <2>3
<1> QED  BY <1>1, <1>2

LEMMA JobOnClosedEffect ==
    ASSUME NetTypes, JobTypes, JobOnClosed
    PROVE  /\ Changes(job.conn) /\ job.pt \in Dialing
           /\ SameAnswers(conns[job.conn], conns'[job.conn])
           /\ SameBeat(conns[job.conn], conns'[job.conn])
           /\ SameListener(conns[job.conn], conns'[job.conn])
           /\ conns'[job.conn].pub = conns[job.conn].pub
           /\ conns'[job.conn].peer = conns[job.conn].peer
           /\ conns'[job.conn].closedEv = Registered(conns[job.conn].closedEv)
           /\ conns'[job.conn].dropEv = conns[job.conn].dropEv
           /\ conns'[job.conn].established = conns[job.conn].established
<1> DEFINE c == job.conn
           k == conns[c]
           e == Registered(k.closedEv)
           n == [k EXCEPT !.closedEv = e]
<1>0. job.pt \in Dialing  BY DEF JobOnClosed, Dialing
<1>1. conns \in Seq(Connections) /\ c \in 1 .. Len(conns) /\ k \in Connections
  BY <1>0, JobIndex
<1>2. e \in LifecycleEvents  BY <1>1, ConnectionFields, EventStays
<1>3. conns' = [conns EXCEPT ![c] = n]
  <2>1. conns' = [conns EXCEPT ![c].closedEv = e]  BY DEF JobOnClosed
  <2> HIDE DEF c, e
  <2> QED  BY <1>1, <2>1
<1> HIDE DEF e
<1>4. n \in Connections  BY <1>1, <1>2 DEF Connections
<1>5. /\ SameAnswers(k, n) /\ SameBeat(k, n) /\ SameListener(k, n) /\ n.pub = k.pub
      /\ n.peer = k.peer /\ n.closedEv = e /\ n.dropEv = k.dropEv
      /\ n.established = k.established
  BY <1>1 DEF Connections, SameAnswers, SameBeat, SameListener
<1> HIDE DEF n
<1>6. Changes(c) /\ conns'[c] = n
  <2> HIDE DEF c
  <2> QED  BY <1>1, <1>3, <1>4, UpdateIs
<1> QED  BY <1>0, <1>5, <1>6 DEF e

LEMMA JobOnDisconnectEffect ==
    ASSUME NetTypes, JobTypes, JobOnDisconnect
    PROVE  /\ Changes(job.conn) /\ job.pt \in Dialing
           /\ SameAnswers(conns[job.conn], conns'[job.conn])
           /\ SameBeat(conns[job.conn], conns'[job.conn])
           /\ SameListener(conns[job.conn], conns'[job.conn])
           /\ conns'[job.conn].pub = conns[job.conn].pub
           /\ conns'[job.conn].peer = conns[job.conn].peer
           /\ conns'[job.conn].dropEv = Registered(conns[job.conn].dropEv)
           /\ conns'[job.conn].closedEv = conns[job.conn].closedEv
           /\ conns'[job.conn].established = conns[job.conn].established
<1> DEFINE c == job.conn
           k == conns[c]
           e == Registered(k.dropEv)
           n == [k EXCEPT !.dropEv = e]
<1>0. job.pt \in Dialing  BY DEF JobOnDisconnect, Dialing
<1>1. conns \in Seq(Connections) /\ c \in 1 .. Len(conns) /\ k \in Connections
  BY <1>0, JobIndex
<1>2. e \in LifecycleEvents  BY <1>1, ConnectionFields, EventStays
<1>3. conns' = [conns EXCEPT ![c] = n]
  <2>1. conns' = [conns EXCEPT ![c].dropEv = e]  BY DEF JobOnDisconnect
  <2> HIDE DEF c, e
  <2> QED  BY <1>1, <2>1
<1> HIDE DEF e
<1>4. n \in Connections  BY <1>1, <1>2 DEF Connections
<1>5. /\ SameAnswers(k, n) /\ SameBeat(k, n) /\ SameListener(k, n) /\ n.pub = k.pub
      /\ n.peer = k.peer /\ n.dropEv = e /\ n.closedEv = k.closedEv
      /\ n.established = k.established
  BY <1>1 DEF Connections, SameAnswers, SameBeat, SameListener
<1> HIDE DEF n
<1>6. Changes(c) /\ conns'[c] = n
  <2> HIDE DEF c
  <2> QED  BY <1>1, <1>3, <1>4, UpdateIs
<1> QED  BY <1>0, <1>5, <1>6 DEF e

LEMMA JobPlaceEffect ==
    ASSUME NetTypes, JobTypes, JobPlace
    PROVE  \/ cur # 0 /\ UNCHANGED <<conns, cur>> /\ job' = [job EXCEPT !.pt = "done"]
           \/ /\ cur = 0 /\ cur' = Len(conns) + 1
              /\ job' = [pt |-> "dial", conn |-> Len(conns) + 1]
              /\ conns' \in Seq(Connections) /\ Len(conns') = Len(conns) + 1
              /\ conns'[Len(conns) + 1] = NewConnection
              /\ \A c \in 1 .. Len(conns) : conns'[c] = conns[c]
<1>1. CASE cur # 0  BY <1>1 DEF JobPlace
<1>2. CASE cur = 0
  <2>1. conns' = Append(conns, NewConnection)  BY <1>2 DEF JobPlace
  <2>2. /\ conns' \in Seq(Connections) /\ Len(conns') = Len(conns) + 1
        /\ conns'[Len(conns) + 1] = NewConnection
        /\ \A c \in 1 .. Len(conns) : conns'[c] = conns[c]
    BY <2>1, NewConnectionIs, SeqAppend, IndexIs
  <2>3. cur' = Len(conns) + 1 /\ job' = [pt |-> "dial", conn |-> Len(conns) + 1]
    BY <1>2, <2>2 DEF JobPlace
  <2> QED  BY <1>2, <2>2, <2>3
<1> QED  BY <1>1, <1>2

-----------------------------------------------------------------------------
(* Types.  Nothing shrinks: what a wait names stays there.                 *)

Grows ==
    /\ Len(conns) \in Nat /\ Len(conns') \in Nat /\ Len(conns) <= Len(conns')
    /\ Len(reqs) \in Nat /\ Len(reqs') \in Nat /\ Len(reqs) <= Len(reqs')

LEMMA NetKeeps ==
    ASSUME NetTypes, NEW c, Changes(c), conns'[c].resp \in 0 .. Len(reqs'),
           reqs' \in Seq(Requests), Len(reqs) <= Len(reqs'),
           \A r \in 1 .. Len(reqs') : reqs'[r].conn \in 1 .. Len(conns),
           cur' \in {cur, 0}
    PROVE  NetTypes' /\ Grows
<1>1. \A d \in 1 .. Len(conns') : conns'[d].resp \in 0 .. Len(reqs')
  BY DEF NetTypes, Changes
<1>2. Len(conns) \in Nat /\ Len(conns') = Len(conns) /\ Len(reqs) \in Nat /\ Len(reqs') \in Nat
  BY DEF NetTypes, Changes
<1>3. cur' \in 0 .. Len(conns')  BY <1>2 DEF NetTypes
<1>4. conns' \in Seq(Connections) /\ Len(conns') <= MaxConns  BY <1>2 DEF NetTypes, Changes
<1> QED  BY <1>1, <1>2, <1>3, <1>4 DEF NetTypes, Grows

LEMMA NetKeepsRequests ==
    ASSUME NetTypes, NEW c, Changes(c), conns'[c].resp = conns[c].resp,
           UNCHANGED reqs, cur' \in {cur, 0}
    PROVE  NetTypes' /\ Grows
<1>1. conns'[c].resp \in 0 .. Len(reqs')  BY DEF NetTypes, Changes
<1>2. reqs' \in Seq(Requests) /\ Len(reqs) <= Len(reqs')
      /\ \A r \in 1 .. Len(reqs') : reqs'[r].conn \in 1 .. Len(conns)
  BY DEF NetTypes
<1> QED  BY <1>1, <1>2, NetKeeps

LEMMA NetSame ==
    ASSUME NetTypes, UNCHANGED <<conns, reqs>>, cur' \in {cur, 0}
    PROVE  NetTypes' /\ Grows
BY DEF NetTypes, Grows

LEMMA OwnerSame ==
    ASSUME OwnerTypes, Grows, UNCHANGED owner
    PROVE  OwnerTypes'
<1>1. UNCHANGED <<stack, idle, top, refused>>  BY DEF owner
<1>2. \A i \in 1 .. Len(stack) : Names(stack[i].w)'
  BY <1>1 DEF OwnerTypes, Names, Grows
<1> QED  BY <1>1, <1>2 DEF OwnerTypes

\* The innermost script.
LEMMA MeIs ==
    ASSUME OwnerTypes, InScript
    PROVE  /\ stack \in Seq(Scripts) /\ stack # <<>> /\ Len(stack) \in Nat \ {0}
           /\ Me = stack[Len(stack)] /\ Me \in Scripts /\ Names(Me.w)
           /\ Me.th \in Nat /\ Me.todo \in Seq(Ops) /\ Me.w \in Waits
           /\ Me.w.kind \in WaitKinds /\ Me.w.pt \in WaitPlaces /\ Me.w.id \in Nat
<1>1. stack \in Seq(Scripts) /\ stack # <<>> /\ Len(stack) \in Nat \ {0}
  BY DEF OwnerTypes, InScript
<1>2. Me = stack[Len(stack)] /\ Me \in Scripts /\ Names(Me.w)
  BY <1>1 DEF OwnerTypes, Me
<1>3. Me.th \in Nat /\ Me.todo \in Seq(Ops) /\ Me.w \in Waits
  BY <1>2 DEF Scripts
<1>4. Me.w.kind \in WaitKinds /\ Me.w.pt \in WaitPlaces /\ Me.w.id \in Nat
  BY <1>3 DEF Waits
<1> QED  BY <1>1, <1>2, <1>3, <1>4

\* A wait that names what there is.
NamedBy(w) ==
    /\ w.kind = "request" => w.id \in 1 .. Len(reqs')
    /\ w.kind = "listen" => w.id \in 0 .. Len(conns')
    /\ w.kind = "close" => w.id \in 1 .. Len(conns')

LEMMA OwnerReplaced ==
    ASSUME OwnerTypes, Grows, InScript, NEW e \in Scripts, NamedBy(e.w),
           stack' = Replaced(e), UNCHANGED idle, top' \in Nat, refused' \in BOOLEAN
    PROVE  OwnerTypes' /\ Len(stack') = Len(stack) /\ stack'[Len(stack)] = e
           /\ \A i \in 1 .. Len(stack) : i # Len(stack) => stack'[i] = stack[i]
<1>1. stack \in Seq(Scripts) /\ Len(stack) \in 1 .. Len(stack)  BY MeIs
<1>2. /\ stack' \in Seq(Scripts) /\ Len(stack') = Len(stack) /\ stack'[Len(stack)] = e
      /\ \A i \in 1 .. Len(stack) : i # Len(stack) => stack'[i] = stack[i]
  BY <1>1, SeqExcept DEF Replaced
<1>3. ASSUME NEW i \in 1 .. Len(stack') PROVE Names(stack[i].w)'
  <2>1. CASE i = Len(stack)  BY <1>2, <2>1 DEF Names, NamedBy
  <2>2. CASE i # Len(stack)
    <3>1. i \in 1 .. Len(stack) /\ stack'[i] = stack[i] /\ Names(stack[i].w)
      BY <1>2, <2>2 DEF OwnerTypes
    <3> QED  BY <3>1 DEF Names, Grows
  <2> QED  BY <2>1, <2>2
<1> QED  BY <1>2, <1>3 DEF OwnerTypes

LEMMA OwnerBelow ==
    ASSUME OwnerTypes, Grows, InScript, stack' = Below, idle' \in Seq(Nat),
           Len(idle') <= MaxIdle, UNCHANGED <<top, refused>>
    PROVE  OwnerTypes' /\ Len(stack') = Len(stack) - 1
           /\ \A i \in 1 .. Len(stack') : stack'[i] = stack[i]
<1>1. stack \in Seq(Scripts) /\ stack # <<>> /\ Len(stack) \in Nat \ {0}  BY MeIs
<1>2. /\ stack' \in Seq(Scripts) /\ Len(stack') = Len(stack) - 1
      /\ \A i \in 1 .. Len(stack') : stack'[i] = stack[i]
  BY <1>1, SeqFront DEF Below
<1>3. ASSUME NEW i \in 1 .. Len(stack') PROVE Names(stack[i].w)'
  <2>1. i \in 1 .. Len(stack) /\ stack'[i] = stack[i] /\ Names(stack[i].w)
    BY <1>1, <1>2 DEF OwnerTypes
  <2> QED  BY <2>1 DEF Names, Grows
<1> QED  BY <1>2, <1>3 DEF OwnerTypes

\* The thread a script gets is one that no script holds.
LEMMA AcquireThreadIs ==
    ASSUME OwnerTypes
    PROVE  /\ AcquireThread \in Nat
           /\ idle = <<>> => AcquireThread \notin Held
           /\ idle # <<>> => AcquireThread = idle[Len(idle)]
<1>1. CASE idle # <<>>
  BY <1>1 DEF AcquireThread, OwnerTypes
<1>2. CASE idle = <<>>
  <2> DEFINE n == Len(stack)
  <2>1. n \in Nat /\ DOMAIN stack = 1 .. n  BY DEF OwnerTypes
  <2>2. Held = {stack[i].th : i \in 1 .. n}  BY <2>1 DEF Held
  <2>3. IsFiniteSet(1 .. n) /\ Cardinality(1 .. n) = n /\ IsFiniteSet(1 .. (n + 1))
        /\ Cardinality(1 .. (n + 1)) = n + 1
    <3>1. IsFiniteSet(1 .. n) /\ Cardinality(1 .. n) = IF 1 > n THEN 0 ELSE n - 1 + 1
      BY <2>1, FS_Interval
    <3>2. /\ IsFiniteSet(1 .. (n + 1))
          /\ Cardinality(1 .. (n + 1)) = IF 1 > n + 1 THEN 0 ELSE (n + 1) - 1 + 1
      BY <2>1, FS_Interval
    <3> QED  BY <2>1, <3>1, <3>2
  <2>4. IsFiniteSet(Held) /\ Cardinality(Held) <= n
    <3> DEFINE f == [i \in 1 .. n |-> stack[i].th]
    <3>1. f \in Surjection(1 .. n, Held)  BY <2>2 DEF Surjection
    <3> HIDE DEF f
    <3> QED  BY <2>3, <3>1, FS_Surjection
  <2>5. \E t \in Threads : t \notin Held
    <3>1. SUFFICES ASSUME Threads \subseteq Held PROVE FALSE  OBVIOUS
    <3>2. Threads = 1 .. (n + 1)  BY DEF Threads
    <3>3. Cardinality(Threads) <= Cardinality(Held)
      BY <2>4, <3>1, FS_Subset
    <3>4. Cardinality(Held) \in Nat  BY <2>4, FS_CardinalityType
    <3> QED  BY <2>1, <2>3, <2>4, <3>2, <3>3, <3>4
  <2>6. Threads \subseteq Nat  BY <2>1 DEF Threads
  <2>7. AcquireThread = CHOOSE t \in Threads : t \notin Held  BY <1>2 DEF AcquireThread
  <2> QED  BY <1>2, <2>5, <2>6, <2>7
<1> QED  BY <1>1, <1>2

LEMMA OwnerEnters ==
    ASSUME OwnerTypes, Grows, NEW under \in Seq(Scripts), NEW todo \in Seq(Ops),
           \A i \in 1 .. Len(under) : NamedBy(under[i].w), EnterScript(under, todo)
    PROVE  /\ OwnerTypes' /\ Len(stack') = Len(under) + 1
           /\ stack'[Len(under) + 1] = [th |-> AcquireThread, todo |-> todo, w |-> NoWait]
           /\ \A i \in 1 .. Len(under) : stack'[i] = under[i]
<1> DEFINE e == [th |-> AcquireThread, todo |-> todo, w |-> NoWait]
<1>1. NoWait \in Waits /\ NoWait.kind = "none"  BY DEF NoWait, Waits, WaitKinds, WaitPlaces
<1>2. e \in Scripts /\ e.w = NoWait  BY <1>1, AcquireThreadIs DEF Scripts
<1>3. stack' = Append(under, e) /\ top' = AcquireThread /\ UNCHANGED refused
  BY DEF EnterScript
<1> HIDE DEF e
<1>4. /\ stack' \in Seq(Scripts) /\ Len(stack') = Len(under) + 1 /\ stack'[Len(under) + 1] = e
      /\ \A i \in 1 .. Len(under) : stack'[i] = under[i]
  BY <1>2, <1>3, SeqAppend
<1>5. idle' \in Seq(Nat) /\ Len(idle') <= MaxIdle
  <2>1. CASE idle = <<>>  BY <2>1 DEF EnterScript, OwnerTypes
  <2>2. CASE idle # <<>>
    <3>1. idle' = SubSeq(idle, 1, Len(idle) - 1)  BY <2>2 DEF EnterScript
    <3>2. idle' \in Seq(Nat) /\ Len(idle') = Len(idle) - 1
      BY <2>2, <3>1, SeqFront DEF OwnerTypes
    <3> QED  BY <3>2, CapacityAssumption DEF OwnerTypes
  <2> QED  BY <2>1, <2>2
<1>6. ASSUME NEW i \in 1 .. Len(stack') PROVE Names(stack[i].w)'
  <2>1. CASE i = Len(under) + 1
    <3>1. stack'[i].w.kind = "none"  BY <1>1, <1>2, <1>4, <2>1
    <3> QED  BY <3>1 DEF Names
  <2>2. CASE i # Len(under) + 1
    <3>1. i \in 1 .. Len(under)  BY <1>4, <2>2
    <3>2. stack'[i] = under[i] /\ NamedBy(under[i].w)  BY <1>4, <3>1
    <3> QED  BY <3>2 DEF Names, NamedBy
  <2> QED  BY <2>1, <2>2
<1> QED  BY <1>3, <1>4, <1>5, <1>6, AcquireThreadIs DEF OwnerTypes, e

LEMMA JobSame ==
    ASSUME JobTypes, UNCHANGED job, Len(conns') = Len(conns), cur' \in {cur, 0}
    PROVE  JobTypes'
BY DEF JobTypes

-----------------------------------------------------------------------------
(* Types, action by action: the network and the pump. *)

LEMMA RobotSame ==
    ASSUME RobotTypes, UNCHANGED <<plan, frames, mailbox, pending, cancelled, exec, clean, monitor>>
    PROVE  RobotTypes'
BY DEF RobotTypes

LEMMA DeliversTypes ==
    ASSUME RobotTypes, NEW old, NEW new, NEW event, Delivers(old, new, event)
    PROVE  monitor' \in Counters /\ cancelled' \in BOOLEAN
<1>1. monitor \in Counters /\ cancelled \in BOOLEAN  BY DEF RobotTypes
<1>2. CASE UNCHANGED <<monitor, cancelled>>  BY <1>1, <1>2
<1>3. CASE Deliver(event)
  <2>1. [monitor EXCEPT !.closed = @ + 1] \in Counters  BY <1>1 DEF Counters
  <2>2. [monitor EXCEPT !.dropped = @ + 1] \in Counters  BY <1>1 DEF Counters
  <2> QED  BY <1>1, <1>3, <2>1, <2>2 DEF Deliver
<1> QED  BY <1>2, <1>3 DEF Delivers

LEMMA PublishTypes ==
    ASSUME TypeInv, NEW c \in Conns, Publish(c)
    PROVE  TypeInv'
<1> USE DEF TypeInv
<1>1. Changes(c) /\ conns'[c].resp = conns[c].resp  BY PublishEffect DEF SameAnswers
<1>2. UNCHANGED <<reqs, cur, owner, job>>  BY DEF Publish
<1>3. NetTypes' /\ Grows  BY <1>1, <1>2, NetKeepsRequests
<1>4. OwnerTypes'  BY <1>2, <1>3, OwnerSame
<1>5. JobTypes'  BY <1>1, <1>2, JobSame DEF Changes
<1>6. monitor' \in Counters /\ cancelled' \in BOOLEAN
  BY PublishEffect, DeliversTypes
<1>7. RobotTypes'  BY <1>6 DEF Publish, RobotTypes
<1> QED  BY <1>3, <1>4, <1>5, <1>7

\* A field of a request that is updated.
LEMMA RequestUpdates ==
    ASSUME NetTypes, NEW r \in 1 .. Len(reqs), NEW q \in Requests, q.conn = reqs[r].conn,
           reqs' = [reqs EXCEPT ![r] = q]
    PROVE  /\ reqs' \in Seq(Requests) /\ Len(reqs') = Len(reqs) /\ reqs'[r] = q
           /\ \A s \in 1 .. Len(reqs) : s # r => reqs'[s] = reqs[s]
           /\ \A s \in 1 .. Len(reqs') : reqs'[s].conn \in 1 .. Len(conns)
<1>1. /\ reqs' \in Seq(Requests) /\ Len(reqs') = Len(reqs) /\ reqs'[r] = q
      /\ \A s \in 1 .. Len(reqs) : s # r => reqs'[s] = reqs[s]
  BY SeqExcept DEF NetTypes
<1> QED  BY <1>1 DEF NetTypes

LEMMA ServerAnswersEffect ==
    ASSUME NetTypes, NEW c \in Conns, NEW r \in DOMAIN reqs, ServerAnswers(c, r)
    PROVE  /\ Changes(c)
           /\ SameLife(conns[c], conns'[c]) /\ SameBeat(conns[c], conns'[c])
           /\ SameListener(conns[c], conns'[c]) /\ conns'[c].resp = conns[c].resp
           /\ conns'[c].inb \in {conns[c].inb, Append(conns[c].inb, [kind |-> "answer", id |-> r])}
           /\ reqs[r].conn = c /\ reqs[r].sent
           /\ reqs' \in Seq(Requests) /\ Len(reqs') = Len(reqs)
           /\ reqs'[r] = [reqs[r] EXCEPT !.sent = FALSE]
           /\ \A s \in 1 .. Len(reqs) : s # r => reqs'[s] = reqs[s]
           /\ \A s \in 1 .. Len(reqs') : reqs'[s].conn \in 1 .. Len(conns)
<1> DEFINE f == [kind |-> "answer", id |-> r]
           q == [reqs[r] EXCEPT !.sent = FALSE]
<1>1. r \in 1 .. Len(reqs) /\ r \in Nat /\ reqs[r] \in Requests  BY IndexIs
<1>2. f \in Frames  BY <1>1 DEF Frames, FrameKinds
<1>3. OnTraffic(c, f) /\ reqs[r].conn = c /\ reqs[r].sent  BY DEF ServerAnswers
<1>4. q \in Requests /\ q.conn = reqs[r].conn  BY <1>1 DEF Requests
<1>5. reqs' = [reqs EXCEPT ![r] = q]  BY <1>1 DEF ServerAnswers
<1> HIDE DEF f, q
<1>6. /\ Changes(c)
      /\ SameLife(conns[c], conns'[c]) /\ SameBeat(conns[c], conns'[c])
      /\ SameListener(conns[c], conns'[c]) /\ conns'[c].resp = conns[c].resp
      /\ conns'[c].inb \in {conns[c].inb, Append(conns[c].inb, f)}
  BY <1>2, <1>3, OnTrafficEffect
<1>7. /\ reqs' \in Seq(Requests) /\ Len(reqs') = Len(reqs) /\ reqs'[r] = q
      /\ \A s \in 1 .. Len(reqs) : s # r => reqs'[s] = reqs[s]
      /\ \A s \in 1 .. Len(reqs') : reqs'[s].conn \in 1 .. Len(conns)
  BY <1>1, <1>4, <1>5, RequestUpdates
<1> QED  BY <1>3, <1>6, <1>7 DEF f, q

LEMMA ServerAnswersTypes ==
    ASSUME TypeInv, NEW c \in Conns, NEW r \in DOMAIN reqs, ServerAnswers(c, r)
    PROVE  TypeInv'
<1> USE DEF TypeInv
<1>1. /\ Changes(c) /\ conns'[c].resp = conns[c].resp
      /\ reqs' \in Seq(Requests) /\ Len(reqs') = Len(reqs)
      /\ \A s \in 1 .. Len(reqs') : reqs'[s].conn \in 1 .. Len(conns)
  BY ServerAnswersEffect
<1>2. UNCHANGED <<cur, owner, job, plan, frames, mailbox, pending, cancelled, exec, clean, monitor>>
  BY DEF ServerAnswers
<1>3. conns'[c].resp \in 0 .. Len(reqs')  BY <1>1 DEF NetTypes, Changes
<1>4. NetTypes' /\ Grows  BY <1>1, <1>2, <1>3, NetKeeps
<1>5. OwnerTypes' /\ JobTypes' /\ RobotTypes'
  BY <1>1, <1>2, <1>4, OwnerSame, JobSame, RobotSame DEF Changes
<1> QED  BY <1>4, <1>5

LEMMA ServerPushesEffect ==
    ASSUME TypeInv, NEW c \in Conns, ServerPushes(c)
    PROVE  /\ Changes(c)
           /\ SameLife(conns[c], conns'[c]) /\ SameBeat(conns[c], conns'[c])
           /\ SameListener(conns[c], conns'[c]) /\ conns'[c].resp = conns[c].resp
           /\ \E f \in Frames : /\ f.kind # "answer"
                                /\ conns'[c].inb \in {conns[c].inb, Append(conns[c].inb, f)}
           /\ frames' \in Nat
<1> USE DEF TypeInv
<1> DEFINE n == frames + 1
           f == [kind |-> plan.pushes[n], id |-> n]
<1>1. frames \in Nat /\ frames < Len(plan.pushes) /\ frames' = n /\ plan \in Plans
  BY DEF ServerPushes, RobotTypes
<1>2. plan.pushes \in Seq({"push", "call"})  BY <1>1, PlanAssumption
<1>3. n \in 1 .. Len(plan.pushes) /\ n \in Nat  BY <1>1, <1>2
<1>4. plan.pushes[n] \in {"push", "call"}  BY <1>2, <1>3
<1>5. OnTraffic(c, f)  BY <1>1 DEF ServerPushes
<1> HIDE DEF n
<1>6. f \in Frames /\ f.kind # "answer"  BY <1>3, <1>4 DEF Frames, FrameKinds
<1> HIDE DEF f
<1> QED  BY <1>1, <1>3, <1>5, <1>6, OnTrafficEffect

LEMMA ServerPushesTypes ==
    ASSUME TypeInv, NEW c \in Conns, ServerPushes(c)
    PROVE  TypeInv'
<1>0. Changes(c) /\ conns'[c].resp = conns[c].resp /\ frames' \in Nat  BY ServerPushesEffect
<1> USE DEF TypeInv
<1>2. UNCHANGED <<reqs, cur, owner, job, plan, mailbox, pending, cancelled, exec, clean, monitor>>
  BY DEF ServerPushes
<1>3. NetTypes' /\ Grows  BY <1>0, <1>2, NetKeepsRequests
<1>4. OwnerTypes' /\ JobTypes'  BY <1>0, <1>2, <1>3, OwnerSame, JobSame DEF Changes
<1>5. RobotTypes'  BY <1>0, <1>2 DEF RobotTypes
<1> QED  BY <1>3, <1>4, <1>5

\* An action that changes one connection, not its request, and nothing else
\* that has a type of its own.
LEMMA OneConnectionTypes ==
    ASSUME TypeInv, NEW c, Changes(c), conns'[c].resp = conns[c].resp, cur' \in {cur, 0},
           UNCHANGED <<reqs, owner, job, plan, frames, mailbox, pending, exec, monitor>>,
           cancelled' \in BOOLEAN, clean' \in {"idle", "stopped", "closing", "ok", "timeout"}
    PROVE  TypeInv'
<1> USE DEF TypeInv
<1>1. NetTypes' /\ Grows  BY NetKeepsRequests
<1>2. OwnerTypes' /\ JobTypes'  BY <1>1, OwnerSame, JobSame DEF Changes
<1>3. RobotTypes'  BY DEF RobotTypes
<1> QED  BY <1>1, <1>2, <1>3

LEMMA GnetOnCloseTypes ==
    ASSUME TypeInv, NEW c \in Conns, GnetOnClose(c)
    PROVE  TypeInv'
<1>1. Changes(c) /\ conns'[c] = OnClose(conns[c]) /\ conns[c] \in Connections
  BY GnetOnCloseEffect, IndexIs DEF TypeInv
<1>2. conns'[c].resp = conns[c].resp  BY <1>1, OnCloseIs DEF SameBut
<1>3. cancelled \in BOOLEAN /\ clean \in {"idle", "stopped", "closing", "ok", "timeout"}
  BY DEF TypeInv, RobotTypes
<1> QED  BY <1>1, <1>2, <1>3, OneConnectionTypes DEF GnetOnClose

LEMMA PumpFrameTypes ==
    ASSUME TypeInv, NEW c \in Conns, PumpFrame(c)
    PROVE  TypeInv'
<1> USE DEF TypeInv
<1> DEFINE k == conns[c]
           f == Head(k.inb)
<1>0. k \in Connections /\ k.inb # <<>> /\ k.inb \in Inbox
  BY IndexIs, ConnectionFields, PumpFrameEffect
<1>1. f \in Frames /\ f.id \in Nat  BY <1>0, TailStays DEF Frames
<1>2. Changes(c) /\ conns'[c].resp = k.resp  BY PumpFrameEffect
<1>3. UNCHANGED <<cur, owner, job, plan, frames, pending, cancelled, exec, clean, monitor>>
  BY DEF PumpFrame
<1>4. /\ reqs' \in Seq(Requests) /\ Len(reqs') = Len(reqs)
      /\ \A s \in 1 .. Len(reqs') : reqs'[s].conn \in 1 .. Len(conns)
  <2>1. CASE UNCHANGED reqs  BY <2>1 DEF NetTypes
  <2>2. CASE k.resp # 0 /\ reqs' = [reqs EXCEPT ![k.resp].buf = IF @ = 0 THEN f.id ELSE @]
    <3> DEFINE r == k.resp
               v == IF reqs[r].buf = 0 THEN f.id ELSE reqs[r].buf
               q == [reqs[r] EXCEPT !.buf = v]
    <3>1. r \in 1 .. Len(reqs) /\ reqs[r] \in Requests
      BY <2>2, IndexIs DEF NetTypes
    <3>2. v \in Nat  BY <1>1, <3>1 DEF Requests
    <3>3. reqs' = [reqs EXCEPT ![r] = q]
      <4> HIDE DEF r, f
      <4> QED  BY <2>2, <3>1 DEF r
    <3> HIDE DEF v
    <3>4. q \in Requests /\ q.conn = reqs[r].conn  BY <3>1, <3>2 DEF Requests
    <3> HIDE DEF q
    <3> QED  BY <3>1, <3>3, <3>4, RequestUpdates
  <2> QED  BY <2>1, <2>2, PumpFrameEffect
<1>5. conns'[c].resp \in 0 .. Len(reqs')  BY <1>2, <1>4 DEF NetTypes, Changes
<1>6. NetTypes' /\ Grows  BY <1>2, <1>3, <1>4, <1>5, NetKeeps
<1>7. OwnerTypes' /\ JobTypes'  BY <1>2, <1>3, <1>6, OwnerSame, JobSame DEF Changes
<1>8. mailbox' \in Seq(Nat) /\ Len(mailbox') <= MailboxCap
  <2>1. mailbox \in Seq(Nat) /\ Len(mailbox) <= MailboxCap  BY DEF RobotTypes
  <2>2. CASE UNCHANGED mailbox  BY <2>1, <2>2
  <2>3. CASE mailbox' = Enqueued(mailbox, f.id)
    <3>1. CASE Len(mailbox) < MailboxCap
      <4>1. mailbox' = Append(mailbox, f.id)  BY <2>3, <3>1 DEF Enqueued
      <4> HIDE DEF f
      <4> QED  BY <1>1, <2>1, <3>1, <4>1, SeqAppend, CapacityAssumption
    <3>2. CASE ~ (Len(mailbox) < MailboxCap)  BY <2>1, <2>3, <3>2 DEF Enqueued
    <3> QED  BY <3>1, <3>2
  <2> QED  BY <2>2, <2>3, PumpFrameEffect
<1>9. RobotTypes'  BY <1>3, <1>8 DEF RobotTypes
<1> QED  BY <1>6, <1>7, <1>9

LEMMA PumpTypes ==
    ASSUME TypeInv, NEW c \in Conns, PumpControl(c) \/ PumpExit(c) \/ PumpBeat(c)
    PROVE  TypeInv'
<1>1. Changes(c) /\ conns'[c].resp = conns[c].resp
  BY PumpControlEffect, PumpExitEffect, PumpBeatEffect DEF TypeInv, SameAnswers
<1>2. UNCHANGED <<cur, reqs, owner, job, plan, frames, mailbox, pending, exec, monitor, cancelled, clean>>
  BY DEF PumpControl, PumpExit, PumpBeat
<1>3. cancelled \in BOOLEAN /\ clean \in {"idle", "stopped", "closing", "ok", "timeout"}
  BY DEF TypeInv, RobotTypes
<1> QED  BY <1>1, <1>2, <1>3, OneConnectionTypes

-----------------------------------------------------------------------------
(* The owner: what a call or the end of a wait does to the stack. *)

\* The innermost script goes on with wait w (NoWait: it runs); the others and
\* the cached threads stay.
Rewrites(w) ==
    /\ InScript /\ w \in Waits
    /\ stack' \in Seq(Scripts) /\ Len(stack') = Len(stack)
    /\ \A i \in 1 .. Len(stack) : i # Len(stack) => stack'[i] = stack[i]
    /\ stack'[Len(stack)].th = Me.th /\ stack'[Len(stack)].w = w
    /\ \/ stack'[Len(stack)].todo = Me.todo
       \/ Me.todo # <<>> /\ stack'[Len(stack)].todo = Tail(Me.todo)
    /\ UNCHANGED idle

LEMMA RewritesIs ==
    ASSUME OwnerTypes, InScript, NEW w \in Waits, NEW todo \in Seq(Ops),
           todo = Me.todo \/ (Me.todo # <<>> /\ todo = Tail(Me.todo)),
           stack' = Replaced([th |-> Me.th, todo |-> todo, w |-> w]), UNCHANGED idle
    PROVE  Rewrites(w)
<1> DEFINE e == [th |-> Me.th, todo |-> todo, w |-> w]
<1>1. e \in Scripts /\ e.th = Me.th /\ e.w = w /\ e.todo = todo
  BY MeIs DEF Scripts
<1> HIDE DEF e
<1>2. stack \in Seq(Scripts) /\ Len(stack) \in 1 .. Len(stack)  BY MeIs
<1>3. stack' = Replaced(e)  BY DEF e
<1>4. /\ stack' \in Seq(Scripts) /\ Len(stack') = Len(stack) /\ stack'[Len(stack)] = e
      /\ \A i \in 1 .. Len(stack) : i # Len(stack) => stack'[i] = stack[i]
  BY <1>1, <1>2, <1>3, SeqExcept DEF Replaced
<1> QED  BY <1>1, <1>4 DEF Rewrites

LEMMA NoWaitIs == NoWait \in Waits /\ NoWait.kind = "none" /\ NoWait.pt = "none"
BY DEF NoWait, Waits, WaitKinds, WaitPlaces

LEMMA WaitingIs ==
    ASSUME NEW kind \in WaitKinds, NEW pt \in WaitPlaces, NEW id \in Nat
    PROVE  /\ Waiting(kind, pt, id) \in Waits
           /\ Waiting(kind, pt, id).kind = kind /\ Waiting(kind, pt, id).pt = pt
           /\ Waiting(kind, pt, id).id = id
BY DEF Waiting, Waits

\* The innermost script with another wait, or with another wait and one call less.
LEMMA MeExcept ==
    ASSUME OwnerTypes, InScript, NEW v \in Waits
    PROVE  /\ [Me EXCEPT !.w = v] = [th |-> Me.th, todo |-> Me.todo, w |-> v]
           /\ [Me EXCEPT !.todo = Tail(@), !.w = v] = [th |-> Me.th, todo |-> Tail(Me.todo), w |-> v]
           /\ [Me EXCEPT !.todo = Tail(@)] = [th |-> Me.th, todo |-> Tail(Me.todo), w |-> Me.w]
<1>0. PICK m \in Scripts : m = Me  BY MeIs
<1>1. [m EXCEPT !.w = v] = [th |-> m.th, todo |-> m.todo, w |-> v]
  BY DEF Scripts
<1>2. \A t : [m EXCEPT !.todo = t, !.w = v] = [th |-> m.th, todo |-> t, w |-> v]
  <2> TAKE t
  <2> DEFINE a == [m EXCEPT !.todo = t, !.w = v]
             b == [th |-> m.th, todo |-> t, w |-> v]
             S == [th : {m.th}, todo : {t}, w : {v}]
  <2>1. a \in S  BY DEF Scripts
  <2>2. b \in S  OBVIOUS
  <2> HIDE DEF a, b
  <2>3. a = b  BY <2>1, <2>2
  <2> QED  BY <2>3 DEF a, b
<1>3. \A t : [m EXCEPT !.todo = t] = [th |-> m.th, todo |-> t, w |-> m.w]
  BY DEF Scripts
<1>4. PICK t : t = Tail(m.todo)  OBVIOUS
<1>5. [m EXCEPT !.todo = Tail(@), !.w = v] = [m EXCEPT !.todo = t, !.w = v]  BY <1>4
<1>6. [m EXCEPT !.todo = Tail(@)] = [m EXCEPT !.todo = t]  BY <1>4
<1> QED  BY <1>0, <1>1, <1>2, <1>3, <1>4, <1>5, <1>6

LEMMA ResumeIs ==
    ASSUME OwnerTypes, InScript, Resume
    PROVE  Rewrites(NoWait) /\ top' = Me.th /\ UNCHANGED refused
<1>1. stack' = Replaced([th |-> Me.th, todo |-> Me.todo, w |-> NoWait])
  BY MeExcept, NoWaitIs DEF Resume
<1> QED  BY <1>1, RewritesIs, NoWaitIs, MeIs DEF Resume

LEMMA CallsIs ==
    ASSUME OwnerTypes, NEW op, Calls(op)
    PROVE  /\ InScript /\ Me.w = NoWait /\ Running /\ ~ cancelled
           /\ Me.todo # <<>> /\ Head(Me.todo) = op /\ Tail(Me.todo) \in Seq(Ops)
BY MeIs, SeqTail DEF Calls, Running

LEMMA AwaitIs ==
    ASSUME OwnerTypes, InScript, Me.todo # <<>>, NEW w \in Waits, Await(w)
    PROVE  Rewrites(w) /\ UNCHANGED top /\ refused' = (refused \/ top # Me.th)
<1>1. Tail(Me.todo) \in Seq(Ops)  BY MeIs, SeqTail
<1>2. stack' = Replaced([th |-> Me.th, todo |-> Tail(Me.todo), w |-> w])
  BY MeExcept DEF Await
<1> QED  BY <1>1, <1>2, RewritesIs DEF Await

LEMMA ReturnsIs ==
    ASSUME OwnerTypes, InScript, Me.todo # <<>>, Returns
    PROVE  Rewrites(Me.w) /\ UNCHANGED <<top, refused>>
<1>1. Tail(Me.todo) \in Seq(Ops)  BY MeIs, SeqTail
<1>2. stack' = Replaced([th |-> Me.th, todo |-> Tail(Me.todo), w |-> Me.w])
  BY MeExcept, NoWaitIs DEF Returns
<1> QED  BY <1>1, <1>2, RewritesIs, MeIs DEF Returns

LEMMA OwnerRewritten ==
    ASSUME OwnerTypes, Grows, NEW w, Rewrites(w), NamedBy(w), top' \in Nat, refused' \in BOOLEAN
    PROVE  OwnerTypes'
<1>1. Len(stack) \in Nat \ {0}  BY MeIs DEF Rewrites
<1>2. ASSUME NEW i \in 1 .. Len(stack') PROVE Names(stack[i].w)'
  <2>1. CASE i = Len(stack)  BY <2>1 DEF Rewrites, Names, NamedBy
  <2>2. CASE i # Len(stack)
    <3>1. i \in 1 .. Len(stack) /\ stack'[i] = stack[i] /\ Names(stack[i].w)
      BY <2>2 DEF OwnerTypes, Rewrites
    <3> QED  BY <3>1 DEF Names, Grows
  <2> QED  BY <2>1, <2>2
<1> QED  BY <1>2 DEF OwnerTypes, Rewrites

\* A wait for nothing that has a number, or the wait there was.
LEMMA NamesStay ==
    ASSUME Grows
    PROVE  /\ \A w : w.kind \in {"none", "sleep", "connect"} => NamedBy(w)
           /\ \A w : Names(w) => NamedBy(w)
BY DEF Grows, Names, NamedBy

-----------------------------------------------------------------------------
(* Types, action by action: the owner's calls. *)

LEMMA OwnerScalars ==
    ASSUME OwnerTypes PROVE top \in Nat /\ refused \in BOOLEAN
BY DEF OwnerTypes

LEMMA CallListenOnTypes ==
    ASSUME TypeInv, CallListenOn
    PROVE  TypeInv'
<1> USE DEF TypeInv
<1>1. /\ InScript /\ Me.todo # <<>> /\ Me.w = NoWait /\ Returns
      /\ UNCHANGED <<plan, cur, reqs, frames, job, mailbox, pending, cancelled, exec, clean, monitor>>
  BY CallsIs DEF CallListenOn
<1>2. NetTypes' /\ Grows /\ Len(conns') = Len(conns)
  <2>1. CASE UNCHANGED conns  BY <1>1, <2>1, NetSame
  <2>2. CASE Changes(cur) /\ SameParts(conns[cur], conns'[cur])
    BY <1>1, <2>2, NetKeepsRequests DEF SameParts, SameAnswers, Changes
  <2> QED  BY <2>1, <2>2, CallListenOnEffect
<1>3. OwnerTypes'
  BY <1>1, <1>2, ReturnsIs, OwnerRewritten, NamesStay, NoWaitIs, OwnerScalars
<1> QED  BY <1>1, <1>2, <1>3, JobSame, RobotSame

LEMMA CallSetKeyTypes ==
    ASSUME TypeInv, NEW op, CallSetKey(op)
    PROVE  TypeInv'
<1> USE DEF TypeInv
<1>1. /\ InScript /\ Me.todo # <<>> /\ Me.w = NoWait /\ Returns
      /\ UNCHANGED <<plan, cur, reqs, frames, job, mailbox, cancelled, exec, clean, monitor>>
  BY CallsIs DEF CallSetKey
<1>2. NetTypes' /\ Grows /\ Len(conns') = Len(conns) /\ pending' \in BOOLEAN
  <2>1. CASE UNCHANGED <<conns, pending>>  BY <1>1, <2>1, NetSame DEF RobotTypes
  <2>2. CASE Changes(cur) /\ SameAnswers(conns[cur], conns'[cur]) /\ pending' = FALSE
    BY <1>1, <2>2, NetKeepsRequests DEF SameAnswers, Changes
  <2> QED  BY <2>1, <2>2, CallSetKeyEffect
<1>3. OwnerTypes'
  BY <1>1, <1>2, ReturnsIs, OwnerRewritten, NamesStay, NoWaitIs, OwnerScalars
<1>4. RobotTypes'  BY <1>1, <1>2 DEF RobotTypes
<1> QED  BY <1>1, <1>2, <1>3, <1>4, JobSame

\* CallClose: the owner waits for the events of what it closed.
LEMMA CallCloseOwner ==
    ASSUME TypeInv, CallClose
    PROVE  \/ cur = 0 /\ Rewrites(NoWait) /\ UNCHANGED <<top, refused>>
           \/ /\ cur # 0 /\ Rewrites(Waiting("close", "none", cur)) /\ UNCHANGED <<top, refused>>
<1> USE DEF TypeInv
<1>1. InScript /\ Me.todo # <<>> /\ Me.w = NoWait /\ Tail(Me.todo) \in Seq(Ops)
  BY CallsIs DEF CallClose
<1>2. CASE cur = 0
  <2>1. Returns  BY <1>2 DEF CallClose
  <2> QED  BY <1>1, <1>2, <2>1, ReturnsIs
<1>3. CASE cur # 0
  <2>1. cur \in Nat  BY DEF NetTypes
  <2>2. Waiting("close", "none", cur) \in Waits
    BY <2>1, WaitingIs DEF WaitKinds, WaitPlaces
  <2>3. /\ stack' = Replaced([Me EXCEPT !.todo = Tail(@), !.w = Waiting("close", "none", cur)])
        /\ UNCHANGED <<idle, top, refused>>
    BY <1>3 DEF CallClose
  <2>4. stack' = Replaced([th |-> Me.th, todo |-> Tail(Me.todo), w |-> Waiting("close", "none", cur)])
    BY <1>1, <2>2, <2>3, MeExcept
  <2> QED  BY <1>1, <1>3, <2>2, <2>3, <2>4, RewritesIs
<1> QED  BY <1>2, <1>3

LEMMA CallCloseTypes ==
    ASSUME TypeInv, CallClose
    PROVE  TypeInv'
<1> USE DEF TypeInv
<1>1. UNCHANGED <<plan, reqs, frames, job, mailbox, pending, cancelled, exec, clean, monitor>>
  BY DEF CallClose
<1>2. NetTypes' /\ Grows /\ Len(conns') = Len(conns) /\ cur' = 0
  <2>1. CASE UNCHANGED conns /\ cur' = 0  BY <1>1, <2>1, NetSame
  <2>2. CASE Changes(cur) /\ Closes(conns[cur], conns'[cur]) /\ cur' = 0
    BY <1>1, <2>2, NetKeepsRequests DEF Closes, SameBut, Changes
  <2> QED  BY <2>1, <2>2, CallCloseEffect
<1>3. OwnerTypes'
  <2>1. CASE cur = 0 /\ Rewrites(NoWait) /\ UNCHANGED <<top, refused>>
    BY <1>2, <2>1, OwnerRewritten, NamesStay, NoWaitIs, OwnerScalars
  <2>2. CASE cur # 0 /\ Rewrites(Waiting("close", "none", cur)) /\ UNCHANGED <<top, refused>>
    <3>1. NamedBy(Waiting("close", "none", cur))
      BY <1>2, <2>2 DEF NamedBy, Waiting, NetTypes
    <3> QED  BY <1>2, <2>2, <3>1, OwnerRewritten, OwnerScalars
  <2> QED  BY <2>1, <2>2, CallCloseOwner
<1> QED  BY <1>1, <1>2, <1>3, JobSame, RobotSame

LEMMA CloseReturnsOwner ==
    ASSUME TypeInv, CloseReturns
    PROVE  Rewrites(NoWait) /\ Me.w.kind = "close" /\ UNCHANGED <<top, refused>>
<1>1. InScript /\ Me.w.kind = "close"  BY DEF CloseReturns, In
<1>2. stack' = Replaced([th |-> Me.th, todo |-> Me.todo, w |-> NoWait])
  BY <1>1, MeExcept, NoWaitIs DEF CloseReturns, TypeInv
<1> QED  BY <1>1, <1>2, RewritesIs, NoWaitIs, MeIs DEF CloseReturns, TypeInv

LEMMA CallRequestTypes ==
    ASSUME TypeInv, CallRequest
    PROVE  TypeInv'
<1> USE DEF TypeInv
<1>1. /\ InScript /\ Me.todo # <<>> /\ Me.w = NoWait
      /\ UNCHANGED <<plan, cur, frames, job, mailbox, pending, cancelled, exec, clean, monitor>>
  BY CallsIs DEF CallRequest
<1>2. CASE Returns /\ UNCHANGED <<reqs, conns>>
  <2>1. NetTypes' /\ Grows  BY <1>1, <1>2, NetSame
  <2>2. OwnerTypes'
    BY <1>1, <1>2, <2>1, ReturnsIs, OwnerRewritten, NamesStay, NoWaitIs, OwnerScalars
  <2> QED  BY <1>1, <1>2, <2>1, <2>2, JobSame, RobotSame
<1>3. ASSUME cur # 0, NEW sent \in BOOLEAN, SendRequest(sent)
      PROVE  NetTypes' /\ Grows /\ Len(conns') = Len(conns) /\ Len(reqs') = Len(reqs) + 1
  <2>1. /\ Changes(cur) /\ SameButResp(conns[cur], conns'[cur])
        /\ conns'[cur].resp = IF sent THEN Len(reqs) + 1 ELSE 0
        /\ reqs' \in Seq(Requests) /\ Len(reqs') = Len(reqs) + 1
        /\ reqs'[Len(reqs) + 1] =
             [conn |-> cur, open |-> sent, sent |-> sent, buf |-> 0, got |-> 0]
        /\ \A r \in 1 .. Len(reqs) : reqs'[r] = reqs[r]
    BY <1>3, SendRequestEffect
  <2>2. Len(reqs) \in Nat /\ cur \in 1 .. Len(conns)  BY <1>3 DEF NetTypes
  <2>3. conns'[cur].resp \in 0 .. Len(reqs') /\ Len(reqs) <= Len(reqs')  BY <2>1, <2>2
  <2>4. reqs'[Len(reqs) + 1].conn = cur  BY <2>1
  <2>5. ASSUME NEW r \in 1 .. Len(reqs') PROVE reqs'[r].conn \in 1 .. Len(conns)
    <3>1. CASE r = Len(reqs) + 1  BY <2>2, <2>4, <3>1
    <3>2. CASE r # Len(reqs) + 1
      <4>1. r \in 1 .. Len(reqs)  BY <2>1, <2>2, <3>2
      <4> QED  BY <2>1, <4>1 DEF NetTypes
    <3> QED  BY <3>1, <3>2
  <2>6. NetTypes' /\ Grows  BY <1>1, <2>1, <2>3, <2>5, NetKeeps
  <2> QED  BY <2>1, <2>6 DEF Changes
<1>4. CASE cur # 0 /\ SendRequest(TRUE) /\ Await(Waiting("request", "select", Len(reqs) + 1))
  <2> DEFINE w == Waiting("request", "select", Len(reqs) + 1)
  <2>1. NetTypes' /\ Grows /\ Len(conns') = Len(conns) /\ Len(reqs') = Len(reqs) + 1
    BY <1>3, <1>4
  <2>2. w \in Waits /\ w.kind = "request" /\ w.id = Len(reqs) + 1
    BY <2>1, WaitingIs DEF Grows, WaitKinds, WaitPlaces
  <2>3. Await(w)  BY <1>4
  <2> HIDE DEF w
  <2>4. Rewrites(w) /\ UNCHANGED top /\ refused' = (refused \/ top # Me.th)
    BY <1>1, <2>2, <2>3, AwaitIs
  <2>5. NamedBy(w)  BY <2>1, <2>2 DEF NamedBy, Grows
  <2>6. OwnerTypes'  BY <2>1, <2>4, <2>5, OwnerRewritten, OwnerScalars
  <2> QED  BY <1>1, <2>1, <2>6, JobSame, RobotSame
<1>5. CASE cur # 0 /\ SendRequest(FALSE) /\ Returns
  <2>1. NetTypes' /\ Grows /\ Len(conns') = Len(conns)  BY <1>3, <1>5
  <2>2. OwnerTypes'
    BY <1>1, <1>5, <2>1, ReturnsIs, OwnerRewritten, NamesStay, NoWaitIs, OwnerScalars
  <2> QED  BY <1>1, <2>1, <2>2, JobSame, RobotSame
<1> QED  BY <1>2, <1>4, <1>5 DEF CallRequest

\* The end of a request, with or without an answer.
RequestEnds == RequestAnswered \/ RequestGivenUp

LEMMA RequestEndsIs ==
    ASSUME TypeInv, RequestEnds
    PROVE  /\ InScript /\ Me.w.kind = "request" /\ Me.w.id \in 1 .. Len(reqs) /\ Resume
           /\ \E answer \in {0, reqs[Me.w.id].buf} : answer \in Nat /\ CloseRequest(Me.w.id, answer)
           /\ UNCHANGED <<plan, cur, frames, job, mailbox, pending, cancelled, exec, clean, monitor>>
<1> USE DEF TypeInv
<1>1. InScript /\ Me.w.kind = "request" /\ Resume
  BY DEF RequestEnds, RequestAnswered, RequestGivenUp, In
<1>2. Me.w.id \in 1 .. Len(reqs)  BY <1>1, MeIs DEF Names
<1>3. reqs[Me.w.id].buf \in Nat  BY <1>2, IndexIs DEF Requests
<1> QED  BY <1>1, <1>2, <1>3 DEF RequestEnds, RequestAnswered, RequestGivenUp

LEMMA RequestEndsTypes ==
    ASSUME TypeInv, RequestEnds
    PROVE  TypeInv'
<1> USE DEF TypeInv
<1>1. PICK r \in 1 .. Len(reqs) : r = Me.w.id  BY RequestEndsIs
<1>2. PICK answer \in Nat : CloseRequest(r, answer)  BY <1>1, RequestEndsIs
<1>3. UNCHANGED <<plan, cur, frames, job, mailbox, pending, cancelled, exec, clean, monitor>>
  BY RequestEndsIs
<1> DEFINE c == reqs[r].conn
<1>4. /\ Changes(c)
      /\ conns'[c].resp = IF conns[c].resp = r THEN 0 ELSE conns[c].resp
      /\ reqs' \in Seq(Requests) /\ Len(reqs') = Len(reqs)
      /\ reqs'[r] = [reqs[r] EXCEPT !.open = FALSE, !.got = answer]
      /\ \A s \in 1 .. Len(reqs) : s # r => reqs'[s] = reqs[s]
  BY <1>2, CloseRequestEffect
<1>5. reqs[r] \in Requests  BY IndexIs
<1>6. reqs'[r].conn = c  BY <1>4, <1>5 DEF Requests
<1>7. \A s \in 1 .. Len(reqs') : reqs'[s].conn \in 1 .. Len(conns)
  BY <1>4, <1>6 DEF NetTypes
<1>8. conns'[c].resp \in 0 .. Len(reqs')  BY <1>4 DEF NetTypes, Changes
<1> HIDE DEF c
<1>9. NetTypes' /\ Grows /\ Len(conns') = Len(conns)
  BY <1>3, <1>4, <1>7, <1>8, NetKeeps DEF Changes
<1>10. OwnerTypes'
  <2>1. InScript /\ Resume  BY RequestEndsIs
  <2>2. Rewrites(NoWait) /\ top' = Me.th /\ UNCHANGED refused  BY <2>1, ResumeIs
  <2> QED  BY <1>9, <2>1, <2>2, MeIs, OwnerRewritten, NamesStay, NoWaitIs, OwnerScalars
<1> QED  BY <1>3, <1>9, <1>10, JobSame, RobotSame

-----------------------------------------------------------------------------
(* Types, action by action: waiting and connecting. *)

\* An action that gives the innermost script wait w, and changes of the rest
\* only the connections.
LEMMA RewriteTypes ==
    ASSUME TypeInv, NetTypes', Grows, Len(conns') = Len(conns), cur' \in {cur, 0},
           NEW w, Rewrites(w), NamedBy(w), top' \in Nat, refused' \in BOOLEAN,
           UNCHANGED <<job, plan, frames, mailbox, pending, cancelled, exec, clean, monitor>>
    PROVE  TypeInv'
BY OwnerRewritten, JobSame, RobotSame DEF TypeInv

LEMMA CloseReturnsTypes ==
    ASSUME TypeInv, CloseReturns
    PROVE  TypeInv'
<1>1. UNCHANGED <<plan, conns, cur, reqs, frames, job, mailbox, pending, cancelled, exec, clean, monitor>>
  BY DEF CloseReturns
<1>2. NetTypes' /\ Grows  BY <1>1, NetSame DEF TypeInv
<1> QED
  BY <1>1, <1>2, CloseReturnsOwner, RewriteTypes, NamesStay, NoWaitIs, OwnerScalars DEF TypeInv

\* The two calls that only wait.
LEMMA CallSleepOwner ==
    ASSUME OwnerTypes, CallSleep
    PROVE  /\ Rewrites(Waiting("sleep", "select", 0)) /\ UNCHANGED top /\ Me.w = NoWait
           /\ refused' = (refused \/ top # Me.th) /\ Running
<1>1. InScript /\ Me.todo # <<>> /\ Me.w = NoWait /\ Running  BY CallsIs DEF CallSleep
<1>2. Waiting("sleep", "select", 0) \in Waits  BY WaitingIs DEF WaitKinds, WaitPlaces
<1> QED  BY <1>1, <1>2, AwaitIs DEF CallSleep

\* The wake channel of a listen.
WakeOf == IF cur # 0 /\ ~ conns[cur].closed /\ conns[cur].listens THEN cur ELSE 0

LEMMA CallListenOwner ==
    ASSUME NetTypes, OwnerTypes, CallListen
    PROVE  /\ Rewrites(Waiting("listen", "top", WakeOf)) /\ UNCHANGED top /\ Me.w = NoWait
           /\ refused' = (refused \/ top # Me.th) /\ Running /\ WakeOf \in {0, cur}
           /\ WakeOf \in 0 .. Len(conns)
<1>1. InScript /\ Me.todo # <<>> /\ Me.w = NoWait /\ Running  BY CallsIs DEF CallListen
<1>2. WakeOf \in {0, cur} /\ WakeOf \in Nat /\ WakeOf \in 0 .. Len(conns)
  BY DEF WakeOf, NetTypes
<1>3. Waiting("listen", "top", WakeOf) \in Waits  BY <1>2, WaitingIs DEF WaitKinds, WaitPlaces
<1>4. Await(Waiting("listen", "top", WakeOf))  BY DEF CallListen, WakeOf
<1> QED  BY <1>1, <1>2, <1>3, <1>4, AwaitIs

LEMMA CallWaitTypes ==
    ASSUME TypeInv, CallSleep \/ CallListen
    PROVE  TypeInv'
<1>1. UNCHANGED <<plan, conns, cur, reqs, frames, job, mailbox, pending, cancelled, exec, clean, monitor>>
  BY DEF CallSleep, CallListen
<1>2. NetTypes' /\ Grows  BY <1>1, NetSame DEF TypeInv
<1>3. top \in Nat /\ refused \in BOOLEAN /\ (refused \/ top # Me.th) \in BOOLEAN
  BY OwnerScalars DEF TypeInv
<1>4. CASE CallSleep
  <2>1. Waiting("sleep", "select", 0).kind = "sleep"  BY DEF Waiting
  <2> QED  BY <1>1, <1>2, <1>3, <1>4, <2>1, CallSleepOwner, RewriteTypes, NamesStay DEF TypeInv
<1>5. CASE CallListen
  <2>1. NamedBy(Waiting("listen", "top", WakeOf))
    BY <1>1, <1>5, CallListenOwner DEF NamedBy, Waiting, TypeInv
  <2> QED  BY <1>1, <1>2, <1>3, <1>5, <2>1, CallListenOwner, RewriteTypes DEF TypeInv
<1> QED  BY <1>4, <1>5

\* The innermost script, parked or at another place of its wait.
LEMMA PlaceExcept ==
    ASSUME OwnerTypes, InScript, NEW pt \in WaitPlaces, NEW v, v = [Me.w EXCEPT !.pt = pt]
    PROVE  /\ v \in Waits /\ v.kind = Me.w.kind /\ v.pt = pt /\ v.id = Me.w.id
           /\ [Me EXCEPT !.w.pt = pt] = [th |-> Me.th, todo |-> Me.todo, w |-> v]
<1>0. PICK m \in Scripts : m = Me  BY MeIs
<1>1. PICK u \in Waits : u = m.w  BY DEF Scripts
<1>2. v \in Waits /\ v.kind = u.kind /\ v.pt = pt /\ v.id = u.id
  BY <1>0, <1>1 DEF Waits
<1>3. [m EXCEPT !.w = v] = [th |-> m.th, todo |-> m.todo, w |-> v]  BY DEF Scripts
<1>4. [m EXCEPT !.w.pt = pt] = [m EXCEPT !.w = v]  BY <1>0, <1>1
<1> QED  BY <1>0, <1>1, <1>2, <1>3, <1>4

\* A listen that stays a listen: only its place changes.
MovesTo(pt) ==
    \E v \in Waits : /\ Rewrites(v) /\ v.kind = "listen" /\ v.pt = pt /\ v.id = Me.w.id
                     /\ UNCHANGED <<top, refused>>

LEMMA MovesToIs ==
    ASSUME OwnerTypes, In("listen"), NEW pt \in WaitPlaces,
           stack' = Replaced([Me EXCEPT !.w.pt = pt]), UNCHANGED <<idle, top, refused>>
    PROVE  MovesTo(pt)
<1>1. InScript /\ Me.w.kind = "listen"  BY DEF In
<1>2. PICK v : v = [Me.w EXCEPT !.pt = pt]  OBVIOUS
<1>3. /\ v \in Waits /\ v.kind = Me.w.kind /\ v.pt = pt /\ v.id = Me.w.id
      /\ [Me EXCEPT !.w.pt = pt] = [th |-> Me.th, todo |-> Me.todo, w |-> v]
  BY <1>1, <1>2, PlaceExcept
<1>4. Rewrites(v)  BY <1>1, <1>3, RewritesIs, MeIs
<1> QED  BY <1>1, <1>3, <1>4 DEF MovesTo

LEMMA ListenOwner ==
    ASSUME OwnerTypes, ListenLooks \/ ListenWoken \/ ListenDeadline
    PROVE  /\ InScript /\ Me.w.kind = "listen"
           /\ \/ Resume
              \/ MovesTo("select") /\ ListenLooks
              \/ MovesTo("top") /\ ListenWoken
              \/ MovesTo("last") /\ ListenDeadline
<1>0. In("listen") /\ InScript /\ Me.w.kind = "listen"
  BY DEF ListenLooks, ListenWoken, ListenDeadline, In
<1>1. "select" \in WaitPlaces /\ "top" \in WaitPlaces /\ "last" \in WaitPlaces
  BY DEF WaitPlaces
<1>2. CASE ListenLooks
  <2>1. CASE Resume  BY <1>0, <2>1
  <2>2. CASE stack' = Replaced([Me EXCEPT !.w.pt = "select"]) /\ UNCHANGED <<idle, top, refused>>
    BY <1>0, <1>1, <1>2, <2>2, MovesToIs
  <2> QED  BY <1>2, <2>1, <2>2 DEF ListenLooks
<1>3. CASE ListenWoken
  <2>1. stack' = Replaced([Me EXCEPT !.w.pt = "top"]) /\ UNCHANGED <<idle, top, refused>>
    BY <1>3 DEF ListenWoken
  <2> QED  BY <1>0, <1>1, <1>3, <2>1, MovesToIs
<1>4. CASE ListenDeadline
  <2>1. stack' = Replaced([Me EXCEPT !.w.pt = "last"]) /\ UNCHANGED <<idle, top, refused>>
    BY <1>4 DEF ListenDeadline
  <2> QED  BY <1>0, <1>1, <1>4, <2>1, MovesToIs
<1> QED  BY <1>2, <1>3, <1>4

LEMMA ListenTypes ==
    ASSUME TypeInv, ListenLooks \/ ListenWoken \/ ListenDeadline
    PROVE  TypeInv'
<1>1. UNCHANGED <<plan, cur, reqs, frames, job, mailbox, pending, cancelled, exec, clean, monitor>>
  BY DEF ListenLooks, ListenWoken, ListenDeadline
<1>2. NetTypes' /\ Grows /\ Len(conns') = Len(conns)
  <2>1. CASE UNCHANGED conns  BY <1>1, <2>1, NetSame DEF TypeInv
  <2>2. ASSUME NEW c, Changes(c), SameButQueue(conns[c], conns'[c])
        PROVE  NetTypes' /\ Grows /\ Len(conns') = Len(conns)
    BY <1>1, <2>2, NetKeepsRequests DEF TypeInv, SameButQueue, SameAnswers, Changes
  <2>3. CASE ListenLooks  BY <2>1, <2>2, <2>3, ListenLooksEffect DEF TypeInv
  <2>4. CASE ListenWoken  BY <2>2, <2>4, ListenWokenEffect DEF TypeInv
  <2>5. CASE ListenDeadline  BY <2>1, <2>5 DEF ListenDeadline
  <2> QED  BY <2>3, <2>4, <2>5
<1>3. InScript /\ Me.w.kind = "listen" /\ top \in Nat /\ refused \in BOOLEAN /\ Me.th \in Nat
      /\ Names(Me.w)
  BY ListenOwner, OwnerScalars, MeIs DEF TypeInv
<1>4. CASE Resume
  <2>1. Rewrites(NoWait) /\ top' = Me.th /\ UNCHANGED refused
    BY <1>3, <1>4, ResumeIs DEF TypeInv
  <2> QED  BY <1>1, <1>2, <1>3, <2>1, RewriteTypes, NamesStay, NoWaitIs
<1>5. ASSUME NEW pt, MovesTo(pt) PROVE TypeInv'
  <2>1. PICK v \in Waits : /\ Rewrites(v) /\ v.kind = "listen" /\ v.pt = pt /\ v.id = Me.w.id
                           /\ UNCHANGED <<top, refused>>
    BY <1>5 DEF MovesTo
  <2>2. NamedBy(v)  BY <1>2, <1>3, <2>1 DEF Names, NamedBy, Grows
  <2> QED  BY <1>1, <1>2, <1>3, <2>1, <2>2, RewriteTypes
<1> QED  BY <1>4, <1>5, ListenOwner DEF TypeInv

LEMMA WaitEndsTypes ==
    ASSUME TypeInv, WaitEnds
    PROVE  TypeInv'
<1>1. UNCHANGED <<plan, conns, cur, reqs, frames, job, mailbox, pending, cancelled, exec, clean, monitor>>
      /\ InScript /\ Resume
  BY DEF WaitEnds, In
<1>2. NetTypes' /\ Grows  BY <1>1, NetSame DEF TypeInv
<1>3. Rewrites(NoWait) /\ top' = Me.th /\ UNCHANGED refused /\ Me.th \in Nat
  BY <1>1, ResumeIs, MeIs DEF TypeInv
<1> QED  BY <1>1, <1>2, <1>3, RewriteTypes, NamesStay, NoWaitIs, OwnerScalars DEF TypeInv

-----------------------------------------------------------------------------
(* Types, action by action: callbacks and scripts. *)

LEMMA AfterTaskIs ==
    ASSUME OwnerTypes, InScript
    PROVE  /\ AfterTask(Me.w) \in Waits /\ AfterTask(Me.w).kind = Me.w.kind
           /\ AfterTask(Me.w).id = Me.w.id
           /\ AfterTask(Me.w).pt = IF Me.w.kind = "listen" THEN "top" ELSE Me.w.pt
<1>1. PICK u \in Waits : u = Me.w  BY MeIs
<1>2. CASE u.kind = "listen"
  <2>1. AfterTask(u) = [u EXCEPT !.pt = "top"]  BY <1>2 DEF AfterTask
  <2> QED  BY <1>1, <1>2, <2>1 DEF Waits, WaitPlaces
<1>3. CASE u.kind # "listen"
  BY <1>1, <1>3 DEF AfterTask
<1> QED  BY <1>2, <1>3

\* A callback is taken from the mailbox: dropped, or run above the script that
\* waits.
LEMMA RunTaskOwner ==
    ASSUME OwnerTypes, RunTask
    PROVE  /\ InScript /\ Me.w.pt = "select" /\ mailbox # <<>> /\ mailbox' = Tail(mailbox)
           /\ Me.w.kind \in {"sleep", "listen", "request", "connect"}
           /\ \/ Rewrites(AfterTask(Me.w)) /\ UNCHANGED <<top, refused>> /\ cancelled
              \/ /\ ~ cancelled
                 /\ \E under \in Seq(Scripts) :
                      /\ EnterScript(under, plan.callback)
                      /\ Len(under) = Len(stack)
                      /\ \A i \in 1 .. Len(stack) : i # Len(stack) => under[i] = stack[i]
                      /\ under[Len(stack)] =
                           [th |-> Me.th, todo |-> Me.todo, w |-> AfterTask(Me.w)]
<1> DEFINE again == Replaced([Me EXCEPT !.w = AfterTask(@)])
           e == [th |-> Me.th, todo |-> Me.todo, w |-> AfterTask(Me.w)]
<1>1. /\ InScript /\ Me.w.pt = "select" /\ mailbox # <<>> /\ mailbox' = Tail(mailbox)
      /\ Me.w.kind \in {"sleep", "listen", "request", "connect"}
  BY DEF RunTask
<1>2. AfterTask(Me.w) \in Waits  BY <1>1, AfterTaskIs
<1>3. again = Replaced(e)  BY <1>1, <1>2, MeExcept
<1>4. CASE cancelled
  <2>1. stack' = again /\ UNCHANGED <<idle, top, refused>>  BY <1>4 DEF RunTask
  <2>2. Rewrites(AfterTask(Me.w))  BY <1>1, <1>2, <1>3, <2>1, RewritesIs, MeIs
  <2> QED  BY <1>1, <1>4, <2>1, <2>2
<1>5. CASE ~ cancelled
  <2>1. EnterScript(again, plan.callback)  BY <1>5 DEF RunTask
  <2>2. e \in Scripts  BY <1>1, <1>2, MeIs DEF Scripts
  <2>3. stack \in Seq(Scripts) /\ Len(stack) \in 1 .. Len(stack)  BY <1>1, MeIs
  <2> HIDE DEF e, again
  <2>4. /\ again \in Seq(Scripts) /\ Len(again) = Len(stack) /\ again[Len(stack)] = e
        /\ \A i \in 1 .. Len(stack) : i # Len(stack) => again[i] = stack[i]
    BY <1>3, <2>2, <2>3, SeqExcept DEF Replaced
  <2> QED  BY <1>1, <1>5, <2>1, <2>4 DEF e
<1> QED  BY <1>4, <1>5

LEMMA RunTaskTypes ==
    ASSUME TypeInv, RunTask
    PROVE  TypeInv'
<1>1. UNCHANGED <<plan, conns, cur, reqs, frames, job, pending, cancelled, exec, clean, monitor>>
  BY DEF RunTask
<1>2. NetTypes' /\ Grows /\ JobTypes'  BY <1>1, NetSame, JobSame DEF TypeInv
<1>3. mailbox' \in Seq(Nat) /\ Len(mailbox') <= MailboxCap
  <2>1. mailbox # <<>> /\ mailbox' = Tail(mailbox)  BY RunTaskOwner DEF TypeInv
  <2>2. mailbox \in Seq(Nat) /\ Len(mailbox) <= MailboxCap  BY DEF TypeInv, RobotTypes
  <2>3. mailbox' \in Seq(Nat) /\ Len(mailbox') = Len(mailbox) - 1 /\ Len(mailbox) \in Nat
    BY <2>1, <2>2, SeqTail
  <2> QED  BY <2>2, <2>3, CapacityAssumption
<1>4. RobotTypes'  BY <1>1, <1>3 DEF TypeInv, RobotTypes
<1>5. InScript /\ Names(Me.w) /\ Me.w \in Waits /\ top \in Nat /\ refused \in BOOLEAN
  BY RunTaskOwner, MeIs, OwnerScalars DEF TypeInv
<1>6. NamedBy(AfterTask(Me.w))
  BY <1>2, <1>5, AfterTaskIs DEF TypeInv, Names, NamedBy, Grows
<1>7. CASE Rewrites(AfterTask(Me.w)) /\ UNCHANGED <<top, refused>>
  BY <1>2, <1>4, <1>5, <1>6, <1>7, OwnerRewritten DEF TypeInv
<1>8. ASSUME NEW under \in Seq(Scripts), EnterScript(under, plan.callback),
             Len(under) = Len(stack),
             \A i \in 1 .. Len(stack) : i # Len(stack) => under[i] = stack[i],
             under[Len(stack)] = [th |-> Me.th, todo |-> Me.todo, w |-> AfterTask(Me.w)]
      PROVE  TypeInv'
  <2>1. plan.callback \in Seq(Ops)  BY PlanAssumption DEF TypeInv, RobotTypes
  <2>2. ASSUME NEW i \in 1 .. Len(under) PROVE NamedBy(under[i].w)
    <3>1. CASE i = Len(stack)  BY <1>6, <1>8, <3>1
    <3>2. CASE i # Len(stack)
      <4>1. i \in 1 .. Len(stack) /\ under[i] = stack[i]  BY <1>8, <3>2
      <4>2. Names(stack[i].w)  BY <4>1 DEF TypeInv, OwnerTypes
      <4> QED  BY <1>2, <4>1, <4>2, NamesStay
    <3> QED  BY <3>1, <3>2
  <2>3. OwnerTypes'  BY <1>2, <1>8, <2>1, <2>2, OwnerEnters DEF TypeInv
  <2> QED  BY <1>2, <1>4, <2>3 DEF TypeInv
<1> QED  BY <1>7, <1>8, RunTaskOwner DEF TypeInv

LEMMA StartScriptTypes ==
    ASSUME TypeInv, StartScript
    PROVE  TypeInv'
<1>1. UNCHANGED <<plan, conns, cur, reqs, frames, job, mailbox, pending, cancelled, clean, monitor>>
      /\ stack = <<>> /\ EnterScript(stack, plan.script) /\ exec' = "running"
  BY DEF StartScript
<1>2. NetTypes' /\ Grows /\ JobTypes'  BY <1>1, NetSame, JobSame DEF TypeInv
<1>3. RobotTypes'  BY <1>1 DEF TypeInv, RobotTypes
<1>4. plan.script \in Seq(Ops)  BY PlanAssumption DEF TypeInv, RobotTypes
<1>5. stack \in Seq(Scripts) /\ \A i \in 1 .. Len(stack) : NamedBy(stack[i].w)
  BY <1>1 DEF TypeInv, OwnerTypes
<1>6. OwnerTypes'  BY <1>1, <1>2, <1>4, <1>5, OwnerEnters DEF TypeInv
<1> QED  BY <1>2, <1>3, <1>6 DEF TypeInv

\* A script ends and its thread is cached, or not.
LEMMA ScriptEndsOwner ==
    ASSUME OwnerTypes, EndScript \/ AbortScript
    PROVE  /\ InScript /\ Running /\ stack' = Below /\ UNCHANGED <<top, refused>>
           /\ idle' \in Seq(Nat) /\ Len(idle') <= MaxIdle
           /\ idle' = idle \/ idle' = Append(idle, Me.th)
<1>1. InScript /\ Running /\ stack' = Below /\ UNCHANGED <<top, refused>>
  BY DEF EndScript, AbortScript, Running
<1>2. idle \in Seq(Nat) /\ Len(idle) <= MaxIdle /\ Me.th \in Nat /\ Len(idle) \in Nat
  BY <1>1, MeIs DEF OwnerTypes
<1>3. CASE idle' = idle  BY <1>1, <1>2, <1>3
<1>4. CASE Len(idle) < MaxIdle /\ idle' = Append(idle, Me.th)
  BY <1>1, <1>2, <1>4, SeqAppend, CapacityAssumption
<1> QED  BY <1>3, <1>4 DEF EndScript, AbortScript

LEMMA ScriptEndsTypes ==
    ASSUME TypeInv, EndScript \/ AbortScript
    PROVE  TypeInv'
<1>1. UNCHANGED <<plan, conns, cur, reqs, frames, job, mailbox, pending, cancelled, exec, clean, monitor>>
  BY DEF EndScript, AbortScript
<1>2. NetTypes' /\ Grows /\ JobTypes' /\ RobotTypes'
  BY <1>1, NetSame, JobSame, RobotSame DEF TypeInv
<1>3. OwnerTypes'  BY <1>2, ScriptEndsOwner, OwnerBelow DEF TypeInv
<1> QED  BY <1>2, <1>3 DEF TypeInv

LEMMA EndExecutorTypes ==
    ASSUME TypeInv, EndExecutor
    PROVE  TypeInv'
<1>1. UNCHANGED <<plan, conns, cur, reqs, frames, owner, job, mailbox, pending, cancelled, clean, monitor>>
      /\ exec' = "done"
  BY DEF EndExecutor
<1>2. NetTypes' /\ Grows /\ JobTypes'  BY <1>1, NetSame, JobSame DEF TypeInv
<1>3. RobotTypes'  BY <1>1 DEF TypeInv, RobotTypes
<1>4. OwnerTypes'  BY <1>1, <1>2, OwnerSame DEF TypeInv
<1> QED  BY <1>2, <1>3, <1>4 DEF TypeInv

-----------------------------------------------------------------------------
(* Types, action by action: the dial job and the clean-up. *)

LEMMA CallConnectOwner ==
    ASSUME OwnerTypes, CallConnect
    PROVE  /\ Rewrites(Waiting("connect", "select", 0)) /\ UNCHANGED top /\ Me.w = NoWait
           /\ refused' = (refused \/ top # Me.th) /\ Running
<1>1. InScript /\ Me.todo # <<>> /\ Me.w = NoWait /\ Running  BY CallsIs DEF CallConnect
<1>2. Waiting("connect", "select", 0) \in Waits  BY WaitingIs DEF WaitKinds, WaitPlaces
<1> QED  BY <1>1, <1>2, AwaitIs DEF CallConnect

LEMMA CallConnectTypes ==
    ASSUME TypeInv, CallConnect
    PROVE  TypeInv'
<1>1. /\ UNCHANGED <<plan, conns, cur, reqs, frames, mailbox, pending, cancelled, exec, clean, monitor>>
      /\ job' = [pt |-> "place", conn |-> 0] /\ Len(conns) < MaxConns
  BY DEF CallConnect
<1>2. NetTypes' /\ Grows /\ RobotTypes'  BY <1>1, NetSame, RobotSame DEF TypeInv
<1>3. JobTypes'
  <2>1. job' \in Jobs /\ job'.pt = "place" /\ job'.conn = 0  BY <1>1 DEF Jobs, JobPlaces
  <2>2. Len(conns') \in Nat /\ Len(conns') < MaxConns  BY <1>1, <1>2 DEF Grows
  <2> QED  BY <2>1, <2>2 DEF JobTypes, Dialing
<1>4. OwnerTypes'
  <2>1. Waiting("connect", "select", 0).kind = "connect"  BY DEF Waiting
  <2>2. top \in Nat /\ refused \in BOOLEAN /\ (refused \/ top # Me.th) \in BOOLEAN
    BY OwnerScalars DEF TypeInv
  <2> QED  BY <1>2, <2>1, <2>2, CallConnectOwner, OwnerRewritten, NamesStay DEF TypeInv
<1> QED  BY <1>2, <1>3, <1>4 DEF TypeInv

\* The job moves on: its connection stays the one it dials.
LEMMA JobMoves ==
    ASSUME JobTypes, NEW pt \in JobPlaces, pt # "place", job' = [job EXCEPT !.pt = pt],
           Len(conns') = Len(conns), cur' \in {cur, 0},
           pt \in Dialing => job.pt \in Dialing
    PROVE  JobTypes' /\ job'.pt = pt /\ job'.conn = job.conn
<1>1. job' \in Jobs /\ job'.pt = pt /\ job'.conn = job.conn  BY DEF JobTypes, Jobs
<1> QED  BY <1>1 DEF JobTypes

LEMMA ConnectReturnsTypes ==
    ASSUME TypeInv, ConnectReturns
    PROVE  TypeInv'
<1>1. /\ UNCHANGED <<plan, conns, cur, reqs, frames, mailbox, pending, cancelled, exec, clean, monitor>>
      /\ job' = None /\ InScript /\ Resume
  BY DEF ConnectReturns, In
<1>2. NetTypes' /\ Grows /\ RobotTypes'  BY <1>1, NetSame, RobotSame DEF TypeInv
<1>3. JobTypes'
  <2>1. job' \in Jobs /\ job'.pt = "none" /\ job'.conn = 0  BY <1>1 DEF None, Jobs, JobPlaces
  <2>2. Len(conns') \in Nat  BY <1>2 DEF Grows
  <2> QED  BY <2>1, <2>2 DEF JobTypes, Dialing
<1>4. Rewrites(NoWait) /\ top' = Me.th /\ UNCHANGED refused /\ Me.th \in Nat
  BY <1>1, ResumeIs, MeIs DEF TypeInv
<1>5. OwnerTypes'
  BY <1>2, <1>4, OwnerRewritten, NamesStay, NoWaitIs, OwnerScalars DEF TypeInv
<1> QED  BY <1>2, <1>3, <1>5 DEF TypeInv

LEMMA JobPlaceTypes ==
    ASSUME TypeInv, JobPlace
    PROVE  TypeInv'
<1>1. /\ UNCHANGED <<plan, reqs, frames, owner, mailbox, pending, cancelled, exec, clean, monitor>>
      /\ job.pt = "place"
  BY DEF JobPlace
<1>2. RobotTypes'  BY <1>1, RobotSame DEF TypeInv
<1>3. CASE UNCHANGED <<conns, cur>> /\ job' = [job EXCEPT !.pt = "done"]
  <2>1. NetTypes' /\ Grows  BY <1>1, <1>3, NetSame DEF TypeInv
  <2>2. JobTypes'  BY <1>3, JobMoves DEF TypeInv, JobPlaces, Dialing
  <2> QED  BY <1>1, <1>2, <2>1, <2>2, OwnerSame DEF TypeInv
<1>4. CASE /\ cur = 0 /\ cur' = Len(conns) + 1
           /\ job' = [pt |-> "dial", conn |-> Len(conns) + 1]
           /\ conns' \in Seq(Connections) /\ Len(conns') = Len(conns) + 1
           /\ conns'[Len(conns) + 1] = NewConnection
           /\ \A c \in 1 .. Len(conns) : conns'[c] = conns[c]
  <2>1. Len(conns) \in Nat /\ Len(reqs) \in Nat /\ Len(conns) < MaxConns
    BY <1>1 DEF TypeInv, NetTypes, JobTypes
  <2>2. NewConnection.resp = 0  BY DEF NewConnection
  <2>3. ASSUME NEW c \in 1 .. Len(conns') PROVE conns'[c].resp \in 0 .. Len(reqs')
    <3>1. CASE c = Len(conns) + 1  BY <1>1, <1>4, <2>1, <2>2, <3>1
    <3>2. CASE c # Len(conns) + 1
      <4>1. c \in 1 .. Len(conns)  BY <1>4, <2>1, <3>2
      <4> QED  BY <1>1, <1>4, <4>1 DEF TypeInv, NetTypes
    <3> QED  BY <3>1, <3>2
  <2>4. \A r \in 1 .. Len(reqs') : reqs'[r].conn \in 1 .. Len(conns')
    BY <1>1, <1>4, <2>1 DEF TypeInv, NetTypes
  <2>5. NetTypes' /\ Grows
    BY <1>1, <1>4, <2>1, <2>3, <2>4, CapacityAssumption DEF TypeInv, NetTypes, Grows
  <2>6. job' \in Jobs /\ job'.pt = "dial" /\ job'.conn = Len(conns) + 1
    BY <1>4, <2>1 DEF Jobs, JobPlaces
  <2>7. JobTypes'  BY <1>4, <2>1, <2>6 DEF JobTypes
  <2> QED  BY <1>1, <1>2, <2>5, <2>7, OwnerSame DEF TypeInv
<1> QED  BY <1>3, <1>4, JobPlaceEffect DEF TypeInv

LEMMA JobTypesKept ==
    ASSUME TypeInv, NEW pt \in JobPlaces, pt # "place", job' = [job EXCEPT !.pt = pt],
           pt \in Dialing => job.pt \in Dialing,
           UNCHANGED conns \/ \E c \in Conns : Changes(c) /\ conns'[c].resp = conns[c].resp,
           cur' \in {cur, 0}, UNCHANGED <<reqs, owner>>, RobotTypes'
    PROVE  TypeInv'
<1>1. CASE UNCHANGED conns
  <2>1. NetTypes' /\ Grows  BY <1>1, NetSame DEF TypeInv
  <2> QED  BY <1>1, <2>1, OwnerSame, JobMoves DEF TypeInv
<1>2. ASSUME NEW c \in Conns, Changes(c), conns'[c].resp = conns[c].resp PROVE TypeInv'
  <2>1. NetTypes' /\ Grows  BY <1>2, NetKeepsRequests DEF TypeInv
  <2> QED  BY <1>2, <2>1, OwnerSame, JobMoves DEF TypeInv, Changes
<1> QED  BY <1>1, <1>2

LEMMA DialingTypes ==
    ASSUME TypeInv, JobDial \/ JobOpened \/ JobHeartbeat \/ JobOnClosed \/ JobOnDisconnect
    PROVE  TypeInv'
<1>0. UNCHANGED <<reqs, owner, plan, frames, mailbox, exec, clean>>
  BY DEF JobDial, JobOpened, JobHeartbeat, JobOnClosed, JobOnDisconnect
<1>1. job.pt \in Dialing /\ job.conn \in Conns
  <2>1. job.pt \in Dialing
    BY DEF JobDial, JobOpened, JobHeartbeat, JobOnClosed, JobOnDisconnect, Dialing
  <2> QED  BY <2>1, JobIndex DEF TypeInv
<1>2. monitor \in Counters /\ cancelled \in BOOLEAN /\ pending \in BOOLEAN
  BY DEF TypeInv, RobotTypes
<1>3. ASSUME monitor' \in Counters, cancelled' \in BOOLEAN, pending' \in BOOLEAN
      PROVE  RobotTypes'
  BY <1>0, <1>3 DEF TypeInv, RobotTypes
<1>4. {"opened", "heartbeat", "onclosed", "ondisconnect", "done", "failed"} \subseteq JobPlaces
  BY DEF JobPlaces
<1>5. CASE JobDial
  <2>1. UNCHANGED <<monitor, cancelled, pending>>  BY <1>5 DEF JobDial
  <2>2. PICK c \in Conns : c = job.conn  BY <1>1
  <2>3. Changes(c) /\ conns'[c].resp = conns[c].resp
    BY <1>5, <2>2, JobDialEffect DEF TypeInv, SameParts, SameAnswers, Closes, SameBut
  <2>4. \/ cur' = 0 /\ job' = [job EXCEPT !.pt = "failed"]
        \/ UNCHANGED cur /\ job' = [job EXCEPT !.pt = "opened"]
    BY <1>5, JobDialEffect DEF TypeInv
  <2> QED  BY <1>0, <1>1, <1>2, <1>3, <1>4, <2>1, <2>3, <2>4, JobTypesKept DEF Dialing
<1>6. CASE JobOpened
  <2>1. UNCHANGED <<cancelled, pending>>  BY <1>6 DEF JobOpened
  <2>2. PICK c \in Conns : c = job.conn  BY <1>1
  <2>3. Changes(c) /\ conns'[c].resp = conns[c].resp
    BY <1>6, <2>2, JobOpenedEffect DEF TypeInv, SameParts, SameAnswers, Closes, SameBut
  <2>4. \/ cur' = 0 /\ job' = [job EXCEPT !.pt = "failed"] /\ UNCHANGED monitor
        \/ /\ UNCHANGED cur /\ job' = [job EXCEPT !.pt = "heartbeat"]
           /\ monitor' = [monitor EXCEPT !.established = @ + 1]
    BY <1>6, JobOpenedEffect DEF TypeInv
  <2>5. [monitor EXCEPT !.established = @ + 1] \in Counters  BY <1>2 DEF Counters
  <2>6. RobotTypes'  BY <1>2, <1>3, <2>1, <2>4, <2>5
  <2> QED  BY <1>0, <1>1, <1>4, <2>3, <2>4, <2>6, JobTypesKept DEF Dialing
<1>7. CASE JobHeartbeat
  <2>1. UNCHANGED <<cur, monitor, cancelled>> /\ job' = [job EXCEPT !.pt = "onclosed"]
        /\ pending' \in BOOLEAN
    BY <1>2, <1>7 DEF JobHeartbeat, Deferred
  <2>2. UNCHANGED conns \/ \E c \in Conns : Changes(c) /\ conns'[c].resp = conns[c].resp
    BY <1>7, JobHeartbeatEffect, IndexIs DEF TypeInv, Ordered, SameAnswers
  <2>3. RobotTypes'  BY <1>2, <1>3, <2>1
  <2> QED  BY <1>0, <1>1, <1>4, <2>1, <2>2, <2>3, JobTypesKept DEF Dialing
<1>8. CASE JobOnClosed
  <2>1. UNCHANGED <<cur, pending>> /\ job' = [job EXCEPT !.pt = "ondisconnect"]
    BY <1>8 DEF JobOnClosed
  <2>2. monitor' \in Counters /\ cancelled' \in BOOLEAN
    BY <1>8, DeliversTypes DEF JobOnClosed, TypeInv
  <2>3. PICK c \in Conns : c = job.conn  BY <1>1
  <2>4. Changes(c) /\ conns'[c].resp = conns[c].resp
    BY <1>8, <2>3, JobOnClosedEffect DEF TypeInv, SameAnswers
  <2>5. RobotTypes'  BY <1>2, <1>3, <2>1, <2>2
  <2> QED  BY <1>0, <1>1, <1>4, <2>1, <2>4, <2>5, JobTypesKept DEF Dialing
<1>9. CASE JobOnDisconnect
  <2>1. UNCHANGED <<cur, pending>> /\ job' = [job EXCEPT !.pt = "done"]
    BY <1>9 DEF JobOnDisconnect
  <2>2. monitor' \in Counters /\ cancelled' \in BOOLEAN
    BY <1>9, DeliversTypes DEF JobOnDisconnect, TypeInv
  <2>3. PICK c \in Conns : c = job.conn  BY <1>1
  <2>4. Changes(c) /\ conns'[c].resp = conns[c].resp
    BY <1>9, <2>3, JobOnDisconnectEffect DEF TypeInv, SameAnswers
  <2>5. RobotTypes'  BY <1>2, <1>3, <2>1, <2>2
  <2> QED  BY <1>0, <1>1, <1>4, <2>1, <2>4, <2>5, JobTypesKept DEF Dialing
<1> QED  BY <1>5, <1>6, <1>7, <1>8, <1>9

-----------------------------------------------------------------------------
LEMMA EmptySequences ==
    <<>> \in Seq(Nat) /\ Len(<<>>) <= MaxIdle /\ Len(<<>>) <= MailboxCap
<1>1. <<>> \in Seq(Nat) /\ Len(<<>>) = 0  OBVIOUS
<1> QED  BY <1>1, CapacityAssumption

LEMMA CleanupTypes ==
    ASSUME TypeInv, Cleanup
    PROVE  TypeInv'
<1>0. cancelled \in BOOLEAN /\ clean \in {"idle", "stopped", "closing", "ok", "timeout"}
  BY DEF TypeInv, RobotTypes
<1>1. ASSUME UNCHANGED <<conns, cur, reqs, job, plan, frames, mailbox, pending, exec, monitor>>,
             cancelled' \in BOOLEAN, clean' \in {"idle", "stopped", "closing", "ok", "timeout"},
             UNCHANGED <<stack, top, refused>>, idle' = idle \/ idle' = <<>>
      PROVE  TypeInv'
  <2>1. NetTypes' /\ Grows  BY <1>1, NetSame DEF TypeInv
  <2>2. JobTypes'  BY <1>1, JobSame DEF TypeInv
  <2>3. RobotTypes'  BY <1>1 DEF TypeInv, RobotTypes
  <2>4. idle' \in Seq(Nat) /\ Len(idle') <= MaxIdle
    <3>1. CASE idle' = idle  BY <3>1 DEF TypeInv, OwnerTypes
    <3>2. CASE idle' = <<>>  BY <3>2, EmptySequences
    <3> QED  BY <1>1, <3>1, <3>2
  <2>5. \A i \in 1 .. Len(stack) : Names(stack[i].w)'
    BY <1>1 DEF TypeInv, OwnerTypes, Names
  <2>6. OwnerTypes'  BY <1>1, <2>4, <2>5 DEF TypeInv, OwnerTypes
  <2> QED  BY <2>1, <2>2, <2>3, <2>6 DEF TypeInv
<1>2. CASE CleanupStarts \/ CleanupTimesOut
  BY <1>0, <1>1, <1>2 DEF CleanupStarts, CleanupTimesOut, owner
<1>3. CASE CleanupDone
  BY <1>0, <1>1, <1>3 DEF CleanupDone
<1>4. CASE CloseAll
  <2>1. UNCHANGED <<reqs, owner, job, plan, frames, mailbox, pending, exec, monitor, cancelled>>
        /\ cur' = 0 /\ clean' = "closing"
    BY <1>4 DEF CloseAll
  <2>2. CASE UNCHANGED conns /\ cur = 0  BY <1>0, <1>1, <2>1, <2>2 DEF owner
  <2>3. CASE cur # 0 /\ Changes(cur) /\ Closes(conns[cur], conns'[cur])
    BY <1>0, <2>1, <2>3, OneConnectionTypes DEF Closes, SameBut
  <2> QED  BY <1>4, <2>2, <2>3, CloseAllEffect DEF TypeInv
<1> QED  BY <1>2, <1>3, <1>4 DEF Cleanup

\* Nothing happens.
LEMMA StutterTypes ==
    ASSUME TypeInv, UNCHANGED vars
    PROVE  TypeInv'
<1>1. UNCHANGED <<conns, cur, reqs, job, plan, frames, mailbox, pending, exec, monitor, cancelled,
                  clean, owner>>
  BY DEF vars
<1>2. NetTypes' /\ Grows /\ JobTypes' /\ RobotTypes'
  BY <1>1, NetSame, JobSame, RobotSame DEF TypeInv
<1> QED  BY <1>1, <1>2, OwnerSame DEF TypeInv

\* Next, action by action.
LEMMA Steps ==
    ASSUME Next
    PROVE  \/ \E c \in Conns : \E r \in DOMAIN reqs : ServerAnswers(c, r)
           \/ \E c \in Conns : ServerPushes(c)
           \/ \E c \in Conns : GnetOnClose(c)
           \/ \E c \in Conns : PumpFrame(c)
           \/ \E c \in Conns : PumpControl(c)
           \/ \E c \in Conns : PumpExit(c)
           \/ \E c \in Conns : PumpBeat(c)
           \/ \E c \in Conns : Publish(c)
           \/ CallListenOn
           \/ \E op \in {"key", "emptykey"} : CallSetKey(op)
           \/ CallClose \/ CallRequest \/ CallSleep \/ CallListen \/ CallConnect
           \/ CloseReturns \/ RequestEnds \/ ListenLooks \/ ListenWoken \/ ListenDeadline
           \/ WaitEnds \/ ConnectReturns
           \/ RunTask
           \/ JobPlace \/ JobDial \/ JobOpened \/ JobHeartbeat \/ JobOnClosed \/ JobOnDisconnect
           \/ CleanupStarts \/ CloseAll \/ CleanupDone \/ CleanupTimesOut
           \/ StartScript \/ EndScript \/ AbortScript \/ EndExecutor
BY DEF Next, Network, Pump, Calling, Ending, Job, Cleanup, RequestEnds

LEMMA TypeInvStep ==
    ASSUME TypeInv, [Next]_vars
    PROVE  TypeInv'
<1>1. CASE UNCHANGED vars  BY <1>1, StutterTypes
<1>2. CASE Next
  BY <1>2, Steps, ServerAnswersTypes, ServerPushesTypes, GnetOnCloseTypes, PumpFrameTypes,
     PumpTypes, PublishTypes, CallListenOnTypes, CallSetKeyTypes, CallCloseTypes,
     CallRequestTypes, CallWaitTypes, CallConnectTypes, CloseReturnsTypes, RequestEndsTypes,
     ListenTypes, WaitEndsTypes, ConnectReturnsTypes, RunTaskTypes, JobPlaceTypes,
     DialingTypes, CleanupTypes, StartScriptTypes, ScriptEndsTypes, EndExecutorTypes
     DEF Cleanup
<1> QED  BY <1>1, <1>2

LEMMA TypeInvInit ==
    ASSUME Init
    PROVE  TypeInv
<1>1. /\ plan \in Plans /\ conns = <<>> /\ cur = 0 /\ reqs = <<>> /\ frames = 0
      /\ stack = <<>> /\ idle = <<>> /\ top = 0 /\ refused = FALSE /\ job = None
      /\ mailbox = <<>> /\ pending = FALSE /\ cancelled = FALSE /\ exec = "ready"
      /\ clean = "idle" /\ monitor = [established |-> 0, closed |-> 0, dropped |-> 0]
  BY DEF Init
<1>2. NetTypes  BY <1>1, CapacityAssumption DEF NetTypes
<1>3. OwnerTypes
  <2>1. stack \in Seq(Scripts) /\ \A i \in 1 .. Len(stack) : Names(stack[i].w)  BY <1>1
  <2> QED  BY <1>1, <2>1, EmptySequences DEF OwnerTypes
<1>4. JobTypes
  <2>1. job \in Jobs /\ job.pt = "none" /\ job.conn = 0  BY <1>1 DEF None, Jobs, JobPlaces
  <2> QED  BY <1>1, <2>1 DEF JobTypes, Dialing
<1>5. monitor \in Counters  BY <1>1 DEF Counters
<1>6. RobotTypes  BY <1>1, <1>5, EmptySequences DEF RobotTypes
<1> QED  BY <1>2, <1>3, <1>4, <1>6 DEF TypeInv

LEMMA TypeInvHolds == Spec => []TypeInv
BY TypeInvInit, TypeInvStep, PTL DEF Spec

\* The state has the types of the structures it stands for: no channel, queue,
\* mailbox or cache of threads is ever over its limit (TypeOK), whatever the plan and
\* the limits are.
THEOREM ConnectionTypeOK == Spec => []TypeOK
<1>1. ASSUME TypeInv PROVE TypeOK
  <2>1. /\ cur \in 0 .. Len(conns) /\ Len(conns) <= MaxConns
        /\ Len(mailbox) <= MailboxCap /\ Len(idle) <= MaxIdle
        /\ exec \in {"ready", "running", "done"}
        /\ clean \in {"idle", "stopped", "closing", "ok", "timeout"}
    BY <1>1 DEF TypeInv, NetTypes, OwnerTypes, RobotTypes
  <2>2. ASSUME NEW c \in Conns
        PROVE  /\ conns[c].gnet \in {"none", "open", "closing", "shut"}
               /\ conns[c].pump \in {"off", "run", "done"}
               /\ Len(conns[c].inb) <= InboundCap /\ Len(conns[c].queue) <= QueueSize
               /\ Len(conns[c].ctl) <= ControlCap
               /\ conns[c].resp \in 0 .. Len(reqs)
    <3>1. conns[c] \in Connections /\ c \in 1 .. Len(conns)  BY <1>1, IndexIs DEF TypeInv
    <3>2. conns[c].resp \in 0 .. Len(reqs)  BY <1>1, <3>1 DEF TypeInv, NetTypes
    <3> QED  BY <3>1, <3>2, ConnectionFields DEF Inbox, Backlog, Controls
  <2> QED  BY <2>1, <2>2 DEF TypeOK
<1> QED  BY <1>1, TypeInvHolds, PTL

-----------------------------------------------------------------------------
(* The clean-up. *)

\* The Lua state goes back only after the robot is cancelled and its executor
\* has ended, and an executor that has ended runs no script.
Released ==
    /\ clean # "idle" => cancelled
    /\ clean = "ok" => exec = "done"
    /\ exec = "done" => stack = <<>>

\* A step outside the scripts: what it posts to the mailbox it posts before the
\* robot is cancelled.
Outside ==
    /\ UNCHANGED <<stack, idle, ran, clean, exec>>
    /\ cancelled => cancelled'
    /\ UNCHANGED mailbox \/ ~ cancelled

\* A step of a script.
Inside == InScript /\ UNCHANGED <<clean, exec, cancelled>>

LEMMA DeliversCancels ==
    ASSUME NEW old, NEW new, NEW event, Delivers(old, new, event)
    PROVE  cancelled => cancelled'
BY DEF Delivers, Deliver

LEMMA StepSides ==
    ASSUME TypeInv, [Next]_vars
    PROVE  Outside \/ Inside \/ StartScript \/ EndExecutor \/ Cleanup
<1>1. CASE UNCHANGED vars  BY <1>1 DEF vars, owner, Outside
<1>2. ASSUME NEW c \in Conns, NEW r \in DOMAIN reqs, ServerAnswers(c, r) PROVE Outside
  BY <1>2 DEF ServerAnswers, Outside, owner
<1>3. ASSUME NEW c \in Conns, ServerPushes(c) \/ GnetOnClose(c) PROVE Outside
  BY <1>3 DEF ServerPushes, GnetOnClose, Outside, owner
<1>4. ASSUME NEW c \in Conns, PumpFrame(c) PROVE Outside
  <2>1. UNCHANGED mailbox \/ ~ cancelled  BY <1>4, PumpFrameEffect DEF TypeInv
  <2> QED  BY <1>4, <2>1 DEF PumpFrame, Outside, owner
<1>5. ASSUME NEW c \in Conns, PumpControl(c) \/ PumpExit(c) \/ PumpBeat(c) PROVE Outside
  BY <1>5 DEF PumpControl, PumpExit, PumpBeat, Outside, owner
<1>6. ASSUME NEW c \in Conns, Publish(c) PROVE Outside
  <2>1. cancelled => cancelled'  BY <1>6, DeliversCancels DEF Publish
  <2> QED  BY <1>6, <2>1 DEF Publish, Outside, owner
<1>7. ASSUME CallListenOn \/ CallClose \/ CallRequest \/ CallSleep \/ CallListen \/ CallConnect
      PROVE  Inside
  BY <1>7 DEF CallListenOn, CallClose, CallRequest, CallSleep, CallListen, CallConnect,
              Calls, Running, Inside
<1>8. ASSUME NEW op, CallSetKey(op) PROVE Inside
  BY <1>8 DEF CallSetKey, Calls, Running, Inside
<1>9. ASSUME CloseReturns \/ RequestEnds \/ ListenLooks \/ ListenWoken \/ ListenDeadline
             \/ WaitEnds \/ ConnectReturns
      PROVE  Inside
  BY <1>9 DEF CloseReturns, RequestEnds, RequestAnswered, RequestGivenUp, ListenLooks,
              ListenWoken, ListenDeadline, WaitEnds, ConnectReturns, In, Inside
<1>10. ASSUME RunTask \/ EndScript \/ AbortScript PROVE Inside
  BY <1>10 DEF RunTask, EndScript, AbortScript, Running, Inside
<1>11. ASSUME JobPlace \/ JobDial \/ JobOpened \/ JobHeartbeat PROVE Outside
  <2>1. UNCHANGED <<owner, ran, clean, exec, cancelled, mailbox>>
    BY <1>11 DEF JobPlace, JobDial, JobOpened, JobHeartbeat
  <2> QED  BY <2>1 DEF Outside, owner
<1>12. ASSUME JobOnClosed \/ JobOnDisconnect PROVE Outside
  <2>1. cancelled => cancelled'  BY <1>12, DeliversCancels DEF JobOnClosed, JobOnDisconnect
  <2> QED  BY <1>12, <2>1 DEF JobOnClosed, JobOnDisconnect, Outside, owner
<1>13. CASE Next
  BY <1>2, <1>3, <1>4, <1>5, <1>6, <1>7, <1>8, <1>9, <1>10, <1>11, <1>12, <1>13, Steps
     DEF Cleanup
<1> QED  BY <1>1, <1>13

LEMMA ReleasedStep ==
    ASSUME TypeInv, Released, [Next]_vars
    PROVE  Released'
<1>1. CASE Outside  BY <1>1 DEF Outside, Released
<1>2. CASE Inside  BY <1>2 DEF Inside, InScript, Released
<1>3. CASE StartScript  BY <1>3 DEF StartScript, Released
<1>4. CASE EndExecutor  BY <1>4 DEF EndExecutor, Released, owner
<1>5. CASE Cleanup
  BY <1>5 DEF Cleanup, CleanupStarts, CloseAll, CleanupDone, CleanupTimesOut, Released, owner
<1> QED  BY <1>1, <1>2, <1>3, <1>4, <1>5, StepSides

\* Once the Lua state of a robot is back in the pool, no script, callback or
\* mailbox of this robot moves again (cleanupWithSubmit): no pump that is late,
\* no job and no timer finds a way back into the state another robot may have.
THEOREM ConnectionQuietOnceReleased == Spec => QuietOnceReleased
<1>1. Init => Released  BY DEF Init, Released
<1>2. ASSUME TypeInv, Released, [Next]_vars
      PROVE  [clean = "ok" => UNCHANGED <<stack, idle, ran, mailbox>>]_vars
  <2>1. CASE Outside  BY <1>2, <2>1 DEF Outside, Released
  <2>2. CASE Inside  BY <1>2, <2>2 DEF Inside, InScript, Released
  <2>3. CASE StartScript  BY <1>2, <2>3 DEF StartScript, Released
  <2>4. CASE EndExecutor  BY <1>2, <2>4 DEF EndExecutor, owner
  <2>5. CASE Cleanup
    BY <2>5 DEF Cleanup, CleanupStarts, CloseAll, CleanupDone, CleanupTimesOut, owner
  <2> QED  BY <1>2, <2>1, <2>2, <2>3, <2>4, <2>5, StepSides
<1>3. Spec => [](TypeInv /\ Released)
  BY <1>1, ReleasedStep, TypeInvHolds, PTL DEF Spec
<1> QED  BY <1>2, <1>3, PTL DEF Spec, QuietOnceReleased

-----------------------------------------------------------------------------
(* Counting connections. *)

\* A callback is called exactly when it is registered and its event occurred.
Happened(ev) == ev.delivered = 1 <=> ev.set /\ ev.occurred

\* What has been published of the end of a connection, and what is to come.
Lived(k) ==
    /\ Happened(k.closedEv) /\ Happened(k.dropEv)
    /\ k.closedEv.occurred <=> k.closed /\ k.pub = <<>>
    /\ k.dropEv.occurred <=> k.closed /\ k.peer /\ k.pub # <<"drop", "closed">>
    /\ ~ k.closed => k.pub = <<>> /\ ~ k.peer
    /\ k.pub = <<"drop", "closed">> => k.peer

\* The callbacks of a connection that counts are registered, but for the steps
\* its dial job has still to take.
Hooked(c, k, j) ==
    /\ k.closedEv.set <=> k.established /\ ~ (j.conn = c /\ j.pt \in {"heartbeat", "onclosed"})
    /\ k.dropEv.set <=>
         k.established /\ ~ (j.conn = c /\ j.pt \in {"heartbeat", "onclosed", "ondisconnect"})
    /\ j.conn = c /\ j.pt \in {"dial", "opened"} => ~ k.established
    /\ j.conn = c /\ j.pt \in {"heartbeat", "onclosed", "ondisconnect"} => k.established

\* The connections that were counted established and not yet closed.
Outstanding == {c \in Conns : conns[c].established /\ conns[c].closedEv.delivered = 0}

Balance == monitor.established - monitor.closed = Cardinality(Outstanding)

CountInv ==
    /\ \A c \in 1 .. Len(conns) : Lived(conns[c]) /\ Hooked(c, conns[c], job)
    /\ Balance

LEMMA PublicationsDiffer ==
    /\ <<"closed">> # <<>> /\ <<"drop", "closed">> # <<>>
    /\ <<"closed">> # <<"drop", "closed">>
OBVIOUS

LEMMA SameLifeLives ==
    ASSUME NEW k, NEW n, SameLife(k, n), Lived(k)
    PROVE  Lived(n)
BY DEF SameLife, Lived

LEMMA ClosesLives ==
    ASSUME NEW k \in Connections, NEW n \in Connections, Closes(k, n), Lived(k)
    PROVE  Lived(n)
<1>1. n.closedEv = k.closedEv /\ n.dropEv = k.dropEv /\ n.closed /\ n.peer = k.peer
  BY DEF Closes, SameBut
<1>2. CASE k.closed  BY <1>1, <1>2 DEF Closes, Lived
<1>3. CASE ~ k.closed
  <2>1. n.pub = <<"closed">>  BY <1>3 DEF Closes
  <2> QED  BY <1>1, <1>3, <2>1, PublicationsDiffer DEF Lived
<1> QED  BY <1>2, <1>3

LEMMA OnCloseLives ==
    ASSUME NEW k \in Connections, Lived(k)
    PROVE  Lived(OnClose(k))
<1> DEFINE n == OnClose(k)
<1>1. n.closedEv = k.closedEv /\ n.dropEv = k.dropEv /\ n.closed
  BY OnCloseIs DEF SameBut
<1>2. CASE k.closed
  <2>1. n.pub = k.pub /\ n.peer = k.peer  BY <1>2, OnCloseIs
  <2> HIDE DEF n
  <2>2. Lived(n)  BY <1>1, <1>2, <2>1 DEF Lived
  <2> QED  BY <2>2 DEF n
<1>3. CASE ~ k.closed
  <2>1. n.pub = <<"drop", "closed">> /\ n.peer  BY <1>3, OnCloseIs
  <2> HIDE DEF n
  <2>2. Lived(n)  BY <1>1, <1>3, <2>1, PublicationsDiffer DEF Lived
  <2> QED  BY <2>2 DEF n
<1> QED  BY <1>2, <1>3

\* The job moves without a change of what it owes a connection.
JobKeeps == \A d : \A k : Hooked(d, k, job) => Hooked(d, k, job')

LEMMA JobKeepsIs ==
    /\ UNCHANGED job => JobKeeps
    /\ job.pt \notin Dialing /\ job'.pt \notin Dialing => JobKeeps
    /\ job'.conn = job.conn /\ job.pt = "dial" /\ job'.pt \in {"opened", "failed"} => JobKeeps
    /\ job'.conn = job.conn /\ job.pt = "opened" /\ job'.pt = "failed" => JobKeeps
    /\ job'.conn = job.conn /\ job.pt = "heartbeat" /\ job'.pt = "onclosed" => JobKeeps
<1>1. ASSUME UNCHANGED job PROVE JobKeeps  BY <1>1 DEF JobKeeps
<1>2. ASSUME job.pt \notin Dialing, job'.pt \notin Dialing PROVE JobKeeps
  BY <1>2 DEF JobKeeps, Hooked, Dialing
<1>3. ASSUME job'.conn = job.conn, job.pt = "dial", job'.pt \in {"opened", "failed"} PROVE JobKeeps
  BY <1>3 DEF JobKeeps, Hooked
<1>4. ASSUME job'.conn = job.conn, job.pt = "opened", job'.pt = "failed" PROVE JobKeeps
  BY <1>4 DEF JobKeeps, Hooked
<1>5. ASSUME job'.conn = job.conn, job.pt = "heartbeat", job'.pt = "onclosed" PROVE JobKeeps
  BY <1>5 DEF JobKeeps, Hooked
<1> QED  BY <1>1, <1>2, <1>3, <1>4, <1>5

LEMMA CountSame ==
    ASSUME CountInv, UNCHANGED <<conns, monitor>>, JobKeeps
    PROVE  CountInv'
<1>1. Outstanding' = Outstanding  BY DEF Outstanding, Conns
<1>2. Balance'  BY <1>1 DEF CountInv, Balance
<1> QED  BY <1>2 DEF CountInv, JobKeeps

\* The life of one connection goes on, its events and what was counted stay.
LEMMA CountKeeps ==
    ASSUME NetTypes, CountInv, NEW c, Changes(c), Lived(conns'[c]),
           conns'[c].established = conns[c].established,
           conns'[c].closedEv = conns[c].closedEv, conns'[c].dropEv = conns[c].dropEv,
           JobKeeps, UNCHANGED monitor
    PROVE  CountInv'
<1>1. /\ c \in 1 .. Len(conns) /\ Len(conns') = Len(conns)
      /\ \A d \in 1 .. Len(conns) : d # c => conns'[d] = conns[d]
  BY DEF Changes
<1>2. Conns = 1 .. Len(conns) /\ Conns' = 1 .. Len(conns)
  BY <1>1, IndexIs DEF Conns, Changes
<1>3. \A d \in 1 .. Len(conns) : /\ conns'[d].established = conns[d].established
                                 /\ conns'[d].closedEv = conns[d].closedEv
  BY <1>1
<1>4. Outstanding' = Outstanding
  BY <1>2, <1>3 DEF Outstanding
<1>5. Balance'  BY <1>4 DEF CountInv, Balance
<1>6. ASSUME NEW d \in 1 .. Len(conns') PROVE Lived(conns'[d]) /\ Hooked(d, conns'[d], job')
  <2>1. CASE d # c  BY <1>1, <2>1 DEF CountInv, JobKeeps
  <2>2. CASE d = c
    <3>1. Hooked(c, conns[c], job)  BY <1>1 DEF CountInv
    <3>2. Hooked(c, conns[c], job')  BY <3>1 DEF JobKeeps
    <3>3. Hooked(c, conns'[c], job')  BY <3>2 DEF Hooked
    <3> QED  BY <2>2, <3>3
  <2> QED  BY <2>1, <2>2
<1> QED  BY <1>5, <1>6 DEF CountInv

\* One connection more, or one less, is outstanding, or as many as before.
LEMMA OutstandingIs ==
    ASSUME NetTypes, NEW c, Changes(c)
    PROVE  /\ IsFiniteSet(Outstanding) /\ Cardinality(Outstanding) \in Nat
           /\ c \in Outstanding /\ c \notin Outstanding' =>
                Cardinality(Outstanding') = Cardinality(Outstanding) - 1
           /\ c \notin Outstanding /\ c \in Outstanding' =>
                Cardinality(Outstanding') = Cardinality(Outstanding) + 1
           /\ (c \in Outstanding <=> c \in Outstanding') => Outstanding' = Outstanding
<1>1. /\ c \in 1 .. Len(conns) /\ Len(conns') = Len(conns) /\ Len(conns) \in Nat
      /\ \A d \in 1 .. Len(conns) : d # c => conns'[d] = conns[d]
  BY DEF Changes, NetTypes
<1>2. Conns = 1 .. Len(conns) /\ Conns' = 1 .. Len(conns)
  BY <1>1, IndexIs DEF Conns, Changes
<1>3. IsFiniteSet(Outstanding) /\ Cardinality(Outstanding) \in Nat
  <2>1. IsFiniteSet(1 .. Len(conns))  BY <1>1, FS_Interval
  <2>2. Outstanding \subseteq 1 .. Len(conns)  BY <1>2 DEF Outstanding
  <2>3. IsFiniteSet(Outstanding)  BY <2>1, <2>2, FS_Subset
  <2> QED  BY <2>3, FS_CardinalityType
<1>4. \A d : d # c => (d \in Outstanding <=> d \in Outstanding')
  BY <1>1, <1>2 DEF Outstanding
<1>5. ASSUME c \in Outstanding, c \notin Outstanding'
      PROVE  Cardinality(Outstanding') = Cardinality(Outstanding) - 1
  <2>1. Outstanding' = Outstanding \ {c}  BY <1>4, <1>5
  <2> QED  BY <1>3, <1>5, <2>1, FS_RemoveElement
<1>6. ASSUME c \notin Outstanding, c \in Outstanding'
      PROVE  Cardinality(Outstanding') = Cardinality(Outstanding) + 1
  <2>1. Outstanding' = Outstanding \union {c}  BY <1>4, <1>6
  <2> QED  BY <1>3, <1>6, <2>1, FS_AddElement
<1>7. ASSUME c \in Outstanding <=> c \in Outstanding'
      PROVE  Outstanding' = Outstanding
  BY <1>4, <1>7
<1> QED  BY <1>3, <1>5, <1>6, <1>7

-----------------------------------------------------------------------------
\* What the monitor counts when an event is delivered, or is not.
LEMMA DeliversCounts ==
    ASSUME monitor \in Counters, NEW old \in LifecycleEvents, NEW new \in LifecycleEvents
    PROVE  /\ Delivers(old, new, "closed") =>
                /\ monitor'.established = monitor.established
                /\ monitor'.closed = IF old.delivered = 0 /\ new.delivered = 1
                                     THEN monitor.closed + 1 ELSE monitor.closed
           /\ Delivers(old, new, "drop") =>
                monitor'.established = monitor.established /\ monitor'.closed = monitor.closed
<1>0. old.delivered \in {0, 1} /\ new.delivered \in {0, 1}  BY DEF LifecycleEvents
<1>1. ASSUME Delivers(old, new, "closed")
      PROVE  /\ monitor'.established = monitor.established
             /\ monitor'.closed = IF old.delivered = 0 /\ new.delivered = 1
                                  THEN monitor.closed + 1 ELSE monitor.closed
  <2>1. CASE new.delivered > old.delivered
    <3>1. monitor' = [monitor EXCEPT !.closed = @ + 1]  BY <1>1, <2>1 DEF Delivers, Deliver
    <3> QED  BY <1>0, <2>1, <3>1 DEF Counters
  <2>2. CASE ~ (new.delivered > old.delivered)
    <3>1. UNCHANGED monitor  BY <1>1, <2>2 DEF Delivers
    <3> QED  BY <1>0, <2>2, <3>1
  <2> QED  BY <2>1, <2>2
<1>2. ASSUME Delivers(old, new, "drop")
      PROVE  monitor'.established = monitor.established /\ monitor'.closed = monitor.closed
  <2>1. CASE new.delivered > old.delivered
    <3>1. monitor' = [monitor EXCEPT !.dropped = @ + 1]  BY <1>2, <2>1 DEF Delivers, Deliver
    <3> QED  BY <3>1 DEF Counters
  <2>2. CASE ~ (new.delivered > old.delivered)
    BY <1>2, <2>2 DEF Delivers
  <2> QED  BY <2>1, <2>2
<1> QED  BY <1>1, <1>2

\* The events of connection c move, and with them what is outstanding.
LEMMA CountMoves ==
    ASSUME NetTypes, CountInv, NEW c, Changes(c), Lived(conns'[c]),
           Hooked(c, conns'[c], job'),
           \A d \in 1 .. Len(conns) : d # c => Hooked(d, conns[d], job'),
           Balance'
    PROVE  CountInv'
<1>1. ASSUME NEW d \in 1 .. Len(conns') PROVE Lived(conns'[d]) /\ Hooked(d, conns'[d], job')
  <2>1. d \in 1 .. Len(conns) /\ (d # c => conns'[d] = conns[d])  BY DEF Changes
  <2>2. CASE d # c  BY <2>1, <2>2 DEF CountInv
  <2>3. CASE d = c  BY <2>3
  <2> QED  BY <2>2, <2>3
<1> QED  BY <1>1 DEF CountInv

\* The closed event of c is published or gets its callback: the connection is
\* taken off the account with the delivery.
LEMMA ClosedBalances ==
    ASSUME TypeInv, CountInv, NEW c, Changes(c), NEW ev \in LifecycleEvents,
           conns'[c].closedEv = ev, Happened(ev), conns[c].closedEv.delivered <= ev.delivered,
           conns[c].established, conns'[c].established,
           Delivers(conns[c].closedEv, ev, "closed")
    PROVE  Balance'
<1> DEFINE old == conns[c].closedEv
<1>0. NetTypes /\ monitor \in Counters /\ c \in Conns /\ c \in Conns' /\ conns[c] \in Connections
  <2>1. NetTypes /\ monitor \in Counters  BY DEF TypeInv, RobotTypes
  <2>2. c \in 1 .. Len(conns) /\ Len(conns') = Len(conns) /\ conns' \in Seq(Connections)
    BY DEF Changes
  <2>3. Conns = 1 .. Len(conns) /\ Conns' = 1 .. Len(conns')  BY <2>1, <2>2, IndexIs DEF Conns
  <2> QED  BY <2>1, <2>2, <2>3, IndexIs
<1>1. old \in LifecycleEvents /\ old.delivered \in {0, 1} /\ ev.delivered \in {0, 1}
  BY <1>0, ConnectionFields DEF LifecycleEvents
<1>2. monitor.established \in Int /\ monitor.closed \in Int  BY <1>0 DEF Counters
<1>3. /\ monitor'.established = monitor.established
      /\ monitor'.closed = IF old.delivered = 0 /\ ev.delivered = 1
                           THEN monitor.closed + 1 ELSE monitor.closed
  BY <1>0, <1>1, DeliversCounts
<1>4. (c \in Outstanding <=> old.delivered = 0) /\ (c \in Outstanding' <=> ev.delivered = 0)
  BY <1>0 DEF Outstanding
<1>5. monitor.established - monitor.closed = Cardinality(Outstanding)
  BY DEF CountInv, Balance
<1>6. Cardinality(Outstanding) \in Nat  BY <1>0, OutstandingIs
<1>7. CASE old.delivered = 0 /\ ev.delivered = 1
  <2>1. Cardinality(Outstanding') = Cardinality(Outstanding) - 1
    BY <1>0, <1>4, <1>7, OutstandingIs
  <2> QED  BY <1>2, <1>3, <1>5, <1>6, <1>7, <2>1 DEF Balance
<1>8. CASE ~ (old.delivered = 0 /\ ev.delivered = 1)
  <2>1. old.delivered = ev.delivered  BY <1>1, <1>8
  <2>2. Outstanding' = Outstanding  BY <1>0, <1>4, <2>1, OutstandingIs
  <2> QED  BY <1>2, <1>3, <1>5, <1>8, <2>2 DEF Balance
<1> QED  BY <1>7, <1>8

\* Nothing is outstanding that was not before, and nothing is counted.
LEMMA OtherBalances ==
    ASSUME TypeInv, CountInv, NEW c, Changes(c),
           conns'[c].established = conns[c].established,
           conns'[c].closedEv.delivered = conns[c].closedEv.delivered,
           monitor'.established = monitor.established, monitor'.closed = monitor.closed
    PROVE  Balance'
<1>0. NetTypes  BY DEF TypeInv
<1>1. c \in 1 .. Len(conns) /\ Len(conns') = Len(conns) /\ conns' \in Seq(Connections)
  BY DEF Changes
<1>2. Conns = 1 .. Len(conns) /\ Conns' = 1 .. Len(conns)  BY <1>0, <1>1, IndexIs DEF Conns
<1>3. c \in Outstanding <=> c \in Outstanding'  BY <1>1, <1>2 DEF Outstanding
<1>4. Outstanding' = Outstanding  BY <1>0, <1>3, OutstandingIs
<1> QED  BY <1>4 DEF CountInv, Balance

LEMMA PublishCount ==
    ASSUME TypeInv, CountInv, NEW c \in Conns, Publish(c)
    PROVE  CountInv'
<1> DEFINE k == conns[c]
           n == conns'[c]
<1>0. NetTypes /\ monitor \in Counters /\ c \in 1 .. Len(conns) /\ k \in Connections
  BY IndexIs DEF TypeInv, RobotTypes
<1>1. /\ Changes(c) /\ n.established = k.established /\ n.peer = k.peer /\ n.closed = k.closed
      /\ k.pub # <<>> /\ n.pub = Tail(k.pub)
  BY <1>0, PublishEffect DEF SameBeat
<1>2. Lived(k) /\ Hooked(c, k, job) /\ UNCHANGED job  BY <1>0 DEF CountInv, Publish
<1>3. k.pub \in Publications /\ k.closedEv \in LifecycleEvents /\ k.dropEv \in LifecycleEvents
  BY <1>0, ConnectionFields
<1>4. \A d \in 1 .. Len(conns) : d # c => Hooked(d, conns[d], job')  BY <1>2 DEF CountInv
<1>5. k.closed  BY <1>1, <1>2 DEF Lived
<1>6. CASE Head(k.pub) = "closed"
  <2>1. k.pub = <<"closed">> /\ n.pub = <<>>
    BY <1>1, <1>3, <1>6, PublicationTail DEF Publications
  <2>2. /\ n.closedEv = Published(k.closedEv) /\ n.dropEv = k.dropEv
        /\ Delivers(k.closedEv, Published(k.closedEv), "closed")
    BY <1>0, <1>6, PublishEffect
  <2>3. /\ Published(k.closedEv) \in LifecycleEvents
        /\ Published(k.closedEv).occurred /\ Published(k.closedEv).set = k.closedEv.set
        /\ Published(k.closedEv).delivered = IF k.closedEv.set THEN 1 ELSE 0
    BY <1>2, <1>3, EventStays DEF Lived, Happened
  <2>4. ~ k.closedEv.occurred /\ k.closedEv.delivered = 0
    BY <1>2, <1>3, <2>1, PublicationsDiffer DEF Lived, Happened, LifecycleEvents
  <2>5. Happened(n.closedEv) /\ n.closedEv.occurred /\ n.closedEv.set = k.closedEv.set
    BY <2>2, <2>3 DEF Happened
  <2>6. Lived(n)
    BY <1>1, <1>2, <1>5, <2>1, <2>2, <2>5, PublicationsDiffer DEF Lived
  <2>7. Hooked(c, n, job')  BY <1>1, <1>2, <2>2, <2>5 DEF Hooked
  <2>8. Balance'
    <3>1. CASE k.established
      <4>1. k.closedEv.delivered <= n.closedEv.delivered  BY <2>2, <2>3, <2>4
      <4> QED  BY <1>1, <2>2, <2>3, <2>5, <3>1, <4>1, ClosedBalances
    <3>2. CASE ~ k.established
      <4>1. ~ k.closedEv.set  BY <1>2, <3>2 DEF Hooked
      <4>2. n.closedEv.delivered = k.closedEv.delivered  BY <2>2, <2>3, <2>4, <4>1
      <4>3. monitor'.established = monitor.established /\ monitor'.closed = monitor.closed
        BY <1>0, <1>3, <2>2, <2>3, <4>1, DeliversCounts
      <4> QED  BY <1>1, <4>2, <4>3, OtherBalances
    <3> QED  BY <3>1, <3>2
  <2> QED  BY <1>0, <1>1, <1>4, <2>6, <2>7, <2>8, CountMoves
<1>7. CASE Head(k.pub) # "closed"
  <2>1. k.pub = <<"drop", "closed">> /\ n.pub = <<"closed">>
    BY <1>1, <1>3, <1>7, PublicationTail DEF Publications
  <2>2. /\ n.dropEv = Published(k.dropEv) /\ n.closedEv = k.closedEv
        /\ Delivers(k.dropEv, Published(k.dropEv), "drop")
    BY <1>0, <1>7, PublishEffect
  <2>3. /\ Published(k.dropEv) \in LifecycleEvents
        /\ Published(k.dropEv).occurred /\ Published(k.dropEv).set = k.dropEv.set
        /\ Published(k.dropEv).delivered = IF k.dropEv.set THEN 1 ELSE 0
    BY <1>2, <1>3, EventStays DEF Lived, Happened
  <2>5. Happened(n.dropEv) /\ n.dropEv.occurred /\ n.dropEv.set = k.dropEv.set
    BY <2>2, <2>3 DEF Happened
  <2>6. Lived(n)
    BY <1>1, <1>2, <1>5, <2>1, <2>2, <2>5, PublicationsDiffer DEF Lived
  <2>7. Hooked(c, n, job')  BY <1>1, <1>2, <2>2, <2>5 DEF Hooked
  <2>8. Balance'
    <3>1. monitor'.established = monitor.established /\ monitor'.closed = monitor.closed
      BY <1>0, <1>3, <2>2, <2>3, DeliversCounts
    <3> QED  BY <1>1, <2>2, <3>1, OtherBalances
  <2> QED  BY <1>0, <1>1, <1>4, <2>6, <2>7, <2>8, CountMoves
<1> QED  BY <1>6, <1>7

-----------------------------------------------------------------------------
\* The next place of the dial job.
LEMMA JobNext ==
    ASSUME JobTypes, NEW pt, job' = [job EXCEPT !.pt = pt]
    PROVE  job'.pt = pt /\ job'.conn = job.conn
BY DEF JobTypes, Jobs

LEMMA JobOpenedCount ==
    ASSUME TypeInv, CountInv, JobOpened
    PROVE  CountInv'
<1>0. NetTypes /\ JobTypes /\ monitor \in Counters  BY DEF TypeInv, RobotTypes
<1>1. job.pt = "opened" /\ job.pt \in Dialing  BY DEF JobOpened, Dialing
<1>2. PICK c \in Conns : c = job.conn  BY <1>0, <1>1, JobIndex
<1> DEFINE k == conns[c]
           n == conns'[c]
<1>3. c \in 1 .. Len(conns) /\ k \in Connections /\ Changes(c) /\ n \in Connections
  BY <1>0, <1>2, IndexIs, JobOpenedEffect DEF Changes
<1>4. Lived(k) /\ Hooked(c, k, job)  BY <1>3 DEF CountInv
<1>5. CASE /\ job' = [job EXCEPT !.pt = "failed"] /\ UNCHANGED monitor
           /\ SameParts(k, n) \/ Closes(k, n)
  <2>1. JobKeeps  BY <1>0, <1>1, <1>5, JobNext, JobKeepsIs
  <2>2. Lived(n)  BY <1>3, <1>4, <1>5, SameLifeLives, ClosesLives DEF SameParts
  <2>3. n.established = k.established /\ n.closedEv = k.closedEv /\ n.dropEv = k.dropEv
    BY <1>5 DEF SameParts, SameLife, Closes, SameBut
  <2> QED  BY <1>0, <1>3, <1>5, <2>1, <2>2, <2>3, CountKeeps
<1>6. CASE /\ job' = [job EXCEPT !.pt = "heartbeat"]
           /\ monitor' = [monitor EXCEPT !.established = @ + 1]
           /\ SameBeat(k, n) /\ n.pub = k.pub /\ n.peer = k.peer
           /\ n.closedEv = k.closedEv /\ n.dropEv = k.dropEv /\ n.established
  <2>1. job'.pt = "heartbeat" /\ job'.conn = c  BY <1>0, <1>2, <1>6, JobNext
  <2>2. Lived(n)  BY <1>4, <1>6 DEF Lived, SameBeat
  <2>3. ~ k.established /\ ~ k.closedEv.set /\ ~ k.dropEv.set
    BY <1>1, <1>2, <1>4 DEF Hooked
  <2>4. Hooked(c, n, job')  BY <1>6, <2>1, <2>3 DEF Hooked
  <2>5. ASSUME NEW d \in 1 .. Len(conns), d # c PROVE Hooked(d, conns[d], job')
    <3>1. Hooked(d, conns[d], job)  BY DEF CountInv
    <3> QED  BY <1>2, <2>1, <2>5, <3>1 DEF Hooked
  <2>6. k.closedEv.delivered = 0
    <3>1. k.closedEv.delivered \in {0, 1}  BY <1>3, ConnectionFields DEF LifecycleEvents
    <3> QED  BY <1>4, <2>3, <3>1 DEF Lived, Happened
  <2>7. Balance'
    <3>1. Conns' = 1 .. Len(conns') /\ Len(conns') = Len(conns)  BY <1>3 DEF Changes, Conns
    <3>2. c \notin Outstanding /\ c \in Outstanding'
      BY <1>3, <1>6, <2>3, <2>6, <3>1 DEF Outstanding
    <3>3. Cardinality(Outstanding') = Cardinality(Outstanding) + 1
          /\ Cardinality(Outstanding) \in Nat
      BY <1>0, <1>3, <3>2, OutstandingIs
    <3>4. /\ monitor'.established = monitor.established + 1 /\ monitor'.closed = monitor.closed
          /\ monitor.established \in Int /\ monitor.closed \in Int
      BY <1>0, <1>6 DEF Counters
    <3> QED  BY <3>3, <3>4 DEF CountInv, Balance
  <2> QED  BY <1>0, <1>3, <2>2, <2>4, <2>5, <2>7, CountMoves
<1> QED  BY <1>0, <1>2, <1>5, <1>6, JobOpenedEffect

LEMMA JobOnClosedCount ==
    ASSUME TypeInv, CountInv, JobOnClosed
    PROVE  CountInv'
<1>0. NetTypes /\ JobTypes /\ monitor \in Counters  BY DEF TypeInv, RobotTypes
<1>1. job.pt = "onclosed" /\ job.pt \in Dialing  BY DEF JobOnClosed, Dialing
<1>2. PICK c \in Conns : c = job.conn  BY <1>0, <1>1, JobIndex
<1> DEFINE k == conns[c]
           n == conns'[c]
           ev == Registered(k.closedEv)
<1>3. c \in 1 .. Len(conns) /\ k \in Connections  BY <1>0, IndexIs
<1>4. Lived(k) /\ Hooked(c, k, job)  BY <1>3 DEF CountInv
<1>5. /\ Changes(c) /\ SameBeat(k, n) /\ n.pub = k.pub /\ n.peer = k.peer
      /\ n.closedEv = ev /\ n.dropEv = k.dropEv /\ n.established = k.established
  BY <1>0, <1>2, JobOnClosedEffect
<1>6. job'.pt = "ondisconnect" /\ job'.conn = c /\ Delivers(k.closedEv, ev, "closed")
  BY <1>0, <1>2, JobNext DEF JobOnClosed
<1>7. k.established /\ ~ k.closedEv.set /\ ~ k.dropEv.set  BY <1>1, <1>2, <1>4 DEF Hooked
<1>8. k.closedEv \in LifecycleEvents /\ k.closedEv.delivered \in {0, 1}
  BY <1>3, ConnectionFields DEF LifecycleEvents
<1>9. /\ ev \in LifecycleEvents /\ ev.set /\ ev.occurred = k.closedEv.occurred
      /\ ev.delivered = IF k.closedEv.occurred THEN 1 ELSE 0
  BY <1>4, <1>8, EventStays DEF Lived, Happened
<1> HIDE DEF ev
<1>10. Happened(ev) /\ k.closedEv.delivered <= ev.delivered
  <2>1. Happened(ev)  BY <1>9 DEF Happened
  <2>2. k.closedEv.delivered = 0  BY <1>4, <1>7, <1>8 DEF Lived, Happened
  <2> QED  BY <1>9, <2>1, <2>2
<1>11. Lived(n)  BY <1>4, <1>5, <1>9, <1>10 DEF Lived, SameBeat
<1>12. Hooked(c, n, job')  BY <1>5, <1>6, <1>7, <1>9 DEF Hooked
<1>13. ASSUME NEW d \in 1 .. Len(conns), d # c PROVE Hooked(d, conns[d], job')
  <2>1. Hooked(d, conns[d], job)  BY DEF CountInv
  <2> QED  BY <1>2, <1>6, <1>13, <2>1 DEF Hooked
<1>14. Balance'  BY <1>5, <1>6, <1>7, <1>9, <1>10, ClosedBalances
<1> QED  BY <1>0, <1>5, <1>11, <1>12, <1>13, <1>14, CountMoves

LEMMA JobOnDisconnectCount ==
    ASSUME TypeInv, CountInv, JobOnDisconnect
    PROVE  CountInv'
<1>0. NetTypes /\ JobTypes /\ monitor \in Counters  BY DEF TypeInv, RobotTypes
<1>1. job.pt = "ondisconnect" /\ job.pt \in Dialing  BY DEF JobOnDisconnect, Dialing
<1>2. PICK c \in Conns : c = job.conn  BY <1>0, <1>1, JobIndex
<1> DEFINE k == conns[c]
           n == conns'[c]
           ev == Registered(k.dropEv)
<1>3. c \in 1 .. Len(conns) /\ k \in Connections  BY <1>0, IndexIs
<1>4. Lived(k) /\ Hooked(c, k, job)  BY <1>3 DEF CountInv
<1>5. /\ Changes(c) /\ SameBeat(k, n) /\ n.pub = k.pub /\ n.peer = k.peer
      /\ n.dropEv = ev /\ n.closedEv = k.closedEv /\ n.established = k.established
  BY <1>0, <1>2, JobOnDisconnectEffect
<1>6. job'.pt = "done" /\ job'.conn = c /\ Delivers(k.dropEv, ev, "drop")
  BY <1>0, <1>2, JobNext DEF JobOnDisconnect
<1>7. k.established /\ k.closedEv.set /\ ~ k.dropEv.set  BY <1>1, <1>2, <1>4 DEF Hooked
<1>8. k.dropEv \in LifecycleEvents  BY <1>3, ConnectionFields
<1>9. /\ ev \in LifecycleEvents /\ ev.set /\ ev.occurred = k.dropEv.occurred
      /\ ev.delivered = IF k.dropEv.occurred THEN 1 ELSE 0
  BY <1>4, <1>8, EventStays DEF Lived, Happened
<1> HIDE DEF ev
<1>10. Happened(ev)  BY <1>9 DEF Happened
<1>11. Lived(n)  BY <1>4, <1>5, <1>9, <1>10 DEF Lived, SameBeat
<1>12. Hooked(c, n, job')  BY <1>5, <1>6, <1>7, <1>9 DEF Hooked
<1>13. ASSUME NEW d \in 1 .. Len(conns), d # c PROVE Hooked(d, conns[d], job')
  <2>1. Hooked(d, conns[d], job)  BY DEF CountInv
  <2> QED  BY <1>2, <1>6, <1>13, <2>1 DEF Hooked
<1>14. Balance'
  <2>1. monitor'.established = monitor.established /\ monitor'.closed = monitor.closed
    BY <1>0, <1>6, <1>8, <1>9, DeliversCounts
  <2> QED  BY <1>5, <2>1, OtherBalances
<1> QED  BY <1>0, <1>5, <1>11, <1>12, <1>13, <1>14, CountMoves

LEMMA JobPlaceCount ==
    ASSUME TypeInv, CountInv, JobPlace
    PROVE  CountInv'
<1>0. NetTypes /\ JobTypes /\ Len(conns) \in Nat  BY DEF TypeInv, NetTypes
<1>1. job.pt = "place" /\ job.pt \notin Dialing /\ UNCHANGED monitor
  BY DEF JobPlace, Dialing
<1>2. CASE UNCHANGED conns /\ job' = [job EXCEPT !.pt = "done"]
  <2>1. job'.pt \notin Dialing  BY <1>0, <1>2, JobNext DEF Dialing
  <2>2. JobKeeps  BY <1>1, <2>1, JobKeepsIs
  <2> QED  BY <1>1, <1>2, <2>2, CountSame
<1>3. CASE /\ job' = [pt |-> "dial", conn |-> Len(conns) + 1]
           /\ conns' \in Seq(Connections) /\ Len(conns') = Len(conns) + 1
           /\ conns'[Len(conns) + 1] = NewConnection
           /\ \A c \in 1 .. Len(conns) : conns'[c] = conns[c]
  <2>1. job'.pt = "dial" /\ job'.conn = Len(conns) + 1  BY <1>3
  <2>2. Conns = 1 .. Len(conns) /\ Conns' = 1 .. (Len(conns) + 1)
    BY <1>0, <1>3, IndexIs DEF Conns
  <2>3. Lived(NewConnection) /\ ~ NewConnection.established /\ ~ NewConnection.closedEv.set
        /\ ~ NewConnection.dropEv.set
    BY PublicationsDiffer DEF NewConnection, Lived, Happened
  <2>4. ASSUME NEW c \in 1 .. Len(conns') PROVE Lived(conns'[c]) /\ Hooked(c, conns'[c], job')
    <3>1. CASE c = Len(conns) + 1  BY <1>3, <2>1, <2>3, <3>1 DEF Hooked
    <3>2. CASE c # Len(conns) + 1
      <4>1. c \in 1 .. Len(conns) /\ conns'[c] = conns[c]  BY <1>0, <1>3, <3>2
      <4>2. Lived(conns[c]) /\ Hooked(c, conns[c], job)  BY <4>1 DEF CountInv
      <4>3. Hooked(c, conns[c], job')  BY <1>1, <2>1, <3>2, <4>2 DEF Hooked
      <4> QED  BY <4>1, <4>2, <4>3
    <3> QED  BY <3>1, <3>2
  <2>5. Outstanding' = Outstanding
    <3>1. ASSUME NEW c PROVE c \in Outstanding <=> c \in Outstanding'
      <4>1. CASE c = Len(conns) + 1
        BY <1>0, <1>3, <2>2, <2>3, <4>1 DEF Outstanding
      <4>2. CASE c # Len(conns) + 1
        <5>1. c \in Conns <=> c \in Conns'  BY <1>0, <2>2, <4>2
        <5>2. c \in Conns => conns'[c] = conns[c]  BY <1>3, <2>2
        <5> QED  BY <5>1, <5>2 DEF Outstanding
      <4> QED  BY <4>1, <4>2
    <3> QED  BY <3>1
  <2>6. Balance'  BY <1>1, <2>5 DEF CountInv, Balance
  <2> QED  BY <2>4, <2>6 DEF CountInv
<1> QED  BY <1>0, <1>2, <1>3, JobPlaceEffect

\* The life of the connections goes on in the other steps.
LEMMA OtherCount ==
    ASSUME TypeInv, CountInv, UNCHANGED monitor, JobKeeps,
           \/ UNCHANGED conns
           \/ \E c \in Conns : /\ Changes(c)
                               /\ \/ SameLife(conns[c], conns'[c])
                                  \/ Closes(conns[c], conns'[c])
                                  \/ conns'[c] = OnClose(conns[c])
    PROVE  CountInv'
<1>1. CASE UNCHANGED conns  BY <1>1, CountSame
<1>2. ASSUME NEW c \in Conns, Changes(c),
             \/ SameLife(conns[c], conns'[c]) \/ Closes(conns[c], conns'[c])
             \/ conns'[c] = OnClose(conns[c])
      PROVE  CountInv'
  <2>1. NetTypes /\ c \in 1 .. Len(conns) /\ conns[c] \in Connections /\ conns'[c] \in Connections
    BY <1>2, IndexIs DEF TypeInv, Changes
  <2>2. Lived(conns[c])  BY <2>1 DEF CountInv
  <2>3. Lived(conns'[c])  BY <1>2, <2>1, <2>2, SameLifeLives, ClosesLives, OnCloseLives
  <2>4. /\ conns'[c].established = conns[c].established
        /\ conns'[c].closedEv = conns[c].closedEv /\ conns'[c].dropEv = conns[c].dropEv
    <3>1. CASE SameLife(conns[c], conns'[c])  BY <3>1 DEF SameLife
    <3>2. CASE Closes(conns[c], conns'[c])  BY <3>2 DEF Closes, SameBut
    <3>3. CASE conns'[c] = OnClose(conns[c])  BY <2>1, <3>3, OnCloseIs DEF SameBut
    <3> QED  BY <1>2, <3>1, <3>2, <3>3
  <2> QED  BY <1>2, <2>1, <2>3, <2>4, CountKeeps
<1> QED  BY <1>1, <1>2

-----------------------------------------------------------------------------
\* What a step does to the life of the connections.
LifeGoesOn ==
    \/ UNCHANGED conns
    \/ \E c \in Conns : /\ Changes(c)
                        /\ \/ SameLife(conns[c], conns'[c])
                           \/ Closes(conns[c], conns'[c])
                           \/ conns'[c] = OnClose(conns[c])

LEMMA CountInvStep ==
    ASSUME TypeInv, CountInv, [Next]_vars
    PROVE  CountInv'
<1>0. NetTypes /\ OwnerTypes /\ JobTypes  BY DEF TypeInv
<1>a. ASSUME UNCHANGED <<monitor, job>>, LifeGoesOn PROVE CountInv'
  BY <1>a, JobKeepsIs, OtherCount DEF LifeGoesOn
<1>1. CASE UNCHANGED vars
  BY <1>1, <1>a DEF vars, LifeGoesOn
<1>2. ASSUME NEW c \in Conns, NEW r \in DOMAIN reqs, ServerAnswers(c, r) PROVE CountInv'
  <2>1. LifeGoesOn  BY <1>0, <1>2, ServerAnswersEffect DEF LifeGoesOn
  <2> QED  BY <1>2, <1>a, <2>1 DEF ServerAnswers
<1>3. ASSUME NEW c \in Conns, ServerPushes(c) PROVE CountInv'
  <2>1. LifeGoesOn  BY <1>3, ServerPushesEffect DEF LifeGoesOn
  <2> QED  BY <1>3, <1>a, <2>1 DEF ServerPushes
<1>4. ASSUME NEW c \in Conns, GnetOnClose(c) PROVE CountInv'
  <2>1. LifeGoesOn  BY <1>0, <1>4, GnetOnCloseEffect DEF LifeGoesOn
  <2> QED  BY <1>4, <1>a, <2>1 DEF GnetOnClose
<1>5. ASSUME NEW c \in Conns, PumpFrame(c) \/ PumpControl(c) \/ PumpExit(c) \/ PumpBeat(c)
      PROVE  CountInv'
  <2>1. LifeGoesOn
    BY <1>0, <1>5, PumpFrameEffect, PumpControlEffect, PumpExitEffect, PumpBeatEffect DEF LifeGoesOn
  <2> QED  BY <1>5, <1>a, <2>1 DEF PumpFrame, PumpControl, PumpExit, PumpBeat
<1>6. ASSUME CallListenOn PROVE CountInv'
  <2>1. LifeGoesOn  BY <1>0, <1>6, CallListenOnEffect, IndexIs DEF LifeGoesOn, SameParts
  <2> QED  BY <1>6, <1>a, <2>1 DEF CallListenOn
<1>7. ASSUME NEW op, CallSetKey(op) PROVE CountInv'
  <2>1. LifeGoesOn  BY <1>0, <1>7, CallSetKeyEffect, IndexIs DEF LifeGoesOn
  <2> QED  BY <1>7, <1>a, <2>1 DEF CallSetKey
<1>8. ASSUME CallClose PROVE CountInv'
  <2>1. LifeGoesOn  BY <1>0, <1>8, CallCloseEffect, IndexIs DEF LifeGoesOn
  <2> QED  BY <1>8, <1>a, <2>1 DEF CallClose
<1>9. ASSUME CallRequest PROVE CountInv'
  <2>1. LifeGoesOn
    <3>1. ASSUME NEW sent \in BOOLEAN, cur # 0, SendRequest(sent) PROVE LifeGoesOn
      BY <1>0, <3>1, SendRequestEffect, IndexIs DEF LifeGoesOn, SameButResp
    <3> QED  BY <1>9, <3>1 DEF CallRequest, LifeGoesOn
  <2> QED  BY <1>9, <1>a, <2>1 DEF CallRequest
<1>10. ASSUME RequestEnds PROVE CountInv'
  <2>1. PICK r \in 1 .. Len(reqs) : r = Me.w.id  BY <1>10, RequestEndsIs
  <2>2. PICK answer \in Nat : CloseRequest(r, answer)  BY <1>10, <2>1, RequestEndsIs
  <2>3. PICK c \in Conns : c = reqs[r].conn  BY <1>0, IndexIs DEF NetTypes
  <2>4. Changes(c) /\ SameLife(conns[c], conns'[c])
    BY <1>0, <2>2, <2>3, CloseRequestEffect DEF SameButResp
  <2> QED  BY <1>10, <1>a, <2>4, RequestEndsIs DEF LifeGoesOn
<1>11. ASSUME ListenLooks \/ ListenWoken \/ ListenDeadline PROVE CountInv'
  <2>1. LifeGoesOn
    <3>1. CASE ListenLooks
      BY <1>0, <3>1, ListenLooksEffect, IndexIs DEF LifeGoesOn, SameButQueue
    <3>2. CASE ListenWoken
      <4>1. PICK c : c = Me.w.id  OBVIOUS
      <4>2. Changes(c) /\ SameLife(conns[c], conns'[c])
        BY <1>0, <3>2, <4>1, ListenWokenEffect DEF SameButQueue
      <4>3. c \in Conns  BY <1>0, <4>2, IndexIs DEF Changes
      <4> QED  BY <4>2, <4>3 DEF LifeGoesOn
    <3>3. CASE ListenDeadline  BY <3>3 DEF ListenDeadline, LifeGoesOn
    <3> QED  BY <1>11, <3>1, <3>2, <3>3
  <2> QED  BY <1>11, <1>a, <2>1 DEF ListenLooks, ListenWoken, ListenDeadline
<1>12. ASSUME \/ CallSleep \/ CallListen \/ CloseReturns \/ WaitEnds \/ RunTask
              \/ StartScript \/ EndScript \/ AbortScript \/ EndExecutor
              \/ CleanupStarts \/ CleanupDone \/ CleanupTimesOut
       PROVE  CountInv'
  <2>1. UNCHANGED <<conns, monitor, job>>
    BY <1>12 DEF CallSleep, CallListen, CloseReturns, WaitEnds, RunTask, StartScript, EndScript,
                 AbortScript, EndExecutor, CleanupStarts, CleanupDone, CleanupTimesOut
  <2> QED  BY <1>a, <2>1 DEF LifeGoesOn
<1>13. ASSUME CloseAll PROVE CountInv'
  <2>1. LifeGoesOn  BY <1>0, <1>13, CloseAllEffect, IndexIs DEF LifeGoesOn
  <2> QED  BY <1>13, <1>a, <2>1 DEF CloseAll
<1>14. ASSUME CallConnect \/ ConnectReturns PROVE CountInv'
  <2>1. UNCHANGED <<conns, monitor>>  BY <1>14 DEF CallConnect, ConnectReturns
  <2>2. job.pt \notin Dialing /\ job'.pt \notin Dialing
    BY <1>14 DEF CallConnect, ConnectReturns, None, Dialing
  <2> QED  BY <2>1, <2>2, JobKeepsIs, CountSame
<1>15. ASSUME JobDial PROVE CountInv'
  <2>1. job.pt = "dial" /\ UNCHANGED monitor  BY <1>15 DEF JobDial
  <2>2. PICK c \in Conns : c = job.conn  BY <1>0, <2>1, JobIndex DEF Dialing
  <2>3. LifeGoesOn
    BY <1>0, <1>15, <2>2, JobDialEffect DEF LifeGoesOn, SameParts
  <2>4. \/ job' = [job EXCEPT !.pt = "failed"] \/ job' = [job EXCEPT !.pt = "opened"]
    BY <1>0, <1>15, JobDialEffect
  <2>5. JobKeeps  BY <1>0, <2>1, <2>4, JobNext, JobKeepsIs
  <2> QED  BY <2>1, <2>3, <2>5, OtherCount DEF LifeGoesOn
<1>16. ASSUME JobHeartbeat PROVE CountInv'
  <2>1. job.pt = "heartbeat" /\ UNCHANGED monitor /\ job' = [job EXCEPT !.pt = "onclosed"]
    BY <1>16 DEF JobHeartbeat
  <2>2. LifeGoesOn  BY <1>0, <1>16, JobHeartbeatEffect, IndexIs DEF LifeGoesOn, Ordered
  <2>3. JobKeeps  BY <1>0, <2>1, JobNext, JobKeepsIs
  <2> QED  BY <2>1, <2>2, <2>3, OtherCount DEF LifeGoesOn
<1>17. CASE Next
  BY <1>2, <1>3, <1>4, <1>5, <1>6, <1>7, <1>8, <1>9, <1>10, <1>11, <1>12, <1>13, <1>14, <1>15,
     <1>16, <1>17, Steps, PublishCount, JobPlaceCount, JobOpenedCount, JobOnClosedCount,
     JobOnDisconnectCount
<1> QED  BY <1>1, <1>17

LEMMA CountInvInit ==
    ASSUME Init
    PROVE  CountInv
<1>1. conns = <<>> /\ monitor = [established |-> 0, closed |-> 0, dropped |-> 0]  BY DEF Init
<1>2. Outstanding = {}  BY <1>1 DEF Outstanding, Conns
<1>3. Balance  BY <1>1, <1>2, FS_EmptySet DEF Balance
<1> QED  BY <1>1, <1>3 DEF CountInv

\* Whatever the order in which a connection is counted, is given its callbacks and
\* is closed by either side, it is counted closed exactly once if it was counted
\* established and dropped only if the peer closed it, and the monitor's balance is
\* the number of connections that are open (CountedOnce).
THEOREM ConnectionCountedOnce == Spec => []CountedOnce
<1>1. ASSUME TypeInv, CountInv PROVE CountedOnce
  <2>0. NetTypes /\ monitor \in Counters  BY <1>1 DEF TypeInv, RobotTypes
  <2>1. ASSUME NEW c \in Conns
        PROVE  /\ conns[c].dropEv.delivered > 0 => conns[c].peer
               /\ Settled(c) =>
                    /\ conns[c].closedEv.delivered = IF conns[c].established THEN 1 ELSE 0
                    /\ conns[c].dropEv.delivered =
                         IF conns[c].established /\ conns[c].peer THEN 1 ELSE 0
    <3> DEFINE k == conns[c]
    <3>1. c \in 1 .. Len(conns) /\ k \in Connections  BY <2>0, IndexIs
    <3>2. Lived(k) /\ Hooked(c, k, job)  BY <1>1, <3>1 DEF CountInv
    <3>3. k.closedEv.delivered \in {0, 1} /\ k.dropEv.delivered \in {0, 1}
      BY <3>1, ConnectionFields DEF LifecycleEvents
    <3> HIDE DEF k
    <3>4. k.dropEv.delivered > 0 => k.peer  BY <3>2, <3>3 DEF Lived, Happened
    <3>5. ASSUME k.closed, k.pub = <<>>, job.conn # c
          PROVE  /\ k.closedEv.delivered = IF k.established THEN 1 ELSE 0
                 /\ k.dropEv.delivered = IF k.established /\ k.peer THEN 1 ELSE 0
      <4>1. k.closedEv.occurred /\ (k.dropEv.occurred <=> k.peer)
        BY <3>2, <3>5, PublicationsDiffer DEF Lived
      <4>2. (k.closedEv.set <=> k.established) /\ (k.dropEv.set <=> k.established)
        BY <3>2, <3>5 DEF Hooked
      <4> QED  BY <3>2, <3>3, <4>1, <4>2 DEF Lived, Happened
    <3> QED  BY <3>4, <3>5 DEF k, Settled
  <2>2. monitor.established - monitor.closed =
          Cardinality({c \in Conns : conns[c].established /\ conns[c].closedEv.delivered = 0})
    BY <1>1 DEF CountInv, Balance, Outstanding
  <2> QED  BY <2>1, <2>2 DEF CountedOnce
<1>2. Spec => [](TypeInv /\ CountInv)
  BY CountInvInit, CountInvStep, TypeInvHolds, PTL DEF Spec
<1> QED  BY <1>1, <1>2, PTL

-----------------------------------------------------------------------------
(* Requests and answers. *)

\* The request registered on a connection is open, and the newest one there.
Newest(c, r) ==
    r # 0 => /\ reqs[r].conn = c /\ reqs[r].open
             /\ \A g \in 1 .. Len(reqs) : reqs[g].conn = c => g <= r

\* An answer on its way over connection c: its request was sent there, and was
\* answered neither before nor twice.
Answering(c, f) ==
    f.kind = "answer" =>
      /\ f.id \in 1 .. Len(reqs) /\ reqs[f.id].conn = c /\ ~ reqs[f.id].sent
      /\ \A r \in 1 .. Len(reqs) : reqs[r].buf # f.id
Carries(c, s) ==
    /\ \A i \in 1 .. Len(s) : Answering(c, s[i])
    /\ \A i, j \in 1 .. Len(s) :
         s[i].kind = "answer" /\ s[j].kind = "answer" /\ s[i].id = s[j].id => i = j

\* What request r has in its channel: the answer to it or to an earlier one on
\* its connection, which nobody else has.
Arrived(r) ==
    /\ reqs[r].got \in {0, reqs[r].buf}
    /\ reqs[r].buf # 0 =>
         /\ reqs[r].buf \in 1 .. r /\ reqs[reqs[r].buf].conn = reqs[r].conn
         /\ ~ reqs[reqs[r].buf].sent
         /\ \A s \in 1 .. Len(reqs) : reqs[s].buf = reqs[r].buf => s = r

AnswerInv ==
    /\ \A c \in 1 .. Len(conns) : Newest(c, conns[c].resp) /\ Carries(c, conns[c].inb)
    /\ \A r \in 1 .. Len(reqs) : Arrived(r)

LEMMA CarriesStays ==
    ASSUME NEW c, NEW s \in Seq(Frames), Carries(c, s)
    PROVE  /\ Carries(c, <<>>)
           /\ s # <<>> => Carries(c, Tail(s))
           /\ \A f \in Frames : f.kind # "answer" => Carries(c, Append(s, f))
<1>1. Carries(c, <<>>)  BY DEF Carries
<1>2. ASSUME s # <<>> PROVE Carries(c, Tail(s))
  <2> DEFINE t == Tail(s)
  <2>1. Len(t) = Len(s) - 1 /\ Len(s) \in Nat \ {0} /\ \A j \in 1 .. Len(t) : t[j] = s[j + 1]
    BY <1>2, SeqTail
  <2>2. \A j \in 1 .. Len(t) : j + 1 \in 1 .. Len(s)  BY <2>1
  <2> HIDE DEF t
  <2>3. \A i \in 1 .. Len(t) : Answering(c, t[i])  BY <2>1, <2>2 DEF Carries
  <2>4. ASSUME NEW i \in 1 .. Len(t), NEW j \in 1 .. Len(t),
               t[i].kind = "answer", t[j].kind = "answer", t[i].id = t[j].id
        PROVE  i = j
    <3>1. t[i] = s[i + 1] /\ t[j] = s[j + 1] /\ i + 1 \in 1 .. Len(s) /\ j + 1 \in 1 .. Len(s)
      BY <2>1, <2>2
    <3>2. i + 1 = j + 1  BY <2>4, <3>1 DEF Carries
    <3> QED  BY <2>1, <3>2
  <2>5. Carries(c, t)  BY <2>3, <2>4 DEF Carries
  <2> QED  BY <2>5 DEF t
<1>3. ASSUME NEW f \in Frames, f.kind # "answer" PROVE Carries(c, Append(s, f))
  <2> DEFINE t == Append(s, f)
  <2>1. Len(s) \in Nat /\ Len(t) = Len(s) + 1 /\ t[Len(s) + 1] = f
        /\ \A j \in 1 .. Len(s) : t[j] = s[j]
    BY SeqAppend
  <2> HIDE DEF t
  <2>2. ASSUME NEW i \in 1 .. Len(t) PROVE (i \in 1 .. Len(s) /\ t[i] = s[i]) \/ t[i] = f
    BY <2>1
  <2>3. \A i \in 1 .. Len(t) : Answering(c, t[i])  BY <1>3, <2>2 DEF Carries, Answering
  <2>4. ASSUME NEW i \in 1 .. Len(t), NEW j \in 1 .. Len(t),
               t[i].kind = "answer", t[j].kind = "answer", t[i].id = t[j].id
        PROVE  i = j
    BY <1>3, <2>2, <2>4 DEF Carries
  <2>5. Carries(c, t)  BY <2>3, <2>4 DEF Carries
  <2> QED  BY <2>5 DEF t
<1> QED  BY <1>1, <1>2, <1>3

\* The requests stay; one connection changes, and carries no other answers.
LEMMA AnswerKeeps ==
    ASSUME AnswerInv, UNCHANGED reqs, NEW c, Changes(c), conns'[c].resp = conns[c].resp,
           Carries(c, conns'[c].inb)
    PROVE  AnswerInv'
<1>1. ASSUME NEW d \in 1 .. Len(conns')
      PROVE  Newest(d, conns'[d].resp) /\ Carries(d, conns'[d].inb)
  <2>1. d \in 1 .. Len(conns) /\ (d # c => conns'[d] = conns[d])  BY DEF Changes
  <2> QED  BY <2>1 DEF AnswerInv
<1>3. ASSUME NEW d \in 1 .. Len(conns')
      PROVE  (Newest(d, conns[d].resp) /\ Carries(d, conns[d].inb))'
  BY <1>1, <1>3 DEF Newest, Carries, Answering
<1>4. ASSUME NEW r \in 1 .. Len(reqs') PROVE Arrived(r)'
  BY DEF AnswerInv, Arrived
<1> QED  BY <1>3, <1>4 DEF AnswerInv

LEMMA AnswerSame ==
    ASSUME AnswerInv, UNCHANGED <<conns, reqs>>
    PROVE  AnswerInv'
BY DEF AnswerInv, Newest, Carries, Answering, Arrived

-----------------------------------------------------------------------------
\* A request is answered on its connection: the answer is on its way, or lost.
LEMMA ServerAnswersKeeps ==
    ASSUME TypeInv, AnswerInv, NEW c \in Conns, NEW r \in DOMAIN reqs, ServerAnswers(c, r)
    PROVE  AnswerInv'
<1>0. NetTypes /\ r \in 1 .. Len(reqs) /\ reqs[r] \in Requests /\ c \in 1 .. Len(conns)
      /\ conns[c] \in Connections /\ Len(reqs) \in Nat
  BY IndexIs DEF TypeInv, NetTypes
<1>f. PICK f : f = [kind |-> "answer", id |-> r]  OBVIOUS
<1>1. /\ Changes(c) /\ conns'[c].resp = conns[c].resp
      /\ conns'[c].inb \in {conns[c].inb, Append(conns[c].inb, f)}
      /\ reqs[r].conn = c /\ reqs[r].sent /\ Len(reqs') = Len(reqs)
      /\ reqs'[r] = [reqs[r] EXCEPT !.sent = FALSE]
      /\ \A s \in 1 .. Len(reqs) : s # r => reqs'[s] = reqs[s]
  BY <1>0, <1>f, ServerAnswersEffect
<1>2. /\ reqs'[r].conn = c /\ reqs'[r].open = reqs[r].open /\ reqs'[r].buf = reqs[r].buf
      /\ reqs'[r].got = reqs[r].got /\ ~ reqs'[r].sent
  BY <1>0, <1>1 DEF Requests
<1>3. \A s \in 1 .. Len(reqs) :
        /\ reqs'[s].conn = reqs[s].conn /\ reqs'[s].open = reqs[s].open
        /\ reqs'[s].buf = reqs[s].buf /\ reqs'[s].got = reqs[s].got
        /\ ~ reqs[s].sent => ~ reqs'[s].sent
  BY <1>1, <1>2
<1>4. ASSUME NEW d, NEW s, Carries(d, s) PROVE Carries(d, s)'
  <2>1. ASSUME NEW i \in 1 .. Len(s) PROVE Answering(d, s[i])'
    <3>1. Answering(d, s[i])  BY <1>4 DEF Carries
    <3> QED  BY <1>1, <1>3, <3>1 DEF Answering
  <2> QED  BY <1>4, <2>1 DEF Carries
<1>5. ASSUME NEW d \in 1 .. Len(conns), NEW g \in 0 .. Len(reqs), Newest(d, g) PROVE Newest(d, g)'
  <2>1. CASE g = 0  BY <2>1 DEF Newest
  <2>2. CASE g # 0
    <3>1. g \in 1 .. Len(reqs)  BY <1>0, <2>2
    <3> QED  BY <1>1, <1>3, <1>5, <2>2, <3>1 DEF Newest
  <2> QED  BY <2>1, <2>2
<1>6. ASSUME NEW s \in 1 .. Len(reqs') PROVE Arrived(s)'
  <2>1. s \in 1 .. Len(reqs) /\ Arrived(s)  BY <1>1 DEF AnswerInv
  <2>2. reqs[s].buf # 0 => reqs[s].buf \in 1 .. Len(reqs)  BY <1>0, <2>1 DEF Arrived
  <2> QED  BY <1>1, <1>3, <2>1, <2>2 DEF Arrived
<1>7. Carries(c, conns[c].inb) /\ conns[c].inb \in Seq(Frames)
  BY <1>0, ConnectionFields DEF AnswerInv, Inbox
<1>8. ASSUME NEW s, s = conns[c].inb, conns'[c].inb = Append(s, f)
      PROVE  Carries(c, Append(s, f))'
  <2> DEFINE t == Append(s, f)
  <2>0. f \in Frames /\ f.kind = "answer" /\ f.id = r  BY <1>0, <1>f DEF Frames, FrameKinds
  <2>1. Len(s) \in Nat /\ Len(t) = Len(s) + 1 /\ t[Len(s) + 1] = f
        /\ \A j \in 1 .. Len(s) : t[j] = s[j]
    BY <1>7, <1>8, <2>0, SeqAppend
  <2> HIDE DEF t
  <2>2. Carries(c, s) /\ Carries(c, s)'  BY <1>4, <1>7, <1>8
  <2>3. \A i \in 1 .. Len(s) : s[i].kind = "answer" => s[i].id # r
    BY <1>1, <2>2 DEF Carries, Answering
  <2>4. \A q \in 1 .. Len(reqs) : reqs[q].buf # r
    <3>1. SUFFICES ASSUME NEW q \in 1 .. Len(reqs), reqs[q].buf = r PROVE FALSE  OBVIOUS
    <3>2. Arrived(q) /\ r # 0  BY <1>0 DEF AnswerInv
    <3> QED  BY <1>1, <3>1, <3>2 DEF Arrived
  <2>5. Answering(c, f)'
    <3>1. r \in 1 .. Len(reqs') /\ reqs'[r].conn = c /\ ~ reqs'[r].sent  BY <1>0, <1>1, <1>2
    <3>2. \A q \in 1 .. Len(reqs') : reqs'[q].buf # r  BY <1>1, <1>3, <2>4
    <3> QED  BY <2>0, <3>1, <3>2 DEF Answering
  <2>6. ASSUME NEW i \in 1 .. Len(t) PROVE (i \in 1 .. Len(s) /\ t[i] = s[i]) \/ (i = Len(t) /\ t[i] = f)
    BY <2>1
  <2>7. ASSUME NEW i \in 1 .. Len(t) PROVE Answering(c, t[i])'
    BY <2>2, <2>5, <2>6 DEF Carries
  <2>8. ASSUME NEW i \in 1 .. Len(t), NEW j \in 1 .. Len(t),
               t[i].kind = "answer", t[j].kind = "answer", t[i].id = t[j].id
        PROVE  i = j
    BY <2>0, <2>2, <2>3, <2>6, <2>8 DEF Carries
  <2>9. Carries(c, t)'  BY <2>7, <2>8 DEF Carries
  <2> QED  BY <2>9 DEF t
<1>9. ASSUME NEW d \in 1 .. Len(conns')
      PROVE  (Newest(d, conns[d].resp) /\ Carries(d, conns[d].inb))'
  <2>1. d \in 1 .. Len(conns) /\ (d # c => conns'[d] = conns[d]) /\ conns[d].resp \in 0 .. Len(reqs)
        /\ conns'[d].resp = conns[d].resp
    BY <1>0, <1>1 DEF Changes, NetTypes
  <2>2. Newest(d, conns[d].resp) /\ Carries(d, conns[d].inb)  BY <2>1 DEF AnswerInv
  <2>3. PICK g : g = conns[d].resp  OBVIOUS
  <2>4. Newest(d, g)'  BY <1>5, <2>1, <2>2, <2>3
  <2>5. PICK s : s = conns'[d].inb  OBVIOUS
  <2>6. Carries(d, s)'
    <3>1. CASE s = conns[d].inb
      <4>1. Carries(d, s)  BY <2>2, <3>1
      <4> QED  BY <1>4, <4>1
    <3>2. CASE s # conns[d].inb
      <4>1. d = c /\ conns'[c].inb = Append(conns[c].inb, f)  BY <1>1, <2>1, <2>5, <3>2
      <4>2. PICK b : b = conns[c].inb  OBVIOUS
      <4>3. conns'[c].inb = Append(b, f)  BY <4>1, <4>2
      <4>4. Carries(c, Append(b, f))'  BY <1>8, <4>2, <4>3
      <4> QED  BY <2>5, <4>1, <4>3, <4>4
    <3> QED  BY <3>1, <3>2
  <2> QED  BY <2>1, <2>3, <2>4, <2>5, <2>6
<1> QED  BY <1>6, <1>9 DEF AnswerInv

-----------------------------------------------------------------------------
\* The pump puts an answer in the channel of the registered request.
LEMMA AnswerArrives ==
    ASSUME TypeInv, AnswerInv, NEW c \in Conns, PumpFrame(c),
           NEW h \in Frames, h = Head(conns[c].inb), h.kind = "answer",
           NEW r \in 1 .. Len(reqs), r = conns[c].resp, reqs[r].buf = 0,
           reqs' = [reqs EXCEPT ![r] = [reqs[r] EXCEPT !.buf = h.id]]
    PROVE  AnswerInv'
<1>0. NetTypes /\ reqs[r] \in Requests /\ c \in 1 .. Len(conns) /\ conns[c] \in Connections
      /\ Len(reqs) \in Nat /\ reqs \in Seq(Requests) /\ h.id \in Nat
  BY IndexIs DEF TypeInv, NetTypes, Frames
<1>1. /\ Changes(c) /\ conns'[c].resp = conns[c].resp
      /\ conns[c].inb # <<>> /\ conns'[c].inb = Tail(conns[c].inb)
  BY <1>0, PumpFrameEffect
<1>2. PICK g : g = h.id  OBVIOUS
<1>3. PICK b \in Seq(Frames) : b = conns[c].inb  BY <1>0, ConnectionFields DEF Inbox
<1>4. /\ b # <<>> /\ h = b[1] /\ Len(Tail(b)) = Len(b) - 1 /\ Len(b) \in Nat \ {0}
      /\ \A j \in 1 .. Len(Tail(b)) : Tail(b)[j] = b[j + 1]
  BY <1>1, <1>3, SeqTail
<1>5. Carries(c, b) /\ Newest(c, r)  BY <1>0, <1>3 DEF AnswerInv
<1>6. /\ g \in 1 .. Len(reqs) /\ reqs[g].conn = c /\ ~ reqs[g].sent
      /\ \A s \in 1 .. Len(reqs) : reqs[s].buf # g
  <2>1. Answering(c, h)  BY <1>4, <1>5 DEF Carries
  <2> QED  BY <1>2, <2>1 DEF Answering
<1>7. reqs[r].conn = c /\ g \in 1 .. r  BY <1>0, <1>5, <1>6 DEF Newest
<1>8. /\ Len(reqs') = Len(reqs) /\ \A s \in 1 .. Len(reqs) : s # r => reqs'[s] = reqs[s]
      /\ reqs'[r] = [reqs[r] EXCEPT !.buf = g]
  <2>1. [reqs[r] EXCEPT !.buf = h.id] \in Requests  BY <1>0 DEF Requests
  <2> QED  BY <1>0, <1>2, <2>1, SeqExcept
<1>9. /\ reqs'[r].conn = reqs[r].conn /\ reqs'[r].open = reqs[r].open
      /\ reqs'[r].sent = reqs[r].sent /\ reqs'[r].got = reqs[r].got /\ reqs'[r].buf = g
  BY <1>0, <1>8 DEF Requests
<1>10. \A s \in 1 .. Len(reqs) :
         /\ reqs'[s].conn = reqs[s].conn /\ reqs'[s].open = reqs[s].open
         /\ reqs'[s].sent = reqs[s].sent /\ reqs'[s].got = reqs[s].got
         /\ s # r => reqs'[s].buf = reqs[s].buf
  BY <1>8, <1>9
<1>11. ASSUME NEW s \in 1 .. Len(reqs') PROVE Arrived(s)'
  <2>1. s \in 1 .. Len(reqs) /\ Arrived(s)  BY <1>8 DEF AnswerInv
  <2>2. CASE s = r
    <3>1. reqs'[r].got = 0  BY <1>9, <2>1, <2>2 DEF Arrived
    <3>2. reqs'[g].conn = reqs'[r].conn /\ ~ reqs'[g].sent  BY <1>6, <1>7, <1>10
    <3>3. \A q \in 1 .. Len(reqs') : reqs'[q].buf = g => q = r  BY <1>6, <1>8, <1>10
    <3> QED  BY <1>7, <1>9, <2>2, <3>1, <3>2, <3>3 DEF Arrived
  <2>3. CASE s # r
    <3>1. reqs'[s].buf = reqs[s].buf /\ reqs'[s].got = reqs[s].got  BY <1>10, <2>1, <2>3
    <3>2. CASE reqs[s].buf = 0  BY <2>1, <3>1, <3>2 DEF Arrived
    <3>3. CASE reqs[s].buf # 0
      <4>1. PICK v \in 1 .. Len(reqs) : v = reqs[s].buf /\ v \in 1 .. s
        BY <1>0, <2>1, <3>3 DEF Arrived
      <4>2. reqs'[v].conn = reqs'[s].conn /\ ~ reqs'[v].sent
        BY <1>10, <2>1, <3>3, <4>1 DEF Arrived
      <4>3. \A q \in 1 .. Len(reqs') : reqs'[q].buf = v => q = s
        <5>1. v # g  BY <1>6, <2>1, <4>1
        <5> QED  BY <1>8, <1>9, <1>10, <2>1, <3>3, <4>1, <5>1 DEF Arrived
      <4> QED  BY <2>1, <3>1, <4>1, <4>2, <4>3 DEF Arrived
    <3> QED  BY <3>2, <3>3
  <2> QED  BY <2>2, <2>3
<1>12. ASSUME NEW d, NEW f, Answering(d, f), f.kind = "answer" => f.id # g PROVE Answering(d, f)'
  BY <1>8, <1>9, <1>10, <1>12 DEF Answering
<1>13. Carries(c, Tail(b))'
  <2> DEFINE t == Tail(b)
  <2>1. Carries(c, t)  BY <1>4, <1>5, CarriesStays
  <2>2. \A j \in 1 .. Len(t) : t[j] = b[j + 1] /\ j + 1 \in 1 .. Len(b) /\ 1 \in 1 .. Len(b)
    BY <1>4
  <2> HIDE DEF t
  <2>3. ASSUME NEW i \in 1 .. Len(t) PROVE Answering(c, t[i])'
    <3>1. t[i].kind = "answer" => t[i].id # g
      <4>1. SUFFICES ASSUME t[i].kind = "answer", t[i].id = g PROVE FALSE  OBVIOUS
      <4>2. i + 1 = 1  BY <1>2, <1>4, <1>5, <2>2, <4>1 DEF Carries
      <4> QED  BY <4>2
    <3>2. Answering(c, t[i])  BY <2>1 DEF Carries
    <3> QED  BY <1>12, <3>1, <3>2
  <2>4. Carries(c, t)'  BY <2>1, <2>3 DEF Carries
  <2> QED  BY <2>4 DEF t
<1>14. ASSUME NEW d \in 1 .. Len(conns), d # c, NEW s, Carries(d, s) PROVE Carries(d, s)'
  <2>1. ASSUME NEW i \in 1 .. Len(s) PROVE Answering(d, s[i])'
    <3>1. Answering(d, s[i])  BY <1>14 DEF Carries
    <3>2. s[i].kind = "answer" => s[i].id # g  BY <1>6, <1>14, <3>1 DEF Answering
    <3> QED  BY <1>12, <3>1, <3>2
  <2> QED  BY <1>14, <2>1 DEF Carries
<1>15. ASSUME NEW d \in 1 .. Len(conns')
       PROVE  (Newest(d, conns[d].resp) /\ Carries(d, conns[d].inb))'
  <2>1. d \in 1 .. Len(conns) /\ (d # c => conns'[d] = conns[d]) /\ conns[d].resp \in 0 .. Len(reqs)
        /\ conns'[d].resp = conns[d].resp
    BY <1>0, <1>1 DEF Changes, NetTypes
  <2>2. PICK v \in 0 .. Len(reqs) : v = conns[d].resp  BY <2>1
  <2>3. Newest(d, v)  BY <2>1, <2>2 DEF AnswerInv
  <2>4. Newest(d, v)'
    <3>1. CASE v = 0  BY <3>1 DEF Newest
    <3>2. CASE v # 0
      <4>1. v \in 1 .. Len(reqs)  BY <1>0, <3>2
      <4> QED  BY <1>8, <1>10, <2>3, <3>2, <4>1 DEF Newest
    <3> QED  BY <3>1, <3>2
  <2>5. PICK s : s = conns'[d].inb  OBVIOUS
  <2>6. Carries(d, s)'
    <3>1. CASE d = c
      <4>1. s = Tail(b)  BY <1>1, <1>3, <2>5, <3>1
      <4> QED  BY <1>13, <3>1, <4>1
    <3>2. CASE d # c
      <4>1. Carries(d, s)  BY <2>1, <2>5, <3>2 DEF AnswerInv
      <4> QED  BY <1>14, <2>1, <3>2, <4>1
    <3> QED  BY <3>1, <3>2
  <2> QED  BY <2>1, <2>2, <2>4, <2>5, <2>6
<1> QED  BY <1>11, <1>15 DEF AnswerInv

LEMMA PumpFrameKeeps ==
    ASSUME TypeInv, AnswerInv, NEW c \in Conns, PumpFrame(c)
    PROVE  AnswerInv'
<1>0. NetTypes /\ c \in 1 .. Len(conns) /\ conns[c] \in Connections /\ reqs \in Seq(Requests)
  BY IndexIs DEF TypeInv, NetTypes
<1>1. /\ Changes(c) /\ conns'[c].resp = conns[c].resp
      /\ conns[c].inb # <<>> /\ conns'[c].inb = Tail(conns[c].inb)
      /\ \/ UNCHANGED reqs
         \/ /\ Head(conns[c].inb).kind = "answer" /\ conns[c].resp # 0
            /\ reqs' = [reqs EXCEPT ![conns[c].resp].buf =
                          IF @ = 0 THEN Head(conns[c].inb).id ELSE @]
  BY <1>0, PumpFrameEffect
<1>2. conns[c].inb \in Seq(Frames)  BY <1>0, ConnectionFields DEF Inbox
<1>3. ASSUME UNCHANGED reqs PROVE AnswerInv'
  <2>1. Carries(c, conns[c].inb)  BY <1>0 DEF AnswerInv
  <2>2. Carries(c, conns'[c].inb)  BY <1>1, <1>2, <2>1, CarriesStays
  <2> QED  BY <1>1, <1>3, <2>2, AnswerKeeps
<1>4. CASE /\ Head(conns[c].inb).kind = "answer" /\ conns[c].resp # 0
           /\ reqs' = [reqs EXCEPT ![conns[c].resp].buf =
                         IF @ = 0 THEN Head(conns[c].inb).id ELSE @]
  <2>1. PICK r \in 1 .. Len(reqs) : r = conns[c].resp  BY <1>0, <1>4 DEF NetTypes
  <2>2. PICK h \in Frames : h = Head(conns[c].inb)  BY <1>1, <1>2, SeqTail
  <2>3. reqs' = [reqs EXCEPT ![r].buf = IF @ = 0 THEN h.id ELSE @]  BY <1>4, <2>1, <2>2
  <2>4. reqs[r] \in Requests  BY <1>0
  <2>5. CASE reqs[r].buf = 0
    <3>1. reqs' = [reqs EXCEPT ![r] = [reqs[r] EXCEPT !.buf = h.id]]  BY <1>0, <2>3, <2>5
    <3> QED  BY <1>4, <2>1, <2>2, <2>5, <3>1, AnswerArrives
  <2>6. CASE reqs[r].buf # 0
    <3>1. [reqs[r] EXCEPT !.buf = reqs[r].buf] = reqs[r]  BY <2>4 DEF Requests
    <3>2. reqs' = [reqs EXCEPT ![r] = reqs[r]]  BY <1>0, <2>3, <2>6, <3>1
    <3>3. reqs' = reqs  BY <1>0, <3>2
    <3> QED  BY <1>3, <3>3
  <2> QED  BY <2>5, <2>6
<1> QED  BY <1>1, <1>3, <1>4

-----------------------------------------------------------------------------
\* A request is sent: its entry replaces that of an earlier one.
LEMMA SendRequestKeeps ==
    ASSUME TypeInv, AnswerInv, NEW sent \in BOOLEAN, cur # 0, SendRequest(sent)
    PROVE  AnswerInv'
<1>0. NetTypes /\ Len(reqs) \in Nat /\ cur \in 1 .. Len(conns)  BY DEF TypeInv, NetTypes
<1>1. PICK c \in 1 .. Len(conns) : c = cur  BY <1>0
<1>2. PICK N \in Nat : N = Len(reqs) + 1  BY <1>0
<1>3. /\ Changes(c) /\ SameButResp(conns[c], conns'[c])
      /\ conns'[c].resp = IF sent THEN N ELSE 0
      /\ Len(reqs') = N
      /\ reqs'[N] = [conn |-> c, open |-> sent, sent |-> sent, buf |-> 0, got |-> 0]
      /\ \A r \in 1 .. Len(reqs) : reqs'[r] = reqs[r]
  BY <1>0, <1>1, <1>2, SendRequestEffect
<1>4. reqs'[N].conn = c /\ reqs'[N].open = sent /\ reqs'[N].buf = 0 /\ reqs'[N].got = 0
  BY <1>3
<1>5. \A r \in 1 .. N : r # N => r \in 1 .. Len(reqs)  BY <1>0, <1>2
<1>6. ASSUME NEW r \in 1 .. Len(reqs') PROVE Arrived(r)'
  <2>1. CASE r = N  BY <1>4, <2>1 DEF Arrived
  <2>2. CASE r # N
    <3>1. r \in 1 .. Len(reqs) /\ Arrived(r) /\ reqs'[r] = reqs[r]
      BY <1>3, <1>5, <2>2 DEF AnswerInv
    <3>2. CASE reqs[r].buf = 0  BY <3>1, <3>2 DEF Arrived
    <3>3. CASE reqs[r].buf # 0
      <4>1. PICK v \in 1 .. Len(reqs) : v = reqs[r].buf /\ v \in 1 .. r
        BY <1>0, <3>1, <3>3 DEF Arrived
      <4>2. reqs'[v] = reqs[v]  BY <1>3, <4>1
      <4>3. \A q \in 1 .. Len(reqs') : reqs'[q].buf = v => q = r
        BY <1>3, <1>4, <1>5, <3>1, <3>3, <4>1 DEF Arrived
      <4> QED  BY <3>1, <3>3, <4>1, <4>2, <4>3 DEF Arrived
    <3> QED  BY <3>2, <3>3
  <2> QED  BY <2>1, <2>2
<1>7. ASSUME NEW d, NEW s, Carries(d, s) PROVE Carries(d, s)'
  <2>1. ASSUME NEW i \in 1 .. Len(s) PROVE Answering(d, s[i])'
    <3>1. Answering(d, s[i])  BY <1>7 DEF Carries
    <3>2. CASE s[i].kind # "answer"  BY <3>2 DEF Answering
    <3>3. CASE s[i].kind = "answer"
      <4>1. PICK g \in 1 .. Len(reqs) : g = s[i].id  BY <3>1, <3>3 DEF Answering
      <4>2. g \in 1 .. Len(reqs') /\ reqs'[g] = reqs[g]  BY <1>0, <1>2, <1>3, <4>1
      <4>3. \A q \in 1 .. Len(reqs') : reqs'[q].buf # g
        BY <1>3, <1>4, <1>5, <3>1, <3>3, <4>1 DEF Answering
      <4> QED  BY <3>1, <3>3, <4>1, <4>2, <4>3 DEF Answering
    <3> QED  BY <3>2, <3>3
  <2> QED  BY <1>7, <2>1 DEF Carries
<1>8. ASSUME NEW d \in 1 .. Len(conns')
      PROVE  (Newest(d, conns[d].resp) /\ Carries(d, conns[d].inb))'
  <2>1. d \in 1 .. Len(conns) /\ (d # c => conns'[d] = conns[d]) /\ conns[d].resp \in 0 .. Len(reqs)
        /\ conns'[d].inb = conns[d].inb
    BY <1>0, <1>3 DEF Changes, NetTypes, SameButResp
  <2>2. PICK s : s = conns'[d].inb  OBVIOUS
  <2>3. Carries(d, s)  BY <2>1, <2>2 DEF AnswerInv
  <2>4. Carries(d, s)'  BY <1>7, <2>3
  <2>5. PICK v : v = conns'[d].resp  OBVIOUS
  <2>6. Newest(d, v)'
    <3>1. CASE v = 0  BY <3>1 DEF Newest
    <3>2. CASE v # 0 /\ d = c
      <4>1. v = N /\ sent  BY <1>3, <2>5, <3>2
      <4>2. \A q \in 1 .. Len(reqs') : q <= N  BY <1>3
      <4> QED  BY <1>4, <3>2, <4>1, <4>2 DEF Newest
    <3>3. CASE v # 0 /\ d # c
      <4>1. v = conns[d].resp /\ v \in 1 .. Len(reqs)  BY <1>0, <2>1, <2>5, <3>3
      <4>2. Newest(d, v)  BY <2>1, <4>1 DEF AnswerInv
      <4>3. ASSUME NEW q \in 1 .. Len(reqs'), reqs'[q].conn = d PROVE q <= v
        <5>1. q # N  BY <1>4, <3>3, <4>3
        <5>2. q \in 1 .. Len(reqs) /\ reqs[q].conn = d  BY <1>3, <1>5, <4>3, <5>1
        <5> QED  BY <3>3, <4>2, <5>2 DEF Newest
      <4>4. reqs'[v] = reqs[v]  BY <1>3, <4>1
      <4> QED  BY <3>3, <4>2, <4>3, <4>4 DEF Newest
    <3> QED  BY <3>1, <3>2, <3>3
  <2> QED  BY <2>2, <2>4, <2>5, <2>6
<1> QED  BY <1>6, <1>8 DEF AnswerInv

\* A request ends: its entry goes with it, if it still has it.
LEMMA CloseRequestKeeps ==
    ASSUME TypeInv, AnswerInv, NEW r \in 1 .. Len(reqs), NEW answer \in Nat,
           answer \in {0, reqs[r].buf}, CloseRequest(r, answer)
    PROVE  AnswerInv'
<1>0. NetTypes /\ Len(reqs) \in Nat /\ reqs[r] \in Requests  BY IndexIs DEF TypeInv, NetTypes
<1>1. PICK c \in 1 .. Len(conns) : c = reqs[r].conn  BY <1>0 DEF NetTypes
<1>2. /\ Changes(c) /\ SameButResp(conns[c], conns'[c])
      /\ conns'[c].resp = IF conns[c].resp = r THEN 0 ELSE conns[c].resp
      /\ Len(reqs') = Len(reqs)
      /\ reqs'[r] = [reqs[r] EXCEPT !.open = FALSE, !.got = answer]
      /\ \A s \in 1 .. Len(reqs) : s # r => reqs'[s] = reqs[s]
  BY <1>0, <1>1, CloseRequestEffect
<1>3. reqs'[r].conn = reqs[r].conn /\ reqs'[r].sent = reqs[r].sent /\ reqs'[r].buf = reqs[r].buf
      /\ reqs'[r].got = answer
  BY <1>0, <1>2 DEF Requests
<1>4. \A s \in 1 .. Len(reqs) :
        /\ reqs'[s].conn = reqs[s].conn /\ reqs'[s].sent = reqs[s].sent
        /\ reqs'[s].buf = reqs[s].buf /\ reqs'[s].got \in {reqs[s].got, 0, reqs[s].buf}
        /\ s # r => reqs'[s].open = reqs[s].open
  BY <1>2, <1>3
<1>5. ASSUME NEW s \in 1 .. Len(reqs') PROVE Arrived(s)'
  <2>1. s \in 1 .. Len(reqs) /\ Arrived(s)  BY <1>2 DEF AnswerInv
  <2>2. reqs'[s].got \in {0, reqs'[s].buf}  BY <1>4, <2>1 DEF Arrived
  <2>3. reqs[s].buf # 0 => reqs[s].buf \in 1 .. Len(reqs)  BY <1>0, <2>1 DEF Arrived
  <2> QED  BY <1>2, <1>4, <2>1, <2>2, <2>3 DEF Arrived
<1>6. ASSUME NEW d, NEW s, Carries(d, s) PROVE Carries(d, s)'
  <2>1. ASSUME NEW i \in 1 .. Len(s) PROVE Answering(d, s[i])'
    <3>1. Answering(d, s[i])  BY <1>6 DEF Carries
    <3> QED  BY <1>2, <1>4, <3>1 DEF Answering
  <2> QED  BY <1>6, <2>1 DEF Carries
<1>7. ASSUME NEW d \in 1 .. Len(conns')
      PROVE  (Newest(d, conns[d].resp) /\ Carries(d, conns[d].inb))'
  <2>1. d \in 1 .. Len(conns) /\ (d # c => conns'[d] = conns[d]) /\ conns[d].resp \in 0 .. Len(reqs)
        /\ conns'[d].inb = conns[d].inb
    BY <1>0, <1>2 DEF Changes, NetTypes, SameButResp
  <2>2. PICK s : s = conns'[d].inb  OBVIOUS
  <2>3. Carries(d, s)  BY <2>1, <2>2 DEF AnswerInv
  <2>4. Carries(d, s)'  BY <1>6, <2>3
  <2>5. PICK v : v = conns'[d].resp  OBVIOUS
  <2>6. Newest(d, v)'
    <3>1. CASE v = 0  BY <3>1 DEF Newest
    <3>2. CASE v # 0
      <4>1. v = conns[d].resp /\ v \in 1 .. Len(reqs)  BY <1>0, <1>2, <2>1, <2>5, <3>2
      <4>2. Newest(d, v)  BY <2>1, <4>1 DEF AnswerInv
      <4>3. v # r  BY <1>1, <1>2, <2>5, <3>2, <4>1, <4>2 DEF Newest
      <4> QED  BY <1>2, <1>4, <3>2, <4>1, <4>2, <4>3 DEF Newest
    <3> QED  BY <3>1, <3>2
  <2> QED  BY <2>2, <2>4, <2>5, <2>6
<1> QED  BY <1>5, <1>7 DEF AnswerInv

LEMMA JobPlaceKeeps ==
    ASSUME TypeInv, AnswerInv, JobPlace
    PROVE  AnswerInv'
<1>0. NetTypes /\ JobTypes /\ Len(conns) \in Nat /\ UNCHANGED reqs
  BY DEF TypeInv, NetTypes, JobPlace
<1>1. CASE UNCHANGED conns  BY <1>0, <1>1, AnswerSame
<1>2. CASE /\ conns' \in Seq(Connections) /\ Len(conns') = Len(conns) + 1
           /\ conns'[Len(conns) + 1] = NewConnection
           /\ \A c \in 1 .. Len(conns) : conns'[c] = conns[c]
  <2>1. NewConnection.resp = 0 /\ NewConnection.inb = <<>>  BY DEF NewConnection
  <2>2. ASSUME NEW c \in 1 .. Len(conns')
        PROVE  Newest(c, conns'[c].resp) /\ Carries(c, conns'[c].inb)
    <3>1. CASE c = Len(conns) + 1
      <4>1. conns'[c].resp = 0 /\ conns'[c].inb = <<>>  BY <1>2, <2>1, <3>1
      <4> QED  BY <4>1 DEF Newest, Carries
    <3>2. CASE c # Len(conns) + 1
      <4>1. c \in 1 .. Len(conns) /\ conns'[c] = conns[c]  BY <1>0, <1>2, <3>2
      <4> QED  BY <4>1 DEF AnswerInv
    <3> QED  BY <3>1, <3>2
  <2>3. ASSUME NEW c \in 1 .. Len(conns')
        PROVE  (Newest(c, conns[c].resp) /\ Carries(c, conns[c].inb))'
    BY <1>0, <2>2, <2>3 DEF Newest, Carries, Answering
  <2>4. ASSUME NEW r \in 1 .. Len(reqs') PROVE Arrived(r)'
    BY <1>0 DEF AnswerInv, Arrived
  <2> QED  BY <2>3, <2>4 DEF AnswerInv
<1> QED  BY <1>0, <1>1, <1>2, JobPlaceEffect

-----------------------------------------------------------------------------
\* A step that leaves what the connections carry.
AnswersStay ==
    \/ UNCHANGED conns
    \/ \E c \in Conns : Changes(c) /\ conns'[c].resp = conns[c].resp /\ conns'[c].inb = conns[c].inb

LEMMA AnswerInvStep ==
    ASSUME TypeInv, AnswerInv, [Next]_vars
    PROVE  AnswerInv'
<1>0. NetTypes /\ OwnerTypes /\ JobTypes  BY DEF TypeInv
<1>a. ASSUME UNCHANGED reqs, AnswersStay PROVE AnswerInv'
  <2>1. CASE UNCHANGED conns  BY <1>a, <2>1, AnswerSame
  <2>2. ASSUME NEW c \in Conns, Changes(c), conns'[c].resp = conns[c].resp,
               conns'[c].inb = conns[c].inb
        PROVE  AnswerInv'
    <3>1. Carries(c, conns'[c].inb)  BY <2>2 DEF AnswerInv, Changes
    <3> QED  BY <1>a, <2>2, <3>1, AnswerKeeps
  <2> QED  BY <1>a, <2>1, <2>2 DEF AnswersStay
<1>1. CASE UNCHANGED vars  BY <1>1, AnswerSame DEF vars
<1>2. ASSUME NEW c \in Conns, ServerPushes(c) PROVE AnswerInv'
  <2>1. PICK f \in Frames : f.kind # "answer" /\ conns'[c].inb \in {conns[c].inb, Append(conns[c].inb, f)}
    BY <1>2, ServerPushesEffect
  <2>2. Changes(c) /\ conns'[c].resp = conns[c].resp /\ UNCHANGED reqs
    BY <1>2, ServerPushesEffect DEF ServerPushes
  <2>3. Carries(c, conns[c].inb) /\ conns[c].inb \in Seq(Frames)
    BY <1>0, <2>2, IndexIs, ConnectionFields DEF AnswerInv, Changes, Inbox
  <2>4. Carries(c, conns'[c].inb)  BY <2>1, <2>3, CarriesStays
  <2> QED  BY <2>2, <2>4, AnswerKeeps
<1>3. ASSUME NEW c \in Conns, GnetOnClose(c) PROVE AnswerInv'
  <2>1. Changes(c) /\ conns'[c] = OnClose(conns[c])  BY <1>0, <1>3, GnetOnCloseEffect
  <2>2. conns'[c].resp = conns[c].resp /\ conns'[c].inb = conns[c].inb
    BY <1>0, <2>1, IndexIs, OnCloseIs DEF SameBut
  <2> QED  BY <1>3, <1>a, <2>1, <2>2 DEF GnetOnClose, AnswersStay
<1>4. ASSUME NEW c \in Conns, PumpExit(c) PROVE AnswerInv'
  <2>1. Changes(c) /\ conns'[c].resp = conns[c].resp /\ conns'[c].inb = <<>> /\ UNCHANGED reqs
    BY <1>0, <1>4, PumpExitEffect DEF PumpExit
  <2>2. Carries(c, conns'[c].inb)  BY <2>1 DEF Carries
  <2> QED  BY <2>1, <2>2, AnswerKeeps
<1>5. ASSUME NEW c \in Conns, PumpControl(c) \/ PumpBeat(c) \/ Publish(c) PROVE AnswerInv'
  <2>1. AnswersStay
    BY <1>0, <1>5, PumpControlEffect, PumpBeatEffect, PublishEffect DEF AnswersStay, SameAnswers
  <2> QED  BY <1>5, <1>a, <2>1 DEF PumpControl, PumpBeat, Publish
<1>6. ASSUME CallListenOn PROVE AnswerInv'
  <2>1. AnswersStay
    BY <1>0, <1>6, CallListenOnEffect, IndexIs DEF AnswersStay, SameParts, SameAnswers
  <2> QED  BY <1>6, <1>a, <2>1 DEF CallListenOn
<1>7. ASSUME NEW op, CallSetKey(op) PROVE AnswerInv'
  <2>1. AnswersStay  BY <1>0, <1>7, CallSetKeyEffect, IndexIs DEF AnswersStay, SameAnswers
  <2> QED  BY <1>7, <1>a, <2>1 DEF CallSetKey
<1>8. ASSUME CallClose \/ CloseAll PROVE AnswerInv'
  <2>1. AnswersStay
    BY <1>0, <1>8, CallCloseEffect, CloseAllEffect, IndexIs DEF AnswersStay, Closes, SameBut
  <2> QED  BY <1>8, <1>a, <2>1 DEF CallClose, CloseAll
<1>9. ASSUME CallRequest PROVE AnswerInv'
  <2>1. CASE UNCHANGED <<reqs, conns>>  BY <2>1, AnswerSame
  <2>2. ASSUME NEW sent \in BOOLEAN, cur # 0, SendRequest(sent) PROVE AnswerInv'
    BY <2>2, SendRequestKeeps
  <2> QED  BY <1>9, <2>1, <2>2 DEF CallRequest
<1>10. ASSUME RequestEnds PROVE AnswerInv'
  <2>1. PICK r \in 1 .. Len(reqs) : r = Me.w.id  BY <1>10, RequestEndsIs
  <2>2. PICK answer \in Nat : CloseRequest(r, answer) /\ answer \in {0, reqs[r].buf}
    BY <1>10, <2>1, RequestEndsIs
  <2> QED  BY <2>2, CloseRequestKeeps
<1>11. ASSUME ListenLooks \/ ListenWoken PROVE AnswerInv'
  <2>1. UNCHANGED reqs  BY <1>11 DEF ListenLooks, ListenWoken
  <2>2. CASE ListenLooks
    <3>1. AnswersStay
      BY <1>0, <2>2, ListenLooksEffect, IndexIs DEF AnswersStay, SameButQueue, SameAnswers
    <3> QED  BY <1>a, <2>1, <3>1
  <2>3. CASE ListenWoken
    <3>1. PICK c : c = Me.w.id  OBVIOUS
    <3>2. Changes(c) /\ conns'[c].resp = conns[c].resp /\ conns'[c].inb = conns[c].inb
      BY <1>0, <2>3, <3>1, ListenWokenEffect DEF SameButQueue, SameAnswers
    <3>3. c \in Conns  BY <1>0, <3>2, IndexIs DEF Changes
    <3> QED  BY <1>a, <2>1, <3>2, <3>3 DEF AnswersStay
  <2> QED  BY <1>11, <2>2, <2>3
<1>12. ASSUME \/ CallSleep \/ CallListen \/ CallConnect \/ ConnectReturns \/ CloseReturns
              \/ ListenDeadline \/ WaitEnds \/ RunTask
              \/ StartScript \/ EndScript \/ AbortScript \/ EndExecutor
              \/ CleanupStarts \/ CleanupDone \/ CleanupTimesOut
       PROVE  AnswerInv'
  <2>1. UNCHANGED <<conns, reqs>>
    BY <1>12 DEF CallSleep, CallListen, CallConnect, ConnectReturns, CloseReturns, ListenDeadline,
                 WaitEnds, RunTask, StartScript, EndScript, AbortScript, EndExecutor,
                 CleanupStarts, CleanupDone, CleanupTimesOut
  <2> QED  BY <2>1, AnswerSame
<1>13. ASSUME JobDial \/ JobOpened \/ JobOnClosed \/ JobOnDisconnect PROVE AnswerInv'
  <2>1. UNCHANGED reqs  BY <1>13 DEF JobDial, JobOpened, JobOnClosed, JobOnDisconnect
  <2>2. job.pt \in Dialing  BY <1>13 DEF JobDial, JobOpened, JobOnClosed, JobOnDisconnect, Dialing
  <2>3. PICK c \in Conns : c = job.conn  BY <1>0, <2>2, JobIndex
  <2>4. Changes(c) /\ conns'[c].resp = conns[c].resp /\ conns'[c].inb = conns[c].inb
    BY <1>0, <1>13, <2>3, JobDialEffect, JobOpenedEffect, JobOnClosedEffect, JobOnDisconnectEffect
       DEF SameParts, SameAnswers, Closes, SameBut
  <2> QED  BY <1>a, <2>1, <2>4 DEF AnswersStay
<1>14. ASSUME JobHeartbeat PROVE AnswerInv'
  <2>1. AnswersStay
    BY <1>0, <1>14, JobHeartbeatEffect, IndexIs DEF AnswersStay, Ordered, SameAnswers
  <2> QED  BY <1>14, <1>a, <2>1 DEF JobHeartbeat
<1>15. CASE Next
  BY <1>2, <1>3, <1>4, <1>5, <1>6, <1>7, <1>8, <1>9, <1>10, <1>11, <1>12, <1>13, <1>14, <1>15,
     Steps, ServerAnswersKeeps, PumpFrameKeeps, JobPlaceKeeps
<1> QED  BY <1>1, <1>15

\* The pump never finds a request that has given up, and the answer a request takes
\* is its own or that of an earlier request on the same connection that went
\* without (AnswerIsOwn): for any number of requests, callbacks that ask on the
\* route of the script they interrupt, and reconnects.
THEOREM ConnectionAnswerIsOwn == Spec => []AnswerIsOwn
<1>1. ASSUME TypeInv, AnswerInv PROVE AnswerIsOwn
  <2>0. NetTypes /\ Conns = 1 .. Len(conns) /\ DOMAIN reqs = 1 .. Len(reqs) /\ Len(reqs) \in Nat
    BY <1>1, IndexIs DEF TypeInv, NetTypes
  <2>1. \A c \in Conns : conns[c].resp # 0 => reqs[conns[c].resp].open
    BY <1>1, <2>0 DEF AnswerInv, Newest
  <2>2. ASSUME NEW r \in DOMAIN reqs, reqs[r].got \notin {0, r}
        PROVE  /\ reqs[r].got < r
               /\ reqs[reqs[r].got].conn = reqs[r].conn
               /\ reqs[reqs[r].got].got # reqs[r].got
    <3>1. r \in 1 .. Len(reqs) /\ Arrived(r)  BY <1>1, <2>0 DEF AnswerInv
    <3>2. PICK g \in 1 .. Len(reqs) : g = reqs[r].got /\ g = reqs[r].buf /\ g # r /\ g \in 1 .. r
      BY <2>0, <2>2, <3>1 DEF Arrived
    <3>3. reqs[g].conn = reqs[r].conn  BY <3>1, <3>2 DEF Arrived
    <3>4. Arrived(g)  BY <1>1 DEF AnswerInv
    <3>5. reqs[g].got # g
      <4>1. SUFFICES ASSUME reqs[g].got = g PROVE FALSE  OBVIOUS
      <4>2. reqs[g].buf = g  BY <3>2, <3>4, <4>1 DEF Arrived
      <4> QED  BY <3>1, <3>2, <4>2 DEF Arrived
    <3> QED  BY <3>2, <3>3, <3>5
  <2> QED  BY <2>1, <2>2 DEF AnswerIsOwn
<1>2. ASSUME Init PROVE AnswerInv
  <2>1. conns = <<>> /\ reqs = <<>>  BY <1>2 DEF Init
  <2> QED  BY <2>1 DEF AnswerInv
<1>3. Spec => [](TypeInv /\ AnswerInv)
  BY <1>2, AnswerInvStep, TypeInvHolds, PTL DEF Spec
<1> QED  BY <1>1, <1>3, PTL

-----------------------------------------------------------------------------
(* Threads and waking. *)

\* A script under another one is in a wait that runs callbacks, and will look
\* at the queue again before it parks in a listen.
Parked(w) ==
    /\ w.kind \in {"sleep", "listen", "request", "connect"}
    /\ w.kind = "listen" => w.pt = "top"

\* The thread of the script that runs is the one resumed last, every script has
\* a thread of its own, and the cached ones are nobody's.
StackInv ==
    /\ ~ refused
    /\ \A i \in 1 .. Len(stack) : i # Len(stack) => Parked(stack[i].w)
    /\ InScript /\ Me.w.kind \in {"none", "close"} => top = Me.th
    /\ \A i, j \in 1 .. Len(stack) : stack[i].th = stack[j].th => i = j
    /\ \A i, j \in 1 .. Len(idle) : idle[i] = idle[j] => i = j
    /\ \A i \in 1 .. Len(stack) : \A j \in 1 .. Len(idle) : stack[i].th # idle[j]

LEMMA StackSame ==
    ASSUME StackInv, UNCHANGED owner
    PROVE  StackInv'
BY DEF StackInv, owner, InScript, Me

LEMMA StackRewritten ==
    ASSUME OwnerTypes, StackInv, NEW w, Rewrites(w), ~ refused',
           w.kind \in {"none", "close"} => top' = Me.th
    PROVE  StackInv'
<1>1. Len(stack) \in Nat \ {0} /\ Me = stack[Len(stack)]  BY MeIs DEF Rewrites
<1>2. /\ Len(stack') = Len(stack) /\ stack'[Len(stack)].th = Me.th /\ stack'[Len(stack)].w = w
      /\ \A i \in 1 .. Len(stack) : i # Len(stack) => stack'[i] = stack[i]
      /\ idle' = idle
  BY DEF Rewrites
<1>3. Me' = stack'[Len(stack)]  BY <1>2 DEF Me
<1>4. \A i \in 1 .. Len(stack) : stack'[i].th = stack[i].th  BY <1>1, <1>2
<1>5. \A i \in 1 .. Len(stack') : i # Len(stack') => Parked(stack'[i].w)  BY <1>2 DEF StackInv
<1>6. Me'.w.kind \in {"none", "close"} => top' = Me'.th  BY <1>2, <1>3
<1>7. \A i, j \in 1 .. Len(stack') : stack'[i].th = stack'[j].th => i = j  BY <1>2, <1>4 DEF StackInv
<1>8. \A i \in 1 .. Len(stack') : \A j \in 1 .. Len(idle') : stack'[i].th # idle'[j]
  BY <1>2, <1>4 DEF StackInv
<1> QED  BY <1>2, <1>5, <1>6, <1>7, <1>8 DEF StackInv

LEMMA StackEnters ==
    ASSUME OwnerTypes, OwnerTypes', StackInv, NEW under \in Seq(Scripts), NEW todo,
           Len(under) = Len(stack), \A i \in 1 .. Len(stack) : under[i].th = stack[i].th,
           \A i \in 1 .. Len(stack) : Parked(under[i].w),
           EnterScript(under, todo), Len(stack') = Len(under) + 1,
           stack'[Len(under) + 1] = [th |-> AcquireThread, todo |-> todo, w |-> NoWait],
           \A i \in 1 .. Len(under) : stack'[i] = under[i]
    PROVE  StackInv'
<1>0. Len(stack) \in Nat /\ Len(stack') = Len(stack) + 1 /\ Len(idle) \in Nat  BY DEF OwnerTypes
<1>1. PICK t \in Nat : t = AcquireThread  BY AcquireThreadIs
<1>2. stack'[Len(stack) + 1].th = t /\ stack'[Len(stack) + 1].w = NoWait /\ top' = t
  BY <1>1 DEF EnterScript
<1>3. \A i \in 1 .. Len(stack) : stack'[i].th = stack[i].th /\ Parked(stack'[i].w)  OBVIOUS
<1>4. /\ \A i \in 1 .. Len(stack) : stack[i].th # t
      /\ \A j \in 1 .. Len(idle') : idle'[j] # t /\ j \in 1 .. Len(idle) /\ idle'[j] = idle[j]
  <2>1. CASE idle = <<>>
    <3>1. idle' = <<>> /\ t \notin Held  BY <1>1, <2>1, AcquireThreadIs DEF EnterScript
    <3>2. DOMAIN stack = 1 .. Len(stack)  BY DEF OwnerTypes
    <3> QED  BY <3>1, <3>2 DEF Held
  <2>2. CASE idle # <<>>
    <3>1. /\ t = idle[Len(idle)] /\ idle' = SubSeq(idle, 1, Len(idle) - 1) /\ idle \in Seq(Nat)
      BY <1>1, <2>2, AcquireThreadIs DEF EnterScript, OwnerTypes
    <3>2. /\ Len(idle') = Len(idle) - 1 /\ Len(idle) \in Nat \ {0}
          /\ \A j \in 1 .. (Len(idle) - 1) : idle'[j] = idle[j]
      BY <2>2, <3>1, SeqFront
    <3>3. PICK n \in Nat \ {0} : n = Len(idle)  BY <3>2
    <3>4. \A i \in 1 .. Len(stack) : stack[i].th # idle[n]  BY <3>3 DEF StackInv
    <3>5. \A j \in 1 .. (n - 1) : j \in 1 .. n /\ n \in 1 .. n /\ j # n  BY <3>3
    <3>6. \A j \in 1 .. (n - 1) : idle[j] # idle[n]  BY <3>3, <3>5 DEF StackInv
    <3> QED  BY <3>1, <3>2, <3>3, <3>4, <3>5, <3>6
  <2> QED  BY <2>1, <2>2
<1>5. Me' = stack'[Len(stack) + 1]  BY <1>0 DEF Me
<1>6. ~ refused'  BY DEF EnterScript, StackInv
<1>7. \A i \in 1 .. Len(stack') : i # Len(stack') => Parked(stack'[i].w)  BY <1>0, <1>3
<1>8. \A i \in 1 .. Len(stack') : i \in 1 .. Len(stack) \/ i = Len(stack) + 1  BY <1>0
<1>9. \A i, j \in 1 .. Len(stack') : stack'[i].th = stack'[j].th => i = j
  BY <1>2, <1>3, <1>4, <1>8 DEF StackInv
<1>10. \A i, j \in 1 .. Len(idle') : idle'[i] = idle'[j] => i = j  BY <1>4 DEF StackInv
<1>11. \A i \in 1 .. Len(stack') : \A j \in 1 .. Len(idle') : stack'[i].th # idle'[j]
  BY <1>2, <1>3, <1>4, <1>8 DEF StackInv
<1> QED  BY <1>2, <1>5, <1>6, <1>7, <1>9, <1>10, <1>11 DEF StackInv

LEMMA StackLeaves ==
    ASSUME OwnerTypes, StackInv, InScript, Len(stack') = Len(stack) - 1,
           \A i \in 1 .. Len(stack') : stack'[i] = stack[i],
           idle' = idle \/ idle' = Append(idle, Me.th), UNCHANGED <<top, refused>>
    PROVE  StackInv'
<1>0. Len(stack) \in Nat \ {0} /\ Len(idle) \in Nat /\ idle \in Seq(Nat) /\ Me.th \in Nat
      /\ Me = stack[Len(stack)]
  BY MeIs DEF OwnerTypes
<1>1. \A i \in 1 .. Len(stack') : i \in 1 .. Len(stack) /\ i # Len(stack) /\ Parked(stack'[i].w)
  BY <1>0 DEF StackInv
<1>2. \A i \in 1 .. Len(stack') : stack'[i].th # Me.th
  <2>1. PICK n \in Nat \ {0} : n = Len(stack)  BY <1>0
  <2>2. \A i \in 1 .. n : i # n => stack[i].th # stack[n].th  BY <2>1 DEF StackInv
  <2> QED  BY <1>0, <1>1, <2>1, <2>2
<1>3. stack' # <<>> => Len(stack') # 0 /\ Me' = stack'[Len(stack')]
  <2>1. Len(stack) = 1 => stack' = <<>>  OBVIOUS
  <2> QED  BY <1>0, <2>1 DEF Me
<1>4. stack' # <<>> => Parked(Me'.w)  BY <1>0, <1>1, <1>3
<1>5. InScript' => ~ Me'.w.kind \in {"none", "close"}  BY <1>4 DEF Parked, InScript
<1>6. CASE idle' = idle
  <2>1. \A i, j \in 1 .. Len(stack') : stack'[i].th = stack'[j].th => i = j
    BY <1>1 DEF StackInv
  <2>2. \A i \in 1 .. Len(stack') : \A j \in 1 .. Len(idle') : stack'[i].th # idle'[j]
    BY <1>1, <1>6 DEF StackInv
  <2>3. \A i, j \in 1 .. Len(idle') : idle'[i] = idle'[j] => i = j  BY <1>6 DEF StackInv
  <2>4. ~ refused'  BY DEF StackInv
  <2> QED  BY <1>1, <1>5, <2>1, <2>2, <2>3, <2>4 DEF StackInv
<1>7. CASE idle' = Append(idle, Me.th)
  <2>1. /\ Len(idle') = Len(idle) + 1 /\ idle'[Len(idle) + 1] = Me.th
        /\ \A j \in 1 .. Len(idle) : idle'[j] = idle[j]
    BY <1>0, <1>7, SeqAppend
  <2>2. \A j \in 1 .. Len(idle') : j \in 1 .. Len(idle) \/ j = Len(idle) + 1  BY <1>0, <2>1
  <2>3. \A j \in 1 .. Len(idle) : idle[j] # Me.th  BY <1>0 DEF StackInv
  <2>4. \A i, j \in 1 .. Len(idle') : idle'[i] = idle'[j] => i = j
    BY <2>1, <2>2, <2>3 DEF StackInv
  <2>5. \A i \in 1 .. Len(stack') : \A j \in 1 .. Len(idle') : stack'[i].th # idle'[j]
    BY <1>1, <1>2, <2>1, <2>2 DEF StackInv
  <2> QED  BY <1>1, <1>5, <2>4, <2>5 DEF StackInv
<1> QED  BY <1>6, <1>7

\* The innermost script goes on with w: it runs only on the thread that is the
\* top one, it is refused only if it ran on another, it parks in a listen only
\* after a look that found nothing, and it leaves a connect only when that is over.
Goes(w) ==
    /\ Rewrites(w)
    /\ \/ top' = Me.th
       \/ UNCHANGED top /\ Me.w.kind \in {"none", "close"}
       \/ w.kind \notin {"none", "close"}
    /\ UNCHANGED refused \/ (Me.w.kind = "none" /\ refused' = (refused \/ top # Me.th))
    /\ w.kind = "listen" /\ w.pt = "select" => UNCHANGED <<conns, cur>> /\ ~ Available
    /\ Me.w.kind = "connect" => w.kind = "connect" \/ ConnectReturns

LEMMA ReturnsGoes ==
    ASSUME OwnerTypes, NEW op, Calls(op), Returns
    PROVE  \E w \in Waits : Goes(w)
<1>1. InScript /\ Me.w = NoWait /\ Me.todo # <<>>  BY CallsIs
<1>2. Rewrites(NoWait) /\ UNCHANGED <<top, refused>>  BY <1>1, ReturnsIs
<1>3. Goes(NoWait)  BY <1>1, <1>2, NoWaitIs DEF Goes
<1> QED  BY <1>3, NoWaitIs

LEMMA ResumeGoes ==
    ASSUME OwnerTypes, InScript, Resume, Me.w.kind # "connect" \/ ConnectReturns
    PROVE  \E w \in Waits : Goes(w)
<1>1. Rewrites(NoWait) /\ top' = Me.th /\ UNCHANGED refused  BY ResumeIs
<1>2. Goes(NoWait)  BY <1>1, NoWaitIs DEF Goes
<1> QED  BY <1>2, NoWaitIs

LEMMA CallGoes ==
    ASSUME TypeInv, CallClose \/ CallRequest \/ CallSleep \/ CallListen \/ CallConnect
    PROVE  \E w \in Waits : Goes(w)
<1>0. NetTypes /\ OwnerTypes  BY DEF TypeInv
<1>1. CASE CallClose
  <2>1. InScript /\ Me.w = NoWait /\ Me.w.kind = "none"  BY <1>0, <1>1, CallsIs, NoWaitIs DEF CallClose
  <2>2. CASE Rewrites(NoWait) /\ UNCHANGED <<top, refused>>
    <3>1. Goes(NoWait)  BY <2>1, <2>2, NoWaitIs DEF Goes
    <3> QED  BY <3>1, NoWaitIs
  <2>3. CASE cur # 0 /\ Rewrites(Waiting("close", "none", cur)) /\ UNCHANGED <<top, refused>>
    <3>1. PICK v \in Waits : v = Waiting("close", "none", cur)  BY <2>3 DEF Rewrites
    <3>2. v.kind = "close"  BY <3>1 DEF Waiting
    <3>3. Goes(v)  BY <2>1, <2>3, <3>1, <3>2 DEF Goes
    <3> QED  BY <3>3
  <2> QED  BY <1>1, <2>2, <2>3, CallCloseOwner
<1>2. CASE CallRequest
  <2>1. InScript /\ Me.w = NoWait /\ Me.w.kind = "none" /\ Me.todo # <<>>
    BY <1>0, <1>2, CallsIs, NoWaitIs DEF CallRequest
  <2>2. CASE Returns  BY <1>0, <1>2, <2>2, ReturnsGoes DEF CallRequest
  <2>3. CASE Await(Waiting("request", "select", Len(reqs) + 1))
    <3>1. Len(reqs) + 1 \in Nat  BY <1>0 DEF NetTypes
    <3>2. PICK v : v = Waiting("request", "select", Len(reqs) + 1)  OBVIOUS
    <3>3. v \in Waits /\ v.kind = "request"  BY <3>1, <3>2, WaitingIs DEF WaitKinds, WaitPlaces
    <3>4. Await(v)  BY <2>3, <3>2
    <3>5. Rewrites(v) /\ UNCHANGED top /\ refused' = (refused \/ top # Me.th)
      BY <1>0, <2>1, <3>3, <3>4, AwaitIs
    <3>6. Goes(v)  BY <2>1, <3>3, <3>5 DEF Goes
    <3> QED  BY <3>3, <3>6
  <2> QED  BY <1>2, <2>2, <2>3 DEF CallRequest
<1>3. ASSUME NEW v, Rewrites(v), UNCHANGED top, refused' = (refused \/ top # Me.th), Me.w = NoWait,
             v.kind \in {"sleep", "connect"} \/ v.pt = "top", v.kind \notin {"none", "close"}
      PROVE  \E w \in Waits : Goes(w)
  <2>1. v \in Waits  BY <1>3 DEF Rewrites
  <2>2. Goes(v)  BY <1>3, NoWaitIs DEF Goes
  <2> QED  BY <2>1, <2>2
<1>4. CASE CallSleep
  <2>1. PICK v : v = Waiting("sleep", "select", 0)  OBVIOUS
  <2>2. v.kind = "sleep"  BY <2>1 DEF Waiting
  <2> QED  BY <1>0, <1>3, <1>4, <2>1, <2>2, CallSleepOwner
<1>5. CASE CallListen
  <2>1. PICK v : v = Waiting("listen", "top", WakeOf)  OBVIOUS
  <2>2. v.kind = "listen" /\ v.pt = "top"  BY <2>1 DEF Waiting
  <2> QED  BY <1>0, <1>3, <1>5, <2>1, <2>2, CallListenOwner
<1>6. CASE CallConnect
  <2>1. PICK v : v = Waiting("connect", "select", 0)  OBVIOUS
  <2>2. v.kind = "connect"  BY <2>1 DEF Waiting
  <2> QED  BY <1>0, <1>3, <1>6, <2>1, <2>2, CallConnectOwner
<1> QED  BY <1>1, <1>2, <1>4, <1>5, <1>6

LEMMA ListenGoes ==
    ASSUME TypeInv, ListenLooks \/ ListenWoken \/ ListenDeadline
    PROVE  \E w \in Waits : Goes(w)
<1>0. NetTypes /\ OwnerTypes  BY DEF TypeInv
<1>1. InScript /\ Me.w.kind = "listen"  BY <1>0, ListenOwner
<1>2. CASE Resume  BY <1>0, <1>1, <1>2, ResumeGoes
<1>3. CASE MovesTo("select") /\ ListenLooks /\ ~ Resume
  <2>1. UNCHANGED <<conns, cur>> /\ ~ Available  BY <1>0, <1>3, ListenLooksEffect DEF ListenLooks
  <2>2. PICK v \in Waits : Rewrites(v) /\ v.kind = "listen" /\ UNCHANGED <<top, refused>>
    BY <1>3 DEF MovesTo
  <2>3. Goes(v)  BY <1>1, <2>1, <2>2 DEF Goes
  <2> QED  BY <2>3
<1>4. ASSUME NEW pt \in {"top", "last"}, MovesTo(pt) PROVE \E w \in Waits : Goes(w)
  <2>1. PICK v \in Waits : Rewrites(v) /\ v.kind = "listen" /\ v.pt = pt /\ UNCHANGED <<top, refused>>
    BY <1>4 DEF MovesTo
  <2>2. Goes(v)  BY <1>1, <1>4, <2>1 DEF Goes
  <2> QED  BY <2>2
<1> QED  BY <1>0, <1>2, <1>3, <1>4, ListenOwner

\* A script starts on top of the stack: the action script, or a callback over a
\* wait that will look again.
Enters ==
    \E under \in Seq(Scripts), todo \in Seq(Ops) :
      /\ EnterScript(under, todo) /\ Len(under) = Len(stack)
      /\ \A i \in 1 .. Len(stack) :
           /\ under[i].th = stack[i].th /\ under[i].todo = stack[i].todo
           /\ under[i].w.kind = stack[i].w.kind /\ Parked(under[i].w)
      /\ Len(stack') = Len(under) + 1
      /\ stack'[Len(under) + 1] = [th |-> AcquireThread, todo |-> todo, w |-> NoWait]
      /\ \A i \in 1 .. Len(under) : stack'[i] = under[i]
      /\ UNCHANGED <<conns, cur, job>>
      /\ stack = <<>> \/ todo = plan.callback

LEMMA StartScriptEnters ==
    ASSUME TypeInv, StartScript
    PROVE  Enters
<1>1. OwnerTypes /\ stack = <<>> /\ stack \in Seq(Scripts) /\ Len(stack) = 0
  BY DEF StartScript, TypeInv, OwnerTypes
<1>2. plan.script \in Seq(Ops)  BY PlanAssumption DEF TypeInv, RobotTypes
<1>3. Grows  BY NetSame DEF StartScript, TypeInv
<1>4. EnterScript(stack, plan.script) /\ UNCHANGED <<conns, cur, job>>  BY DEF StartScript
<1>5. /\ Len(stack') = Len(stack) + 1
      /\ stack'[Len(stack) + 1] = [th |-> AcquireThread, todo |-> plan.script, w |-> NoWait]
  <2>1. \A i \in 1 .. Len(stack) : NamedBy(stack[i].w)  BY <1>1
  <2> QED  BY <1>1, <1>2, <1>3, <1>4, <2>1, OwnerEnters
<1>6. PICK under \in Seq(Scripts) : under = stack  BY <1>1
<1>7. PICK todo \in Seq(Ops) : todo = plan.script  BY <1>2
<1>8. EnterScript(under, todo)  BY <1>4, <1>6, <1>7
<1>9. \A i \in 1 .. Len(stack) : FALSE  BY <1>1
<1>10. /\ Len(stack') = Len(under) + 1 /\ Len(under) = Len(stack)
       /\ stack'[Len(under) + 1] = [th |-> AcquireThread, todo |-> todo, w |-> NoWait]
  BY <1>5, <1>6, <1>7
<1> QED  BY <1>1, <1>4, <1>6, <1>8, <1>9, <1>10 DEF Enters

LEMMA RunTaskEnters ==
    ASSUME TypeInv, StackInv, RunTask
    PROVE  Enters \/ \E w \in Waits : Goes(w)
<1>0. OwnerTypes /\ InScript /\ Me.w.kind \in {"sleep", "listen", "request", "connect"}
      /\ Me.w.pt = "select"
  BY RunTaskOwner DEF TypeInv
<1>1. PICK v : v = AfterTask(Me.w)  OBVIOUS
<1>2. v \in Waits /\ v.kind = Me.w.kind /\ v.id = Me.w.id /\ (v.kind = "listen" => v.pt = "top")
  BY <1>0, <1>1, AfterTaskIs
<1>3. CASE Rewrites(v) /\ UNCHANGED <<top, refused>>
  <2>1. Goes(v)  BY <1>0, <1>2, <1>3 DEF Goes
  <2> QED  BY <1>2, <2>1
<1>4. ASSUME NEW under \in Seq(Scripts), EnterScript(under, plan.callback),
             Len(under) = Len(stack),
             \A i \in 1 .. Len(stack) : i # Len(stack) => under[i] = stack[i],
             under[Len(stack)] = [th |-> Me.th, todo |-> Me.todo, w |-> v]
      PROVE  Enters
  <2>1. Len(stack) \in Nat \ {0} /\ Me = stack[Len(stack)] /\ Names(Me.w)  BY <1>0, MeIs
  <2>2. plan.callback \in Seq(Ops)  BY PlanAssumption DEF TypeInv, RobotTypes
  <2>3. UNCHANGED <<conns, reqs, cur, job>>  BY DEF RunTask
  <2>4. Grows  BY <2>3, NetSame DEF TypeInv
  <2>5. under[Len(stack)].w = v  BY <1>4
  <2>6. NamedBy(v)  BY <1>2, <2>1, <2>3, <2>4, NamesStay DEF Names, NamedBy
  <2>7. \A i \in 1 .. Len(stack) : Names(stack[i].w)  BY <1>0 DEF OwnerTypes
  <2>8. \A i \in 1 .. Len(under) : NamedBy(under[i].w)
    BY <1>4, <2>4, <2>5, <2>6, <2>7, NamesStay
  <2>9. /\ Len(stack') = Len(under) + 1
        /\ stack'[Len(under) + 1] = [th |-> AcquireThread, todo |-> plan.callback, w |-> NoWait]
        /\ \A i \in 1 .. Len(under) : stack'[i] = under[i]
    BY <1>0, <1>4, <2>2, <2>4, <2>8, OwnerEnters
  <2>10. ASSUME NEW i \in 1 .. Len(stack)
         PROVE  /\ under[i].th = stack[i].th /\ under[i].todo = stack[i].todo
                /\ under[i].w.kind = stack[i].w.kind /\ Parked(under[i].w)
    <3>1. CASE i # Len(stack)  BY <1>4, <3>1 DEF StackInv
    <3>2. CASE i = Len(stack)
      <4>1. Parked(v)  BY <1>0, <1>2 DEF Parked
      <4> QED  BY <1>2, <1>4, <2>1, <3>2, <4>1
    <3> QED  BY <3>1, <3>2
  <2> QED  BY <1>4, <2>2, <2>3, <2>9, <2>10 DEF Enters
<1> QED  BY <1>1, <1>3, <1>4, <1>0, RunTaskOwner DEF TypeInv

\* A step outside the scripts leaves the queue and the signal of the current
\* connection as they are, signals, or closes it.
ListenerStays ==
    \/ UNCHANGED conns /\ cur' \in {cur, 0}
    \/ \E c \in Conns : /\ Changes(c) /\ cur' \in {cur, 0}
                        /\ \/ SameListener(conns[c], conns'[c])
                           \/ conns'[c].token \/ conns'[c].closed
    \/ cur' = Len(conns) + 1

LEMMA OutsideListeners ==
    ASSUME TypeInv, NEW c \in Conns,
           \/ \E r \in DOMAIN reqs : ServerAnswers(c, r)
           \/ ServerPushes(c) \/ GnetOnClose(c) \/ PumpFrame(c) \/ PumpControl(c)
           \/ PumpExit(c) \/ PumpBeat(c) \/ Publish(c)
    PROVE  UNCHANGED owner /\ ListenerStays
<1>0. NetTypes  BY DEF TypeInv
<1>1. ASSUME NEW r \in DOMAIN reqs, ServerAnswers(c, r) PROVE UNCHANGED owner /\ ListenerStays
  BY <1>0, <1>1, ServerAnswersEffect DEF ServerAnswers, ListenerStays
<1>2. CASE ServerPushes(c)  BY <1>2, ServerPushesEffect DEF ServerPushes, ListenerStays
<1>3. CASE GnetOnClose(c)
  <2>1. Changes(c) /\ conns'[c] = OnClose(conns[c])  BY <1>0, <1>3, GnetOnCloseEffect
  <2>2. conns'[c].closed  BY <1>0, <2>1, IndexIs, OnCloseIs
  <2> QED  BY <1>3, <2>1, <2>2 DEF GnetOnClose, ListenerStays
<1>4. CASE PumpFrame(c)
  BY <1>0, <1>4, PumpFrameEffect DEF PumpFrame, ListenerStays
<1>5. CASE PumpControl(c)  BY <1>0, <1>5, PumpControlEffect DEF PumpControl, ListenerStays
<1>6. CASE PumpExit(c)  BY <1>0, <1>6, PumpExitEffect DEF PumpExit, ListenerStays
<1>7. CASE PumpBeat(c)  BY <1>0, <1>7, PumpBeatEffect DEF PumpBeat, ListenerStays
<1>8. CASE Publish(c)  BY <1>0, <1>8, PublishEffect DEF Publish, ListenerStays
<1> QED  BY <1>1, <1>2, <1>3, <1>4, <1>5, <1>6, <1>7, <1>8

LEMMA JobListeners ==
    ASSUME TypeInv, Job
    PROVE  UNCHANGED owner /\ ListenerStays
<1>0. NetTypes /\ JobTypes  BY DEF TypeInv
<1>1. UNCHANGED owner
  BY DEF Job, JobPlace, JobDial, JobOpened, JobHeartbeat, JobOnClosed, JobOnDisconnect
<1>2. CASE JobPlace  BY <1>0, <1>1, <1>2, JobPlaceEffect DEF ListenerStays
<1>3. CASE JobDial \/ JobOpened \/ JobOnClosed \/ JobOnDisconnect
  <2>1. job.pt \in Dialing  BY <1>3 DEF JobDial, JobOpened, JobOnClosed, JobOnDisconnect, Dialing
  <2>2. PICK c \in Conns : c = job.conn  BY <1>0, <2>1, JobIndex
  <2>3. Changes(c) /\ (SameListener(conns[c], conns'[c]) \/ conns'[c].closed)
    BY <1>0, <1>3, <2>2, JobDialEffect, JobOpenedEffect, JobOnClosedEffect, JobOnDisconnectEffect
       DEF SameParts, Closes
  <2>4. cur' \in {cur, 0}
    BY <1>0, <1>3, JobDialEffect, JobOpenedEffect DEF JobOnClosed, JobOnDisconnect
  <2> QED  BY <1>1, <2>3, <2>4 DEF ListenerStays
<1>4. CASE JobHeartbeat
  <2>1. UNCHANGED cur  BY <1>4 DEF JobHeartbeat
  <2> QED  BY <1>0, <1>1, <1>4, <2>1, JobHeartbeatEffect, IndexIs DEF ListenerStays, Ordered
<1> QED  BY <1>2, <1>3, <1>4 DEF Job

\* Every step, by what it does to the scripts.
LEMMA OwnerSteps ==
    ASSUME TypeInv, StackInv, [Next]_vars
    PROVE  \/ UNCHANGED owner /\ ListenerStays
           \/ \E w \in Waits : Goes(w)
           \/ Enters
           \/ EndScript \/ AbortScript
           \/ CleanupDone
<1>0. NetTypes /\ OwnerTypes  BY DEF TypeInv
<1>1. CASE UNCHANGED vars  BY <1>1 DEF vars, ListenerStays
<1>2. CASE CallListenOn \/ \E op \in {"key", "emptykey"} : CallSetKey(op)
  BY <1>0, <1>2, ReturnsGoes DEF CallListenOn, CallSetKey
<1>3. CASE CloseReturns
  <2>1. Rewrites(NoWait) /\ Me.w.kind = "close" /\ UNCHANGED <<top, refused>>
    BY <1>3, CloseReturnsOwner
  <2>2. Goes(NoWait)  BY <2>1, NoWaitIs DEF Goes
  <2> QED  BY <2>2, NoWaitIs
<1>4. CASE RequestEnds  BY <1>0, <1>4, RequestEndsIs, ResumeGoes
<1>5. CASE WaitEnds \/ ConnectReturns
  <2>1. InScript /\ Resume /\ (Me.w.kind # "connect" \/ ConnectReturns)
    BY <1>5 DEF WaitEnds, ConnectReturns, In
  <2> QED  BY <1>0, <2>1, ResumeGoes
<1>6. CASE EndExecutor \/ CleanupStarts \/ CleanupTimesOut
  BY <1>6 DEF EndExecutor, CleanupStarts, CleanupTimesOut, ListenerStays
<1>7. CASE CloseAll
  <2>1. UNCHANGED owner  BY <1>7 DEF CloseAll
  <2> QED  BY <1>0, <1>7, <2>1, CloseAllEffect, IndexIs DEF ListenerStays, Closes
<1>8. CASE Next
  BY <1>2, <1>3, <1>4, <1>5, <1>6, <1>7, <1>8, Steps, OutsideListeners, JobListeners, CallGoes,
     ListenGoes, RunTaskEnters, StartScriptEnters DEF Job
<1> QED  BY <1>1, <1>8

LEMMA StackInvStep ==
    ASSUME TypeInv, StackInv, [Next]_vars
    PROVE  StackInv'
<1>0. OwnerTypes /\ NetTypes  BY DEF TypeInv
<1>1. CASE UNCHANGED owner  BY <1>1, StackSame
<1>2. ASSUME NEW w \in Waits, Goes(w) PROVE StackInv'
  <2>1. Rewrites(w) /\ InScript  BY <1>2 DEF Goes, Rewrites
  <2>2. Me.w.kind \in {"none", "close"} => top = Me.th  BY <2>1 DEF StackInv
  <2>3. ~ refused'
    <3>1. ~ refused  BY DEF StackInv
    <3>2. CASE UNCHANGED refused  BY <3>1, <3>2
    <3>3. CASE Me.w.kind = "none" /\ refused' = (refused \/ top # Me.th)  BY <2>2, <3>1, <3>3
    <3> QED  BY <1>2, <3>2, <3>3 DEF Goes
  <2>4. w.kind \in {"none", "close"} => top' = Me.th  BY <1>2, <2>2 DEF Goes
  <2> QED  BY <1>0, <2>1, <2>3, <2>4, StackRewritten
<1>3. CASE Enters
  <2>1. OwnerTypes'  BY TypeInvStep DEF TypeInv
  <2> QED  BY <1>0, <1>3, <2>1, StackEnters DEF Enters
<1>4. CASE EndScript \/ AbortScript
  <2>1. /\ InScript /\ stack' = Below /\ UNCHANGED <<top, refused>>
        /\ idle' \in Seq(Nat) /\ Len(idle') <= MaxIdle
        /\ idle' = idle \/ idle' = Append(idle, Me.th)
    BY <1>0, <1>4, ScriptEndsOwner
  <2>2. Grows  BY <1>0, <1>4, NetSame DEF EndScript, AbortScript
  <2>3. Len(stack') = Len(stack) - 1 /\ \A i \in 1 .. Len(stack') : stack'[i] = stack[i]
    BY <1>0, <2>1, <2>2, OwnerBelow
  <2> QED  BY <1>0, <2>1, <2>3, StackLeaves
<1>5. CASE CleanupDone
  <2>1. idle' = <<>> /\ UNCHANGED <<stack, top, refused>>  BY <1>5 DEF CleanupDone
  <2> QED  BY <2>1 DEF StackInv, InScript, Me
<1> QED  BY <1>1, <1>2, <1>3, <1>4, <1>5, OwnerSteps

\* Waking, step by step.  A script that runs, or that will look again, sleeps
\* over nothing.
LEMMA LooksAgain ==
    ASSUME stack' # <<>> => ~ (Me'.w.kind = "listen" /\ Me'.w.pt = "select")
    PROVE  NoLostWakeup'
BY DEF NoLostWakeup, In, InScript

LEMMA WakeStays ==
    ASSUME TypeInv, NoLostWakeup, UNCHANGED owner, ListenerStays
    PROVE  NoLostWakeup'
<1>0. NetTypes /\ OwnerTypes /\ UNCHANGED stack  BY DEF TypeInv, owner
<1>1. SUFFICES ASSUME InScript, Me.w.kind = "listen", Me.w.pt = "select", Me.w.id # 0,
                      Me.w.id = cur', ~ conns'[cur'].closed, conns'[cur'].queue # <<>>
               PROVE  conns'[cur'].token
  BY <1>0 DEF NoLostWakeup, In, InScript, Me
<1>2. Me.w.id \in 1 .. Len(conns) /\ Len(conns) \in Nat
  <2>1. Names(Me.w) /\ Me.w.id \in Nat  BY <1>0, <1>1, MeIs
  <2>2. Len(conns) \in Nat  BY <1>0 DEF NetTypes
  <2> QED  BY <1>1, <2>1, <2>2 DEF Names
<1>3. cur' # Len(conns) + 1 /\ cur' # 0  BY <1>1, <1>2
<1>4. CASE UNCHANGED conns /\ cur' \in {cur, 0}
  BY <1>1, <1>3, <1>4 DEF NoLostWakeup, In
<1>5. ASSUME NEW c \in Conns, Changes(c), cur' \in {cur, 0},
             \/ SameListener(conns[c], conns'[c])
             \/ conns'[c].token \/ conns'[c].closed
      PROVE  conns'[cur'].token
  <2>1. cur' = cur /\ cur \in 1 .. Len(conns)  BY <1>1, <1>2, <1>3, <1>5
  <2>2. CASE cur # c
    <3>1. conns'[cur] = conns[cur]  BY <1>5, <2>1, <2>2 DEF Changes
    <3> QED  BY <1>1, <2>1, <3>1 DEF NoLostWakeup, In
  <2>3. CASE cur = c
    <3>1. CASE SameListener(conns[c], conns'[c])
      BY <1>1, <2>1, <2>3, <3>1 DEF NoLostWakeup, In, SameListener
    <3>2. CASE conns'[c].token \/ conns'[c].closed  BY <1>1, <2>1, <2>3, <3>2
    <3> QED  BY <1>5, <3>1, <3>2
  <2> QED  BY <2>2, <2>3
<1> QED  BY <1>3, <1>4, <1>5 DEF ListenerStays

LEMMA WakeStep ==
    ASSUME TypeInv, StackInv, NoLostWakeup, [Next]_vars
    PROVE  NoLostWakeup'
<1>0. OwnerTypes /\ NetTypes  BY DEF TypeInv
<1>1. CASE UNCHANGED owner /\ ListenerStays  BY <1>1, WakeStays
<1>2. ASSUME NEW w \in Waits, Goes(w) PROVE NoLostWakeup'
  <2>1. Len(stack') = Len(stack) /\ stack'[Len(stack)].w = w  BY <1>2 DEF Goes, Rewrites
  <2>2. Me'.w = w  BY <2>1 DEF Me
  <2>3. CASE w.kind = "listen" /\ w.pt = "select"
    <3>1. UNCHANGED <<conns, cur>> /\ ~ Available  BY <1>2, <2>3 DEF Goes
    <3>2. ~ (cur' # 0 /\ ~ conns'[cur'].closed /\ conns'[cur'].queue # <<>>)
      BY <3>1 DEF Available
    <3> QED  BY <3>2 DEF NoLostWakeup
  <2>4. CASE ~ (w.kind = "listen" /\ w.pt = "select")  BY <2>2, <2>4, LooksAgain
  <2> QED  BY <2>3, <2>4
<1>3. CASE Enters
  <2>1. Len(stack') = Len(stack) + 1 /\ stack'[Len(stack) + 1].w = NoWait  BY <1>3 DEF Enters
  <2>2. Me'.w = NoWait  BY <2>1 DEF Me
  <2> QED  BY <2>2, LooksAgain, NoWaitIs
<1>4. CASE EndScript \/ AbortScript
  <2>1. InScript /\ stack' = Below  BY <1>0, <1>4, ScriptEndsOwner
  <2>2. PICK n \in Nat \ {0} : n = Len(stack)  BY <1>0, <2>1, MeIs
  <2>3. stack' = SubSeq(stack, 1, n - 1) /\ stack \in Seq(Scripts) /\ stack # <<>>
    BY <1>0, <2>1, <2>2, MeIs DEF Below
  <2>4. Len(stack') = n - 1 /\ \A i \in 1 .. (n - 1) : stack'[i] = stack[i]
    BY <2>2, <2>3, SeqFront
  <2>5. n = 1 => stack' = <<>>  BY <2>3
  <2>6. n # 1 => n - 1 \in 1 .. n /\ n - 1 # n /\ n - 1 \in 1 .. (n - 1)  BY <2>2
  <2>7. n # 1 => Parked(stack[n - 1].w)  BY <2>2, <2>6 DEF StackInv
  <2>8. n # 1 => Me'.w = stack[n - 1].w  BY <2>4, <2>6 DEF Me
  <2> QED  BY <2>5, <2>7, <2>8, LooksAgain DEF Parked
<1>5. CASE CleanupDone
  BY <1>5 DEF CleanupDone, NoLostWakeup, In, InScript, Me
<1> QED  BY <1>1, <1>2, <1>3, <1>4, <1>5, OwnerSteps

LEMMA OwnerInvHolds == Spec => [](TypeInv /\ StackInv /\ NoLostWakeup)
<1>1. ASSUME Init PROVE StackInv /\ NoLostWakeup
  <2>1. stack = <<>> /\ idle = <<>> /\ refused = FALSE  BY <1>1 DEF Init
  <2> QED  BY <2>1 DEF StackInv, NoLostWakeup, In, InScript
<1> QED  BY <1>1, StackInvStep, WakeStep, TypeInvHolds, PTL DEF Spec

\* The owner of a robot never sleeps over a message of the connection it listens
\* to (NoLostWakeup), and no two scripts in progress share a thread, a cached
\* thread is nobody's, and no wait is refused (ThreadsAreExclusive): for callbacks
\* that listen, connect and close themselves, nested to any depth.
THEOREM ConnectionOwnerIsWoken == Spec => [](NoLostWakeup /\ ThreadsAreExclusive)
<1>1. ASSUME TypeInv, StackInv PROVE ThreadsAreExclusive
  <2>1. DOMAIN stack = 1 .. Len(stack) /\ DOMAIN idle = 1 .. Len(idle)
    BY <1>1 DEF TypeInv, OwnerTypes
  <2>2. ASSUME NEW t \in Held, t \in Cached PROVE FALSE
    <3>1. PICK i \in 1 .. Len(stack) : t = stack[i].th  BY <2>1 DEF Held
    <3>2. PICK j \in 1 .. Len(idle) : t = idle[j]  BY <2>1, <2>2 DEF Cached
    <3> QED  BY <1>1, <3>1, <3>2 DEF StackInv
  <2>3. ~ refused /\ \A i, j \in DOMAIN stack : stack[i].th = stack[j].th => i = j
    BY <1>1, <2>1 DEF StackInv
  <2> QED  BY <2>2, <2>3 DEF ThreadsAreExclusive
<1> QED  BY <1>1, OwnerInvHolds, PTL

-----------------------------------------------------------------------------
(* Heartbeats. *)

\* The dial job before its RegisterCodecHeartbeat.
Settling == {"dial", "opened", "heartbeat"}
AllAre(s, x) == \A i \in 1 .. Len(s) : s[i] = x

\* Only an open connection has orders for a heartbeat alone, and before a key
\* is given to a connection that needs one there is no order but to stop.
Obeys(h, k) ==
    /\ k.ctx => k.closed
    /\ ~ k.closed => AllAre(k.ctl, "heartbeat")
    /\ h = "keyed" /\ ~ k.key /\ ~ k.empty =>
         ~ k.hb /\ ~ k.bare /\ AllAre(k.ctl, "stop")
    /\ h = "keyed" /\ k.bare => k.empty

\* Once the job has registered it, the heartbeat of the connection in the pool
\* is there, is ordered, or waits for the key.
Beating(k) == k.hb \/ k.ctl # <<>>
Live(k) == ~ k.closed /\ k.pump = "run"
Installed ==
    cur # 0 /\ Live(conns[cur]) /\ ~ cancelled /\ job.pt \notin Settling =>
      /\ plan.heartbeat = "plain" => Beating(conns[cur])
      /\ plan.heartbeat = "keyed" => /\ pending \/ Beating(conns[cur])
                                     /\ conns[cur].key => Beating(conns[cur])

Beats == (\A c \in 1 .. Len(conns) : Obeys(plan.heartbeat, conns[c])) /\ Installed

\* While the job dials, its caller waits, so that the scripts that may set the
\* key are not running and the new connection has none.
Keyless(todo) == \A n \in 1 .. Len(todo) : todo[n] # "key"
Unkeyed == job.pt \in Settling => ~ conns[job.conn].key
Waited == job.pt # "none" => \E i \in 1 .. Len(stack) : stack[i].w.kind = "connect"
KeylessBelow == \A i \in 1 .. Len(stack) : i # 1 => Keyless(stack[i].todo)

HeartInv == Beats /\ Unkeyed /\ Waited /\ KeylessBelow

\* No callback of a plan sets a key.
KeylessCallbacks == \A p \in Plans : Keyless(p.callback)

LEMMA KeylessTail ==
    ASSUME NEW s \in Seq(Ops), s # <<>>, Keyless(s)
    PROVE  Keyless(Tail(s)) /\ Head(s) # "key"
<1>1. /\ Head(s) = s[1] /\ Len(Tail(s)) = Len(s) - 1 /\ Len(s) \in Nat \ {0}
      /\ \A j \in 1 .. Len(Tail(s)) : Tail(s)[j] = s[j + 1]
  BY SeqTail
<1>2. \A j \in 1 .. Len(Tail(s)) : j + 1 \in 1 .. Len(s)  BY <1>1
<1> QED  BY <1>1, <1>2 DEF Keyless

LEMMA AllAreTail ==
    ASSUME NEW s \in Controls, s # <<>>, NEW x, AllAre(s, x)
    PROVE  AllAre(Tail(s), x) /\ Head(s) = x
<1>0. s \in Seq(Orders)  BY DEF Controls
<1>1. /\ Head(s) = s[1] /\ Len(Tail(s)) = Len(s) - 1 /\ Len(s) \in Nat \ {0}
      /\ \A j \in 1 .. Len(Tail(s)) : Tail(s)[j] = s[j + 1]
  BY <1>0, SeqTail
<1>2. \A j \in 1 .. Len(Tail(s)) : j + 1 \in 1 .. Len(s)  BY <1>1
<1> QED  BY <1>1, <1>2 DEF AllAre

LEMMA AllArePosted ==
    ASSUME NEW s \in Controls, NEW x \in Orders, AllAre(s, x)
    PROVE  AllAre(Posted(s, x), x)
<1>0. s \in Seq(Orders)  BY DEF Controls
<1>1. CASE Posted(s, x) = s  BY <1>1
<1>2. CASE Posted(s, x) = Append(s, x)
  <2>1. /\ Len(Append(s, x)) = Len(s) + 1 /\ Append(s, x)[Len(s) + 1] = x
        /\ \A j \in 1 .. Len(s) : Append(s, x)[j] = s[j]
    BY <1>0, SeqAppend
  <2>2. Len(s) \in Nat  BY <1>0
  <2>3. \A j \in 1 .. (Len(s) + 1) : j \in 1 .. Len(s) \/ j = Len(s) + 1  BY <2>2
  <2> QED  BY <1>2, <2>1, <2>3 DEF AllAre
<1> QED  BY <1>1, <1>2 DEF Posted

LEMMA SameBeatObeys ==
    ASSUME NEW h, NEW k, NEW n, Obeys(h, k),
           n.closed = k.closed, n.ctx = k.ctx, n.hb = k.hb, n.ctl = k.ctl, n.key = k.key,
           n.empty = k.empty, n.bare = k.bare
    PROVE  Obeys(h, n)
BY DEF Obeys

\* Closing, by either side.
LEMMA ClosedObeys ==
    ASSUME NEW k \in Connections, NEW n \in Connections, NEW h, Obeys(h, k),
           SameBut(k, n), n.closed
    PROVE  Obeys(h, n)
<1>1. k.ctl \in Controls  BY ConnectionFields
<1>2. AllAre(k.ctl, "stop") => AllAre(n.ctl, "stop")
  BY <1>1, AllArePosted, OrdersIn DEF SameBut
<1> QED  BY <1>2 DEF Obeys, SameBut

\* The pump: it carries out an order, ends, or beats.
LEMMA PumpObeys ==
    ASSUME NetTypes, NEW c \in Conns, NEW h, Obeys(h, conns[c]),
           PumpControl(c) \/ PumpExit(c) \/ PumpBeat(c)
    PROVE  Obeys(h, conns'[c])
<1>0. conns[c] \in Connections /\ conns[c].ctl \in Controls  BY IndexIs, ConnectionFields
<1>1. CASE PumpControl(c)
  <2>1. /\ conns'[c].closed = conns[c].closed /\ conns'[c].ctx = conns[c].ctx
        /\ conns'[c].hb = (Head(conns[c].ctl) = "heartbeat")
        /\ conns[c].ctl # <<>> /\ conns'[c].ctl = Tail(conns[c].ctl)
        /\ conns'[c].key = conns[c].key /\ conns'[c].empty = conns[c].empty
        /\ conns'[c].bare = conns[c].bare
    BY <1>1, PumpControlEffect DEF SameLife
  <2>2. \A x : AllAre(conns[c].ctl, x) => AllAre(conns'[c].ctl, x) /\ Head(conns[c].ctl) = x
    BY <1>0, <2>1, AllAreTail
  <2>3. AllAre(conns[c].ctl, "stop") => ~ conns'[c].hb  BY <2>1, <2>2
  <2> QED  BY <2>1, <2>2, <2>3 DEF Obeys
<1>2. CASE PumpExit(c)
  <2>1. /\ conns'[c].closed = conns[c].closed /\ conns[c].ctx /\ ~ conns'[c].hb
        /\ conns'[c].ctl = conns[c].ctl /\ conns'[c].key = conns[c].key
        /\ conns'[c].empty = conns[c].empty /\ conns'[c].bare = conns[c].bare
    BY <1>2, PumpExitEffect DEF SameLife
  <2> QED  BY <2>1 DEF Obeys
<1>3. CASE PumpBeat(c)
  <2>1. /\ conns'[c].closed = conns[c].closed /\ conns'[c].ctx = conns[c].ctx
        /\ conns[c].hb /\ conns'[c].hb /\ conns'[c].ctl = conns[c].ctl
        /\ conns'[c].key = conns[c].key /\ conns'[c].empty = conns[c].empty
        /\ conns'[c].bare = (conns[c].bare \/ ~ conns[c].key)
    BY <1>3, PumpBeatEffect DEF SameLife
  <2>2. h = "keyed" => conns[c].key \/ conns[c].empty  BY <2>1 DEF Obeys
  <2>3. h = "keyed" /\ conns'[c].bare => conns'[c].empty
    <3>1. CASE conns[c].bare  BY <2>1, <3>1 DEF Obeys
    <3>2. CASE ~ conns[c].bare  BY <2>1, <2>2, <3>2
    <3> QED  BY <3>1, <3>2
  <2> QED  BY <2>1, <2>2, <2>3 DEF Obeys
<1> QED  BY <1>1, <1>2, <1>3

\* A heartbeat is ordered at once only where none needs a key.
LEMMA OrderedObeys ==
    ASSUME NEW k \in Connections, NEW n, NEW h, h # "keyed", Obeys(h, k), Ordered(k, n)
    PROVE  Obeys(h, n) /\ (n.ctl # <<>> \/ ~ Live(n))
<1>0. k.ctl \in Controls /\ k.pump \in {"off", "run", "done"}  BY ConnectionFields
<1>1. AllAre(k.ctl, "heartbeat") => AllAre(Posted(k.ctl, "heartbeat"), "heartbeat")
  BY <1>0, AllArePosted, OrdersIn
<1>2. n.ctx = k.ctx /\ n.closed = k.closed /\ n.pump = k.pump  BY DEF Ordered, SameLife
<1>3. CASE k.closed \/ k.pump = "off"
  <2>1. n.ctl = k.ctl  BY <1>3 DEF Ordered
  <2> QED  BY <1>2, <1>3, <2>1 DEF Obeys, Live
<1>4. CASE ~ (k.closed \/ k.pump = "off")
  <2>1. n.ctl = Posted(k.ctl, "heartbeat")  BY <1>4 DEF Ordered
  <2>2. n.ctl # <<>>  BY <1>0, <2>1, PostedStays, OrdersIn
  <2>3. ~ n.closed => AllAre(n.ctl, "heartbeat")  BY <1>1, <1>2, <2>1 DEF Obeys
  <2>4. n.ctx => n.closed  BY <1>2 DEF Obeys
  <2> QED  BY <2>2, <2>3, <2>4 DEF Obeys
<1> QED  BY <1>3, <1>4

\* A key, or an empty one, and the heartbeat that waited for it.
LEMMA CallSetKeyObeys ==
    ASSUME TypeInv, NEW op \in {"key", "emptykey"}, CallSetKey(op), cur # 0, NEW h,
           Obeys(h, conns[cur])
    PROVE  /\ Obeys(h, conns'[cur])
           /\ Beating(conns[cur]) => Beating(conns'[cur])
           /\ pending /\ Live(conns[cur]) => Beating(conns'[cur])
           /\ op # "key" => conns'[cur].key = conns[cur].key
<1>0. conns[cur] \in Connections /\ conns[cur].ctl \in Controls /\ conns[cur].key \in BOOLEAN
      /\ conns[cur].empty \in BOOLEAN
  BY IndexIs, ConnectionFields DEF TypeInv
<1>1. /\ SameLife(conns[cur], conns'[cur])
      /\ conns'[cur].ctx = conns[cur].ctx
      /\ conns'[cur].hb = conns[cur].hb /\ conns'[cur].bare = conns[cur].bare
      /\ conns'[cur].empty = (conns[cur].empty \/ op = "emptykey")
      /\ conns'[cur].key = (conns[cur].key \/ (~ conns[cur].closed /\ op = "key"))
      /\ conns'[cur].ctl =
           IF pending /\ ~ cancelled /\ ~ conns[cur].closed /\ conns[cur].pump # "off"
           THEN Posted(conns[cur].ctl, "heartbeat") ELSE conns[cur].ctl
  BY CallSetKeyEffect DEF TypeInv
<1>2. conns'[cur].closed = conns[cur].closed  BY <1>1 DEF SameLife
<1>3. ~ cancelled  BY DEF CallSetKey, Calls
<1>4. AllAre(conns[cur].ctl, "heartbeat") => AllAre(Posted(conns[cur].ctl, "heartbeat"), "heartbeat")
  BY <1>0, AllArePosted, OrdersIn
<1>5. Posted(conns[cur].ctl, "heartbeat") # <<>>  BY <1>0, PostedStays, OrdersIn
<1>6. ~ conns'[cur].closed => AllAre(conns'[cur].ctl, "heartbeat")
  BY <1>1, <1>2, <1>4 DEF Obeys
<1>7. ~ conns'[cur].key /\ ~ conns'[cur].empty =>
        conns[cur].closed /\ ~ conns[cur].key /\ ~ conns[cur].empty /\ conns'[cur].ctl = conns[cur].ctl
  <2>1. op = "key" \/ op = "emptykey"  OBVIOUS
  <2>2. CASE op = "emptykey"
    <3>1. conns'[cur].empty  BY <1>1, <2>2
    <3> QED  BY <3>1
  <2>3. CASE op = "key" /\ ~ conns[cur].closed
    <3>1. conns'[cur].key  BY <1>1, <2>3
    <3> QED  BY <3>1
  <2>4. CASE op = "key" /\ conns[cur].closed
    <3>1. conns'[cur].ctl = conns[cur].ctl  BY <1>1, <2>4
    <3>2. conns[cur].key => conns'[cur].key  BY <1>1
    <3>3. conns[cur].empty => conns'[cur].empty  BY <1>1
    <3> QED  BY <2>4, <3>1, <3>2, <3>3
  <2> QED  BY <2>1, <2>2, <2>3, <2>4
<1>8. conns[cur].empty => conns'[cur].empty  BY <1>1
<1>9. Obeys(h, conns'[cur])  BY <1>1, <1>2, <1>6, <1>7, <1>8 DEF Obeys
<1>10. Beating(conns[cur]) => Beating(conns'[cur])
  <2>1. CASE conns'[cur].ctl = conns[cur].ctl  BY <1>1, <2>1 DEF Beating
  <2>2. CASE conns'[cur].ctl = Posted(conns[cur].ctl, "heartbeat")  BY <1>5, <2>2 DEF Beating
  <2> QED  BY <1>1, <2>1, <2>2
<1>11. pending /\ Live(conns[cur]) => Beating(conns'[cur])
  BY <1>1, <1>3, <1>5 DEF Live, Beating
<1>12. op # "key" => conns'[cur].key = conns[cur].key  BY <1>0, <1>1
<1> QED  BY <1>9, <1>10, <1>11, <1>12

\* A connection changes and its heartbeat is not the worse for it.
KeepsBeat(c) ==
    /\ Changes(c) /\ Obeys(plan.heartbeat, conns'[c]) /\ conns'[c].key = conns[c].key
    /\ Live(conns'[c]) => Live(conns[c]) /\ (Beating(conns[c]) => Beating(conns'[c]))

\* The steps that neither set a key nor make, open or register a connection.
Ordinary ==
    /\ UNCHANGED <<plan, pending>> /\ cur' \in {cur, 0} /\ (cancelled => cancelled')
    /\ UNCHANGED conns \/ \E c \in Conns : KeepsBeat(c)
    /\ job.pt \in Settling => job'.pt \in Settling \/ cur' = 0
    /\ job'.pt \in Settling => job.pt \in Settling /\ job'.conn = job.conn

LEMMA ObeysAll ==
    ASSUME Beats, UNCHANGED plan, NEW c, Changes(c), Obeys(plan.heartbeat, conns'[c])
    PROVE  \A d \in 1 .. Len(conns') : Obeys(plan'.heartbeat, conns'[d])
BY DEF Beats, Changes

LEMMA OrdinaryBeats ==
    ASSUME TypeInv, Beats, Unkeyed, Ordinary
    PROVE  Beats' /\ Unkeyed'
<1>0. NetTypes /\ JobTypes /\ Conns = 1 .. Len(conns)  BY IndexIs DEF TypeInv
<1>1. UNCHANGED <<plan, pending>> /\ cur' \in {cur, 0} /\ (cancelled => cancelled')
  BY DEF Ordinary
<1>2. \A c \in 1 .. Len(conns') : Obeys(plan'.heartbeat, conns'[c])
  <2>1. CASE UNCHANGED conns  BY <1>1, <2>1 DEF Beats
  <2>2. ASSUME NEW c \in Conns, KeepsBeat(c)
        PROVE  \A d \in 1 .. Len(conns') : Obeys(plan'.heartbeat, conns'[d])
    BY <1>1, <2>2, ObeysAll DEF KeepsBeat
  <2> QED  BY <2>1, <2>2 DEF Ordinary
<1>3. Unkeyed'
  <2>1. SUFFICES ASSUME job'.pt \in Settling PROVE ~ conns'[job'.conn].key  BY DEF Unkeyed
  <2>2. PICK j : j = job.conn /\ job'.conn = j /\ job.pt \in Settling
    BY <2>1 DEF Ordinary
  <2>3. ~ conns[j].key /\ j \in 1 .. Len(conns)
    BY <1>0, <2>2, JobIndex DEF Unkeyed, Settling, Dialing
  <2>4. CASE UNCHANGED conns  BY <2>2, <2>3, <2>4
  <2>5. ASSUME NEW c \in Conns, KeepsBeat(c) PROVE ~ conns'[j].key
    <3>1. CASE j = c  BY <2>3, <2>5, <3>1 DEF KeepsBeat
    <3>2. CASE j # c  BY <2>3, <2>5, <3>2 DEF KeepsBeat, Changes
    <3> QED  BY <3>1, <3>2
  <2> QED  BY <2>2, <2>4, <2>5 DEF Ordinary
<1>4. Installed'
  <2>1. SUFFICES ASSUME cur' # 0, Live(conns'[cur']), ~ cancelled', job'.pt \notin Settling
                 PROVE  Installed'
    BY DEF Installed
  <2>2. cur' = cur /\ cur # 0 /\ cur \in 1 .. Len(conns) /\ ~ cancelled /\ job.pt \notin Settling
    <3>1. cur' = cur /\ cur # 0  BY <1>1, <2>1
    <3>2. cur \in 1 .. Len(conns)  BY <1>0, <3>1, IndexIs
    <3>3. job.pt \notin Settling  BY <2>1 DEF Ordinary
    <3> QED  BY <1>1, <2>1, <3>1, <3>2, <3>3
  <2>3. /\ Live(conns[cur]) /\ (Beating(conns[cur]) => Beating(conns'[cur]))
        /\ conns'[cur].key = conns[cur].key
    <3>1. CASE UNCHANGED conns  BY <2>1, <2>2, <3>1
    <3>2. ASSUME NEW c \in Conns, KeepsBeat(c)
          PROVE  /\ Live(conns[cur]) /\ (Beating(conns[cur]) => Beating(conns'[cur]))
                 /\ conns'[cur].key = conns[cur].key
      <4>1. CASE cur = c  BY <2>1, <2>2, <3>2, <4>1 DEF KeepsBeat
      <4>2. CASE cur # c
        <5>1. conns'[cur] = conns[cur]  BY <2>2, <3>2, <4>2 DEF KeepsBeat, Changes
        <5> QED  BY <2>1, <2>2, <5>1
      <4> QED  BY <4>1, <4>2
    <3> QED  BY <3>1, <3>2 DEF Ordinary
  <2> QED  BY <1>1, <2>2, <2>3 DEF Beats, Installed
<1> QED  BY <1>2, <1>3, <1>4 DEF Beats

\* What leaves a heartbeat alone, or closes its connection, keeps it.
LEMMA SameKeepsBeat ==
    ASSUME Beats, NEW c, Changes(c), SameBeat(conns[c], conns'[c])
    PROVE  KeepsBeat(c)
<1>1. Obeys(plan.heartbeat, conns[c])  BY DEF Beats, Changes
<1>2. Obeys(plan.heartbeat, conns'[c])  BY <1>1, SameBeatObeys DEF SameBeat
<1> QED  BY <1>2 DEF KeepsBeat, SameBeat, Live, Beating

LEMMA ClosedKeepsBeat ==
    ASSUME NetTypes, Beats, NEW c, Changes(c), SameBut(conns[c], conns'[c]), conns'[c].closed
    PROVE  KeepsBeat(c)
<1>1. Obeys(plan.heartbeat, conns[c])  BY DEF Beats, Changes
<1>2. conns[c] \in Connections /\ conns'[c] \in Connections
  BY DEF Changes, NetTypes
<1>3. Obeys(plan.heartbeat, conns'[c])  BY <1>1, <1>2, ClosedObeys
<1> QED  BY <1>3 DEF KeepsBeat, SameBut, Live

LEMMA PumpKeepsBeat ==
    ASSUME NetTypes, Beats, NEW c \in Conns, PumpControl(c) \/ PumpExit(c) \/ PumpBeat(c)
    PROVE  KeepsBeat(c)
<1>0. Changes(c)  BY PumpControlEffect, PumpExitEffect, PumpBeatEffect
<1>1. Obeys(plan.heartbeat, conns[c])  BY <1>0 DEF Beats, Changes
<1>2. Obeys(plan.heartbeat, conns'[c])  BY <1>1, PumpObeys
<1>3. CASE PumpControl(c)
  <2>1. /\ conns'[c].closed = conns[c].closed /\ conns'[c].pump = conns[c].pump
        /\ conns'[c].hb = (Head(conns[c].ctl) = "heartbeat") /\ conns[c].ctl # <<>>
        /\ conns'[c].key = conns[c].key
    BY <1>3, PumpControlEffect DEF SameLife
  <2>2. conns[c].ctl \in Controls  BY IndexIs, ConnectionFields
  <2>3. ~ conns[c].closed => conns'[c].hb  BY <1>1, <2>1, <2>2, AllAreTail DEF Obeys
  <2> QED  BY <1>0, <1>2, <2>1, <2>3 DEF KeepsBeat, Live, Beating
<1>4. CASE PumpExit(c)
  <2>1. conns'[c].pump = "done" /\ conns'[c].key = conns[c].key  BY <1>4, PumpExitEffect
  <2> QED  BY <1>0, <1>2, <2>1 DEF KeepsBeat, Live
<1>5. CASE PumpBeat(c)
  <2>1. /\ conns'[c].closed = conns[c].closed /\ conns'[c].pump = conns[c].pump
        /\ conns'[c].hb /\ conns'[c].key = conns[c].key
    BY <1>5, PumpBeatEffect DEF SameLife
  <2> QED  BY <1>0, <1>2, <2>1 DEF KeepsBeat, Live, Beating
<1> QED  BY <1>3, <1>4, <1>5

\* The job as it is: nothing begins or ends to settle.
LEMMA OrdinarySteps ==
    ASSUME UNCHANGED <<plan, pending, job>>, cur' \in {cur, 0}, cancelled => cancelled',
           UNCHANGED conns \/ \E c \in Conns : KeepsBeat(c)
    PROVE  Ordinary
BY DEF Ordinary

LEMMA NetworkOrdinary ==
    ASSUME TypeInv, Beats, NEW c \in Conns,
           \/ \E r \in DOMAIN reqs : ServerAnswers(c, r)
           \/ ServerPushes(c) \/ GnetOnClose(c) \/ PumpFrame(c) \/ PumpControl(c)
           \/ PumpExit(c) \/ PumpBeat(c) \/ Publish(c)
    PROVE  Ordinary
<1>0. NetTypes  BY DEF TypeInv
<1>1. UNCHANGED <<plan, pending, job, cur>> /\ (cancelled => cancelled')
  <2>1. CASE Publish(c)
    <3>1. cancelled => cancelled'  BY <2>1, DeliversCancels DEF Publish
    <3> QED  BY <2>1, <3>1 DEF Publish
  <2>2. ASSUME NEW r \in DOMAIN reqs, ServerAnswers(c, r)
        PROVE  UNCHANGED <<plan, pending, job, cur>> /\ (cancelled => cancelled')
    BY <2>2 DEF ServerAnswers
  <2>3. CASE \/ ServerPushes(c) \/ GnetOnClose(c) \/ PumpFrame(c) \/ PumpControl(c)
             \/ PumpExit(c) \/ PumpBeat(c)
    BY <2>3 DEF ServerPushes, GnetOnClose, PumpFrame, PumpControl, PumpExit, PumpBeat
  <2> QED  BY <2>1, <2>2, <2>3
<1>2. CASE Changes(c) /\ SameBeat(conns[c], conns'[c])
  BY <1>1, <1>2, SameKeepsBeat, OrdinarySteps
<1>3. ASSUME NEW r \in DOMAIN reqs, ServerAnswers(c, r) PROVE Ordinary
  BY <1>0, <1>2, <1>3, ServerAnswersEffect
<1>4. CASE ServerPushes(c)  BY <1>2, <1>4, ServerPushesEffect
<1>5. CASE GnetOnClose(c)
  <2>1. Changes(c) /\ conns'[c] = OnClose(conns[c])  BY <1>0, <1>5, GnetOnCloseEffect
  <2>2. SameBut(conns[c], conns'[c]) /\ conns'[c].closed  BY <1>0, <2>1, IndexIs, OnCloseIs
  <2>3. KeepsBeat(c)  BY <1>0, <2>1, <2>2, ClosedKeepsBeat
  <2> QED  BY <1>1, <2>3, OrdinarySteps
<1>6. CASE PumpFrame(c)  BY <1>0, <1>2, <1>6, PumpFrameEffect
<1>7. CASE PumpControl(c) \/ PumpExit(c) \/ PumpBeat(c)
  BY <1>0, <1>1, <1>7, PumpKeepsBeat, OrdinarySteps
<1>8. CASE Publish(c)  BY <1>0, <1>2, <1>8, PublishEffect
<1> QED  BY <1>3, <1>4, <1>5, <1>6, <1>7, <1>8

LEMMA CallsOrdinary ==
    ASSUME TypeInv, Beats,
           \/ CallListenOn \/ CallClose \/ CallRequest \/ CallSleep \/ CallListen
           \/ RequestEnds \/ ListenLooks \/ ListenWoken \/ CloseAll
    PROVE  Ordinary
<1>0. NetTypes /\ OwnerTypes  BY DEF TypeInv
<1>1. UNCHANGED <<plan, pending, job, cancelled>>
  BY DEF CallListenOn, CallClose, CallRequest, CallSleep, CallListen, RequestEnds, RequestAnswered,
         RequestGivenUp, ListenLooks, ListenWoken, CloseAll
<1>2. cur' \in {cur, 0}
  BY DEF CallListenOn, CallClose, CallRequest, CallSleep, CallListen, RequestEnds, RequestAnswered,
         RequestGivenUp, ListenLooks, ListenWoken, CloseAll
<1>3. ASSUME NEW c \in Conns, Changes(c), SameBeat(conns[c], conns'[c]) PROVE Ordinary
  BY <1>1, <1>2, <1>3, SameKeepsBeat, OrdinarySteps
<1>4. CASE UNCHANGED conns  BY <1>1, <1>2, <1>4, OrdinarySteps
<1>5. CASE CallListenOn
  BY <1>0, <1>3, <1>4, <1>5, CallListenOnEffect, IndexIs DEF SameParts
<1>6. CASE CallClose \/ CloseAll
  <2>1. CASE cur # 0 /\ Changes(cur) /\ Closes(conns[cur], conns'[cur])
    <3>1. KeepsBeat(cur)  BY <1>0, <2>1, ClosedKeepsBeat DEF Closes
    <3>2. cur \in Conns  BY <1>0, <2>1, IndexIs
    <3> QED  BY <1>1, <1>2, <3>1, <3>2, OrdinarySteps
  <2> QED  BY <1>0, <1>4, <1>6, <2>1, CallCloseEffect, CloseAllEffect
<1>7. CASE CallRequest
  <2>1. CASE UNCHANGED conns  BY <1>4, <2>1
  <2>2. ASSUME NEW sent \in BOOLEAN, cur # 0, SendRequest(sent) PROVE Ordinary
    BY <1>0, <1>3, <2>2, SendRequestEffect, IndexIs DEF SameButResp
  <2> QED  BY <1>7, <2>1, <2>2 DEF CallRequest
<1>8. CASE CallSleep \/ CallListen  BY <1>4, <1>8 DEF CallSleep, CallListen
<1>9. CASE RequestEnds
  <2>1. PICK r \in 1 .. Len(reqs) : r = Me.w.id  BY <1>9, RequestEndsIs
  <2>2. PICK answer \in Nat : CloseRequest(r, answer)  BY <1>9, <2>1, RequestEndsIs
  <2>3. PICK c : c = reqs[r].conn  OBVIOUS
  <2>4. Changes(c) /\ SameBeat(conns[c], conns'[c])
    BY <1>0, <2>2, <2>3, CloseRequestEffect DEF SameButResp
  <2>5. c \in Conns  BY <1>0, <2>4, IndexIs DEF Changes
  <2> QED  BY <1>3, <2>4, <2>5
<1>10. CASE ListenLooks
  BY <1>0, <1>3, <1>4, <1>10, ListenLooksEffect, IndexIs DEF SameButQueue
<1>11. CASE ListenWoken
  <2>1. PICK c : c = Me.w.id  OBVIOUS
  <2>2. Changes(c) /\ SameBeat(conns[c], conns'[c])
    BY <1>0, <1>11, <2>1, ListenWokenEffect DEF SameButQueue
  <2>3. c \in Conns  BY <1>0, <2>2, IndexIs DEF Changes
  <2> QED  BY <1>3, <2>2, <2>3
<1> QED  BY <1>5, <1>6, <1>7, <1>8, <1>9, <1>10, <1>11

\* The steps that touch no connection.
LEMMA RestOrdinary ==
    ASSUME TypeInv, \/ CallConnect \/ ConnectReturns \/ CloseReturns \/ ListenDeadline \/ WaitEnds
                    \/ RunTask \/ StartScript \/ EndScript \/ AbortScript \/ EndExecutor
                    \/ CleanupStarts \/ CleanupDone \/ CleanupTimesOut \/ UNCHANGED vars
    PROVE  Ordinary
<1>1. UNCHANGED <<plan, pending, conns, cur>> /\ (cancelled => cancelled')
  BY DEF CallConnect, ConnectReturns, CloseReturns, ListenDeadline, WaitEnds, RunTask, StartScript,
         EndScript, AbortScript, EndExecutor, CleanupStarts, CleanupDone, CleanupTimesOut, vars
<1>2. CASE UNCHANGED job  BY <1>1, <1>2, OrdinarySteps
<1>3. CASE CallConnect
  <2>1. job.pt = "none" /\ job'.pt = "place"  BY <1>3 DEF CallConnect, None
  <2> QED  BY <1>1, <2>1 DEF Ordinary, Settling
<1>4. CASE ConnectReturns
  <2>1. job.pt \in {"done", "failed"} /\ job'.pt = "none"  BY <1>4 DEF ConnectReturns, None
  <2> QED  BY <1>1, <2>1 DEF Ordinary, Settling
<1> QED
  BY <1>2, <1>3, <1>4
     DEF CloseReturns, ListenDeadline, WaitEnds, RunTask, StartScript, EndScript, AbortScript,
         EndExecutor, CleanupStarts, CleanupDone, CleanupTimesOut, vars

\* The dial job, but for the steps that make, open and register a connection.
Opens == JobDial /\ job'.pt = "opened"
LEMMA DialingOrdinary ==
    ASSUME TypeInv, Beats, (JobDial /\ ~ Opens) \/ JobOpened \/ JobOnClosed \/ JobOnDisconnect
    PROVE  Ordinary
<1>0. NetTypes /\ JobTypes  BY DEF TypeInv
<1>1. job.pt \in Dialing  BY DEF JobDial, JobOpened, JobOnClosed, JobOnDisconnect, Dialing
<1>2. PICK c \in Conns : c = job.conn  BY <1>0, <1>1, JobIndex
<1>3. UNCHANGED <<plan, pending>>  BY DEF JobDial, JobOpened, JobOnClosed, JobOnDisconnect
<1>4. CASE (JobDial /\ ~ Opens) \/ JobOpened
  <2>0. UNCHANGED cancelled  BY <1>4 DEF JobDial, JobOpened
  <2>1. CASE /\ cur' = 0 /\ job' = [job EXCEPT !.pt = "failed"] /\ Changes(c)
             /\ \/ SameParts(conns[c], conns'[c])
                \/ Closes(conns[c], conns'[c])
    <3>1. KeepsBeat(c)
      BY <1>0, <2>1, SameKeepsBeat, ClosedKeepsBeat DEF SameParts, Closes
    <3>2. job'.pt = "failed"  BY <1>0, <2>1, JobNext
    <3> QED  BY <1>3, <2>0, <2>1, <3>1, <3>2 DEF Ordinary, Settling
  <2>2. CASE JobDial /\ ~ Opens
    <3>1. job' # [job EXCEPT !.pt = "opened"]  BY <1>0, <2>2, JobNext DEF Opens
    <3> QED  BY <1>0, <1>2, <2>1, <2>2, <3>1, JobDialEffect
  <2>3. CASE /\ JobOpened /\ UNCHANGED cur /\ job' = [job EXCEPT !.pt = "heartbeat"] /\ Changes(c)
             /\ SameBeat(conns[c], conns'[c])
    <3>1. KeepsBeat(c)  BY <2>3, SameKeepsBeat
    <3>2. job'.pt = "heartbeat" /\ job'.conn = job.conn /\ job.pt = "opened"
      BY <1>0, <2>3, JobNext DEF JobOpened
    <3> QED  BY <1>3, <2>0, <2>3, <3>1, <3>2 DEF Ordinary, Settling
  <2>4. CASE JobOpened  BY <1>0, <1>2, <2>1, <2>3, <2>4, JobOpenedEffect
  <2> QED  BY <1>4, <2>2, <2>4
<1>5. CASE JobOnClosed \/ JobOnDisconnect
  <2>1. Changes(c) /\ SameBeat(conns[c], conns'[c])
    BY <1>0, <1>2, <1>5, JobOnClosedEffect, JobOnDisconnectEffect
  <2>2. KeepsBeat(c)  BY <2>1, SameKeepsBeat
  <2>3. cancelled => cancelled'  BY <1>5, DeliversCancels DEF JobOnClosed, JobOnDisconnect
  <2>4. job.pt \notin Settling /\ job'.pt \notin Settling
    BY <1>0, <1>5, JobNext DEF JobOnClosed, JobOnDisconnect, Settling
  <2>5. UNCHANGED cur  BY <1>5 DEF JobOnClosed, JobOnDisconnect
  <2> QED  BY <1>3, <2>2, <2>3, <2>4, <2>5 DEF Ordinary
<1> QED  BY <1>4, <1>5

\* A new connection, and the end of its dial: nothing is due before the job has
\* registered the heartbeat.
LEMMA OpensBeats ==
    ASSUME TypeInv, Beats, Unkeyed, JobPlace \/ Opens
    PROVE  Beats' /\ Unkeyed'
<1>0. NetTypes /\ JobTypes  BY DEF TypeInv
<1>1. UNCHANGED plan  BY DEF JobPlace, JobDial, Opens
<1>2. CASE JobPlace
  <2>1. UNCHANGED <<pending, cancelled>> /\ job.pt = "place"  BY <1>2 DEF JobPlace
  <2>2. CASE UNCHANGED <<conns, cur>> /\ job' = [job EXCEPT !.pt = "done"]
    <3>1. job'.pt = "done"  BY <1>0, <2>2, JobNext
    <3>2. Ordinary  BY <1>1, <2>1, <2>2, <3>1 DEF Ordinary, Settling
    <3> QED  BY <3>2, OrdinaryBeats
  <2>3. CASE /\ job' = [pt |-> "dial", conn |-> Len(conns) + 1]
             /\ Len(conns') = Len(conns) + 1 /\ conns'[Len(conns) + 1] = NewConnection
             /\ \A c \in 1 .. Len(conns) : conns'[c] = conns[c]
    <3>1. Len(conns) \in Nat  BY <1>0 DEF NetTypes
    <3>2. job'.pt = "dial" /\ job'.conn = Len(conns) + 1  BY <2>3
    <3>3. Obeys(plan.heartbeat, NewConnection) /\ ~ NewConnection.key
      BY DEF NewConnection, Obeys, AllAre
    <3>4. \A c \in 1 .. Len(conns') : c \in 1 .. Len(conns) \/ c = Len(conns) + 1  BY <2>3, <3>1
    <3>5. \A c \in 1 .. Len(conns') : Obeys(plan'.heartbeat, conns'[c])
      BY <1>1, <2>3, <3>3, <3>4 DEF Beats
    <3> QED  BY <2>3, <3>2, <3>3, <3>5 DEF Beats, Unkeyed, Installed, Settling
  <2> QED  BY <1>0, <1>2, <2>2, <2>3, JobPlaceEffect
<1>3. CASE Opens
  <2>1. PICK c \in Conns : c = job.conn
    BY <1>0, <1>3, JobIndex DEF Opens, JobDial, Dialing
  <2>2. job'.pt = "opened" /\ job' # [job EXCEPT !.pt = "failed"]
    BY <1>0, <1>3, JobNext DEF Opens
  <2>3. /\ Changes(c) /\ job' = [job EXCEPT !.pt = "opened"]
        /\ SameLife(conns[c], conns'[c]) /\ conns'[c].ctx = conns[c].ctx
        /\ conns'[c].hb = conns[c].hb /\ conns'[c].ctl = conns[c].ctl
        /\ conns'[c].key = conns[c].key /\ conns'[c].empty = conns[c].empty
        /\ conns'[c].bare = conns[c].bare
    BY <1>0, <1>3, <2>1, <2>2, JobDialEffect DEF Opens
  <2>4. job'.conn = c  BY <1>0, <2>1, <2>3, JobNext
  <2>5. ~ conns[c].key  BY <1>3, <2>1 DEF Unkeyed, Opens, JobDial, Settling
  <2>6. Obeys(plan.heartbeat, conns[c])  BY <2>3 DEF Beats, Changes
  <2>7. Obeys(plan.heartbeat, conns'[c])  BY <2>3, <2>6, SameBeatObeys DEF SameLife
  <2>8. \A d \in 1 .. Len(conns') : Obeys(plan'.heartbeat, conns'[d])  BY <1>1, <2>3, <2>7, ObeysAll
  <2> QED  BY <2>2, <2>3, <2>4, <2>5, <2>8 DEF Beats, Installed, Unkeyed, Settling
<1> QED  BY <1>2, <1>3

\* RegisterCodecHeartbeat: the order is given, or the heartbeat waits for a key
\* that is not there yet.
LEMMA JobHeartbeatBeats ==
    ASSUME TypeInv, Beats, Unkeyed, JobHeartbeat
    PROVE  Beats' /\ Unkeyed'
<1>0. NetTypes /\ JobTypes  BY DEF TypeInv
<1>1. /\ UNCHANGED <<plan, cur, cancelled>> /\ job.pt = "heartbeat" /\ pending' = (pending \/ Deferred)
      /\ job' = [job EXCEPT !.pt = "onclosed"]
  BY DEF JobHeartbeat
<1>2. job'.pt = "onclosed" /\ Unkeyed'  BY <1>0, <1>1, JobNext DEF Unkeyed, Settling
<1>3. cur \in {0, job.conn}  BY <1>0, <1>1 DEF JobTypes, Dialing
<1>4. cur # 0 => ~ conns[cur].key  BY <1>1, <1>3 DEF Unkeyed, Settling
<1>5. CASE /\ UNCHANGED conns /\ (plan.heartbeat = "none" \/ Deferred \/ cancelled \/ cur = 0)
  <2>1. Deferred <=> plan.heartbeat = "keyed"  BY DEF Deferred
  <2>2. Deferred => pending'  BY <1>1
  <2>3. Installed'  BY <1>1, <1>4, <1>5, <2>1, <2>2 DEF Installed
  <2> QED  BY <1>1, <1>2, <1>5, <2>3 DEF Beats
<1>6. CASE cur # 0 /\ Changes(cur) /\ Ordered(conns[cur], conns'[cur]) /\ ~ Deferred
  <2>1. plan.heartbeat # "keyed"  BY <1>6 DEF Deferred
  <2>2. Obeys(plan.heartbeat, conns[cur]) /\ conns[cur] \in Connections
    BY <1>0, <1>6, IndexIs DEF Beats, Changes
  <2>3. Obeys(plan.heartbeat, conns'[cur]) /\ (conns'[cur].ctl # <<>> \/ ~ Live(conns'[cur]))
    BY <1>6, <2>1, <2>2, OrderedObeys
  <2>4. \A d \in 1 .. Len(conns') : Obeys(plan'.heartbeat, conns'[d])
    BY <1>1, <1>6, <2>3, ObeysAll
  <2>5. Installed'  BY <1>1, <2>1, <2>3 DEF Installed, Beating
  <2> QED  BY <1>2, <2>4, <2>5 DEF Beats
<1> QED  BY <1>0, <1>5, <1>6, JobHeartbeatEffect

\* SetTCPSecretKey, not while the job settles unless the key is empty.
LEMMA CallSetKeyBeats ==
    ASSUME TypeInv, Beats, Unkeyed, NEW op \in {"key", "emptykey"}, CallSetKey(op),
           op = "key" => job.pt \notin Settling
    PROVE  Beats' /\ Unkeyed'
<1>0. NetTypes /\ JobTypes  BY DEF TypeInv
<1>1. UNCHANGED <<plan, cur, job, cancelled>>  BY DEF CallSetKey
<1>2. CASE cur = 0
  <2>1. UNCHANGED <<conns, pending>>  BY <1>0, <1>2, CallSetKeyEffect
  <2>2. Ordinary  BY <1>1, <2>1, OrdinarySteps
  <2> QED  BY <2>2, OrdinaryBeats
<1>3. CASE cur # 0
  <2>1. Changes(cur) /\ SameLife(conns[cur], conns'[cur]) /\ conns'[cur].pump = conns[cur].pump
    BY <1>0, <1>3, CallSetKeyEffect
  <2>2. Obeys(plan.heartbeat, conns[cur])  BY <2>1 DEF Beats, Changes
  <2>3. /\ Obeys(plan.heartbeat, conns'[cur])
        /\ Beating(conns[cur]) => Beating(conns'[cur])
        /\ pending /\ Live(conns[cur]) => Beating(conns'[cur])
        /\ op # "key" => conns'[cur].key = conns[cur].key
    BY <1>3, <2>2, CallSetKeyObeys
  <2>4. \A d \in 1 .. Len(conns') : Obeys(plan'.heartbeat, conns'[d])  BY <1>1, <2>1, <2>3, ObeysAll
  <2>5. Live(conns'[cur]) => Live(conns[cur])  BY <2>1 DEF Live, SameLife
  <2>6. Installed'
    <3>1. SUFFICES ASSUME cur' # 0, Live(conns'[cur']), ~ cancelled', job'.pt \notin Settling
                   PROVE  Installed'
      BY DEF Installed
    <3>2. Live(conns[cur]) /\ ~ cancelled /\ job.pt \notin Settling  BY <1>1, <2>5, <3>1
    <3>3. plan.heartbeat \in {"plain", "keyed"} => Beating(conns'[cur])
      BY <1>3, <2>3, <3>2 DEF Beats, Installed
    <3> QED  BY <1>1, <3>3 DEF Installed
  <2>7. Unkeyed'
    <3>1. SUFFICES ASSUME job.pt \in Settling PROVE ~ conns'[job.conn].key  BY <1>1 DEF Unkeyed
    <3>2. PICK j \in 1 .. Len(conns) : j = job.conn
      BY <1>0, <3>1, JobIndex DEF Settling, Dialing
    <3>3. ~ conns[j].key  BY <3>1, <3>2 DEF Unkeyed
    <3>4. CASE j = cur  BY <2>3, <3>1, <3>2, <3>3, <3>4
    <3>5. CASE j # cur  BY <2>1, <3>2, <3>3, <3>5 DEF Changes
    <3> QED  BY <3>4, <3>5
  <2> QED  BY <2>4, <2>6, <2>7 DEF Beats
<1> QED  BY <1>2, <1>3

\* A job is started by a script that waits for it.
LEMMA JobStarts ==
    ASSUME TypeInv, [Next]_vars, ~ CallConnect
    PROVE  job'.pt # "none" => job.pt # "none" /\ ~ ConnectReturns
<1>1. CASE UNCHANGED job /\ ~ ConnectReturns  BY <1>1
<1>2. CASE ConnectReturns  BY <1>2 DEF ConnectReturns, None
<1>3. CASE Job /\ ~ ConnectReturns
  BY <1>3 DEF Job, JobPlace, JobDial, JobOpened, JobHeartbeat, JobOnClosed, JobOnDisconnect
<1>4. ASSUME NEW c \in Conns, NEW r \in DOMAIN reqs, ServerAnswers(c, r) PROVE UNCHANGED job
  BY <1>4 DEF ServerAnswers
<1>5. ASSUME NEW c \in Conns, \/ ServerPushes(c) \/ GnetOnClose(c) \/ PumpFrame(c) \/ PumpControl(c)
                              \/ PumpExit(c) \/ PumpBeat(c) \/ Publish(c)
      PROVE  UNCHANGED job
  BY <1>5 DEF ServerPushes, GnetOnClose, PumpFrame, PumpControl, PumpExit, PumpBeat, Publish
<1>6. ASSUME NEW op, CallSetKey(op) PROVE UNCHANGED job  BY <1>6 DEF CallSetKey
<1>7. ASSUME \/ CallListenOn \/ CallClose \/ CallRequest \/ CallSleep \/ CallListen \/ CloseReturns
             \/ RequestEnds \/ ListenLooks \/ ListenWoken \/ ListenDeadline \/ WaitEnds
             \/ RunTask \/ CleanupStarts \/ CloseAll \/ CleanupDone \/ CleanupTimesOut
             \/ StartScript \/ EndScript \/ AbortScript \/ EndExecutor \/ UNCHANGED vars
      PROVE  UNCHANGED job
  BY <1>7 DEF CallListenOn, CallClose, CallRequest, CallSleep, CallListen, CloseReturns, RequestEnds,
              RequestAnswered, RequestGivenUp, ListenLooks, ListenWoken, ListenDeadline, WaitEnds,
              RunTask, CleanupStarts, CloseAll, CleanupDone, CleanupTimesOut, StartScript, EndScript,
              AbortScript, EndExecutor, vars
<1>8. CASE Next
  BY <1>1, <1>2, <1>3, <1>4, <1>5, <1>6, <1>7, <1>8, Steps DEF Job
<1> QED  BY <1>1, <1>2, <1>7, <1>8

LEMMA QuietStep ==
    ASSUME KeylessCallbacks, TypeInv, StackInv, Waited, KeylessBelow, [Next]_vars
    PROVE  Waited' /\ KeylessBelow'
<1>0. NetTypes /\ OwnerTypes /\ Len(stack) \in Nat  BY DEF TypeInv, OwnerTypes
<1>1. PICK n \in Nat : n = Len(stack)  BY <1>0
<1>2. ASSUME NEW w \in Waits, Rewrites(w)
      PROVE  /\ KeylessBelow' /\ Len(stack') = n /\ n # 0 /\ Me = stack[n] /\ stack'[n].w = w
             /\ \A i \in 1 .. n : i # n => stack'[i] = stack[i]
  <2>1. /\ Len(stack') = n /\ n # 0 /\ Me = stack[n] /\ stack'[n].w = w /\ Me.todo \in Seq(Ops)
        /\ \A i \in 1 .. n : i # n => stack'[i] = stack[i]
        /\ stack'[n].todo = Me.todo \/ (Me.todo # <<>> /\ stack'[n].todo = Tail(Me.todo))
    BY <1>0, <1>1, <1>2, MeIs DEF Rewrites
  <2>2. n # 1 => Keyless(stack'[n].todo)  BY <1>1, <2>1, KeylessTail DEF KeylessBelow
  <2> QED  BY <1>1, <2>1, <2>2 DEF KeylessBelow
<1>3. CASE CallConnect
  <2>1. PICK v : v = Waiting("connect", "select", 0)  OBVIOUS
  <2>2. Rewrites(v) /\ v \in Waits /\ v.kind = "connect"
    BY <1>0, <1>3, <2>1, CallConnectOwner DEF Rewrites, Waiting
  <2>3. KeylessBelow' /\ Len(stack') = n /\ n # 0 /\ stack'[n].w = v  BY <1>2, <2>2
  <2>4. n \in 1 .. Len(stack')  BY <1>1, <2>3
  <2> QED  BY <2>2, <2>3, <2>4 DEF Waited
<1>4. SUFFICES ASSUME ~ CallConnect PROVE Waited' /\ KeylessBelow'  BY <1>3
<1>5. job'.pt # "none" => ~ ConnectReturns /\ \E i \in 1 .. n : stack[i].w.kind = "connect"
  BY <1>1, <1>4, JobStarts DEF Waited
<1>6. CASE UNCHANGED stack  BY <1>1, <1>5, <1>6 DEF Waited, KeylessBelow
<1>7. ASSUME NEW w \in Waits, Goes(w) PROVE Waited' /\ KeylessBelow'
  <2>1. /\ KeylessBelow' /\ Len(stack') = n /\ n # 0 /\ Me = stack[n] /\ stack'[n].w = w
        /\ \A i \in 1 .. n : i # n => stack'[i] = stack[i]
    BY <1>2, <1>7 DEF Goes
  <2>2. Me.w.kind = "connect" => w.kind = "connect" \/ ConnectReturns  BY <1>7 DEF Goes
  <2>3. ASSUME job'.pt # "none" PROVE \E i \in 1 .. n : stack'[i].w.kind = "connect"
    <3>1. PICK i \in 1 .. n : stack[i].w.kind = "connect"  BY <1>5, <2>3
    <3>2. stack'[i].w.kind = "connect"  BY <1>5, <2>1, <2>2, <2>3, <3>1
    <3> QED  BY <3>2
  <2> QED  BY <2>1, <2>3 DEF Waited
<1>8. CASE Enters
  <2>1. PICK under \in Seq(Scripts), todo \in Seq(Ops) :
          /\ Len(under) = n
          /\ \A i \in 1 .. n : under[i].todo = stack[i].todo /\ under[i].w.kind = stack[i].w.kind
          /\ Len(stack') = n + 1 /\ stack'[n + 1].todo = todo
          /\ \A i \in 1 .. n : stack'[i] = under[i]
          /\ stack = <<>> \/ todo = plan.callback
    BY <1>1, <1>8 DEF Enters
  <2>2. \A i \in 1 .. Len(stack') : i \in 1 .. n \/ i = n + 1  BY <2>1
  <2>3. n # 0 => Keyless(todo)
    <3>1. stack = <<>> => n = 0  BY <1>1
    <3>2. plan \in Plans  BY DEF TypeInv, RobotTypes
    <3> QED  BY <2>1, <3>1, <3>2 DEF KeylessCallbacks
  <2>4. KeylessBelow'
    <3>1. ASSUME NEW i \in 1 .. Len(stack'), i # 1 PROVE Keyless(stack'[i].todo)
      <4>1. CASE i \in 1 .. n
        <5>1. stack'[i].todo = stack[i].todo  BY <2>1, <4>1
        <5> QED  BY <1>1, <3>1, <4>1, <5>1 DEF KeylessBelow
      <4>2. CASE i = n + 1
        <5>1. n # 0  BY <3>1, <4>2
        <5> QED  BY <2>1, <2>3, <4>2, <5>1
      <4> QED  BY <2>2, <4>1, <4>2
    <3> QED  BY <3>1 DEF KeylessBelow
  <2>5. ASSUME job'.pt # "none" PROVE \E i \in 1 .. Len(stack') : stack'[i].w.kind = "connect"
    <3>1. PICK i \in 1 .. n : stack[i].w.kind = "connect"  BY <1>5, <2>5
    <3>2. i \in 1 .. Len(stack') /\ stack'[i].w.kind = "connect"  BY <2>1, <3>1
    <3> QED  BY <3>2
  <2> QED  BY <2>4, <2>5 DEF Waited
<1>9. CASE EndScript \/ AbortScript
  <2>1. InScript /\ Running /\ stack' = Below  BY <1>0, <1>9, ScriptEndsOwner
  <2>2. stack' = SubSeq(stack, 1, n - 1) /\ stack \in Seq(Scripts) /\ stack # <<>> /\ n # 0
        /\ stack[n].w.kind = "none"
    BY <1>0, <1>1, <2>1, MeIs, NoWaitIs DEF Below, Running
  <2>3. Len(stack') = n - 1 /\ \A i \in 1 .. (n - 1) : stack'[i] = stack[i]
    BY <1>1, <2>2, SeqFront
  <2>4. \A i \in 1 .. n : i # n <=> i \in 1 .. (n - 1)  BY <1>1
  <2>5. KeylessBelow'  BY <1>1, <2>3, <2>4 DEF KeylessBelow
  <2>6. ASSUME job'.pt # "none" PROVE \E i \in 1 .. Len(stack') : stack'[i].w.kind = "connect"
    <3>1. PICK i \in 1 .. n : stack[i].w.kind = "connect"  BY <1>5, <2>6
    <3>2. i \in 1 .. (n - 1)  BY <2>2, <2>4, <3>1
    <3> QED  BY <2>3, <3>1, <3>2
  <2> QED  BY <2>5, <2>6 DEF Waited
<1> QED  BY <1>6, <1>7, <1>8, <1>9, OwnerSteps DEF owner, CleanupDone

\* The script that sets a key runs, so nobody waits for the job.
LEMMA KeyWhenSettled ==
    ASSUME TypeInv, Waited, KeylessBelow, CallSetKey("key")
    PROVE  job.pt \notin Settling
<1>0. OwnerTypes  BY DEF TypeInv
<1>1. InScript /\ Me.w = NoWait /\ Me.todo # <<>> /\ Head(Me.todo) = "key"
  BY <1>0, CallsIs DEF CallSetKey
<1>2. PICK n \in Nat \ {0} : n = Len(stack)  BY <1>0, <1>1, MeIs
<1>3. Me = stack[n] /\ Me.todo \in Seq(Ops)  BY <1>0, <1>1, <1>2, MeIs
<1>4. ~ Keyless(Me.todo)  BY <1>1, <1>3, KeylessTail
<1>5. n = 1  BY <1>2, <1>3, <1>4 DEF KeylessBelow
<1>6. \A i \in 1 .. n : stack[i].w.kind # "connect"  BY <1>1, <1>3, <1>5, NoWaitIs
<1>7. job.pt = "none"  BY <1>2, <1>6 DEF Waited
<1> QED  BY <1>7 DEF Settling

LEMMA HeartInvStep ==
    ASSUME KeylessCallbacks, TypeInv, StackInv, HeartInv, [Next]_vars
    PROVE  HeartInv'
<1>0. Beats /\ Unkeyed /\ Waited /\ KeylessBelow  BY DEF HeartInv
<1>1. Waited' /\ KeylessBelow'  BY <1>0, QuietStep
<1>2. CASE Ordinary  BY <1>0, <1>1, <1>2, OrdinaryBeats DEF HeartInv
<1>3. CASE UNCHANGED vars  BY <1>2, <1>3, RestOrdinary
<1>4. ASSUME NEW op \in {"key", "emptykey"}, CallSetKey(op) PROVE HeartInv'
  <2>1. op = "key" => job.pt \notin Settling  BY <1>0, <1>4, KeyWhenSettled
  <2> QED  BY <1>0, <1>1, <1>4, <2>1, CallSetKeyBeats DEF HeartInv
<1>5. CASE JobPlace \/ Opens  BY <1>0, <1>1, <1>5, OpensBeats DEF HeartInv
<1>6. CASE JobHeartbeat  BY <1>0, <1>1, <1>6, JobHeartbeatBeats DEF HeartInv
<1>7. CASE JobDial \/ JobOpened \/ JobOnClosed \/ JobOnDisconnect
  BY <1>0, <1>2, <1>5, <1>7, DialingOrdinary
<1>8. CASE Next
  BY <1>0, <1>2, <1>4, <1>5, <1>6, <1>7, <1>8, Steps, NetworkOrdinary, CallsOrdinary, RestOrdinary
<1> QED  BY <1>3, <1>8

\* The owner of a robot is woken, keeps its threads and has the heartbeats of its
\* connections (OwnerIsServed), for plans whose callbacks set no key.  A callback
\* that sets one while a reconnect has not yet registered its heartbeat comes too
\* early: RegisterCodecHeartbeat then waits for a key that is there.
THEOREM ConnectionOwnerIsServed ==
    ASSUME KeylessCallbacks
    PROVE  Spec => []OwnerIsServed
<1>1. ASSUME Init PROVE HeartInv
  <2>1. conns = <<>> /\ cur = 0 /\ job = None /\ stack = <<>>  BY <1>1 DEF Init
  <2>2. job.pt = "none"  BY <2>1 DEF None
  <2>3. Beats  BY <2>1 DEF Beats, Installed
  <2> QED  BY <2>1, <2>2, <2>3 DEF HeartInv, Unkeyed, Waited, KeylessBelow, Settling
<1>2. Spec => []HeartInv
  BY <1>1, HeartInvStep, OwnerInvHolds, PTL DEF Spec
<1>3. ASSUME TypeInv, HeartInv PROVE HeartbeatIsInstalled
  <2>1. NetTypes /\ Conns = 1 .. Len(conns) /\ Beats  BY <1>3, IndexIs DEF TypeInv, HeartInv
  <2>2. ASSUME NEW c \in Conns, c = cur, ~ conns[c].closed, conns[c].pump = "run", job = None,
               ~ cancelled,
               plan.heartbeat = "plain" \/ (plan.heartbeat = "keyed" /\ conns[c].key)
        PROVE  conns[c].hb \/ conns[c].ctl # <<>>
    <3>1. job.pt \notin Settling  BY <2>2 DEF None, Settling
    <3>2. cur # 0 /\ Live(conns[cur])  BY <2>1, <2>2 DEF Live
    <3> QED  BY <2>1, <2>2, <3>1, <3>2 DEF Beats, Installed, Beating
  <2>3. \A c \in Conns : plan.heartbeat = "keyed" /\ conns[c].bare => conns[c].empty
    BY <2>1 DEF Beats, Obeys
  <2> QED  BY <2>2, <2>3 DEF HeartbeatIsInstalled
<1> QED
  BY <1>2, <1>3, OwnerInvHolds, ConnectionTypeOK, ConnectionOwnerIsWoken, PTL DEF OwnerIsServed

-----------------------------------------------------------------------------
=============================================================================
