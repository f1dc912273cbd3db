----------------------- MODULE CommandDeliveryProofs -----------------------
(***************************************************************************)
(* Proofs about CommandDelivery for every set of tasks, every window,      *)
(* every capacity of the log, of the outbox and of the control queue, and  *)
(* any number of commands and broken connections.                          *)
(*                                                                         *)
(* TypeOK is made inductive by three facts.  LogInv: a Start is the only   *)
(* one of its task, a Shutdown has no task and is never rejected, and an   *)
(* ACK is only there for an effect.  WireInv: what is queued, retained or  *)
(* on the stream is about commands of the log and says only what may be    *)
(* told of them; a receipt is only for a settled command.  HostInv: what   *)
(* the executor and the slot hold are Starts, one that is prepared owns    *)
(* the slot, and a slot without its goroutine has a launched task.         *)
(* AckedTookEffect and ShutdownAfterAck follow from them.                  *)
(*                                                                         *)
(* That log and outbox agree needs more: VerdictInv says that a command    *)
(* has one outcome and that every ACK and every entry of the log tells it. *)
(* It holds while no outcome is evicted, that is for an agent that was     *)
(* sent no more commands than the outbox has room for (MaxCommands <=      *)
(* OutboxCapacity; 4096 in agent/command/executor.go): the outbox evicts   *)
(* only when it is full, and a command without an outcome finds the        *)
(* outcomes of at most MaxCommands - 1 others.                             *)
(***************************************************************************)
EXTENDS CommandDelivery, SequenceTheorems, FiniteSetTheorems, WellFoundedInduction, TLAPS

\* Command i is a Start.
IsStart(i) == i \in Created /\ log[i].kind = "start"

\* What may be said of a command: that it was applied, if it took effect, or
\* that it was rejected, if it is not a Shutdown.
Tellable(i, status) ==
    /\ i \in Created
    /\ status = "rejected" => log[i].kind # "shutdown"
    /\ status # "rejected" => effects[i] >= 1

\* A command whose ACK has come in.
Settled == {i \in Created : log[i].state # "pending"}

\* The log: a bounded number of commands, a Shutdown without a task and never
\* rejected, a Start the only one of its task, an ACK only for an effect.
LogInv ==
    /\ Len(log) <= MaxCommands
    /\ \A i \in Created :
         /\ log[i].kind = "shutdown" <=> log[i].task = NoTask
         /\ log[i].kind = "shutdown" => log[i].state # "rejected"
    /\ \A i, j \in Created : IsStart(i) /\ IsStart(j) /\ log[i].task = log[j].task => i = j
    /\ AckedTookEffect
    /\ \A i \in Ids : effects[i] >= 1 => i \in Created

GoodAcks == {a \in Acks : Tellable(a.id, a.status)}
GoodOutcomes == {o \in Outcomes : Tellable(o.id, o.status)}
GoodRequests == {q \in Request : q.id \in Created}

\* What is on its way is about commands of the log.
WireInv ==
    /\ session.batch \in Seq(Created)
    /\ session.control \in Seq(Settled)
    /\ acks \in Seq(GoodAcks)
    /\ outbox \in Seq(GoodOutcomes)
    /\ queue \in Seq(GoodRequests)

\* The agent: a Start is prepared only in the slot and before its run, and a
\* slot whose Start is over has a task that was launched.
HostInv ==
    /\ checked # NoRequest => checked \in Request /\ IsStart(checked.id)
    /\ \A i \in Ids :
         /\ starting[i].at # "no" => IsStart(i)
         /\ starting[i].at = "prepare" => slot = i /\ ~running
         /\ starting[i].at = "launched" => effects[i] >= 1
         /\ deferred[i] # NoRequest => IsStart(i) /\ deferred[i].id = i
    /\ slot # None => /\ IsStart(slot)
                      /\ starting[slot].at = "no" => effects[slot] >= 1
    /\ shutdown # None => shutdown \in Created /\ log[shutdown].kind = "shutdown"

DeliveryInv == TypeOK /\ LogInv /\ WireInv /\ HostInv

\* The outcomes that the agent holds, and the ACKs that tell one of them.
Verdicts == {<<outbox[k].id, outbox[k].status>> : k \in DOMAIN outbox}
KnownAcks == {a \in Acks : <<a.id, a.status>> \in Verdicts}

\* One outcome of a command.
Unique == \A k, l \in DOMAIN outbox : outbox[k].id = outbox[l].id => k = l

\* What the log says of a command is what its outcome says.
LogTells(i) ==
    log[i].state \in {"acked", "rejected"} =>
        \/ log[i].kind = "start" /\ log[i].task \in ended
        \/ \E v \in Verdicts : v[1] = i /\ (log[i].state = "rejected" <=> v[2] = "rejected")

\* A Stop or a Shutdown took effect at most once, and then its outcome is kept.
DoneOnce(i) ==
    log[i].kind # "start" => /\ effects[i] <= 1
                             /\ alive /\ effects[i] = 1 => Recorded(i)

\* As long as no outcome is evicted: one outcome of a command, and every ACK
\* and every entry of the log tells it.
VerdictInv ==
    /\ Unique
    /\ acks \in Seq(KnownAcks)
    /\ \A i \in Created : LogTells(i) /\ DoneOnce(i)

-----------------------------------------------------------------------------
(* Sequences. *)

\* Induction over the naturals, for a set.
LEMMA SetInduction ==
    ASSUME NEW T \in SUBSET Nat, 0 \in T, \A n \in T : n + 1 \in T
    PROVE  T = Nat
<1> SUFFICES ASSUME Nat \ T # {}
             PROVE  FALSE
  OBVIOUS
<1> DEFINE R == OpToRel(<, Nat)
<1>1. IsWellFoundedOn(R, Nat)
  BY NatLessThanWellFounded
<1>2. PICK x \in Nat \ T : \A y \in Nat \ T : ~(<<y, x>> \in R)
  <2> HIDE DEF R
  <2> QED BY <1>1, WFMin
<1>3. \A y \in Nat \ T : ~(y < x)
  BY <1>2 DEF OpToRel
<1> QED BY <1>3

\* Sequences of members of a set.
LEMMA SeqGrows ==
    ASSUME NEW S, NEW T, S \subseteq T
    PROVE  Seq(S) \subseteq Seq(T)
BY SeqMonotonic

\* One element more.
LEMMA AppendStays ==
    ASSUME NEW S, NEW s \in Seq(S), NEW e \in S
    PROVE  Append(s, e) \in Seq(S)
OBVIOUS

\* The head is an element, the tail a sequence of the others.
LEMMA TailStays ==
    ASSUME NEW S, NEW s \in Seq(S), s # <<>>
    PROVE  Head(s) \in S /\ Tail(s) \in Seq(S)
OBVIOUS

\* Two sequences in a row.
LEMMA ConcatStays ==
    ASSUME NEW S, NEW s \in Seq(S), NEW t \in Seq(S)
    PROVE  s \o t \in Seq(S)
OBVIOUS

\* What a loop over n places collects is in the set it looks for.
LEMMA AscendingStays ==
    ASSUME NEW S, NEW n \in Nat
    PROVE  Ascending(S, n) \in Seq(S \cap 1..n)
<1> DEFINE Q == Seq(S \cap 1..n)
           Good(f, m) == /\ f \in [0..m -> Q]
                         /\ f[0] = <<>>
                         /\ \A k \in 1..m : f[k] = IF k \in S THEN Append(f[k - 1], k)
                                                   ELSE f[k - 1]
           T == {m \in Nat : m <= n => \E f : Good(f, m)}
<1>1. <<>> \in Q /\ \A s \in Q, k \in S \cap 1..n : Append(s, k) \in Q
  OBVIOUS
<1> HIDE DEF Q
<1>2. \E f : Good(f, 0)
  <2>1. Good([k \in 0..0 |-> <<>>], 0)
    BY <1>1
  <2> QED BY <2>1
<1>3. ASSUME NEW m \in Nat, m + 1 <= n, NEW f, Good(f, m)
      PROVE  \E g : Good(g, m + 1)
  <2> DEFINE e == IF m + 1 \in S THEN Append(f[m], m + 1) ELSE f[m]
             g == [k \in 0..(m + 1) |-> IF k = m + 1 THEN e ELSE f[k]]
  <2>1. f[m] \in Q /\ m + 1 \in 1..n
    BY <1>3
  <2>2. e \in Q
    BY <1>1, <2>1
  <2>3. e = IF m + 1 \in S THEN Append(f[m], m + 1) ELSE f[m]
    OBVIOUS
  <2> HIDE DEF e
  <2>4. g \in [0..(m + 1) -> Q]
    BY <1>3, <2>2
  <2>5. g[0] = <<>>
    BY <1>3
  <2>6. ASSUME NEW k \in 1..(m + 1)
        PROVE  g[k] = IF k \in S THEN Append(g[k - 1], k) ELSE g[k - 1]
    <3>1. CASE k = m + 1
      <4>1. g[k] = e /\ g[k - 1] = f[m] /\ k = m + 1
        BY <3>1
      <4> QED BY <2>3, <4>1
    <3>2. CASE k # m + 1
      <4>1. g[k] = f[k] /\ g[k - 1] = f[k - 1] /\ k \in 1..m
        BY <3>2
      <4> QED BY <1>3, <4>1
    <3> QED BY <3>1, <3>2
  <2>7. Good(g, m + 1)
    BY <2>4, <2>5, <2>6
  <2> QED BY <2>7
<1> HIDE DEF Good
<1>4. \A m \in T : m + 1 \in T
  BY <1>3
<1>5. T \in SUBSET Nat /\ 0 \in T
  BY <1>2
<1>6. PICK h : Good(h, n)
  <2> HIDE DEF T
  <2>1. n \in T
    BY <1>4, <1>5, SetInduction
  <2> QED BY <2>1 DEF T
<1> DEFINE Step(f, k) == IF k = 0 THEN <<>>
                         ELSE IF k \in S THEN Append(f[k - 1], k) ELSE f[k - 1]
           u == CHOOSE f : f = [k \in 0..n |-> Step(f, k)]
<1>7. h = [k \in 0..n |-> Step(h, k)]
  <2>1. h \in [0..n -> Q]
    BY <1>6 DEF Good
  <2>2. h[0] = Step(h, 0)
    BY <1>6 DEF Good
  <2>3. \A k \in 1..n : h[k] = IF k \in S THEN Append(h[k - 1], k) ELSE h[k - 1]
    BY <1>6 DEF Good
  <2>4. \A k \in 1..n : h[k] = Step(h, k)
    BY <2>3
  <2> HIDE DEF Step
  <2>5. \A k \in 0..n : h[k] = Step(h, k)
    BY <2>2, <2>4
  <2> QED BY <2>1, <2>5
<1>8. u = [k \in 0..n |-> Step(u, k)]
  BY <1>7
<1>9. Ascending(S, n) = u[n]
  BY DEF Ascending
<1> HIDE DEF u
<1>10. /\ u[0] = <<>>
       /\ \A k \in 1..n : u[k] = IF k \in S THEN Append(u[k - 1], k) ELSE u[k - 1]
  <2>1. \A k \in 0..n : u[k] = Step(u, k)
    <3> DEFINE v == [k \in 0..n |-> Step(u, k)]
    <3>1. \A k \in 0..n : v[k] = Step(u, k)
      OBVIOUS
    <3>2. u = v
      BY <1>8
    <3> HIDE DEF v, Step
    <3> QED BY <3>1, <3>2
  <2> QED BY <2>1
<1> DEFINE V == {m \in Nat : m <= n => u[m] \in Q}
<1>11. V \in SUBSET Nat /\ 0 \in V
  BY <1>1, <1>10
<1>12. ASSUME NEW m \in V
       PROVE  m + 1 \in V
  BY <1>1, <1>10
<1>13. n \in V
  <2> HIDE DEF V
  <2> QED BY <1>11, <1>12, SetInduction
<1> QED BY <1>9, <1>13 DEF Q
-----------------------------------------------------------------------------
(* The outbox. *)

\* A sequence without the element at p, place by place.
LEMMA RemoveAtProps ==
    ASSUME NEW D, NEW s \in Seq(D), NEW p \in 1..Len(s)
    PROVE  /\ RemoveAt(s, p) \in Seq(D)
           /\ Len(RemoveAt(s, p)) = Len(s) - 1
           /\ \A l \in 1..(Len(s) - 1) : RemoveAt(s, p)[l] = IF l < p THEN s[l] ELSE s[l + 1]
<1> DEFINE a == SubSeq(s, 1, p - 1)
           b == SubSeq(s, p + 1, Len(s))
<1>1. Len(s) \in Nat
  OBVIOUS
<1>2. a \in Seq(D) /\ Len(a) = p - 1 /\ \A l \in 1..(p - 1) : a[l] = s[l]
  BY <1>1
<1>3. b \in Seq(D) /\ Len(b) = Len(s) - p /\ \A l \in 1..(Len(s) - p) : b[l] = s[l + p]
  BY <1>1
<1>4. RemoveAt(s, p) = a \o b
  BY DEF RemoveAt
<1> HIDE DEF a, b
<1>5. /\ a \o b \in Seq(D) /\ Len(a \o b) = Len(a) + Len(b)
      /\ \A l \in 1..(Len(a) + Len(b)) : (a \o b)[l] = IF l <= Len(a) THEN a[l] ELSE b[l - Len(a)]
  BY <1>2, <1>3, ConcatProperties
<1>6. ASSUME NEW l \in 1..(Len(s) - 1)
      PROVE  (a \o b)[l] = IF l < p THEN s[l] ELSE s[l + 1]
  <2>1. CASE l < p
    BY <1>1, <1>2, <1>3, <1>5, <2>1
  <2>2. CASE ~(l < p)
    <3>1. /\ l \in 1..(Len(a) + Len(b)) /\ ~(l <= Len(a))
          /\ l - Len(a) \in 1..(Len(s) - p) /\ l - Len(a) + p = l + 1
      BY <1>1, <1>2, <1>3, <2>2
    <3> QED BY <1>3, <1>5, <2>2, <3>1
  <2> QED BY <2>1, <2>2
<1> QED BY <1>1, <1>2, <1>3, <1>4, <1>5, <1>6

\* A retained outcome whose pending mark changes.
LEMMA OutcomeFields ==
    ASSUME NEW o \in Outcomes, NEW b \in BOOLEAN
    PROVE  /\ [o EXCEPT !.pending = b] \in Outcomes
           /\ [o EXCEPT !.pending = b].id = o.id
           /\ [o EXCEPT !.pending = b].status = o.status
           /\ o.id \in Ids /\ o.status \in Statuses /\ o.pending \in BOOLEAN
BY DEF Outcomes

\* The place of a recorded outcome.
LEMMA PositionFound ==
    ASSUME NEW i, Recorded(i)
    PROVE  Position(i) \in DOMAIN outbox /\ outbox[Position(i)].id = i
BY DEF Recorded, Position

\* An outcome that is sent again, or confirmed, moves to the front.
LEMMA MovedStays ==
    ASSUME outbox \in Seq(GoodOutcomes), NEW i, Recorded(i), NEW b \in BOOLEAN
    PROVE  Append(Without(i), [Outcome(i) EXCEPT !.pending = b]) \in Seq(GoodOutcomes)
<1>1. Position(i) \in 1..Len(outbox)
  BY PositionFound
<1>2. Without(i) \in Seq(GoodOutcomes)
  BY <1>1, RemoveAtProps DEF Without
<1>3. Outcome(i) \in GoodOutcomes
  BY <1>1 DEF Outcome
<1>4. [Outcome(i) EXCEPT !.pending = b] \in GoodOutcomes
  BY <1>3, OutcomeFields DEF GoodOutcomes
<1> QED BY <1>2, <1>4, AppendStays

\* Snapshot sends what the outbox holds.
LEMMA SnapshotStays ==
    ASSUME NEW D, outbox \in Seq(D), NEW A,
           \A o \in D : [id |-> o.id, status |-> o.status] \in A
    PROVE  Snapshot \in Seq(A)
<1> DEFINE P == {k \in DOMAIN outbox: outbox[k].pending}
           w == Ascending(P, Len(outbox))
<1>1. Len(outbox) \in Nat /\ P \cap 1..Len(outbox) \subseteq DOMAIN outbox
  OBVIOUS
<1>2. w \in Seq(DOMAIN outbox)
  <2>1. w \in Seq(P \cap 1..Len(outbox))
    <3> HIDE DEF P
    <3> QED BY <1>1, AscendingStays
  <2> HIDE DEF w, P
  <2> QED BY <1>1, <2>1, SeqGrows
<1>3. Snapshot = [k \in DOMAIN w |-> [id |-> outbox[w[k]].id, status |-> outbox[w[k]].status]]
  BY DEF Snapshot
<1> HIDE DEF w
<1>4. DOMAIN w = 1..Len(w) /\ Len(w) \in Nat /\ \A k \in DOMAIN w : w[k] \in DOMAIN outbox
  BY <1>2
<1>5. \A k \in DOMAIN w : [id |-> outbox[w[k]].id, status |-> outbox[w[k]].status] \in A
  BY <1>4
<1> QED BY <1>3, <1>4, <1>5, IsASeq
-----------------------------------------------------------------------------
(* What a step may do to the log. *)

\* The log only grows, its commands keep what they are and an ACK, and an
\* effect is not undone.
Grows ==
    /\ Len(log') >= Len(log)
    /\ \A i \in Created : /\ log'[i].kind = log[i].kind /\ log'[i].task = log[i].task
                          /\ log[i].state # "pending" => log'[i].state # "pending"
    /\ \A i \in Ids : effects'[i] >= effects[i]

\* What the invariant says of the types of log and effects.
LEMMA LogTypes ==
    ASSUME DeliveryInv
    PROVE  /\ log \in Seq(Commands) /\ Len(log) \in Nat /\ Created \subseteq Ids
           /\ MaxCommands \in Nat
           /\ effects \in [Ids -> Nat]
           /\ \A i \in Created : log[i] \in Commands
BY DeliveryConstants DEF DeliveryInv, TypeOK, LogInv, Created, Ids

\* What was true of the commands stays true.
LEMMA GrownSets ==
    ASSUME DeliveryInv, Grows, log' \in Seq(Commands), effects' \in [Ids -> Nat]
    PROVE  /\ Created \subseteq Created' /\ Settled \subseteq Settled'
           /\ GoodAcks \subseteq GoodAcks' /\ GoodOutcomes \subseteq GoodOutcomes'
           /\ GoodRequests \subseteq GoodRequests'
           /\ \A i : IsStart(i) => IsStart(i)'
<1>1. Created \subseteq Created' /\ Created \subseteq Ids
  BY LogTypes DEF Grows, Created
<1>2. Settled \subseteq Settled' /\ (\A i : IsStart(i) => IsStart(i)')
  BY <1>1 DEF Grows, Settled, IsStart
<1>3. ASSUME NEW i, NEW s, Tellable(i, s)
      PROVE  Tellable(i, s)'
  <2>1. i \in Ids /\ effects[i] \in Nat /\ effects'[i] \in Nat /\ effects'[i] >= effects[i]
    BY <1>1, <1>3, LogTypes DEF Tellable, Grows
  <2> QED BY <1>1, <1>3, <2>1 DEF Tellable, Grows
<1> QED BY <1>1, <1>2, <1>3 DEF GoodAcks, GoodOutcomes, GoodRequests

\* ... and so do the queues that are left alone.
LEMMA GrownQueues ==
    ASSUME DeliveryInv, Grows, log' \in Seq(Commands), effects' \in [Ids -> Nat]
    PROVE  /\ session.batch \in Seq(Created') /\ session.control \in Seq(Settled')
           /\ acks \in Seq(GoodAcks') /\ outbox \in Seq(GoodOutcomes')
           /\ queue \in Seq(GoodRequests')
BY GrownSets, SeqGrows DEF DeliveryInv, WireInv

\* The log itself, if it stays.
LEMMA SameLog ==
    ASSUME DeliveryInv, UNCHANGED <<log, effects>>
    PROVE  Grows /\ LogInv' /\ log' \in Seq(Commands) /\ effects' \in [Ids -> Nat]
<1>1. log' \in Seq(Commands) /\ effects' \in [Ids -> Nat]
  BY DEF DeliveryInv, TypeOK
<1>2. LogInv'
  BY DEF DeliveryInv, LogInv, AckedTookEffect, IsStart, Created
<1>3. Grows
  BY LogTypes DEF Grows, Created
<1> QED BY <1>1, <1>2, <1>3

\* The agent's records, if they stay.
LEMMA SameHost ==
    ASSUME DeliveryInv, Grows, log' \in Seq(Commands), effects' \in [Ids -> Nat],
           UNCHANGED <<checked, starting, deferred, slot, running, shutdown>>
    PROVE  HostInv'
<1>1. \A i : IsStart(i) => IsStart(i)'
  BY GrownSets
<1>2. Created \subseteq Ids /\ Created \subseteq Created'
  BY LogTypes, GrownSets
<1>3. \A i \in Ids : effects[i] >= 1 => effects'[i] >= 1
  BY LogTypes DEF Grows
<1>4. slot # None => slot \in Ids
  BY DEF DeliveryInv, TypeOK
<1>5. checked' # NoRequest => checked' \in Request /\ IsStart(checked.id)'
  BY <1>1 DEF DeliveryInv, HostInv
<1>6. shutdown # None => shutdown \in Created' /\ log'[shutdown].kind = "shutdown"
  BY <1>2 DEF DeliveryInv, HostInv, Grows
<1>7. slot # None => /\ IsStart(slot)'
                     /\ starting[slot].at = "no" => effects'[slot] >= 1
  BY <1>1, <1>3, <1>4 DEF DeliveryInv, HostInv
<1>8. ASSUME NEW i \in Ids
      PROVE  /\ starting[i].at # "no" => IsStart(i)'
             /\ starting[i].at = "prepare" => slot = i /\ ~running
             /\ starting[i].at = "launched" => effects'[i] >= 1
             /\ deferred[i] # NoRequest => IsStart(i)' /\ deferred[i].id = i
  BY <1>1, <1>3 DEF DeliveryInv, HostInv
<1> QED BY <1>5, <1>6, <1>7, <1>8 DEF HostInv
-----------------------------------------------------------------------------
(* The records. *)

\* The fields of a session.
LEMMA SessionFields ==
    ASSUME NEW s \in Sessions
    PROVE  /\ s.up \in BOOLEAN /\ s.lastSent \in Ids \cup {0} /\ s.inflight \subseteq Ids
           /\ s.wake \in BOOLEAN /\ s.batch \in Seq(Ids) /\ s.control \in Seq(Ids)
BY DEF Sessions

\* The absent session is idle.
LEMMA NoSessionIs ==
    /\ NoSession \in Sessions /\ ~NoSession.up
    /\ NoSession.batch = <<>> /\ NoSession.control = <<>> /\ NoSession.wake = FALSE
BY DEF NoSession, Sessions

\* A request whose connection is gone is the same request; no request is of no command.
LEMMA RequestFields ==
    ASSUME NEW q \in Request \cup {NoRequest}
    PROVE  /\ Kill(q) \in Request \cup {NoRequest}
           /\ Kill(q).id = q.id
           /\ q \in Request <=> q # NoRequest
           /\ Kill(q) = NoRequest <=> q = NoRequest
           /\ q \in Request => q.id \in Ids
<1>1. CASE q = NoRequest
  <2>1. NoRequest.id = 0 /\ Kill(NoRequest) = NoRequest /\ 0 \notin Ids
    <3>1. NoRequest.id = 0 /\ 0 \notin Ids
      BY DEF NoRequest, None, Ids
    <3>2. Kill(NoRequest) = NoRequest
      <4> DEFINE R == [id: Nat, live: BOOLEAN]
      <4>1. \A x \in R : Kill(x) \in R /\ Kill(x).id = x.id /\ Kill(x).live = FALSE
        BY DEF Kill
      <4>2. \A x, y \in R : x.id = y.id /\ x.live = y.live => x = y
        OBVIOUS
      <4>3. NoRequest \in R /\ NoRequest.live = FALSE
        BY DEF NoRequest, None
      <4> QED BY <4>1, <4>2, <4>3
    <3> QED BY <3>1, <3>2
  <2>2. NoRequest \notin Request
    BY <2>1 DEF Request
  <2> QED BY <1>1, <2>1, <2>2
<1>2. CASE q \in Request
  <2>1. q.id \in Ids /\ Kill(q) \in Request /\ Kill(q).id = q.id
    BY <1>2 DEF Request, Kill
  <2>2. \A r \in Request : r # NoRequest
    BY DEF Request, NoRequest, None, Ids
  <2> QED BY <1>2, <2>1, <2>2
<1> QED BY <1>1, <1>2

\* A Start goroutine whose connection is gone is where it was.
LEMMA StartFields ==
    ASSUME NEW x \in Starts
    PROVE  /\ Kill(x) \in Starts /\ Kill(x).at = x.at /\ Kill(x).cause = x.cause
           /\ x.live \in BOOLEAN
           /\ x.at \in {"no", "prepare", "launched"}
           /\ x.cause \in {"none", "stop", "session", "ended"}
BY DEF Starts, Kill

\* No Start goroutine.
LEMMA NoStartIs == NoStart \in Starts /\ NoStart.at = "no"
BY DEF NoStart, Starts

\* A new cause, or the launch.
LEMMA StartUpdates ==
    ASSUME NEW x \in Starts, NEW c \in {"none", "stop", "session", "ended"}
    PROVE  /\ [x EXCEPT !.cause = c] \in Starts
           /\ [x EXCEPT !.cause = c].at = x.at
           /\ [x EXCEPT !.at = "launched"] \in Starts
           /\ [x EXCEPT !.at = "launched"].at = "launched"
BY DEF Starts

\* The least member of a set of naturals.
LEMMA Least ==
    ASSUME NEW T \in SUBSET Nat, T # {}
    PROVE  \E k \in T : \A l \in T : k <= l
<1> DEFINE R == OpToRel(<, Nat)
<1>1. IsWellFoundedOn(R, Nat)
  BY NatLessThanWellFounded
<1>2. PICK x \in T : \A y \in T : ~(<<y, x>> \in R)
  <2> HIDE DEF R
  <2> QED BY <1>1, WFMin
<1>3. \A y \in T : ~(y < x)
  BY <1>2 DEF OpToRel
<1> QED BY <1>3

-----------------------------------------------------------------------------
(* The operations. *)

\* Record and Replay keep the outbox good, if what is recorded may be told.
LEMMA RecordStays ==
    ASSUME DeliveryInv, Grows, log' \in Seq(Commands), effects' \in [Ids -> Nat],
           NEW i \in Ids, NEW status \in Statuses, Tellable(i, status)',
           Record(i, status)
    PROVE  /\ outbox' \in Seq(GoodOutcomes')
           /\ notify' \in BOOLEAN /\ alive' \in BOOLEAN
<1>1. outbox \in Seq(GoodOutcomes) /\ outbox \in Seq(GoodOutcomes')
      /\ notify \in BOOLEAN /\ alive \in BOOLEAN
      /\ GoodOutcomes \subseteq GoodOutcomes'
  BY GrownQueues, GrownSets DEF DeliveryInv, WireInv, TypeOK
<1> DEFINE new == [id |-> i, status |-> status, pending |-> TRUE]
           oldest == CHOOSE k \in Confirmed: \A l \in Confirmed: k <= l
<1>2. new \in GoodOutcomes'
  BY DEF GoodOutcomes, Outcomes
<1>3. CASE Recorded(i) /\ Replay(i) /\ UNCHANGED alive
  <2>1. outbox' \in Seq(GoodOutcomes)
    BY <1>1, <1>3, MovedStays DEF Replay
  <2> QED BY <1>1, <1>3, <2>1, SeqGrows DEF Replay
<1>4. CASE /\ Len(outbox) < OutboxCapacity \/ Confirmed # {}
           /\ outbox' = Append(IF Len(outbox) < OutboxCapacity THEN outbox
                               ELSE RemoveAt(outbox, oldest), new)
           /\ notify' = TRUE
           /\ UNCHANGED alive
  <2>1. ASSUME Confirmed # {}
        PROVE  RemoveAt(outbox, oldest) \in Seq(GoodOutcomes')
    <3>1. Confirmed \in SUBSET Nat /\ Confirmed \subseteq 1..Len(outbox)
      BY <1>1 DEF Confirmed
    <3>2. oldest \in Confirmed
      BY <2>1, <3>1, Least
    <3> QED BY <1>1, <3>1, <3>2, RemoveAtProps
  <2> HIDE DEF new, oldest
  <2> QED BY <1>1, <1>2, <1>4, <2>1, AppendStays
<1>5. CASE alive' = FALSE /\ UNCHANGED outVars
  BY <1>1, <1>5 DEF outVars
<1> QED BY <1>3, <1>4, <1>5 DEF Record

\* The outbox stays good when an outcome is replayed.
LEMMA ReplayStays ==
    ASSUME DeliveryInv, NEW i, Recorded(i), Replay(i)
    PROVE  outbox' \in Seq(GoodOutcomes) /\ notify' = TRUE
BY MovedStays DEF Replay, DeliveryInv, WireInv

\* Good queues have the right type.
LEMMA GoodTypes ==
    /\ Seq(GoodOutcomes') \subseteq Seq(Outcomes)
    /\ Seq(GoodAcks') \subseteq Seq(Acks)
    /\ Seq(GoodRequests') \subseteq Seq(Request)
<1>1. GoodOutcomes' \subseteq Outcomes /\ GoodAcks' \subseteq Acks /\ GoodRequests' \subseteq Request
  BY DEF GoodOutcomes, GoodAcks, GoodRequests
<1> QED BY <1>1, SeqGrows

\* The end of a connection.
LEMMA DisconnectedStays ==
    ASSUME DeliveryInv, Grows, log' \in Seq(Commands), effects' \in [Ids -> Nat],
           Disconnected, UNCHANGED <<slot, running, shutdown>>
    PROVE  /\ session' = NoSession /\ acks' = <<>>
           /\ queue' \in Seq(GoodRequests')
           /\ checked' \in Request \cup {NoRequest}
           /\ starting' \in [Ids -> Starts]
           /\ deferred' \in [Ids -> Request \cup {NoRequest}]
           /\ HostInv'
<1>1. queue \in Seq(GoodRequests) /\ GoodRequests \subseteq GoodRequests'
  BY GrownSets DEF DeliveryInv, WireInv
<1>2. \A q \in GoodRequests : Kill(q) \in GoodRequests
  <2>1. \A q \in Request : Kill(q) \in Request /\ Kill(q).id = q.id
    BY DEF Kill, Request
  <2> QED BY <2>1 DEF GoodRequests
<1>3. queue' \in Seq(GoodRequests')
  <2>1. DOMAIN queue = 1..Len(queue) /\ Len(queue) \in Nat
        /\ \A k \in DOMAIN queue : Kill(queue[k]) \in GoodRequests'
    BY <1>1, <1>2
  <2>2. queue' = [k \in 1..Len(queue) |-> Kill(queue[k])]
    BY <2>1 DEF Disconnected
  <2> QED BY <2>1, <2>2, IsASeq
<1>4. checked \in Request \cup {NoRequest} /\ starting \in [Ids -> Starts]
      /\ deferred \in [Ids -> Request \cup {NoRequest}]
  BY DEF DeliveryInv, TypeOK
<1>5. checked' = Kill(checked) /\ checked' \in Request \cup {NoRequest}
  BY <1>4, RequestFields DEF Disconnected
<1>6. \A i \in Ids : starting'[i] \in Starts /\ starting'[i].at = starting[i].at
  BY <1>4, StartFields DEF Disconnected
<1>7. \A i \in Ids : /\ deferred'[i] \in Request \cup {NoRequest}
                     /\ deferred'[i] # NoRequest => deferred[i] # NoRequest
                     /\ deferred'[i].id = deferred[i].id
  BY <1>4, RequestFields DEF Disconnected
<1>8. starting' \in [Ids -> Starts] /\ deferred' \in [Ids -> Request \cup {NoRequest}]
  BY <1>6, <1>7 DEF Disconnected
<1>9. HostInv'
  <2>1. \A i : IsStart(i) => IsStart(i)'
    BY GrownSets
  <2>2. Created \subseteq Created' /\ Created \subseteq Ids
    BY GrownSets, LogTypes
  <2>3. \A i \in Ids : effects[i] >= 1 => effects'[i] >= 1
    BY LogTypes DEF Grows
  <2>4. checked' # NoRequest => checked' \in Request /\ IsStart(checked.id)'
    <3>1. ASSUME checked' # NoRequest
          PROVE  checked' \in Request /\ checked'.id = checked.id /\ IsStart(checked.id)
      BY <1>4, <1>5, <3>1, RequestFields DEF DeliveryInv, HostInv
    <3>2. \A i : IsStart(i) => i \in Created' /\ log'[i].kind = "start"
      BY <2>1 DEF IsStart
    <3> QED BY <3>1, <3>2 DEF IsStart
  <2>5. shutdown # None => shutdown \in Created' /\ log'[shutdown].kind = "shutdown"
    BY <2>2 DEF DeliveryInv, HostInv, Grows
  <2>6. slot # None => slot \in Ids
    BY DEF DeliveryInv, TypeOK
  <2>7. slot # None => /\ IsStart(slot)'
                       /\ starting'[slot].at = "no" => effects'[slot] >= 1
    BY <1>6, <2>1, <2>3, <2>6 DEF DeliveryInv, HostInv
  <2>8. ASSUME NEW i \in Ids
        PROVE  /\ starting'[i].at # "no" => IsStart(i)'
               /\ starting'[i].at = "prepare" => slot = i /\ ~running
               /\ starting'[i].at = "launched" => effects'[i] >= 1
               /\ deferred'[i] # NoRequest => IsStart(i)' /\ deferred'[i].id = i
    BY <1>6, <1>7, <2>1, <2>3 DEF DeliveryInv, HostInv
  <2> QED BY <2>4, <2>5, <2>7, <2>8 DEF HostInv
<1> QED BY <1>3, <1>5, <1>8, <1>9 DEF Disconnected
-----------------------------------------------------------------------------
(* One lemma for every action. *)

\* The four parts, once the log and what it says of the agent are settled.
LEMMA Together ==
    ASSUME TypeOK', LogInv', WireInv', HostInv'
    PROVE  DeliveryInv'
BY DEF DeliveryInv

\* OwnsActiveTask becomes false.
LEMMA TaskEndsStays ==
    ASSUME DeliveryInv, NEW t \in Tasks, TaskEnds(t)
    PROVE  DeliveryInv'
<1> USE DEF TaskEnds, linkVars, execVars, slotVars, outVars, hostVars, bounds
<1>1. Grows /\ LogInv' /\ log' \in Seq(Commands) /\ effects' \in [Ids -> Nat]
  BY SameLog
<1>2. TypeOK'
  BY DEF DeliveryInv, TypeOK
<1>3. WireInv'
  BY <1>1, GrownQueues DEF WireInv
<1>4. HostInv'
  BY <1>1, SameHost
<1> QED BY <1>1, <1>2, <1>3, <1>4, Together

\* A new session starts empty.
LEMMA ConnectStays ==
    ASSUME DeliveryInv, Connect
    PROVE  DeliveryInv'
<1>0. /\ UNCHANGED <<log, terminal, ended, acks, queue, checked, starting, deferred, slot,
                     running, outbox, shutdown, alive, effects, drops, restarts>>
      /\ session' = [NoSession EXCEPT !.up = TRUE, !.wake = TRUE] /\ notify' = TRUE
  BY DEF Connect, adminVars, execVars, slotVars, hostVars, bounds
<1>1. Grows /\ LogInv' /\ log' \in Seq(Commands) /\ effects' \in [Ids -> Nat]
  BY <1>0, SameLog
<1>2. session' \in Sessions /\ session'.up /\ session'.batch = <<>> /\ session'.control = <<>>
  <2>1. ASSUME NEW s \in Sessions, NEW t, t = [s EXCEPT !.up = TRUE, !.wake = TRUE]
        PROVE  t \in Sessions /\ t.up /\ t.batch = s.batch /\ t.control = s.control
    BY <2>1 DEF Sessions
  <2> QED BY <1>0, <2>1, NoSessionIs
<1>3. TypeOK'
  BY <1>0, <1>2 DEF DeliveryInv, TypeOK
<1>4. WireInv'
  <2>1. session'.batch \in Seq(Created') /\ session'.control \in Seq(Settled')
    BY <1>2
  <2> QED BY <1>0, <1>1, <2>1, GrownQueues DEF WireInv
<1>5. HostInv'
  BY <1>0, <1>1, SameHost
<1> QED BY <1>1, <1>3, <1>4, <1>5, Together

\* A broken connection, or the end of the agent.
LEMMA DropStays ==
    ASSUME DeliveryInv, Drop \/ Exit
    PROVE  DeliveryInv'
<1> USE DEF adminVars, slotVars, outVars, hostVars, bounds
<1>0. /\ Disconnected
      /\ UNCHANGED <<log, terminal, ended, slot, running, outbox, notify, shutdown, alive,
                     effects, restarts>>
      /\ drops' \in 0..MaxDrops
  BY DeliveryConstants DEF Drop, Exit, DeliveryInv, TypeOK
<1>1. Grows /\ LogInv' /\ log' \in Seq(Commands) /\ effects' \in [Ids -> Nat]
  BY <1>0, SameLog
<1>2. /\ session' = NoSession /\ acks' = <<>> /\ queue' \in Seq(GoodRequests')
      /\ checked' \in Request \cup {NoRequest} /\ starting' \in [Ids -> Starts]
      /\ deferred' \in [Ids -> Request \cup {NoRequest}] /\ HostInv'
  BY <1>0, <1>1, DisconnectedStays
<1>3. queue' \in Seq(Request)
  BY <1>2, GoodTypes
<1>4. TypeOK'
  BY <1>0, <1>2, <1>3, NoSessionIs DEF DeliveryInv, TypeOK
<1>5. WireInv'
  BY <1>0, <1>1, <1>2, GrownQueues, NoSessionIs DEF WireInv
<1> QED BY <1>1, <1>2, <1>4, <1>5, Together

\* Bus.PendingBatch: what it collects is in the log.
LEMMA PendingBatchStays ==
    ASSUME DeliveryInv, PendingBatch
    PROVE  DeliveryInv'
<1> USE DEF adminVars, execVars, slotVars, outVars, hostVars, bounds
<1> DEFINE b == NextBatch(Window - Cardinality(session.inflight))
<1>0. /\ UNCHANGED <<log, terminal, ended, acks, queue, checked, starting, deferred, slot,
                     running, outbox, notify, shutdown, alive, effects, drops, restarts>>
      /\ session.wake
      /\ session' = [session EXCEPT !.wake = FALSE, !.batch = b,
                            !.lastSent = IF b = <<>> THEN @ ELSE Last(b),
                            !.inflight = @ \cup Range(b)]
  BY DEF PendingBatch
<1>1. Grows /\ LogInv' /\ log' \in Seq(Commands) /\ effects' \in [Ids -> Nat]
  BY <1>0, SameLog
<1>2. b \in Seq(Created)
  <2> DEFINE P == {i \in Pending: i > session.lastSent}
             a == Ascending(P, Len(log))
             n == Window - Cardinality(session.inflight)
             m == IF Len(a) < n THEN Len(a) ELSE n
  <2>1. P \cap 1..Len(log) \subseteq Created /\ Len(log) \in Nat
    BY LogTypes DEF Created
  <2>2. a \in Seq(Created)
    <3>1. a \in Seq(P \cap 1..Len(log))
      <4> HIDE DEF P
      <4> QED BY <2>1, AscendingStays
    <3> HIDE DEF a, P
    <3> QED BY <2>1, <3>1, SeqGrows
  <2>3. b = SubSeq(a, 1, m)
    BY DEF NextBatch
  <2> HIDE DEF a, P
  <2>4. n \in Int
    <3>1. session.inflight \in SUBSET Ids /\ MaxCommands \in Nat /\ Window \in Nat
      BY SessionFields, DeliveryConstants DEF DeliveryInv, TypeOK
    <3>2. IsFiniteSet(session.inflight)
      <4>1. IsFiniteSet(Ids)
        BY <3>1, FS_Interval DEF Ids
      <4> QED BY <3>1, <4>1, FS_Subset
    <3>3. Cardinality(session.inflight) \in Nat
      BY <3>2, FS_CardinalityType
    <3> QED BY <3>1, <3>3
  <2> HIDE DEF n
  <2>5. m \in Int /\ m <= Len(a)
    BY <2>2, <2>4
  <2> HIDE DEF m
  <2> QED BY <2>2, <2>3, <2>5
<1> HIDE DEF b
<1>3. session \in Sessions /\ (session.wake => session.up)
  BY NoSessionIs DEF DeliveryInv, TypeOK
<1>4. b \in Seq(Ids)
  BY <1>2, LogTypes, SeqGrows
<1>5. (b # <<>> => Last(b) \in Ids) /\ Range(b) \subseteq Ids
  <2>1. b # <<>> => Len(b) \in 1..Len(b) /\ DOMAIN b = 1..Len(b)
    BY <1>4
  <2> QED BY <1>4, <2>1 DEF Last, Range
<1>6. /\ session' \in Sessions /\ session'.up /\ session'.batch = b
      /\ session'.control = session.control
  BY <1>0, <1>3, <1>4, <1>5 DEF Sessions
<1>7. TypeOK'
  BY <1>0, <1>6 DEF DeliveryInv, TypeOK
<1>8. WireInv'
  BY <1>0, <1>1, <1>2, <1>6, GrownQueues, GrownSets, SeqGrows DEF WireInv
<1>9. HostInv'
  BY <1>0, <1>1, SameHost
<1> QED BY <1>1, <1>7, <1>8, <1>9, Together

\* A receipt is taken from the session and moves its outcome.
LEMMA SendReceiptStays ==
    ASSUME DeliveryInv, SendReceipt
    PROVE  DeliveryInv'
<1> DEFINE i == Head(session.control)
<1>0. /\ UNCHANGED <<log, terminal, ended, acks, queue, checked, starting, deferred, slot,
                     running, notify, effects, drops, restarts>>
      /\ session.batch = <<>> /\ session.control # <<>>
      /\ session' = [session EXCEPT !.control = Tail(@)]
      /\ outbox' = IF Recorded(i) THEN Append(Without(i), [Outcome(i) EXCEPT !.pending = FALSE])
                   ELSE outbox
      /\ alive' \in BOOLEAN
      /\ shutdown' = None \/ shutdown' = shutdown
  BY DEF SendReceipt, adminVars, execVars, slotVars, bounds
<1>1. Grows /\ LogInv' /\ log' \in Seq(Commands) /\ effects' \in [Ids -> Nat]
  BY <1>0, SameLog
<1>2. session \in Sessions /\ session.up /\ session.control \in Seq(Settled)
  BY <1>0, NoSessionIs DEF DeliveryInv, TypeOK, WireInv
<1>3. /\ session' \in Sessions /\ session'.up /\ session'.batch = <<>>
      /\ session'.control = Tail(session.control)
  <2>1. Tail(session.control) \in Seq(Ids)
    BY <1>0, <1>2, SessionFields, TailStays
  <2>2. ASSUME NEW c \in Seq(Ids), NEW s, s = [session EXCEPT !.control = c]
        PROVE  /\ s \in Sessions /\ s.up = session.up /\ s.batch = session.batch
               /\ s.control = c
    BY <1>2, <2>2 DEF Sessions
  <2> QED BY <1>0, <1>2, <2>1, <2>2
<1>4. Tail(session.control) \in Seq(Settled)
  BY <1>0, <1>2, TailStays
<1>5. outbox' \in Seq(GoodOutcomes)
  BY <1>0, MovedStays DEF DeliveryInv, WireInv
<1>6. outbox' \in Seq(GoodOutcomes') /\ session'.control \in Seq(Settled')
  BY <1>1, <1>3, <1>4, <1>5, GrownSets, SeqGrows
<1>7. TypeOK'
  <2>1. outbox' \in Seq(Outcomes)
    BY <1>6, GoodTypes
  <2>2. shutdown' \in Ids \cup {None}
    BY <1>0 DEF DeliveryInv, TypeOK
  <2> QED BY <1>0, <1>3, <2>1, <2>2 DEF DeliveryInv, TypeOK
<1>8. WireInv'
  BY <1>0, <1>1, <1>3, <1>6, GrownQueues DEF WireInv
<1>9. HostInv'
  <2>1. CASE shutdown' = shutdown
    BY <1>0, <1>1, <2>1, SameHost
  <2>2. CASE shutdown' = None
    BY <1>0, <2>2 DEF DeliveryInv, HostInv, IsStart, Created
  <2> QED BY <1>0, <2>1, <2>2
<1> QED BY <1>1, <1>7, <1>8, <1>9, Together

\* SendLoop sends what may be told.
LEMMA SendOutcomesStays ==
    ASSUME DeliveryInv, SendOutcomes
    PROVE  DeliveryInv'
<1>0. /\ UNCHANGED <<log, terminal, ended, session, queue, checked, starting, deferred, slot,
                     running, outbox, shutdown, alive, effects, drops, restarts>>
      /\ notify' = FALSE /\ acks' = acks \o Snapshot
  BY DEF SendOutcomes, adminVars, execVars, slotVars, hostVars, bounds
<1>1. Grows /\ LogInv' /\ log' \in Seq(Commands) /\ effects' \in [Ids -> Nat]
  BY <1>0, SameLog
<1>2. acks \in Seq(GoodAcks) /\ outbox \in Seq(GoodOutcomes)
  BY DEF DeliveryInv, WireInv
<1>3. \A o \in GoodOutcomes : [id |-> o.id, status |-> o.status] \in GoodAcks
  BY OutcomeFields DEF GoodOutcomes, GoodAcks, Acks
<1>4. acks' \in Seq(GoodAcks)
  BY <1>0, <1>2, <1>3, SnapshotStays, ConcatStays
<1>5. acks' \in Seq(GoodAcks')
  BY <1>1, <1>4, GrownSets, SeqGrows
<1>6. TypeOK'
  BY <1>0, <1>5, GoodTypes DEF DeliveryInv, TypeOK
<1>7. WireInv'
  BY <1>0, <1>1, <1>5, GrownQueues DEF WireInv
<1>8. HostInv'
  BY <1>0, <1>1, SameHost
<1> QED BY <1>1, <1>6, <1>7, <1>8, Together

\* The command at the head of the queue.
LEMMA QueueHead ==
    ASSUME DeliveryInv, queue # <<>>
    PROVE  /\ Head(queue) \in GoodRequests /\ Tail(queue) \in Seq(GoodRequests)
           /\ Head(queue) \in Request /\ Head(queue).id \in Created /\ Head(queue).id \in Ids
<1>1. Head(queue) \in GoodRequests /\ Tail(queue) \in Seq(GoodRequests)
  BY TailStays DEF DeliveryInv, WireInv
<1> QED BY <1>1, LogTypes DEF GoodRequests

\* execute replays a known outcome.
LEMMA ExecuteKnownStays ==
    ASSUME DeliveryInv, ExecuteKnown
    PROVE  DeliveryInv'
<1>0. /\ UNCHANGED <<log, terminal, ended, session, acks, checked, starting, deferred, slot,
                     running, shutdown, alive, effects, drops, restarts>>
      /\ queue # <<>> /\ queue' = Tail(queue)
      /\ Recorded(Head(queue).id) /\ Replay(Head(queue).id)
  BY DEF ExecuteKnown, adminVars, linkVars, slotVars, hostVars, bounds
<1>1. Grows /\ LogInv' /\ log' \in Seq(Commands) /\ effects' \in [Ids -> Nat]
  BY <1>0, SameLog
<1>2. /\ outbox' \in Seq(GoodOutcomes') /\ notify' = TRUE
      /\ queue' \in Seq(GoodRequests')
  BY <1>0, <1>1, ReplayStays, QueueHead, GrownSets, SeqGrows
<1>3. TypeOK'
  BY <1>0, <1>2, GoodTypes DEF DeliveryInv, TypeOK
<1>4. WireInv'
  BY <1>0, <1>1, <1>2, GrownQueues DEF WireInv
<1>5. HostInv'
  BY <1>0, <1>1, SameHost
<1> QED BY <1>1, <1>3, <1>4, <1>5, Together

\* execute hands a Start to beginStart.
LEMMA ExecuteStartStays ==
    ASSUME DeliveryInv, ExecuteStart
    PROVE  DeliveryInv'
<1>0. /\ UNCHANGED <<log, terminal, ended, session, acks, starting, deferred, slot, outbox,
                     notify, running, shutdown, alive, effects, drops, restarts>>
      /\ queue # <<>> /\ queue' = Tail(queue) /\ checked' = Head(queue)
      /\ log[Head(queue).id].kind = "start"
  BY DEF ExecuteStart, adminVars, linkVars, slotVars, outVars, hostVars, bounds
<1>1. Grows /\ LogInv' /\ log' \in Seq(Commands) /\ effects' \in [Ids -> Nat]
  BY <1>0, SameLog
<1>2. queue' \in Seq(GoodRequests') /\ checked' \in Request /\ IsStart(checked.id)'
  BY <1>0, <1>1, QueueHead, GrownSets, SeqGrows DEF IsStart, Created
<1>3. TypeOK'
  BY <1>0, <1>2, GoodTypes DEF DeliveryInv, TypeOK
<1>4. WireInv'
  BY <1>0, <1>1, <1>2, GrownQueues DEF WireInv
<1>5. HostInv'
  BY <1>0, <1>2 DEF DeliveryInv, HostInv, IsStart, Created
<1> QED BY <1>1, <1>3, <1>4, <1>5, Together

\* The Start that was looked up.
LEMMA CheckedIs ==
    ASSUME DeliveryInv, checked # NoRequest
    PROVE  checked \in Request /\ checked.id \in Ids /\ IsStart(checked.id) /\ checked.live \in BOOLEAN
<1>1. checked \in Request /\ IsStart(checked.id)
  BY DEF DeliveryInv, HostInv
<1> QED BY <1>1, LogTypes DEF IsStart, Request

\* beginStart puts a second copy off.
LEMMA BeginDeferredStays ==
    ASSUME DeliveryInv, BeginDeferred
    PROVE  DeliveryInv'
<1>0. /\ UNCHANGED <<log, terminal, ended, session, acks, queue, starting, slot, outbox,
                     notify, running, shutdown, alive, effects, drops, restarts>>
      /\ checked # NoRequest /\ checked' = NoRequest
      /\ deferred' = [deferred EXCEPT ![checked.id] = checked]
  BY DEF BeginDeferred, adminVars, linkVars, slotVars, outVars, hostVars, bounds
<1>1. Grows /\ LogInv' /\ log' \in Seq(Commands) /\ effects' \in [Ids -> Nat]
  BY <1>0, SameLog
<1>2. checked \in Request /\ checked.id \in Ids /\ IsStart(checked.id)
  BY <1>0, CheckedIs
<1>3. TypeOK'
  BY <1>0, <1>2 DEF DeliveryInv, TypeOK
<1>4. WireInv'
  BY <1>0, <1>1, GrownQueues DEF WireInv
<1>5. \A i \in Ids : deferred'[i] # NoRequest => IsStart(i) /\ deferred'[i].id = i
  BY <1>0, <1>2 DEF DeliveryInv, TypeOK, HostInv
<1>6. HostInv'
  BY <1>0, <1>5 DEF DeliveryInv, HostInv, IsStart, Created
<1> QED BY <1>1, <1>3, <1>4, <1>6, Together

\* beginStart finds a task: one that was launched, if it is the same.
LEMMA BeginBusyStays ==
    ASSUME DeliveryInv, BeginBusy
    PROVE  DeliveryInv'
<1> DEFINE status == IF TaskOf(slot) = TaskOf(checked.id) THEN "duplicate" ELSE "rejected"
<1>0. /\ UNCHANGED <<log, terminal, ended, session, acks, queue, starting, slot,
                     running, shutdown, effects, drops, restarts>>
      /\ checked # NoRequest /\ checked' = NoRequest /\ slot # None
      /\ starting[checked.id].at = "no"
      /\ deferred' = [deferred EXCEPT ![checked.id] = NoRequest]
      /\ Record(checked.id, status)
  BY DEF BeginBusy, adminVars, linkVars, slotVars, bounds
<1>1. Grows /\ LogInv' /\ log' \in Seq(Commands) /\ effects' \in [Ids -> Nat]
  BY <1>0, SameLog
<1>2. checked \in Request /\ checked.id \in Ids /\ IsStart(checked.id)
  BY <1>0, CheckedIs
<1>3. Tellable(checked.id, status)
  <2>1. CASE TaskOf(slot) = TaskOf(checked.id)
    <3>1. slot = checked.id
      BY <1>0, <1>2, <2>1 DEF DeliveryInv, HostInv, LogInv, TaskOf, IsStart
    <3>2. effects[checked.id] >= 1
      BY <1>0, <3>1 DEF DeliveryInv, HostInv
    <3> QED BY <1>2, <2>1, <3>2 DEF Tellable, IsStart
  <2>2. CASE TaskOf(slot) # TaskOf(checked.id)
    BY <1>2, <2>2 DEF Tellable, IsStart
  <2> QED BY <2>1, <2>2
<1>4. status \in Statuses
  BY DEF Statuses
<1> HIDE DEF status
<1>5. ASSUME NEW i, Tellable(i, status)
      PROVE  i \in Created' /\ (status = "rejected" => log'[i].kind # "shutdown")
             /\ (status # "rejected" => effects'[i] >= 1)
  BY <1>0, <1>5 DEF Tellable, Created
<1>6. /\ outbox' \in Seq(GoodOutcomes') /\ notify' \in BOOLEAN /\ alive' \in BOOLEAN
  <2> DEFINE c == checked.id
  <2>1. c \in Ids /\ Record(c, status) /\ Tellable(c, status)
    BY <1>0, <1>2, <1>3
  <2> HIDE DEF c
  <2>2. c \in Created' /\ (status = "rejected" => log'[c].kind # "shutdown")
        /\ (status # "rejected" => effects'[c] >= 1)
    BY <1>5, <2>1
  <2> QED BY <1>1, <1>4, <2>1, <2>2, RecordStays DEF Tellable
<1>7. TypeOK'
  BY <1>0, <1>2, <1>6, GoodTypes DEF DeliveryInv, TypeOK
<1>8. WireInv'
  BY <1>0, <1>1, <1>6, GrownQueues DEF WireInv
<1>9. \A i \in Ids : deferred'[i] # NoRequest => deferred'[i] = deferred[i]
  BY <1>0, <1>2 DEF DeliveryInv, TypeOK
<1>10. HostInv'
  BY <1>0, <1>9 DEF DeliveryInv, HostInv, IsStart, Created
<1> QED BY <1>1, <1>7, <1>8, <1>10, Together

\* beginStart reserves the slot.
LEMMA BeginReservesStays ==
    ASSUME DeliveryInv, BeginReserves
    PROVE  DeliveryInv'
<1> DEFINE x == [at |-> "prepare", live |-> checked.live, cause |-> "none"]
<1>0. /\ UNCHANGED <<log, terminal, ended, session, acks, queue, deferred, outbox, notify,
                     running, shutdown, alive, effects, drops, restarts>>
      /\ checked # NoRequest /\ checked' = NoRequest /\ slot = None /\ slot' = checked.id
      /\ starting' = [starting EXCEPT ![checked.id] = x]
  BY DEF BeginReserves, adminVars, linkVars, outVars, hostVars, bounds
<1>1. Grows /\ LogInv' /\ log' \in Seq(Commands) /\ effects' \in [Ids -> Nat]
  BY <1>0, SameLog
<1>2. checked.id \in Ids /\ IsStart(checked.id) /\ checked.live \in BOOLEAN
  BY <1>0, CheckedIs
<1>3. x \in Starts /\ x.at = "prepare"
  BY <1>2 DEF Starts
<1> HIDE DEF x
<1>4. /\ starting \in [Ids -> Starts] /\ starting' \in [Ids -> Starts]
      /\ starting'[checked.id] = x
      /\ \A i \in Ids \ {checked.id} : starting'[i] = starting[i]
      /\ ~running
  BY <1>0, <1>2, <1>3 DEF DeliveryInv, TypeOK
<1>5. TypeOK'
  BY <1>0, <1>2, <1>4 DEF DeliveryInv, TypeOK
<1>6. WireInv'
  BY <1>0, <1>1, GrownQueues DEF WireInv
<1>7. ASSUME NEW i \in Ids
      PROVE  /\ starting'[i].at # "no" => IsStart(i)
             /\ starting'[i].at = "prepare" => slot' = i /\ ~running
             /\ starting'[i].at = "launched" => effects[i] >= 1
  <2>1. CASE i = checked.id
    BY <1>0, <1>2, <1>3, <1>4, <2>1
  <2>2. CASE i # checked.id
    <3>1. None \notin Ids
      BY DEF None, Ids
    <3> QED BY <1>0, <1>4, <2>2, <3>1 DEF DeliveryInv, HostInv
  <2> QED BY <2>1, <2>2
<1>8. IsStart(slot') /\ starting'[slot'].at # "no"
  BY <1>0, <1>2, <1>3, <1>4
<1>9. HostInv'
  BY <1>0, <1>7, <1>8 DEF DeliveryInv, HostInv, IsStart, Created
<1> QED BY <1>1, <1>5, <1>6, <1>9, Together

\* A new cause of a task's context changes nothing else.
LEMMA CauseStays ==
    ASSUME DeliveryInv, NEW i \in Ids, NEW c \in {"none", "stop", "session", "ended"},
           starting' = [starting EXCEPT ![i].cause = c]
    PROVE  /\ starting' \in [Ids -> Starts]
           /\ \A j \in Ids : starting'[j].at = starting[j].at
<1> DEFINE x == [starting[i] EXCEPT !.cause = c]
<1>1. starting \in [Ids -> Starts]
  BY DEF DeliveryInv, TypeOK
<1>2. x \in Starts /\ x.at = starting[i].at
  BY <1>1, StartUpdates
<1>3. starting' = [starting EXCEPT ![i] = x]
  OBVIOUS
<1> HIDE DEF x
<1> QED BY <1>1, <1>2, <1>3

\* The AfterFunc cancels a Start.
LEMMA SessionInterruptsStays ==
    ASSUME DeliveryInv, NEW i \in Ids, SessionInterrupts(i)
    PROVE  DeliveryInv'
<1>0. /\ UNCHANGED <<log, terminal, ended, session, acks, queue, checked, deferred, outbox,
                     notify, slot, running, shutdown, alive, effects, drops, restarts>>
      /\ starting' = [starting EXCEPT ![i].cause = "session"]
  BY DEF SessionInterrupts, adminVars, linkVars, slotVars, outVars, hostVars, bounds
<1>1. Grows /\ LogInv' /\ log' \in Seq(Commands) /\ effects' \in [Ids -> Nat]
  BY <1>0, SameLog
<1>2. /\ starting' \in [Ids -> Starts] /\ \A j \in Ids : starting'[j].at = starting[j].at
  BY <1>0, CauseStays
<1>3. TypeOK'
  BY <1>0, <1>2 DEF DeliveryInv, TypeOK
<1>4. WireInv'
  BY <1>0, <1>1, GrownQueues DEF WireInv
<1>5. slot # None => slot \in Ids
  BY DEF DeliveryInv, TypeOK
<1>6. HostInv'
  BY <1>0, <1>2, <1>5 DEF DeliveryInv, HostInv, IsStart, Created
<1> QED BY <1>1, <1>3, <1>4, <1>6, Together

\* executeTask returns.
LEMMA RunEndsStays ==
    ASSUME DeliveryInv, RunEnds
    PROVE  DeliveryInv'
<1> DEFINE c == IF starting[slot].at # "no" /\ starting[slot].cause = "none" THEN "ended"
                ELSE starting[slot].cause
<1>0. /\ UNCHANGED <<log, terminal, ended, session, acks, queue, checked, deferred, outbox,
                     notify, shutdown, alive, effects, drops, restarts>>
      /\ running /\ running' = FALSE /\ slot' = None
      /\ starting' = [starting EXCEPT ![slot].cause = c]
  BY DEF RunEnds, adminVars, linkVars, outVars, hostVars, bounds
<1>1. Grows /\ LogInv' /\ log' \in Seq(Commands) /\ effects' \in [Ids -> Nat]
  BY <1>0, SameLog
<1>2. slot \in Ids /\ slot # None
  BY <1>0 DEF DeliveryInv, TypeOK
<1>3. c \in {"none", "stop", "session", "ended"}
  BY <1>2, StartFields DEF DeliveryInv, TypeOK
<1> HIDE DEF c
<1>4. /\ starting' \in [Ids -> Starts] /\ \A j \in Ids : starting'[j].at = starting[j].at
  <2> DEFINE i == slot
  <2>1. i \in Ids /\ starting' = [starting EXCEPT ![i].cause = c]
    BY <1>0, <1>2
  <2> HIDE DEF i
  <2> QED BY <1>3, <2>1, CauseStays
<1>5. TypeOK'
  BY <1>0, <1>4 DEF DeliveryInv, TypeOK
<1>6. WireInv'
  BY <1>0, <1>1, GrownQueues DEF WireInv
<1>7. \A i \in Ids : starting[i].at # "prepare"
  BY <1>0 DEF DeliveryInv, HostInv
<1>8. HostInv'
  BY <1>0, <1>4, <1>7 DEF DeliveryInv, HostInv, IsStart, Created
<1> QED BY <1>1, <1>5, <1>6, <1>8, Together

\* ReleaseReservedTask keeps the slot's type, and frees it if it is the task's.
LEMMA ReleaseIs ==
    ASSUME DeliveryInv, NEW i \in Ids, Release(i)
    PROVE  /\ slot' \in Ids \cup {None} /\ running' \in BOOLEAN
           /\ running' => slot' # None
           /\ slot' # i
           /\ slot' # None => slot' = slot /\ running' = running
           /\ slot # i => slot' = slot /\ running' = running
<1>1. i # None
  BY DEF Ids, None
<1>2. slot \in Ids \cup {None} /\ running \in BOOLEAN /\ (running => slot # None)
  BY DEF DeliveryInv, TypeOK
<1>3. CASE slot = i
  <2>1. slot' = None /\ running' = FALSE
    BY <1>3 DEF Release
  <2> QED BY <1>1, <1>3, <2>1
<1>4. CASE slot # i
  <2>1. slot' = slot /\ running' = running
    BY <1>4 DEF Release, slotVars
  <2> QED BY <1>2, <1>4, <2>1
<1> QED BY <1>3, <1>4

\* The end of a Start, with or without an outcome.
Completes(i) ==
    /\ starting' = [starting EXCEPT ![i] = NoStart]
    /\ deferred' = [deferred EXCEPT ![i] = NoRequest]

\* completeStart: the goroutine is gone, the slot is released or its task was launched.
LEMMA CompletesStays ==
    ASSUME DeliveryInv, NEW i \in Ids, Completes(i), UNCHANGED <<checked, shutdown>>,
           Grows, log' \in Seq(Commands), effects' \in [Ids -> Nat],
           \/ Release(i)
           \/ UNCHANGED slotVars /\ effects[i] >= 1 /\ starting[i].at = "launched"
    PROVE  /\ starting' \in [Ids -> Starts]
           /\ deferred' \in [Ids -> Request \cup {NoRequest}]
           /\ slot' \in Ids \cup {None} /\ running' \in BOOLEAN /\ (running' => slot' # None)
           /\ HostInv'
<1>1. /\ starting \in [Ids -> Starts] /\ deferred \in [Ids -> Request \cup {NoRequest}]
      /\ slot \in Ids \cup {None}
  BY DEF DeliveryInv, TypeOK
<1>2. /\ starting' \in [Ids -> Starts] /\ starting'[i].at = "no"
      /\ \A j \in Ids \ {i} : starting'[j] = starting[j]
  BY <1>1, NoStartIs DEF Completes
<1>3. /\ deferred' \in [Ids -> Request \cup {NoRequest}] /\ deferred'[i] = NoRequest
      /\ \A j \in Ids \ {i} : deferred'[j] = deferred[j]
  BY <1>1 DEF Completes
<1>4. /\ slot' \in Ids \cup {None} /\ running' \in BOOLEAN /\ (running' => slot' # None)
      /\ slot' # None => slot' = slot /\ running' = running
      /\ slot # i => slot' = slot /\ running' = running
      /\ slot' = i => effects[i] >= 1
  <2>1. CASE Release(i)
    BY <2>1, ReleaseIs
  <2>2. CASE UNCHANGED slotVars /\ effects[i] >= 1
    BY <2>2 DEF slotVars, DeliveryInv, TypeOK
  <2> QED BY <2>1, <2>2
<1>5. \A j : IsStart(j) => IsStart(j)'
  BY GrownSets
<1>6. \A j \in Ids : effects[j] >= 1 => effects'[j] >= 1
  BY LogTypes DEF Grows
<1>7. checked' # NoRequest => checked' \in Request /\ IsStart(checked.id)'
  BY <1>5 DEF DeliveryInv, HostInv
<1>8. shutdown # None => shutdown \in Created' /\ log'[shutdown].kind = "shutdown"
  BY GrownSets DEF DeliveryInv, HostInv, Grows
<1>9. ASSUME NEW j \in Ids
      PROVE  /\ starting'[j].at # "no" => IsStart(j)'
             /\ starting'[j].at = "prepare" => slot' = j /\ ~running'
             /\ starting'[j].at = "launched" => effects'[j] >= 1
             /\ deferred'[j] # NoRequest => IsStart(j)' /\ deferred'[j].id = j
  <2>1. CASE j = i
    BY <1>2, <1>3, <2>1
  <2>2. CASE j # i
    <3>1. starting[j].at = "prepare" => slot = j /\ ~running
      BY DEF DeliveryInv, HostInv
    <3>2. starting'[j].at = "prepare" => slot' = j /\ ~running'
      BY <1>2, <1>4, <2>2, <3>1
    <3> QED BY <1>2, <1>3, <1>5, <1>6, <2>2, <3>2 DEF DeliveryInv, HostInv
  <2> QED BY <2>1, <2>2
<1>10. slot' # None => /\ IsStart(slot)'
                       /\ starting'[slot'].at = "no" => effects'[slot'] >= 1
  <2>1. ASSUME NEW j \in Ids, j = slot'
        PROVE  /\ IsStart(j)'
               /\ starting'[j].at = "no" => effects'[j] >= 1
    <3>0. j = slot /\ IsStart(j) /\ (starting[j].at = "no" => effects[j] >= 1)
      <4>1. None \notin Ids
        BY DEF None, Ids
      <4> QED BY <1>4, <2>1, <4>1 DEF DeliveryInv, HostInv
    <3>1. CASE j = i
      BY <1>4, <1>5, <1>6, <2>1, <3>0, <3>1
    <3>2. CASE j # i
      BY <1>2, <1>5, <1>6, <3>0, <3>2
    <3> QED BY <3>1, <3>2
  <2> QED BY <1>4, <2>1 DEF IsStart
<1> QED BY <1>2, <1>3, <1>4, <1>7, <1>8, <1>9, <1>10 DEF HostInv

\* completeStart with an outcome.
LEMMA WithOutcomeStays ==
    ASSUME DeliveryInv, NEW i \in Ids, NEW status \in {"applied", "rejected"},
           starting[i].at # "no", status = "applied" => starting[i].at = "launched",
           CompleteWith(i, status),
           \/ Release(i)
           \/ UNCHANGED slotVars /\ starting[i].at = "launched",
           UNCHANGED <<adminVars, linkVars, checked, shutdown, effects, bounds>>
    PROVE  DeliveryInv'
<1>0. /\ UNCHANGED <<log, terminal, ended, session, acks, queue, checked, shutdown, effects,
                     drops, restarts>>
      /\ Completes(i) /\ Record(i, status)
  BY DEF CompleteWith, Completes, adminVars, linkVars, bounds
<1>1. Grows /\ LogInv' /\ log' \in Seq(Commands) /\ effects' \in [Ids -> Nat]
  BY <1>0, SameLog
<1>2. IsStart(i) /\ (starting[i].at = "launched" => effects[i] >= 1)
  BY DEF DeliveryInv, HostInv
<1>3. /\ starting' \in [Ids -> Starts] /\ deferred' \in [Ids -> Request \cup {NoRequest}]
      /\ slot' \in Ids \cup {None} /\ running' \in BOOLEAN /\ (running' => slot' # None)
      /\ HostInv'
  BY <1>0, <1>1, <1>2, CompletesStays
<1>4. Tellable(i, status)'
  BY <1>0, <1>2 DEF Tellable, IsStart, Created
<1>5. outbox' \in Seq(GoodOutcomes') /\ notify' \in BOOLEAN /\ alive' \in BOOLEAN
  <2>1. status \in Statuses
    BY DEF Statuses
  <2> QED BY <1>0, <1>1, <1>4, <2>1, RecordStays
<1>6. TypeOK'
  BY <1>0, <1>3, <1>5, GoodTypes DEF DeliveryInv, TypeOK
<1>7. WireInv'
  BY <1>0, <1>1, <1>5, GrownQueues DEF WireInv
<1> QED BY <1>1, <1>3, <1>6, <1>7, Together

\* completeStart without one.
LEMMA SilentlyStays ==
    ASSUME DeliveryInv, NEW i \in Ids, CompleteSilently(i), Release(i),
           UNCHANGED <<adminVars, linkVars, checked, shutdown, effects, bounds>>
    PROVE  DeliveryInv'
<1>0. /\ UNCHANGED <<log, terminal, ended, session, acks, outbox, notify, alive, checked,
                     shutdown, effects, drops, restarts>>
      /\ Completes(i)
      /\ queue' = queue \/ (deferred[i] # NoRequest /\ queue' = Append(queue, deferred[i]))
  BY DEF CompleteSilently, Completes, adminVars, linkVars, outVars, bounds
<1>1. Grows /\ LogInv' /\ log' \in Seq(Commands) /\ effects' \in [Ids -> Nat]
  BY <1>0, SameLog
<1>2. /\ starting' \in [Ids -> Starts] /\ deferred' \in [Ids -> Request \cup {NoRequest}]
      /\ slot' \in Ids \cup {None} /\ running' \in BOOLEAN /\ (running' => slot' # None)
      /\ HostInv'
  BY <1>0, <1>1, CompletesStays
<1>3. deferred[i] # NoRequest => deferred[i] \in GoodRequests
  BY RequestFields DEF DeliveryInv, TypeOK, HostInv, IsStart, GoodRequests
<1>4. queue' \in Seq(GoodRequests)
  BY <1>0, <1>3, AppendStays DEF DeliveryInv, WireInv
<1>5. queue' \in Seq(GoodRequests')
  BY <1>1, <1>4, GrownSets, SeqGrows
<1>6. TypeOK'
  BY <1>0, <1>2, <1>5, GoodTypes DEF DeliveryInv, TypeOK
<1>7. WireInv'
  BY <1>0, <1>1, <1>5, GrownQueues DEF WireInv
<1> QED BY <1>1, <1>2, <1>6, <1>7, Together

\* The four ends of a Start goroutine.
LEMMA PrepareStays ==
    ASSUME DeliveryInv, NEW i \in Ids,
           PrepareCancelled(i) \/ PrepareRefused(i) \/ PrepareFails(i) \/ LaunchChecked(i)
    PROVE  DeliveryInv'
<1>1. CASE PrepareCancelled(i)
  BY <1>1, WithOutcomeStays, SilentlyStays DEF PrepareCancelled
<1>2. CASE PrepareRefused(i)
  BY <1>2, WithOutcomeStays DEF PrepareRefused
<1>3. CASE PrepareFails(i)
  BY <1>3, SilentlyStays DEF PrepareFails
<1>4. CASE LaunchChecked(i)
  BY <1>4, WithOutcomeStays, SilentlyStays DEF LaunchChecked
<1> QED BY <1>1, <1>2, <1>3, <1>4

\* The steps in which a command takes effect.
LEMMA EffectGrows ==
    ASSUME DeliveryInv, NEW i \in Created, UNCHANGED log, Took(i)
    PROVE  /\ Grows /\ LogInv' /\ log' \in Seq(Commands) /\ effects' \in [Ids -> Nat]
           /\ effects'[i] >= 1
<1>1. /\ effects \in [Ids -> Nat] /\ i \in Ids /\ log \in Seq(Commands)
  BY LogTypes
<1>2. /\ effects' \in [Ids -> Nat] /\ effects'[i] = effects[i] + 1
      /\ \A j \in Ids \ {i} : effects'[j] = effects[j]
  BY <1>1 DEF Took
<1>3. effects'[i] >= 1 /\ \A j \in Ids : effects'[j] >= effects[j]
  BY <1>1, <1>2
<1>4. Grows
  BY <1>1, <1>3, LogTypes DEF Grows, Created
<1>5. \A j \in Created : j \in Ids
  BY LogTypes
<1>6. AckedTookEffect'
  <2>1. \A j \in Created : effects[j] >= 1 => effects'[j] >= 1
    BY <1>1, <1>2, <1>5
  <2> QED BY <2>1 DEF DeliveryInv, LogInv, AckedTookEffect, Created
<1>7. \A j \in Ids : effects'[j] >= 1 => j \in Created
  BY <1>2 DEF DeliveryInv, LogInv
<1>8. LogInv'
  BY <1>6, <1>7 DEF DeliveryInv, LogInv, IsStart, Created
<1> QED BY <1>1, <1>2, <1>3, <1>4, <1>8

\* LaunchReservedTask.
LEMMA LaunchStays ==
    ASSUME DeliveryInv, NEW i \in Ids, Launch(i)
    PROVE  DeliveryInv'
<1> DEFINE x == [starting[i] EXCEPT !.at = "launched"]
<1>0. /\ UNCHANGED <<log, terminal, ended, session, acks, queue, checked, deferred, outbox,
                     notify, slot, shutdown, alive, drops, restarts>>
      /\ starting[i].at = "prepare" /\ running' = TRUE /\ Took(i)
      /\ starting' = [starting EXCEPT ![i] = x]
  BY DEF Launch, adminVars, linkVars, outVars, hostVars, bounds
<1>1. i \in Created /\ IsStart(i) /\ slot = i
  BY <1>0 DEF DeliveryInv, HostInv, IsStart
<1>2. /\ Grows /\ LogInv' /\ log' \in Seq(Commands) /\ effects' \in [Ids -> Nat]
      /\ effects'[i] >= 1
  BY <1>0, <1>1, EffectGrows
<1>3. starting \in [Ids -> Starts]
  BY DEF DeliveryInv, TypeOK
<1>4. x \in Starts /\ x.at = "launched"
  BY <1>3, StartUpdates
<1> HIDE DEF x
<1>5. /\ starting' \in [Ids -> Starts] /\ starting'[i].at = "launched"
      /\ \A j \in Ids \ {i} : starting'[j] = starting[j]
  BY <1>0, <1>3, <1>4
<1>6. TypeOK'
  <2>1. i # None
    BY DEF Ids, None
  <2> QED BY <1>0, <1>1, <1>2, <1>5, <2>1 DEF DeliveryInv, TypeOK
<1>7. WireInv'
  BY <1>0, <1>2, GrownQueues DEF WireInv
<1>8. ASSUME NEW j \in Ids
      PROVE  /\ starting'[j].at # "no" => IsStart(j)
             /\ starting'[j].at # "prepare"
             /\ starting'[j].at = "launched" => effects'[j] >= 1
  <2>1. CASE j = i
    BY <1>1, <1>2, <1>5, <2>1
  <2>2. CASE j # i
    BY <1>1, <1>2, <1>5, <2>2, LogTypes DEF DeliveryInv, HostInv, Grows
  <2> QED BY <2>1, <2>2
<1>9. HostInv'
  BY <1>0, <1>1, <1>2, <1>5, <1>8 DEF DeliveryInv, HostInv, IsStart, Created
<1> QED BY <1>2, <1>6, <1>7, <1>9, Together

\* execute, a Stop.
LEMMA ExecuteStopStays ==
    ASSUME DeliveryInv, ExecuteStop
    PROVE  DeliveryInv'
<1> DEFINE i == Head(queue).id
<1>0. /\ UNCHANGED <<log, terminal, ended, session, acks, checked, deferred, slot, running,
                     shutdown, drops, restarts>>
      /\ queue # <<>> /\ queue' = Tail(queue)
      /\ log[i].kind = "stop"
      /\ \/ Record(i, "rejected") /\ UNCHANGED <<starting, effects>>
         \/ slot # None /\ Cancel(slot) /\ Record(i, "applied") /\ Took(i)
         \/ Record(i, "applied") /\ Took(i) /\ UNCHANGED starting
  BY DEF ExecuteStop, adminVars, linkVars, slotVars, bounds
<1>1. i \in Created /\ i \in Ids /\ Tail(queue) \in Seq(GoodRequests)
  BY <1>0, QueueHead
<1> HIDE DEF i
<1>2. \E status \in {"applied", "rejected"} :
        /\ Record(i, status)
        /\ status = "rejected" => UNCHANGED effects
        /\ status = "applied" => Took(i)
  BY <1>0
<1>3. PICK status \in {"applied", "rejected"} :
        /\ Record(i, status)
        /\ status = "rejected" => UNCHANGED effects
        /\ status = "applied" => Took(i)
  BY <1>2
<1>4. /\ Grows /\ LogInv' /\ log' \in Seq(Commands) /\ effects' \in [Ids -> Nat]
      /\ status = "applied" => effects'[i] >= 1
  <2>1. CASE status = "rejected"
    BY <1>0, <1>3, <2>1, SameLog
  <2>2. CASE status = "applied"
    BY <1>0, <1>1, <1>3, <2>2, EffectGrows
  <2> QED BY <2>1, <2>2
<1>5. i \in Created' /\ log'[i].kind = "stop"
  BY <1>0, <1>1 DEF Created
<1>6. outbox' \in Seq(GoodOutcomes') /\ notify' \in BOOLEAN /\ alive' \in BOOLEAN
  <2>1. status \in Statuses
    BY DEF Statuses
  <2> QED BY <1>1, <1>3, <1>4, <1>5, <2>1, RecordStays DEF Tellable
<1>7. queue' \in Seq(GoodRequests')
  BY <1>0, <1>1, <1>4, GrownSets, SeqGrows
<1>8. /\ starting' \in [Ids -> Starts] /\ \A j \in Ids : starting'[j].at = starting[j].at
  <2>1. CASE UNCHANGED starting
    BY <2>1 DEF DeliveryInv, TypeOK
  <2>2. CASE slot # None /\ Cancel(slot)
    <3> DEFINE k == slot
               c == IF starting[k].at # "no" /\ starting[k].cause = "none" THEN "stop"
                    ELSE starting[k].cause
    <3>1. k \in Ids
      BY <2>2 DEF DeliveryInv, TypeOK
    <3>2. starting' = [starting EXCEPT ![k].cause = c]
      BY <2>2 DEF Cancel
    <3>3. c \in {"none", "stop", "session", "ended"}
      BY <3>1, StartFields DEF DeliveryInv, TypeOK
    <3> HIDE DEF k, c
    <3> QED BY <3>1, <3>2, <3>3, CauseStays
  <2> QED BY <1>0, <2>1, <2>2
<1>9. TypeOK'
  BY <1>0, <1>4, <1>6, <1>7, <1>8, GoodTypes DEF DeliveryInv, TypeOK
<1>10. WireInv'
  BY <1>0, <1>4, <1>6, <1>7, GrownQueues DEF WireInv
<1>11. HostInv'
  <2>1. \A j \in Ids : effects[j] >= 1 => effects'[j] >= 1
    BY <1>4, LogTypes DEF Grows
  <2>2. slot # None => slot \in Ids
    BY DEF DeliveryInv, TypeOK
  <2> QED BY <1>0, <1>8, <2>1, <2>2 DEF DeliveryInv, HostInv, IsStart, Created
<1> QED BY <1>4, <1>9, <1>10, <1>11, Together

\* execute, a Shutdown.
LEMMA ExecuteShutdownStays ==
    ASSUME DeliveryInv, ExecuteShutdown
    PROVE  DeliveryInv'
<1> DEFINE i == Head(queue).id
<1>0. /\ UNCHANGED <<log, terminal, ended, session, acks, checked, starting, deferred, slot,
                     running, drops, restarts>>
      /\ queue # <<>> /\ queue' = Tail(queue)
      /\ log[i].kind = "shutdown" /\ shutdown' = i
      /\ Record(i, "applied") /\ Took(i)
  BY DEF ExecuteShutdown, adminVars, linkVars, slotVars, bounds
<1>1. i \in Created /\ i \in Ids /\ Tail(queue) \in Seq(GoodRequests)
  BY <1>0, QueueHead
<1> HIDE DEF i
<1>2. /\ Grows /\ LogInv' /\ log' \in Seq(Commands) /\ effects' \in [Ids -> Nat]
      /\ effects'[i] >= 1
  BY <1>0, <1>1, EffectGrows
<1>3. i \in Created' /\ log'[i].kind = "shutdown"
  BY <1>0, <1>1 DEF Created
<1>4. outbox' \in Seq(GoodOutcomes') /\ notify' \in BOOLEAN /\ alive' \in BOOLEAN
  <2>1. "applied" \in Statuses
    BY DEF Statuses
  <2> QED BY <1>0, <1>1, <1>2, <1>3, <2>1, RecordStays DEF Tellable
<1>5. queue' \in Seq(GoodRequests')
  BY <1>0, <1>1, <1>2, GrownSets, SeqGrows
<1>6. TypeOK'
  BY <1>0, <1>1, <1>2, <1>4, <1>5, GoodTypes DEF DeliveryInv, TypeOK
<1>7. WireInv'
  BY <1>0, <1>2, <1>4, <1>5, GrownQueues DEF WireInv
<1>8. HostInv'
  <2>1. \A j \in Ids : effects[j] >= 1 => effects'[j] >= 1
    BY <1>2, LogTypes DEF Grows
  <2>2. slot # None => slot \in Ids
    BY DEF DeliveryInv, TypeOK
  <2> QED BY <1>0, <1>3, <2>1, <2>2 DEF DeliveryInv, HostInv, IsStart, Created
<1> QED BY <1>2, <1>6, <1>7, <1>8, Together

-----------------------------------------------------------------------------
(* The steps that change the log. *)

\* A command whose state changes is the same command.
LEMMA CommandFields ==
    ASSUME NEW c \in Commands, NEW s \in {"pending", "acked", "rejected", "gone"}
    PROVE  /\ [c EXCEPT !.state = s] \in Commands
           /\ [c EXCEPT !.state = s].kind = c.kind /\ [c EXCEPT !.state = s].task = c.task
           /\ [c EXCEPT !.state = s].state = s
           /\ c.kind \in Kinds /\ c.task \in Tasks \cup {NoTask}
           /\ c.state \in {"pending", "acked", "rejected", "gone"}
BY DEF Commands

\* A new state of one command: of an evicted one, or with the ACK of a pending
\* one that may be told.
Settles(i, state) ==
    /\ log' = [log EXCEPT ![i].state = state]
    /\ \/ state = "gone"
       \/ state = "acked" /\ effects[i] >= 1
       \/ state = "rejected" /\ log[i].kind # "shutdown"

\* A new state of one command keeps the log.
LEMMA SettlesStays ==
    ASSUME DeliveryInv, NEW i \in Created, NEW state, Settles(i, state), UNCHANGED effects
    PROVE  /\ Grows /\ LogInv' /\ log' \in Seq(Commands) /\ effects' \in [Ids -> Nat]
           /\ Created' = Created /\ i \in Settled'
           /\ \A j \in Created : log'[j].state = log[j].state \/ (j = i /\ log'[j].state = state)
<1> DEFINE c == [log[i] EXCEPT !.state = state]
<1>1. /\ log \in Seq(Commands) /\ Len(log) \in Nat /\ Created \subseteq Ids
      /\ \A j \in Created : log[j] \in Commands
      /\ effects \in [Ids -> Nat]
  BY LogTypes
<1>2. log' = [log EXCEPT ![i] = c] /\ state \in {"acked", "rejected", "gone"}
  BY DEF Settles
<1>3. /\ c \in Commands /\ c.kind = log[i].kind /\ c.task = log[i].task /\ c.state = state
  <2>1. log[i] \in Commands /\ state \in {"pending", "acked", "rejected", "gone"}
    BY <1>1, <1>2
  <2>2. \A s \in {"pending", "acked", "rejected", "gone"} :
          LET d == [log[i] EXCEPT !.state = s]
          IN  d \in Commands /\ d.kind = log[i].kind /\ d.task = log[i].task /\ d.state = s
    BY <2>1 DEF Commands
  <2> QED BY <2>1, <2>2
<1> HIDE DEF c
<1>4. /\ log' \in Seq(Commands) /\ Len(log') = Len(log) /\ Created' = Created
      /\ log'[i] = c /\ \A j \in Created \ {i} : log'[j] = log[j]
  BY <1>1, <1>2, <1>3 DEF Created
<1>5. \A j \in Created : log'[j].kind = log[j].kind /\ log'[j].task = log[j].task
  BY <1>3, <1>4
<1>6. \A j \in Created : log'[j].state = log[j].state \/ (j = i /\ log'[j].state = state)
  BY <1>3, <1>4
<1>7. Grows
  BY <1>1, <1>2, <1>4, <1>5, <1>6 DEF Grows
<1>8. AckedTookEffect'
  BY <1>2, <1>4, <1>6 DEF DeliveryInv, LogInv, AckedTookEffect, Settles
<1>9. \A j \in Created : log'[j].kind = "shutdown" => log'[j].state # "rejected"
  BY <1>2, <1>5, <1>6 DEF DeliveryInv, LogInv, Settles
<1>10. LogInv'
  BY <1>4, <1>5, <1>8, <1>9 DEF DeliveryInv, LogInv, IsStart
<1>11. i \in Settled'
  BY <1>2, <1>3, <1>4 DEF Settled
<1> QED BY <1>1, <1>4, <1>6, <1>7, <1>10, <1>11

\* MemoryStore.Acknowledge of a command that may be told.
LEMMA AcknowledgeStays ==
    ASSUME DeliveryInv, NEW i \in Created, NEW state \in {"acked", "rejected"},
           state = "acked" => effects[i] >= 1,
           state = "rejected" => log[i].kind # "shutdown",
           Acknowledge(i, state), UNCHANGED effects
    PROVE  /\ Grows /\ LogInv' /\ log' \in Seq(Commands) /\ effects' \in [Ids -> Nat]
           /\ Created' = Created /\ i \in Settled' /\ terminal' \in Seq(Ids)
           /\ \A j \in Created : log'[j].state = log[j].state \/ (j = i /\ log'[j].state = state)
<1>1. i \in Ids /\ terminal \in Seq(Ids)
  BY LogTypes DEF DeliveryInv, TypeOK
<1>2. CASE log[i].state = "pending"
  <2>1. Settles(i, state)
    BY <1>2 DEF Acknowledge, Settles
  <2>2. terminal' = Append(terminal, i)
    BY <1>2 DEF Acknowledge
  <2> QED BY <1>1, <2>1, <2>2, SettlesStays, AppendStays
<1>3. CASE log[i].state # "pending"
  BY <1>1, <1>3, SameLog DEF Acknowledge, Created, Settled
<1> QED BY <1>2, <1>3

\* makeRoomLocked forgets at most one command and changes nothing else.
LEMMA EvictStays ==
    ASSUME DeliveryInv, NEW h \in Ids, NEW kept, kept = [log EXCEPT ![h].state = "gone"]
    PROVE  /\ kept \in Seq(Commands) /\ Len(kept) = Len(log)
           /\ \A j \in Created : /\ kept[j].kind = log[j].kind /\ kept[j].task = log[j].task
                                 /\ kept[j].state = log[j].state \/ kept[j].state = "gone"
<1>1. /\ log \in Seq(Commands) /\ Len(log) \in Nat
      /\ \A j \in Created : log[j] \in Commands
  BY LogTypes
<1>2. CASE h \in Created
  <2> DEFINE c == [log[h] EXCEPT !.state = "gone"]
  <2>1. c \in Commands /\ c.kind = log[h].kind /\ c.task = log[h].task /\ c.state = "gone"
    BY <1>1, <1>2, CommandFields
  <2>2. kept = [log EXCEPT ![h] = c]
    OBVIOUS
  <2> HIDE DEF c
  <2>3. /\ kept \in Seq(Commands) /\ Len(kept) = Len(log)
        /\ kept[h] = c /\ \A j \in Created \ {h} : kept[j] = log[j]
    BY <1>1, <1>2, <2>1, <2>2 DEF Created
  <2> QED BY <2>1, <2>3
<1>3. CASE h \notin Created
  <2>1. DOMAIN log = Created /\ log = [j \in Created |-> log[j]]
    BY <1>1 DEF Created
  <2>2. kept = log
    BY <1>3, <2>1
  <2> QED BY <1>1, <2>2
<1> QED BY <1>2, <1>3

\* The written command: the log with it.
LEMMA WriteStays ==
    ASSUME DeliveryInv, NEW kept \in Seq(Commands), Len(kept) = Len(log),
           \A j \in Created : /\ kept[j].kind = log[j].kind /\ kept[j].task = log[j].task
                              /\ kept[j].state = log[j].state \/ kept[j].state = "gone",
           NEW kind \in Kinds, NEW t \in Tasks \cup {NoTask}, Plausible(kind, t),
           Len(log) < MaxCommands,
           log' = Append(kept, [kind |-> kind, task |-> t, state |-> "pending"]),
           UNCHANGED effects
    PROVE  /\ Grows /\ LogInv' /\ log' \in Seq(Commands) /\ effects' \in [Ids -> Nat]
           /\ \A j \in Created : log'[j].state = log[j].state \/ log'[j].state = "gone"
           /\ \A j \in Created' \ Created : j \in Ids /\ log'[j].state = "pending"
<1> DEFINE n == Len(log) + 1
           c == [kind |-> kind, task |-> t, state |-> "pending"]
<1>1. /\ Len(log) \in Nat /\ MaxCommands \in Nat /\ effects \in [Ids -> Nat] /\ Created \subseteq Ids
      /\ Created = 1..Len(log)
  BY LogTypes DEF Created
<1>2. c \in Commands /\ c.kind = kind /\ c.task = t /\ c.state = "pending"
  BY DEF Commands
<1> HIDE DEF c
<1>3. log' = Append(kept, c)
  BY DEF c
<1>4. /\ log' \in Seq(Commands) /\ Len(log') = n /\ log'[n] = c
      /\ \A j \in Created : log'[j] = kept[j]
  BY <1>1, <1>2, <1>3
<1>5. n \notin Created /\ Created' = Created \cup {n} /\ n <= MaxCommands
  BY <1>1, <1>4 DEF Created
<1> HIDE DEF n
<1>6. \A j \in Created : log'[j].kind = log[j].kind /\ log'[j].task = log[j].task
  BY <1>4
<1>7. \A j \in Created : log'[j].state = log[j].state \/ log'[j].state = "gone"
  BY <1>4
<1>8. log'[n].kind = kind /\ log'[n].task = t /\ log'[n].state = "pending"
  BY <1>2, <1>4
<1>9. Grows
  <2>1. Len(log') >= Len(log)
    BY <1>1, <1>4 DEF n
  <2> QED BY <1>1, <1>6, <1>7, <2>1 DEF Grows
<1>10. AckedTookEffect'
  BY <1>5, <1>7, <1>8 DEF DeliveryInv, LogInv, AckedTookEffect
<1>11. ASSUME NEW j \in Created'
       PROVE  /\ log'[j].kind = "shutdown" <=> log'[j].task = NoTask
              /\ log'[j].kind = "shutdown" => log'[j].state # "rejected"
  <2>1. CASE j \in Created
    BY <1>6, <1>7, <2>1 DEF DeliveryInv, LogInv
  <2>2. CASE j = n
    <3>1. kind = "shutdown" <=> t = NoTask
      <4>1. \A s \in Started : s # NoTask
        BY DEF Started, DeliveryInv, LogInv
      <4> QED BY <4>1, DeliveryConstants DEF Plausible
    <3> QED BY <1>8, <2>2, <3>1
  <2> QED BY <1>5, <2>1, <2>2
<1>12. ASSUME NEW j \in Created', NEW k \in Created',
              log'[j].kind = "start", log'[k].kind = "start", log'[j].task = log'[k].task
       PROVE  j = k
  <2>1. CASE j \in Created /\ k \in Created
    BY <1>6, <1>12, <2>1 DEF DeliveryInv, LogInv, IsStart
  <2>2. \A l \in Created : log[l].kind = "start" => log[l].task \in Started
    BY DEF Started
  <2>3. \A l \in Created : kind = "start" /\ log[l].kind = "start" => log[l].task # t
    BY <2>2 DEF Plausible
  <2>4. CASE j = n /\ k \in Created
    BY <1>6, <1>8, <1>12, <2>3, <2>4
  <2>5. CASE j \in Created /\ k = n
    BY <1>6, <1>8, <1>12, <2>3, <2>5
  <2> QED BY <1>5, <2>1, <2>4, <2>5
<1>13. LogInv'
  <2>1. \A i \in Ids : effects'[i] >= 1 => i \in Created'
    BY <1>5 DEF DeliveryInv, LogInv
  <2>2. \A i, j \in Created' : IsStart(i)' /\ IsStart(j)' /\ log'[i].task = log'[j].task => i = j
    BY <1>12 DEF IsStart
  <2>3. Len(log') <= MaxCommands
    BY <1>4, <1>5
  <2> QED BY <1>10, <1>11, <2>1, <2>2, <2>3 DEF LogInv
<1>14. n \in Ids
  BY <1>1, <1>5 DEF Ids, n
<1> QED BY <1>1, <1>4, <1>5, <1>7, <1>8, <1>9, <1>13, <1>14

\* CreateBatch.
LEMMA CreateBatchStays ==
    ASSUME DeliveryInv, NEW kind \in Kinds, NEW t \in Tasks \cup {NoTask}, CreateBatch(kind, t)
    PROVE  /\ DeliveryInv' /\ Grows
           /\ \A j \in Created : log'[j].state = log[j].state \/ log'[j].state = "gone"
           /\ \A j \in Created' \ Created : j \in Ids /\ log'[j].state = "pending"
<1> DEFINE full == Cardinality(Stored) >= StoreCapacity
           kept == IF full THEN [log EXCEPT ![Head(terminal)].state = "gone"] ELSE log
<1>0. /\ UNCHANGED <<ended, acks, queue, checked, starting, deferred, slot, running, outbox,
                     notify, shutdown, alive, effects, drops, restarts>>
      /\ Len(log) < MaxCommands /\ Plausible(kind, t)
      /\ full => terminal # <<>>
      /\ log' = Append(kept, [kind |-> kind, task |-> t, state |-> "pending"])
      /\ terminal' = IF full THEN Tail(terminal) ELSE terminal
      /\ session' = [session EXCEPT !.wake = session.up]
  BY DEF CreateBatch, execVars, slotVars, outVars, hostVars, bounds
<1> HIDE DEF full
<1>1. terminal \in Seq(Ids)
  BY DEF DeliveryInv, TypeOK
<1>2. full => Head(terminal) \in Ids /\ Tail(terminal) \in Seq(Ids)
  BY <1>0, <1>1, TailStays
<1>3. /\ kept \in Seq(Commands) /\ Len(kept) = Len(log)
      /\ \A j \in Created : /\ kept[j].kind = log[j].kind /\ kept[j].task = log[j].task
                            /\ kept[j].state = log[j].state \/ kept[j].state = "gone"
  <2>1. CASE full
    <3>1. kept = [log EXCEPT ![Head(terminal)].state = "gone"]
      BY <2>1
    <3> HIDE DEF kept
    <3> QED BY <1>2, <2>1, <3>1, EvictStays
  <2>2. CASE ~full
    BY <2>2, LogTypes
  <2> QED BY <2>1, <2>2
<1> HIDE DEF kept
<1>4. /\ Grows /\ LogInv' /\ log' \in Seq(Commands) /\ effects' \in [Ids -> Nat]
      /\ \A j \in Created : log'[j].state = log[j].state \/ log'[j].state = "gone"
      /\ \A j \in Created' \ Created : j \in Ids /\ log'[j].state = "pending"
  BY <1>0, <1>3, WriteStays
<1>5. /\ session' \in Sessions /\ (~session'.up => session' = NoSession)
      /\ session'.batch = session.batch /\ session'.control = session.control
  <2>1. session \in Sessions /\ (~session.up => session = NoSession)
    BY DEF DeliveryInv, TypeOK
  <2>2. ASSUME NEW s \in Sessions, NEW b \in BOOLEAN, NEW u, u = [s EXCEPT !.wake = b]
        PROVE  /\ u \in Sessions /\ u.up = s.up /\ u.batch = s.batch /\ u.control = s.control
               /\ s.wake = b => u = s
    BY <2>2 DEF Sessions
  <2>3. session.up \in BOOLEAN
    BY <2>1, SessionFields
  <2>4. /\ session' \in Sessions /\ session'.up = session.up
        /\ session'.batch = session.batch /\ session'.control = session.control
        /\ session.wake = session.up => session' = session
    BY <1>0, <2>1, <2>2, <2>3
  <2> QED BY <2>1, <2>3, <2>4, NoSessionIs
<1>6. TypeOK'
  <2>1. terminal' \in Seq(Ids)
    BY <1>0, <1>1, <1>2
  <2> QED BY <1>0, <1>4, <1>5, <2>1 DEF DeliveryInv, TypeOK
<1>7. WireInv'
  BY <1>0, <1>4, <1>5, GrownQueues DEF WireInv
<1>8. HostInv'
  BY <1>0, <1>4, SameHost
<1> QED BY <1>4, <1>6, <1>7, <1>8, Together

-----------------------------------------------------------------------------
\* sendLoop, one command.
LEMMA SendCommandStays ==
    ASSUME DeliveryInv, SendCommand
    PROVE  DeliveryInv'
<1> DEFINE i == Head(session.batch)
           b == Tail(session.batch)
           f == session.inflight \ {i}
<1>0. /\ UNCHANGED <<ended, acks, checked, starting, deferred, slot, running, outbox, notify,
                     shutdown, alive, effects, drops, restarts>>
      /\ session.batch # <<>>
      /\ \/ /\ log[i].kind = "start"
            /\ Acknowledge(i, "rejected")
            /\ session' = [session EXCEPT !.batch = b, !.inflight = f, !.wake = TRUE]
            /\ queue' = queue
         \/ /\ session' = [session EXCEPT !.batch = b]
            /\ queue' = Append(queue, [id |-> i, live |-> TRUE])
            /\ UNCHANGED <<log, terminal>>
  BY DEF SendCommand, slotVars, outVars, hostVars, bounds
<1>1. session \in Sessions /\ session.batch \in Seq(Created) /\ session.up
      /\ terminal \in Seq(Ids)
  BY <1>0, NoSessionIs DEF DeliveryInv, TypeOK, WireInv
<1>2. i \in Created /\ i \in Ids /\ b \in Seq(Created) /\ b \in Seq(Ids) /\ f \in SUBSET Ids
  <2>1. i \in Created /\ b \in Seq(Created)
    BY <1>0, <1>1, TailStays
  <2> QED BY <1>1, <2>1, LogTypes, SeqGrows, SessionFields
<1> HIDE DEF i, b, f
<1>3. /\ Grows /\ LogInv' /\ log' \in Seq(Commands) /\ effects' \in [Ids -> Nat]
      /\ terminal' \in Seq(Ids)
  <2>1. CASE UNCHANGED <<log, terminal>>
    BY <1>0, <1>1, <2>1, SameLog
  <2>2. CASE log[i].kind = "start" /\ Acknowledge(i, "rejected")
    BY <1>0, <1>2, <2>2, AcknowledgeStays
  <2> QED BY <1>0, <2>1, <2>2
<1>4. session' \in Sessions /\ session'.up /\ session'.batch = b
      /\ session'.control = session.control
  <2>2. CASE session' = [session EXCEPT !.batch = b, !.inflight = f, !.wake = TRUE]
    BY <1>1, <1>2, <2>2 DEF Sessions
  <2>3. CASE session' = [session EXCEPT !.batch = b]
    BY <1>1, <1>2, <2>3 DEF Sessions
  <2> QED BY <1>0, <2>2, <2>3
<1>5. queue' \in Seq(GoodRequests')
  <2>1. queue \in Seq(GoodRequests')
    BY <1>3, GrownQueues
  <2>2. [id |-> i, live |-> TRUE] \in GoodRequests'
    <3>1. [id |-> i, live |-> TRUE] \in GoodRequests
      BY <1>2 DEF GoodRequests, Request
    <3> QED BY <1>3, <3>1, GrownSets
  <2> QED BY <1>0, <2>1, <2>2, AppendStays
<1>6. TypeOK'
  <2>1. queue' \in Seq(Request)
    BY <1>5, GoodTypes
  <2> QED BY <1>0, <1>3, <1>4, <2>1 DEF DeliveryInv, TypeOK
<1>7. WireInv'
  <2>1. b \in Seq(Created')
    BY <1>2, <1>3, GrownSets, SeqGrows
  <2> QED BY <1>0, <1>3, <1>4, <1>5, <2>1, GrownQueues DEF WireInv
<1>8. HostInv'
  BY <1>0, <1>3, SameHost
<1> QED BY <1>3, <1>6, <1>7, <1>8, Together

\* An ACK is on a stream only while there is a session.
LinkUp == acks # <<>> => session.up

\* handleEvent, a CommandAck.
LEMMA HandleAckStays ==
    ASSUME DeliveryInv, LinkUp, HandleAck
    PROVE  DeliveryInv'
<1> DEFINE ack == Head(acks)
           i == ack.id
           to == IF ack.status = "rejected" THEN "rejected" ELSE "acked"
           f == session.inflight \ {i}
           q == Append(session.control, i)
           known == log[i].state # "gone"
<1>0. /\ UNCHANGED <<slot, running, outbox, notify, shutdown, alive, effects, drops, restarts>>
      /\ acks # <<>>
      /\ \/ /\ known /\ Acknowledge(i, to)
            /\ ended' = IF to = "rejected" THEN ended \cup {log[i].task} ELSE ended
         \/ ~known /\ UNCHANGED <<log, terminal, ended>>
      /\ \/ /\ known
            /\ session' = [session EXCEPT !.inflight = f, !.wake = TRUE, !.control = q]
            /\ acks' = Tail(acks)
            /\ UNCHANGED <<queue, checked, starting, deferred>>
         \/ Disconnected
  BY DEF HandleAck, adminVars, execVars, slotVars, outVars, hostVars, bounds
<1>1. /\ ack \in GoodAcks /\ Tail(acks) \in Seq(GoodAcks)
      /\ terminal \in Seq(Ids) /\ ended \subseteq Tasks
      /\ session \in Sessions /\ session.up
  BY <1>0, TailStays DEF DeliveryInv, TypeOK, WireInv, LinkUp
<1>2. /\ i \in Created /\ i \in Ids /\ to \in {"acked", "rejected"}
      /\ to = "acked" => effects[i] >= 1
      /\ to = "rejected" => log[i].kind # "shutdown"
  BY <1>1, LogTypes DEF GoodAcks, Tellable
<1>3. f \in SUBSET Ids /\ q \in Seq(Ids) /\ session.control \in Seq(Settled)
  BY <1>1, <1>2, SessionFields, AppendStays DEF DeliveryInv, WireInv
<1> HIDE DEF ack, i, to, f
<1>4. /\ Grows /\ LogInv' /\ log' \in Seq(Commands) /\ effects' \in [Ids -> Nat]
      /\ terminal' \in Seq(Ids) /\ i \in Settled'
  <2>1. CASE ~known /\ UNCHANGED <<log, terminal, ended>>
    BY <1>0, <1>1, <1>2, <2>1, SameLog DEF Settled, Created
  <2>2. CASE Acknowledge(i, to)
    BY <1>0, <1>2, <2>2, AcknowledgeStays
  <2> QED BY <1>0, <2>1, <2>2
<1> HIDE DEF q, known
<1>5. ended' \subseteq Tasks
  <2>1. log[i].kind # "shutdown" => log[i].task \in Tasks
    <3>1. log[i].task \in Tasks \cup {NoTask}
      BY <1>2, LogTypes DEF Commands
    <3> QED BY <1>2, <3>1 DEF DeliveryInv, LogInv
  <2> QED BY <1>0, <1>1, <1>2, <2>1
<1>6. CASE Disconnected
  <2>1. /\ session' = NoSession /\ acks' = <<>> /\ queue' \in Seq(GoodRequests')
        /\ checked' \in Request \cup {NoRequest} /\ starting' \in [Ids -> Starts]
        /\ deferred' \in [Ids -> Request \cup {NoRequest}] /\ HostInv'
    BY <1>0, <1>4, <1>6, DisconnectedStays
  <2>2. queue' \in Seq(Request)
    BY <2>1, GoodTypes
  <2>3. TypeOK'
    BY <1>0, <1>4, <1>5, <2>1, <2>2, NoSessionIs DEF DeliveryInv, TypeOK
  <2>4. WireInv'
    BY <1>0, <1>4, <2>1, GrownQueues, NoSessionIs DEF WireInv
  <2> QED BY <1>4, <2>1, <2>3, <2>4, Together
<1>7. CASE /\ session' = [session EXCEPT !.inflight = f, !.wake = TRUE, !.control = q]
           /\ acks' = Tail(acks)
           /\ UNCHANGED <<queue, checked, starting, deferred>>
  <2>1. /\ session' \in Sessions /\ session'.up /\ session'.batch = session.batch
        /\ session'.control = q
    BY <1>1, <1>3, <1>7 DEF Sessions
  <2>2. q \in Seq(Settled')
    <3>1. session.control \in Seq(Settled')
      BY <1>3, <1>4, GrownQueues
    <3> QED BY <1>4, <3>1, AppendStays DEF q
  <2>3. Tail(acks) \in Seq(GoodAcks')
    BY <1>1, <1>4, GrownSets, SeqGrows
  <2>4. TypeOK'
    <3>1. acks' \in Seq(Acks)
      BY <1>7, <2>3, GoodTypes
    <3> QED BY <1>0, <1>4, <1>5, <1>7, <2>1, <3>1 DEF DeliveryInv, TypeOK
  <2>5. WireInv'
    BY <1>0, <1>4, <1>7, <2>1, <2>2, <2>3, GrownQueues DEF WireInv
  <2>6. HostInv'
    BY <1>0, <1>4, <1>7, SameHost
  <2> QED BY <1>4, <2>4, <2>5, <2>6, Together
<1> QED BY <1>0, <1>6, <1>7

-----------------------------------------------------------------------------
(* The invariant and the theorems. *)

\* Only Connect and SendOutcomes start something on the stream, and what ends
\* a session empties it.
LEMMA LinkStays ==
    ASSUME DeliveryInv, LinkUp, Next
    PROVE  LinkUp'
<1> USE DEF LinkUp
<1>1. CASE UNCHANGED linkVars
  BY <1>1 DEF linkVars
<1>2. CASE Disconnected
  BY <1>2 DEF Disconnected
<1>3. ASSUME acks' # <<>> => acks # <<>> \/ session.up, session'.up = session.up
      PROVE  LinkUp'
  BY <1>3
<1>4. session \in Sessions
  BY DEF DeliveryInv, TypeOK
<1>5. ASSUME NEW kind \in Kinds, NEW t \in Tasks \cup {NoTask}, CreateBatch(kind, t)
      PROVE  LinkUp'
  <2>1. session'.up = session.up /\ acks' = acks
    BY <1>4, <1>5 DEF CreateBatch, Sessions
  <2> QED BY <1>3, <2>1
<1>6. CASE Connect
  <2>1. acks' = acks /\ ~session.up
    BY <1>6 DEF Connect
  <2> QED BY <2>1
<1>7. CASE PendingBatch
  <2>1. session'.up = session.up /\ acks' = acks
    BY <1>4, <1>7 DEF PendingBatch, Sessions
  <2> QED BY <1>3, <2>1
<1>8. CASE SendCommand
  <2>1. session'.up = session.up /\ acks' = acks
    BY <1>4, <1>8 DEF SendCommand, Sessions
  <2> QED BY <1>3, <2>1
<1>9. CASE SendReceipt
  <2>1. session'.up = session.up /\ acks' = acks
    BY <1>4, <1>9 DEF SendReceipt, Sessions
  <2> QED BY <1>3, <2>1
<1>10. CASE HandleAck
  <2>1. acks # <<>>
    BY <1>10 DEF HandleAck
  <2>2. Disconnected \/ session'.up = session.up
    BY <1>4, <1>10 DEF HandleAck, Sessions
  <2> QED BY <1>2, <1>3, <2>1, <2>2
<1>11. CASE SendOutcomes
  BY <1>11 DEF SendOutcomes
<1>12. CASE Drop \/ Exit
  BY <1>2, <1>12 DEF Drop, Exit
<1>13. ASSUME NEW t \in Tasks, TaskEnds(t)
       PROVE  LinkUp'
  BY <1>1, <1>13 DEF TaskEnds
<1>14. CASE ExecuteStep \/ RunEnds
  BY <1>1, <1>14 DEF ExecuteStep, ExecuteKnown, ExecuteStart, ExecuteStop, ExecuteShutdown,
     BeginDeferred, BeginBusy, BeginReserves, RunEnds
<1>15. ASSUME NEW i \in Ids, StarterStep(i)
       PROVE  LinkUp'
  BY <1>1, <1>15 DEF StarterStep, SessionInterrupts, Launch, PrepareCancelled, PrepareRefused,
     PrepareFails, LaunchChecked
<1> QED BY <1>5, <1>6, <1>7, <1>8, <1>9, <1>10, <1>11, <1>12, <1>13, <1>14, <1>15
        DEF Next, SendStep

\* A fresh admin and a fresh agent.
LEMMA DeliveryInit ==
    ASSUME Init
    PROVE  DeliveryInv /\ LinkUp
<1> USE DeliveryConstants DEF Init
<1>1. LinkUp
  BY DEF LinkUp
<1>2. Created = {} /\ Settled = {}
  BY DEF Created, Settled
<1>3. TypeOK
  <2>1. checked \in Request \cup {NoRequest} /\ slot \in Ids \cup {None}
        /\ shutdown \in Ids \cup {None}
    OBVIOUS
  <2>2. starting \in [Ids -> Starts]
    BY NoStartIs
  <2>3. deferred \in [Ids -> Request \cup {NoRequest}] /\ effects \in [Ids -> Nat]
    OBVIOUS
  <2>4. drops \in 0..MaxDrops /\ restarts \in 0..MaxRestarts
    OBVIOUS
  <2>5. /\ log \in Seq(Commands) /\ terminal \in Seq(Ids) /\ acks \in Seq(Acks)
        /\ queue \in Seq(Request) /\ outbox \in Seq(Outcomes) /\ ended \subseteq Tasks
    OBVIOUS
  <2>6. session \in Sessions /\ (~session.up => session = NoSession)
    BY NoSessionIs
  <2>7. running = FALSE /\ notify = FALSE /\ alive = TRUE
    OBVIOUS
  <2> QED BY ONLY <2>1, <2>2, <2>3, <2>4, <2>5, <2>6, <2>7 DEF TypeOK
<1>4. LogInv
  <2>1. Len(log) <= MaxCommands
    OBVIOUS
  <2>2. \A i \in Ids : ~(effects[i] >= 1)
    OBVIOUS
  <2> QED BY <1>2, <2>1, <2>2 DEF LogInv, AckedTookEffect
<1>5. WireInv
  BY NoSessionIs DEF WireInv
<1>6. HostInv
  <2>1. \A i \in Ids : starting[i] = NoStart /\ deferred[i] = NoRequest
    OBVIOUS
  <2>2. \A i \in Ids : starting[i].at = "no"
    BY <2>1, NoStartIs
  <2> QED BY <2>1, <2>2 DEF HostInv
<1> QED BY <1>1, <1>3, <1>4, <1>5, <1>6 DEF DeliveryInv

\* Every step keeps the invariant.
LEMMA DeliveryNext ==
    ASSUME DeliveryInv, LinkUp, [Next]_vars
    PROVE  DeliveryInv' /\ LinkUp'
<1>1. CASE UNCHANGED vars
  <2>1. UNCHANGED <<log, terminal, ended, session, acks, queue, checked, starting, deferred,
                    slot, running, outbox, notify, shutdown, alive, effects, drops, restarts>>
    BY <1>1 DEF vars, adminVars, linkVars, execVars, slotVars, outVars, hostVars, bounds
  <2>2. TypeOK' /\ LinkUp'
    BY <2>1 DEF DeliveryInv, TypeOK, LinkUp
  <2>3. Grows /\ LogInv' /\ log' \in Seq(Commands) /\ effects' \in [Ids -> Nat]
    BY <2>1, SameLog
  <2>4. WireInv'
    BY <2>1, <2>3, GrownQueues DEF WireInv
  <2>5. HostInv'
    BY <2>1, <2>3, SameHost
  <2> QED BY <2>2, <2>3, <2>4, <2>5, Together
<1>2. CASE Next
  <2>1. DeliveryInv'
    <3>1. ASSUME NEW kind \in Kinds, NEW t \in Tasks \cup {NoTask}, CreateBatch(kind, t)
          PROVE  DeliveryInv'
      BY <3>1, CreateBatchStays
    <3>2. ASSUME NEW t \in Tasks, TaskEnds(t)
          PROVE  DeliveryInv'
      BY <3>2, TaskEndsStays
    <3>3. CASE Connect
      BY <3>3, ConnectStays
    <3>4. CASE Drop \/ Exit
      BY <3>4, DropStays
    <3>5. CASE SendStep
      BY <3>5, PendingBatchStays, SendCommandStays, SendReceiptStays DEF SendStep
    <3>6. CASE HandleAck
      BY <3>6, HandleAckStays
    <3>7. CASE SendOutcomes
      BY <3>7, SendOutcomesStays
    <3>8. CASE ExecuteStep
      BY <3>8, ExecuteKnownStays, ExecuteStartStays, ExecuteStopStays, ExecuteShutdownStays,
         BeginDeferredStays, BeginBusyStays, BeginReservesStays DEF ExecuteStep
    <3>9. ASSUME NEW i \in Ids, StarterStep(i)
          PROVE  DeliveryInv'
      BY <3>9, SessionInterruptsStays, LaunchStays, PrepareStays DEF StarterStep
    <3>10. CASE RunEnds
      BY <3>10, RunEndsStays
    <3> QED BY <1>2, <3>1, <3>2, <3>3, <3>4, <3>5, <3>6, <3>7, <3>8, <3>9, <3>10 DEF Next
  <2> QED BY <1>2, <2>1, LinkStays
<1> QED BY <1>1, <1>2

\* The state has its types: what is queued, on the stream or retained is about
\* commands that exist, a session that is gone leaves nothing behind, and no
\* run is alive without the slot that cancels it.
THEOREM DeliveryTypeCorrect == Spec => []TypeOK
<1>1. Init => DeliveryInv /\ LinkUp
  BY DeliveryInit
<1>2. DeliveryInv /\ LinkUp /\ [Next]_vars => DeliveryInv' /\ LinkUp'
  BY DeliveryNext
<1>3. DeliveryInv => TypeOK
  BY DEF DeliveryInv
<1> QED BY <1>1, <1>2, <1>3, PTL DEF Spec

\* A command that the log lists as acked took effect in the agent, however
\* often it and its ACK were sent, lost and sent again.
THEOREM DeliveryAckedTookEffect == Spec => []AckedTookEffect
<1>1. Init => DeliveryInv /\ LinkUp
  BY DeliveryInit
<1>2. DeliveryInv /\ LinkUp /\ [Next]_vars => DeliveryInv' /\ LinkUp'
  BY DeliveryNext
<1>3. DeliveryInv => AckedTookEffect
  BY DEF DeliveryInv, LogInv
<1> QED BY <1>1, <1>2, <1>3, PTL DEF Spec

\* What forgets the Shutdown that is prepared is its own receipt, and the log
\* holds an ACK for whatever has a receipt.
LEMMA OnlyTheReceipt ==
    ASSUME DeliveryInv, [Next]_vars, shutdown # None, shutdown' = None
    PROVE  log[shutdown].state \in {"acked", "gone"}
<1>1. SendReceipt
  <2>1. 0 \notin Ids
    BY DEF Ids
  <2>2. ~ExecuteShutdown
    <3>1. ASSUME ExecuteShutdown
          PROVE  shutdown' \in Ids
      BY <3>1, QueueHead DEF ExecuteShutdown
    <3> QED BY <2>1, <3>1 DEF None
  <2>3. shutdown' # shutdown
    OBVIOUS
  <2>4. [Next]_vars => SendReceipt \/ ExecuteShutdown \/ shutdown' = shutdown
    BY DEF Next, SendStep, ExecuteStep, StarterStep, CreateBatch, TaskEnds, Connect, Drop, Exit,
       PendingBatch, SendCommand, HandleAck, SendOutcomes, ExecuteKnown, ExecuteStart,
       ExecuteStop, BeginDeferred, BeginBusy, BeginReserves, SessionInterrupts, Launch,
       PrepareCancelled, PrepareRefused, PrepareFails, LaunchChecked, RunEnds, vars, hostVars
  <2> QED BY <2>2, <2>3, <2>4
<1>2. shutdown = Head(session.control) /\ session.control # <<>>
  BY <1>1 DEF SendReceipt
<1>3. shutdown \in Settled
  BY <1>2, TailStays DEF DeliveryInv, WireInv
<1>4. shutdown \in Created /\ log[shutdown] \in Commands /\ log[shutdown].kind = "shutdown"
  BY <1>3, LogTypes DEF DeliveryInv, HostInv, Settled
<1>5. log[shutdown].state \in {"pending", "acked", "rejected", "gone"}
  BY <1>4, CommandFields
<1> QED BY <1>3, <1>4, <1>5 DEF DeliveryInv, LogInv, Settled

\* The agent ends its process for a Shutdown only when the log holds the ACK of
\* that very command.
THEOREM DeliveryShutdownAfterAck == Spec => ShutdownAfterAck
<1>1. Init => DeliveryInv /\ LinkUp
  BY DeliveryInit
<1>2. DeliveryInv /\ LinkUp /\ [Next]_vars => DeliveryInv' /\ LinkUp'
  BY DeliveryNext
<1>3. DeliveryInv /\ [Next]_vars =>
        [shutdown # None /\ shutdown' = None => log[shutdown].state \in {"acked", "gone"}]_vars
  BY OnlyTheReceipt
<1> QED BY <1>1, <1>2, <1>3, PTL DEF Spec, ShutdownAfterAck

-----------------------------------------------------------------------------
(* The first outcome of a command stays, while none is evicted. *)

\* A step that loses no outcome and keeps one of each command.
Retains == Unique' /\ Verdicts \subseteq Verdicts'

\* The same outcomes in another order.
LEMMA RearrangedIsKept ==
    ASSUME Unique, NEW D, NEW from \in [D -> D],
           DOMAIN outbox = D, DOMAIN outbox' = D,
           \A l \in D : /\ outbox'[l].id = outbox[from[l]].id
                        /\ outbox'[l].status = outbox[from[l]].status,
           \A k, l \in D : from[k] = from[l] => k = l,
           \A k \in D : \E l \in D : from[l] = k
    PROVE  Retains /\ \A j : Recorded(j) => Recorded(j)'
<1>0. \A l \in D : from[l] \in D
  OBVIOUS
<1>1. Unique'
  <2> SUFFICES ASSUME NEW k \in D, NEW l \in D, outbox'[k].id = outbox'[l].id
               PROVE  k = l
    BY DEF Unique
  <2>1. outbox[from[k]].id = outbox[from[l]].id
    OBVIOUS
  <2> QED BY <1>0, <2>1 DEF Unique
<1>2. Verdicts \subseteq Verdicts'
  <2> SUFFICES ASSUME NEW v \in Verdicts
               PROVE  v \in Verdicts'
    OBVIOUS
  <2>1. PICK k \in D : v = <<outbox[k].id, outbox[k].status>>
    BY DEF Verdicts
  <2>2. PICK l \in D : from[l] = k
    OBVIOUS
  <2>3. v = <<outbox'[l].id, outbox'[l].status>>
    BY <2>1, <2>2
  <2> QED BY <2>3 DEF Verdicts
<1>3. ASSUME NEW j, Recorded(j)
      PROVE  Recorded(j)'
  <2>1. PICK k \in D : outbox[k].id = j
    BY <1>3 DEF Recorded
  <2>2. PICK l \in D : from[l] = k
    OBVIOUS
  <2>3. outbox'[l].id = j
    BY <2>1, <2>2
  <2> QED BY <2>3 DEF Recorded
<1> QED BY <1>1, <1>2, <1>3 DEF Retains

\* An outcome that moves to the front is the same outcome.
LEMMA MovedIsKept ==
    ASSUME DeliveryInv, Unique, NEW i, Recorded(i), NEW b \in BOOLEAN,
           outbox' = Append(Without(i), [Outcome(i) EXCEPT !.pending = b])
    PROVE  Retains /\ \A j : Recorded(j) => Recorded(j)'
<1> DEFINE p == Position(i)
           n == Len(outbox)
           w == RemoveAt(outbox, p)
           o == [outbox[p] EXCEPT !.pending = b]
<1>1. /\ outbox \in Seq(Outcomes) /\ n \in Nat /\ DOMAIN outbox = 1..n
      /\ p \in 1..n /\ outbox[p].id = i
  BY PositionFound DEF DeliveryInv, TypeOK
<1>2. outbox' = Append(w, o)
  BY DEF Without, Outcome
<1>3. o \in Outcomes /\ o.id = outbox[p].id /\ o.status = outbox[p].status
  BY <1>1, OutcomeFields
<1> HIDE DEF p, o
<1>4. /\ w \in Seq(Outcomes) /\ Len(w) = n - 1
      /\ \A l \in 1..(n - 1) : w[l] = IF l < p THEN outbox[l] ELSE outbox[l + 1]
  BY <1>1, RemoveAtProps
<1> HIDE DEF w
<1>5. /\ DOMAIN outbox' = 1..n /\ outbox'[n] = o
      /\ \A l \in 1..(n - 1) : outbox'[l] = IF l < p THEN outbox[l] ELSE outbox[l + 1]
  <2>1. /\ Len(Append(w, o)) = n /\ DOMAIN Append(w, o) = 1..n /\ Append(w, o)[n] = o
        /\ \A l \in 1..(n - 1) : Append(w, o)[l] = w[l]
    <3>1. /\ Len(Append(w, o)) = Len(w) + 1 /\ DOMAIN Append(w, o) = 1..(Len(w) + 1)
          /\ Append(w, o)[Len(w) + 1] = o
          /\ \A l \in 1..Len(w) : Append(w, o)[l] = w[l]
      <4> HIDE DEF n
      <4> QED BY <1>3, <1>4
    <3>2. Len(w) + 1 = n
      BY <1>1, <1>4
    <3> HIDE DEF n
    <3> QED BY <1>4, <3>1, <3>2
  <2> QED BY <1>2, <1>4, <2>1
\* Where the outcome now at place l was.
<1> DEFINE from == [l \in 1..n |-> IF l = n THEN p ELSE IF l < p THEN l ELSE l + 1]
<1> HIDE DEF n
<1>6. ASSUME NEW l \in 1..n
      PROVE  /\ from[l] \in 1..n
             /\ outbox'[l].id = outbox[from[l]].id /\ outbox'[l].status = outbox[from[l]].status
  <2>1. CASE l = n
    BY <1>1, <1>3, <1>5, <2>1
  <2>2. CASE l # n
    <3>1. l \in 1..(n - 1)
      BY <1>1, <2>2
    <3>2. from[l] = (IF l < p THEN l ELSE l + 1) /\ from[l] \in 1..n
      BY <1>1, <2>2
    <3> QED BY <1>5, <3>1, <3>2
  <2> QED BY <2>1, <2>2
<1>7. \A k, l \in 1..n : from[k] = from[l] => k = l
  BY <1>1
<1>8. \A k \in 1..n : \E l \in 1..n : from[l] = k
  <2> TAKE k \in 1..n
  <2>1. CASE k = p
    <3>1. from[n] = k /\ n \in 1..n
      BY <1>1, <2>1
    <3> QED BY <3>1
  <2>2. CASE k < p
    <3>1. from[k] = k
      BY <1>1, <2>2
    <3> QED BY <3>1
  <2>3. CASE k > p
    <3>1. from[k - 1] = k /\ k - 1 \in 1..n
      BY <1>1, <2>3
    <3> QED BY <3>1
  <2> QED BY <1>1, <2>1, <2>2, <2>3
<1>9. from \in [1..n -> 1..n]
  BY <1>6
<1> HIDE DEF from
<1>10. \A l \in 1..n : /\ outbox'[l].id = outbox[from[l]].id
                       /\ outbox'[l].status = outbox[from[l]].status
  BY <1>6
<1>11. DOMAIN outbox = 1..n /\ DOMAIN outbox' = 1..n
  BY <1>1, <1>5
<1> QED BY <1>7, <1>8, <1>9, <1>10, <1>11, RearrangedIsKept

\* A new outcome of a command without one.
LEMMA AddedIsKept ==
    ASSUME DeliveryInv, Unique, NEW i \in Ids, NEW status \in Statuses, ~Recorded(i),
           outbox' = Append(outbox, [id |-> i, status |-> status, pending |-> TRUE])
    PROVE  Retains /\ Recorded(i)' /\ \A j : Recorded(j) => Recorded(j)'
<1> DEFINE n == Len(outbox)
           o == [id |-> i, status |-> status, pending |-> TRUE]
<1>1. outbox \in Seq(Outcomes) /\ n \in Nat /\ DOMAIN outbox = 1..n
  BY DEF DeliveryInv, TypeOK
<1>2. o \in Outcomes /\ o.id = i /\ o.status = status
  BY DEF Outcomes
<1> HIDE DEF o
<1>3. /\ DOMAIN outbox' = 1..(n + 1) /\ outbox'[n + 1] = o
      /\ \A k \in 1..n : outbox'[k] = outbox[k]
  <2>1. outbox' = Append(outbox, o)
    BY DEF o
  <2> QED BY <1>1, <1>2, <2>1
<1> HIDE DEF n
<1>4. \A k \in 1..(n + 1) : k \in 1..n \/ k = n + 1
  BY <1>1
<1>5. 1..n \subseteq 1..(n + 1) /\ n + 1 \in 1..(n + 1)
  BY <1>1
<1>6. \A k \in 1..n : outbox[k].id # i
  BY <1>1 DEF Recorded
<1>7. Unique'
  BY <1>1, <1>2, <1>3, <1>4, <1>6 DEF Unique
<1>8. Verdicts \subseteq Verdicts'
  BY <1>1, <1>3, <1>5 DEF Verdicts
<1>9. Recorded(i)' /\ \A j : Recorded(j) => Recorded(j)'
  BY <1>1, <1>2, <1>3, <1>5 DEF Recorded
<1> QED BY <1>7, <1>8, <1>9 DEF Retains

\* A command without an outcome finds room: the outcomes are of as many other
\* commands.
LEMMA RoomLeft ==
    ASSUME DeliveryInv, Unique, NEW i \in Ids, ~Recorded(i)
    PROVE  Len(outbox) < MaxCommands
<1> DEFINE n == Len(outbox)
           S == 1..n
           T == Ids \ {i}
           f == [k \in S |-> outbox[k].id]
<1>1. outbox \in Seq(Outcomes) /\ n \in Nat /\ DOMAIN outbox = S /\ MaxCommands \in Nat
  BY LogTypes DEF DeliveryInv, TypeOK
<1>2. /\ IsFiniteSet(Ids) /\ Cardinality(Ids) = MaxCommands
      /\ IsFiniteSet(S) /\ Cardinality(S) = n
  <2>1. MaxCommands \in Int /\ n \in Int /\ 1 \in Int
    BY <1>1
  <2>2. IsFiniteSet(Ids) /\ Cardinality(Ids) = IF 1 > MaxCommands THEN 0 ELSE MaxCommands - 1 + 1
    BY <2>1, FS_Interval DEF Ids
  <2>3. IsFiniteSet(S) /\ Cardinality(S) = IF 1 > n THEN 0 ELSE n - 1 + 1
    <3> HIDE DEF n
    <3> QED BY <2>1, FS_Interval
  <2> HIDE DEF n, S
  <2> QED BY <1>1, <2>2, <2>3
<1>3. IsFiniteSet(T) /\ Cardinality(T) = MaxCommands - 1
  BY <1>2, FS_RemoveElement
<1>4. f \in [S -> T] /\ \A k \in S : f[k] = outbox[k].id
  <2>1. \A k \in S : outbox[k] \in Outcomes /\ outbox[k].id # i
    BY <1>1 DEF Recorded
  <2>2. \A k \in S : outbox[k].id \in T
    BY <2>1 DEF Outcomes
  <2> HIDE DEF S, T
  <2> QED BY <2>2
<1>5. \A k, l \in S : f[k] = f[l] => k = l
  BY <1>1, <1>4 DEF Unique
<1> HIDE DEF n, S, T, f
<1>6. ~(Cardinality(T) < Cardinality(S))
  BY <1>2, <1>3, <1>4, <1>5, FS_PigeonHole
<1> QED BY <1>1, <1>2, <1>3, <1>6 DEF n

\* Record loses nothing, and leaves an outcome or a dead agent.
LEMMA RecordIsKept ==
    ASSUME DeliveryInv, Unique, MaxCommands <= OutboxCapacity,
           NEW i \in Ids, NEW status \in Statuses, Record(i, status)
    PROVE  /\ Retains /\ Recorded(i)' /\ alive' = alive
           /\ \A j : Recorded(j) => Recorded(j)'
<1>1. CASE Recorded(i) /\ Replay(i) /\ UNCHANGED alive
  <2>1. Retains /\ \A j : Recorded(j) => Recorded(j)'
    BY <1>1, MovedIsKept DEF Replay
  <2> QED BY <1>1, <2>1
<1>2. CASE ~Recorded(i)
  <2>1. Len(outbox) < OutboxCapacity
    <3>1. Len(outbox) < MaxCommands
      BY <1>2, RoomLeft
    <3>2. Len(outbox) \in Nat /\ MaxCommands \in Nat /\ OutboxCapacity \in Nat
      BY DeliveryConstants, LogTypes DEF DeliveryInv, TypeOK
    <3> QED BY <3>1, <3>2
  <2>2. /\ outbox' = Append(outbox, [id |-> i, status |-> status, pending |-> TRUE])
        /\ alive' = alive
    BY <1>2, <2>1 DEF Record
  <2> QED BY <1>2, <2>2, AddedIsKept
<1> QED BY <1>1, <1>2 DEF Record

\* The outbox is left alone.
LEMMA SameOutbox ==
    ASSUME VerdictInv, UNCHANGED outbox
    PROVE  Retains /\ \A j : Recorded(j) => Recorded(j)'
BY DEF VerdictInv, Retains, Unique, Verdicts, Recorded

\* ACKs that told an outcome still do.
LEMMA AcksStayKnown ==
    ASSUME VerdictInv, Retains
    PROVE  acks \in Seq(KnownAcks') /\ Seq(KnownAcks) \subseteq Seq(KnownAcks')
<1>1. KnownAcks \subseteq KnownAcks'
  BY DEF KnownAcks, Retains
<1> QED BY <1>1, SeqGrows DEF VerdictInv

\* What the log told stays true.
LEMMA TellsStays ==
    ASSUME VerdictInv, Retains, ended \subseteq ended', NEW j \in Created,
           log'[j].kind = log[j].kind, log'[j].task = log[j].task,
           log'[j].state = log[j].state \/ log'[j].state \in {"pending", "gone"}
    PROVE  LogTells(j)'
<1> SUFFICES ASSUME log'[j].state \in {"acked", "rejected"}
             PROVE  \/ log'[j].kind = "start" /\ log'[j].task \in ended'
                    \/ \E v \in Verdicts' :
                         v[1] = j /\ (log'[j].state = "rejected" <=> v[2] = "rejected")
  BY DEF LogTells
<1>1. LogTells(j) /\ log'[j].state = log[j].state
  BY DEF VerdictInv
<1> QED BY <1>1 DEF LogTells, Retains

\* The steps that change neither the log nor what took effect.
LEMMA QuietStays ==
    ASSUME DeliveryInv, VerdictInv, Retains, \A j : Recorded(j) => Recorded(j)',
           UNCHANGED <<log, effects>>, ended \subseteq ended',
           acks' = acks \/ acks' = <<>>, alive' => alive
    PROVE  VerdictInv'
<1>1. Created' = Created
  BY DEF Created
<1>2. acks' \in Seq(KnownAcks')
  <2>1. acks \in Seq(KnownAcks') /\ <<>> \in Seq(KnownAcks')
    BY AcksStayKnown
  <2> QED BY <2>1
<1>3. \A j \in Created : LogTells(j)'
  BY TellsStays
<1>4. \A j \in Created : DoneOnce(j)'
  BY DEF VerdictInv, DoneOnce
<1> QED BY <1>1, <1>2, <1>3, <1>4 DEF VerdictInv, Retains

\* The steps of a command that takes effect: a Start, or another command that
\* has no outcome yet and gets one.
LEMMA EffectStays ==
    ASSUME DeliveryInv, VerdictInv, Retains, \A j : Recorded(j) => Recorded(j)',
           UNCHANGED <<log, ended, acks>>, alive' => alive, NEW i \in Created, Took(i),
           \/ log[i].kind = "start"
           \/ alive /\ ~Recorded(i) /\ Recorded(i)'
    PROVE  VerdictInv'
<1>1. Created' = Created
  BY DEF Created
<1>2. acks' \in Seq(KnownAcks')
  BY AcksStayKnown
<1>3. \A j \in Created : LogTells(j)'
  BY TellsStays
<1>4. /\ effects \in [Ids -> Nat] /\ i \in Ids /\ Created \subseteq Ids
      /\ effects'[i] = effects[i] + 1 /\ \A j \in Ids \ {i} : effects'[j] = effects[j]
  BY LogTypes DEF Took
<1>5. ASSUME NEW j \in Created
      PROVE  DoneOnce(j)'
  <2>1. DoneOnce(j) /\ DoneOnce(i)
    BY DEF VerdictInv
  <2>2. CASE j # i
    BY <1>4, <2>1, <2>2 DEF DoneOnce
  <2>3. CASE j = i /\ log[i].kind = "start"
    BY <2>3 DEF DoneOnce
  <2>4. CASE j = i /\ log[i].kind # "start"
    <3>1. alive /\ ~Recorded(i) /\ Recorded(i)'
      BY <2>4
    <3>2. effects[i] = 0
      BY <1>4, <2>1, <2>4, <3>1 DEF DoneOnce
    <3>3. effects'[i] = 1
      BY <1>4, <3>2
    <3> QED BY <2>4, <3>1, <3>3 DEF DoneOnce
  <2> QED BY <2>2, <2>3, <2>4
<1> QED BY <1>1, <1>2, <1>3, <1>5 DEF VerdictInv, Retains

\* A step that settles a command and leaves the agent alone.
LEMMA LogMovesStays ==
    ASSUME DeliveryInv, VerdictInv, Grows, UNCHANGED <<outbox, effects, alive>>,
           acks' \in Seq(KnownAcks), Created \subseteq Created',
           \A j \in Created : LogTells(j)',
           \A j \in Created' \ Created : j \in Ids /\ log'[j].state = "pending"
    PROVE  VerdictInv'
<1>1. Retains /\ \A j : Recorded(j) => Recorded(j)'
  BY SameOutbox
<1>2. acks' \in Seq(KnownAcks')
  BY <1>1, AcksStayKnown
<1>3. ASSUME NEW j \in Created
      PROVE  DoneOnce(j)'
  <2>1. DoneOnce(j) /\ log'[j].kind = log[j].kind
    BY DEF VerdictInv, Grows
  <2> QED BY <1>1, <2>1 DEF DoneOnce
<1>4. ASSUME NEW j \in Created' \ Created
      PROVE  DoneOnce(j)' /\ LogTells(j)'
  <2>1. effects[j] \in Nat /\ ~(effects[j] >= 1)
    BY <1>4, LogTypes DEF DeliveryInv, LogInv
  <2>2. effects'[j] = 0
    BY <2>1
  <2>3. LogTells(j)'
    BY <1>4 DEF LogTells
  <2> QED BY <2>2, <2>3 DEF DoneOnce
<1> QED BY <1>1, <1>2, <1>3, <1>4 DEF VerdictInv, Retains

\* SendLoop sends what the outbox holds.
LEMMA SendOutcomesTells ==
    ASSUME DeliveryInv, VerdictInv, SendOutcomes
    PROVE  VerdictInv'
<1>0. UNCHANGED <<log, ended, outbox, alive, effects>> /\ acks' = acks \o Snapshot
  BY DEF SendOutcomes, adminVars, hostVars
<1>1. Retains /\ \A j : Recorded(j) => Recorded(j)'
  BY <1>0, SameOutbox
<1>2. Created' = Created
  BY <1>0 DEF Created
<1>3. acks' \in Seq(KnownAcks)
  <2> DEFINE D == {o \in Outcomes : <<o.id, o.status>> \in Verdicts}
  <2>1. outbox \in Seq(D)
    <3>1. outbox \in Seq(Outcomes)
      BY DEF DeliveryInv, TypeOK
    <3>2. \A k \in 1..Len(outbox) : outbox[k] \in D
      BY <3>1 DEF Verdicts
    <3>3. Len(outbox) \in Nat /\ outbox = [k \in 1..Len(outbox) |-> outbox[k]]
      BY <3>1
    <3> HIDE DEF D
    <3> QED BY <3>2, <3>3, IsASeq
  <2>2. \A o \in D : [id |-> o.id, status |-> o.status] \in KnownAcks
    BY DEF KnownAcks, Acks, Outcomes
  <2> HIDE DEF D
  <2>3. Snapshot \in Seq(KnownAcks)
    BY <2>1, <2>2, SnapshotStays
  <2> QED BY <1>0, <2>3, ConcatStays DEF VerdictInv
<1>4. acks' \in Seq(KnownAcks')
  BY <1>1, <1>3, AcksStayKnown
<1>5. \A j \in Created : LogTells(j)'
  BY <1>0, <1>1, TellsStays
<1>6. \A j \in Created : DoneOnce(j)'
  BY <1>0, <1>1 DEF VerdictInv, DoneOnce
<1> QED BY <1>1, <1>2, <1>4, <1>5, <1>6 DEF VerdictInv, Retains

\* A written command is pending; the one evicted for it says nothing more.
LEMMA CreateBatchTells ==
    ASSUME DeliveryInv, VerdictInv, NEW kind \in Kinds, NEW t \in Tasks \cup {NoTask},
           CreateBatch(kind, t)
    PROVE  VerdictInv'
<1>0. UNCHANGED <<ended, acks, outbox, alive, effects>>
  BY DEF CreateBatch, outVars, hostVars
<1>1. /\ DeliveryInv' /\ Grows
      /\ \A j \in Created : log'[j].state = log[j].state \/ log'[j].state = "gone"
      /\ \A j \in Created' \ Created : j \in Ids /\ log'[j].state = "pending"
  BY CreateBatchStays
<1>2. Retains
  BY <1>0, SameOutbox
<1>3. \A j \in Created : LogTells(j)'
  BY <1>0, <1>1, <1>2, TellsStays DEF Grows
<1>4. Created \subseteq Created'
  BY <1>1, GrownSets DEF DeliveryInv, TypeOK
<1> QED BY <1>0, <1>1, <1>3, <1>4, LogMovesStays DEF VerdictInv

\* Acknowledge of a verdict that is known, or of a Start that is not wanted.
LEMMA AcknowledgeTells ==
    ASSUME DeliveryInv, VerdictInv, NEW i \in Created, NEW to \in {"acked", "rejected"},
           to = "acked" => effects[i] >= 1,
           to = "rejected" => log[i].kind # "shutdown",
           Acknowledge(i, to), UNCHANGED <<outbox, effects, alive>>, ended \subseteq ended',
           acks' \in Seq(KnownAcks),
           \/ log[i].kind = "start" /\ log[i].task \in ended
           \/ \E v \in Verdicts : v[1] = i /\ (to = "rejected" <=> v[2] = "rejected")
    PROVE  VerdictInv'
<1>1. /\ Grows /\ Created' = Created
      /\ \A j \in Created : log'[j].state = log[j].state \/ (j = i /\ log'[j].state = to)
  BY AcknowledgeStays
<1>2. Retains
  BY SameOutbox
<1>3. ASSUME NEW j \in Created
      PROVE  LogTells(j)'
  <2>1. log'[j].kind = log[j].kind /\ log'[j].task = log[j].task
    BY <1>1 DEF Grows
  <2>2. CASE log'[j].state = log[j].state
    BY <1>2, <2>1, <2>2, TellsStays
  <2>3. CASE j = i /\ log'[j].state = to
    BY <1>2, <2>1, <2>3 DEF LogTells, Retains
  <2> QED BY <1>1, <2>2, <2>3
<1> QED BY <1>1, <1>3, LogMovesStays

\* sendLoop: a Start it rejects is of a task that has ended.
LEMMA SendCommandTells ==
    ASSUME DeliveryInv, VerdictInv, SendCommand
    PROVE  VerdictInv'
<1> DEFINE i == Head(session.batch)
<1>0. /\ UNCHANGED <<ended, acks, outbox, alive, effects>>
      /\ session.batch # <<>>
      /\ \/ /\ log[i].kind = "start" /\ log[i].task \in ended
            /\ Acknowledge(i, "rejected")
         \/ UNCHANGED log
  BY DEF SendCommand, outVars, hostVars
<1>1. i \in Created
  BY <1>0, TailStays DEF DeliveryInv, WireInv
<1> HIDE DEF i
<1>2. CASE UNCHANGED log
  BY <1>0, <1>2, SameOutbox, QuietStays
<1>3. CASE /\ log[i].kind = "start" /\ log[i].task \in ended
           /\ Acknowledge(i, "rejected")
  BY <1>0, <1>1, <1>3, AcknowledgeTells DEF VerdictInv
<1> QED BY <1>0, <1>2, <1>3

\* handleEvent: an ACK tells an outcome that the agent holds.
LEMMA HandleAckTells ==
    ASSUME DeliveryInv, VerdictInv, HandleAck
    PROVE  VerdictInv'
<1> DEFINE ack == Head(acks)
           i == ack.id
           to == IF ack.status = "rejected" THEN "rejected" ELSE "acked"
<1>0. /\ UNCHANGED <<outbox, alive, effects>>
      /\ acks # <<>>
      /\ ended \subseteq ended'
      /\ Acknowledge(i, to) \/ UNCHANGED log
      /\ acks' = Tail(acks) \/ acks' = <<>>
  BY DEF HandleAck, outVars, hostVars, Disconnected, adminVars
<1>1. ack \in GoodAcks /\ ack \in KnownAcks /\ Tail(acks) \in Seq(KnownAcks)
  BY <1>0, TailStays DEF DeliveryInv, WireInv, VerdictInv
<1>2. /\ i \in Created /\ to \in {"acked", "rejected"}
      /\ to = "acked" => effects[i] >= 1
      /\ to = "rejected" => log[i].kind # "shutdown"
      /\ \E v \in Verdicts : v[1] = i /\ (to = "rejected" <=> v[2] = "rejected")
  <2>1. <<i, ack.status>> \in Verdicts
    BY <1>1 DEF KnownAcks
  <2>2. <<i, ack.status>>[1] = i /\ (to = "rejected" <=> <<i, ack.status>>[2] = "rejected")
    OBVIOUS
  <2>3. Tellable(i, ack.status)
    BY <1>1 DEF GoodAcks
  <2> QED BY <2>1, <2>2, <2>3 DEF Tellable
<1> HIDE DEF ack, i, to
<1>3. acks' \in Seq(KnownAcks)
  <2>1. <<>> \in Seq(KnownAcks)
    OBVIOUS
  <2> QED BY <1>0, <1>1, <2>1
<1>4. CASE Acknowledge(i, to)
  BY <1>0, <1>2, <1>3, <1>4, AcknowledgeTells
<1>5. CASE UNCHANGED log
  <2>1. Retains /\ Created' = Created
    BY <1>0, <1>5, SameOutbox DEF Created
  <2>2. \A j \in Created : LogTells(j)'
    BY <1>0, <1>5, <2>1, TellsStays
  <2>3. Grows
    BY <1>0, <1>5, SameLog
  <2> QED BY <1>0, <1>3, <2>1, <2>2, <2>3, LogMovesStays
<1> QED BY <1>0, <1>4, <1>5

\* A receipt moves an outcome.
LEMMA SendReceiptTells ==
    ASSUME DeliveryInv, VerdictInv, SendReceipt
    PROVE  VerdictInv'
<1> DEFINE i == Head(session.control)
<1>0. /\ UNCHANGED <<log, ended, acks, effects>> /\ alive
      /\ \/ /\ Recorded(i)
            /\ outbox' = Append(Without(i), [Outcome(i) EXCEPT !.pending = FALSE])
         \/ UNCHANGED outbox
  BY DEF SendReceipt, adminVars
<1> HIDE DEF i
<1>1. Retains /\ \A j : Recorded(j) => Recorded(j)'
  <2>1. CASE UNCHANGED outbox
    BY <2>1, SameOutbox
  <2>2. CASE /\ Recorded(i)
             /\ outbox' = Append(Without(i), [Outcome(i) EXCEPT !.pending = FALSE])
    BY <2>2, MovedIsKept DEF VerdictInv
  <2> QED BY <1>0, <2>1, <2>2
<1> QED BY <1>0, <1>1, QuietStays

\* A command whose outcome is known, or that is given one and does nothing.
LEMMA RecordTells ==
    ASSUME DeliveryInv, VerdictInv, MaxCommands <= OutboxCapacity,
           UNCHANGED <<log, ended, acks, effects>>, NEW i \in Ids,
           \/ Recorded(i) /\ Replay(i) /\ UNCHANGED alive
           \/ \E status \in Statuses : Record(i, status)
    PROVE  VerdictInv'
<1>1. CASE Recorded(i) /\ Replay(i) /\ UNCHANGED alive
  <2>1. Retains /\ \A j : Recorded(j) => Recorded(j)'
    BY <1>1, MovedIsKept DEF VerdictInv, Replay
  <2> QED BY <1>1, <2>1, QuietStays
<1>2. ASSUME NEW status \in Statuses, Record(i, status)
      PROVE  VerdictInv'
  <2>1. Retains /\ alive' = alive /\ \A j : Recorded(j) => Recorded(j)'
    BY <1>2, RecordIsKept DEF VerdictInv
  <2> QED BY <2>1, QuietStays
<1> QED BY <1>1, <1>2

\* The executor: a Stop or a Shutdown takes effect only when it has no outcome.
LEMMA ExecuteTells ==
    ASSUME DeliveryInv, VerdictInv, MaxCommands <= OutboxCapacity, ExecuteStep
    PROVE  VerdictInv'
<1>1. "applied" \in Statuses /\ "duplicate" \in Statuses /\ "rejected" \in Statuses
  BY DEF Statuses
<1>2. CASE ExecuteKnown
  <2>1. /\ UNCHANGED <<log, ended, acks, effects, alive>> /\ queue # <<>>
        /\ Recorded(Head(queue).id) /\ Replay(Head(queue).id)
    BY <1>2 DEF ExecuteKnown, adminVars, linkVars, hostVars
  <2>2. Head(queue).id \in Ids
    BY <2>1, QueueHead
  <2> QED BY <2>1, <2>2, RecordTells
<1>3. CASE ExecuteStart \/ BeginDeferred \/ BeginReserves
  <2>1. UNCHANGED <<log, ended, acks, effects, alive, outbox>>
    BY <1>3 DEF ExecuteStart, BeginDeferred, BeginReserves, adminVars, linkVars, hostVars, outVars
  <2> QED BY <2>1, SameOutbox, QuietStays
<1>4. CASE BeginBusy
  <2>1. UNCHANGED <<log, ended, acks, effects>> /\ checked # NoRequest
    BY <1>4 DEF BeginBusy, adminVars, linkVars
  <2>2. \E status \in Statuses : Record(checked.id, status)
    BY <1>1, <1>4 DEF BeginBusy
  <2>3. checked.id \in Ids
    BY <2>1, CheckedIs
  <2> QED BY <2>1, <2>2, <2>3, RecordTells
<1>5. CASE ExecuteStop \/ ExecuteShutdown
  <2>0. PICK i \in Ids : i = Head(queue).id
    BY <1>5, QueueHead DEF ExecuteStop, ExecuteShutdown
  <2>1. /\ UNCHANGED <<log, ended, acks>> /\ alive /\ queue # <<>> /\ ~Recorded(i)
        /\ \/ Record(i, "rejected") /\ UNCHANGED effects
           \/ Record(i, "applied") /\ Took(i)
    BY <1>5, <2>0 DEF ExecuteStop, ExecuteShutdown, adminVars, linkVars
  <2>2. i \in Created
    BY <2>0, <2>1, QueueHead
  <2>3. CASE Record(i, "rejected") /\ UNCHANGED effects
    BY <1>1, <2>1, <2>2, <2>3, RecordTells
  <2>4. CASE Record(i, "applied") /\ Took(i)
    <3>1. /\ Retains /\ Recorded(i)' /\ alive' = alive
          /\ \A j : Recorded(j) => Recorded(j)'
      <4>1. Unique /\ Record(i, "applied")
        BY <2>4 DEF VerdictInv
      <4> QED BY <1>1, <2>2, <4>1, RecordIsKept
    <3>2. \/ log[i].kind = "start"
          \/ alive /\ ~Recorded(i) /\ Recorded(i)'
      BY <2>1, <3>1
    <3>3. UNCHANGED <<log, ended, acks>> /\ (alive' => alive) /\ Took(i)
      BY <2>1, <2>4, <3>1
    <3> QED BY <2>2, <3>1, <3>2, <3>3, EffectStays
  <2> QED BY <2>1, <2>3, <2>4
<1> QED BY <1>2, <1>3, <1>4, <1>5 DEF ExecuteStep

\* The goroutine of a Start.
LEMMA StarterTells ==
    ASSUME DeliveryInv, VerdictInv, MaxCommands <= OutboxCapacity, NEW i \in Ids, StarterStep(i)
    PROVE  VerdictInv'
<1>1. "applied" \in Statuses /\ "rejected" \in Statuses
  BY DEF Statuses
<1>2. UNCHANGED <<log, ended, acks>>
  BY DEF StarterStep, SessionInterrupts, Launch, PrepareCancelled, PrepareRefused, PrepareFails,
     LaunchChecked, adminVars, linkVars
<1>3. CASE SessionInterrupts(i)
  <2>1. UNCHANGED <<effects, alive, outbox>>
    BY <1>3 DEF SessionInterrupts, hostVars, outVars
  <2> QED BY <1>2, <2>1, SameOutbox, QuietStays
<1>4. CASE Launch(i)
  <2>1. UNCHANGED <<alive, outbox>> /\ Took(i) /\ starting[i].at = "prepare"
    BY <1>4 DEF Launch, hostVars, outVars
  <2>2. i \in Created /\ log[i].kind = "start"
    BY <2>1 DEF DeliveryInv, HostInv, IsStart
  <2> QED BY <1>2, <2>1, <2>2, SameOutbox, EffectStays
<1>5. CASE CompleteWith(i, "applied") \/ CompleteWith(i, "rejected")
  <2>1. \E status \in Statuses : Record(i, status)
    BY <1>1, <1>5 DEF CompleteWith
  <2>2. CASE UNCHANGED effects
    BY <1>2, <2>1, <2>2, RecordTells
  <2>3. CASE ~UNCHANGED effects
    BY <1>3, <1>4, <2>3 DEF StarterStep, PrepareCancelled, PrepareRefused, PrepareFails,
       LaunchChecked
  <2> QED BY <2>2, <2>3
<1>6. CASE CompleteSilently(i) /\ UNCHANGED effects
  <2>1. UNCHANGED <<alive, outbox>>
    BY <1>6 DEF CompleteSilently, outVars
  <2> QED BY <1>2, <1>6, <2>1, SameOutbox, QuietStays
<1>7. CASE PrepareCancelled(i) \/ PrepareRefused(i) \/ PrepareFails(i) \/ LaunchChecked(i)
  <2>1. UNCHANGED effects
    BY <1>7 DEF PrepareCancelled, PrepareRefused, PrepareFails, LaunchChecked
  <2>2. \/ CompleteWith(i, "applied") \/ CompleteWith(i, "rejected")
        \/ CompleteSilently(i)
    BY <1>7 DEF PrepareCancelled, PrepareRefused, PrepareFails, LaunchChecked
  <2> QED BY <1>5, <1>6, <2>1, <2>2
<1> QED BY <1>3, <1>4, <1>7 DEF StarterStep

\* Every step keeps log, ACKs and outbox in agreement.
LEMMA VerdictNext ==
    ASSUME DeliveryInv, VerdictInv, MaxCommands <= OutboxCapacity, [Next]_vars
    PROVE  VerdictInv'
<1>1. CASE \/ UNCHANGED vars \/ Connect \/ Drop \/ Exit \/ PendingBatch \/ RunEnds
           \/ \E t \in Tasks : TaskEnds(t)
  <2>1. /\ UNCHANGED <<log, effects, alive, outbox>> /\ ended \subseteq ended'
        /\ acks' = acks \/ acks' = <<>>
    BY <1>1 DEF vars, adminVars, linkVars, outVars, hostVars, Connect, Drop, Exit, PendingBatch,
       RunEnds, TaskEnds, Disconnected
  <2> QED BY <2>1, SameOutbox, QuietStays
<1>2. ASSUME NEW kind \in Kinds, NEW t \in Tasks \cup {NoTask}, CreateBatch(kind, t)
      PROVE  VerdictInv'
  BY <1>2, CreateBatchTells
<1>3. CASE SendCommand \/ SendReceipt \/ HandleAck \/ SendOutcomes
  BY <1>3, SendCommandTells, SendReceiptTells, HandleAckTells, SendOutcomesTells
<1>4. CASE ExecuteStep
  BY <1>4, ExecuteTells
<1>5. ASSUME NEW i \in Ids, StarterStep(i)
      PROVE  VerdictInv'
  BY <1>5, StarterTells
<1> QED BY <1>1, <1>2, <1>3, <1>4, <1>5 DEF Next, SendStep

\* A fresh agent holds no outcome.
LEMMA VerdictInit ==
    ASSUME Init
    PROVE  VerdictInv
BY DEF Init, VerdictInv, Unique, Created

\* The outcome of a command is the one place of the outbox that has it.
LEMMA VerdictsMatch ==
    ASSUME DeliveryInv, VerdictInv
    PROVE  OutcomesAgree /\ OnceOnly
<1>1. ASSUME NEW i \in Created, Recorded(i), log[i].state \in {"acked", "rejected"},
             ~(log[i].kind = "start" /\ log[i].task \in ended)
      PROVE  (log[i].state = "rejected") = (Outcome(i).status = "rejected")
  <2>1. PICK v \in Verdicts : v[1] = i /\ (log[i].state = "rejected" <=> v[2] = "rejected")
    BY <1>1 DEF VerdictInv, LogTells
  <2>2. PICK k \in DOMAIN outbox : v = <<outbox[k].id, outbox[k].status>>
    BY DEF Verdicts
  <2>3. outbox[k].id = i /\ v[2] = outbox[k].status
    BY <2>1, <2>2
  <2>4. k = Position(i)
    BY <1>1, <2>3, PositionFound DEF VerdictInv, Unique
  <2> QED BY <2>1, <2>3, <2>4 DEF Outcome
<1>2. VerdictMatches
  BY <1>1 DEF VerdictMatches
<1>3. OnceOnly
  BY DEF OnceOnly, VerdictInv, DoneOnce
<1> QED BY <1>2, <1>3 DEF OutcomesAgree, DeliveryInv, LogInv

\* Log, outbox and agent tell the same story of every command, for an agent
\* that has been sent no more commands than its outbox holds outcomes (4096).
THEOREM DeliveryOutcomesAgree ==
    ASSUME MaxCommands <= OutboxCapacity
    PROVE  Spec => []OutcomesAgree
<1>1. Init => DeliveryInv /\ LinkUp /\ VerdictInv
  BY DeliveryInit, VerdictInit
<1>2. DeliveryInv /\ LinkUp /\ VerdictInv /\ [Next]_vars => DeliveryInv' /\ LinkUp' /\ VerdictInv'
  BY DeliveryNext, VerdictNext
<1>3. DeliveryInv /\ VerdictInv => OutcomesAgree
  BY VerdictsMatch
<1> QED BY <1>1, <1>2, <1>3, PTL DEF Spec

\* A Stop or a Shutdown takes effect once, however often it is delivered.
THEOREM DeliveryOnceOnly ==
    ASSUME MaxCommands <= OutboxCapacity
    PROVE  Spec => []OnceOnly
<1>1. Init => DeliveryInv /\ LinkUp /\ VerdictInv
  BY DeliveryInit, VerdictInit
<1>2. DeliveryInv /\ LinkUp /\ VerdictInv /\ [Next]_vars => DeliveryInv' /\ LinkUp' /\ VerdictInv'
  BY DeliveryNext, VerdictNext
<1>3. DeliveryInv /\ VerdictInv => OnceOnly
  BY VerdictsMatch
<1> QED BY <1>1, <1>2, <1>3, PTL DEF Spec
=============================================================================
