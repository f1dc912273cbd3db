----------------------------- MODULE SharedState -----------------------------
(***************************************************************************)
(* The state the robots of a run share through Redis: state/shared (the    *)
(* store, its server-side scripts and its value codec) and the Lua module  *)
(* share (script/api_share.go) the robots call it by.                      *)
(*                                                                         *)
(* A call of a script leaves for Redis (Call), is executed there (Execute) *)
(* and comes back (Return).  Every write is one server-side script, so it  *)
(* is one step together with its EXPIRE and the entry in the run's key     *)
(* index.  The client library sends a command again when it gets no        *)
(* answer, so a command may be executed more than once; when the operation *)
(* times out the script gets an error whether or not it was executed.      *)
(* Cleanup, which the admin runs when the task is over, walks the index    *)
(* with SSCAN in steps of its own.                                         *)
(*                                                                         *)
(* There is one user key, and per type of data one Redis key.  Time is     *)
(* counted in half seconds; Redis counts in whole ones.                    *)
(***************************************************************************)
EXTENDS Integers, Sequences, FiniteSets, Functions, SequencesExt

CONSTANTS
    Robots,          \* a robot is the owner of the locks it claims
    Values,          \* what scripts store
    Scopes,          \* sets of types the scripts of a run use
    TTLs,            \* the ttlSec arguments, in half seconds; 0 and less included
    DefaultClaimTTL, \* the ttl of a claim that names none
    MaxCalls,        \* bound: calls of all robots, by type
    MaxTime,         \* bound: half seconds that pass
    MaxCleanups      \* bound: runs of Cleanup

(* A ttl of the configuration is positive (ParsePositiveDuration); a       *)
(* script may ask for any.                                                 *)
ASSUME SharedAssumption == DefaultClaimTTL \in Nat \ {0} /\ TTLs \subseteq Int

VARIABLES
    scope,     \* the types used
    db,        \* Redis: [val, ttl] by type, of the keys that exist
    index,     \* the set of keys this run has written
    call,      \* by robot: the call under way
    calls,     \* by robot: calls made
    time,
    cleaning,  \* [at, todo] of Cleanup
    cleanups,
    lease,     \* by robot: how long it may still rely on its lock
    tickets,   \* history: the numbers incr gave out, in this life of the counter
    late       \* history: keys written after a Cleanup had begun

vars == <<scope, db, index, call, calls, time, cleaning, cleanups, lease, tickets, late>>

Types == {"kv", "counter", "claim", "queue", "hash"}
DataTypes == Types \ {"claim"}    \* what del, exists and expire work on
NoTTL == -1
Idle == [cmd |-> [op |-> "none"]]
Resting == [at |-> "idle", todo |-> {}]

-----------------------------------------------------------------------------
(* Values.                                                                 *)

(* What comes back of a value: JSON, read with UseNumber, integers beyond  *)
(* 2^53 as strings.                                                        *)
Decoded(v) == IF v = "bigint" THEN "string" ELSE v

(* ttlSeconds: whole seconds, at least one; 0 is "no expiry".              *)
ttlSeconds(ttl) == IF ttl <= 0 THEN 0 ELSE IF ttl < 2 THEN 1 ELSE ttl \div 2

(* optTTL and the ttl arguments of the expire calls.                       *)
OptTTL(ttl) == IF ttl <= 0 THEN 0 ELSE ttl

-----------------------------------------------------------------------------
(* The calls of the share module, by the type of data they are for.        *)

KVCalls ==
    {[op |-> "set", type |-> "kv", val |-> v, ttl |-> OptTTL(t)] : v \in Values, t \in TTLs}
    \cup {[op |-> "get", type |-> "kv"]}

(* del, exists and expire concern a key in whichever form it has data.     *)
AnyDataCalls ==
    {[op |-> o, type |-> d] : o \in {"del", "exists"}, d \in scope \cap DataTypes}
    \cup {[op |-> "expire", type |-> d, ttl |-> t] : t \in TTLs, d \in scope \cap DataTypes}

(* delta is 1 when the script gives none.                                  *)
CounterCalls == {[op |-> "incr", type |-> "counter", delta |-> 1, ttl |-> 0]}

ClaimCalls ==
    {[op |-> o, type |-> "claim", ttl |-> OptTTL(t)] : o \in {"claim", "renew"}, t \in TTLs}
    \cup {[op |-> o, type |-> "claim"] : o \in {"release", "owner"}}

QueueCalls ==
    {[op |-> "push", type |-> "queue", val |-> v, ttl |-> OptTTL(t)] : v \in Values, t \in TTLs}
    \cup {[op |-> o, type |-> "queue"] : o \in {"pop", "len"}}
    \cup {[op |-> "typeExpire", type |-> "queue", ttl |-> t] : t \in TTLs}

HashCalls ==
    {[op |-> o, type |-> "hash", delta |-> 1, ttl |-> OptTTL(t)] : o \in {"hset", "hincr"}, t \in TTLs}
    \cup {[op |-> o, type |-> "hash"] : o \in {"hget", "hgetall", "hdel"}}
    \cup {[op |-> "typeExpire", type |-> "hash", ttl |-> t] : t \in TTLs}

Calls ==
    {c \in KVCalls \cup AnyDataCalls \cup CounterCalls \cup ClaimCalls \cup QueueCalls \cup HashCalls :
        c.type \in scope}

-----------------------------------------------------------------------------
(* Redis and the scripts of scripts.go.  Each operation gives the keys it  *)
(* leaves and the answer: [db, index, ans].                                *)

Has(type) == type \in DOMAIN db
Same(ans) == [db |-> db, index |-> index, ans |-> ans]

(* The end of every write script: EXPIRE if there is a ttl, then SADD.     *)
Written(type, val, expiry, ans) ==
    [db |-> [k \in DOMAIN db \cup {type} |-> IF k = type THEN [val |-> val, ttl |-> expiry] ELSE db[k]],
     index |-> index \cup {type}, ans |-> ans]
Expiry(secs, otherwise) == IF secs > 0 THEN 2 * secs ELSE otherwise
Put(type, val, secs, ans) ==
    Written(type, val, Expiry(secs, IF Has(type) THEN db[type].ttl ELSE NoTTL), ans)

Without(types, ans) == [db |-> Restrict(db, DOMAIN db \ types), index |-> index, ans |-> ans]

(* EXPIRE of every one of the keys that exists: at once if it is not       *)
(* positive.                                                               *)
ExpireAll(types, secs) ==
    LET hit == types \cap DOMAIN db
    IN  IF secs <= 0 THEN Without(hit, hit # {})
        ELSE [db |-> [k \in DOMAIN db |-> IF k \in hit THEN [db[k] EXCEPT !.ttl = 2 * secs] ELSE db[k]],
              index |-> index, ans |-> hit # {}]

(* Expire, QueueExpire, HashExpire: a ttl that is not positive is no       *)
(* expiry and changes nothing.                                             *)
Expire(types, ttl) == IF ttl <= 0 THEN Same(FALSE) ELSE ExpireAll(types, ttlSeconds(ttl))

(* SET drops the expiry of an older value; the other writes keep it.       *)
Set(val, ttl) == Written("kv", val, Expiry(ttlSeconds(ttl), NoTTL), TRUE)

Get == IF Has("kv") THEN Same(Decoded(db["kv"].val)) ELSE Same("absent")

Incr(delta, ttl) ==
    LET n == (IF Has("counter") THEN db["counter"].val ELSE 0) + delta
    IN  Put("counter", n, ttlSeconds(ttl), n)

ClaimTTL(ttl) == ttlSeconds(IF ttl <= 0 THEN DefaultClaimTTL ELSE ttl)
Held(r) == Has("claim") /\ db["claim"].val = r

\* Mutant: anybody may release.
MutantRelease(r) == Without({"claim"}, Has("claim"))

(* SET NX EX: only if nobody holds the lock, the caller included.          *)
Claim(r, ttl) == IF Has("claim") THEN Same(FALSE) ELSE Put("claim", r, ClaimTTL(ttl), TRUE)

(* Release and Renew act for the owner only.                               *)
Release(r) == IF Held(r) THEN Without({"claim"}, TRUE) ELSE Same(FALSE)
Renew(r, ttl) == IF Held(r) THEN ExpireAll({"claim"}, ClaimTTL(ttl)) ELSE Same(FALSE)
Owner == IF Has("claim") THEN Same(db["claim"].val) ELSE Same("absent")

QueuePush(val, ttl) ==
    Put("queue", Append(IF Has("queue") THEN db["queue"].val ELSE <<>>, val), ttlSeconds(ttl), TRUE)
QueuePop ==
    IF ~Has("queue") THEN Same("absent")
    ELSE LET q == db["queue"].val
         IN  IF Len(q) = 1 THEN Without({"queue"}, Decoded(q[1]))    \* Redis keeps no empty list
             ELSE [db |-> [db EXCEPT !["queue"].val = Tail(q)], index |-> index, ans |-> Decoded(q[1])]
QueueLen == Same(IF Has("queue") THEN Len(db["queue"].val) ELSE 0)

(* A hash has one field; hget and hgetall answer whether it is there.      *)
HashSet(ttl) == Put("hash", 0, ttlSeconds(ttl), TRUE)
HashIncr(delta, ttl) ==
    LET n == (IF Has("hash") THEN db["hash"].val ELSE 0) + delta
    IN  Put("hash", n, ttlSeconds(ttl), n)
HashGet == Same(Has("hash"))
HashGetAll == Same(Has("hash"))
HashDelete == Without({"hash"}, TRUE)

(* What Redis does with the call c of robot r.                             *)
Effect(r, c) ==
    CASE c.op = "set"        -> Set(c.val, c.ttl)
      [] c.op = "get"        -> Get
      [] c.op = "del"        -> Without(DataTypes, TRUE)
      [] c.op = "exists"     -> Same(DataTypes \cap DOMAIN db # {})
      [] c.op = "expire"     -> Expire(DataTypes, c.ttl)
      [] c.op = "incr"       -> Incr(c.delta, c.ttl)
      [] c.op = "claim"      -> Claim(r, c.ttl)
      [] c.op = "renew"      -> Renew(r, c.ttl)
      [] c.op = "release"    -> Release(r)
      [] c.op = "owner"      -> Owner
      [] c.op = "push"       -> QueuePush(c.val, c.ttl)
      [] c.op = "pop"        -> QueuePop
      [] c.op = "len"        -> QueueLen
      [] c.op = "typeExpire" -> Expire({c.type}, c.ttl)
      [] c.op = "hset"       -> HashSet(c.ttl)
      [] c.op = "hincr"      -> HashIncr(c.delta, c.ttl)
      [] c.op = "hget"       -> HashGet
      [] c.op = "hgetall"    -> HashGetAll
      [] c.op = "hdel"       -> HashDelete

-----------------------------------------------------------------------------
(* The robots.  A script waits for its call, so a robot has one at a time. *)

NoAnswer == <<>>

(* The lease a claim or a renewal asks for begins to run at the latest     *)
(* when the call is made.  A robot that asks for less than it has relies   *)
(* on no more from then on, and one that releases on nothing.              *)
Asked(c) == IF c.op \in {"claim", "renew"} THEN 2 * ClaimTTL(c.ttl) ELSE 0
Relied(c, has) ==
    CASE c.op = "release"                   -> 0
      [] c.op = "renew" /\ Asked(c) < has -> Asked(c)
      [] OTHER                              -> has

Call(r, c) ==
    /\ call[r] = Idle /\ FoldFunction(+, 0, calls) < MaxCalls[c.type]
    /\ call' = [call EXCEPT ![r] = [cmd |-> c, ans |-> NoAnswer, sent |-> 0, left |-> Asked(c)]]
    /\ calls' = [calls EXCEPT ![r] = @ + 1]
    /\ lease' = [lease EXCEPT ![r] = Relied(c, @)]
    /\ UNCHANGED <<scope, db, index, time, cleaning, cleanups, tickets, late>>

(* The command reaches Redis, for the first time or again.                 *)
Execute(r) ==
    /\ call[r] # Idle /\ call[r].sent < 2
    /\ LET e == Effect(r, call[r].cmd)
       IN  /\ db' = e.db /\ index' = e.index
           /\ call' = [call EXCEPT ![r].ans = <<e.ans>>, ![r].sent = @ + 1]
           /\ tickets' = CASE call[r].cmd.op = "incr" -> tickets \cup {<<e.ans, r, calls[r], call[r].sent>>}
                           [] call[r].cmd.op = "del"  -> {}
                           [] OTHER               -> tickets
           /\ late' = IF cleanups = 0 THEN late
                      ELSE late \cup {k \in DOMAIN e.db : k \notin DOMAIN db \/ e.db[k] # db[k]}
    /\ UNCHANGED <<scope, calls, time, cleaning, cleanups, lease>>

(* Its answer reaches the script.                                          *)
Return(r) ==
    /\ call[r] # Idle /\ call[r].ans # NoAnswer
    /\ lease' = [lease EXCEPT ![r] =
                    IF call[r].cmd.op \in {"claim", "renew"} THEN (IF call[r].ans[1] THEN call[r].left ELSE 0) ELSE @]
    /\ call' = [call EXCEPT ![r] = Idle]
    /\ UNCHANGED <<scope, db, index, calls, time, cleaning, cleanups, tickets, late>>

(* OpTimeout, or the robot is stopped: the script gets an error.           *)
Fail(r) ==
    /\ call[r] # Idle
    /\ call' = [call EXCEPT ![r] = Idle]
    /\ lease' = [lease EXCEPT ![r] = IF call[r].cmd.op \in {"claim", "renew"} THEN 0 ELSE @]
    /\ UNCHANGED <<scope, db, index, calls, time, cleaning, cleanups, tickets, late>>

Less(n) == IF n > 0 THEN n - 1 ELSE 0

(* Half a second passes; keys whose time has come are gone.                *)
Tick ==
    LET alive == {k \in DOMAIN db : db[k].ttl # 1}
    IN  /\ time < MaxTime
        /\ time' = time + 1
        /\ db' = [k \in alive |-> [db[k] EXCEPT !.ttl = IF @ = NoTTL THEN NoTTL ELSE @ - 1]]
        /\ lease' = [r \in Robots |-> Less(lease[r])]
        /\ call' = [r \in Robots |-> IF call[r] = Idle THEN Idle ELSE [call[r] EXCEPT !.left = Less(@)]]
        /\ tickets' = IF "counter" \in DOMAIN db \ alive THEN {} ELSE tickets
        /\ UNCHANGED <<scope, index, calls, cleaning, cleanups, late>>

-----------------------------------------------------------------------------
(* Cleanup.                                                                *)

CleanupBegin ==
    /\ cleaning.at = "idle" /\ cleanups < MaxCleanups
    /\ cleanups' = cleanups + 1
    /\ cleaning' = [at |-> "scan", todo |-> index]
    /\ UNCHANGED <<scope, db, index, call, calls, time, lease, tickets, late>>

(* SSCAN gives every member that is there all the time, and perhaps some   *)
(* that are added meanwhile; what it gives is deleted, in batches.         *)
CleanupScan ==
    /\ cleaning.at = "scan" /\ cleaning.todo # {}
    /\ \E batch \in SUBSET index :
         /\ batch \cap cleaning.todo # {}
         /\ db' = Restrict(db, DOMAIN db \ batch)
         /\ tickets' = IF "counter" \in batch THEN {} ELSE tickets
         /\ cleaning' = [cleaning EXCEPT !.todo = @ \ batch]
    /\ UNCHANGED <<scope, index, call, calls, time, cleanups, lease, late>>

(* The cursor is back at 0: the index itself is deleted.                   *)
CleanupEnd ==
    /\ cleaning.at = "scan" /\ cleaning.todo = {}
    /\ index' = {}
    /\ cleaning' = Resting
    /\ UNCHANGED <<scope, db, call, calls, time, cleanups, lease, tickets, late>>

(* A command fails; the admin will begin again.                            *)
CleanupFail ==
    /\ cleaning.at = "scan"
    /\ cleaning' = Resting
    /\ UNCHANGED <<scope, db, index, call, calls, time, cleanups, lease, tickets, late>>

-----------------------------------------------------------------------------
Init ==
    /\ scope \in Scopes
    /\ db = <<>> /\ index = {}
    /\ call = [r \in Robots |-> Idle] /\ calls = [r \in Robots |-> 0]
    /\ time = 0 /\ cleaning = Resting /\ cleanups = 0
    /\ lease = [r \in Robots |-> 0] /\ tickets = {} /\ late = {}

Next ==
    \/ Tick \/ CleanupBegin \/ CleanupScan \/ CleanupEnd \/ CleanupFail
    \/ \E r \in Robots : Execute(r) \/ Return(r) \/ Fail(r) \/ \E c \in Calls : Call(r, c)

Spec == Init /\ [][Next]_vars

-----------------------------------------------------------------------------
(* Until the run is cleaned up, a robot that was told that it has a lock,  *)
(* and whose lease is not over, is the owner Redis has: no release,        *)
(* renewal or repeated command of another robot takes the lock from it     *)
(* (releaseScript, renewScript, SET NX).                                   *)
LeaseIsExclusive == cleanups = 0 => \A r \in Robots : lease[r] > 0 => Held(r)

(* Two calls of incr never get the same number during one life of the      *)
(* counter, so scripts may use the numbers as identities; only del, an     *)
(* expiry somebody asked for with a positive time, or Cleanup begins a new *)
(* life (Expire: a ttl of 0 must not delete).                              *)
TicketsAreUnique == \A s, t \in tickets : s[1] = t[1] => s = t

(* Cleanup can find whatever the run has written: every key is in the      *)
(* index, whoever wrote it, but for keys written after a Cleanup began,    *)
(* which it may leave behind.                                              *)
EveryKeyIsIndexed == DOMAIN db \subseteq index \cup late

(* What robots may rely on in the state they share: locks, numbers, and    *)
(* that a clean-up leaves nothing behind.                                  *)
SharingIsSound == LeaseIsExclusive /\ TicketsAreUnique /\ EveryKeyIsIndexed
=============================================================================
