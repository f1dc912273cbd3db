----------------------------- MODULE DataProofs -----------------------------
(***************************************************************************)
(* Proofs about the data that outlives a run, for any robots, tasks,       *)
(* templates and bounds: what robots rely on in the state they share       *)
(* (SharedState), what a star protects and what the views of an archived   *)
(* task show (HistoryStore), what a restore of templates keeps             *)
(* (TemplateLibrary).                                                      *)
(***************************************************************************)
EXTENDS Data, FiniteSetTheorems, TLAPS

-----------------------------------------------------------------------------
(* Types: of the keys, of a command, of a call under way.                  *)

(* A key that exists has a value, and time to live unless it is for ever.  *)
IsEntry(e) ==
    /\ e = [val |-> e.val, ttl |-> e.ttl]
    /\ e.ttl \in Int /\ (e.ttl = NoTTL \/ e.ttl >= 1)

(* A lock is never for ever, a counter is a number.                        *)
IsDb(d) ==
    /\ d = [k \in DOMAIN d |-> d[k]]
    /\ \A k \in DOMAIN d : k \in Types /\ IsEntry(d[k])
    /\ "claim" \in DOMAIN d => d["claim"].ttl >= 1
    /\ "counter" \in DOMAIN d => d["counter"].val \in Int

IsUnderWay(u) ==
    /\ u = [cmd |-> u.cmd, ans |-> u.ans, sent |-> u.sent, left |-> u.left]
    /\ u.cmd \in Calls /\ u.sent \in Int /\ u.left \in Nat
    /\ u.cmd.op \in {"claim", "renew"} /\ u.ans # NoAnswer => u.ans[1] \in BOOLEAN

TypeInv ==
    /\ IsDb(db)
    /\ cleanups \in Nat
    /\ cleaning = [at |-> cleaning.at, todo |-> cleaning.todo]
    /\ lease \in [Robots -> Nat]
    /\ call = [r \in Robots |-> call[r]]
    /\ \A r \in Robots : call[r] = Idle \/ IsUnderWay(call[r])

(* The lock of Redis is r's and outlasts n.                                *)
Lasts(r, n) == n > 0 => Held(r) /\ db["claim"].ttl >= n

(* A call under way bounds what its robot relies on.                       *)
LeaseBounds ==
    \A r \in Robots :
        call[r] # Idle =>
            /\ call[r].left <= Asked(call[r].cmd)
            /\ call[r].cmd.op = "release" => lease[r] = 0
            /\ call[r].cmd.op = "renew" => lease[r] <= call[r].left

(* What a robot relies on, and what an answer on its way will let it rely  *)
(* on, the lock outlasts.                                                  *)
Granted(u) == u # Idle /\ u.cmd.op \in {"claim", "renew"} /\ u.ans # NoAnswer /\ u.ans[1]
LeasesLast ==
    cleanups = 0 =>
        \A r \in Robots : Lasts(r, lease[r]) /\ (Granted(call[r]) => Lasts(r, call[r].left))

(* A number that was given out is no higher than its counter.              *)
TicketsCounted ==
    \A t \in tickets : t[1] \in Int /\ Has("counter") /\ t[1] <= db["counter"].val

(* A Cleanup still has to come past every key that is not late.            *)
ScanIsComplete == cleaning.at = "scan" => cleanups > 0 /\ DOMAIN db \subseteq cleaning.todo \cup late

SharedInv ==
    /\ TypeInv
    /\ LeaseBounds /\ LeasesLast
    /\ TicketsCounted /\ TicketsAreUnique
    /\ EveryKeyIsIndexed /\ ScanIsComplete

-----------------------------------------------------------------------------
(* Times to live, and the forms of a command.                              *)

(* Rounding to seconds leaves a positive ttl positive (ttlSeconds).        *)
LEMMA SecondsOfTTL == ASSUME NEW t \in Int
                      PROVE  ttlSeconds(t) \in Nat /\ (t > 0 => ttlSeconds(t) >= 1)
  BY DEF ttlSeconds

(* A claim or a renewal is for a second at least.                          *)
LEMMA ClaimIsPositive == ASSUME NEW t \in Int PROVE ClaimTTL(t) \in Nat /\ ClaimTTL(t) >= 1
<1>1. DefaultClaimTTL \in Int /\ DefaultClaimTTL > 0
  BY SharedAssumption
<1> QED  BY <1>1, SecondsOfTTL DEF ClaimTTL

LEMMA OptTTLIsInt == ASSUME NEW t \in TTLs PROVE t \in Int /\ OptTTL(t) \in Int
  BY SharedAssumption DEF OptTTL

Ops == {"set", "get", "del", "exists", "expire", "incr", "claim", "renew", "release", "owner", "push",
        "pop", "len", "typeExpire", "hset", "hincr", "hget", "hgetall", "hdel"}

IsCommand(c) ==
    /\ c.op \in Ops
    /\ c.op \in {"set", "push", "hset", "hincr", "expire", "typeExpire", "claim", "renew"} => c.ttl \in Int
    /\ c.op \in {"incr", "hincr"} => c.delta = 1
    /\ c.op = "incr" => c.ttl = 0
    /\ c.op = "typeExpire" => c.type \in {"queue", "hash"}

(* A script can only make calls of these forms (share module).             *)
LEMMA CommandForms == ASSUME NEW c \in Calls PROVE IsCommand(c)
<1> USE OptTTLIsInt DEF IsCommand, Ops
<1>1. CASE c \in KVCalls
  BY <1>1 DEF KVCalls
<1>2. CASE c \in AnyDataCalls
  BY <1>2 DEF AnyDataCalls
<1>3. CASE c \in CounterCalls
  BY <1>3 DEF CounterCalls
<1>4. CASE c \in ClaimCalls
  BY <1>4 DEF ClaimCalls
<1>5. CASE c \in QueueCalls
  BY <1>5 DEF QueueCalls
<1>6. CASE c \in HashCalls
  BY <1>6 DEF HashCalls
<1> QED  BY <1>1, <1>2, <1>3, <1>4, <1>5, <1>6 DEF Calls

(* The lease a call asks for is a number.                                  *)
LEMMA AskedIsNat == ASSUME NEW c \in Calls PROVE Asked(c) \in Nat
<1>1. CASE c.op \in {"claim", "renew"}
  <2>1. c.ttl \in Int
    BY <1>1, CommandForms DEF IsCommand
  <2> QED  BY <2>1, <1>1, ClaimIsPositive DEF Asked
<1> QED  BY <1>1 DEF Asked

-----------------------------------------------------------------------------
(* What the operations on Redis do.                                        *)

(* The key k is as it was.                                                 *)
Keeps(k, d) == (k \in DOMAIN d <=> Has(k)) /\ (Has(k) => d[k] = db[k])

(* The key k has the value it had.                                         *)
KeepsValue(k, d) == (k \in DOMAIN d <=> Has(k)) /\ (Has(k) => d[k].val = db[k].val)

(* What every operation sees to: keys well formed, what is new indexed.    *)
Proper(e) == IsDb(e.db) /\ DOMAIN e.db \subseteq DOMAIN db \cup e.index /\ index \subseteq e.index

LEMMA SameDoes ==
  ASSUME IsDb(db), NEW ans
  PROVE  /\ Proper(Same(ans)) /\ Same(ans).ans = ans
         /\ \A k : Keeps(k, Same(ans).db) /\ KeepsValue(k, Same(ans).db)
  BY DEF Same, Proper, Keeps, KeepsValue, Has

(* One key is written, the others stay (the write scripts).                *)
LEMMA WrittenDoes ==
  ASSUME IsDb(db), NEW type \in Types, NEW val, NEW expiry \in Int, NEW ans,
         expiry >= 1 \/ (expiry = NoTTL /\ type # "claim"), type = "counter" => val \in Int
  PROVE  LET e == Written(type, val, expiry, ans)
         IN  /\ Proper(e) /\ e.ans = ans
             /\ type \in DOMAIN e.db /\ e.db[type] = [val |-> val, ttl |-> expiry]
             /\ \A k : k # type => Keeps(k, e.db) /\ KeepsValue(k, e.db)
<1> DEFINE e == Written(type, val, expiry, ans)
           new == [val |-> val, ttl |-> expiry]
<1>1. /\ e.db = [k \in DOMAIN db \cup {type} |-> IF k = type THEN new ELSE db[k]]
      /\ e.index = index \cup {type} /\ e.ans = ans
  BY DEF Written
<1>2. IsEntry(new)
  BY DEF IsEntry
<1> HIDE DEF e
<1>3. /\ DOMAIN e.db = DOMAIN db \cup {type} /\ e.db = [k \in DOMAIN e.db |-> e.db[k]]
      /\ e.db[type] = new /\ \A k \in DOMAIN db : k # type => e.db[k] = db[k]
  BY <1>1
<1>4. \A k \in DOMAIN e.db : k \in Types /\ IsEntry(e.db[k])
  BY <1>2, <1>3 DEF IsDb
<1>5. IsDb(e.db)
  <2>1. "claim" \in DOMAIN e.db => e.db["claim"].ttl >= 1
    BY <1>3 DEF IsDb, Types
  <2>2. "counter" \in DOMAIN e.db => e.db["counter"].val \in Int
    BY <1>3 DEF IsDb, Types
  <2> QED  BY <1>3, <1>4, <2>1, <2>2 DEF IsDb
<1>6. Proper(e)
  BY <1>1, <1>3, <1>5 DEF Proper
<1>7. ASSUME NEW k, k # type PROVE Keeps(k, e.db) /\ KeepsValue(k, e.db)
  BY <1>3, <1>7 DEF Keeps, KeepsValue, Has
<1> QED  BY <1>1, <1>3, <1>6, <1>7 DEF e

(* A write with or without a ttl (Put), of anything but a lock.            *)
LEMMA PutDoes ==
  ASSUME IsDb(db), NEW type \in Types \ {"claim"}, NEW val, NEW secs \in Nat, NEW ans,
         type = "counter" => val \in Int
  PROVE  LET e == Put(type, val, secs, ans)
         IN  /\ Proper(e) /\ e.ans = ans
             /\ type \in DOMAIN e.db /\ e.db[type].val = val
             /\ \A k : k # type => Keeps(k, e.db) /\ KeepsValue(k, e.db)
<1> DEFINE expiry == Expiry(secs, IF Has(type) THEN db[type].ttl ELSE NoTTL)
<1>1. expiry \in Int /\ (expiry >= 1 \/ expiry = NoTTL)
  <2>1. Has(type) => db[type].ttl \in Int /\ (db[type].ttl = NoTTL \/ db[type].ttl >= 1)
    BY DEF IsDb, IsEntry, Has
  <2> QED  BY <2>1 DEF Expiry, NoTTL
<1>2. Put(type, val, secs, ans) = Written(type, val, expiry, ans)
  BY DEF Put
<1> HIDE DEF expiry
<1>3. LET e == Written(type, val, expiry, ans)
      IN  /\ Proper(e) /\ e.ans = ans
          /\ type \in DOMAIN e.db /\ e.db[type] = [val |-> val, ttl |-> expiry]
          /\ \A k : k # type => Keeps(k, e.db) /\ KeepsValue(k, e.db)
  BY <1>1, WrittenDoes
<1> QED  BY <1>2, <1>3

(* Deletion.                                                               *)
LEMMA WithoutDoes ==
  ASSUME IsDb(db), NEW types, NEW ans
  PROVE  LET e == Without(types, ans)
         IN  /\ Proper(e) /\ e.ans = ans
             /\ \A k : k \notin types => Keeps(k, e.db) /\ KeepsValue(k, e.db)
             /\ \A k \in types : k \notin DOMAIN e.db
<1> DEFINE d == Without(types, ans).db
<1>1. /\ d = [k \in DOMAIN db \ types |-> db[k]]
      /\ Without(types, ans).index = index /\ Without(types, ans).ans = ans
  BY DEF Without, Restrict
<1> HIDE DEF d
<1>2. DOMAIN d = DOMAIN db \ types /\ d = [k \in DOMAIN d |-> d[k]] /\ \A k \in DOMAIN d : d[k] = db[k]
  BY <1>1
<1>3. IsDb(d)
  BY <1>2 DEF IsDb
<1> QED  BY <1>1, <1>2, <1>3 DEF Proper, Keeps, KeepsValue, Has, d

(* A positive expiry changes times to live and nothing else.               *)
LEMMA ExpireAllDoes ==
  ASSUME IsDb(db), NEW types, NEW secs \in Nat, secs >= 1
  PROVE  LET e == ExpireAll(types, secs)
         IN  /\ Proper(e) /\ (e.ans <=> types \cap DOMAIN db # {})
             /\ \A k : KeepsValue(k, e.db) /\ (k \notin types => Keeps(k, e.db))
             /\ \A k \in types \cap DOMAIN db : e.db[k].ttl = 2 * secs
<1> DEFINE e == ExpireAll(types, secs)
           hit == types \cap DOMAIN db
<1>1. /\ e.db = [k \in DOMAIN db |-> IF k \in hit THEN [db[k] EXCEPT !.ttl = 2 * secs] ELSE db[k]]
      /\ e.index = index /\ e.ans = (hit # {})
  BY DEF ExpireAll
<1> HIDE DEF e, hit
<1>2. ASSUME NEW k \in DOMAIN db
      PROVE  [db[k] EXCEPT !.ttl = 2 * secs] = [val |-> db[k].val, ttl |-> 2 * secs]
  BY DEF IsDb, IsEntry
<1>3. /\ DOMAIN e.db = DOMAIN db /\ e.db = [k \in DOMAIN e.db |-> e.db[k]]
      /\ \A k \in hit : k \in DOMAIN db => e.db[k] = [val |-> db[k].val, ttl |-> 2 * secs]
      /\ \A k \in DOMAIN db : k \notin hit => e.db[k] = db[k]
  BY <1>1, <1>2
<1>4. ASSUME NEW k \in DOMAIN e.db
      PROVE  k \in Types /\ IsEntry(e.db[k]) /\ e.db[k].val = db[k].val /\ (k = "claim" => e.db[k].ttl >= 1)
  <2>1. CASE k \in hit
    <3>1. k \in Types /\ e.db[k] = [val |-> db[k].val, ttl |-> 2 * secs]
      BY <2>1, <1>3 DEF IsDb
    <3>2. 2 * secs \in Int /\ 2 * secs >= 1
      OBVIOUS
    <3> QED  BY <3>1, <3>2 DEF IsEntry
  <2>2. CASE k \notin hit
    BY <2>2, <1>3 DEF IsDb
  <2> QED  BY <2>1, <2>2
<1>5. IsDb(e.db)
  BY <1>3, <1>4 DEF IsDb
<1>6. Proper(e)
  BY <1>1, <1>3, <1>5 DEF Proper
<1>7. ASSUME NEW k PROVE KeepsValue(k, e.db) /\ (k \notin types => Keeps(k, e.db))
  BY <1>3, <1>4 DEF KeepsValue, Keeps, Has, hit
<1>8. ASSUME NEW k \in types \cap DOMAIN db PROVE e.db[k].ttl = 2 * secs
  <2>1. e.db[k] = [val |-> db[k].val, ttl |-> 2 * secs]
    BY <1>3 DEF hit
  <2> QED  BY <2>1
<1>9. e.ans <=> types \cap DOMAIN db # {}
  BY <1>1 DEF hit
<1> QED  BY <1>6, <1>7, <1>8, <1>9 DEF e

(* Expire with any ttl: none that is not positive deletes.                 *)
LEMMA ExpireDoes ==
  ASSUME IsDb(db), NEW types, NEW ttl \in Int
  PROVE  LET e == Expire(types, ttl)
         IN  Proper(e) /\ \A k : KeepsValue(k, e.db) /\ (k \notin types => Keeps(k, e.db))
<1>1. CASE ttl <= 0
  <2>1. Expire(types, ttl) = Same(FALSE)
    BY <1>1 DEF Expire
  <2> QED  BY <2>1, SameDoes
<1>2. CASE ttl > 0
  <2>1. Expire(types, ttl) = ExpireAll(types, ttlSeconds(ttl))
    <3>1. ~(ttl <= 0)
      BY <1>2
    <3> QED  BY <3>1 DEF Expire
  <2>2. ttlSeconds(ttl) \in Nat /\ ttlSeconds(ttl) >= 1
    BY <1>2, SecondsOfTTL
  <2> QED  BY <2>1, <2>2, ExpireAllDoes
<1> QED  BY <1>1, <1>2

(* What a command does to the lock: only claim, renew and release touch    *)
(* it, and only for an owner or if there is none.                          *)
LockOutcome(r, c, e) ==
    /\ c.op \notin {"claim", "renew", "release"} => Keeps("claim", e.db)
    /\ c.op = "claim" =>
         \/ Has("claim") /\ e.ans = FALSE /\ Keeps("claim", e.db)
         \/ ~Has("claim") /\ e.ans = TRUE /\ "claim" \in DOMAIN e.db /\ e.db["claim"] = [val |-> r, ttl |-> Asked(c)]
    /\ c.op = "renew" =>
         \/ ~Held(r) /\ e.ans = FALSE /\ Keeps("claim", e.db)
         \/ Held(r) /\ e.ans = TRUE /\ KeepsValue("claim", e.db) /\ e.db["claim"].ttl = Asked(c)
    /\ c.op = "release" => Held(r) \/ Keeps("claim", e.db)

(* What it does to the counter: incr counts, del alone takes it away.      *)
CounterOutcome(c, e) ==
    /\ c.op = "incr" =>
         /\ "counter" \in DOMAIN e.db /\ e.db["counter"].val = e.ans /\ e.ans \in Int
         /\ Has("counter") => e.ans = db["counter"].val + 1
    /\ c.op \notin {"incr", "del"} => KeepsValue("counter", e.db)

Outcome(r, c, e) == Proper(e) /\ LockOutcome(r, c, e) /\ CounterOutcome(c, e)

(* Claim: SET NX EX.                                                       *)
LEMMA ClaimDoes ==
  ASSUME IsDb(db), NEW r, NEW c \in Calls, c.op = "claim"
  PROVE  Outcome(r, c, Claim(r, c.ttl))
<1>1. c.ttl \in Int
  BY CommandForms DEF IsCommand
<1>2. CASE Has("claim")
  <2>1. Claim(r, c.ttl) = Same(FALSE)
    BY <1>2 DEF Claim
  <2> QED  BY <1>2, <2>1, SameDoes DEF Outcome, LockOutcome, CounterOutcome
<1>3. CASE ~Has("claim")
  <2> DEFINE e == Written("claim", r, Asked(c), TRUE)
  <2>1. ClaimTTL(c.ttl) \in Nat /\ ClaimTTL(c.ttl) >= 1 /\ Asked(c) = 2 * ClaimTTL(c.ttl)
    BY <1>1, ClaimIsPositive DEF Asked
  <2>2. Claim(r, c.ttl) = Put("claim", r, ClaimTTL(c.ttl), TRUE)
    BY <1>3 DEF Claim
  <2>3. Expiry(ClaimTTL(c.ttl), IF Has("claim") THEN db["claim"].ttl ELSE NoTTL) = Asked(c)
    BY <2>1 DEF Expiry
  <2>4. Claim(r, c.ttl) = e
    BY <2>2, <2>3 DEF Put
  <2>5. Asked(c) \in Int /\ Asked(c) >= 1 /\ "claim" \in Types
    BY <2>1 DEF Types
  <2> HIDE DEF e
  <2>6. /\ Proper(e) /\ e.ans = TRUE
        /\ "claim" \in DOMAIN e.db /\ e.db["claim"] = [val |-> r, ttl |-> Asked(c)]
        /\ KeepsValue("counter", e.db)
    <3>1. /\ Proper(e) /\ e.ans = TRUE
          /\ "claim" \in DOMAIN e.db /\ e.db["claim"] = [val |-> r, ttl |-> Asked(c)]
          /\ \A k : k # "claim" => Keeps(k, e.db) /\ KeepsValue(k, e.db)
      <4>1. "claim" = "counter" => r \in Int
        OBVIOUS
      <4> QED  BY <2>5, <4>1, WrittenDoes DEF e
    <3> QED  BY <3>1
  <2> QED  BY <1>3, <2>4, <2>6 DEF Outcome, LockOutcome, CounterOutcome
<1> QED  BY <1>2, <1>3

(* Renew: for the owner only.                                              *)
LEMMA RenewDoes ==
  ASSUME IsDb(db), NEW r, NEW c \in Calls, c.op = "renew"
  PROVE  Outcome(r, c, Renew(r, c.ttl))
<1>1. c.ttl \in Int
  BY CommandForms DEF IsCommand
<1>2. CASE Held(r)
  <2> DEFINE e == ExpireAll({"claim"}, ClaimTTL(c.ttl))
  <2>1. ClaimTTL(c.ttl) \in Nat /\ ClaimTTL(c.ttl) >= 1 /\ Asked(c) = 2 * ClaimTTL(c.ttl)
    BY <1>1, ClaimIsPositive DEF Asked
  <2>2. Renew(r, c.ttl) = e
    BY <1>2 DEF Renew
  <2>3. "claim" \in DOMAIN db /\ e.ans \in BOOLEAN
    <3>1. ~(ClaimTTL(c.ttl) <= 0)
      BY <2>1
    <3>2. e.ans = ({"claim"} \cap DOMAIN db # {})
      BY <3>1 DEF ExpireAll
    <3> QED  BY <1>2, <3>2 DEF Held, Has
  <2> HIDE DEF e
  <2>4. /\ Proper(e) /\ e.ans /\ KeepsValue("claim", e.db) /\ KeepsValue("counter", e.db)
        /\ e.db["claim"].ttl = Asked(c)
    BY <2>1, <2>3, ExpireAllDoes DEF e
  <2> QED  BY <1>2, <2>2, <2>3, <2>4 DEF Outcome, LockOutcome, CounterOutcome
<1>3. CASE ~Held(r)
  <2>1. Renew(r, c.ttl) = Same(FALSE)
    BY <1>3 DEF Renew
  <2> QED  BY <1>3, <2>1, SameDoes DEF Outcome, LockOutcome, CounterOutcome
<1> QED  BY <1>2, <1>3

(* Release: for the owner only.                                            *)
LEMMA ReleaseDoes ==
  ASSUME IsDb(db), NEW r, NEW c \in Calls, c.op = "release"
  PROVE  Outcome(r, c, Release(r))
<1>1. CASE Held(r)
  <2>1. Release(r) = Without({"claim"}, TRUE)
    BY <1>1 DEF Release
  <2> QED  BY <1>1, <2>1, WithoutDoes DEF Outcome, LockOutcome, CounterOutcome
<1>2. CASE ~Held(r)
  <2>1. Release(r) = Same(FALSE)
    BY <1>2 DEF Release
  <2> QED  BY <1>2, <2>1, SameDoes DEF Outcome, LockOutcome, CounterOutcome
<1> QED  BY <1>1, <1>2

(* A command that is not about the lock and does not count, and that       *)
(* leaves lock and counter alone.                                          *)
LEMMA OtherOutcome ==
  ASSUME NEW r, NEW c, NEW e, Proper(e), Keeps("claim", e.db), KeepsValue("counter", e.db),
         c.op \notin {"claim", "renew", "release", "incr"}
  PROVE  Outcome(r, c, e)
  BY DEF Outcome, LockOutcome, CounterOutcome

(* A write of a key that is neither lock nor counter.                      *)
LEMMA PutOutcome ==
  ASSUME IsDb(db), NEW r, NEW c, NEW type \in {"kv", "queue", "hash"}, NEW val, NEW ttl \in Int, NEW ans,
         c.op \notin {"claim", "renew", "release", "incr"}
  PROVE  Outcome(r, c, Put(type, val, ttlSeconds(ttl), ans))
<1>1. type \in Types \ {"claim"} /\ type # "counter" /\ ttlSeconds(ttl) \in Nat
  BY SecondsOfTTL DEF Types
<1> QED  BY <1>1, PutDoes, OtherOutcome

(* Set: the expiry of an older value goes.                                 *)
LEMMA SetDoes ==
  ASSUME IsDb(db), NEW r, NEW c \in Calls, c.op = "set"
  PROVE  Outcome(r, c, Set(c.val, c.ttl))
<1> DEFINE expiry == Expiry(ttlSeconds(c.ttl), NoTTL)
<1>1. c.ttl \in Int
  BY CommandForms DEF IsCommand
<1>2. expiry \in Int /\ (expiry >= 1 \/ (expiry = NoTTL /\ "kv" # "claim")) /\ "kv" \in Types
  BY <1>1, SecondsOfTTL DEF Expiry, NoTTL, Types
<1>3. Set(c.val, c.ttl) = Written("kv", c.val, expiry, TRUE)
  BY DEF Set
<1> HIDE DEF expiry
<1> DEFINE e == Written("kv", c.val, expiry, TRUE)
<1> HIDE DEF e
<1>4. Proper(e) /\ Keeps("claim", e.db) /\ KeepsValue("counter", e.db)
  BY <1>2, WrittenDoes DEF e
<1> QED  BY <1>3, <1>4, OtherOutcome DEF e

(* Incr by one, without a ttl, as share.incr calls it.                     *)
LEMMA IncrDoes ==
  ASSUME IsDb(db), NEW r, NEW c \in Calls, c.op = "incr"
  PROVE  Outcome(r, c, Incr(c.delta, c.ttl))
<1> DEFINE n == (IF Has("counter") THEN db["counter"].val ELSE 0) + 1
           e == Put("counter", n, 0, n)
<1>1. c.delta = 1 /\ c.ttl = 0
  BY CommandForms DEF IsCommand
<1>2. n \in Int /\ (Has("counter") => n = db["counter"].val + 1)
  BY DEF IsDb, Has
<1>3. Incr(c.delta, c.ttl) = e
  BY <1>1 DEF Incr, ttlSeconds
<1>4. "counter" \in Types \ {"claim"}
  BY DEF Types
<1> HIDE DEF n, e
<1>5. /\ Proper(e) /\ e.ans = n /\ "counter" \in DOMAIN e.db /\ e.db["counter"].val = n
      /\ Keeps("claim", e.db)
  <2>1. /\ Proper(e) /\ e.ans = n
        /\ "counter" \in DOMAIN e.db /\ e.db["counter"].val = n
        /\ \A k : k # "counter" => Keeps(k, e.db) /\ KeepsValue(k, e.db)
    BY <1>2, <1>4, 0 \in Nat, PutDoes DEF e
  <2> QED  BY <2>1
<1> QED  BY <1>2, <1>3, <1>5 DEF Outcome, LockOutcome, CounterOutcome

LEMMA EntryUpdate == ASSUME NEW x, IsEntry(x), NEW v
                     PROVE  [x EXCEPT !.val = v] = [val |-> v, ttl |-> x.ttl]
  BY DEF IsEntry

(* Pop: the last element takes the list with it.                           *)
LEMMA PopDoes ==
  ASSUME IsDb(db), NEW r, NEW c \in Calls, c.op = "pop"
  PROVE  Outcome(r, c, QueuePop)
<1> DEFINE q == db["queue"].val
<1>1. CASE ~Has("queue")
  <2>1. QueuePop = Same("absent")
    BY <1>1 DEF QueuePop
  <2> QED  BY <2>1, SameDoes, OtherOutcome
<1>2. CASE Has("queue") /\ Len(q) = 1
  <2>1. QueuePop = Without({"queue"}, Decoded(q[1]))
    BY <1>2 DEF QueuePop
  <2> QED  BY <2>1, WithoutDoes, OtherOutcome
<1>3. CASE Has("queue") /\ Len(q) # 1
  <2> DEFINE e == QueuePop
  <2>1. /\ e.db = [db EXCEPT !["queue"].val = Tail(q)] /\ e.index = index
    BY <1>3 DEF QueuePop
  <2>2. [db["queue"] EXCEPT !.val = Tail(q)] = [val |-> Tail(q), ttl |-> db["queue"].ttl]
    <3>1. IsEntry(db["queue"])
      BY <1>3 DEF IsDb, Has
    <3> QED  BY <3>1, EntryUpdate
  <2> HIDE DEF e
  <2>3. /\ DOMAIN e.db = DOMAIN db /\ e.db = [k \in DOMAIN e.db |-> e.db[k]]
        /\ e.db["queue"] = [val |-> Tail(q), ttl |-> db["queue"].ttl]
        /\ \A k \in DOMAIN db : k # "queue" => e.db[k] = db[k]
    BY <1>3, <2>1, <2>2 DEF Has
  <2>4. IsEntry(e.db["queue"])
    BY <1>3, <2>3 DEF IsDb, IsEntry, Has
  <2>5. IsDb(e.db)
    BY <2>3, <2>4 DEF IsDb
  <2>6. Proper(e) /\ Keeps("claim", e.db) /\ KeepsValue("counter", e.db)
    BY <2>1, <2>3, <2>5 DEF Proper, Keeps, KeepsValue, Has
  <2> QED  BY <2>6, OtherOutcome DEF e
<1> QED  BY <1>1, <1>2, <1>3

(* What Redis does with any command of a script.                           *)
LEMMA EffectDoes ==
  ASSUME IsDb(db), NEW r, NEW c \in Calls
  PROVE  Outcome(r, c, Effect(r, c))
<1>0. IsCommand(c)
  BY CommandForms
<1>1. CASE c.op = "set"
  <2>1. Effect(r, c) = Set(c.val, c.ttl)
    BY <1>1 DEF Effect
  <2> QED  BY <1>1, <2>1, SetDoes
<1>2. CASE c.op = "get"
  <2>1. Effect(r, c) = Get
    BY <1>2 DEF Effect
  <2>2. \E ans : Get = Same(ans)
    BY DEF Get
  <2> QED  BY <1>2, <2>1, <2>2, SameDoes, OtherOutcome
<1>3. CASE c.op = "del"
  <2>1. Effect(r, c) = Without(DataTypes, TRUE)
    BY <1>3 DEF Effect
  <2>2. "claim" \notin DataTypes
    BY DEF DataTypes
  <2> QED  BY <1>3, <2>1, <2>2, WithoutDoes DEF Outcome, LockOutcome, CounterOutcome
<1>4. CASE c.op = "exists"
  <2>1. Effect(r, c) = Same(DataTypes \cap DOMAIN db # {})
    BY <1>4 DEF Effect
  <2> QED  BY <1>4, <2>1, SameDoes, OtherOutcome
<1>5. CASE c.op = "expire"
  <2>1. Effect(r, c) = Expire(DataTypes, c.ttl)
    BY <1>5 DEF Effect
  <2>2. "claim" \notin DataTypes /\ c.ttl \in Int
    BY <1>0, <1>5 DEF DataTypes, IsCommand
  <2> QED  BY <1>5, <2>1, <2>2, ExpireDoes, OtherOutcome
<1>6. CASE c.op = "incr"
  <2>1. Effect(r, c) = Incr(c.delta, c.ttl)
    BY <1>6 DEF Effect
  <2> QED  BY <1>6, <2>1, IncrDoes
<1>7. CASE c.op = "claim"
  <2>1. Effect(r, c) = Claim(r, c.ttl)
    BY <1>7 DEF Effect
  <2> QED  BY <1>7, <2>1, ClaimDoes
<1>8. CASE c.op = "renew"
  <2>1. Effect(r, c) = Renew(r, c.ttl)
    BY <1>8 DEF Effect
  <2> QED  BY <1>8, <2>1, RenewDoes
<1>9. CASE c.op = "release"
  <2>1. Effect(r, c) = Release(r)
    BY <1>9 DEF Effect
  <2> QED  BY <1>9, <2>1, ReleaseDoes
<1>10. CASE c.op = "owner"
  <2>1. Effect(r, c) = Owner
    BY <1>10 DEF Effect
  <2>2. \E ans : Owner = Same(ans)
    BY DEF Owner
  <2> QED  BY <1>10, <2>1, <2>2, SameDoes, OtherOutcome
<1>11. CASE c.op = "push"
  <2>1. Effect(r, c) = QueuePush(c.val, c.ttl)
    BY <1>11 DEF Effect
  <2>2. c.ttl \in Int
    BY <1>0, <1>11 DEF IsCommand
  <2>3. \E val, ans : QueuePush(c.val, c.ttl) = Put("queue", val, ttlSeconds(c.ttl), ans)
    BY DEF QueuePush
  <2> QED  BY <1>11, <2>1, <2>2, <2>3, PutOutcome
<1>12. CASE c.op = "pop"
  <2>1. Effect(r, c) = QueuePop
    BY <1>12 DEF Effect
  <2> QED  BY <1>12, <2>1, PopDoes
<1>13. CASE c.op = "len"
  <2>1. Effect(r, c) = QueueLen
    BY <1>13 DEF Effect
  <2>2. \E ans : QueueLen = Same(ans)
    BY DEF QueueLen
  <2> QED  BY <1>13, <2>1, <2>2, SameDoes, OtherOutcome
<1>14. CASE c.op = "typeExpire"
  <2>1. Effect(r, c) = Expire({c.type}, c.ttl)
    BY <1>14 DEF Effect
  <2>2. "claim" \notin {c.type} /\ c.ttl \in Int
    BY <1>0, <1>14 DEF IsCommand
  <2> QED  BY <1>14, <2>1, <2>2, ExpireDoes, OtherOutcome
<1>15. CASE c.op = "hset"
  <2>1. Effect(r, c) = HashSet(c.ttl)
    BY <1>15 DEF Effect
  <2>2. c.ttl \in Int
    BY <1>0, <1>15 DEF IsCommand
  <2>3. \E val, ans : HashSet(c.ttl) = Put("hash", val, ttlSeconds(c.ttl), ans)
    BY DEF HashSet
  <2> QED  BY <1>15, <2>1, <2>2, <2>3, PutOutcome
<1>16. CASE c.op = "hincr"
  <2>1. Effect(r, c) = HashIncr(c.delta, c.ttl)
    BY <1>16 DEF Effect
  <2>2. c.ttl \in Int
    BY <1>0, <1>16 DEF IsCommand
  <2>3. \E val, ans : HashIncr(c.delta, c.ttl) = Put("hash", val, ttlSeconds(c.ttl), ans)
    BY DEF HashIncr
  <2> QED  BY <1>16, <2>1, <2>2, <2>3, PutOutcome
<1>17. CASE c.op = "hget"
  <2>1. Effect(r, c) = HashGet
    BY <1>17 DEF Effect
  <2>2. \E ans : HashGet = Same(ans)
    BY DEF HashGet
  <2> QED  BY <1>17, <2>1, <2>2, SameDoes, OtherOutcome
<1>18. CASE c.op = "hgetall"
  <2>1. Effect(r, c) = HashGetAll
    BY <1>18 DEF Effect
  <2>2. \E ans : HashGetAll = Same(ans)
    BY DEF HashGetAll
  <2> QED  BY <1>18, <2>1, <2>2, SameDoes, OtherOutcome
<1>19. CASE c.op = "hdel"
  <2>1. Effect(r, c) = HashDelete
    BY <1>19 DEF Effect
  <2> QED  BY <1>19, <2>1, WithoutDoes, OtherOutcome DEF HashDelete
<1> QED  BY <1>0, <1>1, <1>2, <1>3, <1>4, <1>5, <1>6, <1>7, <1>8, <1>9, <1>10, <1>11, <1>12, <1>13, <1>14, <1>15, <1>16, <1>17, <1>18, <1>19 DEF IsCommand, Ops

-----------------------------------------------------------------------------
(* The steps of a robot.                                                   *)

(* The calls a script can make stay the same.                              *)
LEMMA CallsStay == ASSUME scope' = scope PROVE Calls' = Calls
  BY DEF Calls, KVCalls, AnyDataCalls, CounterCalls, ClaimCalls, QueueCalls, HashCalls

LEMMA StillUnderWay == ASSUME scope' = scope, NEW u, IsUnderWay(u) PROVE IsUnderWay(u)'
  BY CallsStay DEF IsUnderWay

(* A step that leaves Redis alone.                                         *)
LEMMA RedisStays ==
  ASSUME SharedInv, UNCHANGED <<db, index, cleaning, cleanups, tickets, late>>
  PROVE  /\ IsDb(db)' /\ cleanups' \in Nat /\ (cleaning = [at |-> cleaning.at, todo |-> cleaning.todo])'
         /\ (\A r, n : Lasts(r, n)' = Lasts(r, n))
         /\ TicketsCounted' /\ TicketsAreUnique' /\ EveryKeyIsIndexed' /\ ScanIsComplete'
<1>1. IsDb(db)' /\ cleanups' \in Nat /\ (cleaning = [at |-> cleaning.at, todo |-> cleaning.todo])'
  BY DEF SharedInv, TypeInv, IsDb
<1>2. \A r, n : Lasts(r, n)' = Lasts(r, n)
  BY DEF Lasts, Held, Has
<1>3. TicketsCounted' /\ TicketsAreUnique'
  BY DEF SharedInv, TicketsCounted, TicketsAreUnique, Has
<1>4. EveryKeyIsIndexed' /\ ScanIsComplete'
  BY DEF SharedInv, EveryKeyIsIndexed, ScanIsComplete
<1> QED  BY <1>1, <1>2, <1>3, <1>4

(* A lock that outlasts n outlasts less.                                   *)
LEMMA LastsLess == ASSUME IsDb(db), NEW r, NEW n \in Nat, NEW m \in Nat, Lasts(r, n), m <= n PROVE Lasts(r, m)
<1>1. CASE m > 0
  <2>1. n > 0
    BY <1>1
  <2>2. Held(r) /\ db["claim"].ttl >= n /\ db["claim"].ttl \in Int
    BY <2>1 DEF Lasts, Held, Has, IsDb, IsEntry
  <2> QED  BY <2>2 DEF Lasts
<1> QED  BY <1>1 DEF Lasts

(* A call: from here on the robot relies on no more than it asks for.      *)
LEMMA CallStep == ASSUME SharedInv, NEW r \in Robots, NEW c \in Calls, Call(r, c) PROVE SharedInv'
<1> DEFINE new == [cmd |-> c, ans |-> NoAnswer, sent |-> 0, left |-> Asked(c)]
           rest == Relied(c, lease[r])
<1>1. /\ call' = [q \in Robots |-> IF q = r THEN new ELSE call[q]]
      /\ lease' = [q \in Robots |-> IF q = r THEN rest ELSE lease[q]]
      /\ scope' = scope /\ UNCHANGED <<db, index, cleaning, cleanups, tickets, late>>
  BY DEF Call, SharedInv, TypeInv
<1>2. IsUnderWay(new)'
  <2>1. Calls' = Calls
    BY <1>1, CallsStay
  <2> QED  BY <2>1, AskedIsNat DEF IsUnderWay
<1>3. lease[r] \in Nat /\ Asked(c) \in Nat
  BY AskedIsNat DEF SharedInv, TypeInv
<1>4. /\ rest \in Nat /\ rest <= lease[r]
      /\ c.op = "release" => rest = 0
      /\ c.op = "renew" => rest <= Asked(c)
  BY <1>3 DEF Relied
<1>5. /\ IsDb(db)' /\ cleanups' \in Nat /\ (cleaning = [at |-> cleaning.at, todo |-> cleaning.todo])'
      /\ (\A q, n : Lasts(q, n)' = Lasts(q, n))
      /\ TicketsCounted' /\ TicketsAreUnique' /\ EveryKeyIsIndexed' /\ ScanIsComplete'
  BY <1>1, RedisStays
<1> HIDE DEF rest
<1>6. TypeInv'
  <2>1. lease' \in [Robots -> Nat] /\ call' = [q \in Robots |-> call'[q]]
    BY <1>1, <1>4 DEF SharedInv, TypeInv
  <2>2. ASSUME NEW q \in Robots PROVE call'[q] = Idle \/ IsUnderWay(call[q])'
    <3>1. CASE q = r
      BY <3>1, <1>1, <1>2
    <3>2. CASE q # r
      <4>1. call'[q] = call[q] /\ (call[q] = Idle \/ IsUnderWay(call[q]))
        BY <3>2, <1>1 DEF SharedInv, TypeInv
      <4>2. PICK u : u = call[q]
        OBVIOUS
      <4>3. u = Idle \/ IsUnderWay(u)'
        BY <4>1, <4>2, <1>1, StillUnderWay
      <4> QED  BY <4>1, <4>2, <4>3
    <3> QED  BY <3>1, <3>2
  <2>3. Idle' = Idle
    BY DEF Idle
  <2> QED  BY <1>5, <2>1, <2>2, <2>3 DEF TypeInv
<1>7. LeaseBounds'
  <2>1. new.cmd = c /\ new.left = Asked(c)
    OBVIOUS
  <2>2. ASSUME NEW q \in Robots, call'[q] # Idle
        PROVE  /\ call'[q].left <= Asked(call'[q].cmd)
               /\ call'[q].cmd.op = "release" => lease'[q] = 0
               /\ call'[q].cmd.op = "renew" => lease'[q] <= call'[q].left
    <3>1. CASE q = r
      BY <3>1, <2>1, <1>1, <1>3, <1>4
    <3>2. CASE q # r
      BY <3>2, <2>2, <1>1 DEF SharedInv, LeaseBounds
    <3> QED  BY <3>1, <3>2
  <2> QED  BY <2>2 DEF LeaseBounds, Idle, Asked, ClaimTTL
<1>8. LeasesLast'
  <2>1. ASSUME cleanups = 0, NEW q \in Robots
        PROVE  Lasts(q, lease'[q]) /\ (Granted(call'[q]) => Lasts(q, call'[q].left))
    <3>1. Lasts(q, lease[q]) /\ (Granted(call[q]) => Lasts(q, call[q].left))
      BY <2>1 DEF SharedInv, LeasesLast
    <3>2. CASE q = r
      <4>1. Lasts(q, lease'[q])
        BY <3>1, <3>2, <1>1, <1>3, <1>4, LastsLess DEF SharedInv, TypeInv
      <4>2. ~Granted(call'[q])
        BY <3>2, <1>1 DEF Granted
      <4> QED  BY <4>1, <4>2
    <3>3. CASE q # r
      BY <3>1, <3>3, <1>1
    <3> QED  BY <3>2, <3>3
  <2> QED  BY <2>1, <1>1, <1>5 DEF LeasesLast, Granted, Idle, NoAnswer
<1> QED  BY <1>5, <1>6, <1>7, <1>8 DEF SharedInv

(* The answer: a lease begins that the lock outlasts.                      *)
LEMMA ReturnStep == ASSUME SharedInv, NEW r \in Robots, Return(r) \/ Fail(r) PROVE SharedInv'
<1> DEFINE rest == lease'[r]
<1>1. /\ call' = [q \in Robots |-> IF q = r THEN Idle ELSE call[q]]
      /\ \A q \in Robots : q # r => lease'[q] = lease[q]
      /\ lease' = [q \in Robots |-> lease'[q]]
      /\ scope' = scope /\ UNCHANGED <<db, index, cleaning, cleanups, tickets, late>>
  BY DEF Return, Fail, SharedInv, TypeInv
<1>2. IsUnderWay(call[r])
  BY DEF Return, Fail, SharedInv, TypeInv
<1>3. \/ lease'[r] = 0
      \/ lease'[r] = lease[r]
      \/ Granted(call[r]) /\ lease'[r] = call[r].left
  <2>1. CASE Return(r)
    BY <2>1 DEF Return, Granted, SharedInv, TypeInv
  <2>2. CASE Fail(r)
    BY <2>2 DEF Fail, SharedInv, TypeInv
  <2> QED  BY <2>1, <2>2
<1>4. lease'[r] \in Nat
  BY <1>2, <1>3 DEF IsUnderWay, SharedInv, TypeInv
<1>5. /\ IsDb(db)' /\ cleanups' \in Nat /\ (cleaning = [at |-> cleaning.at, todo |-> cleaning.todo])'
      /\ (\A q, n : Lasts(q, n)' = Lasts(q, n))
      /\ TicketsCounted' /\ TicketsAreUnique' /\ EveryKeyIsIndexed' /\ ScanIsComplete'
  BY <1>1, RedisStays
<1>6. TypeInv'
  <2>1. lease' \in [Robots -> Nat] /\ call' = [q \in Robots |-> call'[q]]
    BY <1>1, <1>4 DEF SharedInv, TypeInv
  <2>2. ASSUME NEW q \in Robots PROVE call'[q] = Idle \/ IsUnderWay(call[q])'
    <3>1. CASE q = r
      BY <3>1, <1>1
    <3>2. CASE q # r
      <4>1. call'[q] = call[q] /\ (call[q] = Idle \/ IsUnderWay(call[q]))
        BY <3>2, <1>1 DEF SharedInv, TypeInv
      <4>2. PICK u : u = call[q]
        OBVIOUS
      <4>3. u = Idle \/ IsUnderWay(u)'
        BY <4>1, <4>2, <1>1, StillUnderWay
      <4> QED  BY <4>1, <4>2, <4>3
    <3> QED  BY <3>1, <3>2
  <2>3. Idle' = Idle
    BY DEF Idle
  <2> QED  BY <1>5, <2>1, <2>2, <2>3 DEF TypeInv
<1>7. LeaseBounds'
  <2>1. ASSUME NEW q \in Robots, call'[q] # Idle
        PROVE  /\ call'[q].left <= Asked(call'[q].cmd)
               /\ call'[q].cmd.op = "release" => lease'[q] = 0
               /\ call'[q].cmd.op = "renew" => lease'[q] <= call'[q].left
    BY <2>1, <1>1 DEF SharedInv, LeaseBounds
  <2> QED  BY <2>1 DEF LeaseBounds, Idle, Asked, ClaimTTL
<1>8. LeasesLast'
  <2>1. ASSUME cleanups = 0, NEW q \in Robots
        PROVE  Lasts(q, lease'[q]) /\ (Granted(call'[q]) => Lasts(q, call'[q].left))
    <3>1. Lasts(q, lease[q]) /\ (Granted(call[q]) => Lasts(q, call[q].left))
      BY <2>1 DEF SharedInv, LeasesLast
    <3>2. CASE q = r
      <4>1. Lasts(q, 0)
        BY DEF Lasts
      <4>2. ~Granted(call'[q])
        BY <3>2, <1>1 DEF Granted
      <4> QED  BY <3>1, <3>2, <1>3, <4>1, <4>2
    <3>3. CASE q # r
      BY <3>1, <3>3, <1>1
    <3> QED  BY <3>2, <3>3
  <2> QED  BY <2>1, <1>1, <1>5 DEF LeasesLast, Granted, Idle, NoAnswer
<1> QED  BY <1>5, <1>6, <1>7, <1>8 DEF SharedInv

(* What a command leaves of a lock: whoever had one still has it, unless   *)
(* its owner released it or asked for another ttl.                         *)
LEMMA LocksStay ==
  ASSUME IsDb(db), NEW r, NEW c \in Calls, NEW e, LockOutcome(r, c, e), db' = e.db,
         NEW q, NEW n \in Nat, Lasts(q, n),
         q = r /\ c.op = "release" => n = 0,
         q = r /\ c.op = "renew" => n <= Asked(c)
  PROVE  Lasts(q, n)'
<1>1. CASE n = 0
  BY <1>1 DEF Lasts
<1>2. CASE n > 0
  <2>1. Held(q) /\ Has("claim") /\ db["claim"].ttl >= n
    BY <1>2 DEF Lasts, Held
  <2>2. CASE Keeps("claim", e.db)
    BY <2>1, <2>2 DEF Lasts, Held, Has, Keeps
  <2>3. CASE c.op = "renew" /\ Held(r)
    <3>1. q = r
      BY <2>1, <2>3 DEF Held
    <3>2. KeepsValue("claim", e.db) /\ e.db["claim"].ttl = Asked(c)
      BY <2>3 DEF LockOutcome
    <3> QED  BY <2>1, <2>3, <3>1, <3>2 DEF Lasts, Held, Has, KeepsValue
  <2>4. CASE c.op = "release" /\ Held(r)
    <3>1. q = r
      BY <2>1, <2>4 DEF Held
    <3> QED  BY <1>2, <2>4, <3>1
  <2>5. CASE c.op = "claim" \/ c.op \notin {"claim", "renew", "release"}
    BY <2>1, <2>2, <2>5 DEF LockOutcome
  <2>6. CASE c.op = "renew" /\ ~Held(r)
    BY <2>2, <2>6 DEF LockOutcome
  <2>7. CASE c.op = "release" /\ ~Held(r)
    BY <2>2, <2>7 DEF LockOutcome
  <2> QED  BY <2>3, <2>4, <2>5, <2>6, <2>7
<1> QED  BY <1>1, <1>2

(* The lock a command grants is there for as long as it asked.             *)
LEMMA LockGranted ==
  ASSUME IsDb(db), NEW r, NEW c \in Calls, NEW e, LockOutcome(r, c, e), db' = e.db,
         c.op \in {"claim", "renew"}, e.ans, NEW n \in Nat, n <= Asked(c)
  PROVE  Lasts(r, n)'
<1>1. CASE c.op = "claim"
  <2>1. "claim" \in DOMAIN e.db /\ e.db["claim"] = [val |-> r, ttl |-> Asked(c)]
    BY <1>1 DEF LockOutcome
  <2>2. e.db["claim"].val = r /\ e.db["claim"].ttl = Asked(c)
    BY <2>1
  <2> QED  BY <2>1, <2>2 DEF Lasts, Held, Has
<1>2. CASE c.op = "renew"
  <2>1. Held(r) /\ KeepsValue("claim", e.db) /\ e.db["claim"].ttl = Asked(c)
    BY <1>2 DEF LockOutcome
  <2> QED  BY <2>1 DEF Lasts, Held, Has, KeepsValue
<1> QED  BY <1>1, <1>2

(* A command is executed, for the first time or again.                     *)
LEMMA ExecuteStep == ASSUME SharedInv, NEW r \in Robots, Execute(r) PROVE SharedInv'
<1>1. IsUnderWay(call[r]) /\ call[r] # Idle
  BY DEF Execute, SharedInv, TypeInv
<1>2. PICK c : c = call[r].cmd
  OBVIOUS
<1>3. c \in Calls /\ call[r].sent \in Int /\ call[r].left \in Nat
  BY <1>1, <1>2 DEF IsUnderWay
<1>4. PICK e : e = Effect(r, c)
  OBVIOUS
<1>5. Outcome(r, c, e) /\ IsDb(db)
  BY <1>3, <1>4, EffectDoes DEF SharedInv, TypeInv
<1>a. PICK new : new = [cmd |-> c, ans |-> <<e.ans>>, sent |-> call[r].sent + 1, left |-> call[r].left]
  OBVIOUS
<1>6. /\ db' = e.db /\ index' = e.index
      /\ scope' = scope /\ cleaning' = cleaning /\ cleanups' = cleanups /\ lease' = lease
      /\ late' = IF cleanups = 0 THEN late ELSE late \cup {k \in DOMAIN e.db : k \notin DOMAIN db \/ e.db[k] # db[k]}
      /\ tickets' = CASE c.op = "incr" -> tickets \cup {<<e.ans, r, calls[r], call[r].sent>>}
                      [] c.op = "del"  -> {}
                      [] OTHER         -> tickets
  BY <1>2, <1>4 DEF Execute
<1>7. call' = [q \in Robots |-> IF q = r THEN new ELSE call[q]]
  <2>1. call' = [call EXCEPT ![r].ans = <<e.ans>>, ![r].sent = @ + 1]
    BY <1>2, <1>4 DEF Execute
  <2>2. PICK u : u = call[r]
    OBVIOUS
  <2>3. u = [cmd |-> c, ans |-> u.ans, sent |-> call[r].sent, left |-> call[r].left]
    BY <1>1, <1>2, <2>2 DEF IsUnderWay
  <2>4. [u EXCEPT !.ans = <<e.ans>>, !.sent = @ + 1] = new
    <3>1. PICK v : v = [u EXCEPT !.ans = <<e.ans>>]
      OBVIOUS
    <3>2. v = [cmd |-> c, ans |-> <<e.ans>>, sent |-> call[r].sent, left |-> call[r].left]
      BY <2>3, <3>1
    <3>3. [v EXCEPT !.sent = @ + 1] = new
      BY <1>3, <1>a, <3>2
    <3> QED  BY <3>1, <3>3
  <2>5. call = [q \in Robots |-> call[q]]
    BY DEF SharedInv, TypeInv
  <2> QED  BY <2>1, <2>2, <2>4, <2>5
<1>8. new.cmd = c /\ new.ans = <<e.ans>> /\ new.left = call[r].left /\ new.ans[1] = e.ans /\ new.ans # NoAnswer
  BY <1>a DEF NoAnswer
<1>9. IsUnderWay(new)'
  <2>1. Calls' = Calls
    BY <1>6, CallsStay
  <2>2. c.op \in {"claim", "renew"} => e.ans \in BOOLEAN
    BY <1>5 DEF Outcome, LockOutcome
  <2>3. new = [cmd |-> new.cmd, ans |-> new.ans, sent |-> new.sent, left |-> new.left] /\ new.sent \in Int
    BY <1>3, <1>a
  <2> QED  BY <1>3, <1>8, <2>1, <2>2, <2>3 DEF IsUnderWay, NoAnswer
<1>10. TypeInv'
  <2>1. ASSUME NEW q \in Robots PROVE call'[q] = Idle \/ IsUnderWay(call[q])'
    <3>1. CASE q = r
      BY <3>1, <1>7, <1>9
    <3>2. CASE q # r
      <4>1. call'[q] = call[q] /\ (call[q] = Idle \/ IsUnderWay(call[q]))
        BY <3>2, <1>7 DEF SharedInv, TypeInv
      <4>2. PICK u : u = call[q]
        OBVIOUS
      <4>3. u = Idle \/ IsUnderWay(u)'
        BY <4>1, <4>2, <1>6, StillUnderWay
      <4> QED  BY <4>1, <4>2, <4>3
    <3> QED  BY <3>1, <3>2
  <2>2. IsDb(db)'
    BY <1>5, <1>6 DEF Outcome, Proper, IsDb
  <2>3. Idle' = Idle
    BY DEF Idle
  <2>4. lease' \in [Robots -> Nat] /\ call' = [q \in Robots |-> call'[q]]
    BY <1>6, <1>7 DEF SharedInv, TypeInv
  <2>5. cleanups' \in Nat /\ (cleaning = [at |-> cleaning.at, todo |-> cleaning.todo])'
    BY <1>6 DEF SharedInv, TypeInv
  <2> QED  BY <2>1, <2>2, <2>3, <2>4, <2>5 DEF TypeInv
<1>11. /\ call[r].left <= Asked(c)
       /\ c.op = "release" => lease[r] = 0
       /\ c.op = "renew" => lease[r] <= call[r].left
  BY <1>1, <1>2 DEF SharedInv, LeaseBounds
<1>12. LeaseBounds'
  <2>1. ASSUME NEW q \in Robots, call'[q] # Idle
        PROVE  /\ call'[q].left <= Asked(call'[q].cmd)
               /\ call'[q].cmd.op = "release" => lease'[q] = 0
               /\ call'[q].cmd.op = "renew" => lease'[q] <= call'[q].left
    <3>1. CASE q = r
      BY <3>1, <1>6, <1>7, <1>8, <1>11
    <3>2. CASE q # r
      BY <3>2, <2>1, <1>6, <1>7 DEF SharedInv, LeaseBounds
    <3> QED  BY <3>1, <3>2
  <2> QED  BY <2>1 DEF LeaseBounds, Idle, Asked, ClaimTTL
<1>13. LeasesLast'
  <2>1. LockOutcome(r, c, e)
    BY <1>5 DEF Outcome
  <2>2. ASSUME cleanups = 0, NEW q \in Robots
        PROVE  Lasts(q, lease[q])' /\ (Granted(call[q])' => Lasts(q, call[q].left)')
    <3>1. PICK n \in Nat : n = lease[q]
      BY DEF SharedInv, TypeInv
    <3>2. Lasts(q, n) /\ (Granted(call[q]) => Lasts(q, call[q].left))
      BY <2>2, <3>1 DEF SharedInv, LeasesLast
    <3>3. Asked(c) \in Nat
      BY <1>3, AskedIsNat
    <3>4. /\ q = r /\ c.op = "release" => n = 0
          /\ q = r /\ c.op = "renew" => n <= Asked(c)
      BY <1>3, <1>11, <3>1, <3>3
    <3>5. Lasts(q, n)'
      BY <1>3, <1>5, <1>6, <2>1, <3>2, <3>4, LocksStay
    <3>6. Lasts(q, lease[q])'
      BY <3>1, <3>5, <1>6
    <3>7. ASSUME Granted(call[q])' PROVE Lasts(q, call[q].left)'
      <4>1. CASE q = r
        <5>1. PICK m \in Nat : m = call[r].left
          BY <1>3
        <5>2. c.op \in {"claim", "renew"} /\ e.ans
          BY <3>7, <4>1, <1>7, <1>8 DEF Granted
        <5>3. Lasts(r, m)'
          BY <5>1, <5>2, <2>1, <1>3, <1>5, <1>6, <1>11, LockGranted
        <5> QED  BY <4>1, <5>1, <5>3, <1>7, <1>8
      <4>2. CASE q # r
        <5>1. call'[q] = call[q] /\ Granted(call[q])
          BY <3>7, <4>2, <1>7 DEF Granted, Idle, NoAnswer
        <5>2. PICK m \in Nat : m = call[q].left
          BY <5>1 DEF SharedInv, TypeInv, IsUnderWay, Granted
        <5>3. Lasts(q, m)'
          BY <4>2, <5>1, <5>2, <3>2, <2>1, <1>3, <1>5, <1>6, LocksStay
        <5> QED  BY <5>1, <5>2, <5>3
      <4> QED  BY <4>1, <4>2
    <3> QED  BY <3>6, <3>7
  <2> QED  BY <2>2, <1>6 DEF LeasesLast
<1>14. TicketsCounted' /\ TicketsAreUnique'
  <2>0. CounterOutcome(c, e) /\ TicketsCounted /\ TicketsAreUnique
    BY <1>5 DEF Outcome, SharedInv
  <2>1. CASE c.op = "incr"
    <3>1. PICK t : t = <<e.ans, r, calls[r], call[r].sent>>
      OBVIOUS
    <3>2. tickets' = tickets \cup {t} /\ t[1] = e.ans
      BY <2>1, <3>1, <1>6
    <3>3. /\ "counter" \in DOMAIN e.db /\ e.db["counter"].val = t[1] /\ t[1] \in Int
          /\ Has("counter") => t[1] = db["counter"].val + 1 /\ db["counter"].val \in Int
      BY <2>0, <2>1, <3>2, <1>5 DEF CounterOutcome, IsDb, Has
    <3>4. \A s \in tickets : s[1] \in Int /\ s[1] < t[1]
      BY <2>0, <3>3 DEF TicketsCounted
    <3>5. TicketsCounted'
      BY <3>2, <3>3, <3>4, <1>6 DEF TicketsCounted, Has
    <3>6. TicketsAreUnique'
      BY <3>2, <3>3, <3>4, <2>0 DEF TicketsAreUnique
    <3> QED  BY <3>5, <3>6
  <2>2. CASE c.op = "del"
    BY <2>2, <1>6 DEF TicketsCounted, TicketsAreUnique
  <2>3. CASE c.op \notin {"incr", "del"}
    <3>1. tickets' = tickets /\ KeepsValue("counter", e.db)
      BY <2>0, <2>3, <1>6 DEF CounterOutcome
    <3> QED  BY <3>1, <2>0, <1>6 DEF TicketsCounted, TicketsAreUnique, KeepsValue, Has
  <2> QED  BY <2>1, <2>2, <2>3
<1>15. EveryKeyIsIndexed' /\ ScanIsComplete'
  <2>1. DOMAIN e.db \subseteq DOMAIN db \cup e.index /\ index \subseteq e.index
    BY <1>5 DEF Outcome, Proper
  <2>2. late \subseteq late' /\ (cleanups > 0 => \A k \in DOMAIN e.db : k \in DOMAIN db \/ k \in late')
    BY <1>6
  <2>3. EveryKeyIsIndexed'
    BY <2>1, <2>2, <1>6 DEF SharedInv, EveryKeyIsIndexed
  <2>4. ScanIsComplete'
    BY <2>1, <2>2, <1>6 DEF SharedInv, ScanIsComplete
  <2> QED  BY <2>3, <2>4
<1> QED  BY <1>10, <1>12, <1>13, <1>14, <1>15 DEF SharedInv

-----------------------------------------------------------------------------
(* Time, the clean-up, and the theorem.                                    *)

LEMMA LessIsNat == ASSUME NEW n \in Nat PROVE Less(n) \in Nat /\ Less(n) <= n /\ (Less(n) > 0 => n = Less(n) + 1)
  BY DEF Less

LEMMA LessKeepsOrder == ASSUME NEW n \in Nat, NEW m \in Nat, n <= m PROVE Less(n) <= Less(m)
  BY DEF Less

(* Half a second passes for leases and for the keys of Redis alike.        *)
LEMMA TickStep == ASSUME SharedInv, Tick PROVE SharedInv'
<1> DEFINE aged(x) == [x EXCEPT !.ttl = IF @ = NoTTL THEN NoTTL ELSE @ - 1]
           older(u) == [u EXCEPT !.left = Less(@)]
<1>1. PICK alive : alive = {k \in DOMAIN db : db[k].ttl # 1}
  OBVIOUS
<1>2. /\ db' = [k \in alive |-> aged(db[k])]
      /\ lease' = [r \in Robots |-> Less(lease[r])]
      /\ call' = [r \in Robots |-> IF call[r] = Idle THEN Idle ELSE older(call[r])]
      /\ tickets' = IF "counter" \in DOMAIN db \ alive THEN {} ELSE tickets
      /\ scope' = scope /\ UNCHANGED <<index, cleaning, cleanups, late>>
  BY <1>1 DEF Tick
<1>3. ASSUME NEW x, IsEntry(x), x.ttl # 1
      PROVE  /\ IsEntry(aged(x)) /\ aged(x).val = x.val
             /\ x.ttl # NoTTL => aged(x).ttl = x.ttl - 1
  <2>1. x = [val |-> x.val, ttl |-> x.ttl] /\ x.ttl \in Int
    BY <1>3 DEF IsEntry
  <2>2. CASE x.ttl = NoTTL
    <3>1. aged(x) = [val |-> x.val, ttl |-> NoTTL]
      BY <2>1, <2>2
    <3> QED  BY <2>2, <3>1 DEF IsEntry, NoTTL
  <2>3. CASE x.ttl # NoTTL
    <3>1. aged(x) = [val |-> x.val, ttl |-> x.ttl - 1]
      BY <2>1, <2>3
    <3>2. x.ttl - 1 \in Int /\ x.ttl - 1 >= 1
      BY <1>3, <2>1, <2>3 DEF IsEntry
    <3> QED  BY <3>1, <3>2 DEF IsEntry
  <2> QED  BY <2>2, <2>3
<1>4. ASSUME NEW u, IsUnderWay(u)
      PROVE  /\ older(u) = [cmd |-> u.cmd, ans |-> u.ans, sent |-> u.sent, left |-> Less(u.left)]
             /\ older(u).cmd = u.cmd /\ older(u).ans = u.ans /\ older(u).left = Less(u.left)
             /\ Less(u.left) \in Nat /\ IsUnderWay(older(u))'
  <2>1. older(u) = [cmd |-> u.cmd, ans |-> u.ans, sent |-> u.sent, left |-> Less(u.left)]
    BY <1>4 DEF IsUnderWay
  <2>2. Less(u.left) \in Nat
    BY <1>4, LessIsNat DEF IsUnderWay
  <2>3. PICK w : w = older(u)
    OBVIOUS
  <2>4. w.cmd = u.cmd /\ w.ans = u.ans /\ w.sent = u.sent /\ w.left = Less(u.left)
        /\ w = [cmd |-> w.cmd, ans |-> w.ans, sent |-> w.sent, left |-> w.left]
    BY <2>1, <2>3
  <2>5. Calls' = Calls
    BY <1>2, CallsStay
  <2>6. IsUnderWay(w)'
    BY <1>4, <2>2, <2>4, <2>5 DEF IsUnderWay, NoAnswer
  <2> QED  BY <2>1, <2>2, <2>3, <2>4, <2>6
<1> HIDE DEF aged, older
<1>5. /\ DOMAIN db' = alive /\ \A k \in alive : db'[k] = aged(db[k])
      /\ \A k \in alive : k \in DOMAIN db /\ IsEntry(db[k]) /\ db[k].ttl # 1 /\ k \in Types
  BY <1>1, <1>2 DEF SharedInv, TypeInv, IsDb
<1>6. IsDb(db)'
  <2>1. db' = [k \in DOMAIN db' |-> db'[k]]
    BY <1>2, <1>5
  <2>2. \A k \in DOMAIN db' : k \in Types /\ IsEntry(db'[k]) /\ db'[k].val = db[k].val
    BY <1>3, <1>5
  <2>3. "claim" \in DOMAIN db' => db'["claim"].ttl >= 1
    <3>1. HAVE "claim" \in DOMAIN db'
    <3>2. IsEntry(db["claim"]) /\ db["claim"].ttl # 1 /\ db["claim"].ttl >= 1
      BY <3>1, <1>5 DEF SharedInv, TypeInv, IsDb
    <3>3. db["claim"].ttl \in Int /\ db["claim"].ttl # NoTTL
      BY <3>2 DEF IsEntry, NoTTL
    <3>4. db'["claim"].ttl = db["claim"].ttl - 1
      BY <3>1, <3>2, <3>3, <1>3, <1>5
    <3> QED  BY <3>2, <3>3, <3>4
  <2>4. "counter" \in DOMAIN db' => db'["counter"].val \in Int
    BY <2>2, <1>5 DEF SharedInv, TypeInv, IsDb
  <2> QED  BY <2>1, <2>2, <2>3, <2>4 DEF IsDb, IsEntry
<1>7. ASSUME NEW r \in Robots, call'[r] # Idle
      PROVE  /\ call[r] # Idle /\ IsUnderWay(call[r]) /\ call'[r] = older(call[r])
             /\ call'[r].cmd = call[r].cmd /\ call'[r].ans = call[r].ans /\ call'[r].left = Less(call[r].left)
  <2>1. call[r] # Idle /\ call'[r] = older(call[r])
    BY <1>2, <1>7
  <2>2. IsUnderWay(call[r])
    BY <2>1 DEF SharedInv, TypeInv
  <2> QED  BY <2>1, <2>2, <1>4
<1>8. ASSUME NEW r \in Robots
      PROVE  lease[r] \in Nat /\ lease'[r] = Less(lease[r]) /\ lease'[r] \in Nat
  BY <1>2, LessIsNat DEF SharedInv, TypeInv
<1>9. TypeInv'
  <2>1. lease' \in [Robots -> Nat] /\ call' = [r \in Robots |-> call'[r]]
    BY <1>2, <1>8
  <2>2. ASSUME NEW r \in Robots PROVE call'[r] = Idle \/ IsUnderWay(call[r])'
    <3>1. CASE call'[r] = Idle
      BY <3>1
    <3>2. CASE call'[r] # Idle
      <4>1. PICK u : u = call[r]
        OBVIOUS
      <4>2. IsUnderWay(u) /\ call'[r] = older(u)
        BY <3>2, <4>1, <1>7
      <4>3. PICK w : w = older(u)
        OBVIOUS
      <4>4. IsUnderWay(w)'
        BY <4>2, <4>3, <1>4
      <4> QED  BY <4>2, <4>3, <4>4
    <3> QED  BY <3>1, <3>2
  <2>3. Idle' = Idle
    BY DEF Idle
  <2>4. cleanups' \in Nat /\ (cleaning = [at |-> cleaning.at, todo |-> cleaning.todo])'
    BY <1>2 DEF SharedInv, TypeInv
  <2> QED  BY <1>6, <2>1, <2>2, <2>3, <2>4 DEF TypeInv
<1>10. LeaseBounds'
  <2>1. ASSUME NEW r \in Robots, call'[r] # Idle
        PROVE  /\ call'[r].left <= Asked(call'[r].cmd)
               /\ call'[r].cmd.op = "release" => lease'[r] = 0
               /\ call'[r].cmd.op = "renew" => lease'[r] <= call'[r].left
    <3>1. /\ IsUnderWay(call[r]) /\ call[r].left \in Nat /\ Asked(call[r].cmd) \in Nat
          /\ call'[r].cmd = call[r].cmd /\ call'[r].left = Less(call[r].left)
      BY <2>1, <1>7, AskedIsNat DEF IsUnderWay
    <3>2. /\ call[r].left <= Asked(call[r].cmd)
          /\ call[r].cmd.op = "release" => lease[r] = 0
          /\ call[r].cmd.op = "renew" => lease[r] <= call[r].left
      BY <2>1, <1>7 DEF SharedInv, LeaseBounds
    <3>3. Less(call[r].left) \in Nat /\ Less(call[r].left) <= call[r].left
      BY <3>1, LessIsNat
    <3>4. call[r].cmd.op = "renew" => Less(lease[r]) <= Less(call[r].left)
      BY <3>1, <3>2, <1>8, LessKeepsOrder
    <3>5. call[r].cmd.op = "release" => Less(lease[r]) = 0
      BY <3>2 DEF Less
    <3> QED  BY <3>1, <3>2, <3>3, <3>4, <3>5, <1>8
  <2> QED  BY <2>1 DEF LeaseBounds, Idle, Asked, ClaimTTL
<1>11. ASSUME NEW r, NEW n \in Nat, Lasts(r, n) PROVE Lasts(r, Less(n))'
  <2>1. CASE Less(n) = 0
    BY <2>1 DEF Lasts, Less
  <2>2. CASE Less(n) > 0
    <3>1. n = Less(n) + 1 /\ n > 1
      BY <2>2, LessIsNat
    <3>2. /\ "claim" \in DOMAIN db /\ db["claim"].val = r /\ db["claim"].ttl >= n
          /\ IsEntry(db["claim"]) /\ db["claim"].ttl \in Int
      BY <1>11, <3>1 DEF Lasts, Held, Has, SharedInv, TypeInv, IsDb, IsEntry
    <3>3. db["claim"].ttl # 1 /\ db["claim"].ttl # NoTTL
      BY <3>1, <3>2 DEF NoTTL
    <3>4. "claim" \in DOMAIN db' /\ db'["claim"].val = r /\ db'["claim"].ttl = db["claim"].ttl - 1
      BY <3>2, <3>3, <1>1, <1>3, <1>5
    <3>5. db'["claim"].ttl >= Less(n)
      <4>1. Less(n) \in Int
        BY LessIsNat
      <4> QED  BY <3>1, <3>2, <3>4, <4>1
    <3> QED  BY <3>4, <3>5 DEF Lasts, Held, Has, Less
  <2> QED  BY <2>1, <2>2, LessIsNat
<1>12. LeasesLast'
  <2>1. ASSUME cleanups = 0, NEW r \in Robots
        PROVE  Lasts(r, lease[r])' /\ (Granted(call[r])' => Lasts(r, call[r].left)')
    <3>1. Lasts(r, lease[r]) /\ (Granted(call[r]) => Lasts(r, call[r].left))
      BY <2>1 DEF SharedInv, LeasesLast
    <3>2. Lasts(r, lease[r])'
      <4>1. PICK n \in Nat : n = lease[r]
        BY <1>8
      <4>2. Lasts(r, Less(n))' /\ lease'[r] = Less(n)
        BY <3>1, <4>1, <1>8, <1>11
      <4> QED  BY <4>2 DEF Less
    <3>3. ASSUME Granted(call[r])' PROVE Lasts(r, call[r].left)'
      <4>1. call'[r] # Idle
        BY <3>3 DEF Granted, Idle
      <4>2. /\ Granted(call[r]) /\ IsUnderWay(call[r]) /\ call'[r].left = Less(call[r].left)
        BY <3>3, <4>1, <1>7 DEF Granted, NoAnswer
      <4>3. PICK n \in Nat : n = call[r].left
        BY <4>2 DEF IsUnderWay
      <4>4. Lasts(r, Less(n))'
        BY <3>1, <4>2, <4>3, <1>11
      <4> QED  BY <4>2, <4>3, <4>4 DEF Less
    <3> QED  BY <3>2, <3>3
  <2> QED  BY <2>1, <1>2 DEF LeasesLast
<1>13. TicketsCounted' /\ TicketsAreUnique'
  <2>1. CASE "counter" \in DOMAIN db \ alive
    BY <2>1, <1>2 DEF TicketsCounted, TicketsAreUnique
  <2>2. CASE "counter" \notin DOMAIN db \ alive
    <3>1. tickets' = tickets /\ TicketsCounted /\ TicketsAreUnique
      BY <2>2, <1>2 DEF SharedInv
    <3>2. "counter" \in DOMAIN db => "counter" \in DOMAIN db' /\ db'["counter"].val = db["counter"].val
      BY <2>2, <1>3, <1>5
    <3> QED  BY <3>1, <3>2 DEF TicketsCounted, TicketsAreUnique, Has
  <2> QED  BY <2>1, <2>2
<1>14. EveryKeyIsIndexed' /\ ScanIsComplete'
  <2>1. DOMAIN db' \subseteq DOMAIN db
    BY <1>5
  <2> QED  BY <2>1, <1>2 DEF SharedInv, EveryKeyIsIndexed, ScanIsComplete
<1> QED  BY <1>9, <1>10, <1>12, <1>13, <1>14 DEF SharedInv

(* What the steps of a Cleanup leave alone, and what may no longer be said *)
(* of leases once there has been one.                                      *)
LEMMA RobotsStay ==
  ASSUME SharedInv, UNCHANGED <<scope, call, lease>>, cleanups' \in Nat, cleanups' > 0
  PROVE  /\ lease' \in [Robots -> Nat] /\ (call = [r \in Robots |-> call[r]])'
         /\ (\A r \in Robots : call[r] = Idle \/ IsUnderWay(call[r]))'
         /\ LeaseBounds' /\ LeasesLast'
<1>1. Calls' = Calls
  BY CallsStay
<1>2. (\A r \in Robots : call[r] = Idle \/ IsUnderWay(call[r]))'
  <2>1. SUFFICES ASSUME NEW r \in Robots PROVE (call[r] = Idle \/ IsUnderWay(call[r]))'
    OBVIOUS
  <2>2. call'[r] = call[r] /\ (call[r] = Idle \/ IsUnderWay(call[r]))
    BY DEF SharedInv, TypeInv
  <2> QED  BY <2>2, <1>1 DEF IsUnderWay, Idle, NoAnswer
<1>3. LeaseBounds'
  BY DEF SharedInv, LeaseBounds, Idle, Asked, ClaimTTL
<1>4. LeasesLast'
  BY DEF LeasesLast
<1>5. lease' \in [Robots -> Nat] /\ (call = [r \in Robots |-> call[r]])'
  BY DEF SharedInv, TypeInv
<1> QED  BY <1>2, <1>3, <1>4, <1>5

LEMMA CleanupBeginStep == ASSUME SharedInv, CleanupBegin PROVE SharedInv'
<1>1. /\ cleanups' = cleanups + 1 /\ cleaning' = [at |-> "scan", todo |-> index]
      /\ UNCHANGED <<scope, db, index, call, lease, tickets, late>>
  BY DEF CleanupBegin
<1>2. cleanups' \in Nat /\ cleanups' > 0
  BY <1>1 DEF SharedInv, TypeInv
<1>3. IsDb(db)' /\ TicketsCounted' /\ TicketsAreUnique'
  BY <1>1 DEF SharedInv, TypeInv, IsDb, TicketsCounted, TicketsAreUnique, Has
<1>4. EveryKeyIsIndexed' /\ ScanIsComplete'
  BY <1>1, <1>2 DEF SharedInv, EveryKeyIsIndexed, ScanIsComplete
<1>5. (cleaning = [at |-> cleaning.at, todo |-> cleaning.todo])'
  BY <1>1
<1> QED  BY <1>1, <1>2, <1>3, <1>4, <1>5, RobotsStay DEF SharedInv, TypeInv

(* A batch is deleted; the counter's numbers go with the counter.          *)
LEMMA CleanupScanStep == ASSUME SharedInv, CleanupScan PROVE SharedInv'
<1>1. PICK batch \in SUBSET index :
         /\ db' = Restrict(db, DOMAIN db \ batch)
         /\ tickets' = IF "counter" \in batch THEN {} ELSE tickets
         /\ cleaning' = [cleaning EXCEPT !.todo = @ \ batch]
  BY DEF CleanupScan
<1>2. cleaning.at = "scan" /\ UNCHANGED <<scope, index, call, cleanups, lease, late>>
  BY DEF CleanupScan
<1>3. cleanups' \in Nat /\ cleanups' > 0
  BY <1>2 DEF SharedInv, TypeInv, ScanIsComplete
<1>4. /\ db' = [k \in DOMAIN db \ batch |-> db[k]] /\ DOMAIN db' = DOMAIN db \ batch
      /\ \A k \in DOMAIN db' : db'[k] = db[k]
  BY <1>1 DEF Restrict
<1>5. IsDb(db)'
  <2>1. db' = [k \in DOMAIN db' |-> db'[k]]
    BY <1>4
  <2> QED  BY <1>4, <2>1 DEF SharedInv, TypeInv, IsDb, IsEntry
<1>6. cleaning' = [at |-> "scan", todo |-> cleaning.todo \ batch]
  BY <1>1, <1>2 DEF SharedInv, TypeInv
<1>7. TicketsCounted' /\ TicketsAreUnique'
  <2>1. CASE "counter" \in batch
    BY <2>1, <1>1 DEF TicketsCounted, TicketsAreUnique
  <2>2. CASE "counter" \notin batch
    BY <2>2, <1>1, <1>4 DEF SharedInv, TicketsCounted, TicketsAreUnique, Has
  <2> QED  BY <2>1, <2>2
<1>8. EveryKeyIsIndexed' /\ ScanIsComplete'
  BY <1>2, <1>3, <1>4, <1>6 DEF SharedInv, EveryKeyIsIndexed, ScanIsComplete
<1>9. (cleaning = [at |-> cleaning.at, todo |-> cleaning.todo])'
  BY <1>6
<1> QED  BY <1>2, <1>3, <1>5, <1>7, <1>8, <1>9, RobotsStay DEF SharedInv, TypeInv

(* The index is deleted: every key that is left is a late one.             *)
LEMMA CleanupEndStep == ASSUME SharedInv, CleanupEnd \/ CleanupFail PROVE SharedInv'
<1>1. /\ cleaning.at = "scan" /\ cleaning' = Resting
      /\ UNCHANGED <<scope, db, call, cleanups, lease, tickets, late>>
      /\ index' = index \/ cleaning.todo = {}
  BY DEF CleanupEnd, CleanupFail
<1>2. cleanups' \in Nat /\ cleanups' > 0
  BY <1>1 DEF SharedInv, TypeInv, ScanIsComplete
<1>3. IsDb(db)' /\ TicketsCounted' /\ TicketsAreUnique'
  BY <1>1 DEF SharedInv, TypeInv, IsDb, TicketsCounted, TicketsAreUnique, Has
<1>4. EveryKeyIsIndexed'
  BY <1>1 DEF SharedInv, EveryKeyIsIndexed, ScanIsComplete
<1>5. (cleaning = [at |-> cleaning.at, todo |-> cleaning.todo])' /\ ScanIsComplete'
  BY <1>1 DEF Resting, ScanIsComplete
<1> QED  BY <1>1, <1>2, <1>3, <1>4, <1>5, RobotsStay DEF SharedInv, TypeInv

LEMMA SharedInit == ASSUME Init PROVE SharedInv
<1>1. TypeInv
  BY DEF Init, TypeInv, IsDb, Resting
<1>2. LeaseBounds /\ LeasesLast
  BY DEF Init, LeaseBounds, LeasesLast, Lasts, Granted
<1>3. TicketsCounted /\ TicketsAreUnique /\ EveryKeyIsIndexed /\ ScanIsComplete
  BY DEF Init, TicketsCounted, TicketsAreUnique, EveryKeyIsIndexed, ScanIsComplete, Resting
<1> QED  BY <1>1, <1>2, <1>3 DEF SharedInv

LEMMA SharedNext == ASSUME SharedInv, [Next]_vars PROVE SharedInv'
<1>1. CASE Tick
  BY <1>1, TickStep
<1>2. CASE CleanupBegin
  BY <1>2, CleanupBeginStep
<1>3. CASE CleanupScan
  BY <1>3, CleanupScanStep
<1>4. CASE CleanupEnd \/ CleanupFail
  BY <1>4, CleanupEndStep
<1>5. CASE \E r \in Robots : Execute(r)
  BY <1>5, ExecuteStep
<1>6. CASE \E r \in Robots : Return(r) \/ Fail(r)
  BY <1>6, ReturnStep
<1>7. CASE \E r \in Robots : \E c \in Calls : Call(r, c)
  BY <1>7, CallStep
<1>8. CASE UNCHANGED vars
  <2>1. UNCHANGED <<scope, db, index, call, cleaning, cleanups, lease, tickets, late>>
    BY <1>8 DEF vars
  <2>2. Calls' = Calls
    BY <2>1, CallsStay
  <2>3. /\ IsDb(db)' /\ cleanups' \in Nat /\ (cleaning = [at |-> cleaning.at, todo |-> cleaning.todo])'
        /\ (\A q, n : Lasts(q, n)' = Lasts(q, n))
        /\ TicketsCounted' /\ TicketsAreUnique' /\ EveryKeyIsIndexed' /\ ScanIsComplete'
    BY <2>1, RedisStays
  <2>4. TypeInv'
    <3>1. ASSUME NEW r \in Robots PROVE call'[r] = Idle \/ IsUnderWay(call[r])'
      <4>1. PICK u : u = call[r]
        OBVIOUS
      <4>2. u = Idle \/ IsUnderWay(u)'
        BY <4>1, <2>1, StillUnderWay DEF SharedInv, TypeInv
      <4> QED  BY <4>1, <4>2, <2>1
    <3>2. lease' \in [Robots -> Nat] /\ call' = [r \in Robots |-> call'[r]] /\ Idle' = Idle
      BY <2>1 DEF SharedInv, TypeInv, Idle
    <3> QED  BY <2>3, <3>1, <3>2 DEF TypeInv
  <2>5. LeaseBounds'
    BY <2>1 DEF SharedInv, LeaseBounds, Idle, Asked, ClaimTTL
  <2>6. LeasesLast'
    BY <2>1, <2>3 DEF SharedInv, LeasesLast, Granted, Idle, NoAnswer
  <2> QED  BY <2>3, <2>4, <2>5, <2>6 DEF SharedInv
<1> QED  BY <1>1, <1>2, <1>3, <1>4, <1>5, <1>6, <1>7, <1>8 DEF Next

(* The invariant holds in every state: the locks of Redis outlast what     *)
(* robots rely on, and so on, as the parts of SharedInv say.               *)
THEOREM SharedInductive == Spec => []SharedInv
<1>1. Init => SharedInv
  BY SharedInit
<1>2. SharedInv /\ [Next]_vars => SharedInv'
  BY SharedNext
<1> QED  BY <1>1, <1>2, PTL DEF Spec

(* Locks are exclusive while a lease lasts, the numbers of a counter are   *)
(* unique, and every key can be found by Cleanup (state/shared), for any   *)
(* robots, ttls and bounds.                                                *)
THEOREM SharedStateIsSound == Spec => []SharingIsSound
<1>1. SharedInv => SharingIsSound
  <2>1. ASSUME SharedInv PROVE LeaseIsExclusive
    <3>1. \A r \in Robots : cleanups = 0 => Lasts(r, lease[r])
      BY <2>1 DEF SharedInv, LeasesLast
    <3> QED  BY <3>1 DEF LeaseIsExclusive, Lasts
  <2> QED  BY <2>1 DEF SharedInv, SharingIsSound
<1> QED  BY <1>1, SharedInductive, PTL

-----------------------------------------------------------------------------
(* The archive of ended tasks.                                             *)

Overall == History!Overall
Deletes(u, t) == op[u].kind = "delete" /\ ~op[u].force /\ op[u].task = t

(* A task whose archive is still to be written has ended on some day.      *)
HistoryTypes ==
    /\ hist \in [Tasks -> Int]
    /\ now \in Nat
    /\ active \subseteq Tasks
    /\ task = [t \in Tasks |-> task[t]]
    /\ op = [u \in Users |-> op[u]]
    /\ pruning \subseteq Tasks
    /\ jobs \subseteq Tasks
    /\ \A t \in jobs : task[t].stopped \in Nat

(* A deletion without force, once decided, is about no task with a star    *)
(* that was there before.                                                  *)
SafeAreSpared == safe \subseteq Tasks \ History!Doomed

StarInv == HistoryTypes /\ SafeAreSpared

LEMMA HistoryInit == History!Init => StarInv
  BY DEF History!Init, StarInv, HistoryTypes, SafeAreSpared, History!Doomed, History!Idle, History!NoRow

LEMMA RemovedFromHistory ==
    ASSUME NEW removed, hist \in [Tasks -> Int], History!RemoveTasks(removed)
    PROVE  /\ hist' \in [Tasks -> Int]
           /\ \A t \in Tasks : hist'[t] = IF t \in removed THEN -1 ELSE hist[t]
<1>1. hist' = [t \in Tasks |-> IF t \in removed THEN -1 ELSE hist[t]]
  BY DEF History!RemoveTasks, History!NoRow
<1> QED  BY <1>1

LEMMA TypesKept ==
    ASSUME HistoryTypes, History!Step
    PROVE  HistoryTypes'
<1> USE DEF HistoryTypes, History!rowVars, History!taskVars
<1>1. ASSUME NEW t \in Tasks, History!End(t)
      PROVE  HistoryTypes'
  BY <1>1 DEF History!End, History!Ended
<1>2. ASSUME NEW t \in Tasks, History!ArchiveJob(t)
      PROVE  HistoryTypes'
  BY <1>2 DEF History!ArchiveJob, History!Archive
<1>3. ASSUME NEW t \in Tasks, NEW token, NEW stage, History!AppendTimeseries(t, token, stage)
      PROVE  HistoryTypes'
  BY <1>3 DEF History!AppendTimeseries
<1>4. ASSUME NEW t \in Tasks, NEW u \in Users, NEW stage, NEW req, History!UpsertCheck(u, t, stage, req)
      PROVE  HistoryTypes'
  BY <1>4 DEF History!UpsertCheck
<1>5. ASSUME NEW t \in Tasks, NEW u \in Users, NEW force \in BOOLEAN, History!DeleteCheck(u, t, force)
      PROVE  HistoryTypes'
  BY <1>5 DEF History!DeleteCheck
<1>6. ASSUME NEW u \in Users, History!UpsertLoad(u) \/ History!UpsertWrite(u)
      PROVE  HistoryTypes'
  BY <1>6 DEF History!UpsertLoad, History!UpsertWrite
<1>7. ASSUME NEW u \in Users, History!DeleteTx(u)
      PROVE  HistoryTypes'
  BY <1>7, RemovedFromHistory DEF History!DeleteTx
<1>8. CASE History!PruneSelect
  BY <1>8 DEF History!PruneSelect
<1>9. CASE History!PruneTx
  BY <1>9, RemovedFromHistory DEF History!PruneTx
<1>10. CASE History!DayPasses
  BY <1>10 DEF History!DayPasses
<1>11. CASE History!Restart
  BY <1>11 DEF History!Restart, History!Ended
<1> QED  BY <1>1, <1>2, <1>3, <1>4, <1>5, <1>6, <1>7, <1>8, <1>9, <1>10, <1>11 DEF History!Step

LEMMA DoomedMeans ==
    \A t : t \in History!Doomed <=> t \in pruning \/ \E u \in Users : Deletes(u, t)
  BY DEF History!Doomed, Deletes

LEMMA DoomedMeansNext ==
    \A t : t \in History!Doomed' <=> t \in pruning' \/ \E u \in Users : Deletes(u, t)'
  BY DEF History!Doomed, Deletes

(* A deletion makes up its mind about tasks without a star only.           *)
LEMMA DoomedHadNoStar ==
    ASSUME HistoryTypes, History!Step
    PROVE  \A t \in History!Doomed' \ History!Doomed : ~History!Starred(t) /\ meta' = meta
<1>1. SUFFICES ASSUME NEW x, \/ x \in pruning' \ pruning
                             \/ \E u \in Users : Deletes(u, x)' /\ ~Deletes(u, x)
               PROVE  ~History!Starred(x) /\ meta' = meta
  BY DoomedMeans, DoomedMeansNext
<1> USE DEF HistoryTypes, History!rowVars, History!taskVars, Deletes
<1>2. ASSUME NEW t \in Tasks, History!End(t) \/ History!ArchiveJob(t)
      PROVE  FALSE
  BY <1>1, <1>2 DEF History!End, History!ArchiveJob
<1>3. ASSUME NEW t \in Tasks, NEW token, NEW stage, History!AppendTimeseries(t, token, stage)
      PROVE  FALSE
  BY <1>1, <1>3 DEF History!AppendTimeseries
<1>4. ASSUME NEW t \in Tasks, NEW u \in Users, NEW stage, NEW req, History!UpsertCheck(u, t, stage, req)
      PROVE  FALSE
  BY <1>1, <1>4 DEF History!UpsertCheck
<1>5. ASSUME NEW t \in Tasks, NEW u \in Users, NEW force \in BOOLEAN, History!DeleteCheck(u, t, force)
      PROVE  ~History!Starred(x) /\ meta' = meta
  BY <1>1, <1>5 DEF History!DeleteCheck
<1>6. ASSUME NEW u \in Users, History!UpsertLoad(u) \/ History!UpsertWrite(u)
      PROVE  FALSE
  BY <1>1, <1>6 DEF History!UpsertLoad, History!UpsertWrite, History!Idle
<1>7. ASSUME NEW u \in Users, History!DeleteTx(u)
      PROVE  FALSE
  BY <1>1, <1>7 DEF History!DeleteTx, History!Idle
<1>8. CASE History!PruneSelect
  BY <1>1, <1>8 DEF History!PruneSelect
<1>9. CASE History!PruneTx
  BY <1>1, <1>9 DEF History!PruneTx
<1>10. CASE History!DayPasses
  BY <1>1, <1>10 DEF History!DayPasses
<1>11. CASE History!Restart
  BY <1>1, <1>11 DEF History!Restart, History!Idle
<1> QED  BY <1>2, <1>3, <1>4, <1>5, <1>6, <1>7, <1>8, <1>9, <1>10, <1>11 DEF History!Step

LEMMA StarStep ==
    ASSUME StarInv, [History!Next]_History!vars
    PROVE  StarInv'
<1>1. CASE UNCHANGED History!vars
  BY <1>1 DEF History!vars, StarInv, HistoryTypes, SafeAreSpared, History!Doomed
<1>2. CASE History!Next
  <2>1. History!Step /\ HistoryTypes'
    BY <1>2, TypesKept DEF History!Next, StarInv
  <2>2. ASSUME NEW t \in safe', t \in History!Doomed'
        PROVE  FALSE
    <3>1. /\ \E stage \in DOMAIN meta'[t] : meta'[t][stage].starred
          /\ t \notin History!Doomed
      BY <1>2, <2>2 DEF History!Next, StarInv, SafeAreSpared
    <3>2. ~History!Starred(t) /\ meta' = meta
      BY <2>1, <2>2, <3>1, DoomedHadNoStar DEF StarInv
    <3> QED  BY <3>1, <3>2 DEF History!Starred
  <2>3. safe' \subseteq Tasks
    BY <1>2 DEF History!Next
  <2> QED  BY <2>1, <2>2, <2>3 DEF StarInv, SafeAreSpared
<1> QED  BY <1>1, <1>2

(* A task leaves the archive by a deletion that is doomed, or forced.      *)
LEMMA RowsLeave ==
    ASSUME HistoryTypes, History!Step, NEW t \in Tasks, hist'[t] = -1, hist[t] # -1
    PROVE  \/ t \in History!Doomed
           \/ \E u \in Users : op[u].kind = "delete" /\ op[u].force /\ op[u].task = t /\ op'[u] = History!Idle
<1> USE DEF HistoryTypes, History!rowVars, History!taskVars
<1>1. ASSUME NEW s \in Tasks, History!ArchiveJob(s)
      PROVE  FALSE
  BY <1>1 DEF History!ArchiveJob, History!Archive
<1>2. ASSUME NEW u \in Users, History!DeleteTx(u)
      PROVE  op[u].kind = "delete" /\ op[u].task = t /\ op'[u] = History!Idle
  BY <1>2, RemovedFromHistory DEF History!DeleteTx
<1>3. ASSUME NEW u \in Users, History!DeleteTx(u)
      PROVE  \/ t \in History!Doomed
             \/ op[u].kind = "delete" /\ op[u].force /\ op[u].task = t /\ op'[u] = History!Idle
  BY <1>2, <1>3, DoomedMeans DEF Deletes
<1>4. CASE History!PruneTx
  BY <1>4, RemovedFromHistory, DoomedMeans DEF History!PruneTx
<1>5. CASE UNCHANGED hist
  BY <1>5
<1>6. History!Step =>
        \/ UNCHANGED hist
        \/ \E s \in Tasks : History!ArchiveJob(s)
        \/ \E u \in Users : History!DeleteTx(u)
        \/ History!PruneTx
  BY DEF History!Step, History!End, History!AppendTimeseries, History!UpsertCheck, History!DeleteCheck,
     History!UpsertLoad, History!UpsertWrite, History!PruneSelect, History!DayPasses, History!Restart
<1> QED  BY <1>1, <1>3, <1>4, <1>5, <1>6

THEOREM HistoryStarsProtect == History!Spec => StarsProtect
<1> DEFINE Spared ==
        \A t \in safe :
            hist'[t] = History!NoRow /\ hist[t] # History!NoRow =>
                \E u \in Users : op[u].kind = "delete" /\ op[u].force /\ op[u].task = t /\ op'[u] = History!Idle
<1>1. StarInv /\ [History!Next]_History!vars => StarInv'
  BY StarStep
<1>2. StarInv /\ [History!Next]_History!vars => [Spared]_History!vars
  <2>1. SUFFICES ASSUME StarInv, History!Next, NEW t \in safe, hist'[t] = -1, hist[t] # -1
                 PROVE  \E u \in Users :
                            op[u].kind = "delete" /\ op[u].force /\ op[u].task = t /\ op'[u] = History!Idle
    BY DEF History!NoRow
  <2>2. t \in Tasks /\ t \notin History!Doomed
    BY <2>1 DEF StarInv, SafeAreSpared
  <2> QED  BY <2>1, <2>2, RowsLeave DEF StarInv, History!Next
<1> QED  BY HistoryInit, <1>1, <1>2, PTL DEF History!Spec, StarsProtect, History!StarsProtect

-----------------------------------------------------------------------------
(* The tables and what is shown of them.                                   *)

Shown(t) == {Overall} \cup History!Segments(t)

(* Users set metadata only of a task or of a segment it has: the routes    *)
(* accept any other stage as well (admin/httpapi/history.go), and what is  *)
(* written there protects the task but is listed nowhere.                  *)
StagesAreShown ==
    \A t \in Tasks, stage \in MetaStages : History!Normalized(stage) \in Shown(t)

RowTypes ==
    /\ assignment = [t \in Tasks |-> assignment[t]]
    /\ report = [t \in Tasks |-> report[t]]
    /\ aggregated = [t \in Tasks |-> aggregated[t]]
    /\ meta = [t \in Tasks |-> meta[t]]
    /\ \A t \in Tasks :
        /\ assignment[t] = [a \in Agents |-> assignment[t][a]]
        /\ report[t] = [r \in Agents \X Shown(t) |-> report[t][r]]

(* The requests under way keep to the stages that are shown.               *)
OpInv ==
    \A u \in Users : op[u].kind \in {"load", "write"} =>
        op[u].task \in Tasks /\ op[u].stage \in Shown(op[u].task)

MetaInv == OpInv /\ \A t \in Tasks : DOMAIN meta[t] \subseteq Shown(t)

(* One task's part of ArchiveIsWhole, on the rows.                         *)
NoRowsOf(t) ==
    /\ \A a \in Agents : assignment[t][a] = 0
    /\ \A r \in DOMAIN report[t] : report[t][r] = 0
    /\ aggregated[t] = History!Empty
    /\ t \notin config
AllRowsOf(t) ==
    /\ t \in config
    /\ Overall \in DOMAIN aggregated[t]
    /\ History!HasReset(t) =>
        /\ History!FinalSegmentNo(t) \in DOMAIN aggregated[t]
        /\ aggregated[t][History!FinalSegmentNo(t)] = aggregated[t][Overall]
        /\ \A a \in Agents :
            report[t][<<a, History!FinalSegmentNo(t)>>] = report[t][<<a, Overall>>]
WholeInv == \A t \in Tasks : IF hist[t] = -1 THEN NoRowsOf(t) ELSE AllRowsOf(t)

TableInv == HistoryTypes /\ RowTypes /\ MetaInv /\ WholeInv

LEMMA SegmentNumbers ==
    ASSUME NEW t \in Tasks
    PROVE  /\ \A reset : History!SegmentNoForResetIndex(t, reset) \in 0 .. Len(StageBoundaries[t])
           /\ History!HasReset(t) =>
                 /\ History!FinalSegmentNo(t) = Len(StageBoundaries[t]) + 1
                 /\ History!FinalSegmentNo(t) \in History!Segments(t)
           /\ Len(StageBoundaries[t]) \in Nat
           /\ History!Segments(t) \subseteq Nat \ {0}
<1>1. StageBoundaries[t] \in Seq(Nat)
  BY DataAssumption
<1>2. Len(StageBoundaries[t]) \in Nat /\ DOMAIN StageBoundaries[t] = 1 .. Len(StageBoundaries[t])
  BY <1>1
<1>3. ASSUME NEW reset, History!Contains(StageBoundaries[t], reset)
      PROVE  \E k \in DOMAIN StageBoundaries[t] : StageBoundaries[t][k] = reset
  BY <1>2, <1>3 DEF History!Contains
<1>4. ASSUME NEW reset
      PROVE  History!SegmentNoForResetIndex(t, reset) \in 0 .. Len(StageBoundaries[t])
  BY <1>2, <1>3 DEF History!SegmentNoForResetIndex
<1>5. History!HasReset(t) => History!FinalSegmentNo(t) = Len(StageBoundaries[t]) + 1
  BY DEF History!FinalSegmentNo
<1>6. History!HasReset(t) => History!Segments(t) = 1 .. Len(StageBoundaries[t]) + 1
  BY <1>5 DEF History!Segments
<1>7. ~History!HasReset(t) => History!Segments(t) = {}
  BY DEF History!Segments
<1> QED  BY <1>2, <1>4, <1>5, <1>6, <1>7

(* The final reports are under the task and under its last segment.        *)
LEMMA FinalReports ==
    ASSUME NEW t \in Tasks, NEW a
    PROVE  /\ <<a, Overall>> \in History!ReportRows(t) <=> a \in task[t].reports
           /\ History!HasReset(t) =>
                 (<<a, History!FinalSegmentNo(t)>> \in History!ReportRows(t) <=> a \in task[t].reports)
<1> USE DEF Overall, History!Overall
<1>1. \A r : <<r.agent, History!SegmentNoForResetIndex(t, r.index)>> # <<a, -1>>
  BY SegmentNumbers
<1>2. History!HasReset(t) =>
        \A r : <<r.agent, History!SegmentNoForResetIndex(t, r.index)>> # <<a, History!FinalSegmentNo(t)>>
  BY SegmentNumbers
<1>3. History!HasReset(t) => History!FinalSegmentNo(t) # -1
  BY SegmentNumbers
<1>4. <<a, -1>> \in History!ReportRows(t) <=> a \in task[t].reports
  BY <1>1, <1>3 DEF History!ReportRows
<1>5. History!HasReset(t) =>
        (<<a, History!FinalSegmentNo(t)>> \in History!ReportRows(t) <=> a \in task[t].reports)
  BY <1>2, <1>3 DEF History!ReportRows
<1> QED  BY <1>4, <1>5

LEMMA FinalAggregates ==
    ASSUME NEW t \in Tasks, NEW table, table = History!Upserted(aggregated[t], History!AggregatedRows(t))
    PROVE  /\ Overall \in DOMAIN table
           /\ History!HasReset(t) =>
                 /\ History!FinalSegmentNo(t) \in DOMAIN table
                 /\ table[History!FinalSegmentNo(t)] = table[Overall]
<1> DEFINE new == History!AggregatedRows(t)
<1>1. Overall \in DOMAIN new /\ new[Overall] = History!FinalStress(t)
  BY DEF History!AggregatedRows, Overall
<1>2. History!HasReset(t) => /\ History!FinalSegmentNo(t) \in DOMAIN new
                            /\ new[History!FinalSegmentNo(t)] = History!FinalStress(t)
  BY DEF History!AggregatedRows
<1> HIDE DEF new
<1>3. /\ DOMAIN table = DOMAIN aggregated[t] \cup DOMAIN new
      /\ \A k \in DOMAIN new : table[k] = new[k]
  BY DEF History!Upserted, new
<1> QED  BY <1>1, <1>2, <1>3

LEMMA ArchiveTypes ==
    ASSUME RowTypes, NEW t \in Tasks, History!Archive(t), UNCHANGED meta
    PROVE  /\ RowTypes'
           /\ \A s \in Tasks \ {t} :
                /\ assignment'[s] = assignment[s] /\ report'[s] = report[s]
                /\ aggregated'[s] = aggregated[s] /\ hist'[s] = hist[s]
           /\ \A r \in Agents \X Shown(t) :
                report'[t][r] = IF r \in History!ReportRows(t) THEN report[t][r] + 1 ELSE report[t][r]
           /\ aggregated'[t] = History!Upserted(aggregated[t], History!AggregatedRows(t))
<1>1. /\ assignment' = [assignment EXCEPT ![t] = [a \in Agents |-> @[a] + 1]]
      /\ report' = [report EXCEPT ![t] =
                     [r \in DOMAIN @ |-> IF r \in History!ReportRows(t) THEN @[r] + 1 ELSE @[r]]]
      /\ aggregated' = [aggregated EXCEPT ![t] = History!Upserted(@, History!AggregatedRows(t))]
      /\ hist' = [hist EXCEPT ![t] = task[t].stopped]
  BY DEF History!Archive
<1>2. \A s \in Tasks \ {t} :
        /\ assignment'[s] = assignment[s] /\ report'[s] = report[s]
        /\ aggregated'[s] = aggregated[s] /\ hist'[s] = hist[s]
  BY <1>1
<1>3. aggregated'[t] = History!Upserted(aggregated[t], History!AggregatedRows(t))
  BY <1>1 DEF RowTypes
<1>4. DOMAIN report[t] = Agents \X Shown(t)
  BY DEF RowTypes
<1>5. report'[t] = [r \in Agents \X Shown(t) |->
                     IF r \in History!ReportRows(t) THEN report[t][r] + 1 ELSE report[t][r]]
  BY <1>1, <1>4 DEF RowTypes
<1>6. assignment'[t] = [a \in Agents |-> assignment[t][a] + 1]
  BY <1>1 DEF RowTypes
<1>7. /\ assignment' = [s \in Tasks |-> assignment'[s]]
      /\ report' = [s \in Tasks |-> report'[s]]
      /\ aggregated' = [s \in Tasks |-> aggregated'[s]]
  BY <1>1 DEF RowTypes
<1>8. ASSUME NEW s \in Tasks
      PROVE  /\ assignment'[s] = [a \in Agents |-> assignment'[s][a]]
             /\ report'[s] = [r \in Agents \X Shown(s) |-> report'[s][r]]
  <2>1. CASE s = t
    BY <1>5, <1>6, <2>1
  <2>2. CASE s # t
    <3>1. assignment'[s] = assignment[s] /\ report'[s] = report[s]
      BY <1>2, <2>2
    <3> QED  BY <3>1 DEF RowTypes
  <2> QED  BY <2>1, <2>2
<1>9. RowTypes'
  BY <1>7, <1>8 DEF RowTypes
<1> QED  BY <1>2, <1>3, <1>5, <1>9

LEMMA ArchiveIsComplete ==
    ASSUME RowTypes, HistoryTypes, WholeInv, NEW t \in Tasks, task[t].stopped \in Nat,
           History!Archive(t), UNCHANGED meta
    PROVE  WholeInv'
<1>1. hist'[t] # -1 /\ config' = config \cup {t}
  BY DEF History!Archive, HistoryTypes
<1>2. ASSUME NEW s \in Tasks \ {t}
      PROVE  IF hist'[s] = -1 THEN NoRowsOf(s)' ELSE AllRowsOf(s)'
  BY <1>1, <1>2, ArchiveTypes
     DEF WholeInv, NoRowsOf, AllRowsOf
<1>3. AllRowsOf(t)'
  <2>1. aggregated'[t] = History!Upserted(aggregated[t], History!AggregatedRows(t))
    BY ArchiveTypes
  <2>2. /\ Overall \in DOMAIN aggregated'[t]
        /\ History!HasReset(t) =>
              /\ History!FinalSegmentNo(t) \in DOMAIN aggregated'[t]
              /\ aggregated'[t][History!FinalSegmentNo(t)] = aggregated'[t][Overall]
    BY <2>1, FinalAggregates
  <2>3. ASSUME History!HasReset(t), NEW a \in Agents
        PROVE  report'[t][<<a, History!FinalSegmentNo(t)>>] = report'[t][<<a, Overall>>]
    <3>1. /\ <<a, History!FinalSegmentNo(t)>> \in Agents \X Shown(t)
          /\ <<a, Overall>> \in Agents \X Shown(t)
      BY <2>3, SegmentNumbers DEF Shown
    <3>2. report[t][<<a, History!FinalSegmentNo(t)>>] = report[t][<<a, Overall>>]
      <4>1. hist[t] # -1 => AllRowsOf(t)
        BY DEF WholeInv
      <4>2. hist[t] = -1 => \A r \in Agents \X Shown(t) : report[t][r] = 0
        BY DEF WholeInv, NoRowsOf, RowTypes
      <4> QED  BY <2>3, <3>1, <4>1, <4>2 DEF AllRowsOf
    <3> QED  BY <2>3, <3>1, <3>2, FinalReports, ArchiveTypes
  <2> QED  BY <1>1, <2>2, <2>3
        DEF AllRowsOf
<1> QED  BY <1>1, <1>2, <1>3 DEF WholeInv

LEMMA RemovedIsGone ==
    ASSUME RowTypes, HistoryTypes, MetaInv, WholeInv, NEW removed, History!RemoveTasks(removed)
    PROVE  RowTypes' /\ WholeInv' /\ \A t \in Tasks : DOMAIN meta'[t] \subseteq Shown(t)
<1>1. /\ assignment' = [t \in Tasks |-> IF t \in removed THEN [a \in Agents |-> 0] ELSE assignment[t]]
      /\ report' = [t \in Tasks |-> IF t \in removed THEN [r \in DOMAIN report[t] |-> 0] ELSE report[t]]
      /\ aggregated' = [t \in Tasks |-> IF t \in removed THEN History!Empty ELSE aggregated[t]]
      /\ meta' = [t \in Tasks |-> IF t \in removed THEN History!Empty ELSE meta[t]]
      /\ config' = config \ removed
  BY DEF History!RemoveTasks
<1>2. \A t \in Tasks : DOMAIN report[t] = Agents \X Shown(t)
  BY DEF RowTypes
<1>3. /\ assignment' = [t \in Tasks |-> assignment'[t]]
      /\ report' = [t \in Tasks |-> report'[t]]
      /\ aggregated' = [t \in Tasks |-> aggregated'[t]]
      /\ meta' = [t \in Tasks |-> meta'[t]]
  BY <1>1
<1>4. \A t \in Tasks : t \in removed =>
        /\ assignment'[t] = [a \in Agents |-> 0]
        /\ report'[t] = [r \in Agents \X Shown(t) |-> 0]
        /\ aggregated'[t] = History!Empty /\ meta'[t] = History!Empty
  BY <1>1, <1>2
<1>5. \A t \in Tasks : t \notin removed =>
        /\ assignment'[t] = assignment[t] /\ report'[t] = report[t]
        /\ aggregated'[t] = aggregated[t] /\ meta'[t] = meta[t]
  BY <1>1
<1>6. ASSUME NEW t \in Tasks
      PROVE  /\ assignment'[t] = [a \in Agents |-> assignment'[t][a]]
             /\ report'[t] = [r \in Agents \X Shown(t) |-> report'[t][r]]
  <2>1. CASE t \in removed
    BY <1>4, <2>1
  <2>2. CASE t \notin removed
    <3>1. assignment'[t] = assignment[t] /\ report'[t] = report[t]
      BY <1>5, <2>2
    <3> QED  BY <3>1 DEF RowTypes
  <2> QED  BY <2>1, <2>2
<1>7. RowTypes'
  BY <1>3, <1>6 DEF RowTypes
<1>8. ASSUME NEW t \in Tasks
      PROVE  IF hist'[t] = -1 THEN NoRowsOf(t)' ELSE AllRowsOf(t)'
  <2>1. hist'[t] = IF t \in removed THEN -1 ELSE hist[t]
    BY RemovedFromHistory DEF HistoryTypes
  <2>2. CASE t \in removed
    BY <1>1, <1>4, <2>1, <2>2 DEF NoRowsOf, History!Empty
  <2>3. CASE t \notin removed
    BY <1>1, <1>5, <2>1, <2>3 DEF WholeInv, NoRowsOf, AllRowsOf, History!Empty
  <2> QED  BY <2>2, <2>3
<1>9. ASSUME NEW t \in Tasks
      PROVE  DOMAIN meta'[t] \subseteq Shown(t)
  <2>1. CASE t \in removed
    <3>1. meta'[t] = <<>>
      BY <1>4, <2>1 DEF History!Empty
    <3>2. DOMAIN <<>> = {}
      OBVIOUS
    <3> QED  BY <3>1, <3>2
  <2>2. CASE t \notin removed
    BY <1>5, <2>2 DEF MetaInv
  <2> QED  BY <2>1, <2>2
<1> QED  BY <1>7, <1>8, <1>9 DEF WholeInv

LEMMA TableInit == History!Init => TableInv
<1> SUFFICES ASSUME History!Init PROVE TableInv
  OBVIOUS
<1>1. HistoryTypes
  BY HistoryInit DEF StarInv
<1>2. RowTypes
  BY DEF History!Init, RowTypes, Shown, Overall
<1>3. MetaInv
  BY DEF History!Init, MetaInv, OpInv, History!Empty, History!Idle
<1>4. WholeInv
  BY DEF History!Init, WholeInv, NoRowsOf, History!NoRow, History!Empty
<1> QED  BY <1>1, <1>2, <1>3, <1>4 DEF TableInv

LEMMA UpsertedMeta ==
    ASSUME RowTypes, MetaInv, NEW u \in Users, History!UpsertWrite(u)
    PROVE  /\ meta' = [t \in Tasks |-> meta'[t]]
           /\ \A t \in Tasks : DOMAIN meta'[t] \subseteq Shown(t)
<1>1. /\ op[u].kind = "write"
      /\ meta' = [meta EXCEPT ![op[u].task] = History!Upserted(@, [s \in {op[u].stage} |-> op[u].row])]
  BY DEF History!UpsertWrite
<1>2. op[u].task \in Tasks /\ op[u].stage \in Shown(op[u].task)
  BY <1>1 DEF MetaInv, OpInv
<1>3. ASSUME NEW t \in Tasks
      PROVE  DOMAIN meta'[t] \subseteq Shown(t)
  <2>1. CASE t = op[u].task
    <3>1. meta'[t] = History!Upserted(meta[t], [s \in {op[u].stage} |-> op[u].row])
      BY <1>1, <2>1 DEF RowTypes
    <3>2. DOMAIN meta'[t] = DOMAIN meta[t] \cup {op[u].stage}
      BY <3>1 DEF History!Upserted
    <3> QED  BY <1>2, <2>1, <3>2 DEF MetaInv
  <2>2. CASE t # op[u].task
    BY <1>1, <2>2 DEF RowTypes, MetaInv
  <2> QED  BY <2>1, <2>2
<1>4. meta' = [t \in Tasks |-> meta'[t]]
  BY <1>1 DEF RowTypes
<1> QED  BY <1>3, <1>4

LEMMA OpsKept ==
    ASSUME StagesAreShown, HistoryTypes, OpInv, History!Step
    PROVE  OpInv'
<1> USE DEF HistoryTypes, OpInv, History!taskVars
<1>1. \A t : Shown(t)' = Shown(t)
  BY DEF Shown, Overall, History!Overall, History!Segments, History!HasReset, History!FinalSegmentNo
<1>2. CASE UNCHANGED op
  BY <1>1, <1>2
<1>3. ASSUME NEW t \in Tasks, NEW u \in Users, NEW stage \in MetaStages, NEW req,
             History!UpsertCheck(u, t, stage, req)
      PROVE  OpInv'
  BY <1>1, <1>3 DEF History!UpsertCheck, StagesAreShown
<1>4. ASSUME NEW t \in Tasks, NEW u \in Users, NEW force \in BOOLEAN, History!DeleteCheck(u, t, force)
      PROVE  OpInv'
  BY <1>1, <1>4 DEF History!DeleteCheck
<1>5. ASSUME NEW u \in Users, History!UpsertLoad(u) \/ History!UpsertWrite(u) \/ History!DeleteTx(u)
      PROVE  OpInv'
  BY <1>1, <1>5 DEF History!UpsertLoad, History!UpsertWrite, History!DeleteTx, History!Idle
<1>6. CASE History!Restart
  BY <1>1, <1>6 DEF History!Restart, History!Idle
<1>7. History!Step =>
        \/ UNCHANGED op
        \/ \E t \in Tasks, u \in Users, stage \in MetaStages, req \in Requests : History!UpsertCheck(u, t, stage, req)
        \/ \E t \in Tasks, u \in Users, force \in BOOLEAN : History!DeleteCheck(u, t, force)
        \/ \E u \in Users : History!UpsertLoad(u) \/ History!UpsertWrite(u) \/ History!DeleteTx(u)
        \/ History!Restart
  BY DEF History!Step, History!End, History!ArchiveJob, History!AppendTimeseries, History!PruneSelect,
     History!PruneTx, History!DayPasses
<1> QED  BY <1>2, <1>3, <1>4, <1>5, <1>6, <1>7

LEMMA TableStep ==
    ASSUME StagesAreShown, TableInv, [History!Next]_History!vars
    PROVE  TableInv'
<1> USE DEF History!taskVars, History!rowVars
<1>1. CASE UNCHANGED <<hist, assignment, report, aggregated, config, meta>> /\ HistoryTypes' /\ OpInv'
  <2>1. RowTypes'
    BY <1>1 DEF TableInv, RowTypes
  <2>2. MetaInv'
    BY <1>1 DEF TableInv, MetaInv
  <2>3. WholeInv'
    BY <1>1 DEF TableInv, WholeInv, NoRowsOf, AllRowsOf
  <2> QED  BY <1>1, <2>1, <2>2, <2>3 DEF TableInv
<1>2. CASE UNCHANGED History!vars
  <2>1. HistoryTypes' /\ OpInv'
    BY <1>2 DEF TableInv, MetaInv, HistoryTypes, OpInv, History!vars
  <2> QED  BY <1>1, <1>2, <2>1 DEF History!vars
<1>3. CASE History!Next
  <2>1. History!Step /\ HistoryTypes' /\ OpInv'
    BY <1>3, TypesKept, OpsKept DEF History!Next, TableInv, MetaInv
  <2>2. ASSUME NEW t \in Tasks, History!ArchiveJob(t)
        PROVE  TableInv'
    <3>1. CASE History!Archive(t)
      <4>1. UNCHANGED meta /\ t \in jobs
        BY <2>2 DEF History!ArchiveJob
      <4>2. task[t].stopped \in Nat
        BY <4>1 DEF TableInv, HistoryTypes
      <4>3. RowTypes' /\ WholeInv'
        BY <3>1, <4>1, <4>2, ArchiveTypes, ArchiveIsComplete DEF TableInv
      <4>4. MetaInv'
        BY <2>1, <4>1 DEF TableInv, MetaInv
      <4> QED  BY <2>1, <4>3, <4>4 DEF TableInv
    <3>2. CASE UNCHANGED <<hist, assignment, report, aggregated, config>>
      BY <1>1, <2>1, <2>2, <3>2 DEF History!ArchiveJob
    <3> QED  BY <2>2, <3>1, <3>2 DEF History!ArchiveJob
  <2>3. ASSUME NEW u \in Users, History!UpsertWrite(u)
        PROVE  TableInv'
    <3>1. UNCHANGED <<hist, assignment, report, aggregated, config>>
      BY <2>3 DEF History!UpsertWrite
    <3>2. /\ meta' = [t \in Tasks |-> meta'[t]]
          /\ \A t \in Tasks : DOMAIN meta'[t] \subseteq Shown(t)
      BY <2>3, UpsertedMeta DEF TableInv
    <3>3. RowTypes'
      BY <3>1, <3>2 DEF TableInv, RowTypes
    <3>4. MetaInv'
      BY <2>1, <3>2 DEF MetaInv
    <3>5. WholeInv'
      BY <3>1 DEF TableInv, WholeInv, NoRowsOf, AllRowsOf
    <3> QED  BY <2>1, <3>3, <3>4, <3>5 DEF TableInv
  <2>4. ASSUME NEW removed, History!RemoveTasks(removed)
        PROVE  TableInv'
    <3>1. RowTypes' /\ WholeInv' /\ \A t \in Tasks : DOMAIN meta'[t] \subseteq Shown(t)
      BY <2>4, RemovedIsGone DEF TableInv
    <3>2. MetaInv'
      BY <2>1, <3>1 DEF MetaInv
    <3> QED  BY <2>1, <3>1, <3>2 DEF TableInv
  <2>5. History!Step =>
          \/ UNCHANGED <<hist, assignment, report, aggregated, config, meta>>
          \/ \E t \in Tasks : History!ArchiveJob(t)
          \/ \E u \in Users : History!UpsertWrite(u)
          \/ \E removed : History!RemoveTasks(removed)
    BY DEF History!Step, History!End, History!AppendTimeseries, History!UpsertCheck, History!DeleteCheck,
       History!UpsertLoad, History!DeleteTx, History!PruneSelect, History!PruneTx, History!DayPasses,
       History!Restart
  <2> QED  BY <1>1, <2>1, <2>2, <2>3, <2>4, <2>5
<1> QED  BY <1>2, <1>3

(* What the invariant says of the tables and of the routes.                *)
LEMMA TableInvAgrees ==
    ASSUME TableInv
    PROVE  TablesAgree
<1>1. ASSUME NEW t \in Tasks, hist[t] # -1, History!HasReset(t)
      PROVE  /\ History!Aggregate(t, History!FinalSegmentNo(t)) = History!Aggregate(t, Overall)
             /\ History!ReportSummaries(t, History!FinalSegmentNo(t)) = History!ReportSummaries(t, Overall)
  <2>1. AllRowsOf(t)
    BY <1>1 DEF TableInv, WholeInv
  <2>2. /\ History!Normalized(History!FinalSegmentNo(t)) = History!FinalSegmentNo(t)
        /\ History!Normalized(Overall) = Overall
    BY <1>1, SegmentNumbers DEF History!Normalized, Overall, History!Overall
  <2> QED  BY <1>1, <2>1, <2>2 DEF AllRowsOf, History!Aggregate, History!ReportSummaries
<1>2. History!ArchiveIsWhole
  <2>1. ASSUME NEW t \in Tasks, hist[t] = -1
        PROVE  NoRowsOf(t)
    BY <2>1 DEF TableInv, WholeInv
  <2>2. ASSUME NEW t \in Tasks, hist[t] # -1
        PROVE  AllRowsOf(t)
    BY <2>2 DEF TableInv, WholeInv
  <2> QED  BY <1>1, <2>1, <2>2
        DEF History!ArchiveIsWhole, History!NoRow, NoRowsOf, AllRowsOf, Overall
<1>3. ASSUME NEW t \in Tasks, NEW seg \in History!Segments(t)
      PROVE  /\ History!Children(t)[seg].meta = History!loadMeta(t, seg)
             /\ History!Children(t)[seg].meta = History!GetDetailSummary(t, seg).meta
             /\ History!Children(t)[seg].stress = History!GetDetailSummary(t, seg).stress
  <2>1. seg \in Nat \ {0} /\ History!Normalized(seg) = seg
    BY SegmentNumbers DEF History!Normalized
  <2>2. History!Children(t)[seg].meta = History!loadMeta(t, seg)
    BY <2>1 DEF History!Children, History!StageMeta, History!loadMeta
  <2>3. History!Children(t)[seg].stress = History!Aggregate(t, seg)
    BY <2>1 DEF History!Children, History!StageAgg, History!Aggregate
  <2>4. /\ History!GetDetailSummary(t, seg).meta = History!loadMeta(t, seg)
        /\ History!GetDetailSummary(t, seg).stress = History!Aggregate(t, seg)
    BY <2>1 DEF History!GetDetailSummary
  <2> QED  BY <2>2, <2>3, <2>4
<1>4. ASSUME NEW t \in Tasks, hist[t] # -1
      PROVE  t \in History!Listed(TRUE) <=> \/ History!Record(t).starred
                                           \/ \E seg \in History!Segments(t) : History!Children(t)[seg].meta.starred
  <2>1. t \in History!Listed(TRUE) <=> History!Starred(t)
    BY <1>4 DEF History!Listed, History!NoRow
  <2>2. History!Record(t).starred = History!loadMeta(t, Overall).starred
    BY DEF History!Record, Overall
  <2>3. ASSUME NEW stage
        PROVE  History!loadMeta(t, stage).starred => stage \in DOMAIN meta[t] /\ meta[t][stage].starred
    BY <2>3 DEF History!loadMeta, History!ZeroMeta
  <2>4. ASSUME NEW stage \in DOMAIN meta[t], meta[t][stage].starred
        PROVE  History!loadMeta(t, stage).starred /\ stage \in Shown(t)
    BY <2>4 DEF History!loadMeta, TableInv, MetaInv
  <2> QED  BY <1>3, <2>1, <2>2, <2>3, <2>4 DEF History!Starred, Shown
<1>5. History!ViewsAgree
  BY <1>3, <1>4 DEF History!ViewsAgree, History!NoRow
<1> QED  BY <1>2, <1>5 DEF TablesAgree, History!TablesAgree

THEOREM HistoryTablesAgree == StagesAreShown => (History!Spec => []TablesAgree)
<1>1. SUFFICES ASSUME StagesAreShown PROVE History!Spec => []TablesAgree
  OBVIOUS
<1>2. TableInv /\ [History!Next]_History!vars => TableInv'
  BY <1>1, TableStep
<1> QED  BY TableInit, <1>2, TableInvAgrees, PTL DEF History!Spec

-----------------------------------------------------------------------------
(* The template libraries.                                                 *)

(* A template that could be saved as it is, with the times of its row.     *)
IsSound(r) ==
    /\ r = Templates!Row(r.name, r.body, r.created, r.updated)
    /\ r.name \in {Trimmed[n] : n \in Names} \ (TooLong \cup {""})
    /\ Templates!ValidBody(r.body)
    /\ r.created \in Nat \ {0} /\ r.updated \in Nat \ {0}

(* A library: sound rows, for actions and listens under different names.   *)
IsLibrary(table) ==
    /\ table = [i \in DOMAIN table |-> table[i]]
    /\ Templates!NoID \notin DOMAIN table
    /\ \A i \in DOMAIN table : IsSound(table[i])
    /\ kind # "flow" => \A i, j \in DOMAIN table : i # j => table[i].name # table[j].name

LibraryInv ==
    /\ IsLibrary(rows)
    /\ ids \in Nat /\ clock \in Nat \ {0}
    /\ seen = [c \in Clients |-> seen[c]]
    /\ dropped = {}
    /\ \A c \in Clients : seen[c] # Templates!Unseen /\ c \notin touched => seen[c] = rows

LEMMA StoredStays ==
    ASSUME NEW t \in Nat \ {0}
    PROVE  Templates!Stored(t) \in Nat \ {0}
  BY DEF Templates!Stored

(* What ValidSave lets through makes a sound row.                          *)
LEMMA SavedIsSound ==
    ASSUME NEW n, NEW body, NEW created \in Nat \ {0}, NEW updated \in Nat \ {0},
           n \in Names \/ n \in {Trimmed[x] : x \in Names},
           Templates!NormalizeName(n) # "", Templates!ValidBody(body)
    PROVE  IsSound(Templates!Row(Templates!NormalizeName(n), body, created, updated))
<1>1. /\ Templates!NormalizeName(n) = Trimmed[n]
      /\ Trimmed[n] \notin TooLong \cup {""}
  BY DEF Templates!NormalizeName
<1>2. Trimmed[n] \in {Trimmed[x] : x \in Names}
  BY DataAssumption
<1> QED  BY <1>1, <1>2 DEF IsSound, Templates!Row

LEMMA RowFields ==
    ASSUME NEW n, NEW body, NEW created, NEW updated, NEW row, row = Templates!Row(n, body, created, updated)
    PROVE  /\ row.name = n /\ row.body = body /\ row.created = created /\ row.updated = updated
           /\ Templates!StoredRow(row)
                 = Templates!Row(n, body, Templates!Stored(created), Templates!Stored(updated))
<1>1. row = [name |-> n, body |-> body, created |-> created, updated |-> updated]
  BY DEF Templates!Row
<1>2. row.name = n /\ row.body = body /\ row.created = created /\ row.updated = updated
  BY <1>1
<1> QED  BY <1>2 DEF Templates!StoredRow

LEMMA StoredRowIsSound ==
    ASSUME NEW r, IsSound(r)
    PROVE  IsSound(Templates!StoredRow(r)) /\ Templates!StoredRow(r).name = r.name
<1> DEFINE stored == Templates!StoredRow(r)
<1>1. /\ r = Templates!Row(r.name, r.body, r.created, r.updated)
      /\ r.created \in Nat \ {0} /\ r.updated \in Nat \ {0}
  BY DEF IsSound
<1>2. stored = Templates!Row(r.name, r.body, Templates!Stored(r.created), Templates!Stored(r.updated))
  BY <1>1, RowFields
<1> HIDE DEF stored
<1>3. /\ stored.name = r.name /\ stored.body = r.body
      /\ stored.created = Templates!Stored(r.created) /\ stored.updated = Templates!Stored(r.updated)
  BY <1>2, RowFields
<1>4. stored.created \in Nat \ {0} /\ stored.updated \in Nat \ {0}
  BY <1>1, <1>3, StoredStays
<1>5. stored = Templates!Row(stored.name, stored.body, stored.created, stored.updated)
  BY <1>2, <1>3
<1>6. IsSound(stored) /\ stored.name = r.name
  BY <1>3, <1>4, <1>5 DEF IsSound
<1> QED  BY <1>6 DEF stored

LEMMA NameIsFree ==
    ASSUME NEW n, NEW except, ~Templates!NameTaken(n, except), kind # "flow"
    PROVE  \A i \in DOMAIN rows \ {except} : rows[i].name # n
  BY DEF Templates!NameTaken

LEMMA SameLibrary ==
    ASSUME kind' = kind, IsLibrary(rows')
    PROVE  IsLibrary(rows)'
<1>1. \A body : Templates!ValidBody(body)' <=> Templates!ValidBody(body)
  BY DEF Templates!ValidBody
<1>2. \A r : IsSound(r)' <=> IsSound(r)
  BY <1>1 DEF IsSound
<1> QED  BY <1>2 DEF IsLibrary

(* A write of one row: whoever had seen the library is touched.            *)
LEMMA WriteKeeps ==
    ASSUME LibraryInv, NEW table, Templates!Write(table), IsLibrary(table), ids' \in Nat
    PROVE  LibraryInv'
<1>1. /\ rows' = table /\ touched' = touched \cup Clients
      /\ UNCHANGED <<kind, clock, seen, dropped>>
  BY DEF Templates!Write
<1>2. IsLibrary(rows)'
  BY <1>1, SameLibrary
<1> QED  BY <1>1, <1>2 DEF LibraryInv

LEMMA CreateKeeps ==
    ASSUME LibraryInv, NEW n \in Names, NEW body, Templates!Create(n, body)
    PROVE  LibraryInv'
<1> DEFINE row == Templates!StoredRow(Templates!Row(Templates!NormalizeName(n), body, clock, clock))
           table == [i \in DOMAIN rows \cup {ids + 1} |-> IF i \in DOMAIN rows THEN rows[i] ELSE row]
<1>1. /\ Templates!Write(table) /\ ids' = ids + 1
      /\ Templates!NormalizeName(n) # "" /\ Templates!ValidBody(body)
      /\ ~Templates!NameTaken(Templates!NormalizeName(n), Templates!NoID)
  BY DEF Templates!Create, Templates!ValidSave
<1>0. ids' = ids + 1
  BY <1>1
<1>2. IsSound(Templates!Row(Templates!NormalizeName(n), body, clock, clock))
  BY <1>1, SavedIsSound DEF LibraryInv
<1>3. IsSound(row) /\ row.name = Templates!NormalizeName(n)
  <2>1. Templates!Row(Templates!NormalizeName(n), body, clock, clock).name = Templates!NormalizeName(n)
    BY DEF Templates!Row
  <2> QED  BY <1>2, <2>1, StoredRowIsSound
<1> HIDE DEF row
<1>4. IsLibrary(table)
  <2>1. /\ DOMAIN table = DOMAIN rows \cup {ids + 1} /\ table = [i \in DOMAIN table |-> table[i]]
        /\ \A i \in DOMAIN table : table[i] = IF i \in DOMAIN rows THEN rows[i] ELSE row
    OBVIOUS
  <2>2. Templates!NoID \notin DOMAIN table
    BY <2>1 DEF LibraryInv, IsLibrary, Templates!NoID
  <2>3. kind # "flow" => \A i \in DOMAIN rows : rows[i].name # row.name
    <3>1. DOMAIN rows \ {Templates!NoID} = DOMAIN rows
      BY DEF LibraryInv, IsLibrary
    <3> QED  BY <1>1, <1>3, <3>1, NameIsFree
  <2> HIDE DEF table
  <2> QED  BY <1>3, <2>1, <2>2, <2>3 DEF LibraryInv, IsLibrary
<1>5. ids' \in Nat
  BY <1>0 DEF LibraryInv
<1> HIDE DEF table
<1> QED  BY <1>1, <1>4, <1>5, WriteKeeps

(* A row that is replaced under its ID.                                    *)
LEMMA ReplaceKeeps ==
    ASSUME LibraryInv, NEW id \in DOMAIN rows, NEW row, IsSound(row),
           kind # "flow" => \A i \in DOMAIN rows \ {id} : rows[i].name # row.name
    PROVE  IsLibrary([rows EXCEPT ![id] = row])
<1> DEFINE table == [rows EXCEPT ![id] = row]
<1>1. /\ DOMAIN table = DOMAIN rows /\ table = [i \in DOMAIN table |-> table[i]]
      /\ \A i \in DOMAIN table : table[i] = IF i = id THEN row ELSE rows[i]
  BY DEF LibraryInv, IsLibrary
<1> HIDE DEF table
<1>2. IsLibrary(table)
  BY <1>1 DEF LibraryInv, IsLibrary
<1> QED  BY <1>2 DEF table

LEMMA UpdatedIsSound ==
    ASSUME LibraryInv, NEW id \in DOMAIN rows, NEW n \in Names, NEW body,
           Templates!NormalizeName(n) # "", Templates!ValidBody(body)
    PROVE  IsSound(Templates!Updated(id, n, body)) /\ Templates!Updated(id, n, body).name = Templates!NormalizeName(n)
<1>1. rows[id].created \in Nat \ {0} /\ clock \in Nat \ {0}
  BY DEF LibraryInv, IsLibrary, IsSound
<1>2. Templates!Stored(clock) \in Nat \ {0}
  BY <1>1, StoredStays
<1>3. Templates!Updated(id, n, body)
        = Templates!Row(Templates!NormalizeName(n), body, rows[id].created, Templates!Stored(clock))
  BY DEF Templates!Updated
<1>4. IsSound(Templates!Row(Templates!NormalizeName(n), body, rows[id].created, Templates!Stored(clock)))
  BY <1>1, <1>2, SavedIsSound
<1>5. Templates!Updated(id, n, body).name = Templates!NormalizeName(n)
  BY DEF Templates!Updated, Templates!Row
<1> QED  BY <1>3, <1>4, <1>5

LEMMA UpdateKeeps ==
    ASSUME LibraryInv, NEW id \in DOMAIN rows, NEW n \in Names, NEW body,
           Templates!Update(id, n, body) \/ Templates!UpdateFlow(id, n, body)
    PROVE  LibraryInv'
<1>1. CASE Templates!Update(id, n, body)
  <2>1. /\ Templates!NormalizeName(n) # "" /\ Templates!ValidBody(body)
        /\ ~Templates!NameTaken(Templates!NormalizeName(n), id)
        /\ Templates!Write([rows EXCEPT ![id] = Templates!Updated(id, n, body)])
        /\ ids' = ids
    BY <1>1 DEF Templates!Update, Templates!ValidSave
  <2>2. /\ IsSound(Templates!Updated(id, n, body))
        /\ Templates!Updated(id, n, body).name = Templates!NormalizeName(n)
    BY <2>1, UpdatedIsSound
  <2>3. IsLibrary([rows EXCEPT ![id] = Templates!Updated(id, n, body)])
    BY <2>1, <2>2, NameIsFree, ReplaceKeeps
  <2>4. ids' \in Nat
    BY <2>1 DEF LibraryInv
  <2> QED  BY <2>1, <2>3, <2>4, WriteKeeps
<1>2. CASE Templates!UpdateFlow(id, n, body)
  <2> DEFINE kept == IF body.empty THEN rows[id].body ELSE body
  <2>1. /\ kind = "flow" /\ Templates!NormalizeName(n) # ""
        /\ body.empty \/ Templates!ValidFlow(body)
        /\ Templates!Write([rows EXCEPT ![id] = Templates!Updated(id, n, kept)])
        /\ ids' = ids
    BY <1>2 DEF Templates!UpdateFlow
  <2>2. Templates!ValidBody(kept)
    BY <2>1 DEF LibraryInv, IsLibrary, IsSound, Templates!ValidBody
  <2> HIDE DEF kept
  <2>3. IsSound(Templates!Updated(id, n, kept))
    BY <2>1, <2>2, UpdatedIsSound
  <2>4. IsLibrary([rows EXCEPT ![id] = Templates!Updated(id, n, kept)])
    BY <2>1, <2>3, ReplaceKeeps
  <2>5. ids' \in Nat
    BY <2>1 DEF LibraryInv
  <2> QED  BY <2>1, <2>4, <2>5, WriteKeeps
<1> QED  BY <1>1, <1>2

LEMMA DeleteKeeps ==
    ASSUME LibraryInv, NEW id \in DOMAIN rows, Templates!Delete(id)
    PROVE  LibraryInv'
<1> DEFINE table == Templates!Restrict(rows, DOMAIN rows \ {id})
<1>1. Templates!Write(table) /\ ids' = ids
  BY DEF Templates!Delete
<1>2. /\ DOMAIN table = DOMAIN rows \ {id} /\ table = [i \in DOMAIN table |-> table[i]]
      /\ \A i \in DOMAIN table : table[i] = rows[i]
  BY DEF Templates!Restrict
<1> HIDE DEF table
<1>3. IsLibrary(table)
  BY <1>2 DEF LibraryInv, IsLibrary
<1>4. ids' \in Nat
  BY <1>1 DEF LibraryInv
<1> QED  BY <1>1, <1>3, <1>4, WriteKeeps

LEMMA SnapshotKeeps ==
    ASSUME LibraryInv, NEW c \in Clients, Templates!Snapshot(c)
    PROVE  LibraryInv'
<1>1. /\ seen' = [seen EXCEPT ![c] = rows] /\ touched' = touched \ {c}
      /\ UNCHANGED <<kind, rows, ids, clock, dropped>>
  BY DEF Templates!Snapshot, Templates!Revision
<1>2. IsLibrary(rows)'
  BY <1>1, SameLibrary DEF LibraryInv
<1> QED  BY <1>1, <1>2 DEF LibraryInv, Templates!Unseen

-----------------------------------------------------------------------------
(* Restores.                                                               *)

(* What a client may send back while its revision is the library's.        *)
LEMMA ItemsAreKnown ==
    ASSUME LibraryInv, NEW c \in Clients, Templates!Expected(c), NEW x \in Templates!Items(c)
    PROVE  /\ x.name \in Names \/ x.name \in {Trimmed[n] : n \in Names}
           /\ x.created \in Nat /\ x.updated \in Nat
<1> DEFINE known == IF seen[c] = Templates!Unseen THEN Templates!NoRows ELSE seen[c]
           Fits(y) == /\ y.name \in Names \/ y.name \in {Trimmed[n] : n \in Names}
                      /\ y.created \in Nat /\ y.updated \in Nat
           old == {Templates!Item(i, known[i]) : i \in DOMAIN known}
<1>1. \A i \in DOMAIN known : known[i] = rows[i] /\ i \in DOMAIN rows
  <2>1. DOMAIN Templates!NoRows = {}
    BY DEF Templates!NoRows
  <2> QED  BY <2>1 DEF Templates!Expected, Templates!Revision
<1>2. ASSUME NEW i \in DOMAIN known
      PROVE  Fits(Templates!Item(i, known[i]))
  <2>1. IsSound(known[i])
    BY <1>1 DEF LibraryInv, IsLibrary
  <2> HIDE DEF known
  <2> QED  BY <2>1 DEF IsSound, Templates!Item
<1>3. \A y \in old : Fits(y) /\ y = Templates!Item(y.id, y)
  BY <1>2 DEF Templates!Item
<1>4. ASSUME NEW n \in Names, NEW b
      PROVE  Fits(Templates!Item(Templates!NoID, Templates!Row(n, b, Templates!NoTime, Templates!NoTime)))
  BY DEF Templates!Item, Templates!Row, Templates!NoTime
<1>5. ASSUME NEW y \in old, NEW b
      PROVE  /\ Fits([y EXCEPT !.body = b])
             /\ Fits([y EXCEPT !.id = b])
             /\ Fits([y EXCEPT !.updated = 0])
  BY <1>3 DEF Templates!Item
<1>6. \/ x \in old
      \/ \E n \in Names, b \in Bodies[kind] :
            x = Templates!Item(Templates!NoID, Templates!Row(n, b, Templates!NoTime, Templates!NoTime))
      \/ \E y \in old, b \in Bodies[kind] : x = [y EXCEPT !.body = b]
      \/ \E y \in old : x = [y EXCEPT !.id = Templates!Foreign]
      \/ \E y \in old : x = [y EXCEPT !.updated = 0]
  BY DEF Templates!Items, Templates!NoTime
<1> HIDE DEF old
<1>7. Fits(x)
  BY <1>3, <1>4, <1>5, <1>6
<1> QED  BY <1>7

LEMMA SameCardinality == \A S : Templates!Cardinality(S) = Cardinality(S)
  BY Zenon DEF Cardinality, Templates!Cardinality

LEMMA NewIDsArePositive ==
    ASSUME NEW n \in Nat, NEW items, NEW i \in 1 .. n, items[i].id = Templates!NoID
    PROVE  Templates!NewIDs(items, i) \in Nat \ {0}
<1> DEFINE new == {j \in 1 .. i : items[j].id = Templates!NoID}
<1>1. IsFiniteSet(1 .. i)
  BY FS_Interval
<1>2. IsFiniteSet(new) /\ new # {}
  <2>1. new \subseteq 1 .. i /\ i \in new
    OBVIOUS
  <2> QED  BY <1>1, <2>1, FS_Subset
<1>3. Cardinality(new) \in Nat \ {0}
  BY <1>2, FS_CardinalityType, FS_EmptySet
<1> QED  BY <1>3, SameCardinality DEF Templates!NewIDs

LEMMA PreparedIsSound ==
    ASSUME LibraryInv, NEW item, NEW policy \in {"preserve", "merge"},
           item.name \in Names \/ item.name \in {Trimmed[x] : x \in Names},
           item.created \in Nat, item.updated \in Nat,
           Templates!ValidSave(item.name, item.body), Templates!ValidIdentity(item, policy),
           policy = "merge" => item.id \in DOMAIN rows \cup {Templates!NoID}
    PROVE  /\ IsSound(Templates!Prepared(item, policy))
           /\ Templates!Prepared(item, policy).name = Templates!NormalizeName(item.name)
<1>1. Templates!NormalizeName(item.name) # "" /\ Templates!ValidBody(item.body)
  BY DEF Templates!ValidSave
<1>2. clock \in Nat \ {0}
  BY DEF LibraryInv
<1> DEFINE Sound(created, updated) == Templates!Row(Templates!NormalizeName(item.name), item.body, created, updated)
<1>3. ASSUME NEW created \in Nat \ {0}, NEW updated \in Nat \ {0}
      PROVE  /\ IsSound(Sound(created, updated))
             /\ Sound(created, updated).name = Templates!NormalizeName(item.name)
  <2>1. IsSound(Sound(created, updated))
    BY <1>1, SavedIsSound
  <2>2. Sound(created, updated).name = Templates!NormalizeName(item.name)
    BY DEF Templates!Row
  <2> QED  BY <2>1, <2>2
<1>4. \E created, updated \in Nat \ {0} : Templates!Prepared(item, policy) = Sound(created, updated)
  <2>1. CASE policy = "preserve"
    <3>1. item.created \in Nat \ {0} /\ item.updated \in Nat \ {0}
      BY <2>1 DEF Templates!ValidIdentity, Templates!NoTime
    <3>2. Templates!Prepared(item, policy) = Sound(item.created, item.updated)
      BY <2>1 DEF Templates!Prepared
    <3> QED  BY <3>1, <3>2
  <2>2. CASE policy = "merge" /\ item.id = Templates!NoID
    <3>1. Templates!Prepared(item, policy) = Sound(clock, clock)
      BY <2>2 DEF Templates!Prepared
    <3> QED  BY <1>2, <3>1
  <2>3. CASE policy = "merge" /\ item.id # Templates!NoID
    <3> DEFINE old == rows[item.id]
               updated == IF old.name = Templates!NormalizeName(item.name) /\ old.body = item.body
                          THEN old.updated ELSE clock
    <3>1. old.created \in Nat \ {0} /\ old.updated \in Nat \ {0}
      BY <2>3 DEF LibraryInv, IsLibrary, IsSound
    <3>2. Templates!Prepared(item, policy) = Sound(old.created, updated)
      BY <2>3 DEF Templates!Prepared
    <3>3. updated \in Nat \ {0}
      BY <1>2, <3>1
    <3> QED  BY <3>1, <3>2, <3>3
  <2> QED  BY <2>1, <2>2, <2>3
<1> HIDE DEF Sound
<1> QED  BY <1>3, <1>4

(* The table a restore leaves.                                             *)
LEMMA RestoredIsLibrary ==
    ASSUME LibraryInv, NEW c \in Clients, Templates!Expected(c), NEW policy \in {"preserve", "merge"},
           NEW n \in Nat, NEW items \in [1 .. n -> Templates!Items(c)],
           \A i \in 1 .. n : /\ Templates!ValidSave(items[i].name, items[i].body)
                             /\ Templates!ValidIdentity(items[i], policy)
                             /\ policy = "merge" => items[i].id \in DOMAIN rows \cup {Templates!NoID},
           kind # "flow" =>
               \A i, j \in 1 .. n : i # j =>
                   Templates!NormalizeName(items[i].name) # Templates!NormalizeName(items[j].name)
    PROVE  IsLibrary(Templates!Persisted(Templates!PreparedItems(items, policy)))
<1> DEFINE prepared == Templates!PreparedItems(items, policy)
           table == Templates!Persisted(prepared)
           Chosen(id) == CHOOSE i \in DOMAIN items : Templates!PreparedID(items, i) = id
<1>1. ASSUME NEW i \in 1 .. n
      PROVE  /\ IsSound(Templates!Prepared(items[i], policy))
             /\ Templates!Prepared(items[i], policy).name = Templates!NormalizeName(items[i].name)
             /\ Templates!PreparedID(items, i) # Templates!NoID
  <2>1. /\ items[i].name \in Names \/ items[i].name \in {Trimmed[x] : x \in Names}
        /\ items[i].created \in Nat /\ items[i].updated \in Nat
    BY <1>1, ItemsAreKnown
  <2>2. /\ Templates!ValidSave(items[i].name, items[i].body) /\ Templates!ValidIdentity(items[i], policy)
        /\ policy = "merge" => items[i].id \in DOMAIN rows \cup {Templates!NoID}
    BY <1>1
  <2>3. /\ IsSound(Templates!Prepared(items[i], policy))
        /\ Templates!Prepared(items[i], policy).name = Templates!NormalizeName(items[i].name)
    BY <2>1, <2>2, PreparedIsSound
  <2>4. Templates!PreparedID(items, i) # Templates!NoID
    BY <1>1, NewIDsArePositive DEF Templates!PreparedID, Templates!NoID, LibraryInv
  <2> QED  BY <2>3, <2>4
<1>2. /\ DOMAIN prepared = {Templates!PreparedID(items, i) : i \in 1 .. n}
      /\ \A id \in DOMAIN prepared : prepared[id] = Templates!Prepared(items[Chosen(id)], policy)
  BY DEF Templates!PreparedItems
<1>3. ASSUME NEW id \in DOMAIN prepared
      PROVE  Chosen(id) \in 1 .. n /\ Templates!PreparedID(items, Chosen(id)) = id
  <2>1. \E i \in DOMAIN items : Templates!PreparedID(items, i) = id
    BY <1>2, <1>3
  <2> QED  BY <2>1
<1>4. /\ DOMAIN table = DOMAIN prepared /\ table = [id \in DOMAIN table |-> table[id]]
      /\ \A id \in DOMAIN table : table[id] = Templates!StoredRow(prepared[id])
  BY DEF Templates!Persisted
<1> HIDE DEF prepared, table, Chosen
<1>5. ASSUME NEW id \in DOMAIN table
      PROVE  /\ IsSound(table[id]) /\ id # Templates!NoID
             /\ table[id].name = Templates!NormalizeName(items[Chosen(id)].name)
  <2>1. Chosen(id) \in 1 .. n /\ Templates!PreparedID(items, Chosen(id)) = id
    BY <1>3, <1>4
  <2>2. table[id] = Templates!StoredRow(Templates!Prepared(items[Chosen(id)], policy))
    BY <1>2, <1>4
  <2> QED  BY <1>1, <2>1, <2>2, StoredRowIsSound
<1>6. kind # "flow" => \A id, other \in DOMAIN table : id # other => table[id].name # table[other].name
  <2>1. SUFFICES ASSUME kind # "flow", NEW id \in DOMAIN table, NEW other \in DOMAIN table, id # other
                 PROVE  table[id].name # table[other].name
    OBVIOUS
  <2>2. /\ Chosen(id) \in 1 .. n /\ Chosen(other) \in 1 .. n /\ Chosen(id) # Chosen(other)
    BY <1>3, <1>4, <2>1
  <2> QED  BY <1>5, <2>1, <2>2
<1>7. IsLibrary(table)
  BY <1>4, <1>5, <1>6 DEF IsLibrary
<1> QED  BY <1>7 DEF table, prepared

LEMMA CreatedIsNatural ==
    ASSUME NEW n \in Nat, NEW items, DOMAIN items = 1 .. n
    PROVE  Templates!Created(items) \in Nat
<1> DEFINE new == {i \in DOMAIN items : items[i].id = Templates!NoID}
<1>1. IsFiniteSet(1 .. n)
  BY FS_Interval
<1>2. IsFiniteSet(new)
  BY <1>1, FS_Subset
<1>3. Cardinality(new) \in Nat
  BY <1>2, FS_CardinalityType
<1> QED  BY <1>3, SameCardinality DEF Templates!Created

(* A restore against the current revision discards nothing, and whoever    *)
(* else held that revision is touched, unless nothing has changed.         *)
LEMMA RestoreKeeps ==
    ASSUME LibraryInv, NEW c \in Clients, Templates!Expected(c), NEW policy,
           NEW n \in Nat, NEW items, DOMAIN items = 1 .. n,
           Templates!Restore(c, items, policy),
           IsLibrary(Templates!Persisted(Templates!PreparedItems(items, policy)))
    PROVE  LibraryInv'
<1> DEFINE table == Templates!Persisted(Templates!PreparedItems(items, policy))
<1>1. /\ rows' = table /\ seen' = [seen EXCEPT ![c] = table]
      /\ ids' = ids + Templates!Created(items)
      /\ touched' = IF rows' = rows THEN touched \ {c} ELSE (touched \cup Clients) \ {c}
      /\ UNCHANGED <<kind, clock>>
  BY DEF Templates!Restore, Templates!AnsweredRevision, Templates!Revision
<1>2. dropped' = dropped
  <2>1. dropped' = dropped \cup {i \in DOMAIN rows :
                                 c \in touched /\ (i \in DOMAIN seen[c] => seen[c][i] # rows[i])}
    BY DEF Templates!Restore
  <2>2. seen[c] = rows
    BY DEF Templates!Expected, Templates!Revision
  <2> QED  BY <2>1, <2>2
<1> HIDE DEF table
<1>3. IsLibrary(table)
  BY DEF table
<1>4. IsLibrary(rows)'
  BY <1>1, <1>3, SameLibrary
<1>5. ids' \in Nat
  <2>1. Templates!Created(items) \in Nat
    BY CreatedIsNatural
  <2> QED  BY <1>1, <2>1 DEF LibraryInv
<1>6. \A d \in Clients : seen'[d] # Templates!Unseen /\ d \notin touched' => seen'[d] = rows'
  BY <1>1 DEF LibraryInv
<1> QED  BY <1>1, <1>2, <1>4, <1>5, <1>6 DEF LibraryInv, Templates!Unseen

LEMMA LibraryInit == Templates!Init => LibraryInv
<1> SUFFICES ASSUME Templates!Init PROVE LibraryInv
  OBVIOUS
<1>1. DOMAIN <<>> = {}
  OBVIOUS
<1>2. IsLibrary(rows)
  BY <1>1 DEF Templates!Init, Templates!NoRows, IsLibrary
<1> QED  BY <1>2 DEF Templates!Init, LibraryInv

LEMMA LibraryStep ==
    ASSUME LibraryInv, [Templates!Next]_Templates!vars
    PROVE  LibraryInv'
<1>1. CASE UNCHANGED <<kind, rows, ids, seen, touched, dropped>> /\ clock' \in Nat \ {0}
  <2>1. IsLibrary(rows)'
    BY <1>1, SameLibrary DEF LibraryInv
  <2> QED  BY <1>1, <2>1 DEF LibraryInv, Templates!Unseen
<1>2. CASE UNCHANGED Templates!vars \/ Templates!Tick
  BY <1>1, <1>2 DEF Templates!vars, Templates!Tick, LibraryInv
<1>3. ASSUME NEW c \in Clients, Templates!ReplaceFlowSnapshot(c)
      PROVE  LibraryInv'
  <2>1. kind = "flow" /\ Templates!Expected(c)
    BY <1>3 DEF Templates!ReplaceFlowSnapshot
  <2>2. PICK n \in 0 .. 2 : \E items \in [1 .. n -> Templates!Items(c)] :
            Templates!ValidFlowItems(items) /\ Templates!Restore(c, items, "preserve")
    BY <1>3 DEF Templates!ReplaceFlowSnapshot
  <2>3. PICK items \in [1 .. n -> Templates!Items(c)] :
            Templates!ValidFlowItems(items) /\ Templates!Restore(c, items, "preserve")
    BY <2>2
  <2>4. n \in Nat /\ DOMAIN items = 1 .. n
    BY <2>3
  <2>5. \A i \in 1 .. n : /\ Templates!ValidSave(items[i].name, items[i].body)
                          /\ Templates!ValidIdentity(items[i], "preserve")
    BY <2>3, <2>4 DEF Templates!ValidFlowItems
  <2>6. IsLibrary(Templates!Persisted(Templates!PreparedItems(items, "preserve")))
    BY <2>1, <2>4, <2>5, RestoredIsLibrary
  <2> QED  BY <2>1, <2>3, <2>4, <2>6, RestoreKeeps
<1>4. ASSUME NEW c \in Clients, NEW policy \in {"preserve", "merge"}, Templates!ReplaceSnapshot(c, policy)
      PROVE  LibraryInv'
  <2>1. Templates!Expected(c)
    BY <1>4 DEF Templates!ReplaceSnapshot
  <2> DEFINE Accepted(items) ==
          /\ Templates!ValidItems(items, policy)
          /\ policy = "merge" => \A i \in DOMAIN items : items[i].id \in DOMAIN rows \cup {Templates!NoID}
          /\ Templates!Restore(c, items, policy)
  <2>2. \E n \in 0 .. 2 : \E items \in [1 .. n -> Templates!Items(c)] : Accepted(items)
    BY <1>4 DEF Templates!ReplaceSnapshot
  <2>3. PICK n \in 0 .. 2 : \E items \in [1 .. n -> Templates!Items(c)] : Accepted(items)
    BY <2>2
  <2>4. PICK items \in [1 .. n -> Templates!Items(c)] : Accepted(items)
    BY <2>3
  <2>5. n \in Nat /\ DOMAIN items = 1 .. n
    BY <2>4
  <2>6. \A i \in 1 .. n : /\ Templates!ValidSave(items[i].name, items[i].body)
                          /\ Templates!ValidIdentity(items[i], policy)
                          /\ policy = "merge" => items[i].id \in DOMAIN rows \cup {Templates!NoID}
    BY <2>4, <2>5 DEF Templates!ValidItems
  <2>7. \A i, j \in 1 .. n : i # j =>
            Templates!NormalizeName(items[i].name) # Templates!NormalizeName(items[j].name)
    BY <2>4, <2>5 DEF Templates!ValidItems
  <2>8. IsLibrary(Templates!Persisted(Templates!PreparedItems(items, policy)))
    BY <2>1, <2>5, <2>6, <2>7, RestoredIsLibrary
  <2> QED  BY <2>1, <2>4, <2>5, <2>8, RestoreKeeps
<1> QED  BY <1>2, <1>3, <1>4, CreateKeeps, UpdateKeeps, DeleteKeeps, SnapshotKeeps DEF Templates!Next

LEMMA LibraryInvIsSafe ==
    ASSUME LibraryInv
    PROVE  RestoresAreSafe
<1>1. Templates!NothingLostUnseen
  BY DEF LibraryInv, Templates!NothingLostUnseen
<1>2. Templates!FreshUntilTouched
  BY DEF LibraryInv, Templates!FreshUntilTouched, Templates!Revision
<1>3. ASSUME NEW i \in DOMAIN rows
      PROVE  /\ rows[i].name # "" /\ rows[i].name \notin TooLong /\ Templates!ValidBody(rows[i].body)
             /\ rows[i].name \in {Trimmed[n] : n \in Names}
             /\ rows[i].created # Templates!NoTime /\ rows[i].updated # Templates!NoTime
             /\ ~Templates!NameTaken(rows[i].name, i)
  <2>1. IsSound(rows[i])
    BY DEF LibraryInv, IsLibrary
  <2>2. ~Templates!NameTaken(rows[i].name, i)
    BY DEF LibraryInv, IsLibrary, Templates!NameTaken
  <2> QED  BY <2>1, <2>2 DEF IsSound, Templates!NoTime
<1>4. Templates!LibraryIsSound
  BY <1>3 DEF Templates!LibraryIsSound
<1> QED  BY <1>1, <1>2, <1>4 DEF RestoresAreSafe, Templates!RestoresAreSafe

THEOREM TemplatesRestoresAreSafe == Templates!Spec => []RestoresAreSafe
<1>1. LibraryInv /\ [Templates!Next]_Templates!vars => LibraryInv'
  BY LibraryStep
<1> QED  BY LibraryInit, <1>1, LibraryInvIsSafe, PTL DEF Templates!Spec
=============================================================================
