----------------------------- MODULE WireState -----------------------------
(***************************************************************************)
(* The state of a robot (state/store.go) when responses are kept as wire   *)
(* bytes (protocol/protox).  A response is stored as a WireValue, the      *)
(* bytes and their message type; a path is read by scanning the bytes, and *)
(* the first write below a WireValue puts an Overlay over it, which keeps  *)
(* the written fields aside and leaves the bytes alone.  The code promises *)
(* that a robot cannot tell: every read answers as if the message had been *)
(* decoded into maps and lists when it arrived.                            *)
(*                                                                         *)
(* The bytes of a message are the sequence of its field occurrences        *)
(*     [f |-> field, w |-> "varint" or "bytes", u |-> number, bs |-> bytes]*)
(* in which a peer may repeat fields, mix packed and unpacked elements, use*)
(* several members of a oneof and wrong wire types.  Malformed bytes are   *)
(* refused by ValidateWire before they reach the store and are not         *)
(* modelled; all scalars are integers.  A value is a tagged record.  Values*)
(* are written to one place each: containers shared by two keys, which     *)
(* StoreAs of a binding can make, are outside the model.                   *)
(***************************************************************************)
EXTENDS Naturals, Sequences, SequencesExt, FiniteSets, TLC

CONSTANTS
    Schema,      \* message type -> set of [name, card, kind, of, oneof]
    Root,        \* the message type of the responses
    Occurrences, \* the occurrences a peer may append to a response
    IndexOf,     \* path segments that are array indexes -> the index
    Keys,        \* top-level keys
    Fields,      \* the paths (sequences of segments) below a response
    Mappings,    \* store mappings, sequences of [field, setter]
    Written,     \* the values a script writes
    MaxRaw, MaxSteps

VARIABLES
    raw,   \* the body of the next response
    data,  \* the store
    plain, \* the store if every response were expanded when it is stored
    steps

vars == <<raw, data, plain, steps>>

-----------------------------------------------------------------------------
(* Values.                                                                 *)

Nil == [t |-> "nil"]
Dead == [t |-> "dead"]
Num(n) == [t |-> "num", v |-> n]
MapOf(m) == [t |-> "map", m |-> m]
ListOf(l) == [t |-> "list", l |-> l]
Wire(d, bytes) == [t |-> "wire", desc |-> d, raw |-> bytes]
Frozen(msg) == [t |-> "frozen", msg |-> msg]
NewOverlay(base) == [t |-> "over", base |-> base, ov |-> <<>>]
Default == Num(0)

Found(v) == [found |-> TRUE, v |-> v]
Missing == [found |-> FALSE, v |-> Nil]

isArrayIndex(seg) == seg \in DOMAIN IndexOf
Set(m, k, v) == (k :> v) @@ m

-----------------------------------------------------------------------------
(* Scanning the bytes of one level: wirevalue.go.                          *)

NoField == [name |-> "", card |-> "", kind |-> "", of |-> "", oneof |-> ""]
ByName(d, name) ==
    IF \E fd \in Schema[d]: fd.name = name THEN CHOOSE fd \in Schema[d]: fd.name = name ELSE NoField
nativeWireType(kind) == IF kind = "msg" THEN "bytes" ELSE "varint"
concatSpans(spans) == FlattenSeq(spans)
decodePacked(bs) == [i \in DOMAIN bs |-> Num(bs[i].u)]

\* The last occurrence wins; the spans of a message are merged; a later member
\* of the same oneof clears what was collected.
wireCollectSingular(d, bytes, fd) ==
    LET Watched(o) ==
            LET f2 == ByName(d, o.f)
            IN  /\ o.f = fd.name \/ (fd.oneof # "" /\ f2.oneof = fd.oneof)
                /\ o.w = nativeWireType(f2.kind)
        Take(res, o) ==
            LET fresh == IF o.f # res.member
                         THEN [member |-> o.f, scalar |-> Nil, spans |-> <<>>] ELSE res
            IN  IF ByName(d, o.f).kind = "msg" THEN [fresh EXCEPT !.spans = Append(@, o.bs)]
                                               ELSE [fresh EXCEPT !.scalar = Num(o.u)]
    IN  FoldLeft(Take, [member |-> "", scalar |-> Nil, spans |-> <<>>], SelectSeq(bytes, Watched))

\* The elements one occurrence adds to a repeated field.
ElementsOf(fd, o) ==
    CASE fd.kind = "msg" /\ o.w = "bytes" -> <<Wire(fd.of, o.bs)>>
      [] fd.kind = "num" /\ o.w = "bytes" -> decodePacked(o.bs)
      [] fd.kind = "num" /\ o.w = "varint" -> <<Num(o.u)>>
      [] OTHER -> <<>>

\* The scan stops once limit elements are found; limit 0 collects all.
wireCollectList(bytes, fd, limit) ==
    FoldLeft(LAMBDA elems, o: IF limit > 0 /\ Len(elems) >= limit THEN elems
                              ELSE elems \o ElementsOf(fd, o),
             <<>>, SelectSeq(bytes, LAMBDA o: o.f = fd.name))

parseMapEntry(fd, bs) ==
    LET keys == SelectSeq(bs, LAMBDA o: o.f = "key" /\ o.w = "varint")
        values == SelectSeq(bs, LAMBDA o: o.f = "value" /\ o.w = nativeWireType(fd.kind))
        key == IF keys = <<>> THEN 0 ELSE Last(keys).u
    IN  [key |-> ToString(key),
         value |-> CASE fd.kind = "msg" -> Wire(fd.of, concatSpans([i \in DOMAIN values |-> values[i].bs]))
                     [] fd.kind = "num" -> IF values = <<>> THEN Default ELSE Num(Last(values).u)]

wireCollectMap(bytes, fd) ==
    FoldLeft(LAMBDA m, o: LET e == parseMapEntry(fd, o.bs) IN Set(m, e.key, e.value),
             <<>>, SelectSeq(bytes, LAMBDA o: o.f = fd.name /\ o.w = "bytes"))

\* The field descriptors of a path, resolved once per message type and path
\* (wirenav.go); NoField where a segment names no field.
RECURSIVE compileNavFds(_, _)
compileNavFds(d, segs) ==
    LET fd == ByName(d, segs[1])
        used == IF fd.card \in {"map", "list"} THEN 2 ELSE 1
        rest == SubSeq(segs, used + 1, Len(segs))
        key == [i \in 1 .. used - 1 |-> NoField]
    IN  CASE segs = <<>> -> <<>>
          [] segs # <<>> /\ (isArrayIndex(segs[1]) \/ fd = NoField) -> [i \in DOMAIN segs |-> NoField]
          [] OTHER -> <<fd>> \o key \o (IF fd.kind = "msg" THEN compileNavFds(fd.of, rest)
                                                           ELSE [i \in DOMAIN rest |-> NoField])

fdsTail(fds, n) == SubSeq(fds, n + 1, Len(fds))

RECURSIVE wireNavigate(_, _, _, _)
wireNavigate(d, bytes, parts, fds) ==
    LET fd == IF fds # <<>> /\ fds[1] # NoField THEN fds[1] ELSE ByName(d, parts[1])
        Below(v, n) == \* the value found after n segments, or what lies below it
            IF Len(parts) = n THEN Found(v)
            ELSE IF fd.kind = "msg"
                 THEN wireNavigate(fd.of, v.raw, SubSeq(parts, n + 1, Len(parts)), fdsTail(fds, n))
                 ELSE Missing
        entries == wireCollectMap(bytes, fd)
        one == wireCollectSingular(d, bytes, fd)
    IN  CASE isArrayIndex(parts[1]) \/ fd = NoField -> Missing
          [] fd.card = "map" ->
               IF DOMAIN entries = {} THEN Missing
               ELSE IF Len(parts) = 1 THEN Found(MapOf(entries))
               ELSE IF parts[2] \in DOMAIN entries THEN Below(entries[parts[2]], 2) ELSE Missing
          [] fd.card = "list" ->
               IF Len(parts) = 1
               THEN LET elems == wireCollectList(bytes, fd, 0)
                    IN  IF elems = <<>> THEN Missing ELSE Found(ListOf(elems))
               ELSE IF ~isArrayIndex(parts[2]) THEN Missing
               ELSE LET i == IndexOf[parts[2]] + 1
                        elems == wireCollectList(bytes, fd, i)
                    IN  IF i > Len(elems) THEN Missing ELSE Below(elems[i], 2)
          [] fd.card = "one" /\ fd.kind = "msg" ->
               IF one.member # fd.name \/ one.spans = <<>> THEN Missing
               ELSE Below(Wire(fd.of, concatSpans(one.spans)), 1)
          [] OTHER ->
               IF Len(parts) > 1 THEN Missing
               ELSE Found(IF one.member = fd.name /\ one.scalar # Nil THEN one.scalar ELSE Default)

\* The whole tree in one pass over the bytes: wirewalk.go.
NoAcc == [scalar |-> Nil, spans |-> <<>>, elems |-> <<>>, entries |-> <<>>]
RECURSIVE walkWireLevel(_, _)
walkWireLevel(d, bytes) ==
    LET Collect(s, o) ==
            LET fd == ByName(d, o.f)
                prev == IF fd.oneof \in DOMAIN s.winner THEN s.winner[fd.oneof] ELSE fd.name
                accs == IF fd.oneof # "" /\ prev # fd.name THEN [s.accs EXCEPT ![prev] = NoAcc] ELSE s.accs
                winner == IF fd.oneof # "" THEN Set(s.winner, fd.oneof, fd.name) ELSE s.winner
            IN  CASE fd = NoField -> s
                  [] fd.card = "map" ->
                       IF o.w # "bytes" THEN s
                       ELSE LET e == parseMapEntry(fd, o.bs)
                            IN  [s EXCEPT !.accs[o.f].entries = Set(@, e.key, e.value)]
                  [] fd.card = "list" -> [s EXCEPT !.accs[o.f].elems = @ \o ElementsOf(fd, o)]
                  [] fd.card = "one" /\ o.w # nativeWireType(fd.kind) -> s
                  [] fd.card = "one" /\ o.w = "bytes" /\ fd.kind = "msg" ->
                       [accs |-> [accs EXCEPT ![o.f].spans = Append(@, o.bs)], winner |-> winner]
                  [] OTHER -> [accs |-> [accs EXCEPT ![o.f].scalar = Num(o.u)], winner |-> winner]
        accs == FoldLeft(Collect, [accs |-> [x \in {fd.name: fd \in Schema[d]} |-> NoAcc],
                                   winner |-> <<>>], bytes).accs
        Tree(v) == IF v.t = "wire" THEN walkWireLevel(v.desc, v.raw) ELSE v
        Out(fd) ==
            LET acc == accs[fd.name]
            IN  CASE fd.card = "map" -> MapOf([k \in DOMAIN acc.entries |-> Tree(acc.entries[k])])
                  [] fd.card = "list" -> ListOf([i \in DOMAIN acc.elems |-> Tree(acc.elems[i])])
                  [] fd.card = "one" /\ fd.kind = "msg" -> walkWireLevel(fd.of, concatSpans(acc.spans))
                  [] OTHER -> IF acc.scalar # Nil THEN acc.scalar ELSE Default
        Skipped(fd) ==
            LET acc == accs[fd.name]
            IN  CASE fd.card = "map" -> DOMAIN acc.entries = {}
                  [] fd.card = "list" -> acc.elems = <<>>
                  [] OTHER -> fd.kind = "msg" /\ acc.spans = <<>>
        shown == {fd \in Schema[d]: ~Skipped(fd)}
    IN  MapOf([x \in {fd.name: fd \in shown} |-> Out(ByName(d, x))])

-----------------------------------------------------------------------------
(* Decoding: dynamicpb, and what frozen.go and factory.go read from it.    *)

Empty(d) == [t |-> "msg", desc |-> d, f |-> <<>>]

\* proto.Unmarshal into a message: every occurrence is merged in turn.
RECURSIVE Unmarshal(_, _)
Unmarshal(msg, bytes) ==
    LET Old(m, x, zero) == IF x \in DOMAIN m.f THEN m.f[x] ELSE zero
        Put(m, x, v) == [m EXCEPT !.f = Set(@, x, v)]
        Cleared(m, fd) == \* the other members of the oneof of fd
            [m EXCEPT !.f = [x \in {y \in DOMAIN m.f: \/ fd.oneof = ""
                                                      \/ y = fd.name
                                                      \/ ByName(m.desc, y).oneof # fd.oneof} |-> m.f[x]]]
        Entry(fd, bs) ==
            FoldLeft(LAMBDA e, o:
                        CASE o.f = "key" /\ o.w = "varint" -> [e EXCEPT !.key = o.u]
                          [] o.f = "value" /\ o.w = "bytes" /\ fd.kind = "msg" ->
                               [e EXCEPT !.value = Unmarshal(@, o.bs)]
                          [] o.f = "value" /\ o.w = "varint" /\ fd.kind = "num" -> [e EXCEPT !.value = Num(o.u)]
                          [] OTHER -> e,
                     [key |-> 0, value |-> IF fd.kind = "msg" THEN Empty(fd.of) ELSE Default], bs)
        Merge(m, o) ==
            LET fd == ByName(m.desc, o.f)
            IN  CASE fd = NoField -> m
                  [] fd.card = "map" /\ o.w = "bytes" ->
                       LET e == Entry(fd, o.bs)
                       IN  Put(m, o.f, Set(Old(m, o.f, <<>>), ToString(e.key), e.value))
                  [] fd.card = "list" /\ fd.kind = "msg" /\ o.w = "bytes" ->
                       Put(m, o.f, Append(Old(m, o.f, <<>>), Unmarshal(Empty(fd.of), o.bs)))
                  [] fd.card = "list" /\ fd.kind = "num" ->
                       Put(m, o.f, Old(m, o.f, <<>>) \o
                                       (IF o.w = "bytes" THEN [i \in DOMAIN o.bs |-> Num(o.bs[i].u)]
                                                         ELSE <<Num(o.u)>>))
                  [] fd.card = "one" /\ fd.kind = "msg" /\ o.w = "bytes" ->
                       Put(Cleared(m, fd), o.f, Unmarshal(Old(m, o.f, Empty(fd.of)), o.bs))
                  [] fd.card = "one" /\ fd.kind = "num" /\ o.w = "varint" ->
                       Put(Cleared(m, fd), o.f, Num(o.u))
                  [] OTHER -> m
    IN  FoldLeft(Merge, msg, bytes)

Decoded(d, bytes) == Unmarshal(Empty(d), bytes)

\* ref.Has of a message, a list or a map.
Has(msg, fd) == fd.name \in DOMAIN msg.f /\ (fd.card = "list" => msg.f[fd.name] # <<>>)

\* A field that reads as absent: an unset message, an empty list or map.
Absent(msg, fd) == ~(fd.card = "one" /\ fd.kind = "num") /\ ~Has(msg, fd)

\* The value of a field that is not absent, its messages still frozen.
frozenFieldValue(msg, fd) ==
    LET v == msg.f[fd.name]
        Shown(e) == IF fd.kind = "msg" THEN Frozen(e) ELSE e
    IN  CASE fd.card = "list" -> ListOf([i \in DOMAIN v |-> Shown(v[i])])
          [] fd.card = "map" -> MapOf([k \in DOMAIN v |-> Shown(v[k])])
          [] OTHER -> IF fd.name \in DOMAIN msg.f THEN Shown(v) ELSE Default

\* The same with its messages expanded to maps.
RECURSIVE messageToMap(_), fromFieldValue(_, _)
fromFieldValue(msg, fd) ==
    LET v == msg.f[fd.name]
        Shown(e) == IF fd.kind = "msg" THEN messageToMap(e) ELSE e
    IN  CASE fd.card = "list" -> ListOf([i \in DOMAIN v |-> Shown(v[i])])
          [] fd.card = "map" -> MapOf([k \in DOMAIN v |-> Shown(v[k])])
          [] OTHER -> IF fd.name \in DOMAIN msg.f THEN Shown(v) ELSE Default
messageToMap(msg) ==
    MapOf([x \in {fd.name: fd \in {g \in Schema[msg.desc]: ~Absent(msg, g)}} |->
              fromFieldValue(msg, ByName(msg.desc, x))])

RECURSIVE frozenNavigate(_, _)
frozenNavigate(msg, parts) ==
    LET fd == ByName(msg.desc, parts[1])
        v == msg.f[fd.name]
        Below(e, n) ==
            IF Len(parts) = n THEN Found(IF fd.kind = "msg" THEN Frozen(e) ELSE e)
            ELSE IF fd.kind = "msg" THEN frozenNavigate(e, SubSeq(parts, n + 1, Len(parts))) ELSE Missing
    IN  CASE isArrayIndex(parts[1]) \/ fd = NoField \/ Absent(msg, fd) -> Missing
          [] Len(parts) = 1 /\ fd # NoField /\ ~Absent(msg, fd) -> Found(frozenFieldValue(msg, fd))
          [] Len(parts) > 1 /\ fd.card = "list" /\ ~Absent(msg, fd) ->
               IF ~isArrayIndex(parts[2]) \/ IndexOf[parts[2]] >= Len(v) THEN Missing
               ELSE Below(v[IndexOf[parts[2]] + 1], 2)
          [] Len(parts) > 1 /\ fd.card = "map" /\ ~Absent(msg, fd) ->
               IF parts[2] \notin DOMAIN v THEN Missing ELSE Below(v[parts[2]], 2)
          [] Len(parts) > 1 /\ fd.card = "one" /\ ~Absent(msg, fd) ->
               IF fd.kind = "msg" THEN Below(v, 1) ELSE Missing

-----------------------------------------------------------------------------
(* Reading the store: state/store.go and overlay.go.                       *)

IsNavigator(v) == v.t \in {"wire", "frozen", "over"}

navigateValue(cur, seg) ==
    CASE cur.t = "list" /\ isArrayIndex(seg) ->
           IF IndexOf[seg] < Len(cur.l) THEN cur.l[IndexOf[seg] + 1] ELSE Nil
      [] cur.t = "map" /\ ~isArrayIndex(seg) -> IF seg \in DOMAIN cur.m THEN cur.m[seg] ELSE Nil
      [] OTHER -> Nil

\* NavigateSegs of the three navigators; navigateFrom on any value.
RECURSIVE NavigateSegs(_, _), navigateFrom(_, _)
NavigateSegs(nav, segs) ==
    CASE nav.t = "wire" -> wireNavigate(nav.desc, nav.raw, segs, compileNavFds(nav.desc, segs))
      [] nav.t = "frozen" -> frozenNavigate(nav.msg, segs)
      [] nav.t = "over" ->
           IF isArrayIndex(segs[1]) THEN Missing
           ELSE IF segs[1] \notin DOMAIN nav.ov THEN NavigateSegs(nav.base, segs)
           ELSE IF nav.ov[segs[1]] = Dead THEN Missing
           ELSE navigateFrom(nav.ov[segs[1]], Tail(segs))
navigateFrom(v, segs) ==
    CASE segs = <<>> -> [found |-> v # Nil, v |-> v]
      [] segs # <<>> /\ IsNavigator(v) -> NavigateSegs(v, segs)
      [] OTHER -> navigateFrom(navigateValue(v, segs[1]), Tail(segs))

GetPath(store, path) ==
    IF path[1] \in DOMAIN store THEN navigateFrom(store[path[1]], Tail(path)).v ELSE Nil

\* A value as maps, lists and scalars only: MaterializeValue, materializeAny.
RECURSIVE materializeAny(_)
materializeAny(v) ==
    CASE v.t = "wire" -> walkWireLevel(v.desc, v.raw)
      [] v.t = "frozen" -> messageToMap(v.msg)
      [] v.t = "list" -> ListOf([i \in DOMAIN v.l |-> materializeAny(v.l[i])])
      [] v.t = "map" -> MapOf([k \in DOMAIN v.m |-> materializeAny(v.m[k])])
      [] v.t = "over" ->
           LET base == materializeAny(v.base).m
               live == {k \in DOMAIN v.ov: v.ov[k] # Dead}
           IN  MapOf([k \in live |-> materializeAny(v.ov[k])]
                         @@ [k \in DOMAIN base \ DOMAIN v.ov |-> base[k]])
      [] OTHER -> v

-----------------------------------------------------------------------------
(* Writing the store.                                                      *)

setInValue(cur, seg, v) ==
    CASE cur.t = "over" /\ ~isArrayIndex(seg) -> [cur EXCEPT !.ov = Set(@, seg, IF v = Nil THEN Dead ELSE v)]
      [] cur.t = "list" /\ isArrayIndex(seg) ->
           IF IndexOf[seg] < Len(cur.l) THEN [cur EXCEPT !.l[IndexOf[seg] + 1] = v] ELSE cur
      [] cur.t = "map" /\ ~isArrayIndex(seg) -> [cur EXCEPT !.m = Set(@, seg, v)]
      [] OTHER -> cur

\* What a path descends into: containers as they are, a navigator below an
\* overlay of its own, anything else replaced by a new map.
Writable(v) ==
    CASE v.t \in {"map", "list", "over"} -> v
      [] v.t \in {"wire", "frozen"} -> NewOverlay(v)
      [] OTHER -> MapOf(<<>>)

\* Mutant: the overlay starts a field it has not seen from an empty map, not from the
\* message below it.
MutantChildForWrite(o, seg) ==
    IF seg \in DOMAIN o.ov /\ o.ov[seg] # Dead THEN Writable(o.ov[seg]) ELSE MapOf(<<>>)

childForWrite(o, seg) ==
    IF seg \in DOMAIN o.ov THEN Writable(o.ov[seg])
                           ELSE Writable(NavigateSegs(o.base, <<seg>>).v)

\* SetPath below the first segment.  A path through an array element that is
\* not a container writes nothing.
RECURSIVE SetBelow(_, _, _)
SetBelow(cur, segs, v) ==
    LET next == navigateValue(cur, segs[1])
    IN  CASE Len(segs) = 1 -> setInValue(cur, segs[1], v)
          [] Len(segs) > 1 /\ cur.t = "over" ->
               IF isArrayIndex(segs[1]) THEN cur
               ELSE [cur EXCEPT !.ov = Set(@, segs[1], SetBelow(childForWrite(cur, segs[1]), Tail(segs), v))]
          [] OTHER ->
               IF isArrayIndex(segs[1]) /\ next.t \in {"nil", "num"} THEN cur
               ELSE setInValue(cur, segs[1], SetBelow(Writable(next), Tail(segs), v))

SetPath(store, path, v) ==
    LET first == IF path[1] \in DOMAIN store THEN Writable(store[path[1]]) ELSE MapOf(<<>>)
    IN  Set(store, path[1], IF Len(path) = 1 THEN v ELSE SetBelow(first, Tail(path), v))

\* storeResponseWire: the fields first, then the whole response.
storeResponseWire(store, mappings, wv) ==
    LET fields == SelectSeq(mappings, LAMBDA m: m.field # <<>> /\ NavigateSegs(wv, m.field).found)
        whole == SelectSeq(mappings, LAMBDA m: m.field = <<>>)
    IN  FoldLeft(LAMBDA s, m: SetPath(s, m.setter,
                                      IF m.field = <<>> THEN wv ELSE NavigateSegs(wv, m.field).v),
                 store, fields \o whole)

\* storeResponse: the same mappings in the order of the flow, on the decoded
\* message.
storeResponse(store, mappings, tree) ==
    LET Of(m) == navigateFrom(tree, m.field).v
    IN  FoldLeft(LAMBDA s, m: IF Of(m) = Nil THEN s ELSE SetPath(s, m.setter, Of(m)), store, mappings)

-----------------------------------------------------------------------------
(* The robot.                                                              *)

Paths == {<<k>> \o p: k \in Keys, p \in Fields \union {<<>>}}

Init == raw = <<>> /\ data = <<>> /\ plain = <<>> /\ steps = 0

Step == steps < MaxSteps /\ steps' = steps + 1

\* The peer adds an occurrence to the response it is about to send.
Encode(o) ==
    /\ Step
    /\ Len(raw) < MaxRaw
    /\ raw' = Append(raw, o)
    /\ UNCHANGED <<data, plain>>

\* parseAndStoreResponse
StoreResponse(mappings) ==
    /\ Step
    /\ raw # <<>>
    /\ data' = storeResponseWire(data, mappings, Wire(Root, raw))
    /\ plain' = storeResponse(plain, mappings, messageToMap(Decoded(Root, raw)))
    /\ raw' = <<>>

\* robot.set_path of a script, or a setState action.
WritePath(path, v) ==
    /\ Step
    /\ data' = SetPath(data, path, v)
    /\ plain' = SetPath(plain, path, v)
    /\ UNCHANGED raw

\* robot.increment: anything but a number counts from zero.
Increment(key) ==
    LET toInt(store) == IF key \in DOMAIN store /\ store[key].t = "num" THEN store[key].v ELSE 0
    IN  /\ Step
        /\ data' = Set(data, key, Num(toInt(data) + 1))
        /\ plain' = Set(plain, key, Num(toInt(plain) + 1))
        /\ UNCHANGED raw

Delete(key) ==
    /\ Step
    /\ key \in DOMAIN data
    /\ data' = [k \in DOMAIN data \ {key} |-> data[k]]
    /\ plain' = [k \in DOMAIN plain \ {key} |-> plain[k]]
    /\ UNCHANGED raw

Next ==
    \/ \E o \in Occurrences: Encode(o)
    \/ \E m \in Mappings: StoreResponse(m)
    \/ \E p \in Paths, v \in Written: WritePath(p, v)
    \/ \E k \in Keys: Increment(k)
    \/ \E k \in Keys: Delete(k)

Spec == Init /\ [][Next]_vars

-----------------------------------------------------------------------------
(* Properties.                                                             *)

\* A value without the keys whose value is nil, which a read cannot tell from
\* keys that are not there.
RECURSIVE Bare(_)
Bare(v) ==
    CASE v.t = "map" -> MapOf([k \in {x \in DOMAIN v.m: v.m[x] # Nil} |-> Bare(v.m[k])])
      [] v.t = "list" -> ListOf([i \in DOMAIN v.l |-> Bare(v.l[i])])
      [] OTHER -> v

\* WireValue, wirevalue.go:29: whatever occurrences a peer puts into a message
\* and in which order, a path read from the bytes finds what it finds in the
\* decoded message, and the tree built in one pass is the decoded tree, so the
\* shadow checks of wireshadow.go never degrade a message type.
BytesReadAsDecoded ==
    LET msg == Decoded(Root, raw)
    IN  /\ walkWireLevel(Root, raw) = messageToMap(msg)
        /\ \A p \in Fields:
              LET wire == NavigateSegs(Wire(Root, raw), p)
                  oracle == NavigateSegs(Frozen(msg), p)
              IN  /\ wire.found = oracle.found
                  /\ materializeAny(wire.v) = materializeAny(oracle.v)

\* overlay.go:5: after any sequence of responses and writes, through overlays,
\* tombstones and list elements, every path of the store reads as if each
\* response had been expanded into maps and lists when it arrived.
OverlayIsInvisible ==
    \A p \in Paths: Bare(materializeAny(GetPath(data, p))) = Bare(GetPath(plain, p))

\* The two together: reading the bytes of a response late, and keeping it as
\* bytes below later writes, can never be seen.
LazinessIsInvisible == BytesReadAsDecoded /\ OverlayIsInvisible
=============================================================================
