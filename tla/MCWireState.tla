---------------------------- MODULE MCWireState ----------------------------
(***************************************************************************)
(* The messages WireState is checked with: a response with a number, a     *)
(* message, a list of messages, a packed list, a map of messages and a     *)
(* oneof of a number and a message.                                        *)
(***************************************************************************)
EXTENDS Naturals, Sequences, TLC

MCField(name, card, kind, of, oneof) ==
    [name |-> name, card |-> card, kind |-> kind, of |-> of, oneof |-> oneof]

MCSchema ==
    "Resp" :> {MCField("id", "one", "num", "", ""), MCField("hero", "one", "msg", "Hero", ""),
               MCField("heroes", "list", "msg", "Hero", ""), MCField("ids", "list", "num", "", ""),
               MCField("bag", "map", "msg", "Hero", ""),
               MCField("rank", "one", "num", "", "kind"), MCField("guild", "one", "msg", "Hero", "kind")}
    @@ "Hero" :> {MCField("lv", "one", "num", "", ""), MCField("pet", "one", "msg", "Hero", "")}

MCVarint(f, u) == [f |-> f, w |-> "varint", u |-> u, bs |-> <<>>]
MCBytes(f, bs) == [f |-> f, w |-> "bytes", u |-> 0, bs |-> bs]
MCHero(n) == <<MCVarint("lv", n)>>

MCOccurrences ==
    {MCVarint("id", 1), MCBytes("id", MCHero(1)),
     MCBytes("hero", MCHero(1)), MCBytes("hero", <<MCBytes("pet", MCHero(2))>>),
     MCBytes("heroes", MCHero(1)), MCVarint("ids", 1), MCBytes("ids", <<MCVarint("", 2), MCVarint("", 0)>>),
     MCBytes("bag", <<MCVarint("key", 1), MCBytes("value", MCHero(1))>>), MCBytes("bag", <<>>),
     MCVarint("rank", 1), MCBytes("guild", MCHero(1)), MCVarint("none", 1)}

MCIndexOf == "[0]" :> 0 @@ "[1]" :> 1

MCFields ==
    {<<"id">>, <<"id", "lv">>, <<"hero">>, <<"hero", "lv">>, <<"hero", "pet", "lv">>,
     <<"heroes">>, <<"heroes", "[0]", "lv">>, <<"ids", "[1]">>,
     <<"bag">>, <<"bag", "1">>, <<"rank">>, <<"guild", "lv">>}

MCMappings ==
    {<<[field |-> <<>>, setter |-> <<"a">>]>>,
     <<[field |-> <<"heroes">>, setter |-> <<"a", "hero">>],
       [field |-> <<"hero">>, setter |-> <<"a", "heroes", "[0]">>]>>}

MCWritten == {[t |-> "num", v |-> 7], [t |-> "nil"]}

=============================================================================
