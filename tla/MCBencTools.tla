----------------------------- MODULE MCBencTools -----------------------------
(* Documents of depth at most three.  Strings look like the end of an entity,  *)
(* like an entity, or like a key.                                              *)
EXTENDS BencTools

CONSTANT Ints

\* A text as a sequence of characters.
T(s) == [k \in 1..Len(s) |-> SubSeq(s, k, k)]
MCChar == LET all == "0123456789abcdefghijklmnopqrstuvwxyz:-._ "
          IN {T(all)[k] : k \in 1..Len(all)}

S(s) == StringNode(T(s))
Scalars == {IntNode(v) : v \in Ints} \cup {S(s) : s \in {"", "e", "1:k", "info"}}
Pairs(V) == [1..2 -> V]
Lists == {ListNode(<<>>)} \cup {ListNode(p) : p \in Pairs(Scalars)}
Dicts ==
  {DictNode(<<S(p[1]), S("k"), S(p[2]), v>>) :
     p \in {<<"info", "k">>, <<"k", "k">>, <<"e", "info">>}, v \in Scalars \cup {ListNode(<<S("e")>>)}}

Torrents ==
  {DictNode(<<S("announce"), a, S("info"), i>>) :
     a \in {S("http"), IntNode(42)}, i \in Dicts \cup {S("d1:k"), ListNode(<<S("k")>>)}}

Others ==
  {DictNode(<<S("info"), S("announce"), S("announce"), S("u")>>),
   DictNode(<<>>), S("d"),
   ListNode(<<DictNode(<<S("k"), ListNode(<<IntNode(42), S("le")>>)>>), S("k")>>)}

MCInts == {7, 42, -3}
MCDigits == {1, 42}
MCDocuments == Scalars \cup Lists \cup Dicts \cup Torrents \cup Others

\* The documents and, three times over, their items.
Within(N) == N \cup UNION {{n.items[k] : k \in 1..Len(n.items)} : n \in N}
MCNodes == Within(Within(Within(MCDocuments)))

MCPaths ==
  {<<>>, <<T("info")>>, <<T("info"), T("k")>>, <<T("1")>>, <<T("0"), T("k"), T("01")>>,
   <<T("k"), T("0")>>, <<T("x"), T("info")>>}

P(ip, port, id, packed) == [ip |-> T(ip), port |-> port, id |-> T(id), packed |-> T(packed)]
Peers == {P("10.0.0.1", 80, "e", "10:abc"), P("::1", 6, "2:ip", "eeeeee")}
MCAnnounces ==
  [interval : {300}, compact : BOOLEAN, no_peer_id : BOOLEAN, six : {<<>>, T("18 bytes of a peer")},
   peers : {<<>>} \cup [1..1 -> Peers] \cup [1..2 -> Peers]]
==============================================================================
