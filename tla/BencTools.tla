------------------------------ MODULE BencTools ------------------------------
(***************************************************************************)
(* The tools that read bencoded documents: torrentinfo resolves a path to  *)
(* a root node and prints the tree below it, getpeers takes the tracker    *)
(* and the info dictionary out of a torrent file, and the peers out of the *)
(* reply.  All of them work on offsets into the text; the documents are    *)
(* built here together with the tree they encode, to compare with.         *)
(*                                                                         *)
(* The documents are well-formed, so T_FAIL and the errors that start from *)
(* it do not arise.  The formatting of torrentinfo's output, with its      *)
(* options -H, -t and -v, is left out.                                     *)
(***************************************************************************)
EXTENDS Bencode

-----------------------------------------------------------------------------
(***************************************************************************)
(* Documents.                                                              *)
(***************************************************************************)

\* The first n of some sequences, one behind the other.
Flat(ss, n) ==
  LET upto[k \in 0..Len(ss)] == IF k = 0 THEN <<>> ELSE upto[k - 1] \o ss[k]
  IN upto[n]

\* printf("%d").
Decimal(n) ==
  LET d[k \in 0..n] == IF k < 10 THEN <<Digits[k + 1]>>
                       ELSE d[k \div 10] \o <<Digits[(k % 10) + 1]>>
  IN d[n]
Signed(v) == IF v < 0 THEN <<"-">> \o Decimal(-v) ELSE Decimal(v)
Counts(s) == Decimal(Len(s)) \o <<":">> \o s

\* A line of torrentinfo's output: a node at an offset, how deep it is nested, its
\* extent, its string and its number (the integer, or a length or a count).
Line(off, depth, type, len, value, number) ==
  [off |-> off, depth |-> depth, type |-> type, len |-> len, value |-> value, number |-> number]
Moved(line, off, depth) ==
  Line(line.off + off, line.depth + depth, line.type, line.len, line.value, line.number)

\* A node of a tree: its text and its items, and its walk, the lines that it and
\* the nodes below it should be shown as, with offsets and depths relative to it.
Node(type, text, items, value, number, below) ==
  [type |-> type, text |-> text, items |-> items, value |-> value, number |-> number,
   walk |-> <<Line(0, 0, type, Len(text), value, number)>> \o below]

IntNode(v) == Node("T_INT", <<"i">> \o Signed(v) \o <<"e">>, <<>>, <<>>, v, <<>>)
StringNode(s) == Node("T_STRING", Counts(s), <<>>, s, Len(s), <<>>)

Texts(items) == [k \in 1..Len(items) |-> items[k].text]
OffsetOf(items, k) == 1 + Len(Flat(Texts(items), k - 1))

\* A value is nested one deeper than its key.
DepthOf(type, k) == IF type = "T_DICT" /\ k % 2 = 0 THEN 2 ELSE 1

Below(type, items) ==
  Flat([k \in 1..Len(items) |->
          [j \in 1..Len(items[k].walk) |->
             Moved(items[k].walk[j], OffsetOf(items, k), DepthOf(type, k))]], Len(items))

Compound(type, open, items, number) ==
  Node(type, <<open>> \o Flat(Texts(items), Len(items)) \o <<"e">>, items, <<>>, number,
       Below(type, items))

ListNode(items) == Compound("T_LIST", "l", items, Len(items))
\* Keys and values in turn.
DictNode(items) == Compound("T_DICT", "d", items, Len(items) \div 2)

MaxInt == 2147483647

\* The node n is legal, and its items are in N.
Legal(n, N) ==
  /\ n.text \in Seq(Char)
  /\ \/ n.type = "T_INT" /\ n.number \in (-MaxInt)..MaxInt /\ n = IntNode(n.number)
     \/ n.type = "T_STRING" /\ n.value \in Seq(Char) /\ n = StringNode(n.value)
     \/ n.type = "T_LIST" /\ n.items \in Seq(N) /\ n = ListNode(n.items)
     \/ /\ n.type = "T_DICT" /\ n.items \in Seq(N) /\ n = DictNode(n.items)
        /\ Len(n.items) % 2 = 0
        /\ \A k \in 1..Len(n.items) : k % 2 = 1 => n.items[k].type = "T_STRING"

CONSTANTS
  Nodes,        \* legal nodes
  Documents,    \* those that a file may hold
  Paths,        \* what may follow -k: sequences of tokens
  Announces     \* what the tracker may send: [interval, compact, no_peer_id, six, peers]

ASSUME NodesAssumption == Documents \subseteq Nodes /\ \A n \in Nodes : Legal(n, Nodes)

\* A token is the text of a key or the number of an item.
IsIndex(token) == DigitsAt(token, 0) = Len(token)
ASSUME PathsAssumption ==
  \A path \in Paths :
    /\ path \in Seq(Seq(Char))
    /\ \A k \in 1..Len(path) : IsIndex(path[k]) => Number(path[k], 0) <= MaxInt

MaxPort == 65535
Port == 0..MaxPort
Peer == [ip : Seq(Char), port : Port, id : Seq(Char), packed : Seq(Char)]

\* The interval is a number; a packed peer has six bytes, one of IPv6 eighteen.
ASSUME AnnouncesAssumption ==
  \A a \in Announces :
    /\ a.interval \in 0..MaxInt /\ a.compact \in BOOLEAN /\ a.no_peer_id \in BOOLEAN
    /\ a.six \in Seq(Char) /\ Len(a.six) % 18 = 0
    /\ a.peers \in Seq(Peer)
    /\ \A k \in 1..Len(a.peers) : Len(a.peers[k].packed) = 6

VARIABLES
  pc,
  doc, tokens, recurse, \* the file; the tokens of -k still to resolve; -r
  target,               \* history: the node that the tokens lead to, and its offset
  root,                 \* rnode_offset
  agenda,               \* calls of handle_bencoded_node() still to be made
  shown,                \* what has been printed
  sent, given, outcome  \* history: the tracker's list; which of -t and -h are
                        \* given; what getpeers has read

toolVars == <<pc, doc, tokens, recurse, target, root, agenda, shown, sent, given, outcome>>

\* (The tracker and the info dictionary are sequences of at most one text.)
Outcome(status, tracker, info, peers) ==
  [status |-> status, tracker |-> tracker, info |-> info, peers |-> peers]
Failed == Outcome("failed", <<>>, <<>>, <<>>)
Crashed == Outcome("crashed", <<>>, <<>>, <<>>)

NoAnnounce ==
  [interval |-> 0, compact |-> FALSE, no_peer_id |-> FALSE, six |-> <<>>, peers |-> <<>>]

ToolInit ==
  /\ pc = "args" /\ doc \in Documents /\ tokens = <<>> /\ recurse = FALSE
  /\ target = [node |-> doc, off |-> 0] /\ root = 0 /\ agenda = <<>> /\ shown = <<>>
  /\ sent = NoAnnounce /\ given = {} /\ outcome = Outcome("none", <<>>, <<>>, <<>>)

-----------------------------------------------------------------------------
(***************************************************************************)
(* torrentinfo.                                                            *)
(***************************************************************************)

TorrentInfo ==
  /\ pc = "args" /\ pc' = "path"
  /\ tokens' \in Paths /\ recurse' \in BOOLEAN
  /\ UNCHANGED <<doc, target, root, agenda, shown, sent, given, outcome>>

\* Where a token leads to in the text, -1 if nowhere.
StepOffset(token) ==
  CASE benc_entity_type(doc.text, root) = "T_LIST" ->
         IF IsIndex(token) THEN benc_list_item_offset(doc.text, root, Number(token, 0)) ELSE -1
    [] benc_entity_type(doc.text, root) = "T_DICT" ->
         benc_dict_value_offset(doc.text, root, token)
    [] OTHER -> -1

\* The position of the first value of a key in the tree, 0 if there is none.
ValueOf(node, key) ==
  LET hits == {k \in 1..Len(node.items) : k % 2 = 0 /\ node.items[k - 1].value = key}
  IN IF hits = {} THEN 0 ELSE CHOOSE k \in hits : \A j \in hits : k <= j

\* Where it leads to in the tree.
StepItem(node, token) ==
  IF node.type = "T_DICT" THEN ValueOf(node, token)
  ELSE IF node.type = "T_LIST" /\ IsIndex(token) /\ Number(token, 0) < Len(node.items)
    THEN Number(token, 0) + 1
  ELSE 0

\* A token that leads nowhere is skipped.
ResolveToken ==
  /\ pc = "path" /\ tokens # <<>> /\ tokens' = Tail(tokens)
  /\ root' = IF StepOffset(Head(tokens)) = -1 THEN root ELSE root + StepOffset(Head(tokens))
  /\ LET k == StepItem(target.node, Head(tokens))
     IN target' = IF k = 0 THEN target
                  ELSE [node |-> target.node.items[k],
                        off |-> target.off + OffsetOf(target.node.items, k)]
  /\ UNCHANGED <<pc, doc, recurse, agenda, shown, sent, given, outcome>>

StartWalk ==
  /\ pc = "path" /\ tokens = <<>>
  /\ pc' = "walk" /\ agenda' = <<[off |-> root, depth |-> 0]>>
  /\ UNCHANGED <<doc, tokens, recurse, target, root, shown, sent, given, outcome>>

\* Mutant: the value is taken to begin where its key does.
DictCallsAtKey(s, call) ==
  LET key(c) == call.off + benc_dict_key_offset(s, call.off, c - 1)
      n == Len(Keys(s, call.off))
  IN IF recurse
       THEN [j \in 1..(2 * n) |-> [off |-> key((j + 1) \div 2),
                                    depth |-> call.depth + 2 - (j % 2)]]
       ELSE [c \in 1..n |-> [off |-> key(c), depth |-> call.depth + 1]]

\* The calls a dictionary makes: keys and, if recursing, their values.
DictCalls(s, call) ==
  LET key(c) == call.off + benc_dict_key_offset(s, call.off, c - 1)
      value(c) == key(c) + benc_entity_length(s, key(c))
      n == Len(Keys(s, call.off))
  IN IF recurse
       THEN [j \in 1..(2 * n) |->
               [off |-> IF j % 2 = 1 THEN key((j + 1) \div 2) ELSE value((j + 1) \div 2),
                depth |-> call.depth + 2 - (j % 2)]]
       ELSE [c \in 1..n |-> [off |-> key(c), depth |-> call.depth + 1]]

ListCalls(s, call) ==
  IF recurse
    THEN [c \in 1..Counted(s, call.off) |->
            [off |-> call.off + benc_list_item_offset(s, call.off, c - 1),
             depth |-> call.depth + 1]]
    ELSE <<>>

NumberShown(s, i) ==
  CASE benc_entity_type(s, i) = "T_INT" -> benc_int_value(s, i, -1)
    [] benc_entity_type(s, i) = "T_STRING" -> benc_string_length(s, i)
    [] benc_entity_type(s, i) = "T_DICT" -> Len(Keys(s, i))
    [] OTHER -> Counted(s, i)

\* The line that is printed for the node at i.
LineAt(s, i, depth) ==
  Line(i, depth, benc_entity_type(s, i), benc_entity_length(s, i),
       IF IsKey(s, i) THEN StringData(s, i) ELSE <<>>, NumberShown(s, i))

\* One call of handle_bencoded_node(), down to the calls it makes itself.
HandleNode ==
  /\ pc = "walk" /\ agenda # <<>>
  /\ LET call == Head(agenda)
         type == benc_entity_type(doc.text, call.off)
     IN /\ shown' = Append(shown, LineAt(doc.text, call.off, call.depth))
        /\ agenda' = (CASE type = "T_DICT" -> DictCalls(doc.text, call)
                        [] type = "T_LIST" -> ListCalls(doc.text, call)
                        [] OTHER -> <<>>) \o Tail(agenda)
  /\ UNCHANGED <<pc, doc, tokens, recurse, target, root, sent, given, outcome>>

EndWalk ==
  /\ pc = "walk" /\ agenda = <<>> /\ pc' = "done"
  /\ UNCHANGED <<doc, tokens, recurse, target, root, agenda, shown, sent, given, outcome>>

-----------------------------------------------------------------------------
(***************************************************************************)
(* getpeers: read_torrentfile() and the reply.                             *)
(***************************************************************************)

\* The keys that are looked for.
AnnounceKey == <<"a", "n", "n", "o", "u", "n", "c", "e">>
InfoKey == <<"i", "n", "f", "o">>
IntervalKey == <<"i", "n", "t", "e", "r", "v", "a", "l">>
PeersKey == <<"p", "e", "e", "r", "s">>
SixKey == <<"p", "e", "e", "r", "s", "_", "i", "p", "v", "6">>
IpKey == <<"i", "p">>
PortKey == <<"p", "o", "r", "t">>
PeerIdKey == <<"p", "e", "e", "r", " ", "i", "d">>

ASSUME KeysAssumption ==
  {AnnounceKey, InfoKey, IntervalKey, PeersKey, SixKey, IpKey, PortKey, PeerIdKey}
    \subseteq Seq(Char)

\* Mutant: the type of "info" is not checked.
ReadTorrentUnchecked(s, g) ==
  LET announce == benc_dict_value_offset(s, 0, AnnounceKey)
      info == benc_dict_value_offset(s, 0, InfoKey)
  IN IF benc_entity_type(s, 0) # "T_DICT" \/ benc_entity_length(s, 0) < 0 THEN Failed
     ELSE IF "tracker" \notin g /\ (announce < 0 \/ ~IsKey(s, announce)) THEN Failed
     ELSE IF "hash" \notin g /\ info < 0 THEN Crashed
     ELSE Outcome("read",
            IF "tracker" \in g THEN <<>> ELSE <<StringData(s, announce)>>,
            IF "hash" \in g THEN <<>>
              ELSE <<SubSeq(s, info + 1, info + benc_entity_length(s, info))>>, <<>>)

\* The tracker, unless it is given by -t, and the text to be hashed, unless the
\* hash is given by -h.  Without an info dictionary free() is handed the address
\* of the caller's variable, with which getpeers crashes.
ReadTorrent(s, g) ==
  LET announce == benc_dict_value_offset(s, 0, AnnounceKey)
      info == benc_dict_value_offset(s, 0, InfoKey)
  IN IF benc_entity_type(s, 0) # "T_DICT" \/ benc_entity_length(s, 0) < 0 THEN Failed
     ELSE IF "tracker" \notin g /\ (announce < 0 \/ ~IsKey(s, announce)) THEN Failed
     ELSE IF "hash" \notin g /\ (info < 0 \/ benc_entity_type(s, info) # "T_DICT") THEN Crashed
     ELSE Outcome("read",
            IF "tracker" \in g THEN <<>> ELSE <<StringData(s, announce)>>,
            IF "hash" \in g THEN <<>>
              ELSE <<SubSeq(s, info + 1, info + benc_entity_length(s, info))>>, <<>>)

\* With both -t and -h the file is not read.
GivenArgs == {{}, {"tracker"}, {"hash"}}

read_torrentfile ==
  /\ pc = "args" /\ pc' = "torrent"
  /\ given' \in GivenArgs /\ outcome' = ReadTorrent(doc.text, given')
  /\ UNCHANGED <<doc, tokens, recurse, target, root, agenda, shown, sent>>

\* What is sent is a dictionary, part by part; "%d" stands for a number in decimal.
Braced(parts) == <<"d">> \o Flat(parts, Len(parts)) \o <<"e">>

\* What track() sends for one peer: "d2:ip%d:%s4:porti%de7:peer id%d:%se".
PeerText(a, peer) ==
  Braced(<<<<"2", ":">> \o IpKey, Counts(peer.ip),
           <<"4", ":">> \o PortKey, <<"i">> \o Signed(peer.port) \o <<"e">>>>
         \o (IF a.no_peer_id THEN <<>> ELSE <<<<"7", ":">> \o PeerIdKey, Counts(peer.id)>>))

Packed(peers) == Flat([k \in 1..Len(peers) |-> peers[k].packed], Len(peers))

\* Mutant: the number of peers for the number of bytes.
CompactTextEntries(peers) == Decimal(Len(peers)) \o <<":">> \o Packed(peers)

\* "%d:" and the packed peers: six characters stand for the six bytes of each.
CompactText(peers) == Counts(Packed(peers))

ListText(a) ==
  <<"l">> \o Flat([k \in 1..Len(a.peers) |-> PeerText(a, a.peers[k])], Len(a.peers)) \o <<"e">>

\* "10:peers_ipv6%d:" and the addresses, if there are any.
SixParts(a) ==
  IF ~a.compact \/ a.six = <<>> THEN <<>> ELSE <<<<"1", "0", ":">> \o SixKey, Counts(a.six)>>

\* The whole reply: "d8:intervali%de5:peers", the peers, "e".
AnnounceText(a) ==
  Braced(<<<<"8", ":">> \o IntervalKey, <<"i">> \o Signed(a.interval) \o <<"e">>,
           <<"5", ":">> \o PeersKey, IF a.compact THEN CompactText(a.peers) ELSE ListText(a)>>
         \o SixParts(a))

Told(kind, ip, port, id) == [kind |-> kind, ip |-> ip, port |-> port, id |-> id]

\* One peer of a list, as it is printed.
PeerAt(s, i) ==
  LET at(key) == benc_dict_value_offset(s, i, key)
  IN IF benc_entity_type(s, i) # "T_DICT" THEN Told("invalid", <<>>, 0, <<>>)
     ELSE IF at(IpKey) < 0 \/ at(PortKey) < 0 THEN Told("incomplete", <<>>, 0, <<>>)
     ELSE Told("listed", StringData(s, i + at(IpKey)), benc_int_value(s, i + at(PortKey), -1),
               IF at(PeerIdKey) > 0 THEN <<StringData(s, i + at(PeerIdKey))>> ELSE <<>>)

\* main() on a reply that is a dictionary without a failure reason.
ReadPeers(s) ==
  LET peers == benc_dict_value_offset(s, 0, PeersKey)
      len == benc_string_length(s, peers)
      data == peers + benc_string_data_offset(s, peers)
  IN CASE benc_entity_type(s, peers) = "T_LIST" ->
            [k \in 1..Counted(s, peers) |->
               PeerAt(s, peers + benc_list_item_offset(s, peers, k - 1))]
       [] benc_entity_type(s, peers) = "T_STRING" /\ len % 6 = 0 ->
            [k \in 1..(len \div 6) |->
               Told("packed", SubSeq(s, data + 6 * k - 5, data + 6 * k), 0, <<>>)]
       [] OTHER -> <<Told("unreadable", <<>>, 0, <<>>)>>

ReadReply ==
  /\ pc = "args" /\ pc' = "reply"
  /\ \E a \in Announces :
       /\ sent' = a /\ outcome' = Outcome("read", <<>>, <<>>, ReadPeers(AnnounceText(a)))
  /\ UNCHANGED <<doc, tokens, recurse, target, root, agenda, shown, given>>

ToolNext ==
  \/ TorrentInfo \/ ResolveToken \/ StartWalk \/ HandleNode \/ EndWalk
  \/ read_torrentfile \/ ReadReply
  \/ pc \in {"done", "torrent", "reply"} /\ UNCHANGED toolVars

ToolSpec == ToolInit /\ [][ToolNext]_toolVars

-----------------------------------------------------------------------------
(***************************************************************************)
(* Properties.                                                             *)
(***************************************************************************)

\* The lines of a node: its walk if -r is given, otherwise itself and its keys.
Lines(node, deep) ==
  IF deep THEN node.walk
  ELSE <<node.walk[1]>>
         \o (IF node.type = "T_DICT"
               THEN [c \in 1..(Len(node.items) \div 2) |->
                       Moved(node.items[2 * c - 1].walk[1], OffsetOf(node.items, 2 * c - 1), 1)]
             ELSE <<>>)

\* What torrentinfo should print: the node that the path leads to.
Expected ==
  LET lines == Lines(target.node, recurse)
  IN [k \in 1..Len(lines) |-> Moved(lines[k], target.off, 0)]

\* An integer of one digit is taken for an error (see IntsShown).
Read(v) == IF v \in 0..9 THEN -1 ELSE v
Seen(line) == IF line.type = "T_INT" THEN [line EXCEPT !.number = Read(@)] ELSE line

\* It prints that, whatever strings look like keys, lengths or the end of something:
\* the offsets that torrentinfo adds up lead where the tree does.  Integers of one
\* digit are shown as the default.
TreeShown ==
  pc = "done" =>
    /\ Len(shown) = Len(Expected)
    /\ \A k \in 1..Len(shown) : shown[k] = Seen(Expected[k])

\* An integer is shown with its value ("get value of given bencoded int").
IntsShown ==
  pc = "done" =>
    \A k \in 1..Len(shown) : shown[k].type = "T_INT" => shown[k].number = Expected[k].number

\* The value of a key in the tree, as a set of at most one node of a type.
ValueIn(node, key, type) ==
  {node.items[k] : k \in {j \in {ValueOf(node, key)} : j # 0 /\ node.items[j].type = type}}

\* What is taken from the file for -t, and for -h, as a set of at most one result.
TrackersOf(node, g) ==
  IF "tracker" \in g THEN {<<>>}
  ELSE {<<v.value>> : v \in ValueIn(node, AnnounceKey, "T_STRING")}
InfosOf(node, g) ==
  IF "hash" \in g THEN {<<>>} ELSE {<<v.text>> : v \in ValueIn(node, InfoKey, "T_DICT")}

\* Of tracker and info dictionary getpeers takes what is not given by -t and -h,
\* from where the tree has it.  Without a tracker it ends; if there is one, but
\* an info dictionary is missed, it crashes; and it never goes on without
\* what it needs.
TorrentRead ==
  pc = "torrent" =>
    IF doc.type # "T_DICT" THEN outcome = Failed
    ELSE LET trackers == TrackersOf(doc, given)
             infos == InfosOf(doc, given)
         IN /\ trackers = {} => outcome = Failed
            /\ trackers # {} /\ infos = {} => outcome = Crashed
            /\ \A t \in trackers, n \in infos : outcome = Outcome("read", t, n, <<>>)

\* getpeers finds in the tracker's reply the peers that track() has put there, in
\* both forms, with and without ids and IPv6 peers; a port of one digit is misread.
RepliesRead ==
  pc = "reply" =>
    /\ Len(outcome.peers) = Len(sent.peers)
    /\ \A k \in 1..Len(sent.peers) :
         LET p == sent.peers[k]
         IN outcome.peers[k] =
              IF sent.compact THEN Told("packed", p.packed, 0, <<>>)
              ELSE Told("listed", p.ip, Read(p.port), IF sent.no_peer_id THEN <<>> ELSE <<p.id>>)
=============================================================================
