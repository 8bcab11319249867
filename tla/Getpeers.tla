------------------------------ MODULE Getpeers ------------------------------
(***************************************************************************)
(* getpeers asking this repository's tracker: the hash typed after -h is   *)
(* decoded and re-encoded into the query, http_get() connects, sends in at *)
(* most MAX_SEND_RETRY_COUNT calls and reads in chunks, and main() looks   *)
(* for the reply in what it has read.  The tracker's side is Reply, which  *)
(* other clients may use as well.                                          *)
(*                                                                         *)
(* The request text is counted in RequestLen parts, the reply in the       *)
(* pieces of Reply; a chunk of the buffer holds Chunk pieces.  A tracker   *)
(* URL is a sequence of its separators and of the names between them.      *)
(***************************************************************************)
EXTENDS Reply

CONSTANTS
  Commands,     \* command lines: the hash after -h, and a URL (see UrlText)
  Addresses,    \* results of getaddrinfo()
  RequestLen,
  MAX_SEND_RETRY_COUNT,
  Chunk         \* RESPONSE_BUFFER_CHUNK

\* The hash is text; the URL's path is cut at every single separator.
ASSUME CommandsAssumption ==
  \A cmd \in Commands :
    /\ cmd.hash \in Seq(0..255) /\ cmd.cred \in BOOLEAN /\ cmd.port \in BOOLEAN
    /\ cmd.path \in Seq(STRING) /\ \A k \in 1..Len(cmd.path) : cmd.path[k] # "://"
ASSUME GetpeersAssumption ==
  /\ Addresses \in Nat /\ RequestLen \in Nat \ {0}
  /\ MAX_SEND_RETRY_COUNT \in Nat \ {0} /\ Chunk \in Nat \ {0}

VARIABLES
  gpc,          \* control point of getpeers, "none" if another client asks
  command,      \* history: the command line
  url, query,   \* the URL's parts; the hash as it stands in the request
  tried, sock,  \* addresses tried so far; the client's socket
  sent, tries,  \* parts of the request sent; status, counting calls of send()
  got, buflen,  \* bytes and response_buffer_length, in pieces
  outcome       \* what getpeers tells its user

inputVars == <<command, url, query>>
clientVars == <<gpc, inputVars, tried, sock, sent, tries, got, buflen, outcome>>
gpVars == <<replyVars, clientVars>>

NoCommand == [hash |-> <<>>, cred |-> FALSE, port |-> FALSE, path |-> <<>>]
NoUrl == [status |-> 0, host |-> <<>>, port |-> <<>>, path |-> <<>>]

GpInit ==
  /\ ReplyInit /\ gpc \in {"args", "none"}
  /\ command = NoCommand /\ url = NoUrl /\ query = <<>>
  /\ tried = 0 /\ sock = "none"
  /\ sent = 0 /\ tries = 0 /\ got = 0 /\ buflen = 0 /\ outcome = "none"

GGo(p, q) == gpc = p /\ gpc' = q

\* main() gives up, or has printed a reply.
Exit(o) == gpc' = "exit" /\ outcome' = o

-----------------------------------------------------------------------------
(***************************************************************************)
(* The command line.                                                       *)
(***************************************************************************)

UrlText(cmd) ==
  (IF cmd.cred THEN <<"http", "://", "user", ":", "pass", "@">> ELSE <<"http", "://">>)
    \o ((IF cmd.port THEN <<"host", ":", "6969", "/">> ELSE <<"host", "/">>) \o cmd.path)

Has(s, t) == \E k \in 1..Len(s) : s[k] = t
FirstAt(s, t) == CHOOSE k \in 1..Len(s) : s[k] = t /\ \A j \in 1..(k - 1) : s[j] # t
Before(s, t) == SubSeq(s, 1, FirstAt(s, t) - 1)
After(s, t) == SubSeq(s, FirstAt(s, t) + 1, Len(s))

\* Mutant: the credentials are left in place.
HostPartWithCredentials(s) == After(s, "://")

\* What follows "://" and, if there is one, the first '@'.
HostPart(s) ==
  IF Has(After(s, "://"), "@") THEN After(After(s, "://"), "@") ELSE After(s, "://")

\* A port is looked for first, then the path, which begins at the next '/'.  (If
\* none follows the ':', the code writes through a null pointer; that takes an
\* ambiguous URL, and none of this kind is in a run.)
parse_url_destructive(s) ==
  IF ~Has(s, "://") \/ ~Has(HostPart(s), "/") THEN [NoUrl EXCEPT !.status = -1]
  ELSE LET rest == HostPart(s)
           tail == IF Has(rest, ":") THEN After(rest, ":") ELSE rest
       IN [status |-> 0,
           host |-> Before(rest, IF Has(rest, ":") THEN ":" ELSE "/"),
           port |-> IF Has(rest, ":") THEN Before(tail, "/") ELSE <<"80">>,
           path |-> After(tail, "/")]

\* isxdigit() takes both cases, destructiveHexDecode() one.
isxdigit(c) == c \in (48..57) \cup (65..70) \cup (97..102)

\* Decoded in place, its result ignored, and encoded again.
QueryOf(h) == hashEncodeURL(destructiveHexDecode(h).buf)

Args(cmd) ==
  /\ gpc = "args" /\ command' = cmd
  /\ IF Len(cmd.hash) <= MAX_URLENC_HASH_LEN /\ \A k \in 1..Len(cmd.hash) : isxdigit(cmd.hash[k])
       THEN /\ gpc' = "connect" /\ query' = QueryOf(cmd.hash)
            /\ url' = parse_url_destructive(UrlText(cmd)) /\ UNCHANGED outcome
       ELSE Exit("usage") /\ UNCHANGED <<query, url>>
  /\ UNCHANGED <<replyVars, tried, sock, sent, tries, got, buflen>>

-----------------------------------------------------------------------------
(***************************************************************************)
(* http_get(): the request.                                                *)
(***************************************************************************)

\* Mutant: a socket that could not be connected is not closed.
ConnectLeaks ==
  /\ gpc = "connect" /\ url.status = 0 /\ tried < Addresses /\ tried' = tried + 1
  /\ sock' = "open" /\ gpc' \in {gpc, "send"}
  /\ UNCHANGED <<replyVars, inputVars, sent, tries, got, buflen, outcome>>

\* Mutant: the next address is always the one after the first.
ConnectAgain ==
  /\ gpc = "connect" /\ url.status = 0 /\ tried < Addresses
  /\ \/ sock' \in {"none", "closed"} /\ gpc' = gpc /\ tried' = 1
     \/ sock' = "open" /\ gpc' = "send" /\ tried' = 0
  /\ UNCHANGED <<replyVars, inputVars, sent, tries, got, buflen, outcome>>

\* One address: socket() fails, connect() fails, or the loop is left and the
\* addresses are not looked at again.
Connect ==
  /\ gpc = "connect" /\ url.status = 0 /\ tried < Addresses
  /\ \/ sock' \in {"none", "closed"} /\ gpc' = gpc /\ tried' = tried + 1
     \/ sock' = "open" /\ gpc' = "send" /\ tried' = 0
  /\ UNCHANGED <<replyVars, inputVars, sent, tries, got, buflen, outcome>>

\* No such URL, or getaddrinfo() or every address has failed.
NoConnection ==
  /\ gpc = "connect" /\ (tried = 0 \/ tried = Addresses) /\ Exit("error")
  /\ UNCHANGED <<replyVars, inputVars, tried, sock, sent, tries, got, buflen>>

Sending == gpc = "send" /\ sent < RequestLen /\ tries < MAX_SEND_RETRY_COUNT

Send ==
  /\ Sending /\ tries' = tries + 1
  /\ \E n \in 1..(RequestLen - sent) : sent' = sent + n
  /\ UNCHANGED <<replyVars, gpc, inputVars, tried, sock, got, buflen, outcome>>

\* it_bytes<0: http_get() returns -1 and leaves the socket open.
SendFails ==
  /\ Sending /\ tries' = tries + 1 /\ Exit("error")
  /\ UNCHANGED <<replyVars, inputVars, tried, sock, sent, got, buflen>>

\* All sent, or no calls left: the rest of the request is forgotten.  (status is
\* set anew by the reply.)
EndOfSend ==
  /\ ~Sending /\ GGo("send", "recv") /\ tries' = 0
  /\ UNCHANGED <<replyVars, inputVars, tried, sock, sent, got, buflen, outcome>>

-----------------------------------------------------------------------------
(***************************************************************************)
(* http_get() and main(): the reply.                                       *)
(***************************************************************************)

\* What one recv() may return, if it does not fail.
RecvResults ==
  {n \in 1..Chunk : n <= Len(wire) - got}
    \cup {n \in {0} : Len(wire) = got /\ (rpc = "closed" \/ conn = "down")}

\* Mutant: the buffer is not grown for every call.
RecvNoGrowth(n) ==
  /\ gpc = "recv" /\ buflen' = IF buflen = 0 THEN Chunk ELSE buflen
  /\ got' = IF n = -1 THEN got ELSE got + n
  /\ IF n = Chunk THEN gpc' = "recv" /\ UNCHANGED <<sock, conn>>
                  ELSE gpc' = "parse" /\ sock' = "closed" /\ conn' = "down"
  /\ UNCHANGED <<rpc, requestVars, listVars, scrapeVars, due, wire, cutoff>>
  /\ UNCHANGED <<inputVars, tried, sent, tries, outcome>>

\* The buffer grows by a chunk for every call (realloc() is taken to succeed: its
\* result is not looked at).  Less than a chunk ends the loop; so does an error,
\* which is not told apart from it.  What the tracker sends after the socket is
\* closed reaches nobody.
Recv(n) ==
  /\ gpc = "recv" /\ buflen' = buflen + Chunk
  /\ got' = IF n = -1 THEN got ELSE got + n
  /\ IF n = Chunk THEN gpc' = "recv" /\ UNCHANGED <<sock, conn>>
                  ELSE gpc' = "parse" /\ sock' = "closed" /\ conn' = "down"
  /\ UNCHANGED <<rpc, requestVars, listVars, scrapeVars, due, wire, cutoff>>
  /\ UNCHANGED <<inputVars, tried, sent, tries, outcome>>

Received == SubSeq(wire, 1, got)
ReceivedBody == SubSeq(Received, 6, Len(Received))

\* What main() makes of it, by the first pieces of the body.  A piece that was
\* cut short may or may not hold what is looked for.
ReplyOutcomes ==
  IF Received = <<>> THEN {"error"}                      \* no "HTTP/"
  ELSE IF ~Has(Received, "blank")
    THEN {"invalid"} \cup {o \in {"error"} : Received[1] = "cut"}
  ELSE IF ReceivedBody = <<>> THEN {"notdict"}
  ELSE CASE ReceivedBody[1] = "failure" -> {"failure"}
         [] ReceivedBody[1] = "cut" -> {"failure", "nopeers", "peers"}
         [] OTHER -> IF ~compact THEN {"peers"}
                     ELSE {o \in {"peers"} : Len(ReceivedBody) > 1}
                            \cup {o \in {"nopeers"} : Len(ReceivedBody) = 1
                                                       \/ ReceivedBody[2] = "cut"}

Parse ==
  /\ gpc = "parse" /\ \E o \in ReplyOutcomes : Exit(o)
  /\ UNCHANGED <<replyVars, inputVars, tried, sock, sent, tries, got, buflen>>

-----------------------------------------------------------------------------
(***************************************************************************)
(* Both together.                                                          *)
(***************************************************************************)

NextParam == <<38, 112, 111>>   \* "&port=..."

\* The whole request has arrived: an announce, with numwant=50 unless -n is given.
TakeRequest ==
  /\ sent = RequestLen /\ path' = "announce" /\ numwant' = MAXPEERS_SENT
  /\ ReceiveRequest(query \o NextParam)
  /\ UNCHANGED clientVars

OtherRequest(text) == gpc = "none" /\ ReceiveRequest(text) /\ UNCHANGED clientVars

\* The tracker's rounds are over before the request is whole: 400, 405 or 408,
\* or no answer to nothing (see Request).
GiveUpRequest ==
  /\ sock = "open" \/ buflen > 0
  /\ sent < RequestLen
  /\ RGo("idle", IF sent = 0 THEN "done" ELSE "headers")
  /\ UNCHANGED <<requestVars, listVars, scrapeVars, netVars, clientVars>>

ClientProgress ==
  \/ \E cmd \in Commands : Args(cmd)
  \/ Connect \/ NoConnection \/ Send \/ SendFails \/ EndOfSend \/ Parse
  \/ \E n \in RecvResults : Recv(n)

Server ==
  \/ TakeRequest \/ GiveUpRequest
  \/ TrackerStep /\ UNCHANGED clientVars

\* The client has ended and the tracker owes nothing to anybody.
Ended ==
  /\ \/ gpc = "none" /\ rpc = "closed"
     \/ gpc = "exit" /\ rpc \in {"idle", "closed"}
  /\ UNCHANGED gpVars

GpNext ==
  \/ ClientProgress \/ Recv(-1) \/ Server
  \/ \E t \in Texts : OtherRequest(t)
  \/ TableMove /\ UNCHANGED clientVars
  \/ Ended

GpSpec == GpInit /\ [][GpNext]_gpVars

\* Both programs run; recv() need not fail, and other clients owe nothing.
GpFairSpec == GpSpec /\ WF_gpVars(ClientProgress) /\ WF_gpVars(Server)

-----------------------------------------------------------------------------
(***************************************************************************)
(* Properties.                                                             *)
(***************************************************************************)

\* Every variable of the two programs has its type.
GpTypeOK ==
  /\ ReplyTypeOK
  /\ gpc \in {"none", "args", "connect", "send", "recv", "parse", "exit"}
  /\ tried \in 0..Addresses /\ sock \in {"none", "open", "closed"}
  /\ sent \in 0..RequestLen /\ tries \in 0..MAX_SEND_RETRY_COUNT
  /\ got \in 0..Len(wire) /\ buflen \in Nat
  /\ outcome \in {"none", "usage", "error", "invalid", "notdict", "failure", "nopeers", "peers"}

\* A full hash in lower case, as torrentinfo and the tracker write it.
Proper(h) == Len(h) = 2 * HashLen /\ \A k \in 1..Len(h) : IsHex(h[k])

\* The torrent that getpeers asks for is the one that was typed: decoding,
\* URL-encoding, measuring and decoding again give the tracker its hash, whatever
\* its bytes and whatever follows it in the query.
AsksForTyped == hash_len > 0 /\ Proper(command.hash) => hash = command.hash

\* The '@' and the ':' that are looked for are not in the path.
Unambiguous(cmd) ==
  /\ cmd.cred \/ ~Has(cmd.path, "@")
  /\ cmd.port \/ ~Has(cmd.path, ":")

\* It is asked at the host, port and path of the URL, with or without
\* credentials and port.
UrlResolved ==
  gpc \notin {"none", "args"} /\ outcome # "usage" /\ Unambiguous(command) =>
    url = [status |-> 0, host |-> <<"host">>, path |-> command.path,
           port |-> <<IF command.port THEN "6969" ELSE "80">>]

\* The list sent is that of the torrent with hash h.
ListedFor(h) == h \in Known /\ torrentid = TorrentId[h]

\* Peers are shown only of the torrent that was asked for and, for a whole hash,
\* typed, unless the beginning of the list was cut off or the tracker's lookup
\* failed with a result code, which track() takes for the torrent.
PeersOfTyped ==
  outcome = "peers" /\ ~Has(Received, "cut") =>
    /\ Has(due, "open")
    /\ IF misread THEN torrentid \in ErrorCodes
       ELSE ListedFor(hash) /\ (Proper(command.hash) => ListedFor(command.hash))

\* The terminator after the reply is within the buffer, at whatever length the
\* reply ends or fails.
TerminatorInBuffer == gpc = "parse" => got < buflen

\* The socket is closed unless send() fails.
SocketReleased == gpc = "exit" /\ sock = "open" => tries > 0 /\ buflen = 0

\* getpeers ends, however the request and the reply are cut up.
ClientEnds == <>(gpc \in {"exit", "none"})
=============================================================================
