----------------------------- MODULE MCGetpeers -----------------------------
(* Character codes for TLC: 2 5 f F are 50 53 102 70, % is 37, & is 38.      *)
EXTENDS Getpeers, TLC

\* Whole hashes, with bytes that need escapes and the '%' itself; one in upper
\* case, one cut short, one too long for -h.  The first path holds the URL's
\* separators.
MCCommands ==
  {[hash |-> <<50, 53, 50, 53>>, cred |-> TRUE, port |-> TRUE, path |-> <<"a", "@", ":", "/", "b">>],
   [hash |-> <<50, 53, 102, 102>>, cred |-> TRUE, port |-> FALSE, path |-> <<"announce">>],
   [hash |-> <<53, 53, 50, 70>>, cred |-> FALSE, port |-> TRUE, path |-> <<"announce">>],
   [hash |-> <<50, 53, 50>>, cred |-> FALSE, port |-> FALSE, path |-> <<"announce">>],
   [hash |-> <<50, 53, 50, 53, 102, 102, 102>>, cred |-> FALSE, port |-> FALSE, path |-> <<"announce">>]}

\* Other clients: an escape across the next parameter, a hash that is too short,
\* and too long ones with and without escapes.
MCTexts ==
  {<<37, 50, 53, 37, 38, 102>>, <<37, 102, 102>>, <<53, 53, 53>>,
   <<37, 50, 53, 37, 50, 53, 53, 32>>}

\* Two torrents; the id of the one nobody asks for is also SQLITE_IOERR, 10.
MCTorrentId == (<<50, 53, 50, 53>> :> 1) @@ (<<53, 53, 53, 53>> :> 10)
MCKnown == DOMAIN MCTorrentId
MCErrorCodes == {10}
\* Rows to send and rows to skip, in both orders.
MCRowLists ==
  {<<>>, <<"self">>, <<"v6">>, <<"self", "v4">>, <<"bad", "v6">>, <<"v4", "v6">>,
   <<"v6", "self">>, <<"v4", "bad">>}
MCNumwant == {0, 1, 3, -1, 9}
=============================================================================
