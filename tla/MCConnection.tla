---------------------------- MODULE MCConnection -----------------------------
(***************************************************************************)
(* Messages for the runs of Connection: base 3, uint32_t up to 7, long up  *)
(* to 31.                                                                  *)
(***************************************************************************)
EXTENDS Connection

Message(protocol, username, pathname, digits, letters) ==
  [protocol |-> protocol, username |-> username, pathname |-> pathname,
   digits |-> digits, letters |-> letters]

Path(length, rooted, slash_at_end) ==
  [length |-> length, rooted |-> rooted, slash_at_end |-> slash_at_end]

GoodPath == Path(2, TRUE, FALSE)
Paths == {GoodPath, Path(1, TRUE, TRUE), Path(2, FALSE, FALSE), Path(2, TRUE, TRUE),
          Path(3, TRUE, FALSE)}

Digits == 0 .. Base - 1
Numbers(n) == UNION {[1 .. k -> Digits] : k \in 1 .. n}

\* Every block number of up to five digits, and every way to go wrong.
MCMessages ==
  {Message("FS_READBLOCK", 1, GoodPath, d, <<>>) : d \in Numbers(5)}
  \cup {Message(p, u, path, d, l) :
          p \in {"FS_READBLOCK", "FS_WRITEBLOCK", "FS_CREATE", "FS_DELETE", "other"},
          u \in {1, 2}, path \in Paths, d \in {<<>>, <<1>>},
          l \in {<<>>, <<"f">>, <<"f", "d">>}}

MCStreams == [message : MCMessages, terminated : {TRUE}, data : {1, FS_BLOCKSIZE}]
=============================================================================
