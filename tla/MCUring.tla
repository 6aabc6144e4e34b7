------------------------------- MODULE MCUring -------------------------------
(* TLC instances of UringServer: the rings and the clients.                *)
EXTENDS UringServer

Peer(units, ends) == [units |-> units, ends |-> ends]

Ring(sqpoll, zc, zcok, peers) ==
    [sqpoll |-> sqpoll, zc |-> zc, zcok |-> zcok, peers |-> peers]

\* Pipelining behind a reset; a full buffer, a failed accept and a full pool; a
\* kernel without zero-copy sends; SQPOLL with them; a slot taken over before the
\* notification of its former owner's last send.
MCRings ==
    {Ring(FALSE, FALSE, FALSE, <<Peer(<<"get", "half", "get">>, "fin"), Peer(<<"get">>, "rst")>>),
     Ring(FALSE, FALSE, FALSE, <<Peer(<<"half", "half">>, "stay"), Peer(<<"bad", "get">>, "stay"),
                                 Peer(<<>>, "abort"), Peer(<<>>, "rst")>>),
     Ring(FALSE, TRUE, FALSE, <<Peer(<<"get">>, "fin"), Peer(<<"get", "get">>, "stay")>>),
     Ring(TRUE, TRUE, TRUE, <<Peer(<<"get">>, "rst"), Peer(<<"get">>, "fin")>>),
     Ring(FALSE, TRUE, TRUE, <<Peer(<<"bad">>, "stay"), Peer(<<"half">>, "stay"), Peer(<<>>, "rst")>>)}
=============================================================================
