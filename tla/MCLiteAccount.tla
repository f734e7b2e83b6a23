--------------------------- MODULE MCLiteAccount ---------------------------
(* Two accounts with one operator; two of the signed messages share a      *)
(* nonce, all others of Message are not signed.                            *)
EXTENDS LiteAccount

CONSTANTS alice, bob, k, t1, t2

Msg(o, n, t) == [account |-> <<o, k>>, nonce |-> n, target |-> t]

MCSigned == {Msg(alice, 1, t1), Msg(alice, 1, t2), Msg(alice, 2, t1), Msg(bob, 1, t1)}
=============================================================================
