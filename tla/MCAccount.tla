----------------------------- MODULE MCAccount -----------------------------
(***************************************************************************)
(* Instances of Account for TLC: one token, two contracts of which one is  *)
(* the target that is called, and signed operations that share nonces, so  *)
(* that replays, clashes between envelopes and reentrancy all happen.      *)
(***************************************************************************)
EXTENDS AccountLedger, AccountInv

CONSTANTS usdc, self, eoa, house, market, router, k1, k2

MCAsset == {usdc}
MCAddr == {self, eoa, house, market, router}
MCContract == {market, router}
MCCodeHash == [c \in MCContract |-> c]
MCNonce == 1..4
MCKey == {k1, k2}
MCBal == [a \in MCAsset |-> [x \in MCAddr |-> IF x = eoa THEN 5 ELSE 0]]

p1 == [asset |-> usdc, signer |-> eoa, id |-> 1]

From(amt, floor) == [asset |-> usdc, to_take |-> amt, max_unspent |-> floor]

Take(n, ps, amt, floor) ==
  [ms_ts |-> n, permit |-> ps, target |-> market, from |-> <<From(amt, floor)>>]

TakeTwo(n) == [ms_ts |-> n, permit |-> <<>>, target |-> market,
               from |-> <<From(2, 0), From(1, 0)>>]

Call(n, c) == [ms_ts |-> n, permit |-> <<>>, from |-> <<>>, target |-> c]

V1(k, a) == [kind |-> "v1", key |-> k, args |-> <<a>>]

V2(as, o) == [kind |-> "v2", key |-> k1, args |-> as, permit_owner |-> o,
              transfer_owner |-> o]

V3(as, ps) == [kind |-> "v3", key |-> k1, args |-> as, gas_token |-> usdc,
               gas_token_amt |-> 1, gas_token_permit |-> ps]

Moves(n) == [kind |-> "transfer", key |-> k1, ms_ts |-> n,
             args |-> <<[from |-> eoa, asset |-> usdc, recipient |-> house,
                         amt |-> 1, permit |-> <<>>],
                        [from |-> eoa, asset |-> usdc, recipient |-> router,
                         amt |-> 1, permit |-> <<p1>>]>>]

MCSolve == {V1(k1, Take(1, <<p1>>, 2, 1)), V1(k1, Call(2, router)), V1(k2, Call(4, market))}
MCSolveV2 == {V2(<<Call(1, router), TakeTwo(2)>>, eoa)}
MCSolveV3 == {V3(<<Take(3, <<>>, 1, 0)>>, <<>>), V3(<<Call(2, router), Take(3, <<>>, 1, 1)>>, <<p1>>)}
MCSolveV3Empty == MCSolveV3 \cup {V3(<<>>, <<>>)}
MCTransfer == {Moves(2)}
MCStatement == {[kind |-> "statement", key |-> k1, ms_ts |-> 3]}
MCPermit == {p1}
=============================================================================
