------------------------------ MODULE Envelope ------------------------------
(***************************************************************************)
(* From the arguments of a mutation to what is signed and sent: the input  *)
(* types of graph/generated.go, lib/convertor, lib/types and the calldata  *)
(* of lib/ninelives, up to the order of the bytes.                         *)
(*                                                                         *)
(* A conversion that may fail is the set of its results: {} when it        *)
(* returns an error or panics, which ResolveField recovers from. A string  *)
(* of hex digits is one of a few cases, a decimal string is {n} or, when   *)
(* it does not parse, {}; an optional argument is {} or {x}.               *)
(***************************************************************************)
EXTENDS Words, FiniteSets

CONSTANTS
  Request,         \* what clients ask for
  MaxInt32,        \* the widths of integers, scaled down
  MaxUint8,
  MinimumAmount,
  AccPubKey, ClaimantHelperAddr, Usdc

VARIABLES now, last  \* the last two requests

vars == <<now, last>>

-----------------------------------------------------------------------------
(* Hex strings. "a" and "b" are of the right length, "0xa" is "a" with its *)
(* prefix; the others are empty, too short, too long and not hex.          *)

Hex == {"a", "b", "0xa", "", "short", "long", "junk"}

PermitInput == [deadline: Int, v: Int, r: Hex, s: Hex]

MintInput ==
  [market: Hex, outcome: Hex, amount: SUBSET Int, referrer: Hex, ms_ts: SUBSET Int,
   permit: SUBSET PermitInput]

AccountInput == [eoa: Hex, v: Int, r: Hex, s: Hex, authority: SUBSET Hex]

\* The arguments of the mutations but dryrun, which the convertor does not see;
\* eoa is the address in the context.
CreateRequest == [op: {"create"}, account: AccountInput, mint: SUBSET MintInput]

MintRequest == [op: {"mint"}, eoa: {"a", "b"}, mint: SUBSET MintInput]

ClaimRequest == [op: {"claim"}, eoa: {"a", "b"}, markets: Seq(Hex), ms_ts: SUBSET Int]

Optional(o) == \A x, y \in o : x = y

OneMint(m) == Optional(m.amount) /\ Optional(m.ms_ts) /\ Optional(m.permit)

ASSUME EnvelopeAssumption ==
  /\ MaxInt32 \in Nat /\ MaxUint8 \in Nat /\ MaxUint8 < MaxInt32
  /\ MinimumAmount \in Nat

\* What the GraphQL schema lets through: an optional argument is given at most
\* once, and ninelivesMint requires its mint.
ASSUME RequestAssumption ==
  /\ Request \subseteq CreateRequest \cup MintRequest \cup ClaimRequest
  /\ \A q \in Request :
       /\ q.op = "claim" => Optional(q.ms_ts)
       /\ q.op # "claim" => Optional(q.mint) /\ \A m \in q.mint : OneMint(m)
       /\ q.op = "mint" => q.mint # {}
       /\ q.op = "create" => Optional(q.account.authority)

Plain(h) == IF h = "0xa" THEN "a" ELSE h

IsHexAddress(h) == h \in {"a", "b", "0xa"}

strToBytes8(h) == IF h \in {"a", "b", "0xa"} THEN {Plain(h)} ELSE {}

strToBytes32(h) == IF h \in {"a", "b", "0xa"} THEN {Plain(h)} ELSE {}

\* The empty string is the zero address.
strToAddr(h) == IF h = "" THEN {"zero"} ELSE IF IsHexAddress(h) THEN {Plain(h)} ELSE {}

\* unmarshalNInt2int32
Int32(n) == IF n \in (-MaxInt32 - 1)..MaxInt32 THEN {n} ELSE {}

Uint8(n) == IF n \in 0..MaxUint8 THEN {n} ELSE {}

Abs(n) == IF n < 0 THEN -n ELSE n

-----------------------------------------------------------------------------
(* The input types.                                                        *)

unmarshalInputPermit(p) ==
  {[p EXCEPT !.deadline = d, !.v = v] : d \in Int32(p.deadline), v \in Int32(p.v)}

unmarshalInputMint(m) ==
  IF m.permit = {} THEN {m}
  ELSE {[m EXCEPT !.permit = {p}] : p \in UNION {unmarshalInputPermit(x) : x \in m.permit}}

unmarshalInputCreateAccount(c) == {[c EXCEPT !.v = v] : v \in Int32(c.v)}

-----------------------------------------------------------------------------
(* What is signed.                                                         *)

\* big.Int.Bytes drops the sign.
AmountBytes(dec) == {amount(Abs(n)) : n \in dec} \ {<<>>}

MintMsTs(dec) == {mintMsTs(Abs(n)) : n \in dec}

ClaimMsTs(dec) == {claimMsTs(Abs(n)) : n \in dec} \ {<<>>}

NewPermitGraph(p) ==
  {[asset |-> Usdc, deadline |-> p.deadline, v |-> v, r |-> r, s |-> s] :
     v \in Uint8(p.v), r \in strToBytes32(p.r), s \in strToBytes32(p.s)}

\* The permit of a SolveArgs: none, or one whose deadline is not negative.
Permits(opt) ==
  IF opt = {} THEN {<<>>}
  ELSE {<<p>> : p \in UNION {NewPermitGraph(x) : x \in {y \in opt : y.deadline >= 0}}}

\* A word of calldata by its front and its back: bytes are at the front of their
\* word, an address is at the back.
BytesWord(x) == [front |-> x, back |-> "zero"]

AddressWord(x) == [front |-> "zero", back |-> x]

\* Mutant: the calldata leaves the referrer out.
MutNewMint(outcome, value, referrer, recipient) ==
  <<"mint8A059B6E", BytesWord(outcome), Value(value), AddressWord("zero"), AddressWord(recipient)>>

NewMint(outcome, value, referrer, recipient) ==
  <<"mint8A059B6E", BytesWord(outcome), Value(value), AddressWord(referrer), AddressWord(recipient)>>

NewPayoffForOther(markets, eoa) == <<"payoffForOther", markets, eoa>>

FromArgs(asset, amt) == [asset |-> asset, to_take |-> amt, max_unspent |-> 0]

CreateSolveArgsSigArgs(asset, target, amt, cd, permit, msTs) ==
  [permit |-> permit, from |-> <<FromArgs(asset, amt)>>, target |-> target, cd |-> cd,
   ms_ts |-> msTs]

CreateSolveArgsSigArgsMint(asset, market, outcome, amt, referrer, recipient, permit, msTs) ==
  CreateSolveArgsSigArgs(asset, market, amt, NewMint(outcome, amt, referrer, recipient),
                         permit, msTs)

\* Mutant: a permit that does not convert is left out.
MutMintGraph(m, recipient) ==
  {CreateSolveArgsSigArgsMint(Usdc, market, o, a, ref, recipient, p, ms) :
     o \in strToBytes8(m.outcome), a \in AmountBytes(m.amount), market \in strToAddr(m.market),
     ref \in strToAddr(m.referrer), ms \in MintMsTs(m.ms_ts),
     p \in IF Permits(m.permit) = {} THEN {<<>>} ELSE Permits(m.permit)}

CreateSolveArgsSigArgsMintGraph(m, recipient) ==
  {CreateSolveArgsSigArgsMint(Usdc, market, o, a, ref, recipient, p, ms) :
     o \in strToBytes8(m.outcome), a \in AmountBytes(m.amount), market \in strToAddr(m.market),
     ref \in strToAddr(m.referrer), ms \in MintMsTs(m.ms_ts), p \in Permits(m.permit)}

CreatePayoffForOtherArgs(markets, eoa, msTs) ==
  [permit |-> <<>>, from |-> <<>>, target |-> ClaimantHelperAddr,
   cd |-> NewPayoffForOther(markets, eoa), ms_ts |-> msTs]

CreatePayoffForOtherArgsGraph(markets, eoa, dec) ==
  {CreatePayoffForOtherArgs([i \in DOMAIN markets |-> Plain(markets[i])], eoa, ms) :
     ms \in {x \in ClaimMsTs(dec) : \A i \in DOMAIN markets : IsHexAddress(markets[i])}}

\* Mutant: the tokens are taken from the target.
MutSolveV2(args, permitOwner, transferOwner) ==
  [enum |-> "SolveV2", args |-> <<args>>, permit_owner |-> permitOwner,
   transfer_owner |-> args.target]

CreateSolveV2(args, permitOwner, transferOwner) ==
  [enum |-> "SolveV2", args |-> <<args>>, permit_owner |-> permitOwner,
   transfer_owner |-> transferOwner]

Authority(opt) == IF opt = {} THEN {{}} ELSE {{a} : a \in UNION {strToAddr(h) : h \in opt}}

CreateAccountToFreshBackwards(eoa, v, r, s, authority) ==
  [enum |-> "FreshBackwards", key |-> AccPubKey, eoa_addr |-> eoa, v |-> v, r |-> r, s |-> s,
   authority |-> authority, solve_args |-> <<>>]

CreateAccountToFreshBackwardsGraph(c) ==
  {CreateAccountToFreshBackwards(eoa, v, r, s, a) :
     eoa \in strToAddr(c.eoa), a \in Authority(c.authority), v \in Uint8(c.v),
     r \in strToBytes32(c.r), s \in strToBytes32(c.s)}

TagFreshBackwardsWithMintGraph(f, m, recipient) ==
  {[f EXCEPT !.solve_args = <<x>>] : x \in CreateSolveArgsSigArgsMintGraph(m, recipient)}

-----------------------------------------------------------------------------
(* The resolvers, as far as they make what is sent. eoa is the address that *)
(* authMiddleware put into the context.                                    *)

\* A mint is tagged onto the creation.
CreateAccountExec(q) ==
  UNION {LET f == CreateAccountToFreshBackwardsGraph(c)
         IN  IF ~IsHexAddress(c.eoa) THEN {}
             ELSE IF q.mint = {} THEN f
             ELSE UNION {TagFreshBackwardsWithMintGraph(x, m, Plain(c.eoa)) :
                           x \in f, m \in UNION {unmarshalInputMint(y) : y \in q.mint}} :
           c \in unmarshalInputCreateAccount(q.account)}

\* An amount that does not parse is a nil pointer, whose Cmp panics.
Enough(dec) == dec # {} /\ \A n \in dec : n >= MinimumAmount

NinelivesMint(q) ==
  {CreateSolveV2(f, q.eoa, q.eoa) :
     f \in UNION {CreateSolveArgsSigArgsMintGraph(m, q.eoa) :
                    m \in {x \in UNION {unmarshalInputMint(y) : y \in q.mint} : Enough(x.amount)}}}

ClaimRewards(q) ==
  {CreateSolveV2(f, q.eoa, q.eoa) : f \in CreatePayoffForOtherArgsGraph(q.markets, q.eoa, q.ms_ts)}

\* What is sent for a request, if anything.
Sent(q) ==
  CASE q.op = "create" -> CreateAccountExec(q)
    [] q.op = "mint" -> NinelivesMint(q)
    [] q.op = "claim" -> ClaimRewards(q)

-----------------------------------------------------------------------------
Init == now \in Request /\ last = now

Receive(q) == now' = q /\ last' = now

Next == \E q \in Request : Receive(q)

Spec == Init /\ [][Next]_vars

-----------------------------------------------------------------------------
(* Properties.                                                             *)

\* The user whose account is used.
Requester(q) == IF q.op = "create" THEN Plain(q.account.eoa) ELSE q.eoa

Address(h) == IF h = "" THEN "zero" ELSE Plain(h)

\* The solves of an envelope, with the owners of permit and tokens: for those of
\* a creation the contract takes the new account's owner.
Solves(e) ==
  IF e.enum = "SolveV2"
  THEN {[args |-> x, permit_owner |-> e.permit_owner, transfer_owner |-> e.transfer_owner] :
          x \in {e.args[i] : i \in DOMAIN e.args}}
  ELSE {[args |-> x, permit_owner |-> e.eoa_addr, transfer_owner |-> e.eoa_addr] :
          x \in {e.solve_args[i] : i \in DOMAIN e.solve_args}}

\* The mint m, read out of what was signed.
IsMint(x, m, who) ==
  /\ x.target = Address(m.market)
  /\ x.cd = <<"mint8A059B6E", [front |-> Plain(m.outcome), back |-> "zero"],
              Value(x.from[1].to_take), [front |-> "zero", back |-> Address(m.referrer)],
              [front |-> "zero", back |-> who]>>
  /\ Len(x.from) = 1 /\ x.from[1].asset = Usdc
  /\ Value(x.from[1].to_take) \in {Abs(n) : n \in m.amount}
  /\ Len(x.permit) = Cardinality(m.permit)
  /\ \A p \in m.permit : x.permit[1].deadline = p.deadline /\ x.permit[1].v = p.v
                        /\ x.permit[1].r = Plain(p.r) /\ x.permit[1].s = Plain(p.s)

\* What the server signs is what was asked, on each of its three ways through
\* the convertor: the tokens and the permit are the requester's, the amount that
\* is taken is the amount that the calldata mints and the one asked for (up to
\* its sign, which createAccountExec does not look at), the result goes to the
\* requester, and nothing else is signed.
SignedAsAsked ==
  \A e \in Sent(now) :
    LET who == Requester(now)
    IN  /\ \A x \in Solves(e) :
             /\ x.permit_owner = who /\ x.transfer_owner = who
             /\ IF now.op = "claim"
                THEN /\ x.args.from = <<>> /\ x.args.permit = <<>>
                     /\ x.args.target = ClaimantHelperAddr
                     /\ x.args.cd = <<"payoffForOther",
                                      [i \in DOMAIN now.markets |-> Plain(now.markets[i])], who>>
                ELSE \E m \in now.mint : IsMint(x.args, m, who)
        /\ Cardinality(Solves(e)) = IF now.op = "claim" THEN 1 ELSE Cardinality(now.mint)
        /\ now.op = "create" =>
             /\ e.key = AccPubKey /\ e.eoa_addr = who /\ e.v = now.account.v
             /\ e.authority = {Address(h) : h \in now.account.authority}

GoodHex(h) == h \in {"a", "b", "0xa"}

GoodMint(m) ==
  /\ GoodHex(m.outcome) /\ {m.market, m.referrer} \subseteq {"a", "b", "0xa", ""}
  /\ \E n \in m.amount : Abs(n) < Pow[Wide]
  /\ m.ms_ts # {}
  /\ \A p \in m.permit : /\ p.deadline \in 0..MaxInt32 /\ p.v \in 0..MaxUint8
                        /\ GoodHex(p.r) /\ GoodHex(p.s)

\* What the server accepts, over all its checks: numbers at the edge of their
\* width, the minimum amount of a mint without a creation, and for claimRewards
\* only a ms_ts that is at least as long as its array.
Accepted(q) ==
  CASE q.op = "create" ->
         /\ GoodHex(q.account.eoa) /\ GoodHex(q.account.r) /\ GoodHex(q.account.s)
         /\ q.account.v \in 0..MaxUint8
         /\ q.account.authority \subseteq {"a", "b", "0xa", ""}
         /\ \A m \in q.mint : GoodMint(m)
    [] q.op = "mint" ->
         \A m \in q.mint : GoodMint(m) /\ \A n \in m.amount : n >= MinimumAmount
    [] q.op = "claim" ->
         /\ \A i \in DOMAIN q.markets : GoodHex(q.markets[i])
         /\ \E n \in q.ms_ts : Abs(n) >= Pow[Width - 1] /\ Abs(n) < Pow[Wide]

\* Nothing that is malformed is signed, in whatever part it is, and nothing that
\* is well formed is refused.
RefusedIfMalformed == Sent(now) # {} <=> Accepted(now)

\* What a request asks for, written in one way, apart from its ms_ts.
Normal(q) ==
  LET mint == {<<Address(m.market), Plain(m.outcome), {Abs(n) : n \in m.amount},
                 Address(m.referrer),
                 {[deadline |-> p.deadline, v |-> p.v, r |-> Plain(p.r), s |-> Plain(p.s)] :
                    p \in m.permit}>> : m \in q.mint}
  IN  IF q.op = "claim" THEN <<q.op, [i \in DOMAIN q.markets |-> Plain(q.markets[i])], q.eoa>>
      ELSE IF q.op = "mint" THEN <<q.op, mint, q.eoa>>
      ELSE <<q.op, mint, Plain(q.account.eoa), {Address(h) : h \in q.account.authority}>>

\* Two requests for which the same is signed ask for the same: no part of a
\* request is lost on its way into the envelope, or mixed up with another.
SignatureBinds == Sent(now) \cap Sent(last) # {} => Normal(now) = Normal(last)

\* The ms_ts of the request's mint, if it has one that fits into its array.
Clock(q) ==
  IF q.op = "claim" THEN {}
  ELSE {Abs(n) : n \in {k \in UNION {m.ms_ts : m \in q.mint} : Len(Bytes[Abs(k)]) <= Width}}

\* Two mints at different times never get the same single-use value, although
\* the conversion is not injective: the times have the same number of bytes
\* (milliseconds have six from the year 2004 to the year 10889).
MintsDoNotClash ==
  \A e \in Sent(now), f \in Sent(last), m \in Clock(now), n \in Clock(last) :
    Len(Bytes[m]) = Len(Bytes[n]) /\ m # n =>
      {x.args.ms_ts : x \in Solves(e)} \cap {x.args.ms_ts : x \in Solves(f)} = {}

\* "The existing clients conventionally use u128::to_be_bytes()"
\* (superposition_libaccounts/README.md): a ms_ts that fits becomes that in one
\* of the two ways in which the convertor makes one. In fact it does in neither:
\* a mint's is copied to the other end, and a claim's is not converted at all.
MsTsBigEndian ==
  \A n \in Clock(now) : to_be_bytes(n) \in MintMsTs({n}) \cup ClaimMsTs({n})
=============================================================================
