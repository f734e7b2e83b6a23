----------------------------- MODULE MCEnvelope -----------------------------
(* Requests that differ from a good one in one place, so that two of them  *)
(* differ in two.                                                          *)
EXTENDS Envelope

\* Small amounts, those in the middle and those at the edge.
Amount == {{}} \cup {{n} : n \in (-1..8) \cup {31, 32} \cup 62..65}

Dec == {{}} \cup {{n} : n \in {-1, 0, 1, 3, 4, 5, 7, 63, 64}}

Num == {-1, 0, MaxUint8, MaxUint8 + 1, MaxInt32 + 1}

MCPermit == [deadline |-> 1, v |-> 1, r |-> "a", s |-> "b"]

MCMint == [market |-> "a", outcome |-> "b", amount |-> {3}, referrer |-> "", ms_ts |-> {2},
           permit |-> {}]

MCAccount == [eoa |-> "a", v |-> 1, r |-> "a", s |-> "b", authority |-> {}]

Permit1 ==
  {[MCPermit EXCEPT !.deadline = n] : n \in Num} \cup {[MCPermit EXCEPT !.v = n] : n \in Num}
  \cup {[MCPermit EXCEPT !.r = h] : h \in Hex} \cup {[MCPermit EXCEPT !.s = h] : h \in Hex}

\* One place of a mint changed.
Mint1(m) ==
  {[m EXCEPT !.market = h] : h \in Hex} \cup {[m EXCEPT !.outcome = h] : h \in Hex}
  \cup {[m EXCEPT !.referrer = h] : h \in Hex} \cup {[m EXCEPT !.amount = d] : d \in Amount}
  \cup {[m EXCEPT !.ms_ts = d] : d \in Dec} \cup {[m EXCEPT !.permit = {p}] : p \in Permit1}

Account1 ==
  {[MCAccount EXCEPT !.eoa = h] : h \in Hex} \cup {[MCAccount EXCEPT !.v = n] : n \in Num}
  \cup {[MCAccount EXCEPT !.r = h] : h \in Hex} \cup {[MCAccount EXCEPT !.s = h] : h \in Hex}
  \cup {[MCAccount EXCEPT !.authority = {h}] : h \in Hex}

MCRequest ==
  {[op |-> "mint", eoa |-> e, mint |-> {m}] : e \in {"a", "b"}, m \in Mint1(MCMint)}
  \cup {[op |-> "create", account |-> c, mint |-> {}] : c \in Account1}
  \cup {[op |-> "create", account |-> MCAccount, mint |-> {m}] : m \in Mint1(MCMint)}
  \cup {[op |-> "claim", eoa |-> e, markets |-> s, ms_ts |-> d] :
          e \in {"a", "b"}, s \in {<<>>, <<"a">>, <<"b", "0xa">>, <<"a", "short">>}, d \in Dec}
=============================================================================
