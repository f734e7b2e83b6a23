--------------------------- MODULE AccountLedger ---------------------------
(***************************************************************************)
(* What the account's operations add up to in the tokens' ledgers.         *)
(***************************************************************************)
EXTENDS Account, FiniteSets

\* There are finitely many contracts, and the account, whose code approves
\* nobody but targets, starts without an allowance for its own tokens.
ASSUME OwnTokensAssumption ==
  /\ IsFiniteSet(Contract)
  /\ InitApproved \subseteq Asset \X (Addr \ {Self})

\* The sum of the values of f: each value stands for that many units, and the
\* units are counted, since about cardinalities there are theorems to cite.
Units(f) == UNION {{x} \X (1..f[x]) : x \in DOMAIN f}

Total(f) == Cardinality(Units(f))

\* The amount of a that the effect e takes from the address x.
Debit(e, a, x) ==
  LET u == e.step.unit
      Part(asset, from, n) == IF asset = a /\ from = x THEN n ELSE 0
  IN  CASE e.what = "gas"  -> Part(u.gas_token, EthOwner, u.gas_token_amt)
        [] e.what = "pull" -> LET f == Item(e.step).from[e.j]
                              IN  Part(f.asset, transfer_owner(u), f.to_take)
        [] e.what = "move" -> LET t == u.args[e.j]
                              IN  Part(t.asset, t.from, t.amt)
        [] OTHER -> 0

\* What the token owner x has lost is covered by effects that the account's
\* key signed, each counted once: neither a replay, nor a re-entrant call,
\* nor a caught failure takes more from an owner than was signed for.
DebitsAreSigned ==
  Observable => \A a \in Asset, x \in Addr \ {Self} :
    InitBal[a][x] <= st.bal[a][x] + Total([e \in st.done |-> Debit(e, a, x)])

\* The allowances outstanding never exceed the account's balance: a target
\* that has not spent its allowance can still do so after any number of other
\* operations, and never spends tokens that were pulled for another target.
AllowancesBacked ==
  \A a \in Asset : Total(st.allow[a]) <= st.bal[a][Self]

-----------------------------------------------------------------------------
(* The inductive invariant behind both: it speaks of one state, and holds  *)
(* of the current one and of all that a revert would restore.              *)

\* The account's tokens cover the allowances that it gave, and nobody else can
\* take them.
Backed(s) ==
  \A a \in Asset :
    /\ <<a, Self>> \notin s.approved
    /\ Total(s.allow[a]) <= s.bal[a][Self]

\* As long as nothing happened twice, every loss is the sum of the debits.
Covered(s) ==
  /\ IsFiniteSet(s.done)
  /\ \A e \in s.done, a \in Asset, x \in Addr : Debit(e, a, x) \in Nat
  /\ s.twice = {} => \A a \in Asset, x \in Addr \ {Self} :
       InitBal[a][x] <= s.bal[a][x] + Total([e \in s.done |-> Debit(e, a, x)])

Ledger(s) == Backed(s) /\ Covered(s)

LedgerInv == Ledger(st) /\ \A k \in 1..Len(stack) : Ledger(stack[k].snap)
=============================================================================
