------------------------------ MODULE Account ------------------------------
(***************************************************************************)
(* One Ed25519 smart account (superposition_libaccounts), executed by the  *)
(* EVM.                                                                    *)
(*                                                                         *)
(* A relayer, which is any external code, calls the account with signed    *)
(* operations. The account consumes the operation's single-use value       *)
(* ms_ts, moves ERC-20 tokens of the owner, approves a target and calls    *)
(* it. The target is external code again: it may spend what it was         *)
(* approved for, call the account back, return or revert. The model is a   *)
(* call stack: every frame remembers the state at its start (snap), and a  *)
(* revert puts that state back. Anything may revert at any time, since any *)
(* assertion, token call or gas limit may fail.                            *)
(*                                                                         *)
(* Tokens are well-behaved ERC-20/EIP-2612 contracts: they do not call     *)
(* back, an allowance of U::MAX is never used up, and a permit is accepted *)
(* once. External code reaches its caller's account only through the       *)
(* calls modelled here; targets are neither the account nor a token.       *)
(***************************************************************************)
EXTENDS Naturals, Sequences

CONSTANTS
  Asset,            \* the ERC-20 tokens
  Addr,             \* every address that can hold a balance
  Contract,         \* external code: relayers and targets of a solve
  CodeHash,         \* the code hash of each contract
  Self,             \* this account
  EthOwner,         \* storage::ethereum_owner
  Clearinghouse,    \* Imm.clearinghouse, who receives SolveV3's gas payment
  HasAuthority,     \* is storage::authority set?
  Nonce,            \* the values of ms_ts
  Key,              \* Ed25519 keys
  EdKey,            \* storage::ed25519_slot(0), the key signatures must match
  PermitId,         \* identifies one EIP-2612 signature
  SignedPermit,     \* every EIP-2612 signature that exists
  SignedSolve,      \* every SolveArgsSigArgs that exists, with its signer
  SignedSolveV2,    \* every (SolveV2Args, Sig)
  SignedSolveV3,    \* every (SolveV3Args, Sig)
  SignedTransferOnly,  \* every (TransferOnlyArgs, Sig)
  SignedStatement,  \* every (StatementArgs, Sig)
  InitBal,          \* token balances when the account is created
  InitApproved,     \* who already gave the account an allowance
  MaxBatch,         \* bound: elements of one Solve call
  MaxDepth          \* bound: depth of the call stack

-----------------------------------------------------------------------------
(* What is signed. Option<T> is a sequence of at most one element.         *)

\* An EIP-2612 signature is made with a private key, which the account, being a
\* contract, has not.
Permit == [asset: Asset, signer: Addr \ {Self}, id: PermitId]

FromArgs == [asset: Asset, to_take: Nat, max_unspent: Nat]

SolveArgs == [ms_ts: Nonce, permit: Seq(Permit), from: Seq(FromArgs),
              target: Contract]

SolveArgsSigArgs == [kind: {"v1"}, key: Key, args: Seq(SolveArgs)]

SolveV2Args == [kind: {"v2"}, key: Key, args: Seq(SolveArgs),
                permit_owner: Addr, transfer_owner: Addr]

SolveV3Args == [kind: {"v3"}, key: Key, args: Seq(SolveArgs),
                gas_token: Asset, gas_token_amt: Nat,
                gas_token_permit: Seq(Permit)]

Transfer == [from: Addr, asset: Asset, recipient: Addr, amt: Nat,
             permit: Seq(Permit)]

TransferOnlyArgs == [kind: {"transfer"}, key: Key, ms_ts: Nonce,
                     args: Seq(Transfer)]

StatementArgs == [kind: {"statement"}, key: Key, ms_ts: Nonce]

ASSUME AddressAssumption ==
  /\ Contract \subseteq Addr
  /\ {Self, EthOwner, Clearinghouse} \subseteq Addr
  /\ Self \notin Contract
  /\ EdKey \in Key
  /\ HasAuthority \in BOOLEAN

ASSUME SignedAssumption ==
  /\ SignedPermit \subseteq Permit
  /\ SignedSolve \subseteq SolveArgsSigArgs
  /\ \A u \in SignedSolve : Len(u.args) = 1
  /\ SignedSolveV2 \subseteq SolveV2Args
  /\ SignedSolveV3 \subseteq SolveV3Args
  /\ SignedTransferOnly \subseteq TransferOnlyArgs
  /\ SignedStatement \subseteq StatementArgs

ASSUME LedgerAssumption ==
  /\ InitBal \in [Asset -> [Addr -> Nat]]
  /\ InitApproved \subseteq Asset \X Addr
  /\ MaxBatch \in Nat
  /\ MaxDepth \in Nat

\* A step of an operation: element idx of the signed batch, or idx 0 for the
\* gas payment that a SolveV3 makes before its batch.
Unit == SignedSolve \cup SignedSolveV2 \cup SignedSolveV3
          \cup SignedTransferOnly \cup SignedStatement

Step == [unit: Unit, idx: Nat]

Item(s) == s.unit.args[s.idx]

IsSolve(u) == u.kind \in {"v1", "v2", "v3"}

\* The single-use value that a step consumes (a gas payment consumes none).
NonceOf(s) == IF IsSolve(s.unit) THEN Item(s).ms_ts ELSE s.unit.ms_ts

permit_owner(u) == IF u.kind = "v2" THEN u.permit_owner ELSE EthOwner

transfer_owner(u) == IF u.kind = "v2" THEN u.transfer_owner ELSE EthOwner

\* edphverify_pre and edphverify_post against the key in slot 0.
edphverify(u) == u.key = EdKey

-----------------------------------------------------------------------------
VARIABLES
  st,      \* what a revert restores: the account's storage and the tokens'
  stack,   \* the frames of the running transaction, outermost first
  allowed  \* code hashes that the authority contract allows

vars == <<st, stack, allowed>>

\* What an operation does to the world, recorded when it happens.
Effect == [step: Step, what: {"gas", "pull", "call", "move", "statement"},
           j: Nat]

State ==
  [used: SUBSET Nonce,                  \* storage::timestamps
   lock: BOOLEAN,                       \* the slot of REENTRANCY_KEY
   bal: [Asset -> [Addr -> Nat]],       \* token balances
   approved: SUBSET (Asset \X Addr),    \* U::MAX allowances for the account
   allow: [Asset -> [Contract -> Nat]], \* allowances the account gave
   spent: SUBSET PermitId,              \* permits the tokens accepted
   done: SUBSET Effect,                 \* history: effects that happened
   twice: SUBSET Effect]                \* history: ... a second time

Frame ==
  [kind: {"ext", "guarded", "open"},  \* external code, or an account call
   who: Contract \cup {Self},
   todo: Seq(Step),                   \* the steps left, the current one first
   phase: {"run", "next", "pull", "target", "floor", "transfer"},
   j: Nat,                            \* the token movement that is due
   snap: State]

Top == stack[Len(stack)]

Below == SubSeq(stack, 1, Len(stack) - 1)

IsExt(f) == f.kind = "ext"

\* External code is running and may call: the depth is bounded.
ExtRuns == Len(stack) > 0 /\ IsExt(Top)

MayCall == Len(stack) < MaxDepth

InPhase(p) == Len(stack) > 0 /\ ~IsExt(Top) /\ Top.phase = p

SetTop(f) == stack' = Append(Below, f)

Log(s, e) ==
  [s EXCEPT !.done = @ \cup {e},
            !.twice = IF e \in s.done THEN @ \cup {e} ELSE @]

EffectOf(s, w, n) == [step |-> s, what |-> w, j |-> n]

-----------------------------------------------------------------------------
(* The tokens, as the account uses them.                                   *)

\* transferFrom(from, to, n) called by the account.
CanTransferFrom(s, a, from, n) == <<a, from>> \in s.approved /\ n <= s.bal[a][from]

TransferFrom(s, a, from, to, n) ==
  LET paid == [s.bal[a] EXCEPT ![from] = @ - n]
  IN  [s EXCEPT !.bal[a] = [paid EXCEPT ![to] = @ + n]]

\* permit(owner, account, U::MAX, ...) for each of ps, in order.
CanPermit(s, ps, owner) ==
  /\ \A i \in DOMAIN ps : ps[i].signer = owner /\ ps[i].id \notin s.spent
  /\ \A i, k \in DOMAIN ps : ps[i].id = ps[k].id => i = k

DoPermit(s, ps) ==
  [s EXCEPT !.spent = @ \cup {ps[i].id : i \in DOMAIN ps},
            !.approved = @ \cup {<<ps[i].asset, ps[i].signer>> : i \in DOMAIN ps}]

\* approve(c, n) called by the account: replaces the allowance.
Approve(s, a, c, n) == [s EXCEPT !.allow[a] = [s.allow[a] EXCEPT ![c] = n]]

-----------------------------------------------------------------------------
(* The account's storage.                                                  *)

\* Mutant: a consumed value is accepted again.
MutReusable(n) == TRUE

\* storage::timestamps::exchange asserts that the slot of n is 0 ...
Unused(n) == n \notin st.used

\* Mutant: the slot is not written.
MutForgetNonce(s, n) == s

\* ... and sets it to 1.
Exchange(s, n) == [s EXCEPT !.used = @ \cup {n}]

\* Mutant: the guard does not look at the lock.
MutIgnoreLock == TRUE

\* reentrancy_guard_const_keccak fails if its slot is set ...
Unlocked == ~st.lock

\* Mutant: the lock stays taken.
MutKeepLock(f) == st

\* ... and clears it when the call f returns.
Unlock(f) == IF f.kind = "guarded" THEN [st EXCEPT !.lock = FALSE] ELSE st

-----------------------------------------------------------------------------
(* External code.                                                          *)

ExtFrame(c, s) == [kind |-> "ext", who |-> c, todo |-> <<>>, phase |-> "run",
                   j |-> 0, snap |-> s]

\* A transaction starts in the code of c.
BeginTx(c) ==
  /\ stack = <<>>
  /\ stack' = <<ExtFrame(c, st)>>
  /\ UNCHANGED <<st, allowed>>

\* The running code spends some of the allowance that the account gave it.
Spend(a) ==
  /\ ExtRuns
  /\ \E n \in 1..st.allow[a][Top.who] :
       /\ n <= st.bal[a][Self]
       /\ st' = Approve(TransferFrom(st, a, Self, Top.who, n), a, Top.who,
                        st.allow[a][Top.who] - n)
  /\ UNCHANGED <<stack, allowed>>

\* The running code hands a permit that it has seen to the token itself.
SubmitPermit(p) ==
  /\ ExtRuns
  /\ CanPermit(st, <<p>>, p.signer)
  /\ st' = DoPermit(st, <<p>>)
  /\ UNCHANGED <<stack, allowed>>

\* The running code returns: the transaction ends, or the account goes on to
\* check its balances.
Return ==
  /\ ExtRuns
  /\ stack' = IF Len(stack) = 1 THEN <<>>
              ELSE [Below EXCEPT ![Len(Below)].phase = "floor"]
  /\ UNCHANGED <<st, allowed>>

\* Mutant: a failed call of the account leaves its writes behind.
MutRevertKeepsWrites ==
  /\ Len(stack) > 0
  /\ stack' = SubSeq(stack, 1, Len(stack) - (IF IsExt(Top) /\ Len(stack) > 1 THEN 2 ELSE 1))
  /\ UNCHANGED <<st, allowed>>

\* The running frame reverts. The account panics when its target reverts, so
\* that both frames go; external code may catch the revert of the account.
Revert ==
  /\ Len(stack) > 0
  /\ LET k == IF IsExt(Top) /\ Len(stack) > 1 THEN Len(stack) - 1 ELSE Len(stack)
     IN  /\ st' = stack[k].snap
         /\ stack' = SubSeq(stack, 1, k - 1)
  /\ UNCHANGED allowed

\* Authority9lives.register, a transaction of the operator.
register(h, b) ==
  /\ stack = <<>>
  /\ allowed' = IF b THEN allowed \cup {h} ELSE allowed \ {h}
  /\ UNCHANGED <<st, stack>>

-----------------------------------------------------------------------------
(* Calls of the account.                                                   *)

AcctFrame(kind, todo, phase) ==
  [kind |-> kind, who |-> Self, todo |-> todo, phase |-> phase, j |-> 1,
   snap |-> st]

\* Mutant: the steps are counted from one too low.
MutStepsEarly(u, first) ==
  [i \in 1..(Len(u.args) + 1 - first) |-> [unit |-> u, idx |-> (first + i) - 2]]

StepsOf(u, first) ==
  [i \in 1..(Len(u.args) + 1 - first) |-> [unit |-> u, idx |-> first - 1 + i]]

\* reentrancy_guard_const_keccak: fails if the lock is taken, takes it.
EnterGuarded(todo) ==
  /\ ExtRuns /\ MayCall
  /\ Unlocked
  /\ st' = [st EXCEPT !.lock = TRUE]
  /\ stack' = Append(stack, AcctFrame("guarded", todo, "next"))
  /\ UNCHANGED allowed

\* Args::Solve: every element is verified before the first one runs.
entry_solve_v1(batch) ==
  /\ \A i \in DOMAIN batch : edphverify(batch[i])
  /\ EnterGuarded([i \in DOMAIN batch |-> [unit |-> batch[i], idx |-> 1]])

\* Args::SolveV2: one signature over the batch and its two owners.
entry_solve_v2(u) ==
  /\ edphverify(u)
  /\ EnterGuarded(StepsOf(u, 1))

\* Args::SolveV3: not guarded; the first step is the gas payment.
entry_solve_v3(u) ==
  /\ ExtRuns /\ MayCall
  /\ edphverify(u)
  /\ stack' = Append(stack, AcctFrame("open", StepsOf(u, 0), "next"))
  /\ UNCHANGED <<st, allowed>>

\* The gas permit, if any, must be for the gas token.
PayGas ==
  /\ InPhase("next") /\ Top.todo # <<>>
  /\ LET s == Head(Top.todo)
         u == s.unit
         ps == u.gas_token_permit
         s1 == DoPermit(st, ps)
     IN  /\ s.idx = 0
         /\ \A i \in DOMAIN ps : ps[i].asset = u.gas_token
         /\ CanPermit(st, ps, EthOwner)
         /\ CanTransferFrom(s1, u.gas_token, EthOwner, u.gas_token_amt)
         /\ st' = Log(TransferFrom(s1, u.gas_token, EthOwner, Clearinghouse,
                                   u.gas_token_amt),
                      EffectOf(s, "gas", 0))
         /\ SetTop([Top EXCEPT !.todo = Tail(@)])
  /\ UNCHANGED allowed

\* entry_solve, the start of an element: storage::timestamps::exchange and the
\* permits.
BeginItem ==
  /\ InPhase("next") /\ Top.todo # <<>>
  /\ LET s == Head(Top.todo)
     IN  /\ s.idx > 0
         /\ Unused(NonceOf(s))
         /\ CanPermit(st, Item(s).permit, permit_owner(s.unit))
         /\ st' = DoPermit(Exchange(st, NonceOf(s)), Item(s).permit)
         /\ SetTop([Top EXCEPT !.phase = "pull", !.j = 1])
  /\ UNCHANGED allowed

\* Mutant: the result of transferFrom is not looked at.
MutPullUnchecked ==
  /\ InPhase("pull")
  /\ LET s == Head(Top.todo)
         f == Item(s).from[Top.j]
         owner == transfer_owner(s.unit)
         s1 == IF CanTransferFrom(st, f.asset, owner, f.to_take)
               THEN TransferFrom(st, f.asset, owner, Self, f.to_take) ELSE st
     IN  /\ Top.j <= Len(Item(s).from)
         /\ st' = Log(Approve(s1, f.asset, Item(s).target, f.to_take),
                      EffectOf(s, "pull", Top.j))
         /\ SetTop([Top EXCEPT !.j = @ + 1])
  /\ UNCHANGED allowed

\* entry_solve: take the next asset from the owner, approve the target for it.
Pull ==
  /\ InPhase("pull")
  /\ LET s == Head(Top.todo)
         f == Item(s).from[Top.j]
         owner == transfer_owner(s.unit)
         s1 == TransferFrom(st, f.asset, owner, Self, f.to_take)
     IN  /\ Top.j <= Len(Item(s).from)
         /\ CanTransferFrom(st, f.asset, owner, f.to_take)
         /\ st' = Log(Approve(s1, f.asset, Item(s).target, f.to_take),
                      EffectOf(s, "pull", Top.j))
         /\ SetTop([Top EXCEPT !.j = @ + 1])
  /\ UNCHANGED allowed

\* Mutant: the answer of the authority is ignored.
MutNotAsked(c) == TRUE

\* call_authority::is_allowed on the target's code hash.
is_allowed(c) == HasAuthority => CodeHash[c] \in allowed

\* entry_solve: every asset is taken, the authority is asked, the target runs.
CallTarget ==
  /\ InPhase("pull") /\ MayCall
  /\ LET s == Head(Top.todo)
         s1 == Log(st, EffectOf(s, "call", 0))
     IN  /\ Top.j > Len(Item(s).from)
         /\ is_allowed(Item(s).target)
         /\ st' = s1
         /\ stack' = Append(Append(Below, [Top EXCEPT !.phase = "target"]),
                            ExtFrame(Item(s).target, s1))
  /\ UNCHANGED allowed

\* entry_solve: the balance left of each asset is at least max_unspent.
CheckFloors ==
  /\ InPhase("floor")
  /\ LET from == Item(Head(Top.todo)).from
     IN  \A i \in DOMAIN from : st.bal[from[i].asset][Self] >= from[i].max_unspent
  /\ SetTop([Top EXCEPT !.phase = "next", !.todo = Tail(@)])
  /\ UNCHANGED <<st, allowed>>

\* Args::TransferOnly: verify, refuse an empty batch, consume the nonce.
entry_transfer_only(u) ==
  /\ ExtRuns /\ MayCall
  /\ Unlocked
  /\ edphverify(u)
  /\ u.args # <<>>
  /\ Unused(u.ms_ts)
  /\ st' = [Exchange(st, u.ms_ts) EXCEPT !.lock = TRUE]
  /\ stack' = Append(stack, AcctFrame("guarded", <<[unit |-> u, idx |-> 1]>>, "transfer"))
  /\ UNCHANGED allowed

\* entry_transfer_only: one transfer, with its permit if it has one.
MoveNext ==
  /\ InPhase("transfer")
  /\ LET s == Head(Top.todo)
         t == s.unit.args[Top.j]
         s1 == DoPermit(st, t.permit)
     IN  /\ \A i \in DOMAIN t.permit : t.permit[i].asset = t.asset
         /\ CanPermit(st, t.permit, t.from)
         /\ CanTransferFrom(s1, t.asset, t.from, t.amt)
         /\ st' = Log(TransferFrom(s1, t.asset, t.from, t.recipient, t.amt),
                      EffectOf(s, "move", Top.j))
         /\ SetTop(IF Top.j = Len(s.unit.args)
                   THEN [Top EXCEPT !.phase = "next", !.todo = <<>>]
                   ELSE [Top EXCEPT !.j = @ + 1])
  /\ UNCHANGED allowed

\* Args::Statement: not guarded, calls nobody.
entry_statement(u) ==
  /\ ExtRuns /\ MayCall
  /\ edphverify(u)
  /\ Unused(u.ms_ts)
  /\ st' = Log(Exchange(st, u.ms_ts),
               EffectOf([unit |-> u, idx |-> 1], "statement", 0))
  /\ UNCHANGED <<stack, allowed>>

\* The call of the account returns to its caller; the guard releases its lock.
Finish ==
  /\ InPhase("next") /\ Top.todo = <<>>
  /\ st' = Unlock(Top)
  /\ stack' = Below
  /\ UNCHANGED allowed

-----------------------------------------------------------------------------
Init ==
  /\ st = [used |-> {}, lock |-> FALSE, bal |-> InitBal,
           approved |-> InitApproved,
           allow |-> [a \in Asset |-> [c \in Contract |-> 0]],
           spent |-> {}, done |-> {}, twice |-> {}]
  /\ stack = <<>>
  /\ allowed = {}

Next ==
  \/ \E c \in Contract : BeginTx(c)
  \/ \E a \in Asset : Spend(a)
  \/ \E p \in SignedPermit : SubmitPermit(p)
  \/ Return
  \/ Revert
  \/ \E h \in {CodeHash[c] : c \in Contract} : \E b \in BOOLEAN : register(h, b)
  \/ \E n \in 0..MaxBatch : \E batch \in [1..n -> SignedSolve] : entry_solve_v1(batch)
  \/ \E u \in SignedSolveV2 : entry_solve_v2(u)
  \/ \E u \in SignedSolveV3 : entry_solve_v3(u)
  \/ \E u \in SignedTransferOnly : entry_transfer_only(u)
  \/ \E u \in SignedStatement : entry_statement(u)
  \/ PayGas
  \/ BeginItem
  \/ Pull
  \/ CallTarget
  \/ CheckFloors
  \/ MoveNext
  \/ Finish

Spec == Init /\ [][Next]_vars

-----------------------------------------------------------------------------
(* Properties.                                                             *)

\* Type correctness: in particular no balance and no allowance ever goes
\* below zero, whatever order calls, spends and reverts come in.
TypeOK ==
  /\ st \in State
  /\ stack \in Seq(Frame)
  /\ allowed \subseteq {CodeHash[c] : c \in Contract}

\* The frames of the running transaction that hold the reentrancy guard.
Guarded == {k \in DOMAIN stack : stack[k].kind = "guarded"}

\* The reentrancy guard of entry (lib.rs): at most one Solve, SolveV2 or
\* TransferOnly runs at any depth of the call stack, and the lock is set
\* exactly while one does: no revert or return path leaves it taken (the
\* account would be unusable) or free (the operation could be re-entered).
GuardInv ==
  /\ \A k, m \in Guarded : k = m
  /\ st.lock <=> Guarded # {}

\* No transaction is running: what the account has done is final.
AtRest == stack = <<>>

\* No call of the account is on top of the stack: other code can see the state.
Observable == AtRest \/ ExtRuns

\* "The account verifies the signature and consumes ms_ts, preventing the
\* same operation from being replayed" (superposition_libaccounts/README.md):
\* no pull, transfer, gas payment, target call or statement of a signed
\* operation ever happens a second time, neither in the committed state nor in
\* a state in which external code runs.
EffectsOnce == Observable => st.twice = {}

\* Two different signed operations that carry the same ms_ts never both take
\* effect, whichever entry points (guarded or not) they go through.
OneOperationPerNonce ==
  Observable => \A d, e \in st.done :
              /\ d.what # "gas" /\ e.what # "gas"
              /\ NonceOf(d.step) = NonceOf(e.step)
              => d.step = e.step

\* What element i of the solve u asks for: its call, and every pull before it.
EffectsOfElement(u, i) ==
  {EffectOf([unit |-> u, idx |-> i], "call", 0)}
    \cup {EffectOf([unit |-> u, idx |-> i], "pull", n) : n \in DOMAIN u.args[i].from}

EffectsOfGas(u) ==
  IF u.kind = "v3" THEN {EffectOf([unit |-> u, idx |-> 0], "gas", 0)} ELSE {}

\* All that the signed envelope u asks for.
EffectsOf(u) ==
  CASE u.kind = "statement" -> {EffectOf([unit |-> u, idx |-> 1], "statement", 0)}
    [] u.kind = "transfer"  -> {EffectOf([unit |-> u, idx |-> 1], "move", n) : n \in DOMAIN u.args}
    [] OTHER -> EffectsOfGas(u) \cup UNION {EffectsOfElement(u, i) : i \in DOMAIN u.args}

\* A signed envelope takes effect as a whole or not at all: a batch that fails
\* at its last element, a target that reverts, or a relayer that catches the
\* failure never leaves a part of it behind.
AllOrNothing == AtRest => \A e \in st.done : EffectsOf(e.step.unit) \subseteq st.done

\* The state before the running transaction.
Committed == IF AtRest THEN st ELSE stack[1].snap

\* The single-use values that the signed envelope u consumes.
NoncesOf(u) == IF IsSolve(u) THEN {u.args[i].ms_ts : i \in DOMAIN u.args} ELSE {u.ms_ts}

Promise == INSTANCE OneShot WITH Effects <- EffectsOf, Nonces <- NoncesOf,
                                 done <- Committed.done

\* The account implements its abstract specification: seen from outside, a
\* transaction executes whole envelopes, none of which shares an ms_ts with
\* another one, however the calls inside it nest, fail or are caught.
KeepsPromise == Promise!Spec

\* entry_solve approves the target before it asks the authority. Still, while
\* external code runs no contract holds more of an allowance than before the
\* transaction, unless the authority allows that contract.
AllowancesVetted ==
  HasAuthority /\ Observable =>
    \A a \in Asset, c \in Contract :
      st.allow[a][c] > Committed.allow[a][c] => CodeHash[c] \in allowed
=============================================================================
