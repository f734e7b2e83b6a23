---------------------------- MODULE LiteAccount ----------------------------
(***************************************************************************)
(* LiteAccount and LiteFactory: accounts that forward calls their operator *)
(* signed, and that their owner switches on and off. An account is named   *)
(* by its owner and its operator, which are in its code and so determine   *)
(* its create2 address.                                                    *)
(*                                                                         *)
(* The stack holds the frames of external code: the caller of a            *)
(* transaction, and the targets of forwarded calls, which may call         *)
(* anything again. A frame keeps the state that it reverts to.             *)
(***************************************************************************)
EXTENDS Naturals, Sequences

CONSTANTS
  Owner, Operator, Nonce, Target,
  Signed,   \* messages that are signed by the operator of their account
  Absent,   \* no contract
  MaxDepth  \* bound: frames

Address == Owner \X Operator

Message == [account : Address, nonce : Nonce, target : Target]

\* The storage of an account: its switch and its nonces.
Lite == [enabled : BOOLEAN, used : SUBSET Nonce]

ASSUME LiteAssumption ==
  /\ Signed \subseteq Message
  /\ Absent \notin Lite
  /\ MaxDepth \in Nat

VARIABLES
  st,    \* what a revert restores: the accounts and what was forwarded
  stack

vars == <<st, stack>>

External == stack # <<>>

-----------------------------------------------------------------------------
\* A transaction calls some contract.
BeginTx ==
  /\ stack = <<>>
  /\ stack' = <<st>>
  /\ UNCHANGED st

\* The running code ends, and what it did stays.
Return ==
  /\ External
  /\ stack' = SubSeq(stack, 1, Len(stack) - 1)
  /\ UNCHANGED st

\* Mutant: a nonce stays used.
MutRevert ==
  /\ External
  /\ st' = [stack[Len(stack)] EXCEPT !.lite = st.lite]
  /\ stack' = SubSeq(stack, 1, Len(stack) - 1)

\* The running code fails: a forwarded call with it, whose caller may go on.
Revert ==
  /\ External
  /\ st' = stack[Len(stack)]
  /\ stack' = SubSeq(stack, 1, Len(stack) - 1)

-----------------------------------------------------------------------------
Fresh == [enabled |-> TRUE, used |-> {}]

\* create2 fails where there is code; create does not look at its result.
Created(a) == IF st.lite[a] = Absent THEN Fresh ELSE st.lite[a]

\* LiteFactory.create
create(owner, operator) ==
  /\ External
  /\ LET a == <<owner, operator>>
     IN  st' = [st EXCEPT !.lite[a] = Created(a)]
  /\ UNCHANGED stack

\* PRIVILEGED: whatever the owner sends, its first word switches the account on
\* or off.
Privileged(a, word) ==
  /\ External
  /\ st.lite[a] # Absent
  /\ st' = [st EXCEPT !.lite[a].enabled = word # 0]
  /\ UNCHANGED stack

\* Mutant: the nonce is not looked at.
MutUnused(a, n) == TRUE

Unused(a, n) == n \notin st.lite[a].used

\* FALLBACK: the nonce is used before the signature is verified; if it is not
\* the operator's, over this account, nonce, target and data, all of it reverts.
Fallback(m) ==
  LET a == m.account
  IN  /\ External /\ Len(stack) < MaxDepth
      /\ st.lite[a] # Absent /\ st.lite[a].enabled
      /\ Unused(a, m.nonce)
      /\ m \in Signed
      /\ st' = [st EXCEPT !.lite[a].used = @ \cup {m.nonce},
                          !.done = @ \cup {m},
                          !.twice = @ \cup ({m} \cap st.done)]
      /\ stack' = Append(stack, st)

-----------------------------------------------------------------------------
Init ==
  /\ st = [lite |-> [a \in Address |-> Absent], done |-> {}, twice |-> {}]
  /\ stack = <<>>

Next ==
  \/ BeginTx
  \/ Return
  \/ Revert
  \/ \E o \in Owner, k \in Operator : create(o, k)
  \/ \E a \in Address, word \in 0..1 : Privileged(a, word)
  \/ \E m \in Message : Fallback(m)

Spec == Init /\ [][Next]_vars

-----------------------------------------------------------------------------
(* Properties.                                                             *)

\* No message is forwarded twice: not from within its own call, not after a
\* failure that was caught, not after its account is created again or switched
\* off and on.
ForwardedOnce == st.twice = {}

\* A nonce is used exactly if a message with it was forwarded and did not fail:
\* neither a message that is not signed nor a call that reverts uses one up,
\* although the account writes the nonce first.
NoncesAccounted ==
  \A a \in Address :
    st.lite[a] # Absent =>
      st.lite[a].used = {m.nonce : m \in {x \in st.done : x.account = a}}

Committed == IF stack = <<>> THEN st.done ELSE stack[1].done

EffectsOf(m) == {m}

NoncesOf(m) == {<<m.account, m.nonce>>}

Promise == INSTANCE OneShot WITH Unit <- Signed, Effects <- EffectsOf, Nonces <- NoncesOf,
                                 done <- Committed

\* A lite account keeps the promise of the large one: transactions commit whole
\* signed messages, and no two of one account with one nonce.
KeepsPromise == Promise!Spec
=============================================================================
