------------------------------ MODULE Factory ------------------------------
(***************************************************************************)
(* How accounts come to be and change: the factory behind                  *)
(* UpgradeableProxy, FreshBackwards, which deploys the proxy of an account *)
(* and migrates it, and migrate, which anyone may call on any account at   *)
(* any time.                                                               *)
(*                                                                         *)
(* An account is named by the EOA it is derived from (create2 with the EOA *)
(* as its salt). FreshBackwards called on something else than the factory  *)
(* deploys to other addresses and is left out. A call that reverts changes *)
(* nothing and is no step; only the first solve of a new account, which    *)
(* hands control to its target, has a frame of its own.                    *)
(*                                                                         *)
(* The proxy of an account runs what the account's own storage names, but  *)
(* for migrate it asks the factory at that moment. So when the admin gives *)
(* the factory foreign code, that code reaches every account.              *)
(***************************************************************************)
EXTENDS Integers, Sequences, FiniteSets

CONSTANTS
  Eoa,        \* users
  Key,        \* ed25519 public keys
  Authority,  \* authority contracts
  Release,    \* implementations of this repository
  Foreign,    \* other addresses, with code or without
  Admin,      \* the factory's admin
  Other,      \* any other sender, contracts included
  Zero,       \* the zero word and the zero address
  Absent,     \* no contract
  Left,       \* an account, or the factory, whose storage foreign code may write:
              \* nothing more is known of it
  FirstImpl, FactoryKey,
  Legacy,     \* users with an account of the release before: level 1
  LegacyKey,
  MaxDepth,   \* bound: nested first solves
  MaxSigned   \* bound: signatures

Impl == Release \cup Foreign

Sender == Eoa \cup {Admin, Other}

\* What the admin may have the factory do after an upgrade: nothing, or migrate
\* with some key, owner, implementation and authority.
Data == {<<>>} \cup ((Key \cup {Zero}) \X (Eoa \cup {Zero}) \X (Impl \cup {Zero})
                    \X (Authority \cup {Zero}))

\* The storage of an account under an implementation of this repository.
Storage == [version : 0..2, key : Key \cup {Zero}, owner : Eoa \cup {Admin, Zero},
            impl : Release \cup {Zero}, authority : Authority \cup {Zero}]

ASSUME FactoryAssumption ==
  /\ FirstImpl \in Release /\ Release \cap Foreign = {}
  /\ Zero \notin Eoa \cup Key \cup Authority \cup Release \cup Foreign \cup {Admin, Other}
  /\ Absent \notin Storage /\ Left \notin Storage /\ Absent # Left
  /\ Admin \notin Eoa /\ Other \notin Eoa \cup {Admin}
  /\ Legacy \subseteq Eoa /\ LegacyKey \in Key /\ FactoryKey \in Key
  /\ MaxDepth \in Nat /\ MaxSigned \in Nat

VARIABLES
  factory,  \* the factory's storage, or Left
  account,  \* EOA -> the storage of its account, or Absent, or Left
  stack,    \* for each first solve that is running, the state it would revert to
  signed,   \* what users signed: key and authority
  chosen    \* history: the implementation last chosen by who may choose it, and
            \* the authority that the owner of a legacy account took it to level 2 with

vars == <<factory, account, stack, signed, chosen>>

Exists(e) == account[e] \notin {Absent, Left}

-----------------------------------------------------------------------------
Blank == [version |-> 0, key |-> Zero, owner |-> Zero, impl |-> Zero, authority |-> Zero]

\* UpgradeableProxy, behind which the factory is.
constructor(impl, admin, publicKey) ==
  [Blank EXCEPT !.impl = impl, !.owner = admin, !.key = publicKey, !.version = 2]

\* Mutant: any sender may migrate.
MutRefused(s, sender, key, owner, impl) == impl = Zero \/ (s.version = 0 /\ Zero \in {key, owner})

\* What entry_migrate asserts: after the first time only the owner migrates.
Refused(s, sender, key, owner, impl) ==
  \/ impl = Zero
  \/ s.version = 0 /\ Zero \in {key, owner}
  \/ s.version > 0 /\ s.owner # sender

\* Mutant: level 2 sets the authority again.
MutLevelTwo(s, key, owner, impl, authority) ==
  [version |-> 2, impl |-> impl, authority |-> authority,
   key |-> IF s.version = 0 THEN key ELSE s.key,
   owner |-> IF s.version = 0 THEN owner ELSE s.owner]

\* Mutant: a migration counts the version up.
MutCountUp(s, key, owner, impl, authority) ==
  [version |-> IF s.version = 0 THEN 2 ELSE s.version + 1, impl |-> impl,
   key |-> IF s.version = 0 THEN key ELSE s.key,
   owner |-> IF s.version = 0 THEN owner ELSE s.owner,
   authority |-> IF s.version <= 1 THEN authority ELSE s.authority]

\* Level 0 sets the key and the owner, levels 0 and 1 the authority, every level
\* the implementation.
Migrated(s, key, owner, impl, authority) ==
  [version |-> 2, impl |-> impl,
   key |-> IF s.version = 0 THEN key ELSE s.key,
   owner |-> IF s.version = 0 THEN owner ELSE s.owner,
   authority |-> IF s.version <= 1 THEN authority ELSE s.authority]

\* The storage after a migration, or {} when it reverts.
entry_migrate(s, sender, key, owner, impl, authority) ==
  IF Refused(s, sender, key, owner, impl) THEN {}
  ELSE {Migrated(s, key, owner, impl, authority)}

-----------------------------------------------------------------------------
\* A user signs the creation of an account, at any time and any number of times.
Sign(eoa, key, authority) ==
  /\ Cardinality(signed) < MaxSigned
  /\ signed' = signed \cup {<<eoa, key, authority>>}
  /\ UNCHANGED <<factory, account, stack, chosen>>

\* Mutant: the authority is not part of what is signed.
MutRecovers(eoa, key, authority) == \E a \in Authority \cup {Zero} : <<eoa, key, a>> \in signed

\* make_preimage and ecrecover: eoa signed this key and this authority.
Recovers(eoa, key, authority) == <<eoa, key, authority>> \in signed

\* The sender who calls: a contract, while a solve runs, since the EOA that began
\* the transaction is then not the caller of anything.
Calls(sender) == sender \in Sender /\ (stack # <<>> => sender = Other)

\* FreshBackwards. The factory's proxy does not pass calls of its admin on. The
\* proxy of the account is deployed, which fails if there is one, and migrated;
\* solves says that there is a first solve.
entry_fresh_backwards(sender, key, eoa, authority, solves) ==
  /\ Calls(sender) /\ sender # Admin /\ factory # Left
  /\ key # Zero /\ eoa # Zero
  /\ Recovers(eoa, key, authority)
  /\ factory.impl # Zero
  /\ account[eoa] = Absent
  /\ \E s \in entry_migrate(Blank, Other, key, eoa, factory.impl, authority) :
       account' = [account EXCEPT ![eoa] = s]
  /\ stack' = IF solves THEN Append(stack, [factory |-> factory, account |-> account]) ELSE stack
  /\ solves => Len(stack) < MaxDepth
  /\ chosen' = [chosen EXCEPT ![eoa] = [impl |-> chosen[Admin].impl, authorities |-> {}]]
  /\ UNCHANGED <<factory, signed>>

\* The first solve ends, and the transaction with it.
SolveReturns ==
  /\ stack # <<>>
  /\ stack' = SubSeq(stack, 1, Len(stack) - 1)
  /\ UNCHANGED <<factory, account, signed, chosen>>

\* The first solve fails, and the creation with it.
SolveReverts ==
  /\ stack # <<>>
  /\ factory' = stack[Len(stack)].factory /\ account' = stack[Len(stack)].account
  /\ stack' = SubSeq(stack, 1, Len(stack) - 1)
  /\ UNCHANGED <<signed, chosen>>

\* migrate on an account, by anyone and with any arguments. The proxy runs what
\* the factory reports: a release, while the factory is not Left. After a
\* migration to a foreign implementation nothing more is known of the account's
\* storage.
Migrate(sender, eoa, key, owner, impl, authority) ==
  /\ Calls(sender)
  /\ Exists(eoa)
  /\ \E s \in entry_migrate(account[eoa], sender, key, owner, impl, authority) :
       account' = [account EXCEPT ![eoa] = IF impl \in Foreign THEN Left ELSE s]
  /\ chosen' = IF sender # eoa THEN chosen
               ELSE [chosen EXCEPT ![eoa] =
                       [impl |-> impl,
                        authorities |-> chosen[eoa].authorities \cup
                                          {a \in {authority} : account[eoa].version = 1}]]
  /\ UNCHANGED <<factory, stack, signed>>

\* A factory with foreign code may deploy an account without its EOA's signature,
\* and whatever it reports to the proxy of an account runs there when anyone
\* calls migrate: foreign code, or again a release (Migrate).
MigrateForeign(eoa) ==
  /\ factory = Left
  /\ account' = [account EXCEPT ![eoa] = Left]
  /\ UNCHANGED <<factory, stack, signed, chosen>>

\* migrate on the factory, which its proxy passes on for all but its admin: it is
\* at level 2 and the admin's, and every such call reverts.
MigrateFactory(sender, key, owner, impl, authority) ==
  /\ Calls(sender) /\ sender # Admin /\ factory # Left
  /\ LET m == entry_migrate(factory, sender, key, owner, impl, authority)
     IN  factory' \in IF m = {} THEN {factory} ELSE IF impl \in Foreign THEN {Left} ELSE m
  /\ UNCHANGED <<account, stack, signed, chosen>>

\* The admin gives the factory any implementation, and has it migrate with any
\* arguments or not. Other data has it do what anyone may have it do by a call of
\* their own. Once foreign code can run, nothing is known of the factory.
upgradeToAndCall(sender, newImpl, data) ==
  LET s == [factory EXCEPT !.impl = newImpl]
      migrates == data # <<>> /\ newImpl \in Release
      last == IF migrates THEN data[3] ELSE newImpl
  IN  /\ Calls(sender) /\ sender = Admin /\ factory # Left
      /\ \E t \in IF migrates THEN entry_migrate(s, sender, data[1], data[2], data[3], data[4])
                  ELSE {s} :
           factory' = IF last \in Foreign THEN Left ELSE t
      /\ chosen' = [chosen EXCEPT ![Admin].impl = last]
      /\ UNCHANGED <<account, stack, signed>>

-----------------------------------------------------------------------------
Init ==
  /\ factory = constructor(FirstImpl, Admin, FactoryKey)
  /\ account = [e \in Eoa |->
                  IF e \in Legacy
                  THEN [version |-> 1, key |-> LegacyKey, owner |-> e, impl |-> FirstImpl,
                        authority |-> Zero]
                  ELSE Absent]
  /\ stack = <<>>
  /\ signed = {<<e, LegacyKey, Zero>> : e \in Legacy}
  /\ chosen = [e \in Eoa \cup {Admin} |-> [impl |-> FirstImpl, authorities |-> {}]]

Next ==
  \/ \E e \in Eoa, k \in Key, a \in Authority \cup {Zero} :
       \/ Sign(e, k, a)
       \/ \E b \in Sender, solves \in BOOLEAN : entry_fresh_backwards(b, k, e, a, solves)
  \/ SolveReturns
  \/ SolveReverts
  \/ \E b \in Sender, k \in Key \cup {Zero}, o \in Eoa \cup {Zero}, i \in Impl \cup {Zero},
        a \in Authority \cup {Zero} :
       \/ \E e \in Eoa : Migrate(b, e, k, o, i, a)
       \/ MigrateFactory(b, k, o, i, a)
  \/ \E e \in Eoa : MigrateForeign(e)
  \/ \E b \in Sender, n \in Impl, data \in Data : upgradeToAndCall(b, n, data)

Spec == Init /\ [][Next]_vars

-----------------------------------------------------------------------------
(* Properties.                                                             *)

Accounts == [Eoa -> Storage \cup {Absent, Left}]

\* Type correctness: no sequence of migrations and upgrades leads past level 2.
TypeOK ==
  /\ factory \in Storage \cup {Left}
  /\ account \in Accounts
  /\ stack \in Seq([factory : Storage, account : Accounts])
  /\ signed \subseteq Eoa \X Key \X (Authority \cup {Zero})
  /\ chosen \in [Eoa \cup {Admin} ->
                 [impl : Impl, authorities : SUBSET (Authority \cup {Zero})]]

\* Whoever sends the creation and whoever calls migrate, in whatever order and
\* also from within the first solve: an account belongs to its EOA, has the key
\* that the EOA signed and, with that key, the authority that the EOA signed or
\* has itself taken a legacy account to level 2 with.
SetUpAsSigned ==
  \A e \in Eoa :
    Exists(e) =>
      /\ account[e].owner = e /\ account[e].version > 0
      /\ \E s \in signed :
           /\ s[1] = e /\ s[2] = account[e].key
           /\ account[e].authority \in {s[3]} \cup chosen[e].authorities

\* An account runs what its owner last migrated it to and, before that, what the
\* admin had given the factory when it was created; the factory runs what the
\* admin last gave it, and stays the admin's. Nobody else changes what runs, by
\* any migration or from within any solve: only where the owner chose foreign
\* code for the account, or the admin for the factory, may foreign code write an
\* account. An upgrade to another release changes no account.
RunsWhatWasChosen ==
  /\ factory # Left =>
       factory.owner = Admin /\ factory.version = 2 /\ factory.impl = chosen[Admin].impl
  /\ factory = Left => chosen[Admin].impl \in Foreign
  /\ \A e \in Eoa :
       /\ Exists(e) => account[e].impl = chosen[e].impl
       /\ account[e] = Left => chosen[e].impl \in Foreign \/ factory = Left

\* Once set, the key and the owner of an account stay, and its authority changes
\* at most once, when a legacy account comes to level 2: not even its owner can
\* migrate it to another authority. A creation that reverts takes the account
\* away and nothing more.
KeptOnceSet ==
  [][\A e \in Eoa :
       Exists(e) /\ Exists(e)' =>
         /\ account'[e].key = account[e].key /\ account'[e].owner = account[e].owner
         /\ account'[e].version >= account[e].version
         /\ account'[e].authority # account[e].authority =>
              account[e].version = 1 /\ account'[e].version = 2]_vars
=============================================================================
