--------------------------- MODULE FactoryProofs ---------------------------
(***************************************************************************)
(* Proofs about Factory, for any users, keys, authorities, implementations *)
(* and nesting of first solves.                                            *)
(***************************************************************************)
EXTENDS Factory, TLAPS

\* The accounts of f are among those of g, as they are.
Within(f, g) == \A e \in Eoa : f[e] \in {Absent, g[e]}

\* While a first solve runs, accounts may be created and nothing else happens (the
\* factory is not upgraded, so it is not Left), so that what a failure restores
\* are the same accounts, or fewer.
StackInv ==
  \A i \in 1..Len(stack) :
    /\ stack[i].factory = factory
    /\ Within(stack[i].account, account)
    /\ \A j \in i..Len(stack) : Within(stack[i].account, stack[j].account)

Inv == TypeOK /\ SetUpAsSigned /\ RunsWhatWasChosen /\ StackInv

Chosen == [impl : Impl, authorities : SUBSET (Authority \cup {Zero})]

Snapshot == [factory : Storage, account : Accounts]

-----------------------------------------------------------------------------
(* The operators.                                                          *)

\* An account that exists has storage.
LEMMA ExistsFacts ==
  ASSUME NEW f \in Accounts, NEW e \in Eoa
  PROVE  f[e] \notin {Absent, Left} <=> f[e] \in Storage
  BY FactoryAssumption DEF Accounts

\* A migration to a release gives storage at level 2, and keeps the key and the
\* owner of an account that has them.
Sound(s, k, o, i, a, t) ==
  /\ t \in Storage /\ t.version = 2 /\ t.impl = i
  /\ s.version = 0 => t.key = k /\ t.owner = o /\ t.authority = a
  /\ s.version > 0 => t.key = s.key /\ t.owner = s.owner /\ t.authority \in {s.authority, a}
  /\ s.version = 2 => t.authority = s.authority

\* That is what Migrated gives.
LEMMA MigratedFacts ==
  ASSUME NEW s \in Storage, NEW k \in Key \cup {Zero}, NEW o \in Eoa \cup {Zero},
         NEW i \in Release, NEW a \in Authority \cup {Zero}
  PROVE  Sound(s, k, o, i, a, Migrated(s, k, o, i, a))
<1>1. s.version \in 0..2 /\ s.key \in Key \cup {Zero} /\ s.owner \in Eoa \cup {Admin, Zero}
      /\ s.authority \in Authority \cup {Zero}
  BY DEF Storage
<1>2. Migrated(s, k, o, i, a) \in Storage
  BY <1>1 DEF Migrated, Storage
<1> QED
  BY <1>1, <1>2 DEF Migrated, Sound

\* What a migration makes of an account.
Owned(e, k, o, i, a) ==
  /\ account[e] \in Storage /\ account[e].version > 0 /\ i \in Impl
  /\ account'[e] = IF i \in Foreign THEN Left ELSE Migrated(account[e], k, o, i, a)

\* Of an account that exists, only its EOA migrates it, and not from within a
\* first solve.
LEMMA MigrateFacts ==
  ASSUME Inv, NEW b \in Sender, NEW e \in Eoa, NEW k \in Key \cup {Zero},
         NEW o \in Eoa \cup {Zero}, NEW i \in Impl \cup {Zero}, NEW a \in Authority \cup {Zero},
         Migrate(b, e, k, o, i, a)
  PROVE  /\ stack = <<>> /\ Owned(e, k, o, i, a)
         /\ account' \in Accounts
         /\ \A d \in Eoa : d # e => account'[d] = account[d]
         /\ chosen' \in [Eoa \cup {Admin} -> Chosen]
         /\ chosen'[e].impl = i
         /\ chosen'[e].authorities = chosen[e].authorities \cup {x \in {a} : account[e].version = 1}
         /\ \A d \in Eoa \cup {Admin} : d # e => chosen'[d] = chosen[d]
         /\ UNCHANGED <<factory, stack, signed>>
<1> USE DEF Inv
<1>1. account \in Accounts /\ chosen \in [Eoa \cup {Admin} -> Chosen] /\ chosen[e] \in Chosen
  BY DEF TypeOK, Chosen
<1>2. account[e] \in Storage
  BY <1>1, ExistsFacts DEF Migrate, Exists
<1>3. account[e].owner = e /\ account[e].version > 0
  BY DEF Migrate, SetUpAsSigned
<1>4. PICK s \in entry_migrate(account[e], b, k, o, i, a) :
        account' = [account EXCEPT ![e] = IF i \in Foreign THEN Left ELSE s]
  BY DEF Migrate
<1>5. ~Refused(account[e], b, k, o, i) /\ s = Migrated(account[e], k, o, i, a)
  BY <1>4 DEF entry_migrate
<1>6. b = e /\ i # Zero
  BY <1>3, <1>5 DEF Refused
<1>7. stack = <<>>
  BY <1>6, FactoryAssumption DEF Migrate, Calls
<1>8. i \in Impl /\ (i \notin Foreign => i \in Release)
  BY <1>6 DEF Impl
<1>9. (IF i \in Foreign THEN Left ELSE Migrated(account[e], k, o, i, a)) \in Storage \cup {Absent, Left}
  BY <1>2, <1>8, MigratedFacts DEF Sound
<1>10. /\ account' \in Accounts
       /\ account'[e] = IF i \in Foreign THEN Left ELSE Migrated(account[e], k, o, i, a)
       /\ \A d \in Eoa : d # e => account'[d] = account[d]
  BY <1>1, <1>4, <1>5, <1>9 DEF Accounts
<1> DEFINE au == chosen[e].authorities \cup {x \in {a} : account[e].version = 1}
           c == [impl |-> i, authorities |-> au]
<1>11. c \in Chosen
  BY <1>1, <1>8 DEF Chosen
<1>12. chosen' = [chosen EXCEPT ![e] = c]
  BY <1>6 DEF Migrate
<1>13. UNCHANGED <<factory, stack, signed>>
  BY DEF Migrate
<1>14. c.impl = i /\ c.authorities = au
  OBVIOUS
<1> HIDE DEF c
<1>15. chosen' \in [Eoa \cup {Admin} -> Chosen] /\ chosen'[e] = c
       /\ \A d \in Eoa \cup {Admin} : d # e => chosen'[d] = chosen[d]
  BY <1>1, <1>11, <1>12
<1> QED
  BY <1>2, <1>3, <1>7, <1>8, <1>10, <1>13, <1>14, <1>15 DEF Owned

\* An account is created as its EOA signed, with what the factory runs.
LEMMA FreshFacts ==
  ASSUME Inv, NEW b \in Sender, NEW k \in Key, NEW e \in Eoa, NEW a \in Authority \cup {Zero},
         NEW solves \in BOOLEAN, entry_fresh_backwards(b, k, e, a, solves)
  PROVE  /\ account[e] = Absent /\ <<e, k, a>> \in signed
         /\ account' \in Accounts /\ account'[e] \in Storage
         /\ account'[e].version = 2 /\ account'[e].key = k /\ account'[e].owner = e
         /\ account'[e].authority = a /\ account'[e].impl = chosen[Admin].impl
         /\ \A d \in Eoa : d # e => account'[d] = account[d]
         /\ chosen' \in [Eoa \cup {Admin} -> Chosen]
         /\ chosen'[e].impl = chosen[Admin].impl
         /\ \A d \in Eoa \cup {Admin} : d # e => chosen'[d] = chosen[d]
         /\ UNCHANGED <<factory, signed>> /\ factory \in Storage
<1> USE DEF Inv
<1>1. account \in Accounts /\ chosen \in [Eoa \cup {Admin} -> Chosen]
      /\ factory \in Storage /\ chosen[Admin] \in Chosen
  BY DEF TypeOK, Chosen, entry_fresh_backwards
<1>2. Blank \in Storage /\ Blank.version = 0
  BY DEF Blank, Storage
<1>3. account[e] = Absent /\ <<e, k, a>> \in signed /\ factory.impl # Zero
      /\ UNCHANGED <<factory, signed>>
  BY DEF entry_fresh_backwards, Recovers
<1>4. factory.impl = chosen[Admin].impl /\ factory.impl \in Release
  BY <1>1, <1>3 DEF RunsWhatWasChosen, Storage, entry_fresh_backwards
<1>5. PICK s \in entry_migrate(Blank, Other, k, e, factory.impl, a) :
        account' = [account EXCEPT ![e] = s]
  BY DEF entry_fresh_backwards
<1>6. s = Migrated(Blank, k, e, factory.impl, a)
  BY <1>5 DEF entry_migrate
<1>7. s \in Storage /\ s.version = 2 /\ s.impl = factory.impl
      /\ s.key = k /\ s.owner = e /\ s.authority = a
  <2>1. Sound(Blank, k, e, factory.impl, a, s)
    BY <1>2, <1>4, <1>6, MigratedFacts
  <2> QED BY <1>2, <2>1 DEF Sound
<1>8. account' \in Accounts /\ account'[e] = s /\ \A d \in Eoa : d # e => account'[d] = account[d]
  BY <1>1, <1>5, <1>7 DEF Accounts
<1> DEFINE c == [impl |-> chosen[Admin].impl, authorities |-> {}]
<1>9. c \in Chosen /\ chosen' = [chosen EXCEPT ![e] = c] /\ c.impl = chosen[Admin].impl
  BY <1>1 DEF Chosen, entry_fresh_backwards
<1> HIDE DEF c
<1>10. chosen' \in [Eoa \cup {Admin} -> Chosen] /\ chosen'[e] = c
       /\ \A d \in Eoa \cup {Admin} : d # e => chosen'[d] = chosen[d]
  BY <1>1, <1>9
<1> QED
  BY <1>1, <1>3, <1>4, <1>7, <1>8, <1>9, <1>10

\* No migration of the factory through its proxy succeeds.
LEMMA MigrateFactoryFacts ==
  ASSUME Inv, NEW b, NEW k, NEW o, NEW i, NEW a, MigrateFactory(b, k, o, i, a)
  PROVE  UNCHANGED vars
<1>1. factory.version = 2 /\ factory.owner = Admin
  BY DEF Inv, RunsWhatWasChosen, MigrateFactory
<1>2. Refused(factory, b, k, o, i)
  BY <1>1 DEF MigrateFactory, Refused
<1>3. entry_migrate(factory, b, k, o, i, a) = {}
  BY <1>2 DEF entry_migrate
<1> QED
  BY <1>3 DEF MigrateFactory, vars

\* The admin gives the factory an implementation, outside of any solve.
LEMMA UpgradeFacts ==
  ASSUME Inv, NEW b \in Sender, NEW n \in Impl, NEW data \in Data, upgradeToAndCall(b, n, data)
  PROVE  /\ stack = <<>>
         /\ \/ factory' = Left /\ chosen'[Admin].impl \in Foreign
            \/ /\ factory' \in Storage /\ factory'.owner = Admin /\ factory'.version = 2
               /\ factory'.impl = chosen'[Admin].impl
         /\ chosen' \in [Eoa \cup {Admin} -> Chosen]
         /\ \A e \in Eoa : chosen'[e] = chosen[e]
         /\ factory # Left
         /\ UNCHANGED <<account, stack, signed>>
<1> USE DEF Inv
<1>1. /\ chosen \in [Eoa \cup {Admin} -> Chosen] /\ chosen[Admin] \in Chosen
      /\ factory # Left /\ factory \in Storage
  BY DEF TypeOK, Chosen, upgradeToAndCall
<1>2. stack = <<>> /\ b = Admin /\ UNCHANGED <<account, stack, signed>>
  BY FactoryAssumption DEF upgradeToAndCall, Calls
<1>3. factory.owner = Admin /\ factory.version = 2
  BY <1>1 DEF RunsWhatWasChosen
<1> DEFINE s == [factory EXCEPT !.impl = n]
           migrates == data # <<>> /\ n \in Release
           last == IF migrates THEN data[3] ELSE n
<1>4. PICK t \in IF migrates THEN entry_migrate(s, b, data[1], data[2], data[3], data[4]) ELSE {s} :
        factory' = IF last \in Foreign THEN Left ELSE t
  BY DEF upgradeToAndCall
<1>5. n \in Release => s \in Storage /\ s.impl = n /\ s.owner = Admin /\ s.version = 2
  BY <1>1, <1>3 DEF Storage
<1>6. chosen' = [chosen EXCEPT ![Admin] = [chosen[Admin] EXCEPT !.impl = last]]
  BY DEF upgradeToAndCall
<1>7. data # <<>> => /\ data[1] \in Key \cup {Zero} /\ data[2] \in Eoa \cup {Zero}
                     /\ data[3] \in Impl \cup {Zero} /\ data[4] \in Authority \cup {Zero}
  BY DEF Data
<1> HIDE DEF s
<1>8. migrates => data[3] # Zero /\ t = Migrated(s, data[1], data[2], data[3], data[4])
  BY <1>4 DEF entry_migrate, Refused
<1>9. last \in Impl
  BY <1>7, <1>8
<1>10. ASSUME last \notin Foreign
       PROVE  factory' \in Storage /\ factory'.owner = Admin /\ factory'.version = 2
              /\ factory'.impl = last
  <2>1. last \in Release /\ factory' = t
    BY <1>4, <1>9, <1>10 DEF Impl
  <2>2. CASE migrates
    <3>1. data[3] \in Release /\ last = data[3] /\ n \in Release
      BY <2>1, <2>2
    <3>2. PICK k \in Key \cup {Zero}, o \in Eoa \cup {Zero}, i \in Release, a \in Authority \cup {Zero} :
            k = data[1] /\ o = data[2] /\ i = data[3] /\ a = data[4]
      BY <1>7, <2>2, <3>1
    <3>3. factory' = Migrated(s, k, o, i, a) /\ last = i
      BY <1>8, <2>1, <2>2, <3>1, <3>2
    <3>4. s \in Storage /\ s.owner = Admin /\ s.version > 0
      BY <1>5, <3>1
    <3> HIDE DEF last, migrates
    <3>5. Sound(s, k, o, i, a, factory')
      BY <3>3, <3>4, MigratedFacts, Zenon
    <3> QED BY <3>3, <3>4, <3>5 DEF Sound
  <2>3. CASE ~migrates
    <3>1. last = n /\ t = s
      BY <1>4, <2>3
    <3> HIDE DEF last, migrates
    <3> QED BY <1>5, <2>1, <3>1
  <2> QED BY <2>2, <2>3
<1> DEFINE c == [chosen[Admin] EXCEPT !.impl = last]
<1> HIDE DEF last
<1>11. c \in Chosen /\ c.impl = last
  BY <1>1, <1>9 DEF Chosen
<1> HIDE DEF c
<1>12. chosen' \in [Eoa \cup {Admin} -> Chosen] /\ chosen'[Admin] = c
       /\ \A e \in Eoa : chosen'[e] = chosen[e]
  BY <1>1, <1>6, <1>11, FactoryAssumption DEF c
<1>13. last \in Foreign => factory' = Left
  BY <1>4
<1> QED
  BY <1>1, <1>2, <1>10, <1>11, <1>12, <1>13

\* A solve runs only under a factory that is followed.
LEMMA LeftFacts ==
  ASSUME Inv, factory = Left
  PROVE  stack = <<>>
<1>1. stack \in Seq(Snapshot)
  BY DEF Inv, TypeOK, Snapshot
<1>2. ASSUME stack # <<>> PROVE FALSE
  <2>1. 1 \in 1..Len(stack) /\ stack[1] \in Snapshot
    BY <1>1, <1>2
  <2>2. stack[1].factory = Left
    BY <2>1 DEF Inv, StackInv
  <2> QED BY <2>1, <2>2, FactoryAssumption DEF Snapshot
<1> QED
  BY <1>2

-----------------------------------------------------------------------------
(* The invariant.                                                          *)

LEMMA InvInit == Init => Inv
<1> SUFFICES ASSUME Init PROVE Inv
  OBVIOUS
<1> DEFINE old(e) == [version |-> 1, key |-> LegacyKey, owner |-> e, impl |-> FirstImpl,
                      authority |-> Zero]
<1>1. \A e \in Eoa : old(e) \in Storage /\ old(e).version = 1 /\ old(e).key = LegacyKey
                     /\ old(e).owner = e /\ old(e).impl = FirstImpl /\ old(e).authority = Zero
  BY FactoryAssumption DEF Storage
<1>2. account = [e \in Eoa |-> IF e \in Legacy THEN old(e) ELSE Absent]
  BY DEF Init
<1>3. factory \in Storage /\ factory.owner = Admin /\ factory.version = 2 /\ factory.impl = FirstImpl
  <2>1. factory = [version |-> 2, key |-> FactoryKey, owner |-> Admin, impl |-> FirstImpl,
                   authority |-> Zero]
    BY DEF Init, constructor, Blank
  <2> QED BY <2>1, FactoryAssumption DEF Storage
<1>4. /\ chosen \in [Eoa \cup {Admin} -> Chosen]
      /\ \A e \in Eoa \cup {Admin} : chosen[e].impl = FirstImpl /\ chosen[e].authorities = {}
  BY FactoryAssumption DEF Init, Chosen, Impl
<1> HIDE DEF old
<1>5. account \in Accounts
  BY <1>1, <1>2 DEF Accounts
<1>6. signed \subseteq Eoa \X Key \X (Authority \cup {Zero})
  BY FactoryAssumption DEF Init
<1>7. stack \in Seq([factory : Storage, account : Accounts]) /\ Len(stack) = 0
  BY DEF Init
<1>8. TypeOK
  BY <1>3, <1>4, <1>5, <1>6, <1>7 DEF TypeOK, Chosen
<1>9. SetUpAsSigned
  <2>1. ASSUME NEW e \in Eoa, Exists(e)
        PROVE  /\ account[e].owner = e /\ account[e].version > 0
               /\ \E s \in signed : /\ s[1] = e /\ s[2] = account[e].key
                                    /\ account[e].authority \in {s[3]} \cup chosen[e].authorities
    <3>1. e \in Legacy /\ account[e] = old(e)
      BY <2>1, <1>2 DEF Exists
    <3>2. <<e, LegacyKey, Zero>> \in signed
      BY <3>1 DEF Init
    <3> QED BY <3>1, <3>2, <1>1
  <2> QED BY <2>1 DEF SetUpAsSigned
<1>10. RunsWhatWasChosen
  <2>1. \A e \in Eoa : Exists(e) => account[e].impl = chosen[e].impl
    BY <1>1, <1>2, <1>4 DEF Exists
  <2>2. \A e \in Eoa : account[e] # Left
    BY <1>1, <1>2, FactoryAssumption
  <2> QED BY <2>1, <2>2, <1>3, <1>4, FactoryAssumption DEF RunsWhatWasChosen
<1>11. StackInv
  BY <1>7 DEF StackInv
<1> QED
  BY <1>8, <1>9, <1>10, <1>11 DEF Inv

LEMMA InvSign ==
  ASSUME Inv, NEW e \in Eoa, NEW k \in Key, NEW a \in Authority \cup {Zero}, Sign(e, k, a)
  PROVE  Inv'
<1> USE DEF Inv
<1>1. signed' = signed \cup {<<e, k, a>>} /\ UNCHANGED <<factory, account, stack, chosen>>
  BY DEF Sign
<1>2. TypeOK'
  BY <1>1 DEF TypeOK
<1>3. SetUpAsSigned'
  BY <1>1 DEF SetUpAsSigned, Exists
<1>4. RunsWhatWasChosen' /\ StackInv'
  BY <1>1 DEF RunsWhatWasChosen, Exists, StackInv
<1> QED
  BY <1>2, <1>3, <1>4

LEMMA InvFresh ==
  ASSUME Inv, NEW b \in Sender, NEW k \in Key, NEW e \in Eoa, NEW a \in Authority \cup {Zero},
         NEW solves \in BOOLEAN, entry_fresh_backwards(b, k, e, a, solves)
  PROVE  Inv'
<1> USE DEF Inv
<1>1. /\ account[e] = Absent /\ <<e, k, a>> \in signed
      /\ account' \in Accounts /\ account'[e] \in Storage
      /\ account'[e].version = 2 /\ account'[e].key = k /\ account'[e].owner = e
      /\ account'[e].authority = a /\ account'[e].impl = chosen[Admin].impl
      /\ \A d \in Eoa : d # e => account'[d] = account[d]
      /\ chosen' \in [Eoa \cup {Admin} -> Chosen]
      /\ chosen'[e].impl = chosen[Admin].impl
      /\ \A d \in Eoa \cup {Admin} : d # e => chosen'[d] = chosen[d]
      /\ UNCHANGED <<factory, signed>> /\ factory \in Storage
  BY FreshFacts
<1> DEFINE snap == [factory |-> factory, account |-> account]
<1>2. snap \in Snapshot /\ snap.factory = factory /\ snap.account = account
  BY <1>1 DEF TypeOK, Snapshot
<1>3. stack' = stack \/ stack' = Append(stack, snap)
  BY DEF entry_fresh_backwards
<1>4. PICK n \in Nat : n = Len(stack) /\ stack \in Seq(Snapshot)
  BY DEF TypeOK, Snapshot
<1> HIDE DEF snap
<1>5. stack' \in Seq(Snapshot)
  BY <1>2, <1>3, <1>4
<1>6. TypeOK'
  BY <1>1, <1>5 DEF TypeOK, Chosen, Snapshot
<1>7. SetUpAsSigned'
  <2>1. ASSUME NEW d \in Eoa, Exists(d)'
        PROVE  /\ account'[d].owner = d /\ account'[d].version > 0
               /\ \E s \in signed' : /\ s[1] = d /\ s[2] = account'[d].key
                                     /\ account'[d].authority \in {s[3]} \cup chosen'[d].authorities
    <3>1. CASE d = e
      <4>1. <<e, k, a>> \in signed'
        BY <1>1
      <4> QED BY <3>1, <4>1, <1>1
    <3>2. CASE d # e
      BY <2>1, <3>2, <1>1 DEF SetUpAsSigned, Exists
    <3> QED BY <3>1, <3>2
  <2> QED BY <2>1 DEF SetUpAsSigned
<1>8. RunsWhatWasChosen'
  <2>1. chosen'[Admin] = chosen[Admin]
    BY <1>1, FactoryAssumption
  <2>2. ASSUME NEW d \in Eoa
        PROVE  /\ Exists(d)' => account'[d].impl = chosen'[d].impl
               /\ account'[d] = Left => chosen'[d].impl \in Foreign \/ factory' = Left
    <3>1. CASE d = e
      BY <3>1, <1>1, FactoryAssumption
    <3>2. CASE d # e
      BY <3>2, <1>1 DEF RunsWhatWasChosen, Exists
    <3> QED BY <3>1, <3>2
  <2> QED BY <2>1, <2>2, <1>1 DEF RunsWhatWasChosen
<1>9. Within(account, account')
  BY <1>1 DEF Within
<1>10. \A f : Within(f, account) => Within(f, account')
  BY <1>9 DEF Within
<1>11. StackInv'
  <2>1. CASE stack' = stack
    BY <2>1, <1>1, <1>10 DEF StackInv
  <2>2. CASE stack' = Append(stack, snap)
    <3>1. Len(stack') = n + 1 /\ stack'[n + 1] = snap /\ \A i \in 1..n : stack'[i] = stack[i]
      BY <2>2, <1>2, <1>4
    <3>2. ASSUME NEW i \in 1..(n + 1)
          PROVE  /\ stack'[i].factory = factory'
                 /\ Within(stack'[i].account, account')
                 /\ \A j \in i..(n + 1) : Within(stack'[i].account, stack'[j].account)
      <4>1. CASE i = n + 1
        <5>1. Within(account, account)
          BY DEF Within
        <5>2. \A j \in i..(n + 1) : j = n + 1
          BY <4>1
        <5> QED BY <4>1, <5>1, <5>2, <3>1, <1>1, <1>2, <1>9
      <4>2. CASE i \in 1..n
        <5>1. stack[i].factory = factory /\ Within(stack[i].account, account)
              /\ \A j \in i..n : Within(stack[i].account, stack[j].account)
          BY <4>2, <1>4 DEF StackInv
        <5>2. ASSUME NEW j \in i..(n + 1) PROVE Within(stack'[i].account, stack'[j].account)
          <6>1. CASE j = n + 1
            BY <6>1, <4>2, <5>1, <3>1, <1>2
          <6>2. CASE j # n + 1
            <7>1. j \in i..n /\ j \in 1..n
              BY <6>2, <4>2
            <7> QED BY <7>1, <4>2, <5>1, <3>1
          <6> QED BY <6>1, <6>2
        <5> QED BY <4>2, <5>1, <5>2, <3>1, <1>1, <1>10
      <4> QED BY <4>1, <4>2
    <3> QED BY <3>1, <3>2 DEF StackInv
  <2> QED BY <2>1, <2>2, <1>3
<1> QED
  BY <1>6, <1>7, <1>8, <1>11

\* A solve that ends drops its frame; one that fails takes the accounts away
\* that were created in it.
LEMMA InvPop == ASSUME Inv, SolveReturns \/ SolveReverts PROVE Inv'
<1> USE DEF Inv
<1>1. PICK n \in Nat : n = Len(stack) /\ stack \in Seq(Snapshot)
  BY DEF TypeOK, Snapshot
<1>2. n > 0 /\ stack' = SubSeq(stack, 1, n - 1) /\ UNCHANGED <<signed, chosen>>
  BY <1>1 DEF SolveReturns, SolveReverts
<1>3. /\ stack' \in Seq(Snapshot) /\ Len(stack') = n - 1
      /\ \A i \in 1..(n - 1) : stack'[i] = stack[i]
  BY <1>1, <1>2
<1>4. n \in 1..n /\ stack[n] \in Snapshot
  BY <1>1, <1>2
<1>5. stack[n].factory = factory /\ Within(stack[n].account, account)
  BY <1>1, <1>4 DEF StackInv
<1>6. factory' = factory /\ (account' = account \/ account' = stack[n].account)
  BY <1>1, <1>5 DEF SolveReturns, SolveReverts
<1>7. account' \in Accounts /\ \A e \in Eoa : account'[e] \in {Absent, account[e]}
  BY <1>4, <1>5, <1>6 DEF TypeOK, Within, Snapshot
<1>8. TypeOK'
  BY <1>2, <1>3, <1>6, <1>7 DEF TypeOK, Snapshot
<1>9. SetUpAsSigned'
  BY <1>2, <1>7 DEF SetUpAsSigned, Exists
<1>10. RunsWhatWasChosen'
  <2>1. Absent # Left
    BY FactoryAssumption
  <2> QED BY <2>1, <1>2, <1>6, <1>7 DEF RunsWhatWasChosen, Exists
<1>11. ASSUME NEW i \in 1..(n - 1)
       PROVE  /\ stack'[i].factory = factory'
              /\ Within(stack'[i].account, account')
              /\ \A j \in i..(n - 1) : Within(stack'[i].account, stack'[j].account)
  <2>1. i \in 1..n /\ n \in i..n /\ \A j \in i..(n - 1) : j \in i..n /\ j \in 1..(n - 1)
    BY <1>1
  <2>2. stack[i].factory = factory /\ Within(stack[i].account, account)
        /\ \A j \in i..n : Within(stack[i].account, stack[j].account)
    BY <2>1, <1>1 DEF StackInv
  <2> QED BY <2>1, <2>2, <1>3, <1>6
<1>12. StackInv'
  BY <1>3, <1>11 DEF StackInv
<1> QED
  BY <1>8, <1>9, <1>10, <1>12

LEMMA InvMigrate ==
  ASSUME Inv, NEW b \in Sender, NEW e \in Eoa, NEW k \in Key \cup {Zero},
         NEW o \in Eoa \cup {Zero}, NEW i \in Impl \cup {Zero}, NEW a \in Authority \cup {Zero},
         Migrate(b, e, k, o, i, a)
  PROVE  Inv'
<1> USE DEF Inv
<1>1. /\ stack = <<>> /\ Owned(e, k, o, i, a)
      /\ account' \in Accounts
      /\ \A d \in Eoa : d # e => account'[d] = account[d]
      /\ chosen' \in [Eoa \cup {Admin} -> Chosen]
      /\ chosen'[e].impl = i
      /\ chosen'[e].authorities = chosen[e].authorities \cup {x \in {a} : account[e].version = 1}
      /\ \A d \in Eoa \cup {Admin} : d # e => chosen'[d] = chosen[d]
      /\ UNCHANGED <<factory, stack, signed>>
  BY MigrateFacts
<1>0. /\ account[e] \in Storage /\ account[e].version > 0 /\ i \in Impl
      /\ account'[e] = IF i \in Foreign THEN Left ELSE Migrated(account[e], k, o, i, a)
  BY <1>1 DEF Owned
<1>2. TypeOK'
  BY <1>0, <1>1 DEF TypeOK, Chosen
<1>3. account[e] \notin {Absent, Left}
  BY <1>0, <1>1, FactoryAssumption
<1> DEFINE s == Migrated(account[e], k, o, i, a)
<1>4. i \notin Foreign => /\ s.version = 2 /\ s.impl = i /\ s.key = account[e].key
                          /\ s.owner = account[e].owner /\ s \in Storage
                          /\ s.authority \in {account[e].authority, a}
                          /\ account[e].version # 1 => s.authority = account[e].authority
  <2>1. i \notin Foreign => i \in Release
    BY <1>0, <1>1 DEF Impl
  <2>2. account[e].version \in {1, 2}
    BY <1>0, <1>1 DEF Storage
  <2>3. i \notin Foreign => Sound(account[e], k, o, i, a, s)
    BY <1>0, <1>1, <2>1, MigratedFacts, Zenon
  <2> HIDE DEF s
  <2> QED BY <2>2, <2>3 DEF Sound
<1> HIDE DEF s
<1>5. SetUpAsSigned'
  <2>1. ASSUME NEW d \in Eoa, Exists(d)'
        PROVE  /\ account'[d].owner = d /\ account'[d].version > 0
               /\ \E t \in signed' : /\ t[1] = d /\ t[2] = account'[d].key
                                     /\ account'[d].authority \in {t[3]} \cup chosen'[d].authorities
    <3>1. CASE d = e
      <4>1. i \notin Foreign /\ account'[e] = s
        BY <2>1, <3>1, <1>0, <1>1 DEF Exists, s
      <4>2. PICK t \in signed : /\ t[1] = e /\ t[2] = account[e].key
                                /\ account[e].authority \in {t[3]} \cup chosen[e].authorities
        BY <1>3 DEF SetUpAsSigned, Exists
      <4>3. account[e].owner = e
        BY <1>3 DEF SetUpAsSigned, Exists
      <4>4. s.authority \in {t[3]} \cup chosen'[e].authorities
        <5>1. CASE account[e].version = 1
          <6>1. chosen'[e].authorities = chosen[e].authorities \cup {a}
            BY <1>0, <1>1, <5>1
          <6>2. s.authority \in {account[e].authority, a}
            BY <4>1, <1>4
          <6> QED BY <4>2, <6>1, <6>2
        <5>2. CASE account[e].version # 1
          <6>1. chosen'[e].authorities = chosen[e].authorities
            BY <1>0, <1>1, <5>2
          <6>2. s.authority = account[e].authority
            BY <4>1, <5>2, <1>4
          <6> QED BY <4>2, <6>1, <6>2
        <5> QED BY <5>1, <5>2
      <4> QED BY <3>1, <4>1, <4>2, <4>3, <4>4, <1>0, <1>1, <1>4
    <3>2. CASE d # e
      BY <2>1, <3>2, <1>0, <1>1 DEF SetUpAsSigned, Exists
    <3> QED BY <3>1, <3>2
  <2> QED BY <2>1 DEF SetUpAsSigned
<1>6. RunsWhatWasChosen'
  <2>1. chosen'[Admin] = chosen[Admin]
    BY <1>0, <1>1, FactoryAssumption
  <2>2. ASSUME NEW d \in Eoa
        PROVE  /\ Exists(d)' => account'[d].impl = chosen'[d].impl
               /\ account'[d] = Left => chosen'[d].impl \in Foreign \/ factory' = Left
    <3>1. CASE d = e
      BY <3>1, <1>0, <1>1, <1>4, FactoryAssumption DEF Exists, s
    <3>2. CASE d # e
      BY <3>2, <1>0, <1>1 DEF RunsWhatWasChosen, Exists
    <3> QED BY <3>1, <3>2
  <2> QED BY <2>1, <2>2, <1>0, <1>1 DEF RunsWhatWasChosen
<1>7. StackInv'
  BY <1>0, <1>1 DEF StackInv
<1> QED
  BY <1>2, <1>5, <1>6, <1>7

\* Foreign code in the factory reaches any account, of which nothing is said then.
LEMMA InvForeign ==
  ASSUME Inv, NEW e \in Eoa, MigrateForeign(e)
  PROVE  Inv'
<1> USE DEF Inv
<1>1. factory = Left /\ account' = [account EXCEPT ![e] = Left]
      /\ UNCHANGED <<factory, stack, signed, chosen>>
  BY DEF MigrateForeign
<1>2. account' \in Accounts /\ account'[e] = Left /\ \A d \in Eoa : d # e => account'[d] = account[d]
  BY <1>1 DEF TypeOK, Accounts
<1>3. TypeOK'
  BY <1>1, <1>2 DEF TypeOK
<1>4. \A d \in Eoa : Exists(d)' => Exists(d) /\ account'[d] = account[d]
  BY <1>2 DEF Exists
<1>5. SetUpAsSigned'
  BY <1>1, <1>4 DEF SetUpAsSigned
<1>6. RunsWhatWasChosen'
  BY <1>1, <1>4 DEF RunsWhatWasChosen
<1>7. StackInv'
  BY <1>1, LeftFacts DEF StackInv
<1> QED
  BY <1>3, <1>5, <1>6, <1>7

LEMMA InvUpgrade ==
  ASSUME Inv, NEW b \in Sender, NEW n \in Impl, NEW data \in Data, upgradeToAndCall(b, n, data)
  PROVE  Inv'
<1> USE DEF Inv
<1>1. /\ stack = <<>>
      /\ \/ factory' = Left /\ chosen'[Admin].impl \in Foreign
         \/ /\ factory' \in Storage /\ factory'.owner = Admin /\ factory'.version = 2
            /\ factory'.impl = chosen'[Admin].impl
      /\ chosen' \in [Eoa \cup {Admin} -> Chosen]
      /\ \A e \in Eoa : chosen'[e] = chosen[e]
      /\ factory # Left
      /\ UNCHANGED <<account, stack, signed>>
  BY UpgradeFacts
<1>2. TypeOK'
  BY <1>1 DEF TypeOK, Chosen
<1>3. SetUpAsSigned'
  BY <1>1 DEF SetUpAsSigned, Exists
<1>4. RunsWhatWasChosen'
  BY <1>1, FactoryAssumption DEF RunsWhatWasChosen, Exists
<1>5. StackInv'
  BY <1>1 DEF StackInv
<1> QED
  BY <1>2, <1>3, <1>4, <1>5

\* A step that changes nothing.
LEMMA InvSame == ASSUME Inv, UNCHANGED vars PROVE Inv'
  BY DEF Inv, vars, TypeOK, SetUpAsSigned, RunsWhatWasChosen, StackInv, Exists

LEMMA InvNext == Inv /\ [Next]_vars => Inv'
<1> SUFFICES ASSUME Inv, [Next]_vars PROVE Inv'
  OBVIOUS
<1> QED
  BY InvSign, InvFresh, InvPop, InvMigrate, InvForeign, MigrateFactoryFacts, InvUpgrade, InvSame DEF Next

\* Creations, migrations and upgrades, nested or reverted in any order, keep the
\* inductive invariant.
THEOREM Invariance == Spec => []Inv
  BY InvInit, InvNext, PTL DEF Spec

\* Type correctness: no sequence of creations, migrations and upgrades leads past
\* level 2.
THEOREM TypeCorrect == Spec => []TypeOK
<1>1. Inv => TypeOK
  BY DEF Inv
<1> QED
  BY <1>1, Invariance, PTL

\* Every account belongs to its EOA and has the key and the authority that the
\* EOA signed, or the authority that the EOA took a legacy account to level 2 with.
THEOREM SignedSetUp == Spec => []SetUpAsSigned
<1>1. Inv => SetUpAsSigned
  BY DEF Inv
<1> QED
  BY <1>1, Invariance, PTL

\* Accounts and the factory run what was chosen for them by who may choose, and
\* foreign code may write an account only where its owner chose it for the account
\* or the admin for the factory.
THEOREM ChosenRuns == Spec => []RunsWhatWasChosen
<1>1. Inv => RunsWhatWasChosen
  BY DEF Inv
<1> QED
  BY <1>1, Invariance, PTL

-----------------------------------------------------------------------------
\* An account that a step leaves as it is keeps everything.
LEMMA KeptStep ==
  ASSUME Inv, [Next]_vars, NEW e \in Eoa, Exists(e), Exists(e)'
  PROVE  /\ account'[e].key = account[e].key /\ account'[e].owner = account[e].owner
         /\ account'[e].version >= account[e].version
         /\ account'[e].authority # account[e].authority =>
              account[e].version = 1 /\ account'[e].version = 2
<1> USE DEF Inv
<1>1. account[e] \in Storage /\ account[e].version \in 0..2 /\ account[e] # Absent
  BY ExistsFacts DEF TypeOK, Exists, Storage
<1>2. ASSUME account'[e] = account[e]
      PROVE  /\ account'[e].key = account[e].key /\ account'[e].owner = account[e].owner
             /\ account'[e].version >= account[e].version
             /\ account'[e].authority # account[e].authority =>
                  account[e].version = 1 /\ account'[e].version = 2
  BY <1>1, <1>2
<1>3. ASSUME NEW b \in Sender, NEW k \in Key, NEW d \in Eoa, NEW a \in Authority \cup {Zero},
             NEW solves \in BOOLEAN, entry_fresh_backwards(b, k, d, a, solves)
      PROVE  account'[e] = account[e]
  BY <1>1, <1>3, FreshFacts
<1>4. ASSUME SolveReturns \/ SolveReverts PROVE account'[e] = account[e]
  <2>1. PICK n \in Nat : n = Len(stack) /\ stack \in Seq(Snapshot)
    BY DEF TypeOK, Snapshot
  <2>2. n > 0 /\ (account' = account \/ account' = stack[n].account)
    BY <2>1, <1>4 DEF SolveReturns, SolveReverts
  <2>3. stack[n].account[e] \in {Absent, account[e]}
    BY <2>1, <2>2 DEF StackInv, Within
  <2> QED BY <2>2, <2>3 DEF Exists
<1>5. ASSUME NEW b \in Sender, NEW d \in Eoa, NEW k \in Key \cup {Zero},
             NEW o \in Eoa \cup {Zero}, NEW i \in Impl \cup {Zero}, NEW a \in Authority \cup {Zero},
             Migrate(b, d, k, o, i, a)
      PROVE  /\ account'[e].key = account[e].key /\ account'[e].owner = account[e].owner
             /\ account'[e].version >= account[e].version
             /\ account'[e].authority # account[e].authority =>
                  account[e].version = 1 /\ account'[e].version = 2
  <2>1. CASE d # e
    <3>1. \A x \in Eoa : x # d => account'[x] = account[x]
      BY <1>5, MigrateFacts
    <3> QED BY <2>1, <3>1, <1>2
  <2>2. CASE d = e
    <3>1. /\ account'[e] = IF i \in Foreign THEN Left ELSE Migrated(account[e], k, o, i, a)
          /\ i \in Impl /\ account[e].version > 0
      <4>1. Owned(e, k, o, i, a)
        BY <1>5, <2>2, MigrateFacts
      <4> QED BY <4>1 DEF Owned
    <3>2. i \in Release /\ account'[e] = Migrated(account[e], k, o, i, a)
      BY <3>1 DEF Exists, Impl
    <3>3. Sound(account[e], k, o, i, a, account'[e])
      BY <1>1, <3>2, MigratedFacts, Zenon
    <3> QED BY <1>1, <3>1, <3>3 DEF Sound
  <2> QED BY <2>1, <2>2
<1>6. ASSUME UNCHANGED account PROVE account'[e] = account[e]
  BY <1>6
<1>7. ASSUME NEW d \in Eoa, NEW k \in Key, NEW a \in Authority \cup {Zero}, Sign(d, k, a)
      PROVE  UNCHANGED account
  BY <1>7 DEF Sign
<1>8. ASSUME NEW b, NEW k, NEW o, NEW i, NEW a, MigrateFactory(b, k, o, i, a)
      PROVE  UNCHANGED account
  BY <1>8 DEF MigrateFactory
<1>9. ASSUME NEW b, NEW n, NEW data, upgradeToAndCall(b, n, data)
      PROVE  UNCHANGED account
  BY <1>9 DEF upgradeToAndCall
<1>10. UNCHANGED vars => UNCHANGED account
  BY DEF vars
<1>11. ASSUME NEW d \in Eoa, MigrateForeign(d) PROVE account'[e] = account[e]
  <2>1. account \in Accounts /\ account' = [account EXCEPT ![d] = Left]
    BY <1>11 DEF MigrateForeign, TypeOK
  <2>2. d # e
    BY <2>1 DEF Exists, Accounts
  <2> QED BY <2>1, <2>2 DEF Accounts
<1> QED
  BY <1>2, <1>3, <1>4, <1>5, <1>6, <1>7, <1>8, <1>9, <1>10, <1>11 DEF Next

\* Once set, the key and the owner of an account stay, and its authority changes
\* at most once, at the step of a legacy account to level 2.
THEOREM SetOnce == Spec => KeptOnceSet
<1>1. Inv /\ [Next]_vars =>
        [\A e \in Eoa :
           Exists(e) /\ Exists(e)' =>
             /\ account'[e].key = account[e].key /\ account'[e].owner = account[e].owner
             /\ account'[e].version >= account[e].version
             /\ account'[e].authority # account[e].authority =>
                  account[e].version = 1 /\ account'[e].version = 2]_vars
  BY KeptStep
<1> QED
  BY <1>1, Invariance, PTL DEF Spec, KeptOnceSet
=============================================================================
