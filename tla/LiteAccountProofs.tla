------------------------- MODULE LiteAccountProofs -------------------------
(***************************************************************************)
(* Proofs about LiteAccount, for any accounts, nonces, targets and signed  *)
(* messages and every depth of calls.                                      *)
(***************************************************************************)
EXTENDS LiteAccount, TLAPS

State == [lite : [Address -> Lite \cup {Absent}], done : SUBSET Signed, twice : SUBSET Signed]

\* The nonces of an account stand for its forwarded messages one by one, and an
\* account that does not exist has forwarded nothing.
Accounted(s) ==
  /\ s.twice = {}
  /\ \A a \in Address :
       /\ s.lite[a] # Absent => s.lite[a].used = {m.nonce : m \in {x \in s.done : x.account = a}}
       /\ s.lite[a] = Absent => \A m \in s.done : m.account # a
  /\ \A m, n \in s.done : m.account = n.account /\ m.nonce = n.nonce => m = n

\* The state and all states that a failure restores are accounted for, and
\* none of them has lost what was committed before the transaction.
Inv ==
  /\ st \in State /\ Accounted(st)
  /\ stack \in Seq(State)
  /\ \A i \in 1..Len(stack) : Accounted(stack[i]) /\ stack[1].done \subseteq stack[i].done
  /\ stack # <<>> => stack[1].done \subseteq st.done

-----------------------------------------------------------------------------
(* The steps of the accounts on the state.                                 *)

\* Creating an account gives an empty one or changes nothing.
LEMMA CreateFacts ==
  ASSUME Inv, NEW o \in Owner, NEW k \in Operator, create(o, k)
  PROVE  st' \in State /\ Accounted(st') /\ st'.done = st.done
<1> DEFINE a == <<o, k>>
           f == [st.lite EXCEPT ![a] = Created(a)]
<1>1. a \in Address /\ Fresh \in Lite /\ Fresh.used = {}
  BY DEF Address, Fresh, Lite
<1>2. st.lite \in [Address -> Lite \cup {Absent}] /\ st \in State /\ Accounted(st)
  BY DEF Inv, State
<1>3. Created(a) \in Lite \cup {Absent}
  BY <1>1, <1>2 DEF Created
<1>4. st' = [st EXCEPT !.lite = f]
  BY <1>2 DEF create, State
<1>5. f \in [Address -> Lite \cup {Absent}] /\ f[a] = Created(a)
      /\ \A b \in Address : b # a => f[b] = st.lite[b]
  BY <1>1, <1>2, <1>3
<1>6. /\ st' \in State /\ st'.lite = f /\ st'.done = st.done /\ st'.twice = st.twice
  BY <1>2, <1>4, <1>5 DEF State
<1>7. st.lite[a] = Absent => Created(a) = Fresh /\ Fresh # Absent
  BY <1>1, LiteAssumption DEF Created
<1>8. st.lite[a] # Absent => Created(a) = st.lite[a]
  BY DEF Created
<1> HIDE DEF a, f
<1>9. Accounted(st')
  <2>1. ASSUME NEW b \in Address
        PROVE  /\ f[b] # Absent => f[b].used = {m.nonce : m \in {x \in st.done : x.account = b}}
               /\ f[b] = Absent => \A m \in st.done : m.account # b
    <3>1. CASE b # a \/ st.lite[a] # Absent
      BY <3>1, <1>2, <1>5, <1>8 DEF Accounted
    <3>2. CASE b = a /\ st.lite[a] = Absent
      BY <3>2, <1>1, <1>2, <1>5, <1>7 DEF Accounted
    <3> QED BY <3>1, <3>2
  <2> QED BY <2>1, <1>2, <1>6 DEF Accounted
<1> QED
  BY <1>6, <1>9

\* The switch has nothing to do with the nonces.
LEMMA PrivilegedFacts ==
  ASSUME Inv, NEW a \in Address, NEW word \in 0..1, Privileged(a, word)
  PROVE  st' \in State /\ Accounted(st') /\ st'.done = st.done
<1> DEFINE l == [st.lite[a] EXCEPT !.enabled = word # 0]
           f == [st.lite EXCEPT ![a] = l]
<1>1. st.lite \in [Address -> Lite \cup {Absent}] /\ st \in State /\ Accounted(st)
  BY DEF Inv, State
<1>2. st.lite[a] \in Lite
  BY <1>1 DEF Privileged
<1>3. l \in Lite /\ l.used = st.lite[a].used /\ l # Absent
  BY <1>2, LiteAssumption DEF Lite
<1>4. st' = [st EXCEPT !.lite = f]
  BY <1>1 DEF Privileged, State
<1> HIDE DEF l
<1>5. f \in [Address -> Lite \cup {Absent}] /\ f[a] = l
      /\ \A b \in Address : b # a => f[b] = st.lite[b]
  BY <1>1, <1>3
<1> HIDE DEF f
<1>6. /\ st' \in State /\ st'.lite = f /\ st'.done = st.done /\ st'.twice = st.twice
  BY <1>1, <1>4, <1>5 DEF State
<1>7. st.lite[a] # Absent
  BY DEF Privileged
<1>8. Accounted(st')
  BY <1>1, <1>3, <1>5, <1>6, <1>7 DEF Accounted
<1> QED
  BY <1>6, <1>8

\* A nonce that is not used belongs to no forwarded message, so the message
\* that takes it is new.
LEMMA FallbackFacts ==
  ASSUME Inv, NEW m \in Message, Fallback(m)
  PROVE  st' \in State /\ Accounted(st') /\ st'.done = st.done \cup {m}
<1> DEFINE a == m.account
           l == [st.lite[a] EXCEPT !.used = @ \cup {m.nonce}]
           f == [st.lite EXCEPT ![a] = l]
<1>1. st.lite \in [Address -> Lite \cup {Absent}] /\ st \in State /\ Accounted(st)
  BY DEF Inv, State
<1>2. a \in Address /\ m.nonce \in Nonce /\ m \in Signed
  BY DEF Message, Fallback
<1>3. st.lite[a] \in Lite /\ m.nonce \notin st.lite[a].used /\ st.lite[a] # Absent
  BY <1>1, <1>2 DEF Fallback, Unused
<1>4. l \in Lite /\ l.used = st.lite[a].used \cup {m.nonce} /\ l # Absent
  BY <1>2, <1>3, LiteAssumption DEF Lite
<1>5. st' = [st EXCEPT !.lite = f, !.done = st.done \cup {m},
                       !.twice = st.twice \cup ({m} \cap st.done)]
  BY <1>1 DEF Fallback, State
<1> HIDE DEF l
<1>6. f \in [Address -> Lite \cup {Absent}] /\ f[a] = l
      /\ \A b \in Address : b # a => f[b] = st.lite[b]
  BY <1>1, <1>2, <1>4
<1> HIDE DEF f
<1>7. /\ st' \in State /\ st'.lite = f /\ st'.done = st.done \cup {m}
      /\ st'.twice = st.twice \cup ({m} \cap st.done)
  BY <1>1, <1>2, <1>5, <1>6 DEF State
<1>8. st.lite[a].used = {x.nonce : x \in {y \in st.done : y.account = a}}
  BY <1>1, <1>2, <1>3 DEF Accounted
<1>9. \A x \in st.done : x.account = a => x.nonce # m.nonce
  BY <1>3, <1>8
<1>10. st'.twice = {}
  BY <1>1, <1>7, <1>9 DEF Accounted
<1>11. ASSUME NEW b \in Address
       PROVE  /\ f[b] # Absent => f[b].used = {x.nonce : x \in {y \in st'.done : y.account = b}}
              /\ f[b] = Absent => \A x \in st'.done : x.account # b
  <2>1. CASE b = a
    BY <2>1, <1>4, <1>6, <1>7, <1>8
  <2>2. CASE b # a
    <3>1. {y \in st'.done : y.account = b} = {y \in st.done : y.account = b}
      BY <2>2, <1>7
    <3> QED BY <2>2, <3>1, <1>1, <1>6, <1>7 DEF Accounted
  <2> QED BY <2>1, <2>2
<1>12. \A x, y \in st'.done : x.account = y.account /\ x.nonce = y.nonce => x = y
  BY <1>1, <1>7, <1>9 DEF Accounted
<1> QED
  BY <1>7, <1>10, <1>11, <1>12 DEF Accounted

-----------------------------------------------------------------------------
(* The invariant.                                                          *)

LEMMA InvInit == Init => Inv
<1> SUFFICES ASSUME Init PROVE Inv
  OBVIOUS
<1>1. st \in State
  BY DEF Init, State
<1>2. Accounted(st)
  BY DEF Init, Accounted
<1>3. stack \in Seq(State) /\ stack = <<>> /\ Len(stack) = 0
  BY DEF Init
<1> QED
  BY <1>1, <1>2, <1>3 DEF Inv

LEMMA InvNext == Inv /\ [Next]_vars => Inv'
<1> SUFFICES ASSUME Inv, [Next]_vars PROVE Inv'
  OBVIOUS
<1> USE DEF Inv
<1>1. PICK n \in Nat : n = Len(stack)
  OBVIOUS
<1>2. CASE UNCHANGED vars
  BY <1>2 DEF vars
<1>3. CASE BeginTx
  <2>1. stack' = <<st>> /\ st' = st
    BY <1>3 DEF BeginTx
  <2>2. stack' \in Seq(State) /\ Len(stack') = 1 /\ stack'[1] = st
    BY <2>1
  <2> QED BY <2>1, <2>2
<1>4. CASE Return
  <2>1. st' = st /\ stack' = SubSeq(stack, 1, n - 1) /\ n > 0
    BY <1>1, <1>4 DEF Return, External
  <2>2. /\ stack' \in Seq(State) /\ Len(stack') = n - 1
        /\ \A i \in 1..(n - 1) : stack'[i] = stack[i]
    BY <1>1, <2>1
  <2>3. n > 1 => stack'[1] = stack[1]
    BY <2>2
  <2> QED BY <1>1, <2>1, <2>2, <2>3
<1>5. CASE Revert
  <2>1. st' = stack[n] /\ stack' = SubSeq(stack, 1, n - 1) /\ n > 0
    BY <1>1, <1>5 DEF Revert, External
  <2>2. /\ stack' \in Seq(State) /\ Len(stack') = n - 1
        /\ \A i \in 1..(n - 1) : stack'[i] = stack[i]
    BY <1>1, <2>1
  <2>3. n > 1 => stack'[1] = stack[1]
    BY <2>2
  <2>4. n \in 1..Len(stack) /\ stack[n] \in State
    BY <1>1, <2>1
  <2>5. st' \in State /\ Accounted(st') /\ stack[1].done \subseteq st'.done
    BY <2>1, <2>4
  <2>6. \A i \in 1..Len(stack') : Accounted(stack'[i]) /\ stack'[1].done \subseteq stack'[i].done
    BY <1>1, <2>2, <2>3
  <2> QED BY <2>2, <2>3, <2>5, <2>6
<1>6. ASSUME NEW o \in Owner, NEW k \in Operator, create(o, k) PROVE Inv'
  BY <1>6, CreateFacts DEF create
<1>7. ASSUME NEW a \in Address, NEW word \in 0..1, Privileged(a, word) PROVE Inv'
  BY <1>7, PrivilegedFacts DEF Privileged
<1>8. ASSUME NEW m \in Message, Fallback(m) PROVE Inv'
  <2>1. stack' = Append(stack, st) /\ stack # <<>> /\ n > 0
    BY <1>1, <1>8 DEF Fallback, External
  <2>2. st' \in State /\ Accounted(st') /\ st.done \subseteq st'.done
    BY <1>8, FallbackFacts
  <2>3. /\ stack' \in Seq(State) /\ Len(stack') = n + 1 /\ stack'[n + 1] = st
        /\ \A i \in 1..n : stack'[i] = stack[i]
    BY <1>1, <2>1
  <2>4. stack'[1] = stack[1]
    BY <2>1, <2>3
  <2>5. \A i \in 1..(n + 1) : Accounted(stack'[i]) /\ stack'[1].done \subseteq stack'[i].done
    BY <1>1, <2>1, <2>3, <2>4
  <2> QED BY <2>1, <2>2, <2>3, <2>4, <2>5
<1> QED
  BY <1>2, <1>3, <1>4, <1>5, <1>6, <1>7, <1>8 DEF Next

\* Nonces stand for forwarded messages one by one, in the state and in all that
\* a failure may restore.
THEOREM Invariance == Spec => []Inv
  BY InvInit, InvNext, PTL DEF Spec

\* However calls nest, fail and are caught, and however often an account is
\* created again or switched, no message is forwarded twice.
THEOREM NoReplay == Spec => []ForwardedOnce
<1>1. Inv => ForwardedOnce
  BY DEF Inv, Accounted, ForwardedOnce
<1> QED
  BY <1>1, Invariance, PTL

\* The used nonces of an account are those of the messages that it forwarded
\* and that did not fail.
THEOREM NonceBookkeeping == Spec => []NoncesAccounted
<1>1. Inv => NoncesAccounted
  BY DEF Inv, Accounted, NoncesAccounted
<1> QED
  BY <1>1, Invariance, PTL

-----------------------------------------------------------------------------
(* A lite account implements OneShot.                                      *)

LEMMA RefineInit == Init => Promise!Init
  BY DEF Init, Promise!Init, Committed

\* Only the end of a transaction commits anything: the signed messages that it
\* forwarded and that are not among those committed before.
LEMMA RefineNext == Inv /\ [Next]_vars => [Promise!Next]_Committed
<1> SUFFICES ASSUME Inv, [Next]_vars, Committed' # Committed
             PROVE  Promise!Next
  OBVIOUS
<1>1. PICK n \in Nat : n = Len(stack)
  BY DEF Inv
<1>2. stack \in Seq(State) /\ st \in State
  BY DEF Inv
<1>3. CASE Return /\ n = 1
  <2> DEFINE B == st.done \ stack[1].done
  <2>1. stack # <<>> /\ stack' = <<>> /\ st' = st
    BY <1>1, <1>2, <1>3 DEF Return, External
  <2>2. Committed = stack[1].done /\ Committed' = st.done
    BY <2>1 DEF Committed
  <2>3. stack[1].done \subseteq st.done /\ st.done \subseteq Signed
    BY <1>2, <2>1 DEF Inv, State
  <2>4. B \in SUBSET Signed
    BY <2>3
  <2>5. \A u \in B : EffectsOf(u) \cap Committed = {}
    BY <2>2 DEF EffectsOf
  <2>6. Promise!Executed \subseteq Committed
    BY DEF Promise!Executed, EffectsOf
  <2>7. \A u \in B, v \in B \cup Promise!Executed : u # v => NoncesOf(u) \cap NoncesOf(v) = {}
    <3>1. \A u, v \in st.done : u.account = v.account /\ u.nonce = v.nonce => u = v
      BY DEF Inv, Accounted
    <3> QED BY <3>1, <2>2, <2>3, <2>6 DEF NoncesOf
  <2>8. Committed' = Committed \cup UNION {EffectsOf(u) : u \in B}
    BY <2>2, <2>3 DEF EffectsOf
  <2>9. Promise!Commit(B)
    BY <2>5, <2>7, <2>8 DEF Promise!Commit
  <2> QED BY <2>4, <2>9 DEF Promise!Next
<1>4. CASE (Return \/ Revert) /\ n > 1
  <2>1. stack' = SubSeq(stack, 1, n - 1) /\ stack # <<>>
    BY <1>1, <1>4 DEF Return, Revert, External
  <2>2. Len(stack') = n - 1 /\ stack'[1] = stack[1]
    BY <1>1, <1>2, <1>4, <2>1
  <2>3. stack' # <<>>
    BY <1>4, <2>2
  <2> QED BY <2>1, <2>2, <2>3 DEF Committed
<1>5. CASE Revert /\ n = 1
  <2>1. stack' = <<>> /\ st' = stack[1] /\ stack # <<>>
    BY <1>1, <1>2, <1>5 DEF Revert, External
  <2> QED BY <2>1 DEF Committed
<1>6. CASE BeginTx
  BY <1>6 DEF BeginTx, Committed
<1>7. ASSUME NEW o \in Owner, NEW k \in Operator, create(o, k) PROVE FALSE
  BY <1>7 DEF create, External, Committed
<1>8. ASSUME NEW a \in Address, NEW word \in 0..1, Privileged(a, word) PROVE FALSE
  BY <1>8 DEF Privileged, External, Committed
<1>9. ASSUME NEW m \in Message, Fallback(m) PROVE FALSE
  <2>1. stack # <<>> /\ stack' = Append(stack, st)
    BY <1>9 DEF Fallback, External
  <2>2. stack' # <<>> /\ stack'[1] = stack[1]
    BY <1>2, <2>1
  <2> QED BY <2>1, <2>2 DEF Committed
<1>10. CASE UNCHANGED vars
  BY <1>10 DEF vars, Committed
<1>11. Return \/ Revert => n = 1 \/ n > 1
  BY <1>1, <1>2 DEF Return, Revert, External
<1> QED
  BY <1>3, <1>4, <1>5, <1>6, <1>7, <1>8, <1>9, <1>10, <1>11 DEF Next

\* Refinement: the transactions of lite accounts commit whole signed messages,
\* never two that share an account and a nonce, and undo none.
THEOREM Refinement == Spec => KeepsPromise
  BY Invariance, RefineInit, RefineNext, PTL DEF Spec, KeepsPromise, Promise!Spec
=============================================================================
