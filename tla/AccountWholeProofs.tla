------------------------- MODULE AccountWholeProofs -------------------------
(***************************************************************************)
(* Proofs about Account: envelopes take effect as wholes, the account      *)
(* implements OneShot, allowances are vetted, and the tokens' ledgers add  *)
(* up.                                                                     *)
(***************************************************************************)
EXTENDS AccountProofs, AccountLedger, FiniteSetTheorems

-----------------------------------------------------------------------------
(* What an envelope asks for.                                              *)

\* An effect that a solve asks for: the gas payment of a SolveV3, or the call or
\* a pull of one of the elements.
SolveEffect(u, e) ==
  \/ /\ u \in SignedSolveV3 /\ e = EffectOf([unit |-> u, idx |-> 0], "gas", 0)
  \/ \E i \in 1..Len(u.args) :
       \/ e = EffectOf([unit |-> u, idx |-> i], "call", 0)
       \/ \E n \in 1..Len(u.args[i].from) : e = EffectOf([unit |-> u, idx |-> i], "pull", n)

LEMMA SolveEffects ==
  ASSUME NEW u \in SolveUnit
  PROVE  \A e : e \in EffectsOf(u) <=> SolveEffect(u, e)
<1>1. \/ u \in SolveArgsSigArgs
      \/ u \in SolveV2Args
      \/ u \in SolveV3Args
  BY SignedAssumption DEF SolveUnit
<1>2. u.kind \in {"v1", "v2", "v3"} /\ (u.kind = "v3" <=> u \in SignedSolveV3)
  BY SignedAssumption DEF SolveUnit, SolveArgsSigArgs, SolveV2Args, SolveV3Args
<1>3. u.args \in Seq(SolveArgs) /\ DOMAIN u.args = 1..Len(u.args)
  BY <1>1 DEF SolveArgsSigArgs, SolveV2Args, SolveV3Args
<1>4. \A i \in 1..Len(u.args) : DOMAIN u.args[i].from = 1..Len(u.args[i].from)
  <2>1. \A i \in 1..Len(u.args) : u.args[i] \in SolveArgs
    BY <1>3
  <2>2. \A x \in SolveArgs : x.from \in Seq(FromArgs)
    BY DEF SolveArgs
  <2>3. \A z \in Seq(FromArgs) : DOMAIN z = 1..Len(z)
    OBVIOUS
  <2> QED BY <2>1, <2>2, <2>3
<1>5. u.kind # "statement" /\ u.kind # "transfer"
  BY <1>2
<1>6. EffectsOf(u) = EffectsOfGas(u) \cup UNION {EffectsOfElement(u, i) : i \in DOMAIN u.args}
  BY <1>5 DEF EffectsOf
<1> SUFFICES ASSUME NEW e PROVE e \in EffectsOf(u) <=> SolveEffect(u, e)
  OBVIOUS
<1>7. e \in EffectsOfGas(u) <=> u \in SignedSolveV3 /\ e = EffectOf([unit |-> u, idx |-> 0], "gas", 0)
  BY <1>2 DEF EffectsOfGas
<1> DEFINE here(i) == \/ e = EffectOf([unit |-> u, idx |-> i], "call", 0)
                      \/ \E n \in 1..Len(u.args[i].from) : e = EffectOf([unit |-> u, idx |-> i], "pull", n)
<1>8. \A i \in DOMAIN u.args : e \in EffectsOfElement(u, i) <=> here(i)
  BY <1>3, <1>4 DEF EffectsOfElement
<1>9. e \in EffectsOf(u) <=> e \in EffectsOfGas(u) \/ \E i \in DOMAIN u.args : here(i)
  <2> HIDE DEF here
  <2> QED BY <1>6, <1>8
<1> QED
  BY <1>3, <1>7, <1>9 DEF SolveEffect

LEMMA TransferEffects ==
  ASSUME NEW u \in SignedTransferOnly
  PROVE  \A e : e \in EffectsOf(u) <=>
                \E n \in 1..Len(u.args) : e = EffectOf([unit |-> u, idx |-> 1], "move", n)
<1>1. u.kind = "transfer" /\ u.args \in Seq(Transfer)
  BY SignedAssumption DEF TransferOnlyArgs
<1>2. DOMAIN u.args = 1..Len(u.args) /\ u.kind # "statement"
  BY <1>1
<1>3. EffectsOf(u) = {EffectOf([unit |-> u, idx |-> 1], "move", n) : n \in DOMAIN u.args}
  BY <1>1, <1>2 DEF EffectsOf
<1> QED
  BY <1>2, <1>3

LEMMA StatementEffects ==
  ASSUME NEW u \in SignedStatement
  PROVE  EffectsOf(u) = {EffectOf([unit |-> u, idx |-> 1], "statement", 0)}
<1>1. u.kind = "statement"
  BY SignedAssumption DEF StatementArgs
<1> QED
  BY <1>1 DEF EffectsOf

\* What an envelope asks for is a step of that envelope.
LEMMA EffectsAreSteps ==
  ASSUME NEW u \in Unit, NEW e \in EffectsOf(u)
  PROVE  e.step.unit = u
<1>1. CASE u \in SolveUnit
  <2>1. SolveEffect(u, e)
    BY <1>1, SolveEffects
  <2> QED BY <2>1 DEF SolveEffect, EffectOf
<1>2. CASE u \in SignedTransferOnly
  <2>1. PICK n \in 1..Len(u.args) : e = EffectOf([unit |-> u, idx |-> 1], "move", n)
    BY <1>2, TransferEffects
  <2> QED BY <2>1 DEF EffectOf
<1>3. CASE u \in SignedStatement
  BY <1>3, StatementEffects DEF EffectOf
<1> QED
  BY <1>1, <1>2, <1>3 DEF Unit, SolveUnit

\* The effects of an element are its call and its pulls, those of a gas payment
\* that payment.
LEMMA ElementEffects ==
  ASSUME NEW s, SolveStep(s), NEW e \in EffectsOf(s.unit), e.step = s
  PROVE  \/ e = EffectOf(s, "call", 0)
         \/ \E n \in 1..Len(Item(s).from) : e = EffectOf(s, "pull", n)
<1>1. s.unit \in SolveUnit /\ s = [unit |-> s.unit, idx |-> s.idx] /\ s.idx # 0
  BY DEF SolveStep, Step
<1>2. SolveEffect(s.unit, e)
  BY <1>1, SolveEffects
<1>3. e # EffectOf([unit |-> s.unit, idx |-> 0], "gas", 0)
  BY <1>1 DEF EffectOf
<1>4. PICK i \in 1..Len(s.unit.args) :
        \/ e = EffectOf([unit |-> s.unit, idx |-> i], "call", 0)
        \/ \E n \in 1..Len(s.unit.args[i].from) : e = EffectOf([unit |-> s.unit, idx |-> i], "pull", n)
  BY <1>2, <1>3 DEF SolveEffect
<1>5. s.idx = i
  BY <1>1, <1>4 DEF EffectOf
<1> QED
  BY <1>1, <1>4, <1>5 DEF Item

LEMMA GasEffects ==
  ASSUME NEW s, GasStep(s), NEW e \in EffectsOf(s.unit), e.step = s
  PROVE  e = EffectOf(s, "gas", 0)
<1>1. s.unit \in SolveUnit /\ s = [unit |-> s.unit, idx |-> s.idx] /\ s.idx = 0
  BY DEF GasStep, Step, SolveUnit
<1>2. SolveEffect(s.unit, e)
  BY <1>1, SolveEffects
<1>3. \A i \in 1..Len(s.unit.args) : [unit |-> s.unit, idx |-> i] # s
  BY <1>1
<1> QED
  BY <1>1, <1>2, <1>3 DEF SolveEffect, EffectOf

\* What the steps record is asked for.
LEMMA AskedFor ==
  /\ \A s : GasStep(s) => EffectOf(s, "gas", 0) \in EffectsOf(s.unit)
  /\ \A s : SolveStep(s) => EffectOf(s, "call", 0) \in EffectsOf(s.unit)
  /\ \A s : SolveStep(s) => \A n \in 1..Len(Item(s).from) :
                              EffectOf(s, "pull", n) \in EffectsOf(s.unit)
<1>1. ASSUME NEW s, GasStep(s) PROVE EffectOf(s, "gas", 0) \in EffectsOf(s.unit)
  <2>1. s.unit \in SolveUnit /\ s.unit \in SignedSolveV3 /\ s = [unit |-> s.unit, idx |-> 0]
    BY <1>1 DEF GasStep, Step, SolveUnit
  <2>2. SolveEffect(s.unit, EffectOf(s, "gas", 0))
    BY <2>1 DEF SolveEffect
  <2> QED BY <2>1, <2>2, SolveEffects
<1>2. ASSUME NEW s, SolveStep(s)
      PROVE  /\ EffectOf(s, "call", 0) \in EffectsOf(s.unit)
             /\ \A n \in 1..Len(Item(s).from) : EffectOf(s, "pull", n) \in EffectsOf(s.unit)
  <2>1. s.unit \in SolveUnit /\ s = [unit |-> s.unit, idx |-> s.idx] /\ s.idx \in 1..Len(s.unit.args)
    BY <1>2 DEF SolveStep, Step
  <2>2. SolveEffect(s.unit, EffectOf(s, "call", 0))
    BY <2>1 DEF SolveEffect
  <2>3. \A n \in 1..Len(Item(s).from) : SolveEffect(s.unit, EffectOf(s, "pull", n))
    BY <2>1 DEF SolveEffect, Item
  <2> QED BY <2>1, <2>2, <2>3, SolveEffects
<1> QED
  BY <1>1, <1>2

-----------------------------------------------------------------------------
(* Whole under the moves of the stack.                                     *)

\* Frames that have the same left to do.
Alike(f, g) == (\A u \in Unit : Opens(f, u) <=> Opens(g, u)) /\ \A e : Due(f, e) <=> Due(g, e)

\* From s to t, the frame f goes on as g: it makes effects that its envelopes ask
\* for, and of what it had to do it lacks no more.
Performs(f, g, s, t) ==
  /\ s.done \subseteq t.done
  /\ \A e \in t.done : e \in s.done \/ (Opens(f, e.step.unit) /\ e \in EffectsOf(e.step.unit))
  /\ \A u \in Unit : Opens(g, u) => Opens(f, u)
  /\ \A u \in Unit : Opens(f, u) =>
       \A e \in EffectsOf(u) : Due(f, e) => Due(g, e) \/ e \in t.done

\* The frame g has all of its envelopes still to do.
Untouched(g) == \A u \in Unit : Opens(g, u) => \A e \in EffectsOf(u) : Due(g, e)

Idle(f) == \A e : ~Due(f, e)

\* Whole is about the effects and about what the frames have left to do.
LEMMA WholeAlike ==
  ASSUME NEW s, NEW t, NEW fs, NEW gs, NEW n \in Nat, Whole(s, fs, n), t.done = s.done,
         \A m \in 1..n : fs[m] = gs[m] \/ Alike(fs[m], gs[m])
  PROVE  Whole(t, gs, n)
<1>1. \A m \in 1..n : Alike(fs[m], gs[m])
  BY DEF Alike
<1> QED
  BY <1>1 DEF Whole, Alike

\* The top frame makes effects that its envelopes ask for, and lacks no others.
LEMMA WholeTop ==
  ASSUME NEW s \in State, NEW t \in State, NEW fs, NEW gs, NEW n \in Nat, n > 0,
         Whole(s, fs, n), Performs(fs[n], gs[n], s, t),
         \A m \in 1..(n - 1) : gs[m] = fs[m]
  PROVE  Whole(t, gs, n)
<1> USE DEF Performs
<1>1. \A e \in t.done : e \in EffectsOf(e.step.unit)
  BY DEF Whole
<1>2. ASSUME NEW u \in Unit,
             \/ \E e \in t.done : e.step.unit = u
             \/ \E m \in 1..n : Opens(gs[m], u),
             NEW e \in EffectsOf(u)
      PROVE  e \in t.done \/ \E m \in 1..n : Due(gs[m], e)
  <2>1. \/ \E d \in s.done : d.step.unit = u
        \/ \E m \in 1..n : Opens(fs[m], u)
    <3>1. n \in 1..n /\ \A m \in 1..n : m = n \/ m \in 1..(n - 1)
      OBVIOUS
    <3> QED BY <1>2, <3>1
  <2>2. e \in s.done \/ \E m \in 1..n : Due(fs[m], e)
    BY <2>1 DEF Whole
  <2>3. CASE e \in s.done
    BY <2>3
  <2>4. ASSUME NEW m \in 1..(n - 1), Due(fs[m], e) PROVE \E k \in 1..n : Due(gs[k], e)
    BY <2>4
  <2>5. CASE Due(fs[n], e)
    <3>1. PICK i \in 1..Len(fs[n].todo) : fs[n].kind # "ext" /\ e.step = fs[n].todo[i]
      BY <2>5 DEF Due
    <3>2. e.step.unit = u
      BY EffectsAreSteps
    <3>3. Opens(fs[n], u)
      BY <3>1, <3>2 DEF Opens
    <3>4. Due(gs[n], e) \/ e \in t.done
      BY <2>5, <3>3
    <3>5. n \in 1..n
      OBVIOUS
    <3> QED BY <3>4, <3>5
  <2>6. \A m \in 1..n : m = n \/ m \in 1..(n - 1)
    OBVIOUS
  <2> QED BY <2>2, <2>3, <2>4, <2>5, <2>6
<1> QED
  BY <1>1, <1>2 DEF Whole

\* A frame that has all of its envelopes still to do may be pushed.
LEMMA WholePush ==
  ASSUME NEW s, NEW t, NEW fs, NEW gs, NEW n \in Nat, Whole(s, fs, n), t.done = s.done,
         \A m \in 1..n : gs[m] = fs[m], Untouched(gs[n + 1])
  PROVE  Whole(t, gs, n + 1)
<1>1. n + 1 \in 1..(n + 1) /\ (\A m \in 1..n : m \in 1..(n + 1))
      /\ \A m \in 1..(n + 1) : m = n + 1 \/ m \in 1..n
  OBVIOUS
<1> QED
  BY <1>1 DEF Whole, Untouched

\* A frame with nothing left to do may be popped.
LEMMA WholePop ==
  ASSUME NEW s, NEW t, NEW fs, NEW gs, NEW n \in Nat, n > 0, Whole(s, fs, n), t.done = s.done,
         \A m \in 1..(n - 1) : gs[m] = fs[m] \/ Alike(fs[m], gs[m]),
         Idle(fs[n])
  PROVE  Whole(t, gs, n - 1)
<1>1. Whole(s, fs, n - 1)
  <2>1. (\A m \in 1..n : m = n \/ m \in 1..(n - 1)) /\ \A m \in 1..(n - 1) : m \in 1..n
    OBVIOUS
  <2> QED BY <2>1 DEF Whole, Idle
<1>2. n - 1 \in Nat
  OBVIOUS
<1> QED
  BY <1>1, <1>2, WholeAlike

-----------------------------------------------------------------------------
(* WholeInv under the moves of the stack.                                  *)

\* The states that the frames restore stay as they are, and so do the frames
\* underneath each of them.
LEMMA SnapsKept ==
  ASSUME WholeInv, NEW n \in Nat, n <= Len(stack), NEW gs, st.done \subseteq st'.done,
         \A k \in 1..n : gs[k].snap = stack[k].snap,
         \A k \in 1..(n - 1) : gs[k] = stack[k]
  PROVE  \A k \in 1..n : /\ Whole(gs[k].snap, gs, k - 1)
                         /\ gs[1].snap.done \subseteq gs[k].snap.done
                         /\ gs[1].snap.done \subseteq st'.done
<1> SUFFICES ASSUME NEW k \in 1..n
             PROVE  /\ Whole(gs[k].snap, gs, k - 1)
                    /\ gs[1].snap.done \subseteq gs[k].snap.done
                    /\ gs[1].snap.done \subseteq st'.done
  OBVIOUS
<1>1. k \in 1..Len(stack) /\ 1 \in 1..n /\ k - 1 \in Nat /\ \A m \in 1..(k - 1) : m \in 1..(n - 1)
  BY DEF WholeInv, TypeInv, TypeOK
<1>2. /\ Whole(stack[k].snap, stack, k - 1)
      /\ stack[1].snap.done \subseteq stack[k].snap.done
      /\ stack[1].snap.done \subseteq st.done
  BY <1>1 DEF WholeInv
<1>3. Whole(gs[k].snap, gs, k - 1)
  BY <1>1, <1>2, WholeAlike
<1> QED
  BY <1>1, <1>2, <1>3

\* A step of external code, or one that only the ledger notices.
LEMMA WholeQuiet ==
  ASSUME WholeInv, TypeInv', stack' = stack, st.done \subseteq st'.done,
         \A e \in st'.done : e \in st.done \/ (e \in EffectsOf(e.step.unit)
                                               /\ EffectsOf(e.step.unit) \subseteq st'.done)
  PROVE  WholeInv'
<1>1. PICK n \in Nat : n = Len(stack)
  BY DEF WholeInv, TypeInv, TypeOK
<1>2. \A k \in 1..n : /\ Whole(stack[k].snap, stack, k - 1)
                      /\ stack[1].snap.done \subseteq stack[k].snap.done
                      /\ stack[1].snap.done \subseteq st'.done
  <2>1. /\ n <= Len(stack) /\ st.done \subseteq st'.done
        /\ \A k \in 1..n : stack[k].snap = stack[k].snap
        /\ \A k \in 1..(n - 1) : stack[k] = stack[k]
    BY <1>1
  <2> QED BY <2>1, SnapsKept, Zenon
<1>3. Whole(st', stack, n)
  BY <1>1 DEF WholeInv, Whole
<1> QED
  BY <1>1, <1>2, <1>3 DEF WholeInv

\* The account's call on top goes on as f.
LEMMA WholeContinues ==
  ASSUME WholeInv, TypeInv', Len(stack) > 0, NEW f, Continues(f), Performs(Top, f, st, st')
  PROVE  WholeInv'
<1>1. PICK n \in Nat : n = Len(stack)
  BY DEF WholeInv, TypeInv, TypeOK
<1>2. stack \in Seq(Frame) /\ f \in Frame /\ f.snap = stack[n].snap /\ n > 0 /\ Top = stack[n]
      /\ st \in State /\ st' \in State
  BY <1>1 DEF WholeInv, TypeInv, TypeOK, Continues, Top
<1>3. Len(stack') = n /\ (\A k \in 1..(n - 1) : stack'[k] = stack[k]) /\ stack'[n] = f
  <2>1. stack' = Append(SubSeq(stack, 1, n - 1), f)
    BY <1>1 DEF Continues, Below
  <2> QED BY <1>1, <1>2, <2>1, SetTopFacts
<1>4. \A k \in 1..n : stack'[k].snap = stack[k].snap
  <2>1. \A k \in 1..n : k = n \/ k \in 1..(n - 1)
    OBVIOUS
  <2> QED BY <2>1, <1>2, <1>3
<1>5. \A k \in 1..n : /\ Whole(stack'[k].snap, stack', k - 1)
                      /\ stack'[1].snap.done \subseteq stack'[k].snap.done
                      /\ stack'[1].snap.done \subseteq st'.done
  <2>1. st.done \subseteq st'.done
    BY DEF Performs
  <2>2. n \in Nat /\ n <= Len(stack)
    BY <1>1
  <2>3. \A k \in 1..(n - 1) : stack'[k] = stack[k]
    BY <1>3
  <2> QED BY <1>4, <2>1, <2>2, <2>3, SnapsKept, Zenon
<1>6. Whole(st', stack', n)
  <2>1. Whole(st, stack, n)
    BY <1>1 DEF WholeInv
  <2> QED BY <2>1, <1>2, <1>3, WholeTop
<1> QED
  BY <1>3, <1>5, <1>6 DEF WholeInv

\* A frame is pushed that restores the present state, and has all of its
\* envelopes still to do.
LEMMA WholeEnter ==
  ASSUME WholeInv, TypeInv', NEW g, Pushes(g), g.snap = st, st'.done = st.done,
         Untouched(g)
  PROVE  WholeInv'
<1>1. PICK n \in Nat : n = Len(stack) /\ stack \in Seq(Frame)
  BY DEF WholeInv, TypeInv, TypeOK
<1>2. Len(stack') = n + 1 /\ (\A k \in 1..n : stack'[k] = stack[k]) /\ stack'[n + 1] = g
  BY <1>1 DEF Pushes
<1>3. \A k \in 1..n : /\ Whole(stack'[k].snap, stack', k - 1)
                      /\ stack'[1].snap.done \subseteq stack'[k].snap.done
                      /\ stack'[1].snap.done \subseteq st'.done
  <2>1. /\ n <= Len(stack) /\ st.done \subseteq st'.done
        /\ \A k \in 1..n : stack'[k].snap = stack[k].snap
        /\ \A k \in 1..(n - 1) : stack'[k] = stack[k]
    BY <1>1, <1>2
  <2> QED BY <2>1, SnapsKept, Zenon
<1>4. Whole(st, stack, n)
  BY <1>1 DEF WholeInv
<1>5. Whole(stack'[n + 1].snap, stack', n)
  BY <1>2, <1>4, WholeAlike
<1>6. Whole(st', stack', n + 1)
  BY <1>2, <1>4, WholePush
<1>7. stack'[1].snap.done \subseteq st.done
  <2>1. CASE n = 0
    BY <2>1, <1>2
  <2>2. CASE n > 0
    BY <2>2, <1>3
  <2> QED BY <2>1, <2>2
<1>8. ASSUME NEW k \in 1..(n + 1)
      PROVE  /\ Whole(stack'[k].snap, stack', k - 1)
             /\ stack'[1].snap.done \subseteq stack'[k].snap.done
             /\ stack'[1].snap.done \subseteq st'.done
  <2>1. CASE k = n + 1
    BY <2>1, <1>2, <1>5, <1>7
  <2>2. CASE k \in 1..n
    BY <2>2, <1>3
  <2> QED BY <2>1, <2>2
<1> QED
  BY <1>2, <1>6, <1>8 DEF WholeInv

\* The top frame, which has nothing left to do, is popped.
LEMMA WholeLeave ==
  ASSUME WholeInv, TypeInv', Len(stack) > 0, st'.done = st.done, Idle(Top),
         Len(stack') = Len(stack) - 1,
         \A k \in 1..(Len(stack) - 1) :
           stack'[k].snap = stack[k].snap /\ Alike(stack[k], stack'[k]),
         \A k \in 1..(Len(stack) - 2) : stack'[k] = stack[k]
  PROVE  WholeInv'
<1>1. PICK n \in Nat : n = Len(stack) /\ n > 0
  BY DEF WholeInv, TypeInv, TypeOK
<1>2. \A k \in 1..(n - 1) : /\ Whole(stack'[k].snap, stack', k - 1)
                            /\ stack'[1].snap.done \subseteq stack'[k].snap.done
                            /\ stack'[1].snap.done \subseteq st'.done
  <2>1. n - 1 \in Nat /\ n - 1 <= Len(stack) /\ (n - 1) - 1 = Len(stack) - 2
    BY <1>1
  <2>2. /\ st.done \subseteq st'.done
        /\ \A k \in 1..(n - 1) : stack'[k].snap = stack[k].snap
        /\ \A k \in 1..((n - 1) - 1) : stack'[k] = stack[k]
    BY <1>1, <2>1
  <2> QED BY <2>1, <2>2, SnapsKept, Zenon
<1>3. Whole(st', stack', n - 1)
  <2>1. Whole(st, stack, n) /\ Top = stack[n]
    BY <1>1 DEF WholeInv, Top
  <2> QED BY <1>1, <2>1, WholePop
<1> QED
  BY <1>1, <1>2, <1>3 DEF WholeInv

-----------------------------------------------------------------------------
(* What the account's steps have left to do.                               *)

\* The work list shrinks by its first step.
LEMMA TailFacts ==
  ASSUME NEW todo \in Seq(Step), todo # <<>>
  PROVE  /\ \A i \in 1..Len(Tail(todo)) : i + 1 \in 1..Len(todo) /\ Tail(todo)[i] = todo[i + 1]
         /\ \A i \in 1..Len(todo) : i > 1 => i - 1 \in 1..Len(Tail(todo)) /\ todo[i] = Tail(todo)[i - 1]
         /\ 1 \in 1..Len(todo)
  OBVIOUS

\* One effect more, or none.
LEMMA PerformsOne ==
  ASSUME NEW f, NEW g, NEW s, NEW t, NEW d, t.done = s.done \cup {d},
         Opens(f, d.step.unit), d \in EffectsOf(d.step.unit),
         \A u \in Unit : Opens(g, u) => Opens(f, u),
         \A u \in Unit : \A e \in EffectsOf(u) : Due(f, e) => Due(g, e) \/ e = d
  PROVE  Performs(f, g, s, t)
<1>1. s.done \subseteq t.done /\ d \in t.done /\ \A e \in t.done : e \in s.done \/ e = d
  OBVIOUS
<1>2. \A e \in t.done : e \in s.done \/ (Opens(f, e.step.unit) /\ e \in EffectsOf(e.step.unit))
  BY <1>1
<1>3. \A u \in Unit : Opens(f, u) =>
       \A e \in EffectsOf(u) : Due(f, e) => Due(g, e) \/ e \in t.done
  BY <1>1
<1> QED
  BY <1>1, <1>2, <1>3 DEF Performs

LEMMA PerformsNone ==
  ASSUME NEW f, NEW g, NEW s, NEW t, t.done = s.done,
         \A u \in Unit : Opens(g, u) => Opens(f, u),
         \A u \in Unit : \A e \in EffectsOf(u) : Due(f, e) => Due(g, e)
  PROVE  Performs(f, g, s, t)
  BY DEF Performs

LEMMA PerformsPayGas ==
  ASSUME NEW f, NEW g, NEW s, NEW t, f.kind # "ext", g.kind = f.kind, f.todo \in Seq(Step),
         f.todo # <<>>, f.phase = "next", g.phase = "next", g.todo = Tail(f.todo),
         GasStep(f.todo[1]), t.done = s.done \cup {EffectOf(f.todo[1], "gas", 0)}
  PROVE  Performs(f, g, s, t)
<1> DEFINE x == f.todo[1]
           d == EffectOf(x, "gas", 0)
<1>1. Opens(f, d.step.unit) /\ d \in EffectsOf(d.step.unit)
  BY TailFacts, AskedFor DEF Opens, EffectOf
<1>2. \A u \in Unit : Opens(g, u) => Opens(f, u)
  BY TailFacts DEF Opens
<1>3. ASSUME NEW u \in Unit, NEW e \in EffectsOf(u), Due(f, e) PROVE Due(g, e) \/ e = d
  <2>1. PICK i \in 1..Len(f.todo) : e.step = f.todo[i]
    BY <1>3 DEF Due
  <2>2. CASE i > 1
    BY <2>1, <2>2, TailFacts, SMTT(30) DEF Due
  <2>3. CASE i = 1
    <3>1. e \in EffectsOf(x.unit)
      BY <2>1, <2>3, EffectsAreSteps
    <3> QED BY <2>1, <2>3, <3>1, GasEffects
  <2> QED BY <2>2, <2>3
<1> QED
  BY <1>1, <1>2, <1>3, PerformsOne

LEMMA PerformsBeginItem ==
  ASSUME NEW f, NEW g, NEW s, NEW t, f.kind # "ext", g.kind = f.kind, f.todo \in Seq(Step),
         f.todo # <<>>, f.phase = "next", g.phase = "pull", g.j = 1, g.todo = f.todo,
         SolveStep(f.todo[1]), t.done = s.done
  PROVE  Performs(f, g, s, t)
<1>1. \A u \in Unit : Opens(g, u) => Opens(f, u)
  BY DEF Opens
<1>2. ASSUME NEW u \in Unit, NEW e \in EffectsOf(u), Due(f, e) PROVE Due(g, e)
  <2>1. PICK i \in 1..Len(f.todo) : e.step = f.todo[i]
    BY <1>2 DEF Due
  <2>2. CASE i > 1
    BY <2>1, <2>2 DEF Due
  <2>3. CASE i = 1
    <3>1. e \in EffectsOf(f.todo[1].unit)
      BY <2>1, <2>3, EffectsAreSteps
    <3>2. \/ e = EffectOf(f.todo[1], "call", 0)
          \/ \E n \in 1..Len(Item(f.todo[1]).from) : e = EffectOf(f.todo[1], "pull", n)
      BY <2>1, <2>3, <3>1, ElementEffects
    <3>3. e.what = "call" \/ e.j >= 1
      BY <3>2 DEF EffectOf
    <3> QED BY <2>1, <2>3, <3>3 DEF Due
  <2> QED BY <2>2, <2>3
<1> QED
  BY <1>1, <1>2, PerformsNone

LEMMA PerformsPull ==
  ASSUME NEW f, NEW g, NEW s, NEW t, f.kind # "ext", g.kind = f.kind, f.todo \in Seq(Step),
         f.todo # <<>>, f.phase = "pull", g.phase = "pull", f.j \in Nat, f.j > 0,
         g.j = f.j + 1, g.todo = f.todo, SolveStep(f.todo[1]),
         f.j <= Len(Item(f.todo[1]).from), Len(Item(f.todo[1]).from) \in Nat,
         t.done = s.done \cup {EffectOf(f.todo[1], "pull", f.j)}
  PROVE  Performs(f, g, s, t)
<1> DEFINE x == f.todo[1]
           d == EffectOf(x, "pull", f.j)
<1>1. Opens(f, d.step.unit) /\ d \in EffectsOf(d.step.unit)
  <2>1. d.step = x
    BY DEF EffectOf
  <2>2. f.j \in 1..Len(Item(x).from)
    OBVIOUS
  <2>3. d \in EffectsOf(x.unit)
    BY <2>2, AskedFor
  <2>4. Opens(f, x.unit)
    BY TailFacts DEF Opens
  <2> QED BY <2>1, <2>3, <2>4
<1>2. \A u \in Unit : Opens(g, u) => Opens(f, u)
  BY DEF Opens
<1>3. ASSUME NEW u \in Unit, NEW e \in EffectsOf(u), Due(f, e) PROVE Due(g, e) \/ e = d
  <2>1. PICK i \in 1..Len(f.todo) :
          e.step = f.todo[i] /\ (i > 1 \/ e.what = "call" \/ e.j >= f.j)
    BY <1>3 DEF Due
  <2>2. CASE i > 1
    BY <2>1, <2>2 DEF Due
  <2>3. CASE i = 1
    <3>1. e \in EffectsOf(x.unit) /\ e.step = x
      BY <2>1, <2>3, EffectsAreSteps
    <3>2. \/ e = EffectOf(x, "call", 0)
          \/ \E n \in 1..Len(Item(x).from) : e = EffectOf(x, "pull", n)
      BY <3>1, ElementEffects
    <3>3. CASE e = EffectOf(x, "call", 0)
      <4>1. e.what = "call"
        BY <3>3 DEF EffectOf
      <4> QED BY <2>1, <2>3, <4>1 DEF Due
    <3>4. ASSUME NEW n \in 1..Len(Item(x).from), e = EffectOf(x, "pull", n)
          PROVE  Due(g, e) \/ e = d
      <4>1. e.j = n /\ e.what = "pull"
        BY <3>4 DEF EffectOf
      <4>2. n >= f.j
        BY <2>1, <2>3, <4>1
      <4>3. CASE n = f.j
        BY <3>4, <4>3
      <4>4. CASE n >= f.j + 1
        BY <2>1, <2>3, <4>1, <4>4 DEF Due
      <4> QED BY <4>2, <4>3, <4>4
    <3> QED BY <3>2, <3>3, <3>4
  <2> QED BY <2>2, <2>3
<1> QED
  BY <1>1, <1>2, <1>3, PerformsOne

LEMMA PerformsCallTarget ==
  ASSUME NEW f, NEW g, NEW s, NEW t, f.kind # "ext", g.kind = f.kind, f.todo \in Seq(Step),
         f.todo # <<>>, f.phase = "pull", g.phase = "target", f.j \in Nat, g.todo = f.todo,
         SolveStep(f.todo[1]), f.j > Len(Item(f.todo[1]).from), Len(Item(f.todo[1]).from) \in Nat,
         t.done = s.done \cup {EffectOf(f.todo[1], "call", 0)}
  PROVE  Performs(f, g, s, t)
<1> DEFINE x == f.todo[1]
           d == EffectOf(x, "call", 0)
<1>1. Opens(f, d.step.unit) /\ d \in EffectsOf(d.step.unit)
  BY TailFacts, AskedFor DEF Opens, EffectOf
<1>2. \A u \in Unit : Opens(g, u) => Opens(f, u)
  BY DEF Opens
<1>3. ASSUME NEW u \in Unit, NEW e \in EffectsOf(u), Due(f, e) PROVE Due(g, e) \/ e = d
  <2>1. PICK i \in 1..Len(f.todo) :
          e.step = f.todo[i] /\ (i > 1 \/ e.what = "call" \/ e.j >= f.j)
    BY <1>3 DEF Due
  <2>2. CASE i > 1
    BY <2>1, <2>2 DEF Due
  <2>3. CASE i = 1
    <3>1. e \in EffectsOf(x.unit) /\ e.step = x
      BY <2>1, <2>3, EffectsAreSteps
    <3>2. \/ e = EffectOf(x, "call", 0)
          \/ \E n \in 1..Len(Item(x).from) : e = EffectOf(x, "pull", n)
      BY <3>1, ElementEffects
    <3>3. ASSUME NEW n \in 1..Len(Item(x).from), e = EffectOf(x, "pull", n) PROVE FALSE
      <4>1. e.j = n /\ e.what = "pull"
        BY <3>3 DEF EffectOf
      <4>2. n >= f.j
        BY <2>1, <2>3, <4>1
      <4> QED BY <4>2
    <3> QED BY <3>2, <3>3
  <2> QED BY <2>2, <2>3
<1> QED
  BY <1>1, <1>2, <1>3, PerformsOne

LEMMA PerformsCheckFloors ==
  ASSUME NEW f, NEW g, NEW s, NEW t, f.kind # "ext", g.kind = f.kind, f.todo \in Seq(Step),
         f.todo # <<>>, f.phase = "floor", g.phase = "next", g.todo = Tail(f.todo),
         t.done = s.done
  PROVE  Performs(f, g, s, t)
<1>1. \A u \in Unit : Opens(g, u) => Opens(f, u)
  BY TailFacts DEF Opens
<1>2. ASSUME NEW e, Due(f, e) PROVE Due(g, e)
  <2>1. PICK i \in 1..Len(f.todo) : e.step = f.todo[i] /\ i > 1
    BY <1>2 DEF Due
  <2> QED BY <2>1, TailFacts DEF Due
<1> QED
  BY <1>1, <1>2, PerformsNone

LEMMA PerformsMoveNext ==
  ASSUME NEW f, NEW g, NEW s, NEW t, f.kind # "ext", g.kind = f.kind, f.todo \in Seq(Step),
         Len(f.todo) = 1, f.phase = "transfer", f.todo[1].unit \in SignedTransferOnly,
         f.todo[1].idx = 1, f.j \in 1..Len(f.todo[1].unit.args),
         \/ g.phase = "next" /\ g.todo = <<>> /\ f.j = Len(f.todo[1].unit.args)
         \/ g.phase = "transfer" /\ g.todo = f.todo /\ g.j = f.j + 1,
         t.done = s.done \cup {EffectOf(f.todo[1], "move", f.j)}
  PROVE  Performs(f, g, s, t)
<1> DEFINE x == f.todo[1]
           d == EffectOf(x, "move", f.j)
<1>0. x = [unit |-> x.unit, idx |-> 1] /\ x.unit.args \in Seq(Transfer) /\ Len(x.unit.args) \in Nat
  <2>1. x \in Step
    OBVIOUS
  <2> QED BY <2>1, SignedAssumption DEF Step, TransferOnlyArgs
<1>1. Opens(f, d.step.unit) /\ d \in EffectsOf(d.step.unit)
  <2>1. d.step = x
    BY DEF EffectOf
  <2>2. d \in EffectsOf(x.unit)
    BY <1>0, TransferEffects
  <2>3. Opens(f, x.unit)
    BY DEF Opens
  <2> QED BY <2>1, <2>2, <2>3
<1>2. \A u \in Unit : Opens(g, u) => Opens(f, u)
  BY DEF Opens
<1>3. ASSUME NEW u \in Unit, NEW e \in EffectsOf(u), Due(f, e) PROVE Due(g, e) \/ e = d
  <2>1. e.step = x /\ e.j >= f.j
    BY <1>3 DEF Due
  <2>2. e \in EffectsOf(x.unit)
    BY <2>1, EffectsAreSteps
  <2>3. PICK n \in 1..Len(x.unit.args) : e = EffectOf(x, "move", n)
    BY <1>0, <2>2, TransferEffects
  <2>4. e.j = n
    BY <2>3 DEF EffectOf
  <2>5. CASE n = f.j
    BY <2>3, <2>5
  <2>6. CASE n >= f.j + 1
    <3>1. g.phase = "transfer" /\ g.todo = f.todo /\ g.j = f.j + 1
      BY <1>0, <2>6
    <3> QED BY <2>1, <2>4, <2>6, <3>1 DEF Due
  <2> QED BY <1>0, <2>1, <2>4, <2>5, <2>6
<1> QED
  BY <1>1, <1>2, <1>3, PerformsOne

\* The calls of the account begin with all of their envelopes to do.
LEMMA UntouchedSteps ==
  ASSUME NEW u \in SolveUnit, NEW first \in {0, 1}, first = 0 <=> u \in SignedSolveV3, NEW kind
  PROVE  Untouched(AcctFrame(kind, StepsOf(u, first), "next"))
<1>1. PICK g : g = AcctFrame(kind, StepsOf(u, first), "next")
  OBVIOUS
<1>2. u.args \in Seq(SolveArgs)
  BY SignedAssumption DEF SolveUnit, SolveArgsSigArgs, SolveV2Args, SolveV3Args
<1>3. PICK n \in Nat : n = Len(u.args) + 1 - first
  BY <1>2, SMTT(30)
<1>4. StepsOf(u, first) = [i \in 1..n |-> [unit |-> u, idx |-> first - 1 + i]]
  BY <1>3 DEF StepsOf
<1>5. /\ Len(StepsOf(u, first)) = n
      /\ \A i \in 1..n : StepsOf(u, first)[i] = [unit |-> u, idx |-> first - 1 + i]
  BY <1>4
<1>6. g.todo = StepsOf(u, first) /\ g.phase = "next" /\ g.kind = kind
  BY <1>1 DEF AcctFrame
<1>7. ASSUME NEW v \in Unit, Opens(g, v), NEW e \in EffectsOf(v) PROVE Due(g, e)
  <2>1. v = u /\ kind # "ext"
    BY <1>5, <1>6, <1>7 DEF Opens
  <2>2. SolveEffect(u, e)
    BY <2>1, SolveEffects
  <2>3. PICK k \in Nat : /\ e.step = [unit |-> u, idx |-> k]
                         /\ k \in 1..Len(u.args) \/ (k = 0 /\ first = 0)
    BY <2>2, <1>2 DEF SolveEffect, EffectOf
  <2>4. k + 1 - first \in 1..n /\ first - 1 + (k + 1 - first) = k
    BY <2>3, <1>2, <1>3
  <2>5. e.step = g.todo[k + 1 - first]
    BY <2>3, <2>4, <1>5, <1>6
  <2> QED BY <2>1, <2>4, <2>5, <1>5, <1>6 DEF Due
<1> QED
  BY <1>1, <1>7 DEF Untouched

LEMMA UntouchedBatch ==
  ASSUME NEW n \in Nat, NEW batch \in [1..n -> SignedSolve]
  PROVE  Untouched(AcctFrame("guarded", [i \in DOMAIN batch |-> [unit |-> batch[i], idx |-> 1]], "next"))
<1> DEFINE todo == [i \in 1..n |-> [unit |-> batch[i], idx |-> 1]]
<1>1. PICK g : g = AcctFrame("guarded", todo, "next")
  OBVIOUS
<1>2. Len(todo) = n /\ \A i \in 1..n : todo[i] = [unit |-> batch[i], idx |-> 1]
  OBVIOUS
<1>3. g.todo = todo /\ g.phase = "next" /\ g.kind # "ext"
  BY <1>1 DEF AcctFrame
<1> HIDE DEF todo
<1>4. ASSUME NEW v \in Unit, Opens(g, v), NEW e \in EffectsOf(v) PROVE Due(g, e)
  <2>1. PICK i \in 1..n : v = batch[i]
    BY <1>2, <1>3, <1>4 DEF Opens
  <2>2. v \in SignedSolve /\ v \in SolveUnit /\ v \notin SignedSolveV3 /\ Len(v.args) = 1
    BY <2>1, SignedAssumption DEF SolveUnit, SolveArgsSigArgs, SolveV3Args
  <2>3. SolveEffect(v, e)
    BY <2>2, SolveEffects
  <2>4. e.step = [unit |-> v, idx |-> 1]
    BY <2>2, <2>3 DEF SolveEffect, EffectOf
  <2> QED BY <2>1, <2>4, <1>2, <1>3 DEF Due
<1> QED
  BY <1>1, <1>4 DEF Untouched, todo

LEMMA UntouchedTransfer ==
  ASSUME NEW u \in SignedTransferOnly
  PROVE  Untouched(AcctFrame("guarded", <<[unit |-> u, idx |-> 1]>>, "transfer"))
<1>1. PICK g : g = AcctFrame("guarded", <<[unit |-> u, idx |-> 1]>>, "transfer")
  OBVIOUS
<1>2. g.todo = <<[unit |-> u, idx |-> 1]>> /\ g.phase = "transfer" /\ g.kind # "ext" /\ g.j = 1
  BY <1>1 DEF AcctFrame
<1>3. ASSUME NEW v \in Unit, Opens(g, v), NEW e \in EffectsOf(v) PROVE Due(g, e)
  <2>1. v = u
    BY <1>2, <1>3 DEF Opens
  <2>2. PICK n \in 1..Len(u.args) : e = EffectOf([unit |-> u, idx |-> 1], "move", n)
    BY <2>1, TransferEffects
  <2>3. e.step = [unit |-> u, idx |-> 1] /\ e.j >= 1
    BY <2>2 DEF EffectOf
  <2> QED BY <2>3, <1>2 DEF Due
<1> QED
  BY <1>1, <1>3 DEF Untouched

LEMMA ExtIsIdle ==
  ASSUME NEW f, f.kind = "ext"
  PROVE  Idle(f) /\ Untouched(f)
  BY DEF Idle, Untouched, Due, Opens

-----------------------------------------------------------------------------
(* WholeInv is an invariant.                                               *)

LEMMA WholeInvInit == Init => WholeInv
<1> SUFFICES ASSUME Init PROVE WholeInv
  OBVIOUS
<1>1. TypeInv
  BY TypeInvInit
<1>2. st.done = {} /\ Len(stack) = 0
  BY DEF Init
<1> QED
  BY <1>1, <1>2 DEF WholeInv, Whole

\* A revert restores the state of a frame, under the frames below it.
LEMMA WholeRevert ==
  ASSUME WholeInv, TypeInv', NEW k \in 1..Len(stack), Restores(k)
  PROVE  WholeInv'
<1>1. stack \in Seq(Frame) /\ Len(stack) \in Nat
  BY DEF WholeInv, TypeInv, TypeOK
<1>2. PICK n \in Nat : n = k - 1
  OBVIOUS
<1>3. Len(stack') = n /\ \A m \in 1..n : stack'[m] = stack[m] /\ m \in 1..Len(stack)
  BY <1>1, <1>2, CutFacts DEF Restores
<1>4. \A m \in 1..Len(stack) : /\ Whole(stack[m].snap, stack, m - 1)
                               /\ stack[1].snap.done \subseteq stack[m].snap.done
  BY DEF WholeInv
<1>5. Whole(st', stack', n)
  <2>1. Whole(stack[k].snap, stack, n) /\ st'.done = stack[k].snap.done
    BY <1>2, <1>4 DEF Restores
  <2> QED BY <1>3, <2>1, WholeAlike
<1>6. ASSUME NEW m \in 1..n
      PROVE  /\ Whole(stack'[m].snap, stack', m - 1)
             /\ stack'[1].snap.done \subseteq stack'[m].snap.done
             /\ stack'[1].snap.done \subseteq st'.done
  <2>1. m - 1 \in Nat /\ 1 \in 1..n /\ \A i \in 1..(m - 1) : i \in 1..n
    OBVIOUS
  <2>2. Whole(stack'[m].snap, stack', m - 1)
    <3>1. /\ Whole(stack[m].snap, stack, m - 1) /\ stack'[m].snap.done = stack[m].snap.done
          /\ \A i \in 1..(m - 1) : stack[i] = stack'[i]
      BY <1>3, <1>4, <2>1
    <3> QED BY <2>1, <3>1, WholeAlike
  <2>3. st'.done = stack[k].snap.done
    BY DEF Restores
  <2> QED BY <1>3, <1>4, <2>1, <2>2, <2>3
<1> QED
  BY <1>3, <1>5, <1>6 DEF WholeInv

\* The account calls its target: the frame on top waits, external code starts.
LEMMA WholeCalls ==
  ASSUME WholeInv, TypeInv', Len(stack) > 0, NEW f \in Frame, NEW g \in Frame,
         f.snap = Top.snap, g.kind = "ext", g.snap = st',
         Performs(Top, f, st, st'), Calls(f, g)
  PROVE  WholeInv'
<1>1. PICK n \in Nat : n = Len(stack) /\ n > 0 /\ stack \in Seq(Frame) /\ Top = stack[n]
  BY DEF WholeInv, TypeInv, TypeOK, Top
<1>2. PICK t : t = Append(SubSeq(stack, 1, n - 1), f)
  OBVIOUS
<1>3. t \in Seq(Frame) /\ Len(t) = n /\ (\A k \in 1..(n - 1) : t[k] = stack[k]) /\ t[n] = f
  BY <1>1, <1>2, SetTopFacts
<1>4. Len(stack') = n + 1 /\ (\A k \in 1..n : stack'[k] = t[k]) /\ stack'[n + 1] = g
  <2>1. stack' = Append(t, g)
    BY <1>1, <1>2 DEF Below, Calls
  <2> QED BY <1>3, <2>1
<1>5. \A k \in 1..n : k = n \/ k \in 1..(n - 1)
  OBVIOUS
<1>6. /\ \A k \in 1..n : stack'[k].snap = stack[k].snap
      /\ \A k \in 1..(n - 1) : stack'[k] = stack[k]
  BY <1>1, <1>3, <1>4, <1>5
<1>7. st.done \subseteq st'.done /\ st \in State /\ st' \in State
  BY DEF Performs, WholeInv, TypeInv, TypeOK
<1>8. \A k \in 1..n : /\ Whole(stack'[k].snap, stack', k - 1)
                      /\ stack'[1].snap.done \subseteq stack'[k].snap.done
                      /\ stack'[1].snap.done \subseteq st'.done
  <2>1. n <= Len(stack)
    BY <1>1
  <2> QED BY <1>6, <1>7, <2>1, SnapsKept, Zenon
<1>9. Whole(st', t, n)
  <2>1. Whole(st, stack, n)
    BY <1>1 DEF WholeInv
  <2> QED BY <1>1, <1>3, <1>7, <2>1, WholeTop
<1>10. Whole(st', stack', n)
  BY <1>4, <1>9, WholeAlike
<1>11. Untouched(g)
  BY ExtIsIdle
<1>12. Whole(st', stack', n + 1)
  BY <1>4, <1>10, <1>11, WholePush
<1>13. ASSUME NEW k \in 1..(n + 1)
       PROVE  /\ Whole(stack'[k].snap, stack', k - 1)
              /\ stack'[1].snap.done \subseteq stack'[k].snap.done
              /\ stack'[1].snap.done \subseteq st'.done
  <2>1. CASE k = n + 1
    BY <2>1, <1>1, <1>4, <1>8, <1>10
  <2>2. CASE k \in 1..n
    BY <2>2, <1>8
  <2> QED BY <2>1, <2>2
<1> QED
  BY <1>4, <1>12, <1>13 DEF WholeInv

\* External code returns to the account, which has nothing less to do for it, or
\* the transaction ends.
LEMMA WholeReturn ==
  ASSUME WholeInv, TypeInv', Return
  PROVE  WholeInv'
<1>1. PICK n \in Nat : n = Len(stack) /\ n > 0
  BY DEF Return, ExtRuns, WholeInv, TypeInv, TypeOK
<1>2. stack \in Seq(Frame) /\ st' = st /\ IsExt(stack[n]) /\ Top = stack[n] /\ Shape(stack)
  BY <1>1 DEF Return, ExtRuns, Top, WholeInv, TypeInv, TypeOK
<1>3. Idle(Top)
  BY <1>2, ExtIsIdle DEF IsExt
<1>4. /\ Len(stack') = n - 1
      /\ \A k \in 1..(n - 1) : stack'[k].snap = stack[k].snap /\ Alike(stack[k], stack'[k])
      /\ \A k \in 1..(n - 2) : stack'[k] = stack[k]
  <2>1. CASE n = 1
    <3>1. stack' = <<>>
      BY <1>1, <2>1 DEF Return
    <3> QED BY <2>1, <3>1
  <2>2. CASE n > 1
    <3>1. /\ Below \in Seq(Frame) /\ Len(Below) = n - 1
          /\ \A k \in 1..(n - 1) : Below[k] = stack[k]
      BY <1>1, <1>2, <2>2, CutFacts DEF Below
    <3>2. stack' = [Below EXCEPT ![n - 1] = [Below[n - 1] EXCEPT !.phase = "floor"]]
      BY <1>1, <2>2, <3>1 DEF Return
    <3>3. Below[n - 1] \in Frame
      BY <2>2, <3>1
    <3>4. /\ Len(stack') = n - 1
          /\ stack'[n - 1].phase = "floor"
          /\ stack'[n - 1].kind = stack[n - 1].kind
          /\ stack'[n - 1].todo = stack[n - 1].todo
          /\ \A k \in 1..(n - 1) : stack'[k].snap = stack[k].snap
          /\ \A k \in 1..(n - 2) : stack'[k] = stack[k]
      <4>1. PICK h : h = [Below[n - 1] EXCEPT !.phase = "floor"]
        OBVIOUS
      <4>2. /\ h.phase = "floor" /\ h.kind = Below[n - 1].kind
            /\ h.todo = Below[n - 1].todo /\ h.snap = Below[n - 1].snap
        BY <3>3, <4>1 DEF Frame
      <4>3. DOMAIN Below = 1..(n - 1) /\ n - 1 \in 1..(n - 1)
        BY <2>2, <3>1
      <4>4. /\ Len(stack') = n - 1 /\ stack'[n - 1] = h
            /\ \A k \in 1..(n - 1) : k # n - 1 => stack'[k] = Below[k]
        BY <3>1, <3>2, <4>1, <4>3
      <4>5. \A k \in 1..(n - 2) : k \in 1..(n - 1) /\ k # n - 1
        BY <2>2
      <4> QED BY <3>1, <4>2, <4>3, <4>4, <4>5
    <3>5. stack[n - 1].phase = "target"
      BY <1>1, <1>2, <2>2 DEF Shape
    <3>6. PICK f, g : f = stack[n - 1] /\ g = stack'[n - 1]
      OBVIOUS
    <3>7. Alike(f, g)
      <4>1. f.phase = "target" /\ g.phase = "floor" /\ g.todo = f.todo /\ g.kind = f.kind
        BY <3>4, <3>5, <3>6
      <4> QED BY <4>1 DEF Alike, Opens, Due
    <3>8. \A k \in 1..(n - 1) : k = n - 1 \/ k \in 1..(n - 2)
      BY <2>2
    <3>9. \A k \in 1..(n - 1) : Alike(stack[k], stack'[k])
      BY <3>4, <3>6, <3>7, <3>8 DEF Alike
    <3> QED BY <3>4, <3>9
  <2> QED BY <1>1, <2>1, <2>2
<1> QED
  BY <1>1, <1>2, <1>3, <1>4, WholeLeave

LEMMA WholeFinish ==
  ASSUME WholeInv, TypeInv', Finish
  PROVE  WholeInv'
<1>1. /\ Top.todo = <<>> /\ Len(stack) > 0 /\ st'.done = st.done /\ stack' = Below
  BY FinishFacts DEF WholeInv
<1>2. PICK n \in Nat : n = Len(stack) /\ n > 0 /\ stack \in Seq(Frame)
  BY <1>1 DEF WholeInv, TypeInv, TypeOK
<1>3. Len(stack') = n - 1 /\ \A k \in 1..(n - 1) : stack'[k] = stack[k]
  BY <1>1, <1>2, CutFacts DEF Below
<1>4. Idle(Top)
  BY <1>1 DEF Idle, Due
<1>5. \A k \in 1..(n - 1) : stack'[k].snap = stack[k].snap /\ Alike(stack[k], stack'[k])
  BY <1>3 DEF Alike
<1>6. \A k \in 1..(n - 2) : stack'[k] = stack[k]
  BY <1>2, <1>3
<1>7. Len(stack) > 0 /\ st'.done = st.done
  BY <1>1
<1> QED
  BY <1>2, <1>3, <1>4, <1>5, <1>6, <1>7, WholeLeave

\* A statement is all that its envelope asks for.
LEMMA WholeStatement ==
  ASSUME WholeInv, TypeInv', NEW u \in SignedStatement, entry_statement(u)
  PROVE  WholeInv'
<1>1. PICK e : e = EffectOf([unit |-> u, idx |-> 1], "statement", 0)
  OBVIOUS
<1>2. st'.done = st.done \cup {e} /\ stack' = stack
  BY <1>1, StatementFacts DEF WholeInv
<1>3. e.step.unit = u /\ EffectsOf(u) = {e}
  BY <1>1, StatementEffects DEF EffectOf
<1>4. /\ st.done \subseteq st'.done
      /\ \A d \in st'.done : d \in st.done \/ (d \in EffectsOf(d.step.unit)
                                               /\ EffectsOf(d.step.unit) \subseteq st'.done)
  BY <1>2, <1>3
<1> QED
  BY <1>2, <1>4, WholeQuiet

\* The guarded calls push their work lists.
LEMMA WholeGuarded ==
  ASSUME WholeInv, TypeInv', NEW todo, EnterGuarded(todo),
         Untouched(AcctFrame("guarded", todo, "next"))
  PROVE  WholeInv'
<1>1. PICK g : g = AcctFrame("guarded", todo, "next") /\ g.snap = st
  BY DEF AcctFrame
<1>2. Pushes(g)
  BY <1>1 DEF EnterGuarded, Pushes
<1>3. st'.done = st.done
  BY LockFacts DEF EnterGuarded, WholeInv, TypeInv, TypeOK
<1> QED
  BY <1>1, <1>2, <1>3, WholeEnter

LEMMA WholeTransferOnly ==
  ASSUME WholeInv, TypeInv', NEW u \in SignedTransferOnly, entry_transfer_only(u)
  PROVE  WholeInv'
<1>1. PICK g : g = AcctFrame("guarded", <<[unit |-> u, idx |-> 1]>>, "transfer")
  OBVIOUS
<1>2. Pushes(g) /\ st'.done = st.done
  BY <1>1, TransferOnlyFacts DEF WholeInv
<1>3. Untouched(g)
  BY <1>1, UntouchedTransfer
<1>4. g.snap = st
  BY <1>1 DEF AcctFrame
<1> QED
  BY <1>2, <1>3, <1>4, WholeEnter

LEMMA WholeInvNext == WholeInv /\ [Next]_vars => WholeInv'
<1> SUFFICES ASSUME WholeInv, [Next]_vars PROVE WholeInv'
  OBVIOUS
<1>0. TypeInv /\ TypeInv'
  BY TypeInvNext DEF WholeInv
<1>t. stack \in Seq(Frame) /\ st \in State /\ st' \in State /\ Len(stack) \in Nat
  BY <1>0 DEF TypeInv, TypeOK
<1>q. ASSUME st'.done = st.done, stack' = stack PROVE WholeInv'
  BY <1>0, <1>q, WholeQuiet
<1>1. ASSUME NEW c \in Contract, BeginTx(c) PROVE WholeInv'
  <2>1. PICK g : g = ExtFrame(c, st)
    OBVIOUS
  <2>2. g.kind = "ext" /\ g.snap = st
    BY <2>1 DEF ExtFrame
  <2>3. Pushes(g)
    BY <1>1, <2>1 DEF BeginTx, Pushes
  <2>4. st'.done = st.done
    BY <1>1 DEF BeginTx
  <2> QED
    BY <1>0, <2>2, <2>3, <2>4, ExtIsIdle, WholeEnter
<1>2. ASSUME NEW a \in Asset, Spend(a) PROVE WholeInv'
  BY <1>0, <1>2, <1>q, SpendFacts
<1>3. ASSUME NEW q \in SignedPermit, SubmitPermit(q) PROVE WholeInv'
  BY <1>0, <1>3, <1>q, SubmitPermitFacts
<1>4. CASE Return
  BY <1>0, <1>4, WholeReturn
<1>5. CASE Revert
  <2>1. PICK k \in 1..Len(stack) : Restores(k)
    BY <1>5, <1>t DEF Revert, Restores
  <2> QED
    BY <1>0, <2>1, WholeRevert
<1>6. ASSUME NEW h \in {CodeHash[c] : c \in Contract}, NEW b \in BOOLEAN, register(h, b)
      PROVE WholeInv'
  BY <1>6, <1>q DEF register
<1>8. ASSUME NEW n \in 0..MaxBatch, NEW batch \in [1..n -> SignedSolve], entry_solve_v1(batch)
      PROVE WholeInv'
  <2>1. n \in Nat
    BY LedgerAssumption
  <2>2. PICK todo : todo = [i \in DOMAIN batch |-> [unit |-> batch[i], idx |-> 1]]
    OBVIOUS
  <2>3. Untouched(AcctFrame("guarded", todo, "next"))
    BY <2>1, <2>2, UntouchedBatch
  <2>4. EnterGuarded(todo)
    BY <1>8, <2>2 DEF entry_solve_v1
  <2> QED
    BY <1>0, <2>3, <2>4, WholeGuarded
<1>9. ASSUME NEW u \in SignedSolveV2, entry_solve_v2(u) PROVE WholeInv'
  <2>1. u \in SolveUnit /\ u \notin SignedSolveV3
    BY SignedAssumption DEF SolveUnit, SolveV2Args, SolveV3Args
  <2>2. Untouched(AcctFrame("guarded", StepsOf(u, 1), "next"))
    BY <2>1, UntouchedSteps
  <2>3. EnterGuarded(StepsOf(u, 1))
    BY <1>9 DEF entry_solve_v2
  <2> QED
    BY <1>0, <2>2, <2>3, WholeGuarded
<1>10. ASSUME NEW u \in SignedSolveV3, entry_solve_v3(u) PROVE WholeInv'
  <2>1. u \in SolveUnit
    BY DEF SolveUnit
  <2>2. PICK g : g = AcctFrame("open", StepsOf(u, 0), "next")
    OBVIOUS
  <2>3. Untouched(g)
    BY <2>1, <2>2, UntouchedSteps
  <2>4. g.snap = st
    BY <2>2 DEF AcctFrame
  <2>5. Pushes(g) /\ st'.done = st.done
    BY <1>10, <2>2 DEF entry_solve_v3, Pushes
  <2> QED
    BY <1>0, <2>3, <2>4, <2>5, WholeEnter
<1>11. ASSUME NEW u \in SignedTransferOnly, entry_transfer_only(u) PROVE WholeInv'
  BY <1>0, <1>11, WholeTransferOnly
<1>12. ASSUME NEW u \in SignedStatement, entry_statement(u) PROVE WholeInv'
  BY <1>0, <1>12, WholeStatement
<1>13. CASE PayGas
  <2>1. /\ GasStep(Top.todo[1]) /\ Top.kind # "ext" /\ Len(stack) > 0
        /\ Top.phase = "next" /\ Top.todo \in Seq(Step) /\ Top.todo # <<>>
        /\ st'.done = st.done \cup {EffectOf(Top.todo[1], "gas", 0)}
    BY <1>0, <1>13, PayGasFacts
  <2>2. PICK f : Continues(f) /\ f.phase = "next" /\ f.todo = Tail(Top.todo)
    BY <1>0, <1>13, PayGasFacts
  <2>3. f.kind = Top.kind
    BY <2>2 DEF Continues
  <2>4. Performs(Top, f, st, st')
    BY <2>1, <2>2, <2>3, PerformsPayGas
  <2> QED
    BY <1>0, <2>1, <2>2, <2>4, WholeContinues
<1>14. CASE BeginItem
  <2>1. /\ SolveStep(Top.todo[1]) /\ Top.kind # "ext" /\ Len(stack) > 0
        /\ Top.phase = "next" /\ Top.todo \in Seq(Step) /\ Top.todo # <<>>
        /\ st'.done = st.done
    BY <1>0, <1>14, BeginItemFacts
  <2>2. PICK f : Continues(f) /\ f.phase = "pull" /\ f.j = 1 /\ f.todo = Top.todo
    BY <1>0, <1>14, BeginItemFacts
  <2>3. f.kind = Top.kind
    BY <2>2 DEF Continues
  <2>4. Performs(Top, f, st, st')
    BY <2>1, <2>2, <2>3, PerformsBeginItem
  <2> QED
    BY <1>0, <2>1, <2>2, <2>4, WholeContinues
<1>15. CASE Pull
  <2>1. /\ SolveStep(Top.todo[1]) /\ Top.kind # "ext" /\ Len(stack) > 0 /\ Top.phase = "pull"
        /\ st'.done = st.done \cup {EffectOf(Top.todo[1], "pull", Top.j)}
    BY <1>0, <1>15, PullFacts
  <2>2. PICK f : Continues(f) /\ f.phase = "pull" /\ f.j = Top.j + 1 /\ f.todo = Top.todo
    BY <1>0, <1>15, PullFacts
  <2>3. f.kind = Top.kind
    BY <2>2 DEF Continues
  <2>4. Top.todo \in Seq(Step) /\ Top.todo # <<>> /\ Top.j > 0 /\ Top.j \in Nat
    BY <1>0, <1>15, PhaseFacts DEF Pull, Frame
  <2>5. Top.j <= Len(Item(Top.todo[1]).from)
    <3>1. Head(Top.todo) = Top.todo[1]
      BY <2>4
    <3> QED BY <1>15, <3>1 DEF Pull
  <2>6. Len(Item(Top.todo[1]).from) \in Nat
    BY <2>1, StepFacts DEF SolveArgs
  <2>7. Performs(Top, f, st, st')
    BY <2>1, <2>2, <2>3, <2>4, <2>5, <2>6, PerformsPull
  <2> QED
    BY <1>0, <2>1, <2>2, <2>7, WholeContinues
<1>16. CASE CallTarget
  <2>1. /\ SolveStep(Top.todo[1]) /\ Top.kind # "ext" /\ Len(stack) > 0 /\ Top.phase = "pull"
        /\ st'.done = st.done \cup {EffectOf(Top.todo[1], "call", 0)}
    BY <1>0, <1>16, CallTargetFacts
  <2>2. PICK f \in Frame, g \in Frame :
          /\ f.kind = Top.kind /\ f.snap = Top.snap /\ f.phase = "target"
          /\ f.todo = Top.todo /\ g.kind = "ext" /\ g.snap = st' /\ Calls(f, g)
    BY <1>0, <1>16, CallTargetFacts DEF Calls
  <2>4. Top.todo \in Seq(Step) /\ Top.todo # <<>> /\ Top.j \in Nat
    BY <1>0, <1>16, PhaseFacts DEF CallTarget, Frame
  <2>5. Top.j > Len(Item(Top.todo[1]).from)
    <3>1. Head(Top.todo) = Top.todo[1]
      BY <2>4
    <3> QED BY <1>16, <3>1 DEF CallTarget
  <2>6. Len(Item(Top.todo[1]).from) \in Nat
    BY <2>1, StepFacts DEF SolveArgs
  <2>7. Performs(Top, f, st, st')
    BY <2>1, <2>2, <2>4, <2>5, <2>6, PerformsCallTarget
  <2> QED
    BY <1>0, <2>1, <2>2, <2>7, WholeCalls
<1>17. CASE CheckFloors
  <2>1. /\ Top.kind # "ext" /\ Len(stack) > 0 /\ Top.phase = "floor" /\ st'.done = st.done
        /\ Top.todo \in Seq(Step) /\ Top.todo # <<>>
    BY <1>0, <1>17, CheckFloorsFacts
  <2>2. PICK f : Continues(f) /\ f.phase = "next" /\ f.todo = Tail(Top.todo)
    BY <1>0, <1>17, CheckFloorsFacts
  <2>3. f.kind = Top.kind
    BY <2>2 DEF Continues
  <2>4. Performs(Top, f, st, st')
    BY <2>1, <2>2, <2>3, PerformsCheckFloors
  <2> QED
    BY <1>0, <2>1, <2>2, <2>4, WholeContinues
<1>18. CASE MoveNext
  <2>1. /\ Top.kind = "guarded" /\ Len(stack) > 0 /\ Top \in Frame /\ Top.phase = "transfer"
        /\ Top.todo[1].unit \in SignedTransferOnly /\ Top.todo[1].idx = 1 /\ Len(Top.todo) = 1
        /\ Top.j \in 1..Len(Top.todo[1].unit.args)
        /\ st'.done = st.done \cup {EffectOf(Top.todo[1], "move", Top.j)}
    BY <1>0, <1>18, MoveNextFacts
  <2>2. PICK f :
          /\ Continues(f)
          /\ \/ f.phase = "next" /\ f.todo = <<>> /\ Top.j = Len(Top.todo[1].unit.args)
             \/ f.phase = "transfer" /\ f.todo = Top.todo /\ f.j = Top.j + 1
    BY <1>0, <1>18, MoveNextFacts
  <2>3. f.kind = Top.kind /\ Top.kind # "ext" /\ Top.todo \in Seq(Step)
    BY <2>1, <2>2 DEF Continues, Frame
  <2>4. Performs(Top, f, st, st')
    BY <2>1, <2>2, <2>3, PerformsMoveNext
  <2> QED
    BY <1>0, <2>1, <2>2, <2>4, WholeContinues
<1>19. CASE Finish
  BY <1>0, <1>19, WholeFinish
<1>20. CASE UNCHANGED vars
  BY <1>20, <1>q DEF vars
<1> QED
  BY <1>1, <1>2, <1>3, <1>4, <1>5, <1>6, <1>8, <1>9, <1>10, <1>11, <1>12, <1>13,
     <1>14, <1>15, <1>16, <1>17, <1>18, <1>19, <1>20 DEF Next

\* A signed envelope takes effect as a whole or not at all, however deep the calls
\* nest, whichever of them revert and whoever catches it.
THEOREM Wholeness == Spec => []AllOrNothing
<1>1. WholeInv => AllOrNothing
  <2> SUFFICES ASSUME WholeInv, AtRest, NEW e \in st.done PROVE EffectsOf(e.step.unit) \subseteq st.done
    BY DEF AllOrNothing
  <2>1. Len(stack) = 0 /\ Whole(st, stack, 0)
    BY DEF AtRest, WholeInv
  <2>2. e.step.unit \in Unit
    BY DEF WholeInv, TypeInv, TypeOK, State, Effect, Step
  <2> QED BY <2>1, <2>2 DEF Whole
<1> QED
  BY <1>1, WholeInvInit, WholeInvNext, PTL DEF Spec

-----------------------------------------------------------------------------
(* The account implements OneShot.                                         *)

\* Every value that an envelope consumes is the value of one of its effects.
LEMMA NonceConsumed ==
  ASSUME NEW u \in Unit, EffectsOf(u) # {}, NEW x \in NoncesOf(u)
  PROVE  \E e \in EffectsOf(u) : e.what # "gas" /\ e.step.unit = u /\ NonceOf(e.step) = x
<1>1. CASE u \in SolveUnit
  <2>1. u.kind \in {"v1", "v2", "v3"} /\ u.args \in Seq(SolveArgs)
    BY <1>1, SignedAssumption DEF SolveUnit, SolveArgsSigArgs, SolveV2Args, SolveV3Args
  <2>2. PICK i \in 1..Len(u.args) : x = u.args[i].ms_ts
    BY <2>1 DEF NoncesOf, IsSolve
  <2>3. PICK e : e = EffectOf([unit |-> u, idx |-> i], "call", 0)
    OBVIOUS
  <2>4. e \in EffectsOf(u)
    BY <1>1, <2>3, SolveEffects DEF SolveEffect
  <2>5. e.what = "call" /\ e.step.unit = u /\ e.step.idx = i
    BY <2>3 DEF EffectOf
  <2>6. NonceOf(e.step) = x
    BY <2>1, <2>2, <2>5 DEF NonceOf, IsSolve, Item
  <2> QED BY <2>4, <2>5, <2>6
<1>2. CASE u \in SignedTransferOnly
  <2>1. u.kind = "transfer" /\ x = u.ms_ts
    BY <1>2, SignedAssumption DEF TransferOnlyArgs, NoncesOf, IsSolve
  <2>2. PICK e : e \in EffectsOf(u)
    OBVIOUS
  <2>3. PICK n \in 1..Len(u.args) : e = EffectOf([unit |-> u, idx |-> 1], "move", n)
    BY <1>2, <2>2, TransferEffects
  <2>4. e.what = "move" /\ e.step.unit = u
    BY <2>3 DEF EffectOf
  <2>5. NonceOf(e.step) = x
    BY <2>1, <2>4 DEF NonceOf, IsSolve
  <2> QED BY <2>2, <2>4, <2>5
<1>3. CASE u \in SignedStatement
  <2>1. u.kind = "statement" /\ x = u.ms_ts
    BY <1>3, SignedAssumption DEF StatementArgs, NoncesOf, IsSolve
  <2>2. PICK e : e = EffectOf([unit |-> u, idx |-> 1], "statement", 0)
    OBVIOUS
  <2>3. e \in EffectsOf(u)
    BY <1>3, <2>2, StatementEffects
  <2>4. e.what = "statement" /\ e.step.unit = u
    BY <2>2 DEF EffectOf
  <2>5. NonceOf(e.step) = x
    BY <2>1, <2>4 DEF NonceOf, IsSolve
  <2> QED BY <2>3, <2>4, <2>5
<1> QED
  BY <1>1, <1>2, <1>3 DEF Unit, SolveUnit

\* So envelopes that took effect share no value.
LEMMA NoncesApart ==
  ASSUME NEW s \in State, Sound(s), NEW u \in Unit, NEW v \in Unit, u # v,
         EffectsOf(u) # {}, EffectsOf(v) # {},
         EffectsOf(u) \subseteq s.done, EffectsOf(v) \subseteq s.done
  PROVE  NoncesOf(u) \cap NoncesOf(v) = {}
<1> SUFFICES ASSUME NEW x \in NoncesOf(u), x \in NoncesOf(v) PROVE FALSE
  OBVIOUS
<1>1. PICK d \in EffectsOf(u) : d.what # "gas" /\ d.step.unit = u /\ NonceOf(d.step) = x
  BY NonceConsumed
<1>2. PICK e \in EffectsOf(v) : e.what # "gas" /\ e.step.unit = v /\ NonceOf(e.step) = x
  BY NonceConsumed
<1>3. d.step = e.step
  BY <1>1, <1>2 DEF Sound
<1> QED
  BY <1>1, <1>2, <1>3

\* The state s holds whole envelopes.
AllWhole(s) ==
  \A e \in s.done : /\ e \in EffectsOf(e.step.unit)
                    /\ EffectsOf(e.step.unit) \subseteq s.done

\* The envelopes that have effects in t that they do not have in s.
Begun(s, t) == {u \in Unit : \E e \in t.done : e \notin s.done /\ e.step.unit = u}

\* Between two such states, whole envelopes are committed.
LEMMA CommitsWholes ==
  ASSUME NEW s \in State, NEW t \in State, s.done \subseteq t.done,
         AllWhole(s), AllWhole(t), NEW B, B = Begun(s, t)
  PROVE  /\ \A u \in B : EffectsOf(u) \cap s.done = {}
         /\ \A u \in B : EffectsOf(u) # {} /\ EffectsOf(u) \subseteq t.done
         /\ t.done = s.done \cup UNION {EffectsOf(u) : u \in B}
<1>b. /\ B \subseteq Unit
      /\ \A u \in Unit : u \in B <=> \E e \in t.done : e \notin s.done /\ e.step.unit = u
  BY DEF Begun
<1>0. \A e \in t.done : e.step.unit \in Unit
  BY DEF State, Effect, Step
<1>1. ASSUME NEW u \in B, NEW e \in EffectsOf(u), e \in s.done PROVE FALSE
  <2>1. PICK d \in t.done : d \notin s.done /\ d.step.unit = u
    BY <1>b
  <2>2. e.step.unit = u
    BY <1>1, <1>b, EffectsAreSteps
  <2>3. EffectsOf(u) \subseteq s.done
    BY <1>1, <2>2 DEF AllWhole
  <2>4. d \in EffectsOf(u)
    BY <2>1 DEF AllWhole
  <2> QED BY <2>1, <2>3, <2>4
<1>2. ASSUME NEW u \in B PROVE EffectsOf(u) # {} /\ EffectsOf(u) \subseteq t.done
  <2>1. PICK d \in t.done : d \notin s.done /\ d.step.unit = u
    BY <1>b
  <2> QED BY <2>1 DEF AllWhole
<1>3. \A e \in t.done : e \in s.done \/ (e.step.unit \in B /\ e \in EffectsOf(e.step.unit))
  BY <1>0, <1>b DEF AllWhole
<1>4. t.done = s.done \cup UNION {EffectsOf(u) : u \in B}
  <2>1. ASSUME NEW e \in UNION {EffectsOf(u) : u \in B} PROVE e \in t.done
    BY <1>2, <2>1
  <2>2. ASSUME NEW e \in t.done PROVE e \in s.done \cup UNION {EffectsOf(u) : u \in B}
    BY <1>3, <2>2
  <2> QED BY <2>1, <2>2
<1> QED
  BY <1>1, <1>2, <1>4

LEMMA RefineInit == Init => Promise!Init
  BY DEF Init, Promise!Init, Committed, AtRest

\* A transaction ends: the envelopes that it began are committed.
LEMMA RefineEnd ==
  ASSUME WholeInv, SoundInv, Return, Len(stack) = 1
  PROVE  Promise!Next
<1>1. stack # <<>> /\ stack' = <<>> /\ st' = st /\ stack[1].kind = "ext"
  BY DEF Return, ExtRuns, Top, IsExt
<1>2. Committed = stack[1].snap /\ Committed' = st
  BY <1>1 DEF Committed, AtRest
<1>3. PICK s, t : s = stack[1].snap /\ t = st
  OBVIOUS
<1>4. s \in State /\ t \in State /\ Sound(t) /\ s.done \subseteq t.done
  <2>1. stack[1] \in Frame /\ st \in State /\ Sound(st)
    BY DEF SoundInv, TypeInv, TypeOK
  <2>2. stack[1].snap.done \subseteq st.done
    BY DEF WholeInv
  <2>3. stack[1].snap \in State
    BY <2>1 DEF Frame
  <2> QED BY <1>3, <2>1, <2>2, <2>3
<1>5. Whole(s, stack, 0) /\ Whole(t, stack, 1)
  BY <1>3 DEF WholeInv
<1>6. \A e : (e \in s.done \/ e \in t.done) => e.step.unit \in Unit
  BY <1>4 DEF State, Effect, Step
<1>7. \A m \in 1..1 : \A e : ~Due(stack[m], e)
  BY <1>1, ExtIsIdle DEF Idle
<1>8. AllWhole(s) /\ AllWhole(t)
  BY <1>5, <1>6, <1>7 DEF AllWhole, Whole
<1>9. PICK B : B = Begun(s, t)
  OBVIOUS
<1>10. /\ \A u \in B : EffectsOf(u) \cap s.done = {}
       /\ \A u \in B : EffectsOf(u) # {} /\ EffectsOf(u) \subseteq t.done
       /\ t.done = s.done \cup UNION {EffectsOf(u) : u \in B}
  BY <1>4, <1>8, <1>9, CommitsWholes
<1>11. Committed.done = s.done /\ Committed'.done = t.done
  BY <1>2, <1>3
<1>12. \A v \in Promise!Executed : v \in Unit /\ EffectsOf(v) # {} /\ EffectsOf(v) \subseteq t.done
  BY <1>4, <1>11 DEF Promise!Executed
<1>13. B \in SUBSET Unit
  BY <1>9 DEF Begun
<1>14. \A u \in B, v \in B \cup Promise!Executed : u # v => NoncesOf(u) \cap NoncesOf(v) = {}
  BY <1>4, <1>10, <1>12, <1>13, NoncesApart
<1>15. Promise!Commit(B)
  BY <1>10, <1>11, <1>14 DEF Promise!Commit
<1> QED
  BY <1>13, <1>15 DEF Promise!Next

\* Inside a transaction the committed state stays as it is.
LEMMA CommittedKept ==
  ASSUME TypeInv, TypeInv', [Next]_vars, ~(Return /\ Len(stack) = 1)
  PROVE  Committed' = Committed
<1>1. stack \in Seq(Frame) /\ Len(stack) \in Nat
  BY DEF TypeInv, TypeOK
<1>2. ASSUME st' = st, stack' = stack PROVE Committed' = Committed
  BY <1>2 DEF Committed, AtRest
<1>3. ASSUME stack # <<>>, stack' # <<>>, stack'[1].snap = stack[1].snap
      PROVE  Committed' = Committed
  BY <1>3 DEF Committed, AtRest
<1>4. ASSUME NEW g, Len(stack) > 0, Pushes(g) PROVE Committed' = Committed
  <2>1. stack # <<>> /\ stack' # <<>> /\ stack'[1] = stack[1]
    BY <1>1, <1>4 DEF Pushes
  <2> QED BY <1>3, <2>1
<1>5. ASSUME stack' = stack, Len(stack) > 0 PROVE Committed' = Committed
  BY <1>1, <1>3, <1>5
<1>6. ASSUME NEW f, Len(stack) > 0, Continues(f) PROVE Committed' = Committed
  <2>1. Same(stack, stack')
    BY <1>1, <1>6, SameSetTop DEF Continues, Top, Below
  <2>2. stack # <<>> /\ stack' # <<>> /\ stack'[1].snap = stack[1].snap
    BY <1>1, <1>6, <2>1 DEF Same
  <2> QED BY <1>3, <2>2
<1>7. ASSUME NEW k \in 1..Len(stack), stack' = SubSeq(stack, 1, k - 1),
             k = 1 => st' = stack[1].snap
      PROVE  Committed' = Committed
  <2>1. Len(stack') = k - 1 /\ \A m \in 1..(k - 1) : stack'[m] = stack[m]
    BY <1>1, <1>7, CutFacts
  <2>2. CASE k = 1
    <3>1. stack' = <<>> /\ stack # <<>>
      BY <1>1, <2>1, <2>2
    <3> QED BY <1>7, <2>2, <3>1 DEF Committed, AtRest
  <2>3. CASE k > 1
    <3>1. stack # <<>> /\ stack' # <<>> /\ stack'[1].snap = stack[1].snap
      BY <1>1, <2>1, <2>3
    <3> QED BY <1>3, <3>1
  <2> QED BY <2>2, <2>3
<1>10. ASSUME NEW c \in Contract, BeginTx(c) PROVE Committed' = Committed
  <2>1. stack = <<>> /\ stack' = <<ExtFrame(c, st)>>
    BY <1>10 DEF BeginTx
  <2>2. stack' # <<>> /\ stack'[1].snap = st
    BY <2>1 DEF ExtFrame
  <2> QED BY <2>1, <2>2 DEF Committed, AtRest
<1>11. ASSUME NEW a \in Asset, Spend(a) PROVE Committed' = Committed
  BY <1>5, <1>11 DEF Spend, ExtRuns
<1>12. ASSUME NEW q \in SignedPermit, SubmitPermit(q) PROVE Committed' = Committed
  BY <1>5, <1>12 DEF SubmitPermit, ExtRuns
<1>13. CASE Return
  <2>0. Len(stack) > 0 /\ Len(stack) # 1
    BY <1>13 DEF Return, ExtRuns
  <2>a. PICK n \in Nat : n = Len(stack)
    BY <1>1
  <2>1. n = Len(stack) /\ n > 1
    BY <2>0, <2>a
  <2>2. /\ Below \in Seq(Frame) /\ Len(Below) = n - 1
        /\ \A k \in 1..(n - 1) : Below[k] = stack[k]
    BY <1>1, <2>1, CutFacts DEF Below
  <2>3. stack' = [Below EXCEPT ![n - 1] = [Below[n - 1] EXCEPT !.phase = "floor"]]
    BY <1>13, <2>1, <2>2 DEF Return
  <2>4. Below[n - 1] \in Frame /\ 1 \in 1..(n - 1)
    BY <2>1, <2>2
  <2>5. Len(stack') = n - 1 /\ stack'[1].snap = stack[1].snap
    <3>1. /\ Len(stack') = n - 1
          /\ \A k \in 1..(n - 1) : stack'[k].snap = stack[k].snap
      BY <2>1, <2>2, <2>3, <2>4 DEF Frame
    <3> QED BY <2>4, <3>1
  <2>6. stack # <<>> /\ stack' # <<>>
    BY <1>1, <2>1, <2>5
  <2> QED BY <1>3, <2>5, <2>6
<1>14. CASE Revert
  <2>1. PICK k \in 1..Len(stack) : st' = stack[k].snap /\ stack' = SubSeq(stack, 1, k - 1)
    BY <1>1, <1>14 DEF Revert
  <2> QED BY <1>7, <2>1
<1>15. ASSUME NEW h \in {CodeHash[c] : c \in Contract}, NEW b \in BOOLEAN, register(h, b)
       PROVE Committed' = Committed
  BY <1>2, <1>15 DEF register
<1>16. ASSUME NEW todo, EnterGuarded(todo) PROVE Committed' = Committed
  BY <1>4, <1>16 DEF EnterGuarded, ExtRuns, Pushes
<1>17. ASSUME NEW n \in 0..MaxBatch, NEW batch \in [1..n -> SignedSolve], entry_solve_v1(batch)
       PROVE Committed' = Committed
  BY <1>16, <1>17 DEF entry_solve_v1
<1>18. ASSUME NEW u \in SignedSolveV2, entry_solve_v2(u) PROVE Committed' = Committed
  BY <1>16, <1>18 DEF entry_solve_v2
<1>19. ASSUME NEW u \in SignedSolveV3, entry_solve_v3(u) PROVE Committed' = Committed
  BY <1>4, <1>19 DEF entry_solve_v3, ExtRuns, Pushes
<1>20. ASSUME NEW u \in SignedTransferOnly, entry_transfer_only(u) PROVE Committed' = Committed
  BY <1>4, <1>20 DEF entry_transfer_only, ExtRuns, Pushes
<1>21. ASSUME NEW u \in SignedStatement, entry_statement(u) PROVE Committed' = Committed
  BY <1>5, <1>21 DEF entry_statement, ExtRuns
<1>22. CASE PayGas
  BY <1>6, <1>22, PayGasFacts
<1>23. CASE BeginItem
  BY <1>6, <1>23, BeginItemFacts
<1>24. CASE Pull
  BY <1>6, <1>24, PullFacts
<1>25. CASE CallTarget
  <2>1. Len(stack) > 0 /\ Top \in Frame
    BY <1>25, CallTargetFacts
  <2>2. PICK f \in Frame, g \in Frame : f.kind = Top.kind /\ f.snap = Top.snap /\ Calls(f, g)
    BY <1>25, CallTargetFacts DEF Calls
  <2>3. PICK t : t = Append(SubSeq(stack, 1, Len(stack) - 1), f)
    OBVIOUS
  <2>4. Same(stack, t) /\ t \in Seq(Frame)
    BY <1>1, <2>1, <2>2, <2>3, SameSetTop, SetTopFacts DEF Top
  <2>5. stack' = Append(t, g)
    BY <2>2, <2>3 DEF Calls, Below
  <2>6. Len(t) > 0 /\ t[1].snap = stack[1].snap
    BY <1>1, <2>1, <2>4 DEF Same
  <2>7. stack # <<>> /\ stack' # <<>> /\ stack'[1] = t[1]
    BY <1>1, <2>1, <2>4, <2>5, <2>6
  <2> QED BY <1>3, <2>6, <2>7
<1>26. CASE CheckFloors
  BY <1>6, <1>26, CheckFloorsFacts
<1>27. CASE MoveNext
  BY <1>6, <1>27, MoveNextFacts
<1>28. CASE Finish
  <2>1. Len(stack) > 0 /\ stack' = SubSeq(stack, 1, Len(stack) - 1) /\ Top.kind # "ext"
    BY <1>28, FinishFacts DEF Below
  <2>2. Len(stack) # 1
    BY <2>1 DEF TypeInv, Shape, Top, IsExt
  <2>3. Len(stack) \in 1..Len(stack)
    BY <1>1, <2>1
  <2>4. PICK k \in 1..Len(stack) : k = Len(stack) /\ k # 1
    BY <2>2, <2>3
  <2>5. stack' = SubSeq(stack, 1, k - 1)
    BY <2>1, <2>4
  <2> QED BY <1>7, <2>4, <2>5
<1>29. CASE UNCHANGED vars
  BY <1>2, <1>29 DEF vars
<1> QED
  BY <1>10, <1>11, <1>12, <1>13, <1>14, <1>15, <1>17, <1>18, <1>19, <1>20, <1>21, <1>22,
     <1>23, <1>24, <1>25, <1>26, <1>27, <1>28, <1>29 DEF Next

LEMMA RefineNext == WholeInv /\ SoundInv /\ [Next]_vars => [Promise!Next]_(Committed.done)
<1> SUFFICES ASSUME WholeInv, SoundInv, [Next]_vars PROVE [Promise!Next]_(Committed.done)
  OBVIOUS
<1>1. TypeInv /\ TypeInv'
  BY TypeInvNext DEF WholeInv
<1>2. CASE Return /\ Len(stack) = 1
  BY <1>2, RefineEnd
<1>3. CASE ~(Return /\ Len(stack) = 1)
  <2>1. Committed' = Committed
    BY <1>1, <1>3, CommittedKept
  <2> QED BY <2>1
<1> QED
  BY <1>2, <1>3

\* Refinement: seen from outside, the transactions of the account commit whole
\* signed envelopes, no two of which share an ms_ts, and undo none.
THEOREM Refinement == Spec => KeepsPromise
<1>1. Spec => [](WholeInv /\ SoundInv)
  BY WholeInvInit, WholeInvNext, SoundInvInit, SoundInvNext, PTL DEF Spec
<1> QED
  BY <1>1, RefineInit, RefineNext, PTL DEF Spec, KeepsPromise, Promise!Spec

-----------------------------------------------------------------------------
(* Allowances are vetted.                                                  *)

\* The states that the frames restore are restored by frames of before, or are
\* states in which external code runs.
SnapOrigin(s) ==
  \/ \E m \in 1..Len(stack) : s = stack[m].snap
  \/ s = st /\ Observable
  \/ s = st' /\ Observable'

LEMMA SnapOrigins ==
  ASSUME TypeInv, TypeInv', [Next]_vars
  PROVE  \A k \in 1..Len(stack') : SnapOrigin(stack'[k].snap)
<1> DEFINE goal == \A k \in 1..Len(stack') : SnapOrigin(stack'[k].snap)
<1>1. stack \in Seq(Frame) /\ Len(stack) \in Nat
  BY DEF TypeInv, TypeOK
<1>2. ASSUME \A k \in 1..Len(stack') : k \in 1..Len(stack) /\ stack'[k].snap = stack[k].snap
      PROVE  goal
  BY <1>2 DEF SnapOrigin
<1>3. ASSUME stack' = stack PROVE goal
  BY <1>1, <1>3 DEF SnapOrigin
<1>4. ASSUME NEW g, Pushes(g), g.snap = st, Observable PROVE goal
  <2>1. PICK n \in Nat : n = Len(stack)
    BY <1>1
  <2>2. Len(stack') = n + 1 /\ (\A k \in 1..n : stack'[k] = stack[k]) /\ stack'[n + 1] = g
    BY <1>1, <1>4, <2>1 DEF Pushes
  <2>3. \A k \in 1..(n + 1) : k \in 1..n \/ k = n + 1
    OBVIOUS
  <2> QED BY <1>4, <2>1, <2>2, <2>3 DEF SnapOrigin
<1>5. ASSUME NEW f, Len(stack) > 0, Continues(f) PROVE goal
  <2>1. Same(stack, stack')
    BY <1>1, <1>5, SameSetTop DEF Continues, Top, Below
  <2> QED BY <1>2, <2>1 DEF Same
<1>6. ASSUME NEW k \in 1..Len(stack), stack' = SubSeq(stack, 1, k - 1) PROVE goal
  <2>1. Len(stack') = k - 1 /\ \A m \in 1..(k - 1) : stack'[m] = stack[m]
    BY <1>1, <1>6, CutFacts
  <2>2. \A m \in 1..(k - 1) : m \in 1..Len(stack)
    BY <1>1
  <2> QED BY <1>2, <2>1, <2>2
<1>10. ASSUME NEW c \in Contract, BeginTx(c) PROVE goal
  <2>1. PICK g : g = ExtFrame(c, st)
    OBVIOUS
  <2>2. Pushes(g) /\ Observable
    BY <1>10, <2>1 DEF BeginTx, Pushes, Observable, AtRest
  <2>3. g.snap = st
    BY <2>1 DEF ExtFrame
  <2> QED BY <1>4, <2>2, <2>3
<1>11. ASSUME NEW a \in Asset, Spend(a) PROVE goal
  BY <1>3, <1>11 DEF Spend
<1>12. ASSUME NEW q \in SignedPermit, SubmitPermit(q) PROVE goal
  BY <1>3, <1>12 DEF SubmitPermit
<1>13. CASE Return
  <2>1. PICK n \in Nat : n = Len(stack) /\ n > 0
    BY <1>1, <1>13 DEF Return, ExtRuns
  <2>2. CASE n = 1
    <3>1. Len(stack') = 0
      BY <1>13, <2>1, <2>2 DEF Return
    <3> QED BY <3>1
  <2>3. CASE n > 1
    <3>1. /\ Below \in Seq(Frame) /\ Len(Below) = n - 1
          /\ \A k \in 1..(n - 1) : Below[k] = stack[k]
      BY <1>1, <2>1, <2>3, CutFacts DEF Below
    <3>2. stack' = [Below EXCEPT ![n - 1] = [Below[n - 1] EXCEPT !.phase = "floor"]]
      BY <1>13, <2>1, <2>3, <3>1 DEF Return
    <3>3. Below[n - 1] \in Frame
      BY <2>3, <3>1
    <3>4. Len(stack') = n - 1 /\ \A k \in 1..(n - 1) : stack'[k].snap = stack[k].snap
      BY <2>3, <3>1, <3>2, <3>3 DEF Frame
    <3>5. \A k \in 1..(n - 1) : k \in 1..Len(stack)
      BY <2>1
    <3> QED BY <1>2, <3>4, <3>5
  <2> QED BY <2>1, <2>2, <2>3
<1>14. CASE Revert
  <2>1. PICK k \in 1..Len(stack) : stack' = SubSeq(stack, 1, k - 1)
    BY <1>1, <1>14 DEF Revert
  <2> QED BY <1>6, <2>1
<1>15. ASSUME NEW h \in {CodeHash[c] : c \in Contract}, NEW b \in BOOLEAN, register(h, b)
       PROVE goal
  BY <1>3, <1>15 DEF register
<1>16. ASSUME NEW kind, NEW todo, NEW phase, ExtRuns, Pushes(AcctFrame(kind, todo, phase))
       PROVE goal
  <2>1. AcctFrame(kind, todo, phase).snap = st
    BY DEF AcctFrame
  <2>2. Observable
    BY <1>16 DEF Observable
  <2> QED BY <1>4, <1>16, <2>1, <2>2
<1>17. ASSUME NEW n \in 0..MaxBatch, NEW batch \in [1..n -> SignedSolve], entry_solve_v1(batch)
       PROVE goal
  BY <1>16, <1>17 DEF entry_solve_v1, EnterGuarded, Pushes
<1>18. ASSUME NEW u \in SignedSolveV2, entry_solve_v2(u) PROVE goal
  BY <1>16, <1>18 DEF entry_solve_v2, EnterGuarded, Pushes
<1>19. ASSUME NEW u \in SignedSolveV3, entry_solve_v3(u) PROVE goal
  BY <1>16, <1>19 DEF entry_solve_v3, Pushes
<1>20. ASSUME NEW u \in SignedTransferOnly, entry_transfer_only(u) PROVE goal
  BY <1>16, <1>20 DEF entry_transfer_only, Pushes
<1>21. ASSUME NEW u \in SignedStatement, entry_statement(u) PROVE goal
  BY <1>3, <1>21 DEF entry_statement
<1>22. CASE PayGas
  BY <1>5, <1>22, PayGasFacts
<1>23. CASE BeginItem
  BY <1>5, <1>23, BeginItemFacts
<1>24. CASE Pull
  BY <1>5, <1>24, PullFacts
<1>25. CASE CallTarget
  <2>1. Len(stack) > 0 /\ Top \in Frame
    BY <1>25, CallTargetFacts
  <2>2. PICK f \in Frame, g \in Frame :
          /\ f.kind = Top.kind /\ f.snap = Top.snap /\ Calls(f, g)
          /\ g.snap = st' /\ g.kind = "ext"
    BY <1>25, CallTargetFacts DEF Calls
  <2>0. PICK n \in Nat : n = Len(stack)
    BY <1>1
  <2>3. PICK t : t = Append(SubSeq(stack, 1, n - 1), f)
    OBVIOUS
  <2>4. Same(stack, t) /\ t \in Seq(Frame)
    BY <1>1, <2>1, <2>2, <2>0, <2>3, SameSetTop, SetTopFacts DEF Top
  <2>5. Len(stack') = n + 1 /\ (\A k \in 1..n : stack'[k] = t[k]) /\ stack'[n + 1] = g
    <3>1. stack' = Append(t, g) /\ Len(t) = n
      BY <2>2, <2>0, <2>3, <2>4 DEF Calls, Below, Same
    <3> QED BY <2>4, <3>1
  <2>6. Observable'
    BY <2>2, <2>5 DEF Observable, ExtRuns, Top, IsExt
  <2>7. \A k \in 1..n : stack'[k].snap = stack[k].snap
    BY <2>0, <2>3, <2>4, <2>5 DEF Same
  <2>8. \A k \in 1..(n + 1) : k \in 1..n \/ k = n + 1
    OBVIOUS
  <2> QED BY <2>2, <2>0, <2>3, <2>5, <2>6, <2>7, <2>8 DEF SnapOrigin
<1>26. CASE CheckFloors
  BY <1>5, <1>26, CheckFloorsFacts
<1>27. CASE MoveNext
  BY <1>5, <1>27, MoveNextFacts
<1>28. CASE Finish
  <2>1. Len(stack) > 0 /\ stack' = SubSeq(stack, 1, Len(stack) - 1)
    BY <1>28, FinishFacts DEF Below
  <2>2. Len(stack) \in 1..Len(stack)
    BY <1>1, <2>1
  <2> QED BY <1>6, <2>1, <2>2
<1>29. CASE UNCHANGED vars
  BY <1>3, <1>29 DEF vars
<1> QED
  BY <1>10, <1>11, <1>12, <1>13, <1>14, <1>15, <1>17, <1>18, <1>19, <1>20, <1>21, <1>22,
     <1>23, <1>24, <1>25, <1>26, <1>27, <1>28, <1>29 DEF Next

LEMMA VetInvInit == Init => VetInv
<1> SUFFICES ASSUME Init PROVE VetInv
  OBVIOUS
<1>1. TypeInv
  BY TypeInvInit
<1>2. stack = <<>> /\ Len(stack) = 0 /\ Committed = st
  BY DEF Init, Committed, AtRest
<1>3. \A a \in Asset, c \in Contract : st.allow[a][c] \in Nat
  BY <1>1 DEF TypeInv, TypeOK, State
<1>4. Vetted(st, st, allowed, Approving)
  BY <1>3 DEF Vetted
<1> QED
  BY <1>1, <1>2, <1>4 DEF VetInv

\* Whoever gets no more of an allowance is as vetted as before.
LEMMA VettedLess ==
  ASSUME NEW s \in State, NEW t \in State, NEW b \in State, NEW ok, NEW U,
         Vetted(s, b, ok, {}),
         \A a \in Asset, c \in Contract : t.allow[a][c] <= s.allow[a][c]
  PROVE  Vetted(t, b, ok, U)
<1>1. \A a \in Asset, c \in Contract :
        s.allow[a][c] \in Nat /\ t.allow[a][c] \in Nat /\ b.allow[a][c] \in Nat
  BY DEF State
<1>2. \A a \in Asset, c \in Contract :
        t.allow[a][c] > b.allow[a][c] => s.allow[a][c] > b.allow[a][c]
  BY <1>1
<1> QED
  BY <1>2 DEF Vetted

LEMMA VettedSame ==
  ASSUME NEW s, NEW t, NEW b, NEW ok, NEW U, Vetted(s, b, ok, {}), t.allow = s.allow
  PROVE  Vetted(t, b, ok, U)
  BY DEF Vetted

\* Only while it takes tokens has the account approved somebody unasked.
LEMMA NotApproving ==
  ASSUME ~(Len(stack) > 0 /\ Top.kind # "ext" /\ Top.phase = "pull")
  PROVE  Approving = {}
  BY DEF Approving, InPhase, IsExt

LEMMA ObservedNotApproving ==
  ASSUME TypeInv, Observable
  PROVE  Approving = {}
<1>1. CASE stack = <<>>
  <2>1. Len(stack) = 0
    BY <1>1
  <2> QED BY <2>1, NotApproving
<1>2. CASE ExtRuns
  BY <1>2, NotApproving DEF ExtRuns, IsExt
<1> QED
  BY <1>1, <1>2 DEF Observable, AtRest

LEMMA ObservedNext == (TypeInv /\ Observable => Approving = {})'
<1>1. TypeInv /\ Observable => Approving = {}
  BY ObservedNotApproving
<1> QED
  BY <1>1, PTL

\* Inside a transaction, the state stays vetted.
LEMMA VetState ==
  ASSUME TypeInv, TypeInv', [Next]_vars, NEW b \in State, NEW ok,
         Vetted(st, b, ok, Approving), ok = allowed, HasAuthority,
         \A k \in 1..Len(stack) : Vetted(stack[k].snap, b, ok, {}),
         NEW U, U = Approving', Observable' => U = {}
  PROVE  Vetted(st', b, ok, U)
<1>t. st \in State /\ st' \in State /\ Len(stack) \in Nat
  BY DEF TypeInv, TypeOK
<1>s. ASSUME Approving = {}, st'.allow = st.allow PROVE Vetted(st', b, ok, U)
  BY <1>s, VettedSame
<1>e. ASSUME Observable, st'.allow = st.allow PROVE Vetted(st', b, ok, U)
  BY <1>e, <1>s, ObservedNotApproving
<1>1. ASSUME NEW c \in Contract, BeginTx(c) PROVE Vetted(st', b, ok, U)
  BY <1>1, <1>e DEF BeginTx, Observable, AtRest
<1>2. ASSUME NEW a \in Asset, Spend(a) PROVE Vetted(st', b, ok, U)
  <2>1. Observable /\ \A d \in Asset, c \in Contract : st'.allow[d][c] <= st.allow[d][c]
    BY <1>2, SpendFacts DEF Observable
  <2>2. Vetted(st, b, ok, {})
    BY <2>1, ObservedNotApproving
  <2> QED BY <1>t, <2>1, <2>2, VettedLess
<1>3. ASSUME NEW q \in SignedPermit, SubmitPermit(q) PROVE Vetted(st', b, ok, U)
  BY <1>3, <1>e, SubmitPermitFacts DEF Observable
<1>4. CASE Return
  BY <1>4, <1>e DEF Return, Observable
<1>5. CASE Revert
  <2>1. PICK k \in 1..Len(stack) : st' = stack[k].snap
    BY <1>5, <1>t DEF Revert
  <2>2. Vetted(st', b, ok, {})
    BY <2>1
  <2> QED BY <2>2 DEF Vetted
<1>6. ASSUME NEW h \in {CodeHash[c] : c \in Contract}, NEW v \in BOOLEAN, register(h, v)
      PROVE Vetted(st', b, ok, U)
  BY <1>6, <1>e DEF register, Observable, AtRest
<1>7. ASSUME NEW todo, EnterGuarded(todo) PROVE Vetted(st', b, ok, U)
  BY <1>7, <1>e, <1>t, LockFacts DEF EnterGuarded, Observable
<1>8. ASSUME NEW n \in 0..MaxBatch, NEW batch \in [1..n -> SignedSolve], entry_solve_v1(batch)
      PROVE Vetted(st', b, ok, U)
  BY <1>7, <1>8 DEF entry_solve_v1
<1>9. ASSUME NEW u \in SignedSolveV2, entry_solve_v2(u) PROVE Vetted(st', b, ok, U)
  BY <1>7, <1>9 DEF entry_solve_v2
<1>10. ASSUME NEW u \in SignedSolveV3, entry_solve_v3(u) PROVE Vetted(st', b, ok, U)
  BY <1>10, <1>e DEF entry_solve_v3, Observable
<1>11. ASSUME NEW u \in SignedTransferOnly, entry_transfer_only(u) PROVE Vetted(st', b, ok, U)
  <2>1. st'.allow = st.allow /\ ExtRuns
    BY <1>11, TransferOnlyFacts
  <2> QED BY <1>e, <2>1 DEF Observable
<1>12. ASSUME NEW u \in SignedStatement, entry_statement(u) PROVE Vetted(st', b, ok, U)
  <2>1. st'.allow = st.allow /\ ExtRuns
    BY <1>12, StatementFacts
  <2> QED BY <1>e, <2>1 DEF Observable
<1>13. CASE PayGas
  <2>1. st'.allow = st.allow /\ Top.phase = "next"
    BY <1>13, PayGasFacts
  <2> QED BY <1>s, <2>1, NotApproving
<1>14. CASE BeginItem
  <2>1. st'.allow = st.allow /\ Top.phase = "next"
    BY <1>14, BeginItemFacts
  <2> QED BY <1>s, <2>1, NotApproving
<1>15. CASE Pull
  <2>1. /\ Len(stack) > 0 /\ Top.kind # "ext" /\ Top.phase = "pull" /\ Top \in Frame
        /\ \A a \in Asset, c \in Contract :
             c # Item(Top.todo[1]).target => st'.allow[a][c] = st.allow[a][c]
    BY <1>15, PullFacts
  <2>2. PICK f : Continues(f) /\ f.phase = "pull" /\ f.todo = Top.todo
    BY <1>15, PullFacts
  <2>3. PICK c0 : c0 = Item(Top.todo[1]).target
    OBVIOUS
  <2>4. Approving = {c0}
    BY <2>1, <2>3 DEF Approving, InPhase, IsExt
  <2>5. Len(stack') > 0 /\ Top' = f /\ f.kind # "ext"
    <3>1. stack \in Seq(Frame) /\ f \in Frame /\ f.kind = Top.kind
          /\ stack' = Append(SubSeq(stack, 1, Len(stack) - 1), f)
      BY <2>2 DEF TypeInv, TypeOK, Continues, Below
    <3>2. Same(stack, stack') /\ stack'[Len(stack)] = f
      BY <2>1, <2>2, <3>1, SameSetTop DEF Top, Continues
    <3> QED BY <2>1, <3>1, <3>2 DEF Top, Same
  <2>6. U = {c0}
    BY <2>2, <2>3, <2>5 DEF Approving, InPhase, IsExt
  <2>7. ASSUME NEW a \in Asset, NEW c \in Contract, st'.allow[a][c] > b.allow[a][c]
        PROVE  CodeHash[c] \in ok \/ c \in {c0}
    BY <2>1, <2>3, <2>4, <2>7 DEF Vetted
  <2> QED BY <2>6, <2>7 DEF Vetted
<1>16. CASE CallTarget
  <2>1. /\ Len(stack) > 0 /\ Top.kind # "ext" /\ Top.phase = "pull"
        /\ st'.allow = st.allow /\ is_allowed(Item(Top.todo[1]).target)
    BY <1>16, CallTargetFacts
  <2>2. PICK c0 : c0 = Item(Top.todo[1]).target
    OBVIOUS
  <2>3. Approving = {c0} /\ CodeHash[c0] \in ok
    BY <2>1, <2>2 DEF Approving, InPhase, IsExt, is_allowed
  <2>4. Vetted(st, b, ok, {})
    BY <2>3 DEF Vetted
  <2> QED BY <2>1, <2>4, VettedSame
<1>17. CASE CheckFloors
  <2>1. st'.allow = st.allow /\ Top.phase = "floor"
    BY <1>17, CheckFloorsFacts
  <2> QED BY <1>s, <2>1, NotApproving
<1>18. CASE MoveNext
  <2>1. st'.allow = st.allow /\ Top.phase = "transfer"
    BY <1>18, MoveNextFacts
  <2> QED BY <1>s, <2>1, NotApproving
<1>19. CASE Finish
  <2>1. st'.allow = st.allow /\ Top.phase = "next"
    BY <1>19, FinishFacts
  <2> QED BY <1>s, <2>1, NotApproving
<1>20. CASE UNCHANGED vars
  <2>1. st' = st /\ stack' = stack /\ U = Approving
    BY <1>20 DEF vars, Approving, InPhase, Top, IsExt
  <2> QED BY <2>1
<1> QED
  BY <1>1, <1>2, <1>3, <1>4, <1>5, <1>6, <1>8, <1>9, <1>10, <1>11, <1>12, <1>13,
     <1>14, <1>15, <1>16, <1>17, <1>18, <1>19, <1>20 DEF Next

LEMMA VetInvNext == VetInv /\ [Next]_vars => VetInv'
<1> SUFFICES ASSUME VetInv, [Next]_vars PROVE VetInv'
  OBVIOUS
<1>0. TypeInv /\ TypeInv'
  BY TypeInvNext DEF VetInv
<1> SUFFICES ASSUME HasAuthority
             PROVE  /\ Vetted(st', Committed', allowed', Approving')
                    /\ \A k \in 1..Len(stack') : Vetted(stack'[k].snap, Committed', allowed', {})
  BY <1>0 DEF VetInv
<1>1. CASE stack' = <<>>
  <2>1. Committed' = st' /\ Len(stack') = 0
    BY <1>1 DEF Committed, AtRest
  <2>2. \A a \in Asset, c \in Contract : st'.allow[a][c] \in Nat
    BY <1>0 DEF TypeInv, TypeOK, State
  <2>3. \A a \in Asset, c \in Contract : ~(st'.allow[a][c] > st'.allow[a][c])
    BY <2>2
  <2> QED BY <2>1, <2>3 DEF Vetted
<1>2. CASE stack' # <<>>
  <2>1. ~(Return /\ Len(stack) = 1)
    BY <1>2 DEF Return
  <2>2. PICK b, ok : b = Committed /\ ok = allowed
    OBVIOUS
  <2>3. Committed' = b
    BY <1>0, <2>1, <2>2, CommittedKept
  <2>4. allowed' = ok
    BY <1>2, <2>2 DEF Next, vars, BeginTx, Spend, SubmitPermit, Return, Revert, register,
       entry_solve_v1, entry_solve_v2, entry_solve_v3, EnterGuarded, entry_transfer_only,
       entry_statement, PayGas, BeginItem, Pull, CallTarget, CheckFloors, MoveNext, Finish
  <2>5. b \in State
    <3>1. stack # <<>> => stack[1] \in Frame
      BY <1>0 DEF TypeInv, TypeOK
    <3> QED BY <1>0, <2>2, <3>1 DEF Committed, AtRest, TypeInv, TypeOK, Frame
  <2>6. /\ Vetted(st, b, ok, Approving)
        /\ \A k \in 1..Len(stack) : Vetted(stack[k].snap, b, ok, {})
    BY <2>2 DEF VetInv
  <2>7. PICK U : U = Approving'
    OBVIOUS
  <2>8. Observable' => U = {}
    BY <1>0, <2>7, ObservedNext
  <2>9. Vetted(st', b, ok, U)
    BY <1>0, <2>2, <2>5, <2>6, <2>7, <2>8, VetState
  <2>10. ASSUME NEW k \in 1..Len(stack') PROVE Vetted(stack'[k].snap, b, ok, {})
    <3>1. SnapOrigin(stack'[k].snap)
      BY <1>0, SnapOrigins
    <3>2. Observable => Vetted(st, b, ok, {})
      BY <1>0, <2>6, ObservedNotApproving
    <3> QED BY <2>6, <2>8, <2>9, <3>1, <3>2 DEF SnapOrigin
  <2> QED BY <2>3, <2>4, <2>7, <2>9, <2>10
<1> QED
  BY <1>1, <1>2

\* entry_solve approves the target before it asks the authority, but no external
\* code ever runs with more of an allowance than before the transaction without
\* the authority's consent.
THEOREM Vetting == Spec => []AllowancesVetted
<1>1. VetInv => AllowancesVetted
  <2> SUFFICES ASSUME VetInv, HasAuthority, Observable,
                      NEW a \in Asset, NEW c \in Contract,
                      st.allow[a][c] > Committed.allow[a][c]
               PROVE  CodeHash[c] \in allowed
    BY DEF AllowancesVetted
  <2>1. Vetted(st, Committed, allowed, {})
    BY ObservedNotApproving DEF VetInv
  <2> QED BY <2>1 DEF Vetted
<1> QED
  BY <1>1, VetInvInit, VetInvNext, PTL DEF Spec

-----------------------------------------------------------------------------
(* Sums, as cardinalities.                                                 *)

\* Finitely many values have finitely many units.
LEMMA UnitsFinite ==
  ASSUME NEW S, IsFiniteSet(S), NEW f, DOMAIN f = S, \A x \in S : f[x] \in Nat
  PROVE  IsFiniteSet(Units(f)) /\ Total(f) \in Nat
<1> DEFINE T == {{x} \X (1..f[x]) : x \in S}
           g == [x \in S |-> {x} \X (1..f[x])]
<1>1. g \in Surjection(S, T)
  <2>1. g \in [S -> T] /\ \A t \in T : \E x \in S : g[x] = t
    OBVIOUS
  <2> QED BY <2>1 DEF Surjection
<1>2. IsFiniteSet(T)
  <2> HIDE DEF T, g
  <2> QED BY <1>1, FS_Surjection
<1>3. \A t \in T : IsFiniteSet(t)
  <2> SUFFICES ASSUME NEW x \in S PROVE IsFiniteSet({x} \X (1..f[x]))
    OBVIOUS
  <2>1. IsFiniteSet({x})
    BY FS_Singleton
  <2>2. f[x] \in Int /\ 1 \in Int
    OBVIOUS
  <2>3. IsFiniteSet(1..f[x])
    BY <2>2, FS_Interval
  <2> QED BY <2>1, <2>3, FS_Product
<1>4. Units(f) = UNION T
  BY DEF Units
<1> HIDE DEF T
<1>5. IsFiniteSet(Units(f))
  BY <1>2, <1>3, <1>4, FS_UNION
<1> QED
  BY <1>5, FS_CardinalityType DEF Total

\* f has, besides the values of g on S, one more, at c.
Extends(f, g, S, c) ==
  /\ IsFiniteSet(S) /\ c \notin S
  /\ DOMAIN f = S \cup {c} /\ DOMAIN g = S
  /\ \A x \in S \cup {c} : f[x] \in Nat
  /\ \A x \in S : g[x] = f[x]

\* One more value adds its units.
LEMMA TotalSplit ==
  ASSUME NEW f, NEW g, NEW S, NEW c, Extends(f, g, S, c)
  PROVE  /\ Total(f) = Total(g) + f[c]
         /\ Total(f) \in Nat /\ Total(g) \in Nat
<1> USE DEF Extends
<1>1. IsFiniteSet(S \cup {c})
  BY FS_AddElement
<1>2. IsFiniteSet(Units(f)) /\ Total(f) \in Nat /\ IsFiniteSet(Units(g)) /\ Total(g) \in Nat
  BY <1>1, UnitsFinite
<1> DEFINE C == {c} \X (1..f[c])
<1>3. Units(f) = Units(g) \cup C
  <2>1. Units(g) = UNION {{x} \X (1..f[x]) : x \in S}
    BY DEF Units
  <2>2. Units(f) = UNION {{x} \X (1..f[x]) : x \in S \cup {c}}
    BY DEF Units
  <2> QED BY <2>1, <2>2
<1>4. Units(g) \cap C = {}
  <2>1. \A p \in Units(g) : p[1] \in S
    BY DEF Units
  <2>2. \A p \in C : p[1] = c
    OBVIOUS
  <2> QED BY <2>1, <2>2
<1>5. IsFiniteSet(C) /\ Cardinality(C) = f[c]
  <2>1. IsFiniteSet({c}) /\ Cardinality({c}) = 1
    BY FS_Singleton
  <2>2. f[c] \in Nat /\ f[c] \in Int /\ 1 \in Int
    OBVIOUS
  <2>3. IsFiniteSet(1..f[c]) /\ Cardinality(1..f[c]) = IF 1 > f[c] THEN 0 ELSE f[c] - 1 + 1
    BY <2>2, FS_Interval
  <2>4. Cardinality(1..f[c]) = f[c]
    BY <2>2, <2>3
  <2>5. IsFiniteSet(C) /\ Cardinality(C) = Cardinality({c}) * Cardinality(1..f[c])
    BY <2>1, <2>3, FS_Product
  <2> QED BY <2>1, <2>2, <2>4, <2>5
<1> HIDE DEF C
<1>6. Cardinality(Units(f)) = Cardinality(Units(g)) + Cardinality(C) - Cardinality(Units(g) \cap C)
  BY <1>2, <1>3, <1>5, FS_Union
<1>7. Cardinality(Units(g) \cap C) = 0
  BY <1>4, FS_EmptySet
<1> QED
  BY <1>2, <1>5, <1>6, <1>7 DEF Total

LEMMA TotalZero ==
  ASSUME NEW f, \A x \in DOMAIN f : f[x] = 0
  PROVE  Total(f) = 0
<1>1. \A x \in DOMAIN f : {x} \X (1..f[x]) = {}
  OBVIOUS
<1>2. Units(f) = {}
  BY <1>1 DEF Units
<1> QED
  BY <1>2, FS_EmptySet DEF Total

\* Replacing a value replaces its units.
LEMMA TotalUpdate ==
  ASSUME NEW S, IsFiniteSet(S), NEW c \in S, NEW f \in [S -> Nat], NEW h \in [S -> Nat],
         \A x \in S : x # c => h[x] = f[x]
  PROVE  /\ Total(h) + f[c] = Total(f) + h[c]
         /\ Total(h) \in Nat /\ Total(f) \in Nat
         /\ f[c] <= Total(f)
<1> DEFINE R == S \ {c}
           g == [x \in R |-> f[x]]
<1>0. IsFiniteSet(R)
  BY FS_RemoveElement
<1>1. c \notin R /\ S = R \cup {c}
  OBVIOUS
<1>2. DOMAIN g = R /\ (\A x \in R : g[x] = f[x]) /\ (\A x \in R : g[x] = h[x])
  OBVIOUS
<1>a. /\ DOMAIN f = R \cup {c} /\ DOMAIN h = R \cup {c}
      /\ \A x \in R \cup {c} : f[x] \in Nat /\ h[x] \in Nat
  BY <1>1
<1> HIDE DEF R, g
<1>b. Extends(f, g, R, c) /\ Extends(h, g, R, c)
  BY <1>0, <1>1, <1>2, <1>a DEF Extends
<1>3. Total(f) = Total(g) + f[c] /\ Total(f) \in Nat /\ Total(g) \in Nat
  BY <1>b, TotalSplit
<1>4. Total(h) = Total(g) + h[c] /\ Total(h) \in Nat
  BY <1>b, TotalSplit
<1>5. f[c] \in Nat /\ h[c] \in Nat
  OBVIOUS
<1> QED
  BY <1>3, <1>4, <1>5

-----------------------------------------------------------------------------
(* The ledgers: what the operators do to balances and approvals.           *)

\* From s to t, n of the asset a went from x to y.
Moved(s, t, a, x, y, n) ==
  \A b \in Asset, z \in Addr :
    /\ b # a => t.bal[b][z] = s.bal[b][z]
    /\ b = a => t.bal[b][z] + (IF z = x THEN n ELSE 0) = s.bal[b][z] + (IF z = y THEN n ELSE 0)

LEMMA TransferLedger ==
  ASSUME NEW s \in State, NEW a \in Asset, NEW x \in Addr, NEW y \in Addr,
         NEW n \in Nat, n <= s.bal[a][x], NEW t, t = TransferFrom(s, a, x, y, n)
  PROVE  /\ t \in State /\ t.approved = s.approved /\ t.allow = s.allow
         /\ t.done = s.done /\ t.twice = s.twice
         /\ Moved(s, t, a, x, y, n)
<1> DEFINE p == [s.bal[a] EXCEPT ![x] = @ - n]
           b == [p EXCEPT ![y] = @ + n]
<1>1. s.bal \in [Asset -> [Addr -> Nat]] /\ s.bal[a] \in [Addr -> Nat]
  BY DEF State
<1>2. p \in [Addr -> Nat] /\ \A z \in Addr : p[z] = IF z = x THEN s.bal[a][z] - n ELSE s.bal[a][z]
  BY <1>1
<1>3. b \in [Addr -> Nat] /\ \A z \in Addr : b[z] = IF z = y THEN p[z] + n ELSE p[z]
  <2>1. p \in [Addr -> Nat]
    BY <1>2
  <2> HIDE DEF p
  <2>2. p[y] + n \in Nat
    BY <2>1
  <2> QED BY <2>1, <2>2
<1>4. \A z \in Addr : b[z] + (IF z = x THEN n ELSE 0) = s.bal[a][z] + (IF z = y THEN n ELSE 0)
  <2> HIDE DEF p, b
  <2> TAKE z \in Addr
  <2>1. PICK m \in Nat : m = s.bal[a][z]
    BY <1>1
  <2>2. p[z] = IF z = x THEN m - n ELSE m
    BY <1>2, <2>1
  <2>3. b[z] = IF z = y THEN p[z] + n ELSE p[z]
    BY <1>3
  <2> QED BY <2>1, <2>2, <2>3
<1>5. t = [s EXCEPT !.bal = [s.bal EXCEPT ![a] = b]]
  BY DEF TransferFrom, State
<1> HIDE DEF p, b
<1>6. t.bal = [s.bal EXCEPT ![a] = b] /\ t.approved = s.approved
  BY <1>5 DEF State
<1>7. \A c \in Asset : t.bal[c] = IF c = a THEN b ELSE s.bal[c]
  BY <1>1, <1>6
<1>8. Moved(s, t, a, x, y, n)
  BY <1>4, <1>7 DEF Moved
<1> QED
  BY <1>6, <1>8, TransferFromFacts

LEMMA PermitLedger ==
  ASSUME NEW s \in State, NEW ps \in Seq(Permit), NEW t, t = DoPermit(s, ps)
  PROVE  /\ t \in State /\ t.bal = s.bal /\ t.allow = s.allow
         /\ t.done = s.done /\ t.twice = s.twice
         /\ \A a \in Asset : <<a, Self>> \in t.approved => <<a, Self>> \in s.approved
<1>1. t.approved = s.approved \cup {<<ps[i].asset, ps[i].signer>> : i \in DOMAIN ps}
  BY DEF DoPermit, State
<1>2. \A i \in DOMAIN ps : ps[i] \in Permit
  OBVIOUS
<1>3. \A i \in DOMAIN ps : ps[i].signer # Self
  BY <1>2 DEF Permit
<1>4. ASSUME NEW a \in Asset, <<a, Self>> \in t.approved PROVE <<a, Self>> \in s.approved
  <2>1. CASE <<a, Self>> \in s.approved
    BY <2>1
  <2>2. ASSUME NEW i \in DOMAIN ps, <<a, Self>> = <<ps[i].asset, ps[i].signer>> PROVE FALSE
    BY <1>3, <2>2
  <2> QED BY <1>1, <1>4, <2>1, <2>2
<1> QED
  BY <1>4, DoPermitFacts

\* From s to t, the effect e was recorded.
Records(s, t, e) ==
  /\ t.done = s.done \cup {e}
  /\ t.twice = IF e \in s.done THEN s.twice \cup {e} ELSE s.twice

LEMMA LogLedger ==
  ASSUME NEW s \in State, NEW e \in Effect, NEW t, t = Log(s, e)
  PROVE  /\ t \in State /\ t.bal = s.bal /\ t.allow = s.allow /\ t.approved = s.approved
         /\ Records(s, t, e)
<1>1. t.bal = s.bal /\ t.approved = s.approved
  BY DEF Log, State
<1> QED
  BY <1>1, LogFacts DEF Records

LEMMA ApproveLedger ==
  ASSUME NEW s \in State, NEW a \in Asset, NEW c \in Contract, NEW n \in Nat,
         NEW t, t = Approve(s, a, c, n)
  PROVE  /\ t \in State /\ t.bal = s.bal /\ t.approved = s.approved
         /\ t.done = s.done /\ t.twice = s.twice
         /\ t.allow[a][c] = n
         /\ \A b \in Asset : b # a => t.allow[b] = s.allow[b]
         /\ \A d \in Contract : d # c => t.allow[a][d] = s.allow[a][d]
<1>1. t.bal = s.bal /\ t.approved = s.approved
  BY DEF Approve, State
<1>2. s.allow \in [Asset -> [Contract -> Nat]]
  BY DEF State
<1>3. \A b \in Asset : b # a => t.allow[b] = s.allow[b]
  BY <1>2 DEF Approve, State
<1> QED
  BY <1>1, <1>3, ApproveFacts

LEMMA ExchangeLedger ==
  ASSUME NEW s \in State, NEW n \in Nonce
  PROVE  Exchange(s, n).bal = s.bal /\ Exchange(s, n).approved = s.approved
  BY DEF Exchange, State

LEMMA LockLedger ==
  ASSUME NEW s \in State, NEW b
  PROVE  /\ [s EXCEPT !.lock = b].bal = s.bal
         /\ [s EXCEPT !.lock = b].approved = s.approved
         /\ [s EXCEPT !.lock = b].allow = s.allow
         /\ [s EXCEPT !.lock = b].done = s.done
         /\ [s EXCEPT !.lock = b].twice = s.twice
  BY DEF State

\* What each effect takes, and from whom.
LEMMA DebitGas ==
  ASSUME NEW s, NEW n, NEW a, NEW x
  PROVE  Debit(EffectOf(s, "gas", n), a, x) =
           IF s.unit.gas_token = a /\ EthOwner = x THEN s.unit.gas_token_amt ELSE 0
  BY DEF Debit, EffectOf

LEMMA DebitPull ==
  ASSUME NEW s, NEW n, NEW a, NEW x, NEW f, f = Item(s).from[n]
  PROVE  Debit(EffectOf(s, "pull", n), a, x) =
           IF f.asset = a /\ transfer_owner(s.unit) = x THEN f.to_take ELSE 0
  BY DEF Debit, EffectOf

LEMMA DebitMove ==
  ASSUME NEW s, NEW n, NEW a, NEW x, NEW t, t = s.unit.args[n]
  PROVE  Debit(EffectOf(s, "move", n), a, x) = IF t.asset = a /\ t.from = x THEN t.amt ELSE 0
  BY DEF Debit, EffectOf

LEMMA DebitNone ==
  ASSUME NEW s, NEW w \in {"call", "statement"}, NEW n, NEW a, NEW x
  PROVE  Debit(EffectOf(s, w, n), a, x) = 0
  BY DEF Debit, EffectOf

-----------------------------------------------------------------------------
(* Ledger(s) is kept.                                                      *)

LEMMA CoveredSame ==
  ASSUME NEW s \in State, NEW t \in State, Covered(s), t.done = s.done, t.twice = s.twice,
         \A a \in Asset, x \in Addr \ {Self} : s.bal[a][x] <= t.bal[a][x]
  PROVE  Covered(t)
<1>1. ASSUME s.twice = {}, NEW a \in Asset, NEW x \in Addr \ {Self}
      PROVE  InitBal[a][x] <= t.bal[a][x] + Total([e \in s.done |-> Debit(e, a, x)])
  <2>1. PICK f : f = [e \in s.done |-> Debit(e, a, x)]
    OBVIOUS
  <2>2. Total(f) \in Nat
    BY <2>1, UnitsFinite DEF Covered
  <2>3. InitBal[a][x] <= s.bal[a][x] + Total(f)
    BY <1>1, <2>1 DEF Covered
  <2>4. InitBal[a][x] \in Nat /\ s.bal[a][x] \in Nat /\ t.bal[a][x] \in Nat
    BY LedgerAssumption DEF State
  <2>5. s.bal[a][x] <= t.bal[a][x]
    OBVIOUS
  <2>6. InitBal[a][x] <= t.bal[a][x] + Total(f)
    BY <2>2, <2>3, <2>4, <2>5
  <2> QED BY <2>1, <2>6
<1> QED
  BY <1>1 DEF Covered

\* An effect that accounts for what it takes keeps the losses covered.
LEMMA CoveredEffect ==
  ASSUME NEW s \in State, NEW t \in State, NEW d \in Effect, Covered(s),
         Records(s, t, d),
         \A a \in Asset, x \in Addr : Debit(d, a, x) \in Nat,
         \A a \in Asset, x \in Addr \ {Self} : s.bal[a][x] <= t.bal[a][x] + Debit(d, a, x)
  PROVE  Covered(t)
<1>0. /\ t.done = s.done \cup {d}
      /\ t.twice = IF d \in s.done THEN s.twice \cup {d} ELSE s.twice
  BY DEF Records
<1>1. IsFiniteSet(t.done)
  BY <1>0, FS_AddElement DEF Covered
<1>2. \A e \in t.done, a \in Asset, x \in Addr : Debit(e, a, x) \in Nat
  BY <1>0 DEF Covered
<1>3. ASSUME t.twice = {}, NEW a \in Asset, NEW x \in Addr \ {Self}
      PROVE  InitBal[a][x] <= t.bal[a][x] + Total([e \in t.done |-> Debit(e, a, x)])
  <2>1. d \notin s.done /\ s.twice = {}
    BY <1>0, <1>3
  <2>2. PICK f : f = [e \in t.done |-> Debit(e, a, x)]
    OBVIOUS
  <2>3. PICK g : g = [e \in s.done |-> Debit(e, a, x)]
    OBVIOUS
  <2>7. Total(f) = Total(g) + Debit(d, a, x) /\ Total(f) \in Nat /\ Total(g) \in Nat
    <3>1. IsFiniteSet(s.done) /\ \A e \in s.done \cup {d} : Debit(e, a, x) \in Nat
      BY <1>0, <1>2 DEF Covered
    <3>2. Extends(f, g, s.done, d) /\ f[d] = Debit(d, a, x)
      BY <1>0, <2>1, <2>2, <2>3, <3>1 DEF Extends
    <3>3. Total(f) = Total(g) + f[d] /\ Total(f) \in Nat /\ Total(g) \in Nat
      BY <3>2, TotalSplit
    <3> QED BY <3>2, <3>3
  <2>8. InitBal[a][x] <= s.bal[a][x] + Total(g)
    BY <2>1, <2>3 DEF Covered
  <2>9. InitBal[a][x] \in Nat /\ s.bal[a][x] \in Nat /\ t.bal[a][x] \in Nat
    BY LedgerAssumption DEF State
  <2>10. s.bal[a][x] <= t.bal[a][x] + Debit(d, a, x) /\ Debit(d, a, x) \in Nat
    OBVIOUS
  <2>11. InitBal[a][x] <= t.bal[a][x] + Total(f)
    BY <2>7, <2>8, <2>9, <2>10
  <2> QED BY <2>2, <2>11
<1> QED
  BY <1>1, <1>2, <1>3 DEF Covered

\* The same allowances against no fewer tokens are backed.
LEMMA BackedSame ==
  ASSUME NEW s \in State, NEW t \in State, Backed(s), t.allow = s.allow,
         \A a \in Asset : <<a, Self>> \in t.approved => <<a, Self>> \in s.approved,
         \A a \in Asset : s.bal[a][Self] <= t.bal[a][Self]
  PROVE  Backed(t)
<1> SUFFICES ASSUME NEW a \in Asset
             PROVE  <<a, Self>> \notin t.approved /\ Total(t.allow[a]) <= t.bal[a][Self]
  BY DEF Backed
<1>1. PICK f \in [Contract -> Nat] : f = s.allow[a] /\ f = t.allow[a]
  BY DEF State
<1>2. Total(f) \in Nat
  BY <1>1, OwnTokensAssumption, UnitsFinite
<1>3. s.bal[a][Self] \in Nat /\ t.bal[a][Self] \in Nat /\ s.bal[a][Self] <= t.bal[a][Self]
  BY AddressAssumption DEF State
<1>4. Total(f) <= s.bal[a][Self]
  BY <1>1 DEF Backed
<1>5. Total(f) <= t.bal[a][Self]
  BY <1>2, <1>3, <1>4
<1> QED
  BY <1>1, <1>5 DEF Backed

\* The allowance of c for a grows by no more than the account's tokens do, or
\* shrinks by no less.
LEMMA BackedChange ==
  ASSUME NEW s \in State, NEW t \in State, Backed(s), NEW a \in Asset, NEW c \in Contract,
         t.approved = s.approved,
         \A b \in Asset : b # a => t.allow[b] = s.allow[b] /\ t.bal[b][Self] = s.bal[b][Self],
         \A d \in Contract : d # c => t.allow[a][d] = s.allow[a][d],
         t.allow[a][c] + s.bal[a][Self] <= s.allow[a][c] + t.bal[a][Self]
  PROVE  Backed(t)
<1> SUFFICES ASSUME NEW b \in Asset
             PROVE  Total(t.allow[b]) <= t.bal[b][Self]
  BY DEF Backed
<1>1. CASE b # a
  BY <1>1 DEF Backed
<1>2. CASE b = a
  <2>1. PICK f \in [Contract -> Nat] : f = s.allow[a]
    BY DEF State
  <2>2. PICK h \in [Contract -> Nat] : h = t.allow[a]
    BY DEF State
  <2>3. \A d \in Contract : d # c => h[d] = f[d]
    BY <2>1, <2>2
  <2>4. Total(h) + f[c] = Total(f) + h[c] /\ Total(h) \in Nat /\ Total(f) \in Nat
    BY <2>3, OwnTokensAssumption, TotalUpdate
  <2>5. s.bal[a][Self] \in Nat /\ t.bal[a][Self] \in Nat /\ f[c] \in Nat /\ h[c] \in Nat
    BY AddressAssumption DEF State
  <2>6. Total(f) <= s.bal[a][Self]
    BY <2>1 DEF Backed
  <2>7. h[c] + s.bal[a][Self] <= f[c] + t.bal[a][Self]
    BY <2>1, <2>2
  <2>8. Total(h) <= t.bal[a][Self]
    BY <2>4, <2>5, <2>6, <2>7
  <2> QED BY <1>2, <2>2, <2>8
<1> QED
  BY <1>1, <1>2

-----------------------------------------------------------------------------
(* The steps that move tokens.                                             *)

LEMMA SpendLedger ==
  ASSUME TypeInv, TypeInv', Ledger(st), NEW a \in Asset, Spend(a)
  PROVE  Ledger(st')
<1>1. Top.who \in Contract /\ Top.who \in Addr /\ Self \in Addr /\ Top.who # Self
  BY TopFacts, AddressAssumption DEF Spend, ExtRuns
<1>2. /\ st \in State /\ st' \in State
      /\ \A b \in Asset, c \in Contract : st.allow[b][c] \in Nat
      /\ \A b \in Asset, z \in Addr : st.bal[b][z] \in Nat /\ st'.bal[b][z] \in Nat
  BY DEF TypeInv, TypeOK, State
<1>3. PICK n \in 1..st.allow[a][Top.who] :
        /\ n <= st.bal[a][Self]
        /\ st' = Approve(TransferFrom(st, a, Self, Top.who, n), a, Top.who,
                         st.allow[a][Top.who] - n)
  BY DEF Spend
<1>4. PICK w, m : w = Top.who /\ m = st.allow[a][Top.who] - n
  OBVIOUS
<1>5. PICK s1 : s1 = TransferFrom(st, a, Self, w, n)
  OBVIOUS
<1>6. n \in Nat /\ m \in Nat /\ w \in Contract /\ w \in Addr /\ w # Self
      /\ m + n = st.allow[a][w]
  BY <1>1, <1>2, <1>3, <1>4
<1>7. /\ s1 \in State /\ s1.approved = st.approved /\ s1.allow = st.allow
      /\ s1.done = st.done /\ s1.twice = st.twice /\ Moved(st, s1, a, Self, w, n)
  BY <1>1, <1>2, <1>3, <1>5, <1>6, TransferLedger
<1>8. st' = Approve(s1, a, w, m)
  BY <1>3, <1>4, <1>5
<1>9. /\ st'.bal = s1.bal /\ st'.approved = s1.approved
      /\ st'.done = s1.done /\ st'.twice = s1.twice /\ st'.allow[a][w] = m
      /\ \A b \in Asset : b # a => st'.allow[b] = s1.allow[b]
      /\ \A d \in Contract : d # w => st'.allow[a][d] = s1.allow[a][d]
  BY <1>6, <1>7, <1>8, ApproveLedger
<1>10. Moved(st, st', a, Self, w, n)
  BY <1>7, <1>9 DEF Moved
<1>11. Covered(st')
  <2>1. ASSUME NEW b \in Asset, NEW z \in Addr \ {Self} PROVE st.bal[b][z] <= st'.bal[b][z]
    <3>1. /\ b # a => st'.bal[b][z] = st.bal[b][z]
          /\ b = a => st'.bal[b][z] + 0 = st.bal[b][z] + (IF z = w THEN n ELSE 0)
      BY <1>10 DEF Moved
    <3> QED BY <1>2, <1>6, <3>1
  <2> QED BY <1>2, <1>7, <1>9, <2>1, CoveredSame DEF Ledger
<1>12. Backed(st')
  <2>1. \A b \in Asset : b # a => st'.bal[b][Self] = st.bal[b][Self]
    BY <1>1, <1>10 DEF Moved
  <2>2. st'.bal[a][Self] + n = st.bal[a][Self] + 0
    BY <1>1, <1>6, <1>10 DEF Moved
  <2>3. st'.allow[a][w] + st.bal[a][Self] <= st.allow[a][w] + st'.bal[a][Self]
    BY <1>1, <1>2, <1>6, <1>9, <2>2
  <2> QED BY <1>2, <1>6, <1>7, <1>9, <2>1, <2>3, BackedChange DEF Ledger
<1> QED
  BY <1>11, <1>12 DEF Ledger

\* A permit, a payment from x and its effect d: a gas payment, or a transfer.
LEMMA PayLedger ==
  ASSUME NEW s \in State, Ledger(s), NEW ps \in Seq(Permit), NEW a \in Asset,
         NEW x \in Addr, NEW y \in Addr, NEW n \in Nat, NEW d \in Effect,
         NEW s1, s1 = DoPermit(s, ps), CanTransferFrom(s1, a, x, n),
         \A b \in Asset, z \in Addr : Debit(d, b, z) = IF a = b /\ x = z THEN n ELSE 0
  PROVE  Ledger(Log(TransferFrom(s1, a, x, y, n), d))
<1>1. /\ s1 \in State /\ s1.bal = s.bal /\ s1.allow = s.allow
      /\ s1.done = s.done /\ s1.twice = s.twice
      /\ \A b \in Asset : <<b, Self>> \in s1.approved => <<b, Self>> \in s.approved
  BY PermitLedger
<1>2. PICK s2 : s2 = TransferFrom(s1, a, x, y, n)
  OBVIOUS
<1>3. /\ s2 \in State /\ s2.approved = s1.approved /\ s2.allow = s1.allow
      /\ s2.done = s1.done /\ s2.twice = s1.twice /\ Moved(s1, s2, a, x, y, n)
  BY <1>1, <1>2, TransferLedger DEF CanTransferFrom
<1>a. s2 \in State
  BY <1>3
<1>4. PICK t : t = Log(s2, d)
  OBVIOUS
<1>5. /\ t \in State /\ t.bal = s2.bal /\ t.allow = s2.allow /\ t.approved = s2.approved
      /\ Records(s2, t, d)
  BY <1>a, <1>4, LogLedger
<1>b. Records(s, t, d)
  BY <1>1, <1>3, <1>5 DEF Records
<1>6. x # Self
  BY <1>1 DEF CanTransferFrom, Ledger, Backed
<1>7. \A b \in Asset, z \in Addr :
        /\ b # a => t.bal[b][z] = s.bal[b][z]
        /\ b = a => t.bal[b][z] + (IF z = x THEN n ELSE 0) = s.bal[b][z] + (IF z = y THEN n ELSE 0)
  BY <1>1, <1>3, <1>5 DEF Moved
<1>8. \A b \in Asset, z \in Addr : s.bal[b][z] \in Nat /\ t.bal[b][z] \in Nat
  BY <1>5 DEF State
<1>9. Covered(t)
  <2>1. \A b \in Asset, z \in Addr : Debit(d, b, z) \in Nat
    OBVIOUS
  <2>2. ASSUME NEW b \in Asset, NEW z \in Addr \ {Self}
        PROVE  s.bal[b][z] <= t.bal[b][z] + Debit(d, b, z)
    <3>1. PICK k \in Nat, l \in Nat : k = s.bal[b][z] /\ l = t.bal[b][z]
      BY <1>8
    <3>2. /\ b # a => l = k
          /\ b = a => l + (IF z = x THEN n ELSE 0) = k + (IF z = y THEN n ELSE 0)
      BY <1>7, <3>1
    <3>3. Debit(d, b, z) = IF a = b /\ x = z THEN n ELSE 0
      OBVIOUS
    <3>4. k <= l + (IF a = b /\ x = z THEN n ELSE 0)
      BY <3>2
    <3> QED BY <3>1, <3>3, <3>4
  <2> QED BY <1>5, <1>b, <2>1, <2>2, CoveredEffect DEF Ledger
<1>10. Backed(t)
  <2>1. ASSUME NEW b \in Asset PROVE s.bal[b][Self] <= t.bal[b][Self]
    <3>1. Self \in Addr
      BY AddressAssumption
    <3>2. PICK k \in Nat, l \in Nat : k = s.bal[b][Self] /\ l = t.bal[b][Self]
      BY <1>8, <3>1
    <3>3. /\ b # a => l = k
          /\ b = a => l + 0 = k + (IF Self = y THEN n ELSE 0)
      BY <1>6, <1>7, <3>1, <3>2
    <3>4. k <= l
      BY <3>3
    <3> QED BY <3>2, <3>4
  <2> QED BY <1>1, <1>3, <1>5, <2>1, BackedSame DEF Ledger
<1> QED
  BY <1>2, <1>4, <1>9, <1>10 DEF Ledger

LEMMA PayGasLedger ==
  ASSUME TypeInv, Ledger(st), PayGas
  PROVE  Ledger(st')
<1>1. PICK s : s = Top.todo[1]
  OBVIOUS
<1>2. /\ GasStep(s) /\ Top.todo \in Seq(Step) /\ Top.todo # <<>>
      /\ EffectOf(s, "gas", 0) \in Effect
  BY <1>1, PayGasFacts
<1>3. Head(Top.todo) = s
  BY <1>1, <1>2
<1>4. PICK u : u = s.unit /\ u \in SolveV3Args
  BY <1>2, SignedAssumption DEF GasStep
<1>5. PICK s1 : s1 = DoPermit(st, u.gas_token_permit)
  OBVIOUS
<1>6. /\ CanTransferFrom(s1, u.gas_token, EthOwner, u.gas_token_amt)
      /\ st' = Log(TransferFrom(s1, u.gas_token, EthOwner, Clearinghouse, u.gas_token_amt),
                   EffectOf(s, "gas", 0))
  BY <1>3, <1>4, <1>5 DEF PayGas
<1>7. /\ u.gas_token_permit \in Seq(Permit) /\ u.gas_token \in Asset
      /\ u.gas_token_amt \in Nat /\ EthOwner \in Addr /\ Clearinghouse \in Addr
  BY <1>4, AddressAssumption DEF SolveV3Args
<1>8. \A b \in Asset, z \in Addr : Debit(EffectOf(s, "gas", 0), b, z) =
        IF u.gas_token = b /\ EthOwner = z THEN u.gas_token_amt ELSE 0
  BY <1>4, DebitGas
<1>9. st \in State
  BY DEF TypeInv, TypeOK
<1> QED
  BY <1>2, <1>5, <1>6, <1>7, <1>8, <1>9, PayLedger

LEMMA MoveNextLedger ==
  ASSUME TypeInv, Ledger(st), MoveNext
  PROVE  Ledger(st')
<1>1. PICK s, j : s = Top.todo[1] /\ j = Top.j
  OBVIOUS
<1>2. /\ s \in Step /\ s.unit \in SignedTransferOnly /\ Len(Top.todo) = 1 /\ Top \in Frame
      /\ j \in 1..Len(s.unit.args) /\ EffectOf(s, "move", j) \in Effect
  BY <1>1, MoveNextFacts
<1>3. Head(Top.todo) = s
  BY <1>1, <1>2 DEF Frame
<1>4. s.unit.args \in Seq(Transfer)
  BY <1>2, SignedAssumption DEF TransferOnlyArgs
<1>5. PICK t \in Transfer : t = s.unit.args[j]
  BY <1>2, <1>4
<1>6. PICK s1 : s1 = DoPermit(st, t.permit)
  OBVIOUS
<1>7. /\ CanTransferFrom(s1, t.asset, t.from, t.amt)
      /\ st' = Log(TransferFrom(s1, t.asset, t.from, t.recipient, t.amt), EffectOf(s, "move", j))
  BY <1>1, <1>3, <1>5, <1>6 DEF MoveNext
<1>8. /\ t.permit \in Seq(Permit) /\ t.asset \in Asset /\ t.amt \in Nat
      /\ t.from \in Addr /\ t.recipient \in Addr
  BY DEF Transfer
<1>9. \A b \in Asset, z \in Addr : Debit(EffectOf(s, "move", j), b, z) =
        IF t.asset = b /\ t.from = z THEN t.amt ELSE 0
  BY <1>5, DebitMove
<1>10. st \in State
  BY DEF TypeInv, TypeOK
<1> QED
  BY <1>2, <1>6, <1>7, <1>8, <1>9, <1>10, PayLedger

LEMMA PullLedger ==
  ASSUME TypeInv, TypeInv', Ledger(st), Pull
  PROVE  Ledger(st')
<1>1. PICK s, j : s = Top.todo[1] /\ j = Top.j
  OBVIOUS
<1>2. /\ SolveStep(s) /\ Top \in Frame /\ j \in Nat /\ EffectOf(s, "pull", j) \in Effect
      /\ Top.todo \in Seq(Step) /\ Top.todo # <<>> /\ j > 0
  BY <1>1, PullFacts, PhaseFacts DEF Frame, Pull
<1>3. Head(Top.todo) = s
  BY <1>1, <1>2
<1>4. Item(s) \in SolveArgs /\ transfer_owner(s.unit) \in Addr /\ Self \in Addr
  BY <1>2, StepFacts, AddressAssumption
<1>5. Item(s).from \in Seq(FromArgs) /\ Item(s).target \in Contract
  BY <1>4 DEF SolveArgs
<1>6. j \in 1..Len(Item(s).from)
  BY <1>1, <1>2, <1>3, <1>5 DEF Pull
<1>7. PICK x \in FromArgs : x = Item(s).from[j]
  BY <1>5, <1>6
<1>8. PICK a, n, c, o : a = x.asset /\ n = x.to_take /\ c = Item(s).target /\ o = transfer_owner(s.unit)
  OBVIOUS
<1>9. a \in Asset /\ n \in Nat /\ c \in Contract /\ o \in Addr
  BY <1>4, <1>5, <1>8 DEF FromArgs
<1>10. PICK d \in Effect : d = EffectOf(s, "pull", j)
  BY <1>2
<1>11. PICK s1 : s1 = TransferFrom(st, a, o, Self, n)
  OBVIOUS
<1>12. PICK s2 : s2 = Approve(s1, a, c, n)
  OBVIOUS
<1>13. CanTransferFrom(st, a, o, n) /\ st' = Log(s2, d)
  BY <1>1, <1>3, <1>7, <1>8, <1>10, <1>11, <1>12 DEF Pull
<1>14. st \in State /\ st' \in State
  BY DEF TypeInv, TypeOK
<1>15. o # Self
  BY <1>9, <1>13 DEF CanTransferFrom, Ledger, Backed
<1>16. /\ s1 \in State /\ s1.approved = st.approved /\ s1.allow = st.allow
       /\ s1.done = st.done /\ s1.twice = st.twice /\ Moved(st, s1, a, o, Self, n)
  BY <1>4, <1>9, <1>11, <1>13, <1>14, TransferLedger DEF CanTransferFrom
<1>17. /\ s2 \in State /\ s2.bal = s1.bal /\ s2.approved = s1.approved
       /\ s2.done = s1.done /\ s2.twice = s1.twice /\ s2.allow[a][c] = n
       /\ \A b \in Asset : b # a => s2.allow[b] = s1.allow[b]
       /\ \A k \in Contract : k # c => s2.allow[a][k] = s1.allow[a][k]
  BY <1>9, <1>12, <1>16, ApproveLedger
<1>18. s2 \in State
  BY <1>17
<1>19. /\ st'.bal = s2.bal /\ st'.allow = s2.allow /\ st'.approved = s2.approved
       /\ Records(s2, st', d)
  BY <1>13, <1>18, LogLedger
<1>a. Records(st, st', d)
  BY <1>16, <1>17, <1>19 DEF Records
<1>20. \A b \in Asset, z \in Addr :
         /\ b # a => st'.bal[b][z] = st.bal[b][z]
         /\ b = a => st'.bal[b][z] + (IF z = o THEN n ELSE 0) = st.bal[b][z] + (IF z = Self THEN n ELSE 0)
  BY <1>16, <1>17, <1>19 DEF Moved
<1>21. \A b \in Asset, z \in Addr : st.bal[b][z] \in Nat /\ st'.bal[b][z] \in Nat
  BY <1>14 DEF State
<1>22. Covered(st')
  <2>1. \A b \in Asset, z \in Addr : Debit(d, b, z) = IF a = b /\ o = z THEN n ELSE 0
    BY <1>7, <1>8, <1>10, DebitPull
  <2>2. \A b \in Asset, z \in Addr : Debit(d, b, z) \in Nat
    BY <1>9, <2>1
  <2>3. ASSUME NEW b \in Asset, NEW z \in Addr \ {Self}
        PROVE  st.bal[b][z] <= st'.bal[b][z] + Debit(d, b, z)
    <3>1. PICK k \in Nat, l \in Nat : k = st.bal[b][z] /\ l = st'.bal[b][z]
      BY <1>21
    <3>2. /\ b # a => l = k
          /\ b = a => l + (IF z = o THEN n ELSE 0) = k + 0
      BY <1>20, <3>1
    <3>3. Debit(d, b, z) = IF a = b /\ o = z THEN n ELSE 0
      BY <2>1
    <3>4. k <= l + (IF a = b /\ o = z THEN n ELSE 0)
      BY <1>9, <3>2
    <3> QED BY <3>1, <3>3, <3>4
  <2> QED BY <1>14, <1>a, <2>2, <2>3, CoveredEffect DEF Ledger
<1>23. Backed(st')
  <2>1. \A b \in Asset : b # a => st'.bal[b][Self] = st.bal[b][Self]
    BY <1>4, <1>20
  <2>2. st'.bal[a][Self] + 0 = st.bal[a][Self] + n
    BY <1>4, <1>9, <1>15, <1>20
  <2>3. st.allow[a][c] \in Nat
    BY <1>9, <1>14 DEF State
  <2>4. st'.allow[a][c] + st.bal[a][Self] <= st.allow[a][c] + st'.bal[a][Self]
    BY <1>4, <1>9, <1>17, <1>19, <1>21, <2>2, <2>3
  <2>5. \A b \in Asset : b # a => st'.allow[b] = st.allow[b]
    BY <1>16, <1>17, <1>19
  <2>6. \A k \in Contract : k # c => st'.allow[a][k] = st.allow[a][k]
    BY <1>16, <1>17, <1>19
  <2> QED BY <1>9, <1>14, <1>16, <1>17, <1>19, <2>1, <2>4, <2>5, <2>6, BackedChange DEF Ledger
<1> QED
  BY <1>22, <1>23 DEF Ledger

\* A step that leaves the balances, the allowances and the effects alone, and
\* gives nobody an approval for the account's tokens.
LEMMA LedgerQuiet ==
  ASSUME NEW s \in State, NEW t \in State, Ledger(s), t.bal = s.bal, t.allow = s.allow,
         t.done = s.done, t.twice = s.twice,
         \A a \in Asset : <<a, Self>> \in t.approved => <<a, Self>> \in s.approved
  PROVE  Ledger(t)
<1>1. \A a \in Asset, x \in Addr : s.bal[a][x] \in Nat /\ s.bal[a][x] <= t.bal[a][x]
  BY DEF State
<1>2. \A a \in Asset : s.bal[a][Self] <= t.bal[a][Self]
  BY <1>1, AddressAssumption
<1>3. \A a \in Asset, x \in Addr \ {Self} : s.bal[a][x] <= t.bal[a][x]
  BY <1>1
<1> QED
  BY <1>2, <1>3, BackedSame, CoveredSame DEF Ledger

\* An effect that takes nothing.
LEMMA LedgerEffect ==
  ASSUME NEW s \in State, Ledger(s), NEW x, NEW w \in {"call", "statement"}, NEW n,
         NEW d \in Effect, d = EffectOf(x, w, n)
  PROVE  Ledger(Log(s, d))
<1>1. PICK t : t = Log(s, d)
  OBVIOUS
<1>2. /\ t \in State /\ t.bal = s.bal /\ t.allow = s.allow /\ t.approved = s.approved
      /\ Records(s, t, d)
  BY <1>1, LogLedger
<1>3. \A a, z : Debit(d, a, z) = 0
  BY DebitNone
<1>4. \A a \in Asset, z \in Addr : s.bal[a][z] \in Nat /\ t.bal[a][z] = s.bal[a][z]
  BY <1>2 DEF State
<1>5. \A a \in Asset, z \in Addr \ {Self} : s.bal[a][z] <= t.bal[a][z] + Debit(d, a, z)
  BY <1>3, <1>4
<1>6. \A a \in Asset, z \in Addr : Debit(d, a, z) \in Nat
  BY <1>3
<1>7. Covered(t)
  <2>1. Covered(s) /\ t \in State /\ Records(s, t, d)
    BY <1>2 DEF Ledger
  <2> QED BY <1>5, <1>6, <2>1, CoveredEffect
<1>8. ASSUME NEW a \in Asset PROVE s.bal[a][Self] <= t.bal[a][Self]
  <2>1. s.bal[a][Self] \in Nat /\ t.bal[a][Self] = s.bal[a][Self]
    BY <1>4, AddressAssumption
  <2> QED BY <2>1
<1>9. Backed(t)
  BY <1>2, <1>8, BackedSame DEF Ledger
<1> QED
  BY <1>1, <1>7, <1>9 DEF Ledger

-----------------------------------------------------------------------------
(* LedgerInv.                                                              *)

LEMMA LedgerInvInit == Init => LedgerInv
<1> SUFFICES ASSUME Init PROVE LedgerInv
  OBVIOUS
<1>1. /\ st.bal = InitBal /\ st.approved = InitApproved /\ st.done = {}
      /\ st.allow = [a \in Asset |-> [c \in Contract |-> 0]] /\ Len(stack) = 0
  BY DEF Init
<1>2. Backed(st)
  <2> SUFFICES ASSUME NEW a \in Asset
               PROVE  <<a, Self>> \notin st.approved /\ Total(st.allow[a]) <= st.bal[a][Self]
    BY DEF Backed
  <2>1. <<a, Self>> \notin st.approved
    BY <1>1, OwnTokensAssumption
  <2>2. PICK f : f = st.allow[a] /\ \A c \in DOMAIN f : f[c] = 0
    BY <1>1
  <2>3. Total(f) = 0
    BY <2>2, TotalZero
  <2>4. st.bal[a][Self] \in Nat
    BY <1>1, LedgerAssumption, AddressAssumption
  <2> QED BY <2>1, <2>2, <2>3, <2>4
<1>3. Covered(st)
  <2>1. ASSUME NEW a \in Asset, NEW x \in Addr \ {Self}
        PROVE  InitBal[a][x] <= st.bal[a][x] + Total([e \in st.done |-> Debit(e, a, x)])
    <3>1. PICK f : f = [e \in st.done |-> Debit(e, a, x)]
      OBVIOUS
    <3>2. Total(f) = 0
      BY <1>1, <3>1, TotalZero
    <3>3. InitBal[a][x] \in Nat
      BY LedgerAssumption
    <3>4. InitBal[a][x] <= st.bal[a][x] + Total(f)
      BY <1>1, <3>2, <3>3
    <3> QED BY <3>1, <3>4
  <2>2. IsFiniteSet(st.done)
    BY <1>1, FS_EmptySet
  <2> QED BY <1>1, <2>1, <2>2 DEF Covered
<1> QED
  BY <1>1, <1>2, <1>3 DEF LedgerInv, Ledger

\* Every step leads to a state whose ledger is sound.
LEMMA LedgerState ==
  ASSUME TypeInv, TypeInv', LedgerInv, [Next]_vars
  PROVE  Ledger(st')
<1>t. st \in State /\ st' \in State /\ Len(stack) \in Nat /\ Ledger(st)
  BY DEF TypeInv, TypeOK, LedgerInv
<1>s. ASSUME st' = st PROVE Ledger(st')
  BY <1>s, <1>t
<1>l. ASSUME NEW b, st' = [st EXCEPT !.lock = b] PROVE Ledger(st')
  <2>1. /\ st'.bal = st.bal /\ st'.approved = st.approved /\ st'.allow = st.allow
        /\ st'.done = st.done /\ st'.twice = st.twice
    BY <1>l, <1>t, LockLedger
  <2> QED BY <1>t, <2>1, LedgerQuiet
<1>1. ASSUME NEW c \in Contract, BeginTx(c) PROVE Ledger(st')
  BY <1>1, <1>s DEF BeginTx
<1>2. ASSUME NEW a \in Asset, Spend(a) PROVE Ledger(st')
  BY <1>2, <1>t, SpendLedger
<1>3. ASSUME NEW q \in SignedPermit, SubmitPermit(q) PROVE Ledger(st')
  <2>1. <<q>> \in Seq(Permit) /\ st' = DoPermit(st, <<q>>)
    BY <1>3, SignedAssumption DEF SubmitPermit
  <2>2. /\ st'.bal = st.bal /\ st'.allow = st.allow /\ st'.done = st.done /\ st'.twice = st.twice
        /\ \A a \in Asset : <<a, Self>> \in st'.approved => <<a, Self>> \in st.approved
    BY <1>t, <2>1, PermitLedger
  <2> QED BY <1>t, <2>2, LedgerQuiet
<1>4. CASE Return
  BY <1>4, <1>s DEF Return
<1>5. CASE Revert
  <2>1. PICK k \in 1..Len(stack) : st' = stack[k].snap
    BY <1>5, <1>t DEF Revert
  <2> QED BY <2>1 DEF LedgerInv
<1>6. ASSUME NEW h \in {CodeHash[c] : c \in Contract}, NEW v \in BOOLEAN, register(h, v)
      PROVE Ledger(st')
  BY <1>6, <1>s DEF register
<1>7. ASSUME NEW todo, EnterGuarded(todo) PROVE Ledger(st')
  BY <1>7, <1>l DEF EnterGuarded
<1>8. ASSUME NEW n \in 0..MaxBatch, NEW batch \in [1..n -> SignedSolve], entry_solve_v1(batch)
      PROVE Ledger(st')
  BY <1>7, <1>8 DEF entry_solve_v1
<1>9. ASSUME NEW u \in SignedSolveV2, entry_solve_v2(u) PROVE Ledger(st')
  BY <1>7, <1>9 DEF entry_solve_v2
<1>10. ASSUME NEW u \in SignedSolveV3, entry_solve_v3(u) PROVE Ledger(st')
  BY <1>10, <1>s DEF entry_solve_v3
<1>11. ASSUME NEW u \in SignedTransferOnly, entry_transfer_only(u) PROVE Ledger(st')
  <2>1. u.ms_ts \in Nonce
    BY SignedAssumption DEF TransferOnlyArgs
  <2>2. PICK s1 : s1 = Exchange(st, u.ms_ts)
    OBVIOUS
  <2>3. /\ s1 \in State /\ s1.bal = st.bal /\ s1.approved = st.approved /\ s1.allow = st.allow
        /\ s1.done = st.done /\ s1.twice = st.twice
    BY <1>t, <2>1, <2>2, ExchangeFacts, ExchangeLedger
  <2>4. st' = [s1 EXCEPT !.lock = TRUE]
    BY <1>11, <2>2 DEF entry_transfer_only
  <2>5. /\ st'.bal = s1.bal /\ st'.approved = s1.approved /\ st'.allow = s1.allow
        /\ st'.done = s1.done /\ st'.twice = s1.twice
    BY <2>3, <2>4, LockLedger
  <2> QED BY <1>t, <2>3, <2>5, LedgerQuiet
<1>12. ASSUME NEW u \in SignedStatement, entry_statement(u) PROVE Ledger(st')
  <2>1. u.ms_ts \in Nonce
    BY SignedAssumption DEF StatementArgs
  <2>2. PICK s1 : s1 = Exchange(st, u.ms_ts)
    OBVIOUS
  <2>3. /\ s1 \in State /\ s1.bal = st.bal /\ s1.approved = st.approved /\ s1.allow = st.allow
        /\ s1.done = st.done /\ s1.twice = st.twice
    BY <1>t, <2>1, <2>2, ExchangeFacts, ExchangeLedger
  <2>4. Ledger(s1)
    BY <1>t, <2>3, LedgerQuiet
  <2>5. PICK x : x = [unit |-> u, idx |-> 1]
    OBVIOUS
  <2>6. x \in Step
    BY <2>5 DEF Step, Unit
  <2>7. EffectOf(x, "statement", 0) \in Effect
    BY <2>6, EffectFacts
  <2>8. st' = Log(s1, EffectOf(x, "statement", 0))
    BY <1>12, <2>2, <2>5 DEF entry_statement
  <2> QED BY <2>3, <2>4, <2>7, <2>8, LedgerEffect
<1>13. CASE PayGas
  BY <1>13, <1>t, PayGasLedger
<1>14. CASE BeginItem
  <2>1. PICK s : s = Top.todo[1]
    OBVIOUS
  <2>2. SolveStep(s) /\ Top.todo \in Seq(Step) /\ Top.todo # <<>>
    BY <1>14, <2>1, BeginItemFacts
  <2>3. Head(Top.todo) = s
    BY <2>1, <2>2
  <2>4. PICK n, ps : n = NonceOf(s) /\ ps = Item(s).permit
    OBVIOUS
  <2>5. n \in Nonce /\ ps \in Seq(Permit)
    BY <2>2, <2>4, StepFacts DEF SolveArgs
  <2>6. PICK s1 : s1 = Exchange(st, n)
    OBVIOUS
  <2>7. /\ s1 \in State /\ s1.bal = st.bal /\ s1.approved = st.approved /\ s1.allow = st.allow
        /\ s1.done = st.done /\ s1.twice = st.twice
    BY <1>t, <2>5, <2>6, ExchangeFacts, ExchangeLedger
  <2>8. st' = DoPermit(s1, ps)
    BY <1>14, <2>3, <2>4, <2>6 DEF BeginItem
  <2>9. /\ st'.bal = s1.bal /\ st'.allow = s1.allow /\ st'.done = s1.done /\ st'.twice = s1.twice
        /\ \A a \in Asset : <<a, Self>> \in st'.approved => <<a, Self>> \in s1.approved
    BY <2>5, <2>7, <2>8, PermitLedger
  <2> QED BY <1>t, <2>7, <2>9, LedgerQuiet
<1>15. CASE Pull
  BY <1>15, <1>t, PullLedger
<1>16. CASE CallTarget
  <2>1. PICK s : s = Top.todo[1]
    OBVIOUS
  <2>2. /\ SolveStep(s) /\ EffectOf(s, "call", 0) \in Effect
        /\ Len(stack) > 0 /\ Top \in Frame
    BY <1>16, <2>1, CallTargetFacts
  <2>3. Top.todo \in Seq(Step) /\ Top.todo # <<>>
    BY <1>16, PhaseFacts DEF CallTarget
  <2>4. Head(Top.todo) = s
    BY <2>1, <2>3
  <2>5. st' = Log(st, EffectOf(s, "call", 0))
    BY <1>16, <2>4 DEF CallTarget
  <2> QED BY <1>t, <2>2, <2>5, LedgerEffect
<1>17. CASE CheckFloors
  BY <1>17, <1>s DEF CheckFloors
<1>18. CASE MoveNext
  BY <1>18, <1>t, MoveNextLedger
<1>19. CASE Finish
  BY <1>19, <1>s, <1>l DEF Finish, Unlock
<1>20. CASE UNCHANGED vars
  BY <1>20, <1>s DEF vars
<1> QED
  BY <1>1, <1>2, <1>3, <1>4, <1>5, <1>6, <1>8, <1>9, <1>10, <1>11, <1>12, <1>13,
     <1>14, <1>15, <1>16, <1>17, <1>18, <1>19, <1>20 DEF Next

LEMMA LedgerInvNext == TypeInv /\ LedgerInv /\ [Next]_vars => LedgerInv'
<1> SUFFICES ASSUME TypeInv, LedgerInv, [Next]_vars PROVE LedgerInv'
  OBVIOUS
<1>1. TypeInv'
  BY TypeInvNext
<1>2. Ledger(st')
  BY <1>1, LedgerState
<1>3. ASSUME NEW k \in 1..Len(stack') PROVE Ledger(stack'[k].snap)
  <2>1. SnapOrigin(stack'[k].snap)
    BY <1>1, SnapOrigins
  <2> QED BY <1>2, <2>1 DEF SnapOrigin, LedgerInv
<1> QED
  BY <1>2, <1>3 DEF LedgerInv

\* The tokens that entry_solve pulled for a target stay there until that target
\* spends them, whatever else the account does for others.
THEOREM Backing == Spec => []AllowancesBacked
<1>1. LedgerInv => AllowancesBacked
  BY DEF LedgerInv, Ledger, Backed, AllowancesBacked
<1>2. TypeInv /\ [Next]_vars => TypeInv'
  BY TypeInvNext
<1> QED
  BY <1>1, <1>2, TypeInvInit, LedgerInvInit, LedgerInvNext, PTL DEF Spec

\* Nobody loses more than the account's key signed for, for every set of signed
\* operations in which no SolveV3 is empty.
THEOREM Debiting ==
  ASSUME V3NotEmpty
  PROVE  Spec => []DebitsAreSigned
<1>1. LedgerInv /\ EffectsOnce => DebitsAreSigned
  BY DEF LedgerInv, Ledger, Covered, EffectsOnce, DebitsAreSigned
<1>2. Spec => []EffectsOnce
  BY NoReplay
<1>3. TypeInv /\ [Next]_vars => TypeInv'
  BY TypeInvNext
<1>4. Spec => []LedgerInv
  BY <1>3, TypeInvInit, LedgerInvInit, LedgerInvNext, PTL DEF Spec
<1> QED
  BY <1>1, <1>2, <1>4, PTL
=============================================================================
