--------------------------- MODULE AccountProofs ---------------------------
(***************************************************************************)
(* Proofs about Account, for every set of signed operations, every token   *)
(* ledger and every depth of the call stack: types and the reentrancy      *)
(* guard; no two operations with the same single-use value both take       *)
(* effect; and no signed operation takes effect twice, the latter provided *)
(* that every signed SolveV3 has an element (V3NotEmpty).                  *)
(***************************************************************************)
EXTENDS AccountInv, TLAPS

-----------------------------------------------------------------------------
(* The call stack as a sequence.                                           *)

\* Pushing a frame keeps the others where they are.
LEMMA PushFacts ==
  ASSUME NEW S, NEW s \in Seq(S), NEW f \in S
  PROVE  /\ Append(s, f) \in Seq(S)
         /\ Len(Append(s, f)) = Len(s) + 1
         /\ \A k \in 1..Len(s) : Append(s, f)[k] = s[k]
         /\ Append(s, f)[Len(s) + 1] = f
  OBVIOUS

\* Cutting the stack keeps the frames below the cut.
LEMMA CutFacts ==
  ASSUME NEW S, NEW s \in Seq(S), NEW n \in Nat, n <= Len(s)
  PROVE  /\ SubSeq(s, 1, n) \in Seq(S)
         /\ Len(SubSeq(s, 1, n)) = n
         /\ \A k \in 1..n : SubSeq(s, 1, n)[k] = s[k]
  OBVIOUS

\* Replacing the top frame keeps the others.
LEMMA SetTopFacts ==
  ASSUME NEW S, NEW s \in Seq(S), Len(s) > 0, NEW f \in S,
         NEW t, t = Append(SubSeq(s, 1, Len(s) - 1), f)
  PROVE  /\ t \in Seq(S)
         /\ Len(t) = Len(s)
         /\ \A k \in 1..(Len(s) - 1) : t[k] = s[k]
         /\ t[Len(s)] = f
<1>1. Len(s) \in Nat /\ Len(s) - 1 \in Nat /\ Len(s) - 1 <= Len(s)
  OBVIOUS
<1>2. /\ SubSeq(s, 1, Len(s) - 1) \in Seq(S)
      /\ Len(SubSeq(s, 1, Len(s) - 1)) = Len(s) - 1
      /\ \A k \in 1..(Len(s) - 1) : SubSeq(s, 1, Len(s) - 1)[k] = s[k]
  BY <1>1, CutFacts
<1> QED
  BY <1>1, <1>2, PushFacts

-----------------------------------------------------------------------------
(* The operators on the state.                                             *)

LEMMA LogFacts ==
  ASSUME NEW s \in State, NEW e \in Effect
  PROVE  /\ Log(s, e) \in State
         /\ Log(s, e).used = s.used
         /\ Log(s, e).lock = s.lock
         /\ Log(s, e).allow = s.allow
         /\ Log(s, e).done = s.done \cup {e}
         /\ Log(s, e).twice = IF e \in s.done THEN s.twice \cup {e} ELSE s.twice
  BY DEF Log, State

LEMMA TransferFromFacts ==
  ASSUME NEW s \in State, NEW a \in Asset, NEW x \in Addr, NEW y \in Addr,
         NEW n \in Nat, n <= s.bal[a][x]
  PROVE  /\ TransferFrom(s, a, x, y, n) \in State
         /\ TransferFrom(s, a, x, y, n).used = s.used
         /\ TransferFrom(s, a, x, y, n).lock = s.lock
         /\ TransferFrom(s, a, x, y, n).allow = s.allow
         /\ TransferFrom(s, a, x, y, n).done = s.done
         /\ TransferFrom(s, a, x, y, n).twice = s.twice
<1> DEFINE b == [[s.bal[a] EXCEPT ![x] = @ - n] EXCEPT ![y] = @ + n]
<1>1. s.bal \in [Asset -> [Addr -> Nat]] /\ s.bal[a] \in [Addr -> Nat]
  BY DEF State
<1>2. [s.bal[a] EXCEPT ![x] = @ - n] \in [Addr -> Nat]
  BY <1>1
<1>3. b \in [Addr -> Nat]
  BY <1>2
<1>4. [s.bal EXCEPT ![a] = b] \in [Asset -> [Addr -> Nat]]
  BY <1>1, <1>3
<1>5. TransferFrom(s, a, x, y, n) = [s EXCEPT !.bal = [s.bal EXCEPT ![a] = b]]
  BY DEF TransferFrom, State
<1> HIDE DEF b
<1> QED
  BY <1>4, <1>5 DEF State

LEMMA DoPermitFacts ==
  ASSUME NEW s \in State, NEW ps \in Seq(Permit)
  PROVE  /\ DoPermit(s, ps) \in State
         /\ DoPermit(s, ps).used = s.used
         /\ DoPermit(s, ps).lock = s.lock
         /\ DoPermit(s, ps).bal = s.bal
         /\ DoPermit(s, ps).allow = s.allow
         /\ DoPermit(s, ps).done = s.done
         /\ DoPermit(s, ps).twice = s.twice
<1>1. \A i \in DOMAIN ps : ps[i] \in Permit
  OBVIOUS
<1>2. /\ {ps[i].id : i \in DOMAIN ps} \subseteq PermitId
      /\ {<<ps[i].asset, ps[i].signer>> : i \in DOMAIN ps} \subseteq Asset \X Addr
  BY <1>1 DEF Permit
<1> QED
  BY <1>2 DEF DoPermit, State

LEMMA ApproveFacts ==
  ASSUME NEW s \in State, NEW a \in Asset, NEW c \in Contract, NEW n \in Nat
  PROVE  /\ Approve(s, a, c, n) \in State
         /\ Approve(s, a, c, n).used = s.used
         /\ Approve(s, a, c, n).lock = s.lock
         /\ Approve(s, a, c, n).done = s.done
         /\ Approve(s, a, c, n).twice = s.twice
         /\ Approve(s, a, c, n).allow[a][c] = n
         /\ \A b \in Asset, d \in Contract :
              b # a \/ d # c => Approve(s, a, c, n).allow[b][d] = s.allow[b][d]
<1> DEFINE b == [s.allow[a] EXCEPT ![c] = n]
<1>1. s.allow \in [Asset -> [Contract -> Nat]] /\ s.allow[a] \in [Contract -> Nat]
  BY DEF State
<1>2. b \in [Contract -> Nat] /\ b[c] = n /\ \A d \in Contract : d # c => b[d] = s.allow[a][d]
  BY <1>1
<1>3. Approve(s, a, c, n) = [s EXCEPT !.allow = [s.allow EXCEPT ![a] = b]]
  BY DEF Approve, State
<1> HIDE DEF b
<1>4. [s.allow EXCEPT ![a] = b] \in [Asset -> [Contract -> Nat]]
  BY <1>1, <1>2
<1> QED
  BY <1>1, <1>2, <1>3, <1>4 DEF State

LEMMA ExchangeFacts ==
  ASSUME NEW s \in State, NEW n \in Nonce
  PROVE  /\ Exchange(s, n) \in State
         /\ Exchange(s, n).used = s.used \cup {n}
         /\ Exchange(s, n).lock = s.lock
         /\ Exchange(s, n).bal = s.bal
         /\ Exchange(s, n).allow = s.allow
         /\ Exchange(s, n).done = s.done
         /\ Exchange(s, n).twice = s.twice
  BY DEF Exchange, State

LEMMA LockFacts ==
  ASSUME NEW s \in State, NEW b \in BOOLEAN
  PROVE  /\ [s EXCEPT !.lock = b] \in State
         /\ [s EXCEPT !.lock = b].used = s.used
         /\ [s EXCEPT !.lock = b].lock = b
         /\ [s EXCEPT !.lock = b].allow = s.allow
         /\ [s EXCEPT !.lock = b].done = s.done
         /\ [s EXCEPT !.lock = b].twice = s.twice
  BY DEF State

-----------------------------------------------------------------------------
(* The signed operations.                                                  *)

LEMMA StepFacts ==
  ASSUME NEW s, SolveStep(s)
  PROVE  /\ Item(s) \in SolveArgs
         /\ IsSolve(s.unit)
         /\ NonceOf(s) = Item(s).ms_ts
         /\ NonceOf(s) \in Nonce
         /\ permit_owner(s.unit) \in Addr
         /\ transfer_owner(s.unit) \in Addr
<1>1. \/ s.unit \in SolveArgsSigArgs
      \/ s.unit \in SolveV2Args
      \/ s.unit \in SolveV3Args
  BY SignedAssumption DEF SolveStep, SolveUnit
<1>2. s.unit.args \in Seq(SolveArgs) /\ s.idx \in 1..Len(s.unit.args)
  BY <1>1 DEF SolveStep, SolveArgsSigArgs, SolveV2Args, SolveV3Args
<1>3. Item(s) \in SolveArgs
  BY <1>2 DEF Item
<1>4. IsSolve(s.unit)
  BY <1>1 DEF IsSolve, SolveArgsSigArgs, SolveV2Args, SolveV3Args
<1>5. permit_owner(s.unit) \in Addr /\ transfer_owner(s.unit) \in Addr
  BY <1>1, AddressAssumption
     DEF permit_owner, transfer_owner, SolveArgsSigArgs, SolveV2Args, SolveV3Args
<1> QED
  BY <1>3, <1>4, <1>5 DEF NonceOf, SolveArgs

LEMMA EffectFacts ==
  ASSUME NEW s \in Step, NEW n \in Nat,
         NEW w \in {"gas", "pull", "call", "move", "statement"}
  PROVE  EffectOf(s, w, n) \in Effect
  BY DEF EffectOf, Effect

-----------------------------------------------------------------------------
(* The shape of the stack under pushes, pops and changes of the top frame. *)

LEMMA ShapePush ==
  ASSUME NEW s \in Seq(Frame), Shape(s), NEW f \in Frame, FrameInv(f),
         Len(s) = 0 => IsExt(f),
         Len(s) > 0 => (IsExt(f) <=> ~IsExt(s[Len(s)])),
         Len(s) > 0 /\ IsExt(f) => s[Len(s)].phase = "target"
  PROVE  Append(s, f) \in Seq(Frame) /\ Shape(Append(s, f))
<1>1. PICK n \in Nat : n = Len(s)
  OBVIOUS
<1>2. /\ Append(s, f) \in Seq(Frame)
      /\ Len(Append(s, f)) = n + 1
      /\ \A k \in 1..n : Append(s, f)[k] = s[k]
      /\ Append(s, f)[n + 1] = f
  BY <1>1, PushFacts
<1> SUFFICES ASSUME NEW k \in 1..(n + 1)
             PROVE  LET t == Append(s, f) IN
                    /\ FrameInv(t[k])
                    /\ k = 1 => IsExt(t[k])
                    /\ k > 1 => (IsExt(t[k]) <=> ~IsExt(t[k - 1]))
                    /\ k < n + 1 /\ ~IsExt(t[k]) => t[k].phase = "target"
  BY <1>2 DEF Shape
<1>3. CASE k = n + 1
  BY <1>1, <1>2, <1>3
<1>4. CASE k \in 1..n
  BY <1>1, <1>2, <1>4 DEF Shape
<1> QED
  BY <1>1, <1>3, <1>4

LEMMA ShapeCut ==
  ASSUME NEW s \in Seq(Frame), Shape(s), NEW n \in Nat, n <= Len(s)
  PROVE  SubSeq(s, 1, n) \in Seq(Frame) /\ Shape(SubSeq(s, 1, n))
  BY CutFacts DEF Shape

LEMMA ShapeSetTop ==
  ASSUME NEW s \in Seq(Frame), Len(s) > 0, Shape(s), NEW f \in Frame, FrameInv(f),
         f.kind = s[Len(s)].kind,
         NEW t, t = Append(SubSeq(s, 1, Len(s) - 1), f)
  PROVE  t \in Seq(Frame) /\ Shape(t) /\ Len(t) = Len(s) /\ t[Len(s)] = f
<1>1. PICK n \in Nat : n = Len(s)
  OBVIOUS
<1>2. /\ t \in Seq(Frame)
      /\ Len(t) = n
      /\ \A k \in 1..(n - 1) : t[k] = s[k]
      /\ t[n] = f
  BY <1>1, SetTopFacts
<1>3. IsExt(f) <=> IsExt(s[n])
  BY <1>1 DEF IsExt
<1>6. ASSUME NEW k \in 1..n
      PROVE  /\ FrameInv(t[k])
             /\ k = 1 => IsExt(t[k])
             /\ k > 1 => (IsExt(t[k]) <=> ~IsExt(t[k - 1]))
             /\ k < n /\ ~IsExt(t[k]) => t[k].phase = "target"
  <2>1. CASE k = n
    BY <1>1, <1>2, <1>3, <2>1 DEF Shape
  <2>2. CASE k \in 1..(n - 1)
    BY <1>1, <1>2, <2>2 DEF Shape
  <2> QED
    BY <1>1, <2>1, <2>2
<1> QED
  BY <1>1, <1>2, <1>6 DEF Shape

-----------------------------------------------------------------------------
(* Type correctness and the shape of the stack.                            *)

\* The top frame becomes f, which differs from it only in its work.
Continues(f) ==
  /\ f \in Frame /\ f.kind = Top.kind /\ f.snap = Top.snap
  /\ stack' = Append(Below, f)

LEMMA TopFacts ==
  ASSUME TypeInv, Len(stack) > 0
  PROVE  /\ Top \in Frame /\ FrameInv(Top)
         /\ Top = stack[Len(stack)]
         /\ Len(stack) \in Nat
         /\ IsExt(Top) => Top.who \in Contract
  BY DEF TypeInv, TypeOK, Shape, Top, FrameInv, IsExt

LEMMA TypeBeginTx ==
  ASSUME TypeInv, NEW c \in Contract, BeginTx(c)
  PROVE  TypeInv'
<1>1. ExtFrame(c, st) \in Frame /\ FrameInv(ExtFrame(c, st)) /\ IsExt(ExtFrame(c, st))
  BY DEF TypeInv, TypeOK, ExtFrame, Frame, FrameInv, IsExt
<1>2. stack' = <<ExtFrame(c, st)>> /\ st' = st /\ allowed' = allowed
  BY DEF BeginTx
<1> QED
  BY <1>1, <1>2 DEF TypeInv, TypeOK, Shape

LEMMA TypeSpend ==
  ASSUME TypeInv, NEW a \in Asset, Spend(a)
  PROVE  TypeInv'
<1>1. Top.who \in Contract /\ Top.who \in Addr /\ Self \in Addr
  BY TopFacts, AddressAssumption DEF Spend, ExtRuns
<1>2. st \in State /\ st.allow[a][Top.who] \in Nat /\ st.bal[a][Self] \in Nat
  BY <1>1 DEF TypeInv, TypeOK, State
<1>3. PICK n \in 1..st.allow[a][Top.who] :
        /\ n <= st.bal[a][Self]
        /\ st' = Approve(TransferFrom(st, a, Self, Top.who, n), a, Top.who,
                         st.allow[a][Top.who] - n)
  BY DEF Spend
<1>4. TransferFrom(st, a, Self, Top.who, n) \in State
  BY <1>1, <1>2, <1>3, TransferFromFacts
<1>5. st.allow[a][Top.who] - n \in Nat
  BY <1>2, <1>3
<1>6. st' \in State
  BY <1>1, <1>3, <1>4, <1>5, ApproveFacts
<1> QED
  BY <1>6 DEF Spend, TypeInv, TypeOK

LEMMA TypeSubmitPermit ==
  ASSUME TypeInv, NEW p \in SignedPermit, SubmitPermit(p)
  PROVE  TypeInv'
<1>1. <<p>> \in Seq(Permit)
  BY SignedAssumption
<1> QED
  BY <1>1, DoPermitFacts DEF SubmitPermit, TypeInv, TypeOK

LEMMA TypeReturn ==
  ASSUME TypeInv, Return
  PROVE  TypeInv'
<1>0. PICK n \in Nat : n = Len(stack)
  BY DEF TypeInv, TypeOK
<1>1. n \in Nat /\ n > 0 /\ IsExt(Top) /\ stack \in Seq(Frame) /\ Shape(stack) /\ n = Len(stack)
  BY <1>0 DEF Return, ExtRuns, TypeInv, TypeOK
<1>2. CASE n = 1
  BY <1>1, <1>2 DEF Return, TypeInv, TypeOK, Shape
<1>3. CASE n > 1
  <2>1. /\ Below \in Seq(Frame) /\ Len(Below) = n - 1 /\ Shape(Below)
        /\ \A k \in 1..(n - 1) : Below[k] = stack[k]
    BY <1>1, <1>3, CutFacts, ShapeCut DEF Below
  <2>2. ~IsExt(Below[n - 1]) /\ Below[n - 1].phase = "target"
    BY <1>1, <1>3, <2>1 DEF Shape, Top
  <2> DEFINE f == [Below[n - 1] EXCEPT !.phase = "floor"]
  <2>3. Below[n - 1] \in Frame /\ FrameInv(Below[n - 1])
    BY <1>1, <1>3, <2>1 DEF Shape
  <2>4. f \in Frame /\ FrameInv(f) /\ f.kind = Below[n - 1].kind
    BY <2>2, <2>3 DEF Frame, FrameInv, IsExt
  <2>5. stack' = [Below EXCEPT ![n - 1] = f]
    BY <1>1, <1>3, <2>1 DEF Return
  <2> HIDE DEF f
  <2>6. /\ stack' \in Seq(Frame) /\ Len(stack') = n - 1
        /\ \A k \in 1..(n - 2) : stack'[k] = stack[k]
        /\ stack'[n - 1] = f
    BY <1>1, <1>3, <2>1, <2>4, <2>5
  <2>7. IsExt(f) <=> IsExt(stack[n - 1])
    BY <2>1, <2>4, <1>1, <1>3 DEF IsExt
  <2>8. Shape(stack')
    <3> SUFFICES ASSUME NEW k \in 1..(n - 1)
                 PROVE  /\ FrameInv(stack'[k])
                        /\ k = 1 => IsExt(stack'[k])
                        /\ k > 1 => (IsExt(stack'[k]) <=> ~IsExt(stack'[k - 1]))
                        /\ k < n - 1 /\ ~IsExt(stack'[k]) => stack'[k].phase = "target"
      BY <2>6 DEF Shape
    <3>1. CASE k = n - 1
      BY <3>1, <1>1, <1>3, <2>4, <2>6, <2>7 DEF Shape
    <3>2. CASE k \in 1..(n - 2)
      BY <3>2, <1>1, <1>3, <2>6 DEF Shape
    <3> QED
      BY <3>1, <3>2, <1>1, <1>3
  <2> QED
    BY <2>6, <2>8 DEF Return, TypeInv, TypeOK
<1> QED
  BY <1>1, <1>2, <1>3

LEMMA TypeRevert ==
  ASSUME TypeInv, Revert
  PROVE  TypeInv'
<1> DEFINE k == IF IsExt(Top) /\ Len(stack) > 1 THEN Len(stack) - 1 ELSE Len(stack)
<1>1. k \in 1..Len(stack) /\ Len(stack) \in Nat
  BY DEF Revert, TypeInv, TypeOK
<1>2. st' = stack[k].snap /\ stack' = SubSeq(stack, 1, k - 1) /\ allowed' = allowed
  BY DEF Revert
<1> HIDE DEF k
<1>3. stack[k] \in Frame
  BY <1>1 DEF TypeInv, TypeOK
<1>4. st' \in State
  BY <1>2, <1>3 DEF Frame
<1>5. stack' \in Seq(Frame) /\ Shape(stack')
  BY <1>1, <1>2, ShapeCut DEF TypeInv, TypeOK
<1> QED
  BY <1>2, <1>4, <1>5 DEF TypeInv, TypeOK

LEMMA TypeRegister ==
  ASSUME TypeInv, NEW h \in {CodeHash[c] : c \in Contract}, NEW b \in BOOLEAN,
         register(h, b)
  PROVE  TypeInv'
  BY DEF register, TypeInv, TypeOK

\* A call of the account is pushed on external code.
LEMMA TypeEnter ==
  ASSUME TypeInv, ExtRuns, NEW kind \in {"guarded", "open"},
         NEW todo \in Seq(Step), NEW phase \in {"next", "transfer"},
         FrameInv(AcctFrame(kind, todo, phase)),
         stack' = Append(stack, AcctFrame(kind, todo, phase)),
         st' \in State, allowed' = allowed
  PROVE  TypeInv'
<1> DEFINE f == AcctFrame(kind, todo, phase)
<1>1. f \in Frame /\ ~IsExt(f)
  BY DEF AcctFrame, Frame, IsExt, TypeInv, TypeOK
<1>2. stack \in Seq(Frame) /\ Shape(stack) /\ Len(stack) > 0 /\ IsExt(stack[Len(stack)])
  BY DEF TypeInv, TypeOK, ExtRuns, Top
<1> HIDE DEF f
<1>3. stack' = Append(stack, f) /\ FrameInv(f)
  BY DEF f
<1>4. stack' \in Seq(Frame) /\ Shape(stack')
  BY <1>1, <1>2, <1>3, ShapePush
<1> QED
  BY <1>4 DEF TypeInv, TypeOK

LEMMA StepsOfFacts ==
  ASSUME NEW u \in SolveUnit, NEW first \in {0, 1}, first = 0 => u \in SignedSolveV3
  PROVE  StepsOf(u, first) \in Seq(Step) /\ SolveTodo(StepsOf(u, first))
<1>1. Len(u.args) \in Nat /\ u \in Unit
  BY SignedAssumption DEF SolveUnit, Unit, SolveArgsSigArgs, SolveV2Args, SolveV3Args
<1>0. Len(u.args) + 1 - first \in Nat
  BY <1>1
<1>2. PICK n \in Nat : n = Len(u.args) + 1 - first
  BY <1>0
<1> DEFINE t == [i \in 1..n |-> [unit |-> u, idx |-> first - 1 + i]]
<1>3. StepsOf(u, first) = t
  BY <1>2 DEF StepsOf
<1>4. \A i \in 1..n : [unit |-> u, idx |-> first - 1 + i] \in Step
  BY <1>1 DEF Step
<1>5. t \in Seq(Step) /\ Len(t) = n
  BY <1>4
<1>6. \A i \in 1..n : t[i].unit = u /\ t[i].idx = first - 1 + i /\ t[i] \in Step
  BY <1>4
<1>7. \A i \in 1..n : t[i] = [unit |-> u, idx |-> first - 1 + i]
  OBVIOUS
<1> HIDE DEF t
<1>8. ASSUME NEW i \in 1..n
      PROVE  SolveStep(t[i]) \/ (i = 1 /\ GasStep(t[i]))
  BY <1>1, <1>2, <1>6 DEF SolveStep, GasStep
<1>9. ASSUME t # <<>>, GasStep(t[1])
      PROVE  /\ Len(t) = Len(t[1].unit.args) + 1
             /\ Len(t) > 1 => t[2] = [unit |-> t[1].unit, idx |-> 1]
  <2>1. n > 0
    BY <1>5, <1>9
  <2>2. first = 0 /\ t[1].unit = u
    BY <1>6, <1>9, <2>1 DEF GasStep
  <2> QED
    BY <2>2, <1>1, <1>2, <1>5, <1>7
<1> QED
  BY <1>3, <1>5, <1>8, <1>9 DEF SolveTodo

LEMMA Typeentry_solve_v1 ==
  ASSUME TypeInv, NEW n \in 0..MaxBatch, NEW batch \in [1..n -> SignedSolve],
         entry_solve_v1(batch)
  PROVE  TypeInv'
<1> DEFINE todo == [i \in 1..n |-> [unit |-> batch[i], idx |-> 1]]
<1>1. \A i \in 1..n : [unit |-> batch[i], idx |-> 1] \in Step
  BY DEF Step, Unit
<1>2. n \in Nat /\ todo \in Seq(Step) /\ Len(todo) = n
  BY <1>1, LedgerAssumption
<1>3. \A i \in 1..n : todo[i] \in Step /\ todo[i].unit \in SignedSolve /\ todo[i].idx = 1
  BY <1>1
<1>4. EnterGuarded(todo)
  BY DEF entry_solve_v1
<1> HIDE DEF todo
<1>5. \A i \in 1..n : SolveStep(todo[i])
  <2>1. \A u \in SignedSolve : 1 \in 1..Len(u.args) /\ u \in SolveUnit
    BY SignedAssumption DEF SolveUnit
  <2> QED
    BY <1>3, <2>1 DEF SolveStep
<1>6. SolveTodo(todo)
  BY <1>2, <1>3, <1>5 DEF SolveTodo, GasStep
<1>7. FrameInv(AcctFrame("guarded", todo, "next"))
  BY <1>6 DEF FrameInv, AcctFrame
<1> QED
  BY <1>2, <1>4, <1>7, TypeEnter, LockFacts DEF EnterGuarded, TypeInv, TypeOK

LEMMA Typeentry_solve_v2 ==
  ASSUME TypeInv, NEW u \in SignedSolveV2, entry_solve_v2(u)
  PROVE  TypeInv'
<1>1. StepsOf(u, 1) \in Seq(Step) /\ SolveTodo(StepsOf(u, 1))
  BY StepsOfFacts DEF SolveUnit
<1>2. FrameInv(AcctFrame("guarded", StepsOf(u, 1), "next"))
  BY <1>1 DEF FrameInv, AcctFrame
<1> QED
  BY <1>1, <1>2, TypeEnter, LockFacts DEF entry_solve_v2, EnterGuarded, TypeInv, TypeOK

LEMMA Typeentry_solve_v3 ==
  ASSUME TypeInv, NEW u \in SignedSolveV3, entry_solve_v3(u)
  PROVE  TypeInv'
<1>1. StepsOf(u, 0) \in Seq(Step) /\ SolveTodo(StepsOf(u, 0))
  BY StepsOfFacts DEF SolveUnit
<1>2. FrameInv(AcctFrame("open", StepsOf(u, 0), "next"))
  BY <1>1 DEF FrameInv, AcctFrame
<1> QED
  BY <1>1, <1>2, TypeEnter DEF entry_solve_v3, TypeInv, TypeOK

LEMMA Typeentry_transfer_only ==
  ASSUME TypeInv, NEW u \in SignedTransferOnly, entry_transfer_only(u)
  PROVE  TypeInv'
<1> DEFINE todo == <<[unit |-> u, idx |-> 1]>>
<1>1. [unit |-> u, idx |-> 1] \in Step
  BY DEF Step, Unit
<1>2. u.ms_ts \in Nonce /\ u.args \in Seq(Transfer) /\ u.args # <<>>
  BY SignedAssumption DEF TransferOnlyArgs, entry_transfer_only
<1>3. 1 \in 1..Len(u.args)
  BY <1>2
<1>4. todo \in Seq(Step) /\ FrameInv(AcctFrame("guarded", todo, "transfer"))
  BY <1>1, <1>3 DEF FrameInv, AcctFrame
<1>5. [Exchange(st, u.ms_ts) EXCEPT !.lock = TRUE] \in State
  BY <1>2, ExchangeFacts, LockFacts DEF TypeInv, TypeOK
<1> QED
  BY <1>4, <1>5, TypeEnter DEF entry_transfer_only

LEMMA Typeentry_statement ==
  ASSUME TypeInv, NEW u \in SignedStatement, entry_statement(u)
  PROVE  TypeInv'
<1>1. u.ms_ts \in Nonce
  BY SignedAssumption DEF StatementArgs
<1>2. EffectOf([unit |-> u, idx |-> 1], "statement", 0) \in Effect
  BY EffectFacts DEF Step, Unit
<1>3. st' \in State
  BY <1>1, <1>2, ExchangeFacts, LogFacts DEF entry_statement, TypeInv, TypeOK
<1> QED
  BY <1>3 DEF entry_statement, TypeInv, TypeOK

LEMMA TodoTail ==
  ASSUME NEW todo \in Seq(Step), SolveTodo(todo), todo # <<>>
  PROVE  /\ Head(todo) = todo[1] /\ Tail(todo) \in Seq(Step)
         /\ SolveStep(todo[1]) \/ GasStep(todo[1])
         /\ SolveTodo(Tail(todo))
         /\ \A i \in 1..Len(Tail(todo)) : SolveStep(Tail(todo)[i])
         /\ todo[1] \in Step
<1>1. Len(todo) \in Nat /\ Len(todo) > 0 /\ Len(Tail(todo)) = Len(todo) - 1
  OBVIOUS
<1>2. \A i \in 1..Len(Tail(todo)) : Tail(todo)[i] = todo[i + 1] /\ i + 1 \in 1..Len(todo) /\ i + 1 # 1
  BY <1>1
<1>3. \A i \in 1..Len(Tail(todo)) : SolveStep(Tail(todo)[i])
  BY <1>2 DEF SolveTodo
<1>4. \A x : ~(SolveStep(x) /\ GasStep(x))
  BY DEF SolveStep, GasStep
<1>5. Tail(todo) # <<>> => 1 \in 1..Len(Tail(todo))
  BY <1>1
<1>6. SolveTodo(Tail(todo))
  <2>1. Tail(todo) # <<>> => ~GasStep(Tail(todo)[1])
    BY <1>3, <1>4, <1>5
  <2> QED
    BY <1>3, <2>1 DEF SolveTodo
<1>7. SolveStep(todo[1]) \/ GasStep(todo[1])
  <2>1. 1 \in 1..Len(todo)
    BY <1>1
  <2>2. \A i \in 1..Len(todo) : SolveStep(todo[i]) \/ (i = 1 /\ GasStep(todo[i]))
    BY DEF SolveTodo
  <2> QED
    BY <2>1, <2>2
<1>8. Head(todo) = todo[1] /\ todo[1] \in Step /\ Tail(todo) \in Seq(Step)
  BY <1>1
<1> QED
  BY <1>3, <1>6, <1>7, <1>8

\* What an account's step does to the top frame, when it only changes that.
LEMMA TypeSetTop ==
  ASSUME TypeInv, Len(stack) > 0, NEW f \in Frame, FrameInv(f), f.kind = Top.kind,
         stack' = Append(Below, f), st' \in State, allowed' = allowed
  PROVE  TypeInv'
  BY ShapeSetTop DEF TypeInv, TypeOK, Top, Below

\* In a phase of a solve the work list is one of a solve.
LEMMA PhaseFacts ==
  ASSUME TypeInv, NEW p \in {"next", "pull", "floor"}, InPhase(p)
  PROVE  /\ Len(stack) > 0 /\ Top \in Frame /\ Top.kind \in {"guarded", "open"}
         /\ Top.phase = p
         /\ Top.todo \in Seq(Step) /\ SolveTodo(Top.todo)
         /\ p # "next" => Top.todo # <<>> /\ SolveStep(Top.todo[1]) /\ Top.j > 0
  BY TopFacts DEF InPhase, FrameInv, IsExt, Frame

LEMMA PayGasFacts ==
  ASSUME TypeInv, PayGas
  PROVE  LET s == Top.todo[1] IN
         /\ TypeInv'
         /\ GasStep(s) /\ Top.kind # "ext" /\ Len(stack) > 0 /\ Top \in Frame
         /\ Top.phase = "next" /\ SolveTodo(Top.todo) /\ Top.todo \in Seq(Step) /\ Top.todo # <<>>
         /\ st'.used = st.used /\ st'.lock = st.lock /\ st'.allow = st.allow
         /\ EffectOf(s, "gas", 0) \in Effect
         /\ st'.done = st.done \cup {EffectOf(s, "gas", 0)}
         /\ st'.twice = IF EffectOf(s, "gas", 0) \in st.done
                        THEN st.twice \cup {EffectOf(s, "gas", 0)} ELSE st.twice
         /\ \E f : Continues(f) /\ f.phase = "next" /\ f.todo = Tail(Top.todo)
<1> DEFINE s == Top.todo[1]
           u == s.unit
           s1 == DoPermit(st, u.gas_token_permit)
           s2 == TransferFrom(s1, u.gas_token, EthOwner, Clearinghouse, u.gas_token_amt)
           e == EffectOf(s, "gas", 0)
           f == [Top EXCEPT !.todo = Tail(@)]
<1>1. /\ Len(stack) > 0 /\ Top \in Frame /\ Top.kind \in {"guarded", "open"}
      /\ Top.phase = "next" /\ Top.todo \in Seq(Step) /\ SolveTodo(Top.todo)
  BY PhaseFacts DEF PayGas
<1>2. Top.todo # <<>> /\ Head(Top.todo) = s
  BY <1>1, TodoTail DEF PayGas
<1>3. /\ s.idx = 0
      /\ CanTransferFrom(s1, u.gas_token, EthOwner, u.gas_token_amt)
      /\ st' = Log(s2, e)
      /\ stack' = Append(Below, f)
  BY <1>2 DEF PayGas, SetTop
<1>4. GasStep(s)
  BY <1>1, <1>2, <1>3, TodoTail DEF SolveStep
<1>5. u \in SolveV3Args
  BY <1>4, SignedAssumption DEF GasStep
<1>6. /\ u.gas_token_permit \in Seq(Permit) /\ u.gas_token \in Asset
      /\ u.gas_token_amt \in Nat /\ EthOwner \in Addr /\ Clearinghouse \in Addr
  BY <1>5, AddressAssumption DEF SolveV3Args
<1>7. st \in State
  BY DEF TypeInv, TypeOK
<1>8. e \in Effect
  BY <1>4, EffectFacts DEF GasStep
<1>9. /\ f \in Frame /\ FrameInv(f) /\ f.kind = Top.kind /\ f.snap = Top.snap
      /\ f.phase = "next" /\ f.todo = Tail(Top.todo)
  <2>1. Tail(Top.todo) \in Seq(Step) /\ SolveTodo(Tail(Top.todo))
    BY <1>1, <1>2, TodoTail
  <2> QED
    BY <1>1, <2>1 DEF Frame, FrameInv
<1> HIDE DEF e, f, s, u
<1>10. /\ s1 \in State /\ s1.used = st.used /\ s1.lock = st.lock /\ s1.allow = st.allow
       /\ s1.done = st.done /\ s1.twice = st.twice
  BY <1>6, <1>7, DoPermitFacts
<1> HIDE DEF s1
<1>11. /\ s2 \in State /\ s2.used = st.used /\ s2.lock = st.lock /\ s2.allow = st.allow
       /\ s2.done = st.done /\ s2.twice = st.twice
  BY <1>3, <1>6, <1>10, TransferFromFacts DEF CanTransferFrom
<1> HIDE DEF s2
<1>12. /\ st' \in State /\ st'.used = st.used /\ st'.lock = st.lock /\ st'.allow = st.allow
       /\ st'.done = st.done \cup {e}
       /\ st'.twice = IF e \in st.done THEN st.twice \cup {e} ELSE st.twice
  <2>1. /\ Log(s2, e) \in State /\ Log(s2, e).used = s2.used /\ Log(s2, e).lock = s2.lock
        /\ Log(s2, e).allow = s2.allow /\ Log(s2, e).done = s2.done \cup {e}
        /\ Log(s2, e).twice = IF e \in s2.done THEN s2.twice \cup {e} ELSE s2.twice
    BY <1>8, <1>11, LogFacts
  <2> QED
    BY <1>3, <1>11, <2>1
<1>13. TypeInv'
  BY <1>1, <1>3, <1>9, <1>12, TypeSetTop DEF PayGas
<1>14. Continues(f) /\ f.phase = "next" /\ f.todo = Tail(Top.todo)
  BY <1>3, <1>9 DEF Continues
<1> QED
  BY <1>1, <1>2, <1>4, <1>8, <1>12, <1>13, <1>14 DEF e, s

LEMMA BeginItemFacts ==
  ASSUME TypeInv, BeginItem
  PROVE  LET s == Top.todo[1] IN
         /\ TypeInv'
         /\ SolveStep(s) /\ Top.kind # "ext" /\ Len(stack) > 0 /\ Top \in Frame
         /\ Top.phase = "next" /\ SolveTodo(Top.todo) /\ Top.todo \in Seq(Step) /\ Top.todo # <<>>
         /\ NonceOf(s) \notin st.used
         /\ st'.used = st.used \cup {NonceOf(s)} /\ st'.lock = st.lock
         /\ st'.allow = st.allow /\ st'.done = st.done /\ st'.twice = st.twice
         /\ \E f : Continues(f) /\ f.phase = "pull" /\ f.j = 1 /\ f.todo = Top.todo
<1> DEFINE s == Top.todo[1]
           f == [Top EXCEPT !.phase = "pull", !.j = 1]
<1>1. /\ Len(stack) > 0 /\ Top \in Frame /\ Top.kind \in {"guarded", "open"}
      /\ Top.phase = "next" /\ Top.todo \in Seq(Step) /\ SolveTodo(Top.todo)
  BY PhaseFacts DEF BeginItem
<1>2. Top.todo # <<>> /\ Head(Top.todo) = s
  BY <1>1, TodoTail DEF BeginItem
<1>3. /\ s.idx > 0
      /\ NonceOf(s) \notin st.used
      /\ st' = DoPermit(Exchange(st, NonceOf(s)), Item(s).permit)
      /\ stack' = Append(Below, f)
  BY <1>2 DEF BeginItem, SetTop, Unused
<1>4. SolveStep(s)
  BY <1>1, <1>2, <1>3, TodoTail DEF GasStep
<1>5. NonceOf(s) \in Nonce /\ Item(s).permit \in Seq(Permit)
  BY <1>4, StepFacts DEF SolveArgs
<1>6. /\ f \in Frame /\ FrameInv(f) /\ f.kind = Top.kind /\ f.snap = Top.snap
      /\ f.phase = "pull" /\ f.j = 1 /\ f.todo = Top.todo
  <2>1. /\ f \in Frame /\ f.kind = Top.kind /\ f.phase = "pull" /\ f.j = 1
        /\ f.todo = Top.todo /\ f.snap = Top.snap
    BY <1>1 DEF Frame
  <2> HIDE DEF f
  <2> QED
    BY <1>1, <1>2, <1>4, <2>1 DEF FrameInv
<1> HIDE DEF s, f
<1>7. /\ st' \in State
      /\ st'.used = st.used \cup {NonceOf(s)} /\ st'.lock = st.lock
      /\ st'.allow = st.allow /\ st'.done = st.done /\ st'.twice = st.twice
  BY <1>3, <1>5, ExchangeFacts, DoPermitFacts DEF TypeInv, TypeOK
<1>8. TypeInv'
  BY <1>1, <1>3, <1>6, <1>7, TypeSetTop DEF BeginItem
<1>9. Continues(f)
  BY <1>3, <1>6 DEF Continues
<1> QED
  BY <1>1, <1>2, <1>3, <1>4, <1>6, <1>7, <1>8, <1>9 DEF s

LEMMA PullFacts ==
  ASSUME TypeInv, Pull
  PROVE  LET s == Top.todo[1]
             e == EffectOf(s, "pull", Top.j)
         IN
         /\ TypeInv'
         /\ SolveStep(s) /\ Top.kind # "ext" /\ Len(stack) > 0 /\ Top \in Frame
         /\ Top.phase = "pull" /\ e \in Effect
         /\ st'.used = st.used /\ st'.lock = st.lock /\ st'.done = st.done \cup {e}
         /\ st'.twice = IF e \in st.done THEN st.twice \cup {e} ELSE st.twice
         /\ \A a \in Asset, c \in Contract :
              c # Item(s).target => st'.allow[a][c] = st.allow[a][c]
         /\ \E f : Continues(f) /\ f.phase = "pull" /\ f.j = Top.j + 1 /\ f.todo = Top.todo
<1> DEFINE s == Top.todo[1]
           x == Item(s).from[Top.j]
           s1 == TransferFrom(st, x.asset, transfer_owner(s.unit), Self, x.to_take)
           s2 == Approve(s1, x.asset, Item(s).target, x.to_take)
           e == EffectOf(s, "pull", Top.j)
           f == [Top EXCEPT !.j = @ + 1]
<1>1. /\ Len(stack) > 0 /\ Top \in Frame /\ Top.kind \in {"guarded", "open"}
      /\ Top.phase = "pull" /\ Top.todo \in Seq(Step) /\ SolveTodo(Top.todo)
      /\ Top.todo # <<>> /\ SolveStep(s) /\ Top.j > 0 /\ Top.j \in Nat
  BY PhaseFacts DEF Pull, Frame
<1>2. Head(Top.todo) = s
  BY <1>1, TodoTail
<1>3. /\ Top.j <= Len(Item(s).from)
      /\ CanTransferFrom(st, x.asset, transfer_owner(s.unit), x.to_take)
      /\ st' = Log(s2, e)
      /\ stack' = Append(Below, f)
  BY <1>2 DEF Pull, SetTop
<1>4. Item(s) \in SolveArgs /\ transfer_owner(s.unit) \in Addr /\ Self \in Addr
  BY <1>1, StepFacts, AddressAssumption
<1>5. x \in FromArgs /\ Item(s).target \in Contract
  <2>1. Item(s).from \in Seq(FromArgs) /\ Item(s).target \in Contract
    BY <1>4 DEF SolveArgs
  <2>2. Len(Item(s).from) \in Nat
    BY <2>1
  <2>3. Top.j \in Nat /\ Top.j > 0
    BY <1>1
  <2>4. Top.j <= Len(Item(s).from)
    BY <1>3
  <2>5. Top.j \in 1..Len(Item(s).from)
    BY <2>2, <2>3, <2>4
  <2> QED BY <2>1, <2>5
<1>6. st \in State
  BY DEF TypeInv, TypeOK
<1>7. e \in Effect
  BY <1>1, EffectFacts DEF SolveStep
<1>8. /\ f \in Frame /\ FrameInv(f) /\ f.kind = Top.kind /\ f.snap = Top.snap
      /\ f.phase = "pull" /\ f.j = Top.j + 1 /\ f.todo = Top.todo
  <2>1. /\ f \in Frame /\ f.kind = Top.kind /\ f.phase = "pull" /\ f.j = Top.j + 1
        /\ f.j > 0 /\ f.todo = Top.todo /\ f.snap = Top.snap
    BY <1>1 DEF Frame
  <2> HIDE DEF f
  <2> QED
    BY <1>1, <2>1 DEF FrameInv
<1> HIDE DEF e, f, s, x
<1>9. /\ s1 \in State /\ s1.used = st.used /\ s1.lock = st.lock /\ s1.allow = st.allow
      /\ s1.done = st.done /\ s1.twice = st.twice
  BY <1>3, <1>4, <1>5, <1>6, TransferFromFacts DEF CanTransferFrom, FromArgs
<1> HIDE DEF s1
<1>10. /\ s2 \in State /\ s2.used = st.used /\ s2.lock = st.lock
       /\ s2.done = st.done /\ s2.twice = st.twice
       /\ \A a \in Asset, c \in Contract :
            c # Item(s).target => s2.allow[a][c] = st.allow[a][c]
  <2>1. x.asset \in Asset /\ x.to_take \in Nat
    BY <1>5 DEF FromArgs
  <2>2. PICK c0, n0, a0 : c0 = Item(s).target /\ n0 = x.to_take /\ a0 = x.asset
    OBVIOUS
  <2>3. s2 = Approve(s1, a0, c0, n0) /\ a0 \in Asset /\ c0 \in Contract /\ n0 \in Nat
    BY <1>5, <2>1, <2>2
  <2> HIDE DEF s2
  <2>4. /\ s2 \in State /\ s2.used = s1.used /\ s2.lock = s1.lock
        /\ s2.done = s1.done /\ s2.twice = s1.twice
        /\ \A b \in Asset, d \in Contract :
              b # a0 \/ d # c0 => s2.allow[b][d] = s1.allow[b][d]
    BY <1>9, <2>3, ApproveFacts
  <2> QED
    BY <1>9, <2>2, <2>4
<1> HIDE DEF s2
<1>11. /\ Log(s2, e) \in State /\ Log(s2, e).used = s2.used /\ Log(s2, e).lock = s2.lock
       /\ Log(s2, e).allow = s2.allow /\ Log(s2, e).done = s2.done \cup {e}
       /\ Log(s2, e).twice = IF e \in s2.done THEN s2.twice \cup {e} ELSE s2.twice
  BY <1>7, <1>10, LogFacts
<1>12. TypeInv'
  BY <1>1, <1>3, <1>8, <1>11, TypeSetTop DEF Pull
<1>13. Continues(f)
  BY <1>3, <1>8 DEF Continues
<1> QED
  BY <1>1, <1>3, <1>7, <1>8, <1>10, <1>11, <1>12, <1>13 DEF e, s

LEMMA CallTargetFacts ==
  ASSUME TypeInv, CallTarget
  PROVE  LET s == Top.todo[1]
             e == EffectOf(s, "call", 0)
         IN
         /\ TypeInv'
         /\ SolveStep(s) /\ Top.kind # "ext" /\ Len(stack) > 0 /\ Top \in Frame
         /\ Top.phase = "pull" /\ e \in Effect /\ is_allowed(Item(s).target)
         /\ st'.used = st.used /\ st'.lock = st.lock /\ st'.allow = st.allow
         /\ st'.done = st.done \cup {e}
         /\ st'.twice = IF e \in st.done THEN st.twice \cup {e} ELSE st.twice
         /\ \E f \in Frame, g \in Frame :
              /\ f.kind = Top.kind /\ f.snap = Top.snap /\ f.phase = "target"
              /\ f.todo = Top.todo /\ g.kind = "ext" /\ g.snap = st'
              /\ stack' = Append(Append(Below, f), g)
<1> DEFINE s == Top.todo[1]
           e == EffectOf(s, "call", 0)
           f == [Top EXCEPT !.phase = "target"]
           g == ExtFrame(Item(s).target, st')
<1>1. /\ Len(stack) > 0 /\ Top \in Frame /\ Top.kind \in {"guarded", "open"}
      /\ Top.phase = "pull" /\ Top.todo \in Seq(Step) /\ SolveTodo(Top.todo)
      /\ Top.todo # <<>> /\ SolveStep(s) /\ Top.j > 0 /\ Top.j \in Nat
  BY PhaseFacts DEF CallTarget, Frame
<1>2. Head(Top.todo) = s
  BY <1>1, TodoTail
<1>3. /\ is_allowed(Item(s).target)
      /\ st' = Log(st, e)
      /\ stack' = Append(Append(Below, f), g)
      /\ allowed' = allowed
  BY <1>2 DEF CallTarget
<1>4. Item(s).target \in Contract
  BY <1>1, StepFacts DEF SolveArgs
<1>5. st \in State
  BY DEF TypeInv, TypeOK
<1>6. e \in Effect
  BY <1>1, EffectFacts DEF SolveStep
<1>7. /\ f \in Frame /\ FrameInv(f) /\ f.kind = Top.kind /\ f.snap = Top.snap
      /\ f.phase = "target" /\ f.todo = Top.todo /\ ~IsExt(f)
  <2>1. /\ f \in Frame /\ f.kind = Top.kind /\ f.phase = "target" /\ f.j > 0
        /\ f.todo = Top.todo /\ f.snap = Top.snap
    BY <1>1 DEF Frame
  <2> HIDE DEF f
  <2> QED
    BY <1>1, <2>1 DEF FrameInv, IsExt
<1> HIDE DEF e, f
<1>8. /\ st' \in State /\ st'.used = st.used /\ st'.lock = st.lock
      /\ st'.allow = st.allow /\ st'.done = st.done \cup {e}
      /\ st'.twice = IF e \in st.done THEN st.twice \cup {e} ELSE st.twice
  BY <1>3, <1>5, <1>6, LogFacts
<1>9. g \in Frame /\ FrameInv(g) /\ IsExt(g) /\ g.kind = "ext" /\ g.snap = st'
  BY <1>4, <1>8 DEF ExtFrame, Frame, FrameInv, IsExt
<1> HIDE DEF g, s
<1>10. PICK t : t = Append(Below, f)
  OBVIOUS
<1>11. t \in Seq(Frame) /\ Shape(t) /\ Len(t) = Len(stack) /\ t[Len(t)] = f
  <2>1. stack \in Seq(Frame) /\ Shape(stack) /\ t = Append(SubSeq(stack, 1, Len(stack) - 1), f)
        /\ f.kind = stack[Len(stack)].kind
    BY <1>7, <1>10 DEF TypeInv, TypeOK, Top, Below
  <2>2. t \in Seq(Frame) /\ Shape(t) /\ Len(t) = Len(stack) /\ t[Len(stack)] = f
    BY <1>1, <1>7, <2>1, ShapeSetTop
  <2> QED
    BY <2>2
<1>12. stack' \in Seq(Frame) /\ Shape(stack')
  BY <1>1, <1>3, <1>7, <1>9, <1>10, <1>11, ShapePush
<1>13. TypeInv'
  BY <1>3, <1>8, <1>12 DEF TypeInv, TypeOK
<1> QED
  BY <1>1, <1>3, <1>6, <1>7, <1>8, <1>9, <1>13 DEF e, s

LEMMA CheckFloorsFacts ==
  ASSUME TypeInv, CheckFloors
  PROVE  /\ TypeInv'
         /\ Top.kind # "ext" /\ Len(stack) > 0 /\ Top \in Frame
         /\ Top.phase = "floor" /\ Top.todo \in Seq(Step) /\ Top.todo # <<>>
         /\ SolveTodo(Top.todo) /\ SolveStep(Top.todo[1])
         /\ st' = st
         /\ \E f : Continues(f) /\ f.phase = "next" /\ f.todo = Tail(Top.todo)
<1> DEFINE f == [Top EXCEPT !.phase = "next", !.todo = Tail(@)]
<1>1. /\ Len(stack) > 0 /\ Top \in Frame /\ Top.kind \in {"guarded", "open"}
      /\ Top.phase = "floor" /\ Top.todo \in Seq(Step) /\ SolveTodo(Top.todo)
      /\ Top.todo # <<>> /\ SolveStep(Top.todo[1])
  BY PhaseFacts DEF CheckFloors
<1>2. Tail(Top.todo) \in Seq(Step) /\ SolveTodo(Tail(Top.todo))
  BY <1>1, TodoTail
<1>3. /\ f \in Frame /\ FrameInv(f) /\ f.kind = Top.kind /\ f.snap = Top.snap
      /\ f.phase = "next" /\ f.todo = Tail(Top.todo)
  <2>1. /\ f \in Frame /\ f.kind = Top.kind /\ f.phase = "next"
        /\ f.todo = Tail(Top.todo) /\ f.snap = Top.snap
    BY <1>1, <1>2 DEF Frame
  <2> HIDE DEF f
  <2> QED
    BY <1>1, <1>2, <2>1 DEF FrameInv
<1>4. stack' = Append(Below, f) /\ st' = st /\ allowed' = allowed
  BY DEF CheckFloors, SetTop
<1> HIDE DEF f
<1>5. TypeInv'
  BY <1>1, <1>3, <1>4, TypeSetTop DEF TypeInv, TypeOK
<1>6. Continues(f)
  BY <1>3, <1>4 DEF Continues
<1> QED
  BY <1>1, <1>3, <1>4, <1>5, <1>6

LEMMA MoveNextFacts ==
  ASSUME TypeInv, MoveNext
  PROVE  LET s == Top.todo[1]
             e == EffectOf(s, "move", Top.j)
         IN
         /\ TypeInv'
         /\ s \in Step /\ s.unit \in SignedTransferOnly /\ Top.kind = "guarded"
         /\ Len(stack) > 0 /\ Top \in Frame /\ Top.phase = "transfer" /\ e \in Effect
         /\ s.idx = 1 /\ Len(Top.todo) = 1 /\ Top.j \in 1..Len(s.unit.args)
         /\ st'.used = st.used /\ st'.lock = st.lock /\ st'.allow = st.allow
         /\ st'.done = st.done \cup {e}
         /\ st'.twice = IF e \in st.done THEN st.twice \cup {e} ELSE st.twice
         /\ \E f : /\ Continues(f)
                  /\ \/ f.phase = "next" /\ f.todo = <<>> /\ Top.j = Len(s.unit.args)
                     \/ f.phase = "transfer" /\ f.todo = Top.todo /\ f.j = Top.j + 1
<1> DEFINE s == Top.todo[1]
           t == s.unit.args[Top.j]
           s1 == DoPermit(st, t.permit)
           s2 == TransferFrom(s1, t.asset, t.from, t.recipient, t.amt)
           e == EffectOf(s, "move", Top.j)
           f1 == [Top EXCEPT !.phase = "next", !.todo = <<>>]
           f2 == [Top EXCEPT !.j = @ + 1]
<1>1. /\ Len(stack) > 0 /\ Top \in Frame /\ Top.kind = "guarded" /\ Top.phase = "transfer"
      /\ Top.todo # <<>> /\ s \in Step /\ s.unit \in SignedTransferOnly /\ s.idx = 1
      /\ Top.j \in 1..Len(s.unit.args) /\ Top.todo \in Seq(Step) /\ Len(Top.todo) = 1
  BY TopFacts DEF MoveNext, InPhase, FrameInv, IsExt, Frame
<1>2. Head(Top.todo) = s
  BY <1>1
<1>3. /\ CanTransferFrom(s1, t.asset, t.from, t.amt)
      /\ st' = Log(s2, e)
      /\ stack' = Append(Below, IF Top.j = Len(s.unit.args) THEN f1 ELSE f2)
      /\ allowed' = allowed
  BY <1>2 DEF MoveNext, SetTop
<1>4. s.unit.args \in Seq(Transfer) /\ Len(s.unit.args) \in Nat
  BY <1>1, SignedAssumption DEF TransferOnlyArgs
<1>5. t \in Transfer
  BY <1>1, <1>4
<1>6. st \in State
  BY DEF TypeInv, TypeOK
<1>7. e \in Effect
  BY <1>1, EffectFacts
<1>8. /\ f1 \in Frame /\ FrameInv(f1) /\ f1.kind = Top.kind /\ f1.snap = Top.snap
      /\ f1.phase = "next" /\ f1.todo = <<>>
  <2>a. <<>> \in Seq(Step)
    OBVIOUS
  <2>0. PICK z \in Seq(Step) : z = <<>>
    BY <2>a, Zenon
  <2>1. /\ f1 \in Frame /\ f1.kind = Top.kind /\ f1.phase = "next" /\ f1.todo = z
        /\ f1.snap = Top.snap
    BY <1>1, <2>0 DEF Frame
  <2> HIDE DEF f1
  <2> QED
    BY <1>1, <2>0, <2>1 DEF FrameInv, SolveTodo
<1>9. Top.j # Len(s.unit.args) =>
        /\ f2 \in Frame /\ FrameInv(f2) /\ f2.kind = Top.kind /\ f2.snap = Top.snap
        /\ f2.phase = "transfer" /\ f2.todo = Top.todo /\ f2.j = Top.j + 1
  <2>1. /\ f2 \in Frame /\ f2.kind = Top.kind /\ f2.phase = "transfer"
        /\ f2.todo = Top.todo /\ f2.j = Top.j + 1 /\ f2.snap = Top.snap
    BY <1>1, <1>4 DEF Frame
  <2> HIDE DEF f2
  <2> QED
    BY <1>1, <1>4, <2>1 DEF FrameInv
<1> HIDE DEF e, f1, f2, t
<1>10. /\ s1 \in State /\ s1.used = st.used /\ s1.lock = st.lock /\ s1.allow = st.allow
       /\ s1.done = st.done /\ s1.twice = st.twice
  BY <1>5, <1>6, DoPermitFacts DEF Transfer
<1> HIDE DEF s1
<1>11. /\ s2 \in State /\ s2.used = st.used /\ s2.lock = st.lock /\ s2.allow = st.allow
       /\ s2.done = st.done /\ s2.twice = st.twice
  BY <1>3, <1>5, <1>10, TransferFromFacts DEF CanTransferFrom, Transfer
<1> HIDE DEF s2
<1>12. /\ Log(s2, e) \in State /\ Log(s2, e).used = s2.used /\ Log(s2, e).lock = s2.lock
       /\ Log(s2, e).allow = s2.allow /\ Log(s2, e).done = s2.done \cup {e}
       /\ Log(s2, e).twice = IF e \in s2.done THEN s2.twice \cup {e} ELSE s2.twice
  BY <1>7, <1>11, LogFacts
<1>13. TypeInv'
  <2>1. CASE Top.j = Len(s.unit.args)
    BY <1>1, <1>3, <1>8, <1>12, <2>1, TypeSetTop
  <2>2. CASE Top.j # Len(s.unit.args)
    BY <1>1, <1>3, <1>9, <1>12, <2>2, TypeSetTop
  <2> QED
    BY <2>1, <2>2
<1>14. \E f : /\ Continues(f)
              /\ \/ f.phase = "next" /\ f.todo = <<>> /\ Top.j = Len(s.unit.args)
                 \/ f.phase = "transfer" /\ f.todo = Top.todo /\ f.j = Top.j + 1
  <2>1. CASE Top.j = Len(s.unit.args)
    BY <1>3, <1>8, <2>1 DEF Continues
  <2>2. CASE Top.j # Len(s.unit.args)
    BY <1>3, <1>9, <2>2 DEF Continues
  <2> QED
    BY <2>1, <2>2
<1> QED
  BY <1>1, <1>3, <1>7, <1>11, <1>12, <1>13, <1>14 DEF e, s

LEMMA FinishFacts ==
  ASSUME TypeInv, Finish
  PROVE  /\ TypeInv'
         /\ Top.kind # "ext" /\ Len(stack) > 0 /\ Top \in Frame
         /\ Top.phase = "next" /\ Top.todo = <<>>
         /\ st'.used = st.used /\ st'.allow = st.allow
         /\ st'.done = st.done /\ st'.twice = st.twice
         /\ st'.lock = IF Top.kind = "guarded" THEN FALSE ELSE st.lock
         /\ stack' = Below
<1>1. /\ Len(stack) > 0 /\ Top \in Frame /\ Top.kind \in {"guarded", "open"}
      /\ Top.phase = "next" /\ Top.todo = <<>>
  BY PhaseFacts DEF Finish
<1>2. st \in State
  BY DEF TypeInv, TypeOK
<1>3. /\ st' \in State /\ st'.used = st.used /\ st'.allow = st.allow
      /\ st'.done = st.done /\ st'.twice = st.twice
      /\ st'.lock = IF Top.kind = "guarded" THEN FALSE ELSE st.lock
  <2>1. CASE Top.kind = "guarded"
    <3>1. st' = [st EXCEPT !.lock = FALSE]
      BY <2>1 DEF Finish, Unlock
    <3> QED
      BY <1>2, <2>1, <3>1, LockFacts
  <2>2. CASE Top.kind # "guarded"
    BY <1>2, <2>2 DEF Finish, Unlock
  <2> QED
    BY <2>1, <2>2
<1>4. stack' \in Seq(Frame) /\ Shape(stack') /\ stack' = Below
  BY <1>1, ShapeCut DEF Finish, Below, TypeInv, TypeOK
<1> QED
  BY <1>1, <1>3, <1>4 DEF Finish, TypeInv, TypeOK

LEMMA TypeInvInit == Init => TypeInv
<1> SUFFICES ASSUME Init PROVE TypeInv
  OBVIOUS
<1>1. st \in State
  BY LedgerAssumption DEF Init, State
<1> QED
  BY <1>1 DEF Init, TypeInv, TypeOK, Shape

LEMMA TypeInvNext == TypeInv /\ [Next]_vars => TypeInv'
<1> SUFFICES ASSUME TypeInv, [Next]_vars PROVE TypeInv'
  OBVIOUS
<1>1. ASSUME NEW c \in Contract, BeginTx(c) PROVE TypeInv'
  BY <1>1, TypeBeginTx
<1>2. ASSUME NEW a \in Asset, Spend(a) PROVE TypeInv'
  BY <1>2, TypeSpend
<1>3. ASSUME NEW q \in SignedPermit, SubmitPermit(q) PROVE TypeInv'
  BY <1>3, TypeSubmitPermit
<1>4. CASE Return
  BY <1>4, TypeReturn
<1>5. CASE Revert
  BY <1>5, TypeRevert
<1>6. ASSUME NEW h \in {CodeHash[c] : c \in Contract}, NEW b \in BOOLEAN, register(h, b)
      PROVE TypeInv'
  BY <1>6, TypeRegister
<1>7. ASSUME NEW n \in 0..MaxBatch, NEW batch \in [1..n -> SignedSolve], entry_solve_v1(batch)
      PROVE TypeInv'
  BY <1>7, Typeentry_solve_v1
<1>8. ASSUME NEW u \in SignedSolveV2, entry_solve_v2(u) PROVE TypeInv'
  BY <1>8, Typeentry_solve_v2
<1>9. ASSUME NEW u \in SignedSolveV3, entry_solve_v3(u) PROVE TypeInv'
  BY <1>9, Typeentry_solve_v3
<1>10. ASSUME NEW u \in SignedTransferOnly, entry_transfer_only(u) PROVE TypeInv'
  BY <1>10, Typeentry_transfer_only
<1>11. ASSUME NEW u \in SignedStatement, entry_statement(u) PROVE TypeInv'
  BY <1>11, Typeentry_statement
<1>12. CASE PayGas
  BY <1>12, PayGasFacts
<1>13. CASE BeginItem
  BY <1>13, BeginItemFacts
<1>14. CASE Pull
  BY <1>14, PullFacts
<1>15. CASE CallTarget
  BY <1>15, CallTargetFacts
<1>16. CASE CheckFloors
  BY <1>16, CheckFloorsFacts
<1>17. CASE MoveNext
  BY <1>17, MoveNextFacts
<1>18. CASE Finish
  BY <1>18, FinishFacts
<1>19. CASE UNCHANGED vars
  BY <1>19 DEF vars, TypeInv, TypeOK, Shape
<1> QED
  BY <1>1, <1>2, <1>3, <1>4, <1>5, <1>6, <1>7, <1>8, <1>9, <1>10, <1>11, <1>12, <1>13,
     <1>14, <1>15, <1>16, <1>17, <1>18, <1>19 DEF Next

\* Type correctness for every instance: balances and allowances stay natural
\* numbers, and external code and the account alternate on the stack.
THEOREM TypeCorrect == Spec => []TypeInv
  BY TypeInvInit, TypeInvNext, PTL DEF Spec

\* In particular TypeOK holds.
THEOREM TypeOKCorrect == Spec => []TypeOK
<1>1. TypeInv => TypeOK
  BY DEF TypeInv
<1> QED
  BY <1>1, TypeCorrect, PTL

-----------------------------------------------------------------------------
(* The reentrancy guard.                                                   *)

\* The frames of t are those of s, up to what they have left to do.
Same(s, t) ==
  /\ Len(t) = Len(s)
  /\ \A k \in 1..Len(s) : t[k].kind = s[k].kind /\ t[k].snap = s[k].snap

LEMMA SameSetTop ==
  ASSUME NEW s \in Seq(Frame), Len(s) > 0, NEW f \in Frame,
         f.kind = s[Len(s)].kind, f.snap = s[Len(s)].snap
  PROVE  /\ Same(s, Append(SubSeq(s, 1, Len(s) - 1), f))
         /\ Append(SubSeq(s, 1, Len(s) - 1), f)[Len(s)] = f
<1>1. PICK n \in Nat : n = Len(s)
  OBVIOUS
<1>2. PICK t : t = Append(SubSeq(s, 1, Len(s) - 1), f)
  OBVIOUS
<1>3. Len(t) = n /\ (\A k \in 1..(n - 1) : t[k] = s[k]) /\ t[n] = f
  BY <1>1, <1>2, SetTopFacts
<1>4. ASSUME NEW k \in 1..n PROVE t[k].kind = s[k].kind /\ t[k].snap = s[k].snap
  <2>1. CASE k = n
    BY <1>1, <1>3, <2>1
  <2>2. CASE k \in 1..(n - 1)
    BY <1>3, <2>2
  <2> QED
    BY <1>1, <2>1, <2>2
<1> QED
  BY <1>1, <1>2, <1>3, <1>4 DEF Same

LEMMA GuardSame ==
  ASSUME NEW s \in Seq(Frame), NEW t \in Seq(Frame), Same(s, t),
         NEW b \in BOOLEAN, GuardOK(s, b)
  PROVE  GuardOK(t, b)
  BY DEF Same, GuardOK, HeldBelow

LEMMA GuardPush ==
  ASSUME NEW s \in Seq(Frame), NEW f \in Frame, NEW b \in BOOLEAN, NEW c \in BOOLEAN,
         GuardOK(s, b), f.snap.lock = b,
         f.kind = "guarded" => ~b /\ c,
         f.kind # "guarded" => c = b
  PROVE  GuardOK(Append(s, f), c)
<1>1. PICK n \in Nat : n = Len(s)
  OBVIOUS
<1>2. PICK t : t = Append(s, f)
  OBVIOUS
<1>3. Len(t) = n + 1 /\ (\A k \in 1..n : t[k] = s[k]) /\ t[n + 1] = f
  BY <1>1, <1>2, PushFacts
<1>4. \A k \in 1..(n + 1) : HeldBelow(t, k - 1) <=> HeldBelow(s, k - 1)
  BY <1>3 DEF HeldBelow
<1>5. HeldBelow(t, n) <=> b
  BY <1>1, <1>3 DEF HeldBelow, GuardOK
<1>6. \A k \in 1..(n + 1) : t[k].snap.lock <=> HeldBelow(t, k - 1)
  <2>1. ASSUME NEW k \in 1..(n + 1) PROVE t[k].snap.lock <=> HeldBelow(t, k - 1)
    <3>1. CASE k = n + 1
      BY <1>3, <1>5, <3>1
    <3>2. CASE k \in 1..n
      BY <1>1, <1>3, <1>4, <3>2 DEF GuardOK
    <3> QED
      BY <3>1, <3>2
  <2> QED
    BY <2>1
<1>7. HeldBelow(t, n + 1) <=> c
  <2>1. HeldBelow(t, n + 1) <=> HeldBelow(t, n) \/ f.kind = "guarded"
    BY <1>3 DEF HeldBelow
  <2> QED
    BY <1>5, <2>1
<1>8. \A k, m \in 1..(n + 1) : t[k].kind = "guarded" /\ t[m].kind = "guarded" => k = m
  <2>1. \A k \in 1..n : f.kind = "guarded" => t[k].kind # "guarded"
    BY <1>5 DEF HeldBelow
  <2>2. \A k, m \in 1..n : t[k].kind = "guarded" /\ t[m].kind = "guarded" => k = m
    BY <1>1, <1>3 DEF GuardOK
  <2>3. \A k \in 1..(n + 1) : k \in 1..n \/ (k = n + 1 /\ t[k] = f)
    BY <1>3
  <2> QED
    BY <2>1, <2>2, <2>3
<1> QED
  BY <1>2, <1>3, <1>6, <1>7, <1>8 DEF GuardOK

LEMMA GuardCut ==
  ASSUME NEW s \in Seq(Frame), NEW b \in BOOLEAN, GuardOK(s, b), NEW k \in 1..Len(s)
  PROVE  GuardOK(SubSeq(s, 1, k - 1), s[k].snap.lock)
<1>1. PICK n \in Nat : n = k - 1
  OBVIOUS
<1>2. PICK t : t = SubSeq(s, 1, n)
  OBVIOUS
<1>3. Len(t) = n /\ \A m \in 1..n : t[m] = s[m]
  BY <1>1, <1>2, CutFacts
<1>4. \A m \in 1..(n + 1) : HeldBelow(t, m - 1) <=> HeldBelow(s, m - 1)
  BY <1>3 DEF HeldBelow
<1>5. HeldBelow(t, n) <=> s[k].snap.lock
  BY <1>1, <1>3 DEF HeldBelow, GuardOK
<1>6. \A m \in 1..n : t[m].snap.lock <=> HeldBelow(t, m - 1)
  BY <1>1, <1>3, <1>4 DEF GuardOK
<1>7. \A l, m \in 1..n : t[l].kind = "guarded" /\ t[m].kind = "guarded" => l = m
  <2>1. \A m \in 1..n : m \in 1..Len(s)
    BY <1>1
  <2>2. \A l, m \in 1..Len(s) : s[l].kind = "guarded" /\ s[m].kind = "guarded" => l = m
    BY DEF GuardOK
  <2> QED
    BY <1>3, <2>1, <2>2
<1> QED
  BY <1>1, <1>2, <1>3, <1>5, <1>6, <1>7 DEF GuardOK

LEMMA GuardPop ==
  ASSUME NEW s \in Seq(Frame), Len(s) > 0, NEW b \in BOOLEAN, GuardOK(s, b)
  PROVE  GuardOK(SubSeq(s, 1, Len(s) - 1), IF s[Len(s)].kind = "guarded" THEN FALSE ELSE b)
<1>1. PICK n \in Nat : n = Len(s) /\ n > 0
  OBVIOUS
<1>2. GuardOK(SubSeq(s, 1, n - 1), s[n].snap.lock)
  BY <1>1, GuardCut
<1>3. s[n].snap.lock <=> HeldBelow(s, n - 1)
  BY <1>1 DEF GuardOK
<1>4. s[n].kind = "guarded" => ~HeldBelow(s, n - 1)
  BY <1>1 DEF GuardOK, HeldBelow
<1>5. s[n].kind # "guarded" => (HeldBelow(s, n - 1) <=> b)
  <2>1. HeldBelow(s, n) <=> HeldBelow(s, n - 1) \/ s[n].kind = "guarded"
    BY <1>1 DEF HeldBelow
  <2>2. b <=> HeldBelow(s, n)
    BY <1>1 DEF GuardOK
  <2> QED
    BY <2>1, <2>2
<1>6. s[n].snap.lock \in BOOLEAN
  <2>1. s[n] \in Frame
    BY <1>1
  <2> QED
    BY <2>1 DEF Frame, State
<1>7. s[n].snap.lock = IF s[n].kind = "guarded" THEN FALSE ELSE b
  BY <1>3, <1>4, <1>5, <1>6
<1> QED
  BY <1>1, <1>2, <1>7

LEMMA LockInvInit == Init => LockInv
<1> SUFFICES ASSUME Init PROVE LockInv
  OBVIOUS
<1>1. TypeInv
  BY TypeInvInit
<1>2. GuardOK(stack, st.lock)
  BY DEF Init, GuardOK, HeldBelow
<1> QED
  BY <1>1, <1>2 DEF LockInv

\* A step that changes only the top frame's work, and not the lock.
LEMMA LockSetTop ==
  ASSUME LockInv, TypeInv', Len(stack) > 0, NEW f, Continues(f), st'.lock = st.lock
  PROVE  LockInv'
<1>1. stack \in Seq(Frame) /\ stack' \in Seq(Frame) /\ st.lock \in BOOLEAN
  BY DEF LockInv, TypeInv, TypeOK, State
<1>2. Same(stack, stack')
  BY <1>1, SameSetTop DEF Continues, Top, Below
<1>3. GuardOK(stack', st.lock)
  BY <1>1, <1>2, GuardSame DEF LockInv
<1> QED
  BY <1>3 DEF LockInv

\* A call of the account is pushed, and the lock is taken if it is guarded.
LEMMA LockEnter ==
  ASSUME LockInv, TypeInv', NEW kind \in {"guarded", "open"}, NEW todo, NEW phase,
         stack' = Append(stack, AcctFrame(kind, todo, phase)),
         kind = "guarded" => ~st.lock /\ st'.lock = TRUE,
         kind = "open" => st'.lock = st.lock
  PROVE  LockInv'
<1> DEFINE f == AcctFrame(kind, todo, phase)
<1>1. stack \in Seq(Frame) /\ stack' \in Seq(Frame) /\ st.lock \in BOOLEAN /\ st'.lock \in BOOLEAN
  BY DEF LockInv, TypeInv, TypeOK, State
<1>2. f.kind = kind /\ f.snap.lock = st.lock
  BY DEF AcctFrame
<1>3. f \in Frame
  <2>1. PICK n \in Nat : n = Len(stack)
    BY <1>1
  <2>2. Append(stack, f)[n + 1] = f /\ n + 1 \in 1..Len(Append(stack, f))
    BY <1>1, <2>1
  <2> HIDE DEF f
  <2> QED
    BY <1>1, <2>1, <2>2 DEF f
<1> HIDE DEF f
<1>4. GuardOK(Append(stack, f), st'.lock)
  BY <1>1, <1>2, <1>3, GuardPush DEF LockInv
<1> QED
  BY <1>4 DEF f, LockInv

LEMMA LockInvNext == LockInv /\ [Next]_vars => LockInv'
<1> SUFFICES ASSUME LockInv, [Next]_vars PROVE LockInv'
  OBVIOUS
<1>0. TypeInv /\ TypeInv' /\ GuardOK(stack, st.lock)
  BY TypeInvNext DEF LockInv
<1>t. /\ stack \in Seq(Frame) /\ stack' \in Seq(Frame) /\ st \in State /\ st' \in State
      /\ st.lock \in BOOLEAN /\ st'.lock \in BOOLEAN
  BY <1>0 DEF TypeInv, TypeOK, State
<1>1. ASSUME NEW c \in Contract, BeginTx(c) PROVE LockInv'
  <2>1. stack = <<>> /\ stack' = <<ExtFrame(c, st)>> /\ st' = st
    BY <1>1 DEF BeginTx
  <2>2. ~st.lock
    BY <1>0, <2>1 DEF GuardOK, HeldBelow
  <2>3. ExtFrame(c, st).kind = "ext" /\ ExtFrame(c, st).snap = st
    BY DEF ExtFrame
  <2>4. GuardOK(stack', st'.lock)
    BY <2>1, <2>2, <2>3 DEF GuardOK, HeldBelow
  <2> QED
    BY <1>0, <2>4 DEF LockInv
<1>2. ASSUME NEW a \in Asset, Spend(a) PROVE LockInv'
  <2>1. st'.lock = st.lock /\ stack' = stack
    <3>1. Top.who \in Contract /\ Top.who \in Addr /\ Self \in Addr
      BY <1>0, <1>2, TopFacts, AddressAssumption DEF Spend, ExtRuns
    <3>2. st.allow[a][Top.who] \in Nat
      BY <1>t, <3>1 DEF State
    <3>3. PICK n \in 1..st.allow[a][Top.who] :
            /\ n <= st.bal[a][Self]
            /\ st' = Approve(TransferFrom(st, a, Self, Top.who, n), a, Top.who,
                             st.allow[a][Top.who] - n)
      BY <1>2 DEF Spend
    <3>4. /\ TransferFrom(st, a, Self, Top.who, n) \in State
          /\ TransferFrom(st, a, Self, Top.who, n).lock = st.lock
      BY <1>t, <3>1, <3>2, <3>3, TransferFromFacts
    <3>5. st.allow[a][Top.who] - n \in Nat
      BY <3>2, <3>3
    <3> QED
      BY <1>2, <3>1, <3>3, <3>4, <3>5, ApproveFacts DEF Spend
  <2> QED
    BY <1>0, <2>1 DEF LockInv
<1>3. ASSUME NEW q \in SignedPermit, SubmitPermit(q) PROVE LockInv'
  <2>1. <<q>> \in Seq(Permit)
    BY SignedAssumption
  <2>2. st'.lock = st.lock /\ stack' = stack
    BY <1>t, <1>3, <2>1, DoPermitFacts DEF SubmitPermit
  <2> QED
    BY <1>0, <2>2 DEF LockInv
<1>4. CASE Return
  <2>1. PICK n \in Nat : n = Len(stack) /\ n > 0
    BY <1>4, <1>t DEF Return, ExtRuns
  <2>2. st' = st /\ stack[n].kind = "ext"
    BY <1>4, <2>1 DEF Return, ExtRuns, Top, IsExt
  <2>3. GuardOK(Below, st.lock) /\ Below \in Seq(Frame) /\ Len(Below) = n - 1
    <3>1. GuardOK(SubSeq(stack, 1, Len(stack) - 1), st.lock)
      BY <1>0, <1>t, <2>1, <2>2, GuardPop
    <3>2. /\ SubSeq(stack, 1, n - 1) \in Seq(Frame)
          /\ Len(SubSeq(stack, 1, n - 1)) = n - 1
      BY <1>t, <2>1, CutFacts
    <3> QED
      BY <2>1, <3>1, <3>2 DEF Below
  <2>4. CASE n = 1
    BY <1>0, <1>4, <2>1, <2>2, <2>3, <2>4 DEF Return, LockInv, GuardOK, HeldBelow
  <2>5. CASE n > 1
    <3>1. stack' = [Below EXCEPT ![n - 1] = [Below[n - 1] EXCEPT !.phase = "floor"]]
      BY <1>4, <2>1, <2>3, <2>5 DEF Return
    <3>2. Below[n - 1] \in Frame
      BY <2>1, <2>3, <2>5
    <3>3. Same(Below, stack')
      BY <2>1, <2>3, <2>5, <3>1, <3>2 DEF Same, Frame
    <3>4. GuardOK(stack', st.lock)
      BY <1>t, <2>3, <3>3, GuardSame
    <3> QED
      BY <1>0, <2>2, <3>4 DEF LockInv
  <2> QED
    BY <2>1, <2>4, <2>5
<1>5. CASE Revert
  <2>1. PICK k \in 1..Len(stack) : st' = stack[k].snap /\ stack' = SubSeq(stack, 1, k - 1)
    BY <1>5, <1>t DEF Revert
  <2>2. GuardOK(SubSeq(stack, 1, k - 1), stack[k].snap.lock)
    BY <1>0, <1>t, GuardCut
  <2> QED
    BY <1>0, <2>1, <2>2 DEF LockInv
<1>6. ASSUME NEW h \in {CodeHash[c] : c \in Contract}, NEW b \in BOOLEAN, register(h, b)
      PROVE LockInv'
  BY <1>0, <1>6 DEF register, LockInv
<1>7. ASSUME NEW todo, EnterGuarded(todo) PROVE LockInv'
  <2>1. ~st.lock /\ st'.lock = TRUE
    BY <1>7, <1>t, LockFacts DEF EnterGuarded, Unlocked
  <2> QED
    BY <1>0, <1>7, <2>1, LockEnter DEF EnterGuarded
<1>8. ASSUME NEW n \in 0..MaxBatch, NEW batch \in [1..n -> SignedSolve], entry_solve_v1(batch)
      PROVE LockInv'
  BY <1>7, <1>8 DEF entry_solve_v1
<1>9. ASSUME NEW u \in SignedSolveV2, entry_solve_v2(u) PROVE LockInv'
  BY <1>7, <1>9 DEF entry_solve_v2
<1>10. ASSUME NEW u \in SignedSolveV3, entry_solve_v3(u) PROVE LockInv'
  BY <1>0, <1>10, LockEnter DEF entry_solve_v3
<1>11. ASSUME NEW u \in SignedTransferOnly, entry_transfer_only(u) PROVE LockInv'
  <2>1. u.ms_ts \in Nonce
    BY SignedAssumption DEF TransferOnlyArgs
  <2>2. ~st.lock /\ st'.lock = TRUE
    BY <1>11, <1>t, <2>1, ExchangeFacts, LockFacts DEF entry_transfer_only, Unlocked
  <2> QED
    BY <1>0, <1>11, <2>2, LockEnter DEF entry_transfer_only
<1>12. ASSUME NEW u \in SignedStatement, entry_statement(u) PROVE LockInv'
  <2>1. u.ms_ts \in Nonce /\ EffectOf([unit |-> u, idx |-> 1], "statement", 0) \in Effect
    BY SignedAssumption, EffectFacts DEF StatementArgs, Step, Unit
  <2>2. Exchange(st, u.ms_ts) \in State /\ Exchange(st, u.ms_ts).lock = st.lock
    BY <1>t, <2>1, ExchangeFacts
  <2>3. st'.lock = st.lock /\ stack' = stack
    BY <1>12, <2>1, <2>2, LogFacts DEF entry_statement
  <2> QED
    BY <1>0, <2>3 DEF LockInv
<1>13. CASE PayGas
  BY <1>0, <1>13, PayGasFacts, LockSetTop
<1>14. CASE BeginItem
  BY <1>0, <1>14, BeginItemFacts, LockSetTop
<1>15. CASE Pull
  BY <1>0, <1>15, PullFacts, LockSetTop
<1>16. CASE CheckFloors
  BY <1>0, <1>16, CheckFloorsFacts, LockSetTop
<1>17. CASE MoveNext
  BY <1>0, <1>17, MoveNextFacts, LockSetTop
<1>18. CASE Finish
  BY <1>0, <1>t, <1>18, FinishFacts, GuardPop DEF Top, Below, LockInv
<1>19. CASE CallTarget
  <2>1. PICK f \in Frame, g \in Frame :
          /\ f.kind = Top.kind /\ f.snap = Top.snap
          /\ g.kind = "ext" /\ g.snap = st'
          /\ stack' = Append(Append(Below, f), g)
    BY <1>0, <1>19, CallTargetFacts
  <2>2. Len(stack) > 0 /\ st'.lock = st.lock
    BY <1>0, <1>19, CallTargetFacts
  <2>3. PICK t : t = Append(SubSeq(stack, 1, Len(stack) - 1), f)
    OBVIOUS
  <2>4. Same(stack, t)
    BY <1>t, <2>1, <2>2, <2>3, SameSetTop DEF Top
  <2>5. t \in Seq(Frame)
    BY <1>t, <2>2, <2>3, SetTopFacts
  <2>6. GuardOK(t, st.lock)
    BY <1>0, <1>t, <2>4, <2>5, GuardSame
  <2>7. GuardOK(Append(t, g), st'.lock)
    BY <1>t, <2>1, <2>2, <2>5, <2>6, GuardPush
  <2> QED
    BY <1>0, <2>1, <2>3, <2>7 DEF LockInv, Below
<1>20. CASE UNCHANGED vars
  BY <1>0, <1>20 DEF vars, LockInv
<1> QED
  BY <1>1, <1>2, <1>3, <1>4, <1>5, <1>6, <1>8, <1>9, <1>10, <1>11, <1>12, <1>13,
     <1>14, <1>15, <1>16, <1>17, <1>18, <1>19, <1>20 DEF Next

\* The reentrancy guard is sound for every nesting of calls and reverts: one
\* guarded call at a time, and the lock is taken exactly while it runs.
THEOREM GuardCorrect == Spec => []GuardInv
<1>1. LockInv => GuardInv
  <2> SUFFICES ASSUME LockInv PROVE GuardInv
    OBVIOUS
  <2>1. stack \in Seq(Frame)
    BY DEF LockInv, TypeInv, TypeOK
  <2>2. DOMAIN stack = 1..Len(stack)
    BY <2>1
  <2> QED
    BY <2>2 DEF LockInv, GuardOK, HeldBelow, GuardInv, Guarded
<1> QED
  BY <1>1, LockInvInit, LockInvNext, PTL DEF Spec

-----------------------------------------------------------------------------
(* The moves of the stack, and the steps of external code.                 *)

Pushes(g) == stack' = Append(stack, g)

Restores(k) == st' = stack[k].snap /\ stack' = SubSeq(stack, 1, k - 1)

Calls(f, g) == stack' = Append(Append(Below, f), g)

LEMMA SpendFacts ==
  ASSUME TypeInv, NEW a \in Asset, Spend(a)
  PROVE  /\ st'.used = st.used /\ st'.done = st.done /\ st'.twice = st.twice
         /\ \A b \in Asset, c \in Contract : st'.allow[b][c] <= st.allow[b][c]
         /\ stack' = stack /\ allowed' = allowed /\ ExtRuns
<1>1. Top.who \in Contract /\ Top.who \in Addr /\ Self \in Addr
  BY TopFacts, AddressAssumption DEF Spend, ExtRuns
<1>2. st \in State /\ \A b \in Asset, c \in Contract : st.allow[b][c] \in Nat
  BY DEF TypeInv, TypeOK, State
<1>3. PICK n \in 1..st.allow[a][Top.who] :
        /\ n <= st.bal[a][Self]
        /\ st' = Approve(TransferFrom(st, a, Self, Top.who, n), a, Top.who,
                         st.allow[a][Top.who] - n)
  BY DEF Spend
<1>4. PICK s1 : s1 = TransferFrom(st, a, Self, Top.who, n)
  OBVIOUS
<1>5. /\ s1 \in State /\ s1.used = st.used /\ s1.done = st.done /\ s1.twice = st.twice
      /\ s1.allow = st.allow
  BY <1>1, <1>2, <1>3, <1>4, TransferFromFacts
<1>6. PICK w, m : w = Top.who /\ m = st.allow[a][Top.who] - n
  OBVIOUS
<1>7. w \in Contract /\ m \in Nat /\ m <= st.allow[a][w] /\ st' = Approve(s1, a, w, m)
  BY <1>1, <1>2, <1>3, <1>4, <1>6
<1>8. /\ st'.used = s1.used /\ st'.done = s1.done /\ st'.twice = s1.twice
      /\ st'.allow[a][w] = m
      /\ \A b \in Asset, c \in Contract : b # a \/ c # w => st'.allow[b][c] = s1.allow[b][c]
  BY <1>5, <1>7, ApproveFacts
<1>9. ASSUME NEW b \in Asset, NEW c \in Contract PROVE st'.allow[b][c] <= st.allow[b][c]
  <2>1. CASE b = a /\ c = w
    BY <1>7, <1>8, <2>1
  <2>2. CASE b # a \/ c # w
    BY <1>2, <1>5, <1>8, <2>2
  <2> QED BY <2>1, <2>2
<1> QED
  BY <1>5, <1>8, <1>9 DEF Spend

LEMMA SubmitPermitFacts ==
  ASSUME TypeInv, NEW q \in SignedPermit, SubmitPermit(q)
  PROVE  /\ st'.used = st.used /\ st'.done = st.done /\ st'.twice = st.twice
         /\ st'.allow = st.allow
         /\ stack' = stack /\ allowed' = allowed /\ ExtRuns
<1>1. <<q>> \in Seq(Permit) /\ st \in State
  BY SignedAssumption DEF TypeInv, TypeOK
<1> QED
  BY <1>1, DoPermitFacts DEF SubmitPermit

\* What a statement does: a new value and one effect.
LEMMA StatementFacts ==
  ASSUME TypeInv, NEW u \in SignedStatement, entry_statement(u)
  PROVE  LET x == [unit |-> u, idx |-> 1]
             e == EffectOf(x, "statement", 0)
         IN
         /\ NonceOf(x) \notin st.used
         /\ st'.used = st.used \cup {NonceOf(x)} /\ st'.done = st.done \cup {e}
         /\ st'.twice = IF e \in st.done THEN st.twice \cup {e} ELSE st.twice
         /\ st'.allow = st.allow
         /\ stack' = stack /\ allowed' = allowed /\ ExtRuns
<1> DEFINE x == [unit |-> u, idx |-> 1]
           e == EffectOf(x, "statement", 0)
<1>1. u.ms_ts \in Nonce /\ NonceOf(x) = u.ms_ts /\ x \in Step
  BY SignedAssumption DEF StatementArgs, NonceOf, IsSolve, Step, Unit
<1>2. NonceOf(x) \notin st.used /\ stack' = stack /\ allowed' = allowed /\ ExtRuns
  BY <1>1 DEF entry_statement, Unused
<1>3. e \in Effect
  BY <1>1, EffectFacts
<1>4. st \in State
  BY DEF TypeInv, TypeOK
<1>5. st' = Log(Exchange(st, NonceOf(x)), e)
  BY <1>1 DEF entry_statement
<1> HIDE DEF e, x
<1>6. PICK s1 \in State : /\ s1 = Exchange(st, NonceOf(x))
                          /\ s1.used = st.used \cup {NonceOf(x)} /\ s1.allow = st.allow
                          /\ s1.done = st.done /\ s1.twice = st.twice
  BY <1>1, <1>4, ExchangeFacts
<1>7. st' = Log(s1, e)
  BY <1>5, <1>6
<1>8. /\ st'.used = s1.used /\ st'.done = s1.done \cup {e} /\ st'.allow = s1.allow
      /\ st'.twice = IF e \in s1.done THEN s1.twice \cup {e} ELSE s1.twice
  BY <1>3, <1>7, LogFacts
<1> QED
  BY <1>2, <1>6, <1>8 DEF e, x

\* What a TransferOnly does when it starts: it consumes its value.
LEMMA TransferOnlyFacts ==
  ASSUME TypeInv, NEW u \in SignedTransferOnly, entry_transfer_only(u)
  PROVE  LET x == [unit |-> u, idx |-> 1] IN
         /\ NonceOf(x) \notin st.used
         /\ st'.used = st.used \cup {NonceOf(x)} /\ st'.done = st.done /\ st'.twice = st.twice
         /\ st'.allow = st.allow
         /\ Pushes(AcctFrame("guarded", <<x>>, "transfer")) /\ allowed' = allowed /\ ExtRuns
<1> DEFINE x == [unit |-> u, idx |-> 1]
<1>1. u.ms_ts \in Nonce /\ NonceOf(x) = u.ms_ts /\ st \in State
  BY SignedAssumption DEF TransferOnlyArgs, NonceOf, IsSolve, TypeInv, TypeOK
<1>2. /\ st'.used = st.used \cup {u.ms_ts} /\ st'.done = st.done /\ st'.twice = st.twice
      /\ st'.allow = st.allow
  BY <1>1, ExchangeFacts, LockFacts DEF entry_transfer_only
<1>3. Pushes(AcctFrame("guarded", <<x>>, "transfer")) /\ allowed' = allowed /\ ExtRuns
      /\ u.ms_ts \notin st.used
  BY DEF entry_transfer_only, Pushes, Unused
<1> QED
  BY <1>1, <1>2, <1>3

-----------------------------------------------------------------------------
(* SoundInv: the consumed values account for the effects.                  *)

\* A new value is consumed by the step x.
LEMMA ConsumeOwns ==
  ASSUME NEW s, NEW t, NEW x, NEW w, NEW j, Sound(s), NonceOf(x) \notin s.used,
         t.used = s.used \cup {NonceOf(x)}, t.done = s.done, t.twice = s.twice
  PROVE  Sound(t) /\ Owns(t, x, w, j)
  BY DEF Sound, Owns

\* An effect of the step that owns its value keeps the account sound.
LEMMA OwnSound ==
  ASSUME NEW s, NEW t, NEW x, NEW w \in {"pull", "move"}, NEW j \in Nat,
         NEW v \in {"pull", "move", "call"}, NEW n \in Nat,
         s.done \subseteq Effect, Sound(s), Owns(s, x, w, j), v = w => n = j,
         t.used = s.used, t.done = s.done \cup {EffectOf(x, v, n)}
  PROVE  /\ Sound(t)
         /\ v = w => Owns(t, x, w, j + 1)
<1> DEFINE e == EffectOf(x, v, n)
<1>1. e.step = x /\ e.what = v /\ e.j = n /\ v # "gas"
  BY DEF EffectOf
<1>2. t.used = s.used /\ t.done = s.done \cup {e}
  OBVIOUS
<1> HIDE DEF e
<1>4. \A d \in t.done : d.what # "gas" => NonceOf(d.step) \in t.used
  BY <1>1, <1>2 DEF Sound, Owns
<1>5. \A d \in s.done : d.what # "gas" /\ NonceOf(d.step) = NonceOf(e.step) => d.step = e.step
  BY <1>1 DEF Owns
<1>6. \A c, d \in t.done :
        /\ c.what # "gas" /\ d.what # "gas"
        /\ NonceOf(c.step) = NonceOf(d.step)
        => c.step = d.step
  BY <1>2, <1>5 DEF Sound
<1>7. Sound(t)
  BY <1>4, <1>6 DEF Sound
<1>8. ASSUME v = w PROVE Owns(t, x, w, j + 1)
  <2>1. ASSUME NEW d \in t.done, d.what # "gas", NonceOf(d.step) = NonceOf(x)
        PROVE  d.step = x /\ d.what = w /\ d.j < j + 1
    <3>1. CASE d = e
      BY <1>1, <1>8, <3>1
    <3>2. CASE d \in s.done
      <4>1. d.step = x /\ d.what = w /\ d.j < j
        BY <2>1, <3>2 DEF Owns
      <4>2. d.j \in Nat
        BY <3>2 DEF Effect
      <4> QED
        BY <4>1, <4>2
    <3> QED
      BY <1>2, <3>1, <3>2
  <2> QED
    BY <1>2, <2>1 DEF Owns
<1> QED
  BY <1>7, <1>8

\* The next movement of the step that owns its value.
LEMMA OwnMoves ==
  ASSUME NEW s, NEW t, NEW x, NEW w \in {"pull", "move"}, NEW j \in Nat,
         s.done \subseteq Effect, Sound(s), Owns(s, x, w, j),
         t.used = s.used, t.done = s.done \cup {EffectOf(x, w, j)}
  PROVE  Sound(t) /\ Owns(t, x, w, j + 1)
<1>1. w \in {"pull", "move", "call"} /\ (w = w => j = j)
  OBVIOUS
<1> QED
  BY <1>1, OwnSound

LEMMA SoundSame ==
  ASSUME NEW s, NEW t, Sound(s), t.used = s.used, t.done = s.done
  PROVE  Sound(t)
  BY DEF Sound

\* A gas payment consumes no value.
LEMMA SoundGas ==
  ASSUME NEW s, NEW t, NEW x, Sound(s), t.used = s.used,
         t.done = s.done \cup {EffectOf(x, "gas", 0)}
  PROVE  Sound(t)
<1>1. EffectOf(x, "gas", 0).what = "gas"
  BY DEF EffectOf
<1> QED
  BY <1>1 DEF Sound

\* A new value and a new effect at once.
LEMMA SoundFresh ==
  ASSUME NEW s, NEW t, NEW x, NEW w, NEW n, Sound(s), NonceOf(x) \notin s.used,
         t.used = s.used \cup {NonceOf(x)}, t.done = s.done \cup {EffectOf(x, w, n)}
  PROVE  Sound(t)
<1>0. PICK e : e = EffectOf(x, w, n)
  OBVIOUS
<1>1. e.step = x
  BY <1>0 DEF EffectOf
<1>2. t.done = s.done \cup {e} /\ t.used = s.used \cup {NonceOf(e.step)}
  BY <1>0, <1>1
<1>3. \A d \in s.done : d.what # "gas" => NonceOf(d.step) # NonceOf(e.step)
  BY <1>1 DEF Sound
<1> QED
  BY <1>2, <1>3 DEF Sound

LEMMA SoundQuiet ==
  ASSUME SoundInv, TypeInv', stack' = stack, Observable, Sound(st')
  PROVE  SoundInv'
<1>1. Len(stack) > 0 => Top.phase = "run"
  BY TopFacts DEF SoundInv, Observable, AtRest, ExtRuns, IsExt, FrameInv
<1>2. Top' = Top
  BY DEF Top
<1>3. Len(stack') > 0 => Owning(st', Top')
  BY <1>1, <1>2 DEF Owning
<1> QED
  BY <1>3 DEF SoundInv

LEMMA SoundContinues ==
  ASSUME SoundInv, TypeInv', Len(stack) > 0, NEW f, Continues(f), Sound(st'), Owning(st', f)
  PROVE  SoundInv'
<1>1. PICK n \in Nat : n = Len(stack) /\ n > 0
  BY DEF SoundInv, TypeInv, TypeOK
<1>2. stack \in Seq(Frame) /\ f \in Frame /\ f.snap = stack[n].snap /\ f.kind = stack[n].kind
  BY <1>1 DEF SoundInv, TypeInv, TypeOK, Continues, Top
<1>3. Same(stack, stack') /\ stack'[n] = f
  <2>1. stack' = Append(SubSeq(stack, 1, n - 1), f)
    BY <1>1 DEF Continues, Below
  <2> QED BY <1>1, <1>2, <2>1, SameSetTop
<1>4. Len(stack') = n /\ Top' = f
  BY <1>1, <1>3 DEF Same, Top
<1>5. \A k \in 1..n : Sound(stack'[k].snap)
  BY <1>1, <1>3 DEF Same, SoundInv
<1> QED
  BY <1>4, <1>5 DEF SoundInv

LEMMA SoundEnter ==
  ASSUME SoundInv, TypeInv', NEW g, Pushes(g), g.snap = st, Sound(st'), Owning(st', g)
  PROVE  SoundInv'
<1>1. PICK n \in Nat : n = Len(stack) /\ stack \in Seq(Frame)
  BY DEF SoundInv, TypeInv, TypeOK
<1>2. Len(stack') = n + 1 /\ (\A k \in 1..n : stack'[k] = stack[k]) /\ stack'[n + 1] = g
  BY <1>1 DEF Pushes
<1>3. \A k \in 1..(n + 1) : k \in 1..n \/ k = n + 1
  OBVIOUS
<1>4. \A k \in 1..(n + 1) : Sound(stack'[k].snap)
  BY <1>1, <1>2, <1>3 DEF SoundInv
<1>5. Top' = g
  BY <1>2 DEF Top
<1> QED
  BY <1>2, <1>4, <1>5 DEF SoundInv

\* What is on top after the stack was cut is external code.
LEMMA SoundCut ==
  ASSUME SoundInv, TypeInv', NEW k \in 1..Len(stack),
         stack' = SubSeq(stack, 1, k - 1), k > 1 => IsExt(stack[k - 1]), Sound(st')
  PROVE  SoundInv'
<1>1. stack \in Seq(Frame) /\ Len(stack) \in Nat
  BY DEF SoundInv, TypeInv, TypeOK
<1>2. PICK n \in Nat : n = k - 1
  OBVIOUS
<1>3. Len(stack') = n /\ \A m \in 1..n : stack'[m] = stack[m] /\ m \in 1..Len(stack)
  BY <1>1, <1>2, CutFacts
<1>4. \A m \in 1..n : Sound(stack'[m].snap)
  BY <1>3 DEF SoundInv
<1>5. n > 0 => Top' = stack[n] /\ IsExt(stack[n]) /\ FrameInv(stack[n])
  BY <1>1, <1>2, <1>3 DEF Top, SoundInv, TypeInv, Shape
<1>6. n > 0 => Top'.phase = "run"
  BY <1>5 DEF IsExt, FrameInv
<1>7. n > 0 => Owning(st', Top')
  BY <1>6 DEF Owning
<1> QED
  BY <1>3, <1>4, <1>7 DEF SoundInv

LEMMA SoundInvInit == Init => SoundInv
<1> SUFFICES ASSUME Init PROVE SoundInv
  OBVIOUS
<1>1. TypeInv
  BY TypeInvInit
<1>2. Sound(st) /\ Len(stack) = 0
  BY DEF Init, Sound
<1> QED
  BY <1>1, <1>2 DEF SoundInv

LEMMA SoundInvNext == SoundInv /\ [Next]_vars => SoundInv'
<1> SUFFICES ASSUME SoundInv, [Next]_vars PROVE SoundInv'
  OBVIOUS
<1>0. TypeInv /\ TypeInv'
  BY TypeInvNext DEF SoundInv
<1>t. stack \in Seq(Frame) /\ st \in State /\ st' \in State /\ Len(stack) \in Nat
  BY <1>0 DEF TypeInv, TypeOK
<1>s. Sound(st) /\ st.done \subseteq Effect
  BY <1>t DEF SoundInv, State
<1>1. ASSUME NEW c \in Contract, BeginTx(c) PROVE SoundInv'
  <2>1. PICK g : g = ExtFrame(c, st)
    OBVIOUS
  <2>2. g.phase = "run" /\ g.snap = st
    BY <2>1 DEF ExtFrame
  <2>3. Pushes(g) /\ Sound(st')
    BY <1>1, <1>s, <2>1 DEF BeginTx, Pushes
  <2> QED
    BY <1>0, <2>2, <2>3, SoundEnter DEF Owning
<1>2. ASSUME NEW a \in Asset, Spend(a) PROVE SoundInv'
  <2>1. st'.used = st.used /\ st'.done = st.done /\ stack' = stack /\ Observable
    BY <1>0, <1>2, SpendFacts DEF Observable
  <2> QED
    BY <1>0, <1>s, <2>1, SoundQuiet, SoundSame
<1>3. ASSUME NEW q \in SignedPermit, SubmitPermit(q) PROVE SoundInv'
  <2>1. st'.used = st.used /\ st'.done = st.done /\ stack' = stack /\ Observable
    BY <1>0, <1>3, SubmitPermitFacts DEF Observable
  <2> QED
    BY <1>0, <1>s, <2>1, SoundQuiet, SoundSame
<1>4. CASE Return
  <2>1. PICK n \in Nat : n = Len(stack) /\ n > 0
    BY <1>4, <1>t DEF Return, ExtRuns
  <2>2. st' = st
    BY <1>4 DEF Return
  <2>3. CASE n = 1
    <3>1. stack' = <<>> /\ Len(stack') = 0
      BY <1>4, <2>1, <2>3 DEF Return
    <3> QED
      BY <1>0, <1>s, <2>2, <3>1 DEF SoundInv
  <2>4. CASE n > 1
    <3>1. /\ Below \in Seq(Frame) /\ Len(Below) = n - 1
          /\ \A k \in 1..(n - 1) : Below[k] = stack[k]
      BY <1>t, <2>1, <2>4, CutFacts DEF Below
    <3>2. stack' = [Below EXCEPT ![n - 1] = [Below[n - 1] EXCEPT !.phase = "floor"]]
      BY <1>4, <2>1, <2>4, <3>1 DEF Return
    <3>3. Below[n - 1] \in Frame
      BY <2>4, <3>1
    <3>4. /\ Len(stack') = n - 1 /\ stack'[n - 1].phase = "floor"
          /\ \A k \in 1..(n - 1) : stack'[k].snap = stack[k].snap
      BY <2>4, <3>1, <3>2, <3>3 DEF Frame
    <3>5. Top'.phase = "floor"
      BY <2>4, <3>4 DEF Top
    <3>6. Owning(st', Top')
      BY <3>5 DEF Owning
    <3>7. \A k \in 1..(n - 1) : Sound(stack'[k].snap)
      BY <2>1, <3>4 DEF SoundInv
    <3> QED
      BY <1>0, <1>s, <2>2, <3>4, <3>6, <3>7 DEF SoundInv
  <2> QED
    BY <2>1, <2>3, <2>4
<1>5. CASE Revert
  <2>1. PICK k \in 1..Len(stack) :
          /\ st' = stack[k].snap /\ stack' = SubSeq(stack, 1, k - 1)
          /\ k = IF IsExt(Top) /\ Len(stack) > 1 THEN Len(stack) - 1 ELSE Len(stack)
    BY <1>5, <1>t DEF Revert
  <2>2. k > 1 => ~IsExt(stack[k])
    BY <1>0, <1>t, <2>1 DEF TypeInv, Shape, Top
  <2>3. k > 1 => IsExt(stack[k - 1])
    BY <1>0, <1>t, <2>2 DEF TypeInv, Shape
  <2>4. Sound(st')
    BY <2>1 DEF SoundInv
  <2> QED
    BY <1>0, <2>1, <2>3, <2>4, SoundCut
<1>6. ASSUME NEW h \in {CodeHash[c] : c \in Contract}, NEW b \in BOOLEAN, register(h, b)
      PROVE SoundInv'
  <2>1. st' = st /\ stack' = stack /\ Observable
    BY <1>6 DEF register, Observable, AtRest
  <2> QED
    BY <1>0, <1>s, <2>1, SoundQuiet
<1>7. ASSUME NEW todo, EnterGuarded(todo) PROVE SoundInv'
  <2>1. PICK g : g = AcctFrame("guarded", todo, "next")
    OBVIOUS
  <2>2. g.phase = "next" /\ g.snap = st
    BY <2>1 DEF AcctFrame
  <2>3. st'.used = st.used /\ st'.done = st.done
    BY <1>7, <1>t, LockFacts DEF EnterGuarded
  <2>4. Pushes(g)
    BY <1>7, <2>1 DEF EnterGuarded, Pushes
  <2>5. Sound(st') /\ Owning(st', g)
    BY <1>s, <2>2, <2>3, SoundSame DEF Owning
  <2> QED
    BY <1>0, <2>2, <2>4, <2>5, SoundEnter
<1>8. ASSUME NEW n \in 0..MaxBatch, NEW batch \in [1..n -> SignedSolve], entry_solve_v1(batch)
      PROVE SoundInv'
  BY <1>7, <1>8 DEF entry_solve_v1
<1>9. ASSUME NEW u \in SignedSolveV2, entry_solve_v2(u) PROVE SoundInv'
  BY <1>7, <1>9 DEF entry_solve_v2
<1>10. ASSUME NEW u \in SignedSolveV3, entry_solve_v3(u) PROVE SoundInv'
  <2>1. PICK g : g = AcctFrame("open", StepsOf(u, 0), "next")
    OBVIOUS
  <2>2. g.phase = "next" /\ g.snap = st
    BY <2>1 DEF AcctFrame
  <2>3. Pushes(g) /\ Sound(st')
    BY <1>10, <1>s, <2>1 DEF entry_solve_v3, Pushes
  <2> QED
    BY <1>0, <2>2, <2>3, SoundEnter DEF Owning
<1>11. ASSUME NEW u \in SignedTransferOnly, entry_transfer_only(u) PROVE SoundInv'
  <2>1. PICK x : x = [unit |-> u, idx |-> 1]
    OBVIOUS
  <2>2. /\ NonceOf(x) \notin st.used /\ st'.used = st.used \cup {NonceOf(x)}
        /\ st'.done = st.done /\ st'.twice = st.twice
        /\ Pushes(AcctFrame("guarded", <<x>>, "transfer"))
    BY <1>0, <1>11, <2>1, TransferOnlyFacts
  <2>3. PICK g : g = AcctFrame("guarded", <<x>>, "transfer")
    OBVIOUS
  <2>4. g.phase = "transfer" /\ g.todo[1] = x /\ g.j = 1 /\ g.snap = st
    BY <2>3 DEF AcctFrame
  <2>5. Sound(st') /\ Owns(st', x, "move", 1)
    BY <1>s, <2>2, ConsumeOwns
  <2>6. Owning(st', g)
    BY <2>4, <2>5 DEF Owning
  <2> QED
    BY <1>0, <2>2, <2>3, <2>4, <2>5, <2>6, SoundEnter
<1>12. ASSUME NEW u \in SignedStatement, entry_statement(u) PROVE SoundInv'
  <2>1. PICK x : x = [unit |-> u, idx |-> 1]
    OBVIOUS
  <2>2. /\ NonceOf(x) \notin st.used /\ st'.used = st.used \cup {NonceOf(x)}
        /\ st'.done = st.done \cup {EffectOf(x, "statement", 0)}
        /\ stack' = stack /\ Observable
    BY <1>0, <1>12, <2>1, StatementFacts DEF Observable
  <2>3. Sound(st')
    BY <1>s, <2>2, SoundFresh
  <2> QED
    BY <1>0, <2>2, <2>3, SoundQuiet
<1>13. CASE PayGas
  <2>1. /\ Len(stack) > 0 /\ st'.used = st.used
        /\ st'.done = st.done \cup {EffectOf(Top.todo[1], "gas", 0)}
    BY <1>0, <1>13, PayGasFacts
  <2>2. PICK f : Continues(f) /\ f.phase = "next"
    BY <1>0, <1>13, PayGasFacts
  <2>3. Sound(st')
    BY <1>s, <2>1, SoundGas
  <2> QED
    BY <1>0, <2>1, <2>2, <2>3, SoundContinues DEF Owning
<1>14. CASE BeginItem
  <2>1. /\ Len(stack) > 0 /\ NonceOf(Top.todo[1]) \notin st.used
        /\ st'.used = st.used \cup {NonceOf(Top.todo[1])}
        /\ st'.done = st.done /\ st'.twice = st.twice
    BY <1>0, <1>14, BeginItemFacts
  <2>2. PICK f : Continues(f) /\ f.phase = "pull" /\ f.j = 1 /\ f.todo = Top.todo
    BY <1>0, <1>14, BeginItemFacts
  <2>3. Sound(st') /\ Owns(st', Top.todo[1], "pull", 1)
    BY <1>s, <2>1, ConsumeOwns
  <2>4. Owning(st', f)
    BY <2>2, <2>3 DEF Owning
  <2> QED
    BY <1>0, <2>1, <2>2, <2>3, <2>4, SoundContinues
<1>15. CASE Pull
  <2>1. /\ Len(stack) > 0 /\ Top \in Frame /\ Top.phase = "pull" /\ st'.used = st.used
        /\ st'.done = st.done \cup {EffectOf(Top.todo[1], "pull", Top.j)}
    BY <1>0, <1>15, PullFacts
  <2>2. PICK f : Continues(f) /\ f.phase = "pull" /\ f.j = Top.j + 1 /\ f.todo = Top.todo
    BY <1>0, <1>15, PullFacts
  <2>3. Owns(st, Top.todo[1], "pull", Top.j) /\ Top.j \in Nat
    BY <2>1 DEF SoundInv, Owning, Frame
  <2>4. Sound(st') /\ Owns(st', Top.todo[1], "pull", Top.j + 1)
    BY <1>s, <2>1, <2>3, OwnMoves, Zenon
  <2>5. Owning(st', f)
    BY <2>2, <2>4 DEF Owning
  <2> QED
    BY <1>0, <2>1, <2>2, <2>4, <2>5, SoundContinues
<1>16. CASE CallTarget
  <2>1. /\ Len(stack) > 0 /\ Top \in Frame /\ Top.phase = "pull" /\ st'.used = st.used
        /\ st'.done = st.done \cup {EffectOf(Top.todo[1], "call", 0)}
    BY <1>0, <1>16, CallTargetFacts
  <2>2. PICK f \in Frame, g \in Frame :
          f.kind = Top.kind /\ f.snap = Top.snap /\ g.kind = "ext" /\ g.snap = st' /\ Calls(f, g)
    BY <1>0, <1>16, CallTargetFacts DEF Calls
  <2>3. Owns(st, Top.todo[1], "pull", Top.j) /\ Top.j \in Nat
    BY <2>1 DEF SoundInv, Owning, Frame
  <2>4. Sound(st')
    BY <1>s, <2>1, <2>3, OwnSound
  <2>5. PICK n \in Nat : n = Len(stack) /\ n > 0
    BY <1>t, <2>1
  <2>6. PICK t : t = Append(SubSeq(stack, 1, n - 1), f)
    OBVIOUS
  <2>7. t \in Seq(Frame) /\ Len(t) = n /\ \A k \in 1..n : t[k].snap = stack[k].snap
    BY <1>t, <2>2, <2>5, <2>6, SameSetTop, SetTopFacts DEF Top, Same
  <2>8. Len(stack') = n + 1 /\ (\A k \in 1..n : stack'[k] = t[k]) /\ stack'[n + 1] = g
    <3>1. stack' = Append(t, g)
      BY <2>2, <2>5, <2>6 DEF Calls, Below
    <3> QED BY <2>7, <3>1
  <2>9. \A k \in 1..(n + 1) : Sound(stack'[k].snap)
    <3>1. \A k \in 1..(n + 1) : k \in 1..n \/ k = n + 1
      OBVIOUS
    <3> QED BY <2>2, <2>4, <2>5, <2>7, <2>8, <3>1 DEF SoundInv
  <2>10. Top' = g /\ FrameInv(g)
    BY <1>0, <2>8 DEF Top, TypeInv, Shape
  <2>11. Owning(st', Top')
    BY <2>2, <2>10 DEF Owning, FrameInv
  <2> QED
    BY <1>0, <2>4, <2>8, <2>9, <2>11 DEF SoundInv
<1>17. CASE CheckFloors
  <2>1. Len(stack) > 0 /\ Sound(st')
    BY <1>0, <1>17, <1>s, CheckFloorsFacts
  <2>2. PICK f : Continues(f) /\ f.phase = "next"
    BY <1>0, <1>17, CheckFloorsFacts
  <2> QED
    BY <1>0, <2>1, <2>2, SoundContinues DEF Owning
<1>18. CASE MoveNext
  <2>1. /\ Len(stack) > 0 /\ Top \in Frame /\ Top.phase = "transfer" /\ st'.used = st.used
        /\ st'.done = st.done \cup {EffectOf(Top.todo[1], "move", Top.j)}
    BY <1>0, <1>18, MoveNextFacts
  <2>2. PICK f : /\ Continues(f)
                 /\ \/ f.phase = "next" /\ f.todo = <<>>
                    \/ f.phase = "transfer" /\ f.todo = Top.todo /\ f.j = Top.j + 1
    BY <1>0, <1>18, MoveNextFacts
  <2>3. Owns(st, Top.todo[1], "move", Top.j) /\ Top.j \in Nat
    BY <2>1 DEF SoundInv, Owning, Frame
  <2>4. Sound(st') /\ Owns(st', Top.todo[1], "move", Top.j + 1)
    BY <1>s, <2>1, <2>3, OwnMoves, Zenon
  <2>5. Owning(st', f)
    BY <2>2, <2>4 DEF Owning
  <2> QED
    BY <1>0, <2>1, <2>2, <2>4, <2>5, SoundContinues
<1>19. CASE Finish
  <2>1. /\ Top.kind # "ext" /\ Len(stack) > 0 /\ st'.used = st.used /\ st'.done = st.done
        /\ stack' = Below
    BY <1>0, <1>19, FinishFacts
  <2>2. Sound(st')
    BY <1>s, <2>1, SoundSame
  <2>3. Len(stack) > 1 => IsExt(stack[Len(stack) - 1])
    BY <1>0, <1>t, <2>1 DEF TypeInv, Shape, Top, IsExt
  <2> QED
    BY <1>0, <1>t, <2>1, <2>2, <2>3, SoundCut DEF Below
<1>20. CASE UNCHANGED vars
  BY <1>0, <1>20 DEF vars, SoundInv, Top
<1> QED
  BY <1>1, <1>2, <1>3, <1>4, <1>5, <1>6, <1>8, <1>9, <1>10, <1>11, <1>12, <1>13,
     <1>14, <1>15, <1>16, <1>17, <1>18, <1>19, <1>20 DEF Next

\* Two operations that carry the same ms_ts never both take effect, through
\* whichever entry points, however deep and in whatever order they are called.
THEOREM NonceUnique == Spec => []OneOperationPerNonce
<1>1. SoundInv => OneOperationPerNonce
  BY DEF SoundInv, OneOperationPerNonce, Sound
<1> QED
  BY <1>1, SoundInvInit, SoundInvNext, PTL DEF Spec

-----------------------------------------------------------------------------
(* The predicates of OnceInv under the writes of the account.              *)

\* They read only the consumed values and the history.
LEMMA SettledSame ==
  ASSUME NEW s, NEW t, Settled(s), t.used = s.used, t.done = s.done, t.twice = s.twice
  PROVE  Settled(t)
  BY DEF Settled, Sound

LEMMA SettledIsWorking ==
  ASSUME NEW s, NEW f, Settled(s), f.phase \in {"next", "target", "floor"}
  PROVE  Working(s, f)
  BY DEF Working, Owning, Settled, HalfDone

\* An effect of the step that owns its value is a new one.
LEMMA OwnEffect ==
  ASSUME NEW s, NEW t, NEW x, NEW w \in {"pull", "move"}, NEW j \in Nat,
         NEW v \in {"pull", "move", "call"}, NEW n \in Nat,
         s.done \subseteq Effect, Settled(s), Owns(s, x, w, j), v = w => n = j,
         t.used = s.used, t.done = s.done \cup {EffectOf(x, v, n)},
         t.twice = IF EffectOf(x, v, n) \in s.done
                   THEN s.twice \cup {EffectOf(x, v, n)} ELSE s.twice
  PROVE  /\ Settled(t)
         /\ v = w => Owns(t, x, w, j + 1)
<1> DEFINE e == EffectOf(x, v, n)
<1>1. e.step = x /\ e.what = v /\ e.j = n /\ v # "gas"
  BY DEF EffectOf
<1>2. ASSUME v = w PROVE Owns(t, x, w, j + 1)
  <2>1. Sound(s)
    BY DEF Settled
  <2> QED
    BY <1>2, <2>1, OwnSound
<1> HIDE DEF e
<1>3. e \notin s.done
  BY <1>1 DEF Owns
<1>4. t.used = s.used /\ t.done = s.done \cup {e} /\ t.twice = {}
  BY <1>3 DEF e, Settled
<1>5. \A d \in s.done : d.what # "gas" /\ NonceOf(d.step) = NonceOf(e.step) => d.step = e.step
  BY <1>1 DEF Owns
<1>6. Sound(t)
  <2>1. \A d \in t.done : d.what # "gas" => NonceOf(d.step) \in t.used
    BY <1>1, <1>4 DEF Settled, Sound, Owns
  <2>2. \A c, d \in t.done :
          /\ c.what # "gas" /\ d.what # "gas"
          /\ NonceOf(c.step) = NonceOf(d.step)
          => c.step = d.step
    BY <1>4, <1>5 DEF Settled, Sound
  <2> QED
    BY <2>1, <2>2 DEF Sound
<1>7. \A d \in t.done : d.what = "gas" => FirstNonce(d.step.unit) \in t.used
  BY <1>1, <1>4 DEF Settled
<1> QED
  BY <1>2, <1>4, <1>6, <1>7 DEF Settled

\* BeginItem: the value that makes a gas payment final is consumed.
LEMMA ConsumeSettles ==
  ASSUME NEW s, NEW t, NEW x, SolveStep(x), NonceOf(x) \notin s.used,
         x.idx = 1 => HalfDone(s, x), x.idx # 1 => Settled(s),
         t.used = s.used \cup {NonceOf(x)}, t.done = s.done, t.twice = s.twice
  PROVE  Settled(t) /\ Owns(t, x, "pull", 1)
<1>1. Sound(s)
  BY DEF HalfDone, Settled
<1>2. Sound(t) /\ Owns(t, x, "pull", 1)
  BY <1>1, ConsumeOwns
<1>3. t.twice = {}
  BY DEF HalfDone, Settled
<1>4. x.idx = 1 => NonceOf(x) = FirstNonce(x.unit)
  BY StepFacts DEF Item, FirstNonce
<1>5. \A e \in t.done : e.what = "gas" => FirstNonce(e.step.unit) \in t.used
  BY <1>4 DEF HalfDone, Settled
<1> QED
  BY <1>2, <1>3, <1>5 DEF Settled

\* PayGas: the payment is pending on the first element y of the batch.
LEMMA PayIsHalfDone ==
  ASSUME NEW s, NEW t, NEW x, NEW y, Settled(s), SolveStep(y), y.idx = 1, y.unit = x.unit,
         t.used = s.used, t.done = s.done \cup {EffectOf(x, "gas", 0)},
         t.twice = IF EffectOf(x, "gas", 0) \in s.done
                   THEN s.twice \cup {EffectOf(x, "gas", 0)} ELSE s.twice
  PROVE  HalfDone(t, y)
<1> DEFINE e == EffectOf(x, "gas", 0)
<1>1. e.step = x /\ e.what = "gas"
  BY DEF EffectOf
<1>2. NonceOf(y) = FirstNonce(y.unit)
  BY StepFacts DEF Item, FirstNonce
<1> HIDE DEF e
<1>3. t.done = s.done \cup {e} /\ t.twice = IF e \in s.done THEN s.twice \cup {e} ELSE s.twice
  BY DEF e
<1>4. Sound(t)
  BY <1>1, <1>3 DEF Settled, Sound
<1>5. t.twice # {} => NonceOf(y) \in t.used
  BY <1>1, <1>2, <1>3 DEF Settled
<1>6. \A d \in t.done : d.what = "gas" => FirstNonce(d.step.unit) \in t.used \/ d.step.unit = y.unit
  BY <1>1, <1>3 DEF Settled
<1> QED
  BY <1>4, <1>5, <1>6 DEF HalfDone

\* Statement: a new value and a new effect at once.
LEMMA FreshEffect ==
  ASSUME NEW s, NEW t, NEW x, Settled(s), NonceOf(x) \notin s.used,
         t.used = s.used \cup {NonceOf(x)},
         t.done = s.done \cup {EffectOf(x, "statement", 0)},
         t.twice = IF EffectOf(x, "statement", 0) \in s.done
                   THEN s.twice \cup {EffectOf(x, "statement", 0)} ELSE s.twice
  PROVE  Settled(t)
<1> DEFINE e == EffectOf(x, "statement", 0)
<1>1. e.step = x /\ e.what = "statement"
  BY DEF EffectOf
<1> HIDE DEF e
<1>2. e \notin s.done
  BY <1>1 DEF Settled, Sound
<1>3. t.done = s.done \cup {e} /\ t.twice = {}
  BY <1>2 DEF e, Settled
<1>4. \A d \in s.done : d.what # "gas" => NonceOf(d.step) # NonceOf(e.step)
  BY <1>1 DEF Settled, Sound
<1>5. Sound(t)
  BY <1>1, <1>3, <1>4 DEF Settled, Sound
<1> QED
  BY <1>1, <1>3, <1>5 DEF Settled

-----------------------------------------------------------------------------
(* OnceInv under the moves of the stack.                                   *)

\* The step leaves the stack alone and external code is running.
LEMMA OnceQuiet ==
  ASSUME OnceInv, TypeInv', stack' = stack, Observable, Settled(st')
  PROVE  OnceInv'
  BY DEF OnceInv, Observable, AtRest, ExtRuns, Top, IsExt

\* The account's call on top goes on as f.
LEMMA OnceContinues ==
  ASSUME OnceInv, TypeInv', Len(stack) > 0, Top.kind # "ext", NEW f, Continues(f),
         Working(st', f)
  PROVE  OnceInv'
<1>1. stack \in Seq(Frame) /\ f \in Frame /\ f.kind = stack[Len(stack)].kind
      /\ f.snap = stack[Len(stack)].snap /\ f.kind # "ext"
      /\ stack' = Append(SubSeq(stack, 1, Len(stack) - 1), f)
  BY DEF OnceInv, TypeInv, TypeOK, Continues, Top, Below
<1>2. Same(stack, stack') /\ stack'[Len(stack)] = f
  BY <1>1, SameSetTop
<1>3. \A k \in 1..Len(stack') : Settled(stack'[k].snap)
  BY <1>2 DEF Same, OnceInv
<1>4. Len(stack') = Len(stack) /\ stack'[Len(stack)] = f
  BY <1>2 DEF Same
<1>5. ~Observable' /\ Top' = f
  BY <1>1, <1>4 DEF Observable, AtRest, ExtRuns, Top, IsExt
<1> QED
  BY <1>3, <1>5 DEF OnceInv

\* A call of the account is pushed on external code.
LEMMA OnceEnter ==
  ASSUME OnceInv, TypeInv', ExtRuns, NEW kind \in {"guarded", "open"}, NEW todo, NEW phase,
         stack' = Append(stack, AcctFrame(kind, todo, phase)),
         Working(st', AcctFrame(kind, todo, phase))
  PROVE  OnceInv'
<1>1. PICK n \in Nat : n = Len(stack)
  BY DEF OnceInv, TypeInv, TypeOK
<1>2. PICK f : f = AcctFrame(kind, todo, phase)
  OBVIOUS
<1>3. f.kind # "ext" /\ f.snap = st
  BY <1>2 DEF AcctFrame
<1>4. Len(stack') = n + 1 /\ (\A k \in 1..n : stack'[k] = stack[k]) /\ stack'[n + 1] = f
  BY <1>1, <1>2 DEF OnceInv, TypeInv, TypeOK
<1>5. Settled(st)
  BY DEF OnceInv, Observable
<1>6. \A k \in 1..(n + 1) : Settled(stack'[k].snap)
  <2>1. \A k \in 1..n : Settled(stack[k].snap)
    BY <1>1 DEF OnceInv
  <2>2. \A k \in 1..(n + 1) : k \in 1..n \/ k = n + 1
    OBVIOUS
  <2> QED
    BY <1>3, <1>4, <1>5, <2>1, <2>2
<1>7. ~Observable' /\ Top' = f
  BY <1>3, <1>4 DEF Observable, AtRest, ExtRuns, Top, IsExt
<1> QED
  BY <1>2, <1>4, <1>6, <1>7 DEF OnceInv

\* The stack is cut above external code, or emptied.
LEMMA OnceCut ==
  ASSUME OnceInv, TypeInv', NEW k \in 1..Len(stack),
         stack' = SubSeq(stack, 1, k - 1), k > 1 => IsExt(stack[k - 1]), Settled(st')
  PROVE  OnceInv'
<1>0. stack \in Seq(Frame) /\ stack' \in Seq(Frame)
  BY DEF OnceInv, TypeInv, TypeOK
<1>1. PICK n \in Nat : n = k - 1
  BY <1>0
<1>2. Len(stack') = n /\ \A m \in 1..n : stack'[m] = stack[m]
  BY <1>0, <1>1, CutFacts
<1>3. \A m \in 1..n : Settled(stack'[m].snap)
  <2>1. \A m \in 1..Len(stack) : Settled(stack[m].snap)
    BY DEF OnceInv
  <2>2. \A m \in 1..n : m \in 1..Len(stack)
    BY <1>0, <1>1
  <2> QED
    BY <1>2, <2>1, <2>2
<1>4. Observable'
  <2>1. CASE n = 0
    <3>1. stack' = <<>>
      BY <1>0, <1>2, <2>1
    <3> QED
      BY <3>1 DEF Observable, AtRest
  <2>2. CASE n > 0
    BY <2>2, <1>1, <1>2 DEF Observable, ExtRuns, Top
  <2> QED
    BY <1>1, <2>1, <2>2
<1> QED
  BY <1>2, <1>3, <1>4 DEF OnceInv

LEMMA OnceInvInit == Init => OnceInv
<1> SUFFICES ASSUME Init PROVE OnceInv
  OBVIOUS
<1>1. TypeInv
  BY TypeInvInit
<1>2. Settled(st)
  BY DEF Init, Settled, Sound
<1>3. stack = <<>> /\ Len(stack) = 0
  BY DEF Init
<1> QED
  BY <1>1, <1>2, <1>3 DEF OnceInv, Observable, AtRest

\* The call that is on top is not observed.
LEMMA AcctOnTop ==
  ASSUME OnceInv, Len(stack) > 0, Top.kind # "ext"
  PROVE  Working(st, Top) /\ st.done \subseteq Effect
<1>1. ~Observable
  BY DEF Observable, AtRest, ExtRuns, IsExt
<1>2. st \in State
  BY DEF OnceInv, TypeInv, TypeOK
<1> QED
  BY <1>1, <1>2 DEF OnceInv, State

LEMMA OnceInvNext ==
  ASSUME V3NotEmpty, OnceInv, [Next]_vars
  PROVE  OnceInv'
<1>0. TypeInv /\ TypeInv'
  BY TypeInvNext DEF OnceInv
<1>t. stack \in Seq(Frame) /\ st \in State /\ st' \in State /\ Len(stack) \in Nat
  BY <1>0 DEF TypeInv, TypeOK
<1>s. ASSUME Observable PROVE Settled(st)
  BY <1>s DEF OnceInv
<1>1. ASSUME NEW c \in Contract, BeginTx(c) PROVE OnceInv'
  <2>1. stack = <<>> /\ stack' = <<ExtFrame(c, st)>> /\ st' = st
    BY <1>1 DEF BeginTx
  <2>2. Settled(st)
    BY <1>s, <2>1 DEF Observable, AtRest
  <2>3. Len(stack') = 1 /\ stack'[1].kind = "ext" /\ stack'[1].snap = st
    BY <2>1 DEF ExtFrame
  <2>4. Observable'
    BY <2>3 DEF Observable, ExtRuns, Top, IsExt
  <2> QED
    BY <1>0, <2>1, <2>2, <2>3, <2>4 DEF OnceInv
<1>2. ASSUME NEW a \in Asset, Spend(a) PROVE OnceInv'
  <2>1. /\ st'.used = st.used /\ st'.done = st.done /\ st'.twice = st.twice
        /\ stack' = stack /\ Observable
    BY <1>0, <1>2, SpendFacts DEF Observable
  <2> QED
    BY <1>0, <1>s, <2>1, OnceQuiet, SettledSame
<1>3. ASSUME NEW q \in SignedPermit, SubmitPermit(q) PROVE OnceInv'
  <2>1. /\ st'.used = st.used /\ st'.done = st.done /\ st'.twice = st.twice
        /\ stack' = stack /\ Observable
    BY <1>0, <1>3, SubmitPermitFacts DEF Observable
  <2> QED
    BY <1>0, <1>s, <2>1, OnceQuiet, SettledSame
<1>4. CASE Return
  <2>1. PICK n \in Nat : n = Len(stack) /\ n > 0
    BY <1>4, <1>t DEF Return, ExtRuns
  <2>2. st' = st /\ Settled(st) /\ IsExt(stack[n])
    BY <1>4, <1>s, <2>1 DEF Return, ExtRuns, Top, Observable
  <2>3. CASE n = 1
    <3>1. stack' = <<>> /\ Len(stack') = 0
      BY <1>4, <2>1, <2>3 DEF Return
    <3> QED
      BY <1>0, <2>2, <3>1 DEF OnceInv, Observable, AtRest
  <2>4. CASE n > 1
    <3>1. /\ Below \in Seq(Frame) /\ Len(Below) = n - 1
          /\ \A k \in 1..(n - 1) : Below[k] = stack[k]
      BY <1>t, <2>1, <2>4, CutFacts DEF Below
    <3>2. stack' = [Below EXCEPT ![n - 1] = [Below[n - 1] EXCEPT !.phase = "floor"]]
      BY <1>4, <2>1, <2>4, <3>1 DEF Return
    <3>3. Below[n - 1] \in Frame
      BY <2>4, <3>1
    <3>4. /\ Len(stack') = n - 1
          /\ stack'[n - 1].phase = "floor"
          /\ stack'[n - 1].kind = stack[n - 1].kind
          /\ \A k \in 1..(n - 1) : stack'[k].snap = stack[k].snap
      BY <2>4, <3>1, <3>2, <3>3 DEF Frame
    <3>5. ~IsExt(stack[n - 1])
      BY <1>0, <2>1, <2>2, <2>4 DEF TypeInv, Shape
    <3>6. ~Observable' /\ Top' = stack'[n - 1]
      BY <2>4, <3>4, <3>5 DEF Observable, AtRest, ExtRuns, Top, IsExt
    <3>7. Working(st', Top')
      BY <2>2, <3>4, <3>6, SettledIsWorking
    <3>8. \A k \in 1..(n - 1) : Settled(stack'[k].snap)
      BY <2>1, <3>4 DEF OnceInv
    <3> QED
      BY <1>0, <3>4, <3>6, <3>7, <3>8 DEF OnceInv
  <2> QED
    BY <2>1, <2>3, <2>4
<1>5. CASE Revert
  <2>1. PICK k \in 1..Len(stack) :
          /\ st' = stack[k].snap /\ stack' = SubSeq(stack, 1, k - 1)
          /\ k = IF IsExt(Top) /\ Len(stack) > 1 THEN Len(stack) - 1 ELSE Len(stack)
    BY <1>5, <1>t DEF Revert
  <2>2. k > 1 => ~IsExt(stack[k])
    BY <1>0, <1>t, <2>1 DEF TypeInv, Shape, Top
  <2>3. k > 1 => IsExt(stack[k - 1])
    BY <1>0, <1>t, <2>2 DEF TypeInv, Shape
  <2>4. Settled(st')
    BY <2>1 DEF OnceInv
  <2> QED
    BY <1>0, <2>1, <2>3, <2>4, OnceCut
<1>6. ASSUME NEW h \in {CodeHash[c] : c \in Contract}, NEW b \in BOOLEAN, register(h, b)
      PROVE OnceInv'
  <2>1. st' = st /\ stack' = stack /\ Observable
    BY <1>6 DEF register, Observable, AtRest
  <2> QED
    BY <1>0, <1>s, <2>1, OnceQuiet
<1>7. ASSUME NEW todo, EnterGuarded(todo) PROVE OnceInv'
  <2>1. st'.used = st.used /\ st'.done = st.done /\ st'.twice = st.twice /\ Observable /\ ExtRuns
    BY <1>7, <1>t, LockFacts DEF EnterGuarded, Observable
  <2>2. Settled(st')
    BY <1>s, <2>1, SettledSame
  <2>3. Working(st', AcctFrame("guarded", todo, "next"))
    BY <2>2, SettledIsWorking DEF AcctFrame
  <2> QED
    BY <1>0, <1>7, <2>1, <2>3, OnceEnter DEF EnterGuarded
<1>8. ASSUME NEW n \in 0..MaxBatch, NEW batch \in [1..n -> SignedSolve], entry_solve_v1(batch)
      PROVE OnceInv'
  BY <1>7, <1>8 DEF entry_solve_v1
<1>9. ASSUME NEW u \in SignedSolveV2, entry_solve_v2(u) PROVE OnceInv'
  BY <1>7, <1>9 DEF entry_solve_v2
<1>10. ASSUME NEW u \in SignedSolveV3, entry_solve_v3(u) PROVE OnceInv'
  <2>1. st' = st /\ Settled(st) /\ ExtRuns
    BY <1>10, <1>s DEF entry_solve_v3, Observable
  <2>2. Working(st', AcctFrame("open", StepsOf(u, 0), "next"))
    BY <2>1, SettledIsWorking DEF AcctFrame
  <2> QED
    BY <1>0, <1>10, <2>1, <2>2, OnceEnter DEF entry_solve_v3
<1>11. ASSUME NEW u \in SignedTransferOnly, entry_transfer_only(u) PROVE OnceInv'
  <2>1. PICK x : x = [unit |-> u, idx |-> 1]
    OBVIOUS
  <2>2. u.ms_ts \in Nonce /\ NonceOf(x) = u.ms_ts
    BY <2>1, SignedAssumption DEF TransferOnlyArgs, NonceOf, IsSolve
  <2>3. Settled(st) /\ ExtRuns /\ NonceOf(x) \notin st.used
    BY <1>11, <1>s, <2>2 DEF entry_transfer_only, Observable, Unused
  <2>4. /\ st'.used = st.used \cup {NonceOf(x)}
        /\ st'.done = st.done /\ st'.twice = st.twice
    BY <1>11, <1>t, <2>2, ExchangeFacts, LockFacts DEF entry_transfer_only
  <2>5. Sound(st') /\ Owns(st', x, "move", 1)
    BY <2>3, <2>4, ConsumeOwns DEF Settled
  <2>6. Settled(st')
    BY <2>3, <2>4, <2>5 DEF Settled
  <2>7. PICK f : f = AcctFrame("guarded", <<x>>, "transfer")
    OBVIOUS
  <2>8. f.phase = "transfer" /\ f.todo[1] = x /\ f.j = 1
    BY <2>7 DEF AcctFrame
  <2>9. Working(st', f)
    BY <2>5, <2>6, <2>8 DEF Working, Owning, AtFirst
  <2> QED
    BY <1>0, <1>11, <2>1, <2>3, <2>7, <2>9, OnceEnter DEF entry_transfer_only
<1>12. ASSUME NEW u \in SignedStatement, entry_statement(u) PROVE OnceInv'
  <2>1. PICK x : x = [unit |-> u, idx |-> 1]
    OBVIOUS
  <2>2. u.ms_ts \in Nonce /\ NonceOf(x) = u.ms_ts
    BY <2>1, SignedAssumption DEF StatementArgs, NonceOf, IsSolve
  <2>3. Settled(st) /\ Observable /\ NonceOf(x) \notin st.used /\ stack' = stack
    BY <1>12, <1>s, <2>2 DEF entry_statement, Observable, Unused
  <2>4. PICK e \in Effect : e = EffectOf(x, "statement", 0)
    BY <2>1, EffectFacts DEF Step, Unit
  <2>5. PICK s1 \in State : /\ s1 = Exchange(st, NonceOf(x))
                            /\ s1.used = st.used \cup {NonceOf(x)}
                            /\ s1.done = st.done /\ s1.twice = st.twice
    BY <1>t, <2>2, ExchangeFacts
  <2>6. st' = Log(s1, e)
    BY <1>12, <2>1, <2>2, <2>4, <2>5 DEF entry_statement
  <2>7. /\ st'.used = s1.used /\ st'.done = s1.done \cup {e}
        /\ st'.twice = IF e \in s1.done THEN s1.twice \cup {e} ELSE s1.twice
    BY <2>6, LogFacts
  <2>8. Settled(st')
    BY <2>3, <2>4, <2>5, <2>7, FreshEffect
  <2> QED
    BY <1>0, <2>3, <2>8, OnceQuiet
<1>13. CASE PayGas
  <2> DEFINE x == Top.todo[1]
  <2>1. /\ GasStep(x) /\ Top.kind # "ext" /\ Len(stack) > 0 /\ Top \in Frame
        /\ Top.phase = "next" /\ SolveTodo(Top.todo) /\ Top.todo \in Seq(Step) /\ Top.todo # <<>>
        /\ st'.used = st.used
        /\ st'.done = st.done \cup {EffectOf(x, "gas", 0)}
        /\ st'.twice = IF EffectOf(x, "gas", 0) \in st.done
                       THEN st.twice \cup {EffectOf(x, "gas", 0)} ELSE st.twice
    BY <1>0, <1>13, PayGasFacts
  <2>2. PICK f : Continues(f) /\ f.phase = "next" /\ f.todo = Tail(Top.todo)
    BY <1>0, <1>13, PayGasFacts
  <2>3. Settled(st)
    BY <2>1, AcctOnTop DEF Working, Owning, AtFirst, GasStep
  <2>4. Len(Top.todo) > 1 /\ Top.todo[2] = [unit |-> x.unit, idx |-> 1]
    <3>1. x.unit.args \in Seq(SolveArgs) /\ x.unit.args # <<>>
      BY <2>1, SignedAssumption DEF V3NotEmpty, GasStep, SolveV3Args
    <3>2. Len(x.unit.args) \in Nat /\ Len(x.unit.args) > 0
      BY <3>1
    <3> QED
      BY <2>1, <3>2 DEF SolveTodo
  <2>5. f.todo # <<>> /\ f.todo[1] = Top.todo[2] /\ SolveStep(f.todo[1])
    <3>1. /\ Len(Tail(Top.todo)) = Len(Top.todo) - 1 /\ Len(Top.todo) \in Nat
          /\ Tail(Top.todo)[1] = Top.todo[2]
      BY <2>1, <2>4
    <3>2. \A i \in 1..Len(Tail(Top.todo)) : SolveStep(Tail(Top.todo)[i])
      BY <2>1, TodoTail
    <3>3. Tail(Top.todo) # <<>> /\ 1 \in 1..Len(Tail(Top.todo))
      BY <2>4, <3>1
    <3>4. SolveStep(Tail(Top.todo)[1])
      BY <3>2, <3>3
    <3> QED
      BY <2>2, <3>1, <3>3, <3>4
  <2>6. f.todo[1].idx = 1 /\ f.todo[1].unit = x.unit
    BY <2>4, <2>5
  <2> HIDE DEF x
  <2>7. HalfDone(st', f.todo[1])
    BY <2>1, <2>3, <2>5, <2>6, PayIsHalfDone
  <2>8. Working(st', f)
    BY <2>2, <2>5, <2>6, <2>7 DEF Working, Owning, AtFirst
  <2> QED
    BY <1>0, <2>1, <2>2, <2>8, OnceContinues
<1>14. CASE BeginItem
  <2> DEFINE x == Top.todo[1]
  <2>1. /\ SolveStep(x) /\ Top.kind # "ext" /\ Len(stack) > 0
        /\ Top.phase = "next" /\ Top.todo # <<>>
        /\ NonceOf(x) \notin st.used
        /\ st'.used = st.used \cup {NonceOf(x)}
        /\ st'.done = st.done /\ st'.twice = st.twice
    BY <1>0, <1>14, BeginItemFacts
  <2>2. PICK f : Continues(f) /\ f.phase = "pull" /\ f.j = 1 /\ f.todo = Top.todo
    BY <1>0, <1>14, BeginItemFacts
  <2>3. (x.idx = 1 => HalfDone(st, x)) /\ (x.idx # 1 => Settled(st))
    BY <2>1, AcctOnTop DEF Working, Owning, AtFirst
  <2> HIDE DEF x
  <2>4. Settled(st') /\ Owns(st', x, "pull", 1)
    BY <2>1, <2>3, ConsumeSettles
  <2>5. Working(st', f)
    BY <2>2, <2>4 DEF Working, Owning, AtFirst, x
  <2> QED
    BY <1>0, <2>1, <2>2, <2>5, OnceContinues
<1>15. CASE Pull
  <2> DEFINE x == Top.todo[1]
  <2>1. /\ Top.kind # "ext" /\ Len(stack) > 0 /\ Top \in Frame /\ Top.phase = "pull"
        /\ st'.used = st.used
        /\ st'.done = st.done \cup {EffectOf(x, "pull", Top.j)}
        /\ st'.twice = IF EffectOf(x, "pull", Top.j) \in st.done
                       THEN st.twice \cup {EffectOf(x, "pull", Top.j)} ELSE st.twice
    BY <1>0, <1>15, PullFacts
  <2>2. PICK f : Continues(f) /\ f.phase = "pull" /\ f.j = Top.j + 1 /\ f.todo = Top.todo
    BY <1>0, <1>15, PullFacts
  <2>3. Settled(st) /\ Owns(st, x, "pull", Top.j) /\ st.done \subseteq Effect /\ Top.j \in Nat
    BY <2>1, AcctOnTop DEF Working, Owning, AtFirst, Frame
  <2> HIDE DEF x
  <2>4. Settled(st') /\ Owns(st', x, "pull", Top.j + 1)
    BY <2>1, <2>3, OwnEffect
  <2>5. Working(st', f)
    BY <2>2, <2>4 DEF Working, Owning, AtFirst, x
  <2> QED
    BY <1>0, <2>1, <2>2, <2>5, OnceContinues
<1>16. CASE CallTarget
  <2> DEFINE x == Top.todo[1]
  <2>1. /\ Top.kind # "ext" /\ Len(stack) > 0 /\ Top \in Frame /\ Top.phase = "pull"
        /\ st'.used = st.used
        /\ st'.done = st.done \cup {EffectOf(x, "call", 0)}
        /\ st'.twice = IF EffectOf(x, "call", 0) \in st.done
                       THEN st.twice \cup {EffectOf(x, "call", 0)} ELSE st.twice
    BY <1>0, <1>16, CallTargetFacts
  <2>2. PICK f \in Frame, g \in Frame :
          /\ f.kind = Top.kind /\ f.snap = Top.snap /\ f.phase = "target"
          /\ g.kind = "ext" /\ g.snap = st'
          /\ stack' = Append(Append(Below, f), g)
    BY <1>0, <1>16, CallTargetFacts
  <2>3. Settled(st) /\ Owns(st, x, "pull", Top.j) /\ st.done \subseteq Effect /\ Top.j \in Nat
    BY <2>1, AcctOnTop DEF Working, Owning, AtFirst, Frame
  <2> HIDE DEF x
  <2>4. Settled(st')
    BY <2>1, <2>3, OwnEffect
  <2>5. PICK t : t = Append(SubSeq(stack, 1, Len(stack) - 1), f)
    OBVIOUS
  <2>6. Same(stack, t)
    BY <1>t, <2>1, <2>2, <2>5, SameSetTop DEF Top
  <2>7. t \in Seq(Frame)
    BY <1>t, <2>1, <2>5, SetTopFacts
  <2>8. PICK n \in Nat : n = Len(stack)
    BY <1>t
  <2>9. /\ Len(stack') = n + 1 /\ (\A k \in 1..n : stack'[k] = t[k]) /\ stack'[n + 1] = g
    <3>1. stack' = Append(t, g) /\ Len(t) = n
      BY <2>2, <2>5, <2>6, <2>8 DEF Below, Same
    <3> QED
      BY <2>7, <2>8, <3>1
  <2>10. \A k \in 1..n : Settled(t[k].snap)
    BY <2>6, <2>8 DEF Same, OnceInv
  <2>11. \A k \in 1..(n + 1) : Settled(stack'[k].snap)
    <3>1. \A k \in 1..(n + 1) : k \in 1..n \/ k = n + 1
      BY <2>8
    <3> QED
      BY <2>2, <2>4, <2>9, <2>10, <3>1
  <2>12. Observable'
    BY <2>2, <2>9 DEF Observable, ExtRuns, Top, IsExt
  <2> QED
    BY <1>0, <2>4, <2>9, <2>11, <2>12 DEF OnceInv
<1>17. CASE CheckFloors
  <2>1. /\ Top.kind # "ext" /\ Len(stack) > 0 /\ Top.phase = "floor" /\ st' = st
    BY <1>0, <1>17, CheckFloorsFacts
  <2>2. PICK f : Continues(f) /\ f.phase = "next"
    BY <1>0, <1>17, CheckFloorsFacts
  <2>3. Settled(st')
    BY <2>1, AcctOnTop DEF Working, Owning, AtFirst
  <2> QED
    BY <1>0, <2>1, <2>2, <2>3, SettledIsWorking, OnceContinues
<1>18. CASE MoveNext
  <2> DEFINE x == Top.todo[1]
  <2>1. /\ Top.kind # "ext" /\ Len(stack) > 0 /\ Top \in Frame /\ Top.phase = "transfer"
        /\ st'.used = st.used
        /\ st'.done = st.done \cup {EffectOf(x, "move", Top.j)}
        /\ st'.twice = IF EffectOf(x, "move", Top.j) \in st.done
                       THEN st.twice \cup {EffectOf(x, "move", Top.j)} ELSE st.twice
    BY <1>0, <1>18, MoveNextFacts
  <2>2. PICK f : /\ Continues(f)
                 /\ \/ f.phase = "next" /\ f.todo = <<>>
                    \/ f.phase = "transfer" /\ f.todo = Top.todo /\ f.j = Top.j + 1
    BY <1>0, <1>18, MoveNextFacts
  <2>3. Settled(st) /\ Owns(st, x, "move", Top.j) /\ st.done \subseteq Effect /\ Top.j \in Nat
    BY <2>1, AcctOnTop DEF Working, Owning, AtFirst, Frame
  <2> HIDE DEF x
  <2>4. Settled(st') /\ Owns(st', x, "move", Top.j + 1)
    BY <2>1, <2>3, OwnEffect
  <2>5. Working(st', f)
    BY <2>2, <2>4 DEF Working, Owning, AtFirst, x
  <2> QED
    BY <1>0, <2>1, <2>2, <2>5, OnceContinues
<1>19. CASE Finish
  <2>1. /\ Top.kind # "ext" /\ Len(stack) > 0 /\ Top.todo = <<>> /\ Top.phase = "next"
        /\ st'.used = st.used /\ st'.done = st.done /\ st'.twice = st.twice
        /\ stack' = Below
    BY <1>0, <1>19, FinishFacts
  <2>2. Settled(st')
    BY <2>1, AcctOnTop, SettledSame DEF Working, Owning, AtFirst
  <2>3. Len(stack) > 1 => IsExt(stack[Len(stack) - 1])
    BY <1>0, <1>t, <2>1 DEF TypeInv, Shape, Top, IsExt
  <2> QED
    BY <1>0, <1>t, <2>1, <2>2, <2>3, OnceCut DEF Below
<1>20. CASE UNCHANGED vars
  BY <1>0, <1>20 DEF vars, OnceInv, Observable, AtRest, ExtRuns, Top, IsExt
<1> QED
  BY <1>1, <1>2, <1>3, <1>4, <1>5, <1>6, <1>8, <1>9, <1>10, <1>11, <1>12, <1>13,
     <1>14, <1>15, <1>16, <1>17, <1>18, <1>19, <1>20 DEF Next

\* "preventing the same operation from being replayed" holds for every set of
\* signed operations in which no SolveV3 is empty: no effect happens twice.
THEOREM NoReplay ==
  ASSUME V3NotEmpty
  PROVE  Spec => []EffectsOnce
<1>1. OnceInv => EffectsOnce
  BY DEF OnceInv, EffectsOnce, Settled
<1>2. OnceInv /\ [Next]_vars => OnceInv'
  BY OnceInvNext
<1> QED
  BY <1>1, <1>2, OnceInvInit, PTL DEF Spec
=============================================================================
