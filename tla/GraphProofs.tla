---------------------------- MODULE GraphProofs ----------------------------
(***************************************************************************)
(* Proofs about the execution of a GraphQL operation: for operations of    *)
(* any number of fields, in any order, with any of their arguments bad.    *)
(*                                                                         *)
(* The answer is put together at the end from what the goroutines left     *)
(* behind, so the invariant says for every field what has been left behind *)
(* at each moment: its place in the loop (LoopInv), its result and its     *)
(* errors (ResInv), what was counted (CountInv) and called (CallsInv).     *)
(***************************************************************************)
EXTENDS Graph, TLAPS, FiniteSetTheorems, SequenceTheorems

Kinds == {"waiting", "delayed", "ready", "running", "hung", "returned", "done"}

\* What an error is about, and why it was recorded.
Errors == [field: Fields \cup {0},
           why: {"unsupported", "error", "panic"} \cup UNION {doc.fields[i].bad : i \in Fields}]

\* The types of all variables.
Shape ==
  /\ doc \in Document
  /\ pc \in {"idle", "loop", "dispatch", "done", "lost"}
  /\ at \in 1..(Len(doc.fields) + 1)
  /\ task \in [Fields -> Kinds]
  /\ res = [i \in Fields |-> res[i]]
  /\ errors \in Seq(Errors)
  /\ calls \in Seq(Fields)

\* An operation that gqlgen executes at all.
Executed == doc.kind \in {"query", "mutation"}

\* Where every field is when the loop is at "at".
LoopInv ==
  /\ pc = "idle" => at = 1 /\ errors = <<>> /\ \A i \in Fields : task[i] = "waiting"
  /\ pc = "loop" =>
       /\ Executed
       /\ \A i \in Fields :
            /\ i < at => task[i] \in {"delayed", "done"}
            /\ i = at => task[i] \in {"waiting", "ready", "running", "hung", "returned"}
            /\ i > at => task[i] = "waiting"
  /\ pc = "dispatch" =>
       /\ Executed
       /\ \A i \in Fields : task[i] \in {"delayed", "running", "hung", "returned", "done"}
  /\ pc \in {"dispatch", "done"} /\ doc.kind = "mutation" => \A i \in Fields : task[i] = "done"
  /\ \A i \in Fields : task[i] = "delayed" => doc.kind # "mutation"
  /\ pc # "dispatch" /\ doc.kind = "mutation" =>
       \A i \in Fields : task[i] \in {"running", "hung"} => i = at
  /\ pc = "done" =>
       \/ Executed /\ \A i \in Fields : task[i] = "done"
       \/ ~Executed /\ \A i \in Fields : task[i] = "waiting"

\* A result and its error are left behind together.
ResInv ==
  \A i \in Fields :
    /\ task[i] \notin {"returned", "done"} => res[i] = Unset /\ ErrorsAt(i) = {}
    /\ task[i] \in {"returned", "done"} =>
         /\ res[i] # Unset
         /\ ErrorsAt(i) # {} => res[i] = Null /\ \E n \in DOMAIN errors : ErrorsAt(i) = {n}
         /\ res[i] = Null /\ Name(i) # "__type" => ErrorsAt(i) # {}
         /\ res[i].kind = "object" => DOMAIN res[i].of = doc.fields[i].sel
         /\ res[i].kind = "list" =>
              \A n \in DOMAIN res[i].of : DOMAIN res[i].of[n].of = doc.fields[i].sel

\* The fields whose null has been counted.
Counted == {i \in Fields : task[i] = "done" /\ res[i] = Null /\ CountsNull(Name(i))}

CountInv == invalids = Cardinality(Counted)

Started == {"running", "hung", "returned", "done"}

\* Which resolvers have been called.
CallsInv ==
  /\ \A n \in DOMAIN calls : task[calls[n]] \in Started
  /\ \A i \in Fields : task[i] \in {"running", "hung"} => doc.fields[i].bad = {}
  /\ \A i \in Fields : task[i] \in Started =>
       ((\E n \in DOMAIN calls : calls[n] = i)
          <=> doc.fields[i].bad = {} /\ Name(i) # "__typename")
  /\ doc.kind = "mutation" => \A m, n \in DOMAIN calls : m < n => calls[m] < calls[n]

\* The answer is put together once.
DataInv ==
  data = IF pc = "done" /\ Executed
         THEN IF invalids > 0 THEN Null ELSE [kind |-> "fields", of |-> res]
         ELSE Unset

\* The inductive invariant.
Inv == Shape /\ LoopInv /\ ResInv /\ CountInv /\ CallsInv /\ DataInv

-----------------------------------------------------------------------------
(* The document and the marshalled results.                                *)

\* The fields of the operation are numbered from one.
LEMMA DocFacts ==
  ASSUME Shape
  PROVE  /\ Fields = 1..Len(doc.fields) /\ Len(doc.fields) \in Nat
         /\ doc.kind \in {"query", "mutation", "subscription"}
         /\ \A i \in Fields :
              /\ doc.kind = "query" => Name(i) \in QueryFields
              /\ doc.kind = "mutation" => Name(i) \in MutationFields \cup {"__typename"}
              /\ doc.fields[i].bad \subseteq {ArgsOf(Name(i))[a] : a \in DOMAIN ArgsOf(Name(i))}
              /\ doc.fields[i].sel \subseteq Children(Name(i)) \cup {"__typename"}
<1>1. doc \in Document
  BY DEF Shape
<1>2. doc.fields \in Seq([name: STRING, bad: SUBSET STRING, sel: SUBSET STRING])
  BY <1>1, GraphAssumption
<1>. QED
  BY <1>1, <1>2, GraphAssumption DEF Fields, Name

\* What marshalling gives: an object or a list has what was selected, and only
\* the introspection gives a null of its own accord.
Fitting(i, v) ==
  /\ v # Unset
  /\ v = Null => Name(i) = "__type"
  /\ v.kind = "object" => DOMAIN v.of = doc.fields[i].sel
  /\ v.kind = "list" => \A n \in DOMAIN v.of : DOMAIN v.of[n].of = doc.fields[i].sel

\* The kinds of result differ.
LEMMA Results ==
  /\ Null # Unset /\ Scalar # Unset /\ Scalar # Null
  /\ Null.kind = "null" /\ Scalar.kind = "scalar" /\ Unset.kind = "unset"
  /\ \A x : [kind |-> "object", of |-> x] # Null /\ [kind |-> "object", of |-> x] # Unset
  /\ \A x : [kind |-> "list", of |-> x] # Null /\ [kind |-> "list", of |-> x] # Unset
  /\ \A x : [kind |-> "fields", of |-> x] # Null /\ [kind |-> "fields", of |-> x] # Unset
<1>1. /\ Null.kind = "null" /\ Scalar.kind = "scalar" /\ Unset.kind = "unset"
      /\ \A x : [kind |-> "object", of |-> x].kind = "object"
      /\ \A x : [kind |-> "list", of |-> x].kind = "list"
      /\ \A x : [kind |-> "fields", of |-> x].kind = "fields"
  BY DEF Null, Unset, Scalar
<1>2. Null # Unset /\ Scalar # Unset /\ Scalar # Null
  BY <1>1
<1>3. ASSUME NEW x
      PROVE  /\ [kind |-> "object", of |-> x] # Null /\ [kind |-> "object", of |-> x] # Unset
             /\ [kind |-> "list", of |-> x] # Null /\ [kind |-> "list", of |-> x] # Unset
             /\ [kind |-> "fields", of |-> x] # Null /\ [kind |-> "fields", of |-> x] # Unset
  BY <1>1
<1>. QED
  BY <1>1, <1>2, <1>3

\* An object of which every part is there.
LEMMA StatisticsObjectFacts ==
  ASSUME NEW sel, NEW obj, \A f \in sel : obj[f] # Null
  PROVE  StatisticsObject(sel, obj) # Null /\ DOMAIN StatisticsObject(sel, obj).of = sel
<1>. DEFINE o == [f \in sel |-> obj[f]]
<1>1. StatisticsObject(sel, obj) = [kind |-> "object", of |-> o]
  BY DEF StatisticsObject
<1>2. DOMAIN o = sel
  OBVIOUS
<1>. HIDE DEF o
<1>3. [kind |-> "object", of |-> o].of = o
  OBVIOUS
<1>. QED
  BY <1>1, <1>2, <1>3, Results

\* What is marshalled of the rows that the resolver returned.
ListOf(sel, rows) == StatisticsList(sel, [n \in DOMAIN rows |-> StatisticsObj(rows[n])])

\* A row that scans has every part of a Statistics.
LEMMA StatisticsListFacts ==
  ASSUME NEW sel, sel \subseteq StatisticsFields \cup {"__typename"}, NEW rows \in Statistics,
         NEW l, l = ListOf(sel, rows)
  PROVE  /\ l # Null /\ l # Unset /\ l.kind = "list"
         /\ \A n \in DOMAIN l.of : DOMAIN l.of[n].of = sel
<1>. DEFINE objs == [n \in DOMAIN rows |-> StatisticsObj(rows[n])]
            ret == [n \in DOMAIN objs |-> StatisticsObject(sel, objs[n])]
<1>1. \A n \in DOMAIN rows : Scans(rows[n])
  BY DEF Statistics
<1>2. ASSUME NEW n \in DOMAIN rows, NEW f \in sel PROVE StatisticsObj(rows[n])[f] # Null
  BY <1>1, Results DEF StatisticsObj, Scans
<1>3. ASSUME NEW n \in DOMAIN rows
      PROVE  ret[n] # Null /\ DOMAIN ret[n].of = sel
  <2>1. objs[n] = StatisticsObj(rows[n]) /\ ret[n] = StatisticsObject(sel, objs[n])
    OBVIOUS
  <2>2. \A f \in sel : objs[n][f] # Null
    BY <1>2, <2>1
  <2>. QED
    BY <2>1, <2>2, StatisticsObjectFacts
<1>4. StatisticsList(sel, objs) = IF \E n \in DOMAIN ret : ret[n] = Null THEN Null
                                  ELSE [kind |-> "list", of |-> ret]
  BY DEF StatisticsList
<1>5. DOMAIN ret = DOMAIN rows
  OBVIOUS
<1>. HIDE DEF ret
<1>6. StatisticsList(sel, objs) = [kind |-> "list", of |-> ret]
  BY <1>3, <1>4, <1>5
<1>7. [kind |-> "list", of |-> ret].of = ret /\ [kind |-> "list", of |-> ret].kind = "list"
  OBVIOUS
<1>8. l = StatisticsList(sel, objs)
  BY DEF ListOf
<1>. QED
  BY <1>3, <1>5, <1>6, <1>7, <1>8, Results

\* So what the resolvers return fits what was selected.
LEMMA MarshalledFits ==
  ASSUME Shape, NEW i \in Fields, NEW v \in Marshalled(i)
  PROVE  Fitting(i, v)
<1>. DEFINE sel == doc.fields[i].sel
<1>0. sel \subseteq Children(Name(i)) \cup {"__typename"}
  BY DocFacts
<1>1. CASE Name(i) = "createAccountExec"
  <2>1. v = CreateAccountExecObject(sel, CreateAccountExecObj)
    BY <1>1 DEF Marshalled
  <2>2. sel \subseteq CreateAccountExecFields \cup {"__typename"}
    BY <1>0, <1>1 DEF Children
  <2>. HIDE DEF sel
  <2>3. \A f \in sel : CreateAccountExecObj[f] # Null
    BY <2>2, Results DEF CreateAccountExecObj
  <2>. DEFINE o == [f \in sel |-> CreateAccountExecObj[f]]
  <2>4. v = [kind |-> "object", of |-> o]
    BY <2>1, <2>3 DEF CreateAccountExecObject
  <2>5. DOMAIN o = sel
    OBVIOUS
  <2>. HIDE DEF o
  <2>6. v.of = o /\ v.kind = "object"
    BY <2>4
  <2>. QED
    BY <2>4, <2>5, <2>6, Results DEF Fitting, sel
<1>2. CASE Name(i) = "statistics"
  <2>1. PICK rows \in Statistics :
          v = StatisticsList(sel, [n \in DOMAIN rows |-> StatisticsObj(rows[n])])
    BY <1>2 DEF Marshalled
  <2>2. v = ListOf(sel, rows)
    BY <2>1, Zenon DEF ListOf
  <2>3. sel \subseteq StatisticsFields \cup {"__typename"}
    BY <1>0, <1>2 DEF Children
  <2>. HIDE DEF sel
  <2>4. v # Null /\ v # Unset /\ v.kind = "list" /\ \A n \in DOMAIN v.of : DOMAIN v.of[n].of = sel
    BY <2>2, <2>3, StatisticsListFacts
  <2>. QED
    BY <2>4 DEF Fitting, sel
<1>3. CASE Name(i) = "__type"
  BY <1>3, Results DEF Marshalled, Fitting
<1>4. CASE Name(i) \notin {"createAccountExec", "statistics", "__type"}
  <2>1. v = Scalar
    BY <1>4 DEF Marshalled
  <2>. QED
    BY <2>1, Results DEF Fitting
<1>. QED
  BY <1>1, <1>2, <1>3, <1>4

-----------------------------------------------------------------------------
(* What one step does to one field.                                        *)

\* Field i goes from where it is to k; the others stay.
Turns(i, k) ==
  /\ task' \in [Fields -> Kinds] /\ task'[i] = k
  /\ \A j \in Fields \ {i} : task'[j] = task[j]

\* The assignment of one entry of task.
LEMMA TurnsFacts ==
  ASSUME Shape, NEW i \in Fields, NEW k \in Kinds, task' = [task EXCEPT ![i] = k]
  PROVE  Turns(i, k)
BY DEF Shape, Turns

\* Field i has the result v now; the others keep theirs.
Yields(i, v) ==
  /\ res' = [j \in Fields |-> res'[j]] /\ res'[i] = v
  /\ \A j \in Fields \ {i} : res'[j] = res[j]

\* The assignment of one entry of the list of results.
LEMMA ResultFacts ==
  ASSUME Shape, NEW i \in Fields, NEW v, res' = [res EXCEPT ![i] = v]
  PROVE  Yields(i, v)
<1>1. DOMAIN res = Fields
  BY DEF Shape
<1>2. DOMAIN res' = Fields /\ res'[i] = v /\ \A j \in Fields \ {i} : res'[j] = res[j]
  BY <1>1
<1>3. res' = [j \in Fields |-> res'[j]]
  BY <1>1, <1>2
<1>. QED
  BY <1>2, <1>3 DEF Yields

\* The field that the loop or a goroutine is busy with.
Busy(i) ==
  /\ i \in Fields
  /\ pc \in {"loop", "dispatch"}
  /\ pc = "loop" => i = at
  /\ pc = "dispatch" => doc.kind # "mutation"

\* A field that runs or may start is one that the loop has passed.
LEMMA BusyFacts ==
  ASSUME Shape, LoopInv, Alive, NEW i \in Fields,
         task[i] \in {"ready", "running", "returned"} \/ Ready(i)
  PROVE  Busy(i)
<1>1. task[i] \in {"ready", "running", "returned"} \/ (pc = "dispatch" /\ task[i] = "delayed")
  BY DEF Ready
<1>2. pc \in {"loop", "dispatch"}
  BY DEF Alive
<1>3. Fields = 1..Len(doc.fields) /\ Len(doc.fields) \in Nat /\ at \in 1..(Len(doc.fields) + 1)
  BY DocFacts DEF Shape
<1>4. CASE pc = "loop"
  BY <1>1, <1>3, <1>4 DEF LoopInv, Busy
<1>5. CASE pc # "loop"
  BY <1>1, <1>2, <1>5 DEF LoopInv, Busy
<1>. QED
  BY <1>4, <1>5

\* The loop stays at a field while it is called and returns.
LEMMA LoopStays ==
  ASSUME Shape, LoopInv, NEW i \in Fields, Busy(i), task[i] # "done",
         NEW k \in {"running", "hung", "returned"}, Turns(i, k), UNCHANGED <<doc, pc, at>>
  PROVE  LoopInv'
<1>1. Fields' = Fields
  BY DEF Fields
<1>2. pc \in {"loop", "dispatch"}
  BY DEF Busy
<1>3. CASE pc = "loop"
  BY <1>1, <1>3 DEF LoopInv, Busy, Turns, Executed
<1>4. CASE pc = "dispatch"
  BY <1>1, <1>4 DEF LoopInv, Busy, Turns, Executed
<1>. QED
  BY <1>2, <1>3, <1>4

\* The loop goes on when the field's value is stored or the field is delayed.
LEMMA LoopGoesOn ==
  ASSUME Shape, LoopInv, NEW i \in Fields, NEW k \in {"delayed", "done"}, Turns(i, k),
         k = "delayed" => doc.kind # "mutation",
         UNCHANGED <<doc, pc>>,
         \/ pc = "loop" /\ i = at /\ at' = at + 1
         \/ pc = "dispatch" /\ k = "done" /\ at' = at
  PROVE  LoopInv' /\ at' \in 1..(Len(doc.fields) + 1)
<1>1. Fields' = Fields /\ Fields = 1..Len(doc.fields) /\ Len(doc.fields) \in Nat
      /\ at \in 1..(Len(doc.fields) + 1)
  BY DocFacts DEF Fields, Shape
<1>2. CASE pc = "loop"
  BY <1>1, <1>2 DEF LoopInv, Turns, Executed
<1>3. CASE pc = "dispatch"
  BY <1>1, <1>3 DEF LoopInv, Turns, Executed
<1>. QED
  BY <1>2, <1>3

\* A recorded error is one more error of its field.
LEMMA ErrorRecorded ==
  ASSUME errors \in Seq(Errors), NEW e \in Errors, errors' = Append(errors, e)
  PROVE  /\ errors' \in Seq(Errors)
         /\ \A j : ErrorsAt(j)' = IF j = e.field THEN ErrorsAt(j) \cup {Len(errors) + 1}
                                  ELSE ErrorsAt(j)
         /\ DOMAIN errors \subseteq DOMAIN errors' /\ Len(errors) + 1 \in DOMAIN errors'
<1>. DEFINE n == Len(errors)
<1>1. /\ errors' \in Seq(Errors) /\ n \in Nat /\ DOMAIN errors = 1..n /\ DOMAIN errors' = 1..(n + 1)
      /\ errors'[n + 1] = e /\ \A m \in 1..n : errors'[m] = errors[m]
  OBVIOUS
<1>. HIDE DEF n
<1>2. ASSUME NEW j
      PROVE  ErrorsAt(j)' = IF j = e.field THEN ErrorsAt(j) \cup {n + 1} ELSE ErrorsAt(j)
  <2>1. ErrorsAt(j)' = {m \in 1..(n + 1) : errors'[m].field = j}
    BY <1>1 DEF ErrorsAt
  <2>2. ErrorsAt(j) = {m \in 1..n : errors[m].field = j}
    BY <1>1 DEF ErrorsAt
  <2>3. \A m \in 1..(n + 1) : m \in 1..n \/ m = n + 1
    BY <1>1
  <2>4. 1..n \subseteq 1..(n + 1) /\ n + 1 \in 1..(n + 1)
    BY <1>1
  <2>. QED
    BY <1>1, <2>1, <2>2, <2>3, <2>4
<1>. QED
  BY <1>1, <1>2 DEF n

-----------------------------------------------------------------------------
(* Results, counts and calls, field by field.                              *)

Settled == {"returned", "done"}

\* A step that leaves results and errors alone.
LEMMA ResStays ==
  ASSUME Shape, ResInv, NEW i \in Fields, NEW k \in Kinds, Turns(i, k),
         UNCHANGED <<doc, res, errors>>, task[i] \in Settled <=> k \in Settled
  PROVE  ResInv'
<1>1. Fields' = Fields /\ \A j : Name(j)' = Name(j) /\ ErrorsAt(j)' = ErrorsAt(j)
  BY DEF Fields, Name, ErrorsAt
<1>2. ASSUME NEW j \in Fields PROVE task'[j] \in Settled <=> task[j] \in Settled
  BY DEF Turns
<1>. QED
  BY <1>1, <1>2 DEF ResInv, Settled

\* A field returns something that fits.
LEMMA ResReturns ==
  ASSUME Shape, ResInv, NEW i \in Fields, task[i] \notin Settled, Turns(i, "returned"),
         UNCHANGED <<doc, errors>>, NEW v, Yields(i, v), Fitting(i, v)
  PROVE  ResInv'
<1>1. Fields' = Fields /\ \A j : Name(j)' = Name(j) /\ ErrorsAt(j)' = ErrorsAt(j)
  BY DEF Fields, Name, ErrorsAt
<1>2. ErrorsAt(i) = {}
  BY DEF ResInv, Settled
<1>3. ASSUME NEW j \in Fields \ {i} PROVE task'[j] = task[j] /\ res'[j] = res[j]
  BY DEF Turns, Yields
<1>4. task'[i] = "returned" /\ res'[i] = v
  BY DEF Turns, Yields
<1>. QED
  BY <1>1, <1>2, <1>3, <1>4 DEF ResInv, Fitting

\* A field fails with an error of its own.
LEMMA ResFails ==
  ASSUME Shape, ResInv, NEW i \in Fields, task[i] \notin Settled, Turns(i, "returned"),
         doc' = doc, Yields(i, Null), NEW e \in Errors, e.field = i, errors' = Append(errors, e)
  PROVE  ResInv' /\ errors' \in Seq(Errors)
<1>. DEFINE n == Len(errors) + 1
<1>1. /\ errors' \in Seq(Errors) /\ DOMAIN errors \subseteq DOMAIN errors' /\ n \in DOMAIN errors'
      /\ \A j : ErrorsAt(j)' = IF j = i THEN ErrorsAt(j) \cup {n} ELSE ErrorsAt(j)
  BY ErrorRecorded DEF Shape
<1>2. Fields' = Fields /\ \A j : Name(j)' = Name(j)
  BY DEF Fields, Name
<1>3. ErrorsAt(i) = {}
  BY DEF ResInv, Settled
<1>. HIDE DEF n
<1>4. ErrorsAt(i)' = {n}
  BY <1>1, <1>3
<1>5. ASSUME NEW j \in Fields \ {i}
      PROVE  task'[j] = task[j] /\ res'[j] = res[j] /\ ErrorsAt(j)' = ErrorsAt(j)
  BY <1>1 DEF Turns, Yields
<1>6. task'[i] = "returned" /\ res'[i] = Null
  BY DEF Turns, Yields
<1>. DEFINE Fit(j) == /\ res[j].kind = "object" => DOMAIN res[j].of = doc.fields[j].sel
                      /\ res[j].kind = "list" =>
                           \A m \in DOMAIN res[j].of : DOMAIN res[j].of[m].of = doc.fields[j].sel
            One(j) == \E m \in DOMAIN errors : ErrorsAt(j) = {m}
            Clean(j) == res[j] = Unset /\ ErrorsAt(j) = {}
            Ended(j) == /\ res[j] # Unset
                        /\ ErrorsAt(j) # {} => res[j] = Null /\ One(j)
                        /\ res[j] = Null /\ Name(j) # "__type" => ErrorsAt(j) # {}
                        /\ Fit(j)
<1>7. ASSUME NEW j \in Fields \ {i}
      PROVE  /\ task'[j] \notin Settled => Clean(j)'
             /\ task'[j] \in Settled => Ended(j)'
  <2>1. /\ task[j] \notin Settled => Clean(j)
        /\ task[j] \in Settled => Ended(j)
    BY DEF ResInv, Settled
  <2>2. Fit(j)' <=> Fit(j)
    BY <1>5
  <2>3. One(j) => One(j)'
    BY <1>1, <1>5
  <2>. HIDE DEF Fit, One
  <2>. QED
    BY <1>2, <1>5, <2>1, <2>2, <2>3
<1>8. Ended(i)'
  BY <1>1, <1>4, <1>6, Results
<1>. QED
  BY <1>1, <1>2, <1>6, <1>7, <1>8 DEF ResInv, Settled

\* Nothing is counted before it is stored.
LEMMA CountStays ==
  ASSUME Shape, CountInv, NEW i \in Fields, NEW k \in Kinds, Turns(i, k), task[i] # "done",
         k # "done", UNCHANGED <<doc, invalids>>, \A j \in Fields \ {i} : res'[j] = res[j]
  PROVE  CountInv'
<1>1. Fields' = Fields /\ \A j : Name(j)' = Name(j)
  BY DEF Fields, Name
<1>2. Counted' = Counted
  BY <1>1 DEF Counted, Turns, CountsNull
<1>. QED
  BY <1>2 DEF CountInv

\* At most every field is counted.
LEMMA CountBound ==
  ASSUME Shape
  PROVE  /\ IsFiniteSet(Counted) /\ Cardinality(Counted) \in 0..Len(doc.fields)
         /\ Cardinality(Counted) > 0 <=> Counted # {}
<1>1. Fields = 1..Len(doc.fields) /\ Len(doc.fields) \in Nat
  BY DocFacts
<1>2. IsFiniteSet(Fields) /\ Cardinality(Fields) = Len(doc.fields)
  BY <1>1, FS_Interval
<1>3. Counted \subseteq Fields
  BY DEF Counted
<1>4. IsFiniteSet(Counted) /\ Cardinality(Counted) <= Len(doc.fields)
  BY <1>2, <1>3, FS_Subset
<1>5. Cardinality(Counted) \in Nat /\ (Cardinality(Counted) = 0 <=> Counted = {})
  BY <1>4, FS_CardinalityType, FS_EmptySet
<1>. QED
  BY <1>1, <1>4, <1>5

\* A null is counted once, when it is stored.
LEMMA CountStored ==
  ASSUME Shape, CountInv, NEW i \in Fields, task[i] = "returned", Turns(i, "done"),
         UNCHANGED <<doc, res>>,
         invalids' = IF res[i] = Null /\ CountsNull(Name(i)) THEN invalids + 1 ELSE invalids
  PROVE  CountInv'
<1>1. Fields' = Fields /\ \A j : Name(j)' = Name(j)
  BY DEF Fields, Name
<1>2. i \notin Counted
  BY DEF Counted
<1>3. CASE res[i] = Null /\ CountsNull(Name(i))
  <2>1. Counted' = Counted \cup {i}
    BY <1>1, <1>3 DEF Counted, Turns, CountsNull
  <2>2. Cardinality(Counted \cup {i}) = Cardinality(Counted) + 1
    BY <1>2, CountBound, FS_AddElement
  <2>. QED
    BY <1>3, <2>1, <2>2 DEF CountInv
<1>4. CASE ~(res[i] = Null /\ CountsNull(Name(i)))
  <2>1. Counted' = Counted
    BY <1>1, <1>4 DEF Counted, Turns, CountsNull
  <2>. QED
    BY <1>4, <2>1 DEF CountInv
<1>. QED
  BY <1>3, <1>4

Called(i) == \E n \in DOMAIN calls : calls[n] = i

\* A step that calls no resolver.
LEMMA CallsStay ==
  ASSUME Shape, CallsInv, NEW i \in Fields, NEW k \in Kinds, Turns(i, k), UNCHANGED <<doc, calls>>,
         \/ task[i] = "waiting" /\ k \in {"ready", "delayed"}
         \/ /\ task[i] \in {"ready", "delayed"} /\ k = "returned"
            /\ ~(doc.fields[i].bad = {} /\ Name(i) # "__typename")
         \/ task[i] = "running" /\ k \in {"hung", "returned"}
         \/ task[i] = "returned" /\ k = "done"
  PROVE  CallsInv'
<1>1. Fields' = Fields /\ \A j : Name(j)' = Name(j)
  BY DEF Fields, Name
<1>2. \A n \in DOMAIN calls : calls[n] \in Fields
  BY DEF Shape
<1>3. task[i] \in {"waiting", "ready", "delayed"} => \A n \in DOMAIN calls : calls[n] # i
  BY DEF CallsInv, Started
<1>4. \A n \in DOMAIN calls : task'[calls[n]] \in Started
  BY <1>2, <1>3 DEF CallsInv, Turns, Started
<1>5. ASSUME NEW j \in Fields, task'[j] \in Started
      PROVE  Called(j) <=> doc.fields[j].bad = {} /\ Name(j) # "__typename"
  BY <1>3, <1>5 DEF CallsInv, Turns, Called, Started
<1>6. ASSUME NEW j \in Fields, task'[j] \in {"running", "hung"} PROVE doc.fields[j].bad = {}
  BY <1>6 DEF CallsInv, Turns, Started
<1>. QED
  BY <1>1, <1>4, <1>5, <1>6 DEF CallsInv, Called

\* A resolver is called, after all those that were called before it.
LEMMA CallsGrow ==
  ASSUME Shape, LoopInv, CallsInv, NEW i \in Fields, Ready(i), Turns(i, "running"), doc' = doc,
         doc.fields[i].bad = {}, Name(i) # "__typename", calls' = Append(calls, i)
  PROVE  CallsInv' /\ calls' \in Seq(Fields)
<1>. DEFINE n == Len(calls)
<1>1. /\ calls' \in Seq(Fields) /\ n \in Nat /\ DOMAIN calls = 1..n /\ DOMAIN calls' = 1..(n + 1)
      /\ calls'[n + 1] = i /\ \A m \in 1..n : calls'[m] = calls[m] /\ calls[m] \in Fields
  BY DEF Shape
<1>. HIDE DEF n
<1>2. Fields' = Fields /\ \A j : Name(j)' = Name(j)
  BY DEF Fields, Name
<1>3. task[i] \in {"ready", "delayed"}
  BY DEF Ready
<1>4. ASSUME NEW m \in 1..n
      PROVE  /\ calls[m] \in Fields \ {i} /\ task[calls[m]] \in Started
             /\ doc.kind = "mutation" => calls[m] < i
  <2>1. calls[m] \in Fields \ {i} /\ task[calls[m]] \in Started
    BY <1>1, <1>3 DEF CallsInv, Started
  <2>2. ASSUME doc.kind = "mutation" PROVE calls[m] < i
    <3>1. Busy(i)
      BY BusyFacts DEF Ready
    <3>2. pc = "loop" /\ i = at
      BY <2>2, <3>1 DEF Busy
    <3>3. calls[m] \in Nat /\ i \in Nat
      BY <2>1, DocFacts
    <3>. QED
      BY <2>1, <3>2, <3>3 DEF LoopInv, Started
  <2>. QED
    BY <2>1, <2>2
<1>5. \A m \in 1..(n + 1) : m \in 1..n \/ m = n + 1
  BY <1>1
<1>6. \A m \in DOMAIN calls' : task'[calls'[m]] \in Started
  BY <1>1, <1>4, <1>5 DEF Turns, Started
<1>7. ASSUME NEW j \in Fields, task'[j] \in Started
      PROVE  (\E m \in DOMAIN calls' : calls'[m] = j)
               <=> doc.fields[j].bad = {} /\ Name(j) # "__typename"
  <2>1. CASE j = i
    BY <1>1, <2>1
  <2>2. CASE j # i
    <3>1. task[j] \in Started
      BY <1>7, <2>2 DEF Turns
    <3>2. (\E m \in 1..n : calls[m] = j) <=> doc.fields[j].bad = {} /\ Name(j) # "__typename"
      BY <1>1, <3>1 DEF CallsInv
    <3>. QED
      BY <1>1, <1>5, <2>2, <3>2
  <2>. QED
    BY <2>1, <2>2
<1>8. ASSUME NEW j \in Fields, task'[j] \in {"running", "hung"} PROVE doc.fields[j].bad = {}
  BY <1>8 DEF CallsInv, Turns, Started
<1>9. ASSUME doc.kind = "mutation", NEW l \in 1..(n + 1), NEW m \in 1..(n + 1), l < m
      PROVE  calls'[l] < calls'[m]
  <2>1. l \in 1..n
    BY <1>1, <1>9
  <2>2. CASE m = n + 1
    BY <1>1, <1>4, <1>9, <2>1, <2>2
  <2>3. CASE m \in 1..n
    BY <1>1, <1>9, <2>1, <2>3 DEF CallsInv
  <2>. QED
    BY <1>5, <2>2, <2>3
<1>. QED
  BY <1>1, <1>2, <1>6, <1>7, <1>8, <1>9 DEF CallsInv

-----------------------------------------------------------------------------
(* Every step keeps the invariant.                                         *)

\* What a step must show of the variables it changes for the types to hold after it.
LEMMA ShapeKept ==
  ASSUME Shape, doc' = doc, pc' \in {"idle", "loop", "dispatch", "done", "lost"},
         at' \in 1..(Len(doc.fields) + 1), task' \in [Fields -> Kinds],
         res' = [j \in Fields |-> res'[j]], errors' \in Seq(Errors), calls' \in Seq(Fields)
  PROVE  Shape'
<1>1. Fields' = Fields
  BY DEF Fields
<1>2. Errors' = Errors
  BY <1>1 DEF Errors
<1>. QED
  BY <1>1, <1>2 DEF Shape

\* No answer is given while a field is being worked on.
LEMMA DataKept ==
  ASSUME DataInv, pc # "done", pc' # "done", data' = data
  PROVE  DataInv'
BY DEF DataInv

\* The loop comes to a field.
LEMMA ReachNext ==
  ASSUME Inv, NEW i, Reach(i)
  PROVE  Inv'
<1>. USE DEF Inv
<1>. DEFINE k == IF doc.kind = "query" /\ Name(i) \in DelayedFields THEN "delayed" ELSE "ready"
<1>1. /\ pc = "loop" /\ at = i /\ i \in Fields /\ task[i] = "waiting"
      /\ UNCHANGED <<doc, pc, res, invalids, errors, calls, data>>
  BY DEF Reach
<1>2. k \in {"delayed", "ready"} /\ (k = "delayed" => doc.kind # "mutation") /\ task' = [task EXCEPT ![i] = k]
  BY DEF Reach
<1>. HIDE DEF k
<1>3. Turns(i, k)
  BY <1>1, <1>2, TurnsFacts DEF Kinds
<1>4. at' = IF k = "delayed" THEN at + 1 ELSE at
  BY <1>3 DEF Reach, Turns
<1>5. LoopInv' /\ at' \in 1..(Len(doc.fields) + 1)
  <2>1. CASE k = "delayed"
    BY <1>1, <1>2, <1>3, <1>4, <2>1, LoopGoesOn
  <2>2. CASE k = "ready"
    <3>1. Fields' = Fields /\ at' = at
      BY <1>1, <1>4, <2>2 DEF Fields
    <3>. QED
      BY <1>1, <1>3, <2>2, <3>1 DEF LoopInv, Turns, Executed, Shape
  <2>. QED
    BY <1>2, <2>1, <2>2
<1>6. ResInv'
  BY <1>1, <1>2, <1>3, ResStays DEF Settled, Kinds
<1>7. CountInv'
  BY <1>1, <1>2, <1>3, CountStays DEF Kinds
<1>8. CallsInv'
  BY <1>1, <1>2, <1>3, CallsStay DEF Kinds
<1>9. Shape'
  BY <1>1, <1>3, <1>5, ShapeKept DEF Turns, Shape
<1>10. DataInv'
  BY <1>1, DataKept
<1>. QED
  BY <1>5, <1>6, <1>7, <1>8, <1>9, <1>10

\* A field fails: its arguments do not unmarshal or its resolver returns an
\* error or panics.
LEMMA FailNext ==
  ASSUME Inv, NEW i, ArgsError(i) \/ \E why \in {"error", "panic"} : ResolverFails(i, why)
  PROVE  Inv'
<1>. USE DEF Inv
<1>1. /\ Alive /\ i \in Fields /\ task[i] \in {"ready", "delayed", "running"}
      /\ (task[i] \in {"ready", "running"} \/ Ready(i))
      /\ task' = [task EXCEPT ![i] = "returned"] /\ res' = [res EXCEPT ![i] = Null]
      /\ UNCHANGED <<doc, pc, at, invalids, calls, data>>
  BY DEF ArgsError, ResolverFails, Ready
<1>2. task[i] \in {"ready", "delayed"} => doc.fields[i].bad # {}
  BY DEF ArgsError, ResolverFails
<1>3. PICK e \in Errors : e.field = i /\ errors' = Append(errors, e)
  <2>1. ASSUME NEW w \in {"error", "panic"} \cup doc.fields[i].bad
        PROVE  [field |-> i, why |-> w] \in Errors /\ [field |-> i, why |-> w].field = i
    BY <1>1 DEF Errors
  <2>2. \E w \in {"error", "panic"} \cup doc.fields[i].bad :
          errors' = Append(errors, [field |-> i, why |-> w])
    BY DEF ArgsError, ResolverFails
  <2>. QED
    BY <2>1, <2>2
<1>4. Turns(i, "returned") /\ Yields(i, Null)
  BY <1>1, TurnsFacts, ResultFacts DEF Kinds
<1>5. Busy(i)
  BY <1>1, BusyFacts
<1>6. LoopInv'
  BY <1>1, <1>4, <1>5, LoopStays
<1>7. ResInv' /\ errors' \in Seq(Errors)
  BY <1>1, <1>3, <1>4, ResFails DEF Settled
<1>8. CountInv'
  BY <1>1, <1>4, CountStays DEF Kinds, Yields
<1>9. CallsInv'
  BY <1>1, <1>2, <1>4, CallsStay DEF Kinds
<1>10. Shape'
  BY <1>1, <1>4, <1>7, ShapeKept DEF Turns, Yields, Shape
<1>11. DataInv'
  BY <1>1, <1>5, DataKept DEF Busy
<1>. QED
  BY <1>6, <1>7, <1>8, <1>9, <1>10, <1>11

\* A field has its value.
LEMMA ReturnNext ==
  ASSUME Inv, NEW i, Typename(i) \/ ResolverReturns(i)
  PROVE  Inv'
<1>. USE DEF Inv
<1>1. /\ Alive /\ i \in Fields /\ task[i] \in {"ready", "delayed", "running"}
      /\ (task[i] \in {"ready", "running"} \/ Ready(i))
      /\ task' = [task EXCEPT ![i] = "returned"]
      /\ UNCHANGED <<doc, pc, at, invalids, errors, calls, data>>
  BY DEF Typename, ResolverReturns, Ready
<1>2. task[i] \in {"ready", "delayed"} => Name(i) = "__typename"
  BY DEF Typename, ResolverReturns
<1>3. PICK v : Fitting(i, v) /\ res' = [res EXCEPT ![i] = v]
  <2>1. CASE Typename(i)
    <3>1. Fitting(i, Scalar)
      BY Results DEF Fitting
    <3>. QED
      BY <2>1, <3>1 DEF Typename
  <2>2. CASE ResolverReturns(i)
    <3>1. PICK v \in Marshalled(i) : res' = [res EXCEPT ![i] = v]
      BY <2>2 DEF ResolverReturns
    <3>. QED
      BY <1>1, <3>1, MarshalledFits
  <2>. QED
    BY <2>1, <2>2
<1>4. Turns(i, "returned") /\ Yields(i, v)
  BY <1>1, <1>3, TurnsFacts, ResultFacts DEF Kinds
<1>5. Busy(i)
  BY <1>1, BusyFacts
<1>6. LoopInv'
  BY <1>1, <1>4, <1>5, LoopStays
<1>7. ResInv'
  BY <1>1, <1>3, <1>4, ResReturns DEF Settled
<1>8. CountInv'
  BY <1>1, <1>4, CountStays DEF Kinds, Yields
<1>9. CallsInv'
  BY <1>1, <1>2, <1>4, CallsStay DEF Kinds
<1>10. Shape'
  BY <1>1, <1>4, ShapeKept DEF Turns, Yields, Shape
<1>11. DataInv'
  BY <1>1, <1>5, DataKept DEF Busy
<1>. QED
  BY <1>6, <1>7, <1>8, <1>9, <1>10, <1>11

\* A resolver is called.
LEMMA CallNext ==
  ASSUME Inv, NEW i, CallMutation(i) \/ CallQuery(i)
  PROVE  Inv'
<1>. USE DEF Inv
<1>1. /\ Alive /\ i \in Fields /\ Ready(i) /\ task[i] \in {"ready", "delayed"}
      /\ doc.fields[i].bad = {} /\ Name(i) # "__typename"
      /\ task' = [task EXCEPT ![i] = "running"] /\ calls' = Append(calls, i)
      /\ UNCHANGED <<doc, pc, at, res, invalids, errors, data>>
  BY DEF CallMutation, CallQuery, Ready, MutationFields, QueryFields, DelayedFields
<1>2. Turns(i, "running")
  BY <1>1, TurnsFacts DEF Kinds
<1>3. Busy(i)
  BY <1>1, BusyFacts
<1>4. LoopInv'
  BY <1>1, <1>2, <1>3, LoopStays
<1>5. ResInv'
  BY <1>1, <1>2, ResStays DEF Settled, Kinds
<1>6. CountInv'
  BY <1>1, <1>2, CountStays DEF Kinds
<1>7. CallsInv' /\ calls' \in Seq(Fields)
  BY <1>1, <1>2, CallsGrow
<1>8. Shape'
  BY <1>1, <1>2, <1>7, ShapeKept DEF Turns, Shape
<1>9. DataInv'
  BY <1>1, <1>3, DataKept DEF Busy
<1>. QED
  BY <1>4, <1>5, <1>6, <1>7, <1>8, <1>9

\* A resolver hangs.
LEMMA HangNext ==
  ASSUME Inv, NEW i, ResolverHangs(i)
  PROVE  Inv'
<1>. USE DEF Inv
<1>1. /\ Alive /\ i \in Fields /\ task[i] = "running" /\ task' = [task EXCEPT ![i] = "hung"]
      /\ UNCHANGED <<doc, pc, at, res, invalids, errors, calls, data>>
  BY DEF ResolverHangs
<1>2. Turns(i, "hung")
  BY <1>1, TurnsFacts DEF Kinds
<1>3. Busy(i)
  BY <1>1, BusyFacts
<1>4. LoopInv'
  BY <1>1, <1>2, <1>3, LoopStays
<1>5. ResInv'
  BY <1>1, <1>2, ResStays DEF Settled, Kinds
<1>6. CountInv'
  BY <1>1, <1>2, CountStays DEF Kinds
<1>7. CallsInv'
  BY <1>1, <1>2, CallsStay DEF Kinds
<1>8. Shape'
  BY <1>1, <1>2, ShapeKept DEF Turns, Shape
<1>9. DataInv'
  BY <1>1, <1>3, DataKept DEF Busy
<1>. QED
  BY <1>4, <1>5, <1>6, <1>7, <1>8, <1>9

\* A value is stored and its null counted.
LEMMA StoreNext ==
  ASSUME Inv, NEW i, Store(i)
  PROVE  Inv'
<1>. USE DEF Inv
<1>1. /\ Alive /\ i \in Fields /\ task[i] = "returned" /\ task' = [task EXCEPT ![i] = "done"]
      /\ invalids' = IF res[i] = Null /\ CountsNull(Name(i)) THEN invalids + 1 ELSE invalids
      /\ at' = IF pc = "loop" THEN at + 1 ELSE at
      /\ UNCHANGED <<doc, pc, res, errors, calls, data>>
  BY DEF Store
<1>2. Turns(i, "done")
  BY <1>1, TurnsFacts DEF Kinds
<1>3. Busy(i)
  BY <1>1, BusyFacts
<1>4. LoopInv' /\ at' \in 1..(Len(doc.fields) + 1)
  BY <1>1, <1>2, <1>3, LoopGoesOn DEF Busy
<1>5. ResInv'
  BY <1>1, <1>2, ResStays DEF Settled, Kinds
<1>6. CountInv'
  BY <1>1, <1>2, CountStored
<1>7. CallsInv'
  BY <1>1, <1>2, CallsStay DEF Kinds
<1>8. Shape'
  BY <1>1, <1>2, <1>4, ShapeKept DEF Turns, Shape
<1>9. DataInv'
  BY <1>1, <1>3, DataKept DEF Busy
<1>. QED
  BY <1>4, <1>5, <1>6, <1>7, <1>8, <1>9

\* exec starts the operation, or refuses a kind that the schema has not.
LEMMA ExecNext ==
  ASSUME Inv, Exec
  PROVE  Inv'
<1>. USE DEF Inv
<1>1. /\ pc = "idle" /\ UNCHANGED <<doc, at, task, res, invalids, calls, data>>
      /\ Fields' = Fields /\ \A j : Name(j)' = Name(j)
      /\ errors = <<>> /\ at = 1 /\ \A i \in Fields : task[i] = "waiting"
  BY DEF Exec, Fields, Name, LoopInv
<1>2. Fields = 1..Len(doc.fields) /\ Len(doc.fields) \in Nat
  BY DocFacts
<1>3. Counted' = Counted
  BY <1>1 DEF Counted, CountsNull
<1>4. CASE Executed /\ pc' = "loop" /\ errors' = errors
  <2>1. LoopInv'
    BY <1>1, <1>2, <1>4 DEF LoopInv, Executed
  <2>2. ResInv'
    BY <1>1, <1>4 DEF ResInv, ErrorsAt
  <2>3. CountInv' /\ CallsInv' /\ DataInv'
    BY <1>1, <1>3, <1>4 DEF CountInv, CallsInv, DataInv
  <2>4. Shape'
    BY <1>1, <1>4, ShapeKept DEF Shape
  <2>. QED
    BY <2>1, <2>2, <2>3, <2>4
<1>5. CASE ~Executed /\ pc' = "done" /\ errors' = <<[field |-> 0, why |-> "unsupported"]>>
  <2>. DEFINE e == [field |-> 0, why |-> "unsupported"]
  <2>1. e \in Errors /\ e.field = 0
    BY DEF Errors
  <2>2. errors' = <<e>>
    BY <1>5
  <2>. HIDE DEF e
  <2>3. errors' \in Seq(Errors) /\ DOMAIN errors' = {1} /\ errors'[1] = e
    BY <2>1, <2>2
  <2>4. \A i \in Fields : ErrorsAt(i)' = {}
    BY <1>2, <2>1, <2>3 DEF ErrorsAt
  <2>5. LoopInv'
    BY <1>1, <1>5 DEF LoopInv, Executed
  <2>6. ResInv'
    BY <1>1, <2>4 DEF ResInv
  <2>7. CountInv' /\ CallsInv' /\ DataInv'
    BY <1>1, <1>3, <1>5 DEF CountInv, CallsInv, DataInv, Executed
  <2>8. Shape'
    BY <1>1, <1>5, <2>3, ShapeKept DEF Shape
  <2>. QED
    BY <2>5, <2>6, <2>7, <2>8
<1>. QED
  BY <1>4, <1>5 DEF Exec, Executed

\* The goroutines start when the loop is through; the answer is put together
\* when they have all stored their values.
LEMMA EndNext ==
  ASSUME Inv, Dispatch \/ Respond
  PROVE  Inv'
<1>. USE DEF Inv
<1>1. /\ UNCHANGED <<doc, at, task, res, invalids, errors, calls>>
      /\ Fields' = Fields /\ \A j : Name(j)' = Name(j)
  BY DEF Dispatch, Respond, Fields, Name
<1>2. Fields = 1..Len(doc.fields) /\ Len(doc.fields) \in Nat
  BY DocFacts
<1>3. ResInv' /\ CallsInv'
  BY <1>1 DEF ResInv, CallsInv, ErrorsAt
<1>4. CountInv'
  <2>1. Counted' = Counted
    BY <1>1 DEF Counted, CountsNull
  <2>. QED
    BY <1>1, <2>1 DEF CountInv
<1>5. Shape'
  <2>1. pc' \in {"dispatch", "done"}
    BY DEF Dispatch, Respond
  <2>. QED
    BY <1>1, <2>1, ShapeKept DEF Shape
<1>6. CASE Dispatch
  <2>1. pc = "loop" /\ pc' = "dispatch" /\ at = Len(doc.fields) + 1 /\ data' = data
    BY <1>6 DEF Dispatch
  <2>2. \A i \in Fields : i < at
    BY <1>2, <2>1
  <2>3. LoopInv'
    BY <1>1, <2>1, <2>2 DEF LoopInv, Executed
  <2>4. DataInv'
    BY <2>1 DEF DataInv
  <2>. QED
    BY <1>3, <1>4, <1>5, <2>3, <2>4
<1>7. CASE Respond
  <2>1. /\ pc = "dispatch" /\ pc' = "done" /\ Executed
        /\ data' = IF invalids > 0 THEN Null ELSE [kind |-> "fields", of |-> res]
    BY <1>7 DEF Respond, LoopInv
  <2>2. \A i \in Fields : task[i] = "done"
    BY <1>7, <2>1 DEF Respond, Waited, LoopInv
  <2>3. LoopInv'
    BY <1>1, <2>1, <2>2 DEF LoopInv, Executed
  <2>4. DataInv'
    BY <1>1, <2>1 DEF DataInv, Executed
  <2>. QED
    BY <1>3, <1>4, <1>5, <2>3, <2>4
<1>. QED
  BY <1>6, <1>7

\* The end of the process leaves everything where it is.
LEMMA ExitNext ==
  ASSUME Inv, Exit
  PROVE  Inv'
<1>. USE DEF Inv
<1>1. /\ pc \in {"idle", "loop", "dispatch"} /\ pc' = "lost"
      /\ UNCHANGED <<doc, at, task, res, invalids, errors, calls, data>>
      /\ Fields' = Fields /\ \A j : Name(j)' = Name(j)
  BY DEF Exit, Fields, Name, Shape
<1>2. ResInv' /\ CallsInv'
  BY <1>1 DEF ResInv, CallsInv, ErrorsAt
<1>3. Counted' = Counted
  BY <1>1 DEF Counted, CountsNull
<1>4. LoopInv'
  BY <1>1 DEF LoopInv
<1>5. DataInv'
  BY <1>1, DataKept
<1>6. Shape'
  BY <1>1, ShapeKept DEF Shape
<1>. QED
  BY <1>1, <1>2, <1>3, <1>4, <1>5, <1>6 DEF CountInv

\* Before the operation starts nothing has run, nothing is missing.
LEMMA InvInit ==
  ASSUME Init
  PROVE  Inv
<1>1. doc \in Document /\ Fields = DOMAIN doc.fields
  BY DEF Init, Fields
<1>2. doc.fields \in Seq([name: STRING, bad: SUBSET STRING, sel: SUBSET STRING])
  BY <1>1, GraphAssumption
<1>3. \A i \in Fields : task[i] = "waiting" /\ res[i] = Unset
  BY <1>1 DEF Init
<1>4. Shape
  <2>1. at \in 1..(Len(doc.fields) + 1)
    BY <1>2 DEF Init
  <2>2. res = [i \in Fields |-> res[i]]
    BY <1>1 DEF Init
  <2>3. task \in [Fields -> Kinds]
    BY <1>1 DEF Init, Kinds
  <2>. QED
    BY <1>1, <2>1, <2>2, <2>3 DEF Init, Shape
<1>5. LoopInv
  BY <1>3 DEF Init, LoopInv
<1>6. ResInv /\ CallsInv
  BY <1>3 DEF Init, ResInv, CallsInv, ErrorsAt, Started
<1>7. CountInv
  <2>1. Counted = {}
    BY <1>3 DEF Counted
  <2>. QED
    BY <2>1, FS_EmptySet DEF CountInv, Init
<1>8. DataInv
  BY DEF Init, DataInv
<1>. QED
  BY <1>4, <1>5, <1>6, <1>7, <1>8 DEF Inv

\* Inv holds in every state of the execution of every operation, whatever the
\* resolvers return and however the goroutines of a query are scheduled.
THEOREM Invariance == SafetySpec => []Inv
<1>1. Init => Inv
  BY InvInit
<1>2. ASSUME Inv, [Next]_vars PROVE Inv'
  <2>1. CASE UNCHANGED vars
    <3>1. /\ UNCHANGED <<doc, pc, at, task, res, invalids, errors, calls, data>>
          /\ Fields' = Fields /\ \A j : Name(j)' = Name(j) /\ ErrorsAt(j)' = ErrorsAt(j)
      BY <2>1 DEF vars, Fields, Name, ErrorsAt
    <3>2. Shape'
      BY <1>2, <3>1, ShapeKept DEF Inv, Shape
    <3>3. LoopInv' /\ CallsInv' /\ DataInv'
      BY <1>2, <3>1 DEF Inv, LoopInv, CallsInv, DataInv, Executed
    <3>4. ResInv'
      BY <1>2, <3>1 DEF Inv, ResInv
    <3>5. Counted' = Counted
      BY <3>1 DEF Counted, CountsNull
    <3>. QED
      BY <1>2, <3>1, <3>2, <3>3, <3>4, <3>5 DEF Inv, CountInv
  <2>2. ASSUME NEW i \in Index, Field(i) PROVE Inv'
    BY <1>2, <2>2, ReachNext, FailNext, ReturnNext, CallNext, HangNext, StoreNext DEF Field
  <2>. QED
    BY <1>2, <2>1, <2>2, ExecNext, EndNext, ExitNext DEF Next
<1>3. Inv /\ [Next]_vars => Inv'
  BY <1>2
<1>. QED
  BY <1>1, <1>3, PTL DEF SafetySpec

-----------------------------------------------------------------------------
(* The theorems.                                                           *)

\* The types follow from the invariant; no more is counted than there is.
LEMMA TypeFromInv ==
  ASSUME Inv
  PROVE  TypeOK
<1>1. invalids \in 0..Len(doc.fields)
  BY CountBound DEF Inv, CountInv
<1>2. ASSUME NEW n \in DOMAIN errors PROVE errors[n].field \in Fields \cup {0}
  <2>1. errors[n] \in Errors
    BY DEF Inv, Shape
  <2>. QED
    BY <2>1 DEF Errors
<1>. QED
  BY <1>1, <1>2 DEF Inv, Shape, TypeOK, Kinds

\* What the answer is made of, when it is given.
LEMMA AnswerFacts ==
  ASSUME Inv, data # Unset
  PROVE  /\ pc = "done" /\ \A i \in Fields : task[i] = "done"
         /\ data = IF Counted # {} THEN Null ELSE [kind |-> "fields", of |-> res]
<1>. DEFINE answer == [kind |-> "fields", of |-> res]
<1>. HIDE DEF answer
<1>1. pc = "done" /\ Executed /\ data = IF invalids > 0 THEN Null ELSE answer
  BY DEF Inv, DataInv, answer
<1>2. invalids > 0 <=> Counted # {}
  BY CountBound DEF Inv, CountInv
<1>3. \A i \in Fields : task[i] = "done"
  BY <1>1 DEF Inv, LoopInv
<1>4. data = IF Counted # {} THEN Null ELSE answer
  BY <1>1, <1>2
<1>. QED
  BY <1>1, <1>3, <1>4 DEF answer

\* What is given fits the schema.
LEMMA SchemaFromInv ==
  ASSUME Inv
  PROVE  AnswerFitsSchema
<1>. SUFFICES ASSUME data.kind = "fields", NEW i \in Fields
              PROVE  /\ data.of[i] # Unset
                     /\ Name(i) \in NonNull => data.of[i] # Null
                     /\ data.of[i].kind = "object" => DOMAIN data.of[i].of = doc.fields[i].sel
                     /\ data.of[i].kind = "list" =>
                          \A n \in DOMAIN data.of[i].of : DOMAIN data.of[i].of[n].of = doc.fields[i].sel
  BY DEF AnswerFitsSchema
<1>1. data # Unset /\ data # Null
  BY Results
<1>2. task[i] = "done" /\ Counted = {} /\ data = [kind |-> "fields", of |-> res]
  BY <1>1, AnswerFacts
<1>3. data.of = res
  BY <1>2
<1>4. Name(i) \in NonNull => res[i] # Null
  BY <1>2 DEF Counted, CountsNull, NonNull
<1>5. /\ res[i] # Unset
      /\ res[i].kind = "object" => DOMAIN res[i].of = doc.fields[i].sel
      /\ res[i].kind = "list" =>
           \A n \in DOMAIN res[i].of : DOMAIN res[i].of[n].of = doc.fields[i].sel
  BY <1>2 DEF Inv, ResInv
<1>. QED
  BY <1>3, <1>4, <1>5

\* What is null was an error.
LEMMA NullsFromInv ==
  ASSUME Inv
  PROVE  NullsExplained
<1>. SUFFICES ASSUME pc = "done" PROVE NullsExplained
  BY DEF NullsExplained
<1>1. CASE ~Executed
  <2>1. \A i \in Fields : res[i] = Unset /\ ErrorsAt(i) = {}
    BY <1>1 DEF Inv, LoopInv, ResInv
  <2>2. data = Unset
    BY <1>1 DEF Inv, DataInv
  <2>. QED
    BY <2>1, <2>2, Results DEF NullsExplained
<1>2. CASE Executed
  <2>1. \A i \in Fields : task[i] = "done"
    BY <1>2 DEF Inv, LoopInv
  <2>2. ASSUME NEW i \in Fields
        PROVE  /\ ErrorsAt(i) # {} => res[i] = Null /\ Cardinality(ErrorsAt(i)) = 1
               /\ res[i] = Null /\ Name(i) # "__type" => ErrorsAt(i) # {}
    <3>1. /\ ErrorsAt(i) # {} => res[i] = Null /\ \E n : ErrorsAt(i) = {n}
          /\ res[i] = Null /\ Name(i) # "__type" => ErrorsAt(i) # {}
      BY <2>1 DEF Inv, ResInv
    <3>2. \A n : Cardinality({n}) = 1
      BY FS_Singleton
    <3>. QED
      BY <3>1, <3>2
  <2>3. data = Null <=> Counted # {}
    <3>1. data # Unset
      BY <1>2, Results DEF Inv, DataInv
    <3>. QED
      BY <3>1, AnswerFacts, Results
  <2>4. ASSUME NEW i \in Fields
        PROVE  i \in Counted <=> Name(i) \in NonNull /\ ErrorsAt(i) # {}
    <3>1. CountsNull(Name(i)) <=> Name(i) \in NonNull
      BY DEF CountsNull, NonNull
    <3>2. Name(i) \in NonNull => Name(i) # "__type"
      BY DEF NonNull
    <3>. QED
      BY <2>1, <2>2, <3>1, <3>2 DEF Counted
  <2>5. Counted # {} <=> \E i \in Fields : Name(i) \in NonNull /\ ErrorsAt(i) # {}
    BY <2>4 DEF Counted
  <2>. QED
    BY <2>2, <2>3, <2>5 DEF NullsExplained
<1>. QED
  BY <1>1, <1>2

\* The loop of a mutation is busy with one field at a time.
LEMMA OrderFromInv ==
  ASSUME Inv
  PROVE  MutationsInOrder
<1>. SUFFICES ASSUME doc.kind = "mutation"
              PROVE  /\ \A i, j \in Fields :
                          task[i] \in {"running", "hung"} /\ task[j] \in {"running", "hung"} => i = j
                     /\ \A m, n \in DOMAIN calls : m < n => calls[m] < calls[n]
                     /\ pc = "done" =>
                          \A i \in Fields :
                            (\E n \in DOMAIN calls : calls[n] = i)
                              <=> doc.fields[i].bad = {} /\ Name(i) # "__typename"
  BY DEF MutationsInOrder
<1>1. ASSUME NEW i \in Fields, task[i] \in {"running", "hung"} PROVE i = at
  BY <1>1 DEF Inv, LoopInv
<1>2. \A m, n \in DOMAIN calls : m < n => calls[m] < calls[n]
  BY DEF Inv, CallsInv
<1>3. ASSUME pc = "done", NEW i \in Fields
      PROVE  (\E n \in DOMAIN calls : calls[n] = i)
               <=> doc.fields[i].bad = {} /\ Name(i) # "__typename"
  <2>1. task[i] = "done"
    BY <1>3 DEF Inv, LoopInv
  <2>. QED
    BY <2>1 DEF Inv, CallsInv, Started
<1>. QED
  BY <1>1, <1>2, <1>3

\* Type correctness of the execution of an operation; out.Invalids never
\* exceeds the number of fields.
THEOREM TypeCorrect == SafetySpec => []TypeOK
<1>1. Inv => TypeOK
  BY TypeFromInv
<1>. QED
  BY <1>1, Invariance, PTL

\* An answer with data fits the schema and the selection, for operations of
\* any length.
THEOREM FitsSchema == SafetySpec => []AnswerFitsSchema
<1>1. Inv => AnswerFitsSchema
  BY SchemaFromInv
<1>. QED
  BY <1>1, Invariance, PTL

\* Every null in an answer has exactly one error that explains it, no error
\* stands beside a value, and the answer as a whole is null only for a failed
\* field that the schema requires.
THEOREM NullsHaveErrors == SafetySpec => []NullsExplained
<1>1. Inv => NullsExplained
  BY NullsFromInv
<1>. QED
  BY <1>1, Invariance, PTL

\* The resolvers of a mutation run one at a time and in the order of the
\* document, all of those whose arguments unmarshal.
THEOREM InOrder == SafetySpec => []MutationsInOrder
<1>1. Inv => MutationsInOrder
  BY OrderFromInv
<1>. QED
  BY <1>1, Invariance, PTL
=============================================================================
