------------------------------- MODULE Graph -------------------------------
(***************************************************************************)
(* How the server executes one GraphQL operation (graph/generated.go): the *)
(* fields of a mutation one after the other, those of a query in           *)
(* goroutines that share the count of missing values. The document has     *)
(* been validated; what the resolvers do is in Server.                     *)
(***************************************************************************)
EXTENDS Naturals, Sequences, FiniteSets

CONSTANTS
  Document,  \* the operations that clients send: [kind, fields]; a field is
             \* [name, bad, sel]: the arguments that do not unmarshal and the
             \* selection set; the same name may occur again under an alias
  MaxRows    \* bound: rows that statistics finds

MutationFields == {"createAccountExec", "requestSecret", "ninelivesMint", "claimRewards"}

\* The fields that _Query hands to out.Concurrently.
DelayedFields == {"publickey", "eoaForAddress", "hasCreated", "statistics"}

QueryFields == DelayedFields \cup {"__type", "__schema", "__typename"}

\* The arguments of each field, in the order in which they are unmarshalled.
MutationArgs ==
  [createAccountExec |-> <<"createAccount", "mint", "dryrun">>,
   requestSecret     |-> <<"eoa_addr", "nonce", "sigV", "sigR", "sigS", "dryrun">>,
   ninelivesMint     |-> <<"mint", "dryrun">>,
   claimRewards      |-> <<"markets", "msTs", "dryrun">>]

QueryArgs ==
  [f \in {"__type", "eoaForAddress", "hasCreated"} |->
     IF f = "__type" THEN <<"name">> ELSE <<"address">>]

ArgsOf(name) ==
  IF name \in MutationFields THEN MutationArgs[name]
  ELSE IF name \in DOMAIN QueryArgs THEN QueryArgs[name] ELSE <<>>

\* childFields_CreateAccountExec, childFields_Statistics
CreateAccountExecFields == {"hash", "secret"}

StatisticsFields == {"action", "avgGasLimit24Hours", "avgGasLimitWeek", "avgGasLimitAllTime",
                     "tx24Hours", "txWeek", "txAllTime"}

Children(name) ==
  CASE name = "createAccountExec" -> CreateAccountExecFields
    [] name = "statistics" -> StatisticsFields
    [] OTHER -> {}

ASSUME GraphAssumption ==
  /\ MaxRows \in Nat
  /\ \A d \in Document :
       /\ d.kind \in {"query", "mutation", "subscription"}
       /\ d.fields \in Seq([name: STRING, bad: SUBSET STRING, sel: SUBSET STRING])
       /\ \A i \in DOMAIN d.fields :
            LET f == d.fields[i]
            IN  /\ d.kind = "query" => f.name \in QueryFields
                /\ d.kind = "mutation" => f.name \in MutationFields \cup {"__typename"}
                /\ f.bad \subseteq {ArgsOf(f.name)[a] : a \in DOMAIN ArgsOf(f.name)}
                /\ f.sel \subseteq Children(f.name) \cup {"__typename"}

VARIABLES
  doc,       \* the operation
  pc,        \* "idle", "loop", "dispatch" or "done"; "lost" with the process
  at,        \* the loop's index
  task,      \* what is done about each field
  res,       \* the result of its resolver
  invalids,  \* out.Invalids
  errors,    \* what ec.Error recorded
  calls,     \* the fields whose resolvers were called, in order
  data       \* the answer

vars == <<doc, pc, at, task, res, invalids, errors, calls, data>>

Null == [kind |-> "null"]

Scalar == [kind |-> "scalar"]

Unset == [kind |-> "unset"]

Fields == DOMAIN doc.fields

Name(i) == doc.fields[i].name

-----------------------------------------------------------------------------
(* Marshalling of what a resolver returned.                                *)

\* A set of fields whose parts are all there. Every part of the two objects is
\* a string or a number in Go.
CreateAccountExecObject(sel, obj) ==
  IF \E f \in sel : obj[f] = Null THEN Null
  ELSE [kind |-> "object", of |-> [f \in sel |-> obj[f]]]

StatisticsObject(sel, obj) ==
  IF \E f \in sel : obj[f] = Null THEN Null
  ELSE [kind |-> "object", of |-> [f \in sel |-> obj[f]]]

StatisticsList(sel, rows) ==
  LET ret == [n \in DOMAIN rows |-> StatisticsObject(sel, rows[n])]
  IN  IF \E n \in DOMAIN ret : ret[n] = Null THEN Null ELSE [kind |-> "list", of |-> ret]

\* The parts of what the resolvers return.
CreateAccountExecObj == [f \in CreateAccountExecFields \cup {"__typename"} |-> Scalar]

StatisticsObj(row) ==
  [f \in StatisticsFields \cup {"__typename"} |-> IF f = "__typename" THEN Scalar ELSE row[f]]

\* A row of accounts_transaction_statistics_1 for an action whose last
\* transaction is of the last day, of the last week or older: an average over no
\* transactions is NULL.
Row(age) ==
  [f \in StatisticsFields |->
     IF \/ f = "avgGasLimit24Hours" /\ age # "day"
        \/ f = "avgGasLimitWeek" /\ age = "old"
     THEN Null ELSE Scalar]

\* Mutant: a NULL is scanned like a number.
MutScans(row) == TRUE

\* rows.Scan into a model.Statistics: NULL does not go into a float64.
Scans(row) == \A f \in StatisticsFields : row[f] # Null

\* The lists that the resolver Statistics returns: one row that does not scan
\* fails all of them. rows.Next also ends when the connection is lost, so that
\* a list may be shorter than the view.
Statistics ==
  {view \in UNION {[1..k -> {Row(age) : age \in {"day", "week", "old"}}] : k \in 0..MaxRows} :
     \A n \in DOMAIN view : Scans(view[n])}

\* createAccountExec, statistics and the introspection are nullable.
Marshalled(i) ==
  LET sel == doc.fields[i].sel
  IN  CASE Name(i) = "createAccountExec" ->
             {CreateAccountExecObject(sel, CreateAccountExecObj)}
        [] Name(i) = "statistics" ->
             {StatisticsList(sel, [n \in DOMAIN rows |-> StatisticsObj(rows[n])]) :
                rows \in Statistics}
        [] Name(i) = "__type" -> {Scalar, Null}
        [] OTHER -> {Scalar}

-----------------------------------------------------------------------------
Exec ==
  /\ pc = "idle"
  /\ IF doc.kind \in {"query", "mutation"}
     THEN pc' = "loop" /\ UNCHANGED errors
     ELSE pc' = "done" /\ errors' = <<[field |-> 0, why |-> "unsupported"]>>
  /\ UNCHANGED <<doc, at, task, res, invalids, calls, data>>

\* The loop comes to field i of a mutation or, in a query, hands it over.
Reach(i) ==
  /\ pc = "loop" /\ at = i /\ i \in Fields /\ task[i] = "waiting"
  /\ task' = [task EXCEPT ![i] = IF doc.kind = "query" /\ Name(i) \in DelayedFields
                                 THEN "delayed" ELSE "ready"]
  /\ at' = IF task'[i] = "delayed" THEN at + 1 ELSE at
  /\ UNCHANGED <<doc, pc, res, invalids, errors, calls, data>>

\* The process runs the operation.
Alive == pc \in {"loop", "dispatch"}

Ready(i) ==
  /\ Alive /\ i \in Fields
  /\ \/ task[i] = "ready"
     \/ pc = "dispatch" /\ task[i] = "delayed"

\* fieldContext_...: the first argument that does not unmarshal is reported,
\* and the resolver is not called.
ArgsError(i) ==
  LET args == ArgsOf(Name(i))
  IN  /\ Ready(i) /\ doc.fields[i].bad # {}
      /\ \E a \in DOMAIN args :
           /\ args[a] \in doc.fields[i].bad
           /\ \A b \in 1..(a - 1) : args[b] \notin doc.fields[i].bad
           /\ errors' = Append(errors, [field |-> i, why |-> args[a]])
      /\ res' = [res EXCEPT ![i] = Null]
      /\ task' = [task EXCEPT ![i] = "returned"]
      /\ UNCHANGED <<doc, pc, at, invalids, calls, data>>

\* The resolver is called with the arguments: by the loop, before it goes on,
CallMutation(i) ==
  /\ Ready(i) /\ doc.fields[i].bad = {} /\ Name(i) \in MutationFields
  /\ task' = [task EXCEPT ![i] = "running"]
  /\ calls' = Append(calls, i)
  /\ UNCHANGED <<doc, pc, at, res, invalids, errors, data>>

\* or by a goroutine of its own, except for the introspection.
CallQuery(i) ==
  /\ Ready(i) /\ doc.fields[i].bad = {} /\ Name(i) \in QueryFields \ {"__typename"}
  /\ task' = [task EXCEPT ![i] = "running"]
  /\ calls' = Append(calls, i)
  /\ UNCHANGED <<doc, pc, at, res, invalids, errors, data>>

Typename(i) ==
  /\ Ready(i) /\ Name(i) = "__typename"
  /\ res' = [res EXCEPT ![i] = Scalar]
  /\ task' = [task EXCEPT ![i] = "returned"]
  /\ UNCHANGED <<doc, pc, at, invalids, errors, calls, data>>

ResolverReturns(i) ==
  /\ Alive /\ i \in Fields /\ task[i] = "running"
  /\ res' \in {[res EXCEPT ![i] = v] : v \in Marshalled(i)}
  /\ task' = [task EXCEPT ![i] = "returned"]
  /\ UNCHANGED <<doc, pc, at, invalids, errors, calls, data>>

\* The resolvers that call a node, the database, a program or the webhook;
\* publickey and the introspection only read what the process has.
CallsOut(name) == name \in MutationFields \cup (DelayedFields \ {"publickey"})

\* An error, or a panic that ResolveField recovers from, is recorded.
ResolverFails(i, why) ==
  /\ Alive /\ i \in Fields /\ task[i] = "running" /\ CallsOut(Name(i))
  /\ errors' = Append(errors, [field |-> i, why |-> why])
  /\ res' = [res EXCEPT ![i] = Null]
  /\ task' = [task EXCEPT ![i] = "returned"]
  /\ UNCHANGED <<doc, pc, at, invalids, calls, data>>

\* A resolver waits for an answer that never comes: none of its calls has a
\* timeout.
ResolverHangs(i) ==
  /\ Alive /\ i \in Fields /\ task[i] = "running" /\ CallsOut(Name(i))
  /\ task' = [task EXCEPT ![i] = "hung"]
  /\ UNCHANGED <<doc, pc, at, res, invalids, errors, calls, data>>

\* Mutant: hasCreated is treated as nullable.
MutCountsNull(name) == name \in {"requestSecret", "ninelivesMint", "claimRewards",
                                 "publickey", "eoaForAddress"}

\* The fields whose Null is counted; the others are compared with RequiredNull,
\* which nothing returns.
CountsNull(name) == name \in {"requestSecret", "ninelivesMint", "claimRewards",
                              "publickey", "eoaForAddress", "hasCreated"}

\* Mutant: the loop of a mutation ends at the first null.
MutStopAtNull(i) ==
  /\ Alive /\ i \in Fields /\ task[i] = "returned"
  /\ task' = [task EXCEPT ![i] = "done"]
  /\ invalids' = IF res[i] = Null /\ CountsNull(Name(i)) THEN invalids + 1 ELSE invalids
  /\ at' = IF pc = "loop" THEN (IF res[i] = Null THEN Len(doc.fields) + 1 ELSE at + 1) ELSE at
  /\ UNCHANGED <<doc, pc, res, errors, calls, data>>

\* Mutant: a goroutine whose resolver failed does not reach wg.Done.
MutNoDone(i) ==
  /\ Alive /\ i \in Fields /\ task[i] = "returned"
  /\ pc = "dispatch" => res[i] # Null
  /\ task' = [task EXCEPT ![i] = "done"]
  /\ invalids' = IF res[i] = Null /\ CountsNull(Name(i)) THEN invalids + 1 ELSE invalids
  /\ at' = IF pc = "loop" THEN at + 1 ELSE at
  /\ UNCHANGED <<doc, pc, res, errors, calls, data>>

\* Mutant: a null is counted by the goroutine and again by the loop.
MutCountTwice(i) ==
  /\ Alive /\ i \in Fields /\ task[i] = "returned"
  /\ task' = [task EXCEPT ![i] = "done"]
  /\ invalids' = IF res[i] = Null /\ CountsNull(Name(i)) THEN invalids + 2 ELSE invalids
  /\ at' = IF pc = "loop" THEN at + 1 ELSE at
  /\ UNCHANGED <<doc, pc, res, errors, calls, data>>

\* out.Values[i] = ..., out.Invalids++ (atomic.AddUint32 in a query).
Store(i) ==
  /\ Alive /\ i \in Fields /\ task[i] = "returned"
  /\ task' = [task EXCEPT ![i] = "done"]
  /\ invalids' = IF res[i] = Null /\ CountsNull(Name(i)) THEN invalids + 1 ELSE invalids
  /\ at' = IF pc = "loop" THEN at + 1 ELSE at
  /\ UNCHANGED <<doc, pc, res, errors, calls, data>>

\* out.Dispatch starts the goroutines.
Dispatch ==
  /\ pc = "loop" /\ at = Len(doc.fields) + 1
  /\ pc' = "dispatch"
  /\ UNCHANGED <<doc, at, task, res, invalids, errors, calls, data>>

\* wg.Wait in Dispatch.
Waited == \A i \in Fields : task[i] \notin {"delayed", "running", "hung", "returned"}

Respond ==
  /\ pc = "dispatch" /\ Waited
  /\ data' = IF invalids > 0 THEN Null ELSE [kind |-> "fields", of |-> res]
  /\ pc' = "done"
  /\ UNCHANGED <<doc, at, task, res, invalids, errors, calls>>

\* The process ends: log.Fatalf when no key is picked, in a resolver of this
\* operation or of another, or a crash.
Exit ==
  /\ pc \notin {"done", "lost"}
  /\ pc' = "lost"
  /\ UNCHANGED <<doc, at, task, res, invalids, errors, calls, data>>

Index == UNION {DOMAIN d.fields : d \in Document}

Init ==
  /\ doc \in Document
  /\ pc = "idle"
  /\ at = 1
  /\ task = [i \in DOMAIN doc.fields |-> "waiting"]
  /\ res = [i \in DOMAIN doc.fields |-> Unset]
  /\ invalids = 0
  /\ errors = <<>>
  /\ calls = <<>>
  /\ data = Unset

\* The goroutine of field i, and the loop at i.
Field(i) ==
  \/ Reach(i)
  \/ ArgsError(i)
  \/ CallMutation(i)
  \/ CallQuery(i)
  \/ Typename(i)
  \/ ResolverReturns(i)
  \/ \E why \in {"error", "panic"} : ResolverFails(i, why)
  \/ ResolverHangs(i)
  \/ Store(i)

Next ==
  \/ Exec
  \/ \E i \in Index : Field(i)
  \/ Dispatch
  \/ Respond
  \/ Exit

SafetySpec == Init /\ [][Next]_vars

\* Go's scheduler lets every goroutine that can run go on. That a resolver
\* returns is not assumed (ResolverHangs is one of its outcomes), nor that the
\* process lives on.
Spec == SafetySpec /\ WF_vars(Exec \/ Dispatch \/ Respond) /\ \A i \in Index : WF_vars(Field(i))
-----------------------------------------------------------------------------
(* Properties.                                                             *)

\* Type correctness.
TypeOK ==
  /\ pc \in {"idle", "loop", "dispatch", "done", "lost"}
  /\ at \in 1..(Len(doc.fields) + 1)
  /\ task \in [Fields -> {"waiting", "delayed", "ready", "running", "hung", "returned", "done"}]
  /\ invalids \in 0..Len(doc.fields)
  /\ \A n \in DOMAIN errors : errors[n].field \in Fields \cup {0}
  /\ calls \in Seq(Fields)

\* The fields that schema.graphqls declares with an exclamation mark.
NonNull == {"publickey", "eoaForAddress", "hasCreated",
            "requestSecret", "ninelivesMint", "claimRewards"}

\* A client that is given data can rely on the schema: it has every field that
\* was asked for, none of the non-null ones is null, and an object has exactly
\* what was selected, however the goroutines of a query were scheduled.
AnswerFitsSchema ==
  data.kind = "fields" =>
    \A i \in Fields :
      /\ data.of[i] # Unset
      /\ Name(i) \in NonNull => data.of[i] # Null
      /\ data.of[i].kind = "object" => DOMAIN data.of[i].of = doc.fields[i].sel
      /\ data.of[i].kind = "list" =>
           \A n \in DOMAIN data.of[i].of : DOMAIN data.of[i].of[n].of = doc.fields[i].sel

ErrorsAt(i) == {n \in DOMAIN errors : errors[n].field = i}

\* When the answer is given, every null in it has one error that explains it,
\* no error stands beside a value, and the whole answer is null only because a
\* field that the schema requires failed; introspection of an unknown type is
\* the one null without an error.
NullsExplained ==
  pc = "done" =>
    /\ \A i \in Fields :
         /\ res[i] = Null /\ Name(i) # "__type" => Cardinality(ErrorsAt(i)) = 1
         /\ ErrorsAt(i) # {} => res[i] = Null
    /\ data = Null <=> \E i \in Fields : Name(i) \in NonNull /\ ErrorsAt(i) # {}

\* The mutations of an operation run one at a time, in the order of the
\* document, each once; a failure stops none of those that follow, so that an
\* answer without data does not mean that nothing was done.
MutationsInOrder ==
  doc.kind = "mutation" =>
    /\ \A i, j \in Fields :
         task[i] \in {"running", "hung"} /\ task[j] \in {"running", "hung"} => i = j
    /\ \A m, n \in DOMAIN calls : m < n => calls[m] < calls[n]
    /\ pc = "done" =>
         \A i \in Fields :
           (\E n \in DOMAIN calls : calls[n] = i)
             <=> doc.fields[i].bad = {} /\ Name(i) # "__typename"

\* Every operation is answered, unless the process ends or one of its own
\* resolvers hangs; in a query the others are finished even then. Nothing else
\* keeps an operation open: no failed field, no goroutine that wg.Wait misses.
EveryOperationAnswered ==
  pc = "idle" ~>
    \/ pc \in {"done", "lost"}
    \/ /\ \E i \in Fields : task[i] = "hung"
       /\ doc.kind = "query" => \A i \in Fields : task[i] \in {"hung", "done"}
=============================================================================
