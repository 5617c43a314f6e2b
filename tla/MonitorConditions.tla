--------------------------- MODULE MonitorConditions ---------------------------
(***************************************************************************)
(* The conditions of a monitor: the editor of the form                     *)
(* (src/components/EditMonitorConditions.vue and its two children), and    *)
(* what a check makes of it (server/monitor-conditions/).                  *)
(*                                                                         *)
(* The conditions are a tree: vertex 0 is the list of the form, a group    *)
(* has an order of its own below it.  What a condition compares with is    *)
(* left out: a reading says how what was read relates to it.               *)
(***************************************************************************)
EXTENDS Naturals, Sequences, SequencesExt

CONSTANTS
  MaxVertices,       \* bound: conditions and groups at a time
  MaxConditionMoves, \* bound: changes of the tree and its words
  MaxChoices         \* bound: choices of a variable or an operator

\* What an instance has to satisfy.
ConditionAssumption == MaxVertices \in Nat /\ MaxConditionMoves \in Nat /\ MaxChoices \in Nat

VARIABLES
  form,      \* what the editor shows: the type of the monitor and its tree.  It can be saved at any
             \* time, as it is: only its JSON is validated (server/model/monitor.js)
  condMoves, condChoices,
  unnested   \* history variable: the only thing within a group, a group, was removed

cvars == <<form, condMoves, condChoices, unnested>>

Vertices == 1..MaxVertices

StringOperators ==
  {"equals", "not_equals", "contains", "not_contains", "starts_with", "not_starts_with",
   "ends_with", "not_ends_with"}
NumberOperators == {"num_equals", "num_not_equals", "lt", "gt", "lte", "gte"}

\* conditionVariables of the types: MQTT (whose topic stands for its message as well), DNS, and a
\* type without conditions.  The first variable is what a new condition gets.
Types == {"mqtt", "dns", "http"}
VariablesOf(t) == CASE t = "mqtt" -> <<"topic", "json_value">> [] t = "dns" -> <<"record">> [] OTHER -> <<>>
OperatorsOf(x) == IF x = "json_value" THEN StringOperators \cup NumberOperators ELSE StringOperators

None == [kind |-> "none"]
Expression(x, op, andOr) == [kind |-> "expression", variable |-> x, operator |-> op, andOr |-> andOr]
Group(andOr) == [kind |-> "group", andOr |-> andOr]

Empty(t) == [type |-> t, node |-> [v \in Vertices |-> None], kids |-> [v \in 0..MaxVertices |-> <<>>]]

Groups(f)   == {0} \cup {v \in Vertices : f.node[v].kind = "group"}
Free(f)     == {v \in Vertices : f.node[v].kind = "none"}
IsExpression(f, v) == v # 0 /\ f.node[v].kind = "expression"

TypeOK ==
  /\ form.type \in Types
  /\ \A v \in Vertices : form.node[v].kind \in {"none", "group", "expression"}
  /\ \A v \in Groups(form) : form.kids[v] \in Seq(Vertices)
  /\ \A v \in Vertices \ Free(form) :     \* one place in the tree
       \E g \in Groups(form) : \E i \in DOMAIN form.kids[g] :
         /\ form.kids[g][i] = v
         /\ \A h \in Groups(form) : \A j \in DOMAIN form.kids[h] : form.kids[h][j] = v => h = g /\ j = i
  /\ condMoves \in 0..MaxConditionMoves /\ condChoices \in 0..MaxChoices /\ unnested \in BOOLEAN

\* What a monitor may have had before: a or b and not c.
Mixed ==
  [Empty("mqtt") EXCEPT
     !.node[1] = Expression("topic", "equals", "and"),
     !.node[2] = Expression("json_value", "lte", "or"),
     !.node[3] = Expression("topic", "not_contains", "and"),
     !.kids[0] = <<1, 2, 3>>]

Init ==
  /\ form \in {Empty(t) : t \in Types} \cup (IF MaxVertices >= 3 THEN {Mixed} ELSE {})
  /\ condMoves = 0 /\ condChoices = 0 /\ unnested = FALSE

-----------------------------------------------------------------------------
(* The editor *)

Edit(f) ==
  /\ condMoves < MaxConditionMoves /\ condMoves' = condMoves + 1
  /\ form' = f
  /\ UNCHANGED condChoices

Choose(f) ==
  /\ condChoices < MaxChoices /\ condChoices' = condChoices + 1
  /\ form' = f
  /\ UNCHANGED <<condMoves, unnested>>

\* getNewCondition(): the first variable with its first operator.
NewCondition == Expression(Head(VariablesOf(form.type)), "equals", "and")

\* The editor is there for a type with variables.
Offered == VariablesOf(form.type) # <<>>

AddCondition(g, v) ==
  /\ Offered /\ g \in Groups(form) /\ v \in Free(form)
  /\ \A w \in Free(form) : v <= w
  /\ Edit([form EXCEPT !.node[v] = NewCondition, !.kids[g] = Append(@, v)])
  /\ UNCHANGED unnested

\* getNewGroup(): a group comes with one condition.
AddGroup(g, v, w) ==
  /\ Offered /\ g \in Groups(form) /\ v \in Free(form) /\ w \in Free(form) /\ v < w
  /\ \A x \in Free(form) \ {v} : v < x /\ w <= x
  /\ Edit([form EXCEPT !.node[v] = Group("and"), !.node[w] = NewCondition,
                       !.kids[g] = Append(@, v), !.kids[v] = <<w>>])
  /\ UNCHANGED unnested

\* mutant: the bin is there in a group of one, too
RemoveCondition_Always(g, i) ==
  /\ g \in Groups(form) /\ i \in DOMAIN form.kids[g] /\ IsExpression(form, form.kids[g][i])
  /\ Edit([form EXCEPT !.node[form.kids[g][i]] = None, !.kids[g] = RemoveAt(@, i)])
  /\ UNCHANGED unnested

\* The bin of a condition: the only one of a group has none.
RemoveCondition(g, i) ==
  /\ g \in Groups(form) /\ i \in DOMAIN form.kids[g] /\ IsExpression(form, form.kids[g][i])
  /\ g = 0 \/ Len(form.kids[g]) > 1
  /\ Edit([form EXCEPT !.node[form.kids[g][i]] = None, !.kids[g] = RemoveAt(@, i)])
  /\ UNCHANGED unnested

\* What a group holds, and what those hold.
Below(f, v) ==
  LET below[w \in Vertices] == {w} \cup UNION {below[x] : x \in ToSet(f.kids[w])} IN below[v]

\* The bin of a group is always there.
RemoveGroup(g, i) ==
  /\ g \in Groups(form) /\ i \in DOMAIN form.kids[g] /\ ~IsExpression(form, form.kids[g][i])
  /\ LET gone == Below(form, form.kids[g][i])
     IN Edit([form EXCEPT
               !.node = [v \in Vertices |-> IF v \in gone THEN None ELSE @[v]],
               !.kids = [v \in 0..MaxVertices |->
                           CASE v \in gone -> <<>> [] v = g -> RemoveAt(@[v], i) [] OTHER -> @[v]]])
  /\ unnested' = (unnested \/ (g # 0 /\ Len(form.kids[g]) = 1))

\* "and" or "or" before anything but the first.
ChooseAndOr(g, i, andOr) ==
  /\ g \in Groups(form) /\ i \in DOMAIN form.kids[g] /\ i > 1
  /\ Edit([form EXCEPT !.node[form.kids[g][i]].andOr = andOr])
  /\ UNCHANGED unnested

\* A variable of the type: the operator stays what it was.
ChooseVariable(v, x) ==
  /\ v \notin Free(form) /\ IsExpression(form, v) /\ x \in ToSet(VariablesOf(form.type))
  /\ Choose([form EXCEPT !.node[v].variable = x])

ChooseOperator(v, op) ==
  /\ v \notin Free(form) /\ IsExpression(form, v) /\ op \in OperatorsOf(form.node[v].variable)
  /\ Choose([form EXCEPT !.node[v].operator = op])

\* mutant: the conditions of the former type stay
ChangeType_Keeps(t) ==
  /\ t # form.type
  /\ Edit([form EXCEPT !.type = t])
  /\ UNCHANGED unnested

\* Another type begins with no conditions.
ChangeType(t) ==
  /\ t # form.type
  /\ Edit(Empty(t))
  /\ UNCHANGED unnested

Next ==
  \/ \E g \in 0..MaxVertices, v, w \in Vertices : AddGroup(g, v, w)
  \/ \E g \in 0..MaxVertices, i \in Vertices :
       \/ AddCondition(g, i) \/ RemoveCondition(g, i) \/ RemoveGroup(g, i)
       \/ \E andOr \in {"and", "or"} : ChooseAndOr(g, i, andOr)
  \/ \E v \in Vertices, x \in {"topic", "json_value", "record"} : ChooseVariable(v, x)
  \/ \E v \in Vertices, op \in StringOperators \cup NumberOperators : ChooseOperator(v, op)
  \/ \E t \in Types : ChangeType(t)

Spec == Init /\ [][Next]_cvars

-----------------------------------------------------------------------------
(* The check.  A reading says of what was read how it relates to the value of the condition, as  *)
(* texts and, compared as numbers, as "less", "same", "more" or "none" if one is no number.      *)

Reading(texts, order) == [texts |-> texts, order |-> order]
Same     == Reading({"equals", "contains", "starts_with", "ends_with"}, "same")
Longer   == Reading({"contains", "starts_with"}, "more")    \* 10 and 1
Leading  == Reading({"contains", "ends_with"}, "same")      \* 01 and 1
Other    == Reading({}, "less")
NoNumber == Reading({"contains"}, "none")
Nothing  == Reading({}, "nothing")  \* undefined: the issue of a CAA record that has none

Readings == {Same, Longer, Leading, Other, NoNumber}

Affirmative == {"equals", "contains", "starts_with", "ends_with"}
Not(op) == CASE op = "not_equals" -> "equals" [] op = "not_contains" -> "contains"
             [] op = "not_starts_with" -> "starts_with" [] op = "not_ends_with" -> "ends_with"

Verdict(b) == IF b THEN "yes" ELSE "no"

\* mutant: "less than or equal" is "less than"
Test_Strict(op, r) ==
  IF r = Nothing /\ op \in StringOperators \ {"equals", "not_equals"} THEN "error" ELSE
  CASE op \in Affirmative         -> Verdict(op \in r.texts)
    [] op \in StringOperators \ Affirmative -> Verdict(Not(op) \notin r.texts)
    [] op = "num_equals"          -> "no"
    [] op = "num_not_equals"      -> "yes"
    [] op \in {"lt", "lte"}       -> Verdict(r.order = "less")
    [] op = "gt"                  -> Verdict(r.order = "more")
    [] op = "gte"                 -> Verdict(r.order \in {"more", "same"})

\* test() of the operators.  The texts' own methods fail on undefined; what a check reads is
\* always a text, which === takes for no number.
Test(op, r) ==
  IF r = Nothing /\ op \in StringOperators \ {"equals", "not_equals"} THEN "error" ELSE
  CASE op \in Affirmative         -> Verdict(op \in r.texts)
    [] op \in StringOperators \ Affirmative -> Verdict(Not(op) \notin r.texts)
    [] op = "num_equals"          -> "no"
    [] op = "num_not_equals"      -> "yes"
    [] op = "lt"                  -> Verdict(r.order = "less")
    [] op = "gt"                  -> Verdict(r.order = "more")
    [] op = "lte"                 -> Verdict(r.order \in {"less", "same"})
    [] op = "gte"                 -> Verdict(r.order \in {"more", "same"})

\* mutant: the first child's word counts
Joined_First(results, words) ==
  IF results = <<>> \/ "error" \in ToSet(results) THEN "error"
  ELSE FoldLeft(LAMBDA acc, i : Verdict(IF words[i] = "or" THEN acc = "yes" \/ results[i] = "yes"
                                                            ELSE acc = "yes" /\ results[i] = "yes"),
                "yes", [i \in 1..Len(results) |-> i])

\* evaluateExpressionGroup(): every child is evaluated, one after another joined to what came
\* before it; the first one's word does not count, and a group of none fails.
Joined(results, words) ==
  IF results = <<>> \/ "error" \in ToSet(results) THEN "error"
  ELSE FoldLeft(LAMBDA acc, i : Verdict(IF words[i] = "or" THEN acc = "yes" \/ results[i] = "yes"
                                                            ELSE acc = "yes" /\ results[i] = "yes"),
                results[1], [i \in 1..(Len(results) - 1) |-> i + 1])

\* The variables the check of a type puts into the context, each with what was read.
Contexts(t) == [ToSet(VariablesOf(t)) -> Readings \cup (IF t = "dns" THEN {Nothing} ELSE {})]

\* evaluateExpression() and evaluateExpressionGroup() of the tree.
Evaluate(f, context) ==
  LET value[v \in 0..MaxVertices] ==
        IF IsExpression(f, v)
        THEN LET e == f.node[v] IN
             IF e.variable \in DOMAIN context THEN Test(e.operator, context[e.variable]) ELSE "error"
        ELSE Joined([i \in DOMAIN f.kids[v] |-> value[f.kids[v][i]]],
                    [i \in DOMAIN f.kids[v] |-> f.node[f.kids[v][i]].andOr])
  IN value[0]

-----------------------------------------------------------------------------
(* Properties *)

\* What the captions of the operators say; the two about equal numbers are left to the code,
\* for which no text is a number.
Says(op, r) ==
  CASE op \in Affirmative -> op \in r.texts
    [] op \in {"num_equals", "num_not_equals"} -> op = "num_not_equals"
    [] op \in NumberOperators \ {"num_equals", "num_not_equals"} ->
         r.order \in (CASE op = "lt" -> {"less"} [] op = "gt" -> {"more"}
                        [] op = "lte" -> {"less", "same"} [] OTHER -> {"more", "same"})
    [] OTHER -> Not(op) \notin r.texts

\* The rule without an order of evaluation: something holds that begins an alternative (the first,
\* or one after "or"), and so does all that follows it with "and".
Rule(f, context) ==
  LET holds[v \in 0..MaxVertices] ==
        IF IsExpression(f, v) THEN /\ f.node[v].variable \in DOMAIN context
             /\ Says(f.node[v].operator, context[f.node[v].variable])
        ELSE \E i \in DOMAIN f.kids[v] :
               /\ i = 1 \/ f.node[f.kids[v][i]].andOr = "or"
               /\ holds[f.kids[v][i]]
               /\ \A j \in DOMAIN f.kids[v] :
                    j > i /\ f.node[f.kids[v][j]].andOr = "and" => holds[f.kids[v][j]]
  IN holds[0]

HollowGroup(f) == \E v \in Vertices : f.node[v].kind = "group" /\ f.kids[v] = <<>>

Conditional == form.kids[0] # <<>>

\* What is saved is judged by the rule, whatever was read, as long as no group in it is empty.
JudgedByTheRule ==
  Conditional /\ ~HollowGroup(form) =>
    \A context \in Contexts(form.type) :
      \/ \E x \in DOMAIN context : context[x] = Nothing
      \/ Evaluate(form, context) = Verdict(Rule(form, context))

\* Conditions that make every check fail are saved in one way only: a group lost the group that
\* was all it held.  Nothing else is undefined to a check but a record without the field read.
FailsForAReason ==
  Conditional =>
    /\ HollowGroup(form) => unnested
    /\ \A context \in Contexts(form.type) :
         Evaluate(form, context) = "error" =>
           HollowGroup(form) \/ \E x \in DOMAIN context : context[x] = Nothing

=============================================================================
