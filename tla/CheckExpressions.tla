---------------------------- MODULE CheckExpressions ----------------------------
(***************************************************************************)
(* How a check is evaluated: EvalExpressions goes through the expressions  *)
(* of the row, each of them goes through the hosts and reads what it needs *)
(* to know of a host (its latest data, its history, its log lines, whether *)
(* it answers), and the results are folded into one.                       *)
(*                                                                         *)
(* models/check_expression/evaluator.go.  What a query, a ping or a        *)
(* request finds is chosen when it is made.  Ping, SSH, HTTP and HTTPS     *)
(* differ in the command only and are one type, Probe.                     *)
(***************************************************************************)
EXTENDS Integers, Sequences, FiniteSets

CONSTANTS
    HostLists,        \* the lists of hosts there may be
    Unreadable,       \* stands for a hosts_list that is not the JSON of a list
    Values,           \* what a metric may be
    Thresholds,       \* Value of an expression (of RelativeHostData: in hundreds of percent)
    MinHosts,         \* MinHost of an expression
    MaxExpressions    \* bound: the length of the list of expressions

ASSUME ExpressionsAssumption ==
    /\ Unreadable \notin HostLists
    /\ Values \cup Thresholds \subseteq Int
    /\ MinHosts \subseteq Nat
    /\ MaxExpressions \in Nat

\* The operators the page offers per type; ">=" it offers by label only.
Operators == [RawHostData      |-> {">", ">=", "=", "<", "<="},
              RelativeHostData |-> {">", "<"},
              LogData          |-> {">", "<"},
              Probe            |-> {""}]

VARIABLES
    hostRows,       \* the rows of the hosts table the check is about
    hostsList,      \* hosts_list of the row
    expression,     \* the one at hand, [type, operator, value, minHost], or None
    loop,           \* its loop over the hosts
    lastOperator,   \* lastExpressionBooleanOperator
    finalResult,
    results,        \* expressionResults: [type, operator, result]
    failed          \* the hosts could not be read, or the process is gone

vars == <<hostRows, hostsList, expression, loop, lastOperator, finalResult, results, failed>>

None == [type |-> "none"]

Expressions ==
    UNION {[type : {t}, operator : Operators[t], value : Thresholds, minHost : MinHosts] : t \in DOMAIN Operators}

\* bad and good hold positions of hosts.  seen is the model's: of each host visited,
\* how it was dealt with and what comparing its value (of a missing metric: 0) alone
\* says.
Fresh(hosts) ==
    [hosts |-> hosts, perHostResult |-> FALSE, affected |-> 0, bad |-> {}, good |-> {}, seen |-> <<>>]

Verdicts == [dealt : {"compared", "missing", "counted", "skipped"}, alone : BOOLEAN]

\* With a hosts query the rows are what it matches; without, those of the list
\* that exist, and a list that cannot be read is what HostsFail stands for.
Init ==
    /\ hostRows \in HostLists /\ hostsList \in HostLists \cup {Unreadable}
    /\ expression = None
    /\ loop = Fresh(<<>>)
    /\ lastOperator = ""
    /\ finalResult = FALSE
    /\ results = <<>>
    /\ failed = FALSE

HostsFail ==
    /\ ~failed /\ results = <<>> /\ expression = None
    /\ failed' = TRUE
    /\ UNCHANGED <<hostRows, hostsList, expression, loop, lastOperator, finalResult, results>>

-----------------------------------------------------------------------------
(* The results folded into one.                                             *)

\* Faulty variant: the last result decides.
FoldLast(type, operator, value) ==
    /\ finalResult' = value
    /\ results' = Append(results, [type |-> type, operator |-> operator, result |-> value])

Fold(type, operator, value) ==
    /\ finalResult' = IF results = <<>> THEN value
                      ELSE CASE lastOperator' = "and" -> finalResult /\ value
                             [] lastOperator' = "or"  -> finalResult \/ value
                             [] OTHER                 -> finalResult
    /\ results' = Append(results, [type |-> type, operator |-> operator, result |-> value])

\* The Result of a BooleanOperator is never set, and is folded like the others.
BooleanOperator ==
    /\ ~failed /\ expression = None /\ Len(results) < MaxExpressions
    /\ \E operator \in {"and", "or"} :
          /\ lastOperator' = operator
          /\ Fold("BooleanOperator", operator, FALSE)
    /\ UNCHANGED <<hostRows, hostsList, expression, loop, failed>>

-----------------------------------------------------------------------------
(* One expression.                                                          *)

\* RawHostData and RelativeHostData go through the rows, the others through the
\* list and, when that is empty, the names of the rows; through nothing when the list
\* cannot be read.
HostsOf(type) ==
    IF type \in {"RawHostData", "RelativeHostData"} \/ hostsList = <<>> THEN hostRows
    ELSE IF hostsList = Unreadable THEN <<>> ELSE hostsList

Begin ==
    /\ ~failed /\ expression = None /\ Len(results) < MaxExpressions
    /\ \E e \in Expressions :
          LET hosts == HostsOf(e.type)
          IN  IF hosts # <<>>
              THEN /\ expression' = e /\ loop' = Fresh(hosts)
                   /\ UNCHANGED <<lastOperator, finalResult, results>>
              ELSE /\ UNCHANGED lastOperator
                   /\ Fold(e.type, e.operator, e.type \in {"RawHostData", "RelativeHostData"})
                   /\ UNCHANGED <<expression, loop>>
    /\ UNCHANGED <<hostRows, hostsList, failed>>

Compare(operator, left, right, otherwise) ==
    CASE operator = ">"  -> left > right
      [] operator = ">=" -> left >= right
      [] operator = "="  -> left = right
      [] operator = "<"  -> left < right
      [] operator = "<=" -> left <= right
      [] OTHER           -> otherwise

\* The share of the previous value: NaN of 0 of 0 compares false, and what is
\* divided by zero is infinite.
ComparePercentage(operator, val, prev, value, otherwise) ==
    IF prev = 0 THEN Compare(operator, val, 0, otherwise) ELSE Compare(operator, val, value * prev, otherwise)

Visiting(type) == expression # None /\ expression.type = type /\ Len(loop.seen) < Len(loop.hosts)

\* The end of the body: the host joins one of the lists.
List(dealt, isBad, alone) ==
    LET at == Len(loop.seen) + 1
    IN  /\ loop' = [loop EXCEPT !.perHostResult = isBad,
                                !.affected = IF isBad THEN @ + 1 ELSE @,
                                !.bad = IF isBad THEN @ \cup {at} ELSE @,
                                !.good = IF isBad THEN @ ELSE @ \cup {at},
                                !.seen = Append(@, [dealt |-> dealt, alone |-> alone])]
        /\ UNCHANGED <<hostRows, hostsList, expression, lastOperator, finalResult, results, failed>>

\* continue: the host is in neither list; it may have been counted.
Skip(counted, sets) ==
    /\ loop' = [loop EXCEPT !.perHostResult = @ \/ sets,
                            !.affected = IF counted THEN @ + 1 ELSE @,
                            !.seen = Append(@, [dealt |-> IF counted THEN "counted" ELSE "skipped",
                                                alone |-> FALSE])]
    /\ UNCHANGED <<hostRows, hostsList, expression, lastOperator, finalResult, results, failed>>

\* val stays 0 when no key of the host's data matches; when several do, Go's map
\* order chooses.
Found == {[val |-> v, missing |-> FALSE] : v \in Values} \cup {[val |-> 0, missing |-> TRUE]}

Dealt(f) == IF f.missing THEN "missing" ELSE "compared"

\* Faulty variant: the comparison sets the result only when it holds.
VisitRawOnlySetting ==
    /\ Visiting("RawHostData")
    /\ \E f \in Found :
          LET alone == Compare(expression.operator, f.val, expression.value, FALSE)
          IN  List(Dealt(f), loop.perHostResult \/ alone, alone)

\* A negative value sets perHostResult, and the comparison sets it again.
VisitRaw ==
    /\ Visiting("RawHostData")
    /\ \E f \in Found :
          LET Verdict(before) == Compare(expression.operator, f.val, expression.value, before \/ f.val < 0)
          IN  List(Dealt(f), Verdict(loop.perHostResult), Verdict(FALSE))

\* Without a row for the metric or without history the host counts; with another
\* error, or with a negative previous value, it does not.
VisitRelative ==
    /\ Visiting("RelativeHostData")
    /\ \/ \E counted \in BOOLEAN : Skip(counted, counted)
       \/ \E prev \in Values, f \in Found :
             LET Verdict(before) ==
                     ComparePercentage(expression.operator, f.val, prev, expression.value, before \/ f.val < 0)
             IN  IF prev < 0 THEN Skip(FALSE, f.val < 0)
                 ELSE List(Dealt(f), Verdict(loop.perHostResult), Verdict(FALSE))

\* A value that is no number: the type assertion panics, nobody recovers, and the
\* daemon is gone with the evaluation.
WrongType ==
    /\ Visiting("RawHostData") \/ Visiting("RelativeHostData")
    /\ failed' = TRUE
    /\ expression' = None /\ loop' = Fresh(<<>>)
    /\ UNCHANGED <<hostRows, hostsList, lastOperator, finalResult, results>>

\* A count of log lines, or an error.
VisitLog ==
    /\ Visiting("LogData")
    /\ \/ Skip(FALSE, FALSE)
       \/ \E count \in Values \cap Nat :
             LET Verdict(before) == Compare(expression.operator, count, expression.value, before)
             IN  List("compared", Verdict(loop.perHostResult), Verdict(FALSE))

\* The host answers or not.
VisitProbe ==
    /\ Visiting("Probe")
    /\ \E answers \in BOOLEAN : List("compared", ~answers, ~answers)

\* The cluster's row, with the retention of the logs, cannot be read.
LogFails ==
    /\ Visiting("LogData") /\ loop.seen = <<>>
    /\ UNCHANGED lastOperator
    /\ Fold(expression.type, expression.operator, FALSE)
    /\ expression' = None /\ loop' = Fresh(<<>>)
    /\ UNCHANGED <<hostRows, hostsList, failed>>

\* Faulty variant: more than MinHost.
EndAbove ==
    /\ expression # None /\ Len(loop.seen) = Len(loop.hosts)
    /\ UNCHANGED lastOperator
    /\ Fold(expression.type, expression.operator, loop.affected > expression.minHost)
    /\ expression' = None /\ loop' = Fresh(<<>>)
    /\ UNCHANGED <<hostRows, hostsList, failed>>

End ==
    /\ expression # None /\ Len(loop.seen) = Len(loop.hosts)
    /\ UNCHANGED lastOperator
    /\ Fold(expression.type, expression.operator, loop.affected >= expression.minHost)
    /\ expression' = None /\ loop' = Fresh(<<>>)
    /\ UNCHANGED <<hostRows, hostsList, failed>>

Visit == VisitRaw \/ VisitRelative \/ WrongType \/ VisitLog \/ VisitProbe \/ LogFails

Next == HostsFail \/ BooleanOperator \/ Begin \/ Visit \/ End

Spec == Init /\ [][Next]_vars

-----------------------------------------------------------------------------
(* Properties.                                                              *)

DealtAs(how) == {i \in DOMAIN loop.seen : loop.seen[i].dealt = how}

\* Although the loops keep perHostResult from one host to the next and leave the
\* body early, a host whose value is compared is listed as bad or good by that value
\* alone, hosts without the metric of a RawHostData expression are all listed alike,
\* and as many count as are listed as bad or lack metadata or history
\* (evaluator.go:106-153, 173-252, 293-324).  As what a host without the metric is
\* listed is left open: see MissingMetricIsWrong.
EachHostByItself ==
    /\ loop.bad \cap DealtAs("compared") = {i \in DealtAs("compared") : loop.seen[i].alone}
    /\ loop.bad \cup loop.good = DealtAs("compared") \cup DealtAs("missing")
    /\ loop.bad \cap loop.good = {}
    /\ loop.affected = Cardinality(loop.bad) + Cardinality(DealtAs("counted"))
    /\ expression # None /\ expression.type = "RawHostData" =>
           DealtAs("missing") \subseteq loop.bad \/ DealtAs("missing") \subseteq loop.good

\* evaluator.go:124-125 and 215-216 say of a host without the metric: "We assume that
\* there's something wrong with it."  It is compared as 0, so this does not hold of
\* the code, and no run lists it.
MissingMetricIsWrong == DealtAs("missing") \subseteq loop.bad

\* An expression that went through all its hosts is true when and only when at
\* least MinHost of them failed by themselves (without the metric: as 0) or lack
\* metadata or history
\* (evaluator.go:155, 254, 326, 371, 432, 540).
MinHostDecides ==
    [][expression # None /\ expression' = None /\ Len(loop.seen) = Len(loop.hosts) =>
          results'[Len(results')].result
              = (Cardinality({i \in DOMAIN loop.seen : loop.seen[i].alone \/ loop.seen[i].dealt = "counted"})
                    >= expression.minHost)]_vars

\* The list the page builds: expressions with an operator between two.
WellFormed == \A i \in DOMAIN results : results[i].type = "BooleanOperator" <=> i % 2 = 0

OnlyOperator(operator) ==
    \A i \in DOMAIN results : results[i].type = "BooleanOperator" => results[i].operator = operator

\* Expressions joined by OR are true together when one of them is: the results of
\* the operators, which are folded too, and the order do not matter
\* (evaluator.go:77-87).
OrIsAny ==
    WellFormed /\ OnlyOperator("or") =>
        finalResult = (\E i \in DOMAIN results : i % 2 = 1 /\ results[i].result)

\* templates/checks/list.html.tmpl:484, the option "AND", and evaluator.go:21:
\* expressions joined by AND are true together when all of them are.
AndIsAll ==
    WellFormed /\ OnlyOperator("and") /\ Len(results) % 2 = 1 =>
        finalResult = (\A i \in DOMAIN results : i % 2 = 1 => results[i].result)

=============================================================================
