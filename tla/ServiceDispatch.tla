-------------------------- MODULE ServiceDispatch --------------------------
(***************************************************************************)
(* Which method of a service a request calls, and with which arguments:    *)
(* the table that addService builds from the service's meta-object         *)
(* (QJsonRpcServicePrivate::cacheInvokableInfo) and the part of            *)
(* QJsonRpcService::dispatch that looks a method up, binds its arguments   *)
(* and calls it (src/src/qjsonrpcservice.cpp).  Module                     *)
(* QJsonRpcServiceProvider has what becomes of the answer.                 *)
(*                                                                         *)
(* The methods here are those of one name, in the order the meta-object    *)
(* has them.                                                               *)
(***************************************************************************)
EXTENDS Naturals, Sequences, FiniteSets

CONSTANTS
  Services,       \* what a service may have under the name: a set of sequences
                  \* of methods, [invokable, params, returns]
  Requests,       \* the parameters of requests, [byName, args], where args is
                  \* a sequence of json types or a function from names to them
  Unconvertible,  \* <<json type, type>>: what convertArgument cannot convert
  MaxAdds,        \* how often the service is added to a provider
  NoMethod        \* a model value

Methods ==
  [invokable : BOOLEAN, params : Seq([name : STRING, type : STRING, out : BOOLEAN]), returns : STRING]

\* Anything can be converted to a QVariant.  (Whether null can depends on the
\* version of Qt: no request here has one.)
ASSUME DispatchAssumption ==
  /\ \A methods \in Services : methods \in Seq(Methods)
  /\ \A request \in Requests : request.byName \in BOOLEAN /\ (~request.byName => request.args \in Seq(STRING))
  /\ \A conversion \in Unconvertible : conversion[2] # "variant"
  /\ MaxAdds \in Nat
  /\ NoMethod \notin Nat

\* convertVariantTypeToJSType, for one type of each kind: "date" stands for those
\* without a JSON type, "unknown" for those that are not registered.
\* "undefined" takes anything.
JsType(type) ==
  CASE type = "int" -> "number"
    [] type = "string" -> "string"
    [] type = "map" -> "object"
    [] OTHER -> "undefined"

VARIABLES
  service,   \* the methods of the service
  adds,      \* how often it has been added
  indexes,   \* invokableMethodHash[name]
  last       \* what the last request has led to

vars == <<service, adds, indexes, last>>

NothingYet == [request |-> NoMethod, chosen |-> NoMethod, called |-> NoMethod, answer |-> "none"]

Init ==
  /\ service \in Services
  /\ adds = 0
  /\ indexes = <<>>
  /\ last = NothingYet

-----------------------------------------------------------------------------
(* The table. *)

\* MethodInfo.valid: the types of the parameters and of the result are known.
ValidInfo(method) ==
  /\ method.returns # "unknown"
  /\ \A i \in DOMAIN method.params : method.params[i].type # "unknown"

\* signature.contains("QVariant"), which a QVariantMap does as well.
MentionsVariant(method) ==
  \E i \in DOMAIN method.params : method.params[i].type \in {"variant", "map"}

AllAppended(table, idx) == Append(table, idx)         \* mutant
\* Methods with QVariants come last, in their order, the others before them.
InsertIndex(table, idx) ==
  IF MentionsVariant(service[idx]) THEN Append(table, idx) ELSE <<idx>> \o table

\* cacheInvokableInfo, which goes through the methods in their order.
CacheInvokableInfo(table) ==
  LET after[idx \in 0..Len(service)] ==
        CASE idx = 0 -> table
          [] idx > 0 /\ service[idx].invokable /\ ValidInfo(service[idx]) ->
               InsertIndex(after[idx - 1], idx)
          [] OTHER -> after[idx - 1]
  IN  after[Len(service)]

\* addService of a service that is not registered: the table is built on top of
\* what an earlier addService has left.
AddService ==
  /\ adds < MaxAdds
  /\ adds' = adds + 1
  /\ indexes' = CacheInvokableInfo(indexes)
  /\ UNCHANGED <<service, last>>

-----------------------------------------------------------------------------
(* Choosing a method. *)

Takes(parameter, json) == JsType(parameter.type) \in {"undefined", json}

\* jsParameterCompare of a list.  A turn of its loop: j is the number of the
\* argument that is due, and 0 when one does not fit.
AfterParameter(j, parameter, args) ==
  CASE j = 0 \/ j > Len(args) -> j
    [] j \in DOMAIN args /\ Takes(parameter, args[j]) -> j + 1
    [] j \in DOMAIN args /\ ~Takes(parameter, args[j]) -> IF parameter.out THEN j ELSE 0

\* The number of the first argument that no parameter has taken.
FirstLeft(params, args) ==
  LET after[i \in 0..Len(params)] ==
        IF i = 0 THEN 1
        ELSE CHOOSE j \in {AfterParameter(k, params[i], args) : k \in {after[i - 1]}} : TRUE
  IN  after[Len(params)]

ListFits(params, args) == FirstLeft(params, args) = Len(args) + 1

\* jsParameterCompare of an object.  Names that no parameter has are ignored.
ObjectFits(params, args) ==
  \A i \in DOMAIN params :
    IF params[i].name \in DOMAIN args THEN Takes(params[i], args[params[i].name])
    ELSE params[i].out

\* Parameters that are neither a list nor an object are an empty list.
Fits(idx, request) ==
  IF request.byName THEN ObjectFits(service[idx].params, request.args)
                    ELSE ListFits(service[idx].params, request.args)

\* The first in the table that fits.
FirstFitting(fitting) == indexes[CHOOSE k \in fitting : \A l \in fitting : k <= l]

Chosen(request) ==
  LET fitting == {k \in DOMAIN indexes : Fits(indexes[k], request)}
  IN  IF fitting = {} THEN NoMethod ELSE FirstFitting(fitting)

-----------------------------------------------------------------------------
(* Calling it. *)

\* The i-th argument of the method: "default" is a default-constructed one for
\* an argument that is not there.
Argument(params, request, i) ==
  LET key == IF request.byName THEN params[i].name ELSE i
  IN  IF key \in DOMAIN request.args THEN request.args[key] ELSE "default"

Converted(params, request) ==
  \A i \in DOMAIN params : <<Argument(params, request, i), params[i].type>> \notin Unconvertible

MaxPassed == 10

PassedByRequest(idx, request) == Cardinality(DOMAIN request.args)   \* mutant
\* How many arguments PASS_ARG passes, of which there are ten.
Passed(idx, request) ==
  IF Len(service[idx].params) > MaxPassed THEN MaxPassed ELSE Len(service[idx].params)

\* What QMetaObject::invokeMethod calls: it is asked for a method of this name
\* with n QVariants, and checks that it returns one.
Called(n) ==
  LET asked == {idx \in DOMAIN service :
                  LET method == service[idx] IN
                    /\ Len(method.params) = n
                    /\ \A i \in 1..n : method.params[i].type = "variant" /\ ~method.params[i].out}
      derived == CHOOSE idx \in asked : \A i \in asked : i <= idx
  IN  IF asked # {} /\ service[derived].returns = "variant" THEN derived ELSE NoMethod

HasOut(method) == \E i \in DOMAIN method.params : method.params[i].out

\* The answer of a method that was called: with output parameters and no result
\* ret.first() of an empty list, which leaves "result" out of the response.
AnswerOf(method) == IF HasOut(method) /\ method.returns = "void" THEN "noResult" ELSE "result"

\* What dispatch calls for a request that has chosen a method.
CalledFor(chosen, request) ==
  IF /\ chosen # NoMethod
     /\ Converted(service[chosen].params, request)
  THEN Called(Passed(chosen, request))
  ELSE NoMethod

\* dispatch of a request for a method of this name.  (Without an invokable one
\* it is refused as unknown.)
Dispatch(request) ==
  /\ adds > 0
  /\ LET chosen == Chosen(request)
         called == CalledFor(chosen, request)
     IN  last' = [request |-> request, chosen |-> chosen, called |-> called,
                  answer |-> IF called = NoMethod THEN "error" ELSE AnswerOf(service[chosen])]
  /\ UNCHANGED <<service, adds, indexes>>

Next ==
  \/ AddService
  \/ \E request \in Requests : Dispatch(request)

Spec == Init /\ [][Next]_vars

-----------------------------------------------------------------------------
(* Properties. *)

Dispatched == last.answer # "none"

\* A list of arguments fits parameters if each argument is taken by one, in
\* order; all others before the last of these are for output and could not have
\* taken the argument that was due.  What is missing at the end is left out.
ListBelongs(params, args) ==
  \E takers \in SUBSET (DOMAIN params) :
    LET before(i) == Cardinality({k \in takers : k < i}) IN
      /\ Cardinality(takers) = Len(args)
      /\ \A i \in takers : Takes(params[i], args[before(i) + 1])
      /\ \A i \in DOMAIN params \ takers :
           before(i) < Len(args) => params[i].out /\ ~Takes(params[i], args[before(i) + 1])

Belongs(idx, request) ==
  /\ service[idx].invokable /\ ValidInfo(service[idx])
  /\ IF request.byName THEN ObjectFits(service[idx].params, request.args)
                       ELSE ListBelongs(service[idx].params, request.args)

\* The overload a request means: of those without QVariants that fit it the one
\* declared last, else of those with them the one declared first.
Meant(request) ==
  LET fitting == {idx \in DOMAIN service : Belongs(idx, request)}
      typed == {idx \in fitting : ~MentionsVariant(service[idx])}
  IN  CASE typed # {} -> CHOOSE idx \in typed : \A i \in typed : i <= idx
        [] typed = {} /\ fitting # {} -> CHOOSE idx \in fitting : \A i \in fitting : idx <= i
        [] OTHER -> NoMethod

\* dispatch chooses the overload that is meant, however often the service has
\* been added (each time on top of the table that the last has left).
OverloadIsMeant == Dispatched => last.chosen = Meant(last.request)

\* A method as QML declares it: QVariants in and out.
QmlMethod(method) ==
  /\ method.invokable /\ method.returns = "variant"
  /\ \A i \in DOMAIN method.params : method.params[i].type = "variant" /\ ~method.params[i].out

\* Of a service with QML's methods only, each with its own number of parameters,
\* the method that was chosen is the one that is called, and its result is the
\* answer, also when the request leaves parameters out.
ChosenIsCalled ==
  /\ Dispatched /\ last.chosen # NoMethod
  /\ \A i \in DOMAIN service : QmlMethod(service[i])
  /\ \A i, j \in DOMAIN service : Len(service[i].params) = Len(service[j].params) => i = j
  => \/ last.called = last.chosen /\ last.answer = "result"
     \/ Len(service[last.chosen].params) > MaxPassed

\* The test of dispatch: a request whose arguments fit a method is not answered
\* with an error.
FittingRequestSucceeds ==
  Dispatched /\ last.chosen # NoMethod => last.answer # "error"
=============================================================================
