--------------------------- MODULE MCCycleSearch ---------------------------
(* All import graphs of NFiles files, and all injection graphs of          *)
(* NProviders providers under two orders of their class names; and, for    *)
(* the graph without edges, a controller of one of three modules.          *)
EXTENDS NestWiring

CONSTANTS NFiles, NProviders

(* The first file may import itself; the others would only add states.     *)
ImportGraphs == [
  kind : {"imports"},
  size : {NFiles},
  name : {[n \in 1 .. NFiles |-> n]},
  use  : {u \in [1 .. NFiles -> [1 .. NFiles -> {"none", "plain"}]] :
            \A n \in 2 .. NFiles : u[n][n] = "none"}]

ProviderGraphs(names, order) == [
  kind : {"providers"},
  size : {NProviders},
  name : {order},
  use  : [1 .. NProviders -> [names -> {"none", "plain", "deferred"}]]]

(* Class names in the opposite order of files, and one name used twice.    *)
Reversed == [n \in 1 .. NProviders |-> NProviders + 1 - n]
Shared   == [n \in 1 .. NProviders |-> IF n = 1 THEN 2 ELSE 1]

MCGraphs ==
  ImportGraphs
    \cup ProviderGraphs(1 .. NProviders, Reversed)
    \cup ProviderGraphs(1 .. 2, Shared)

-----------------------------------------------------------------------------
(* The controller is registered in a, which may provide p under all the    *)
(* forms a list has; a imports b and g, which offer p or each other, or a  *)
(* library without an entry.  b may be out of sight, g may be global.      *)
CONSTANTS a, b, g, library, controller, p, alias

Class(x)  == [kind |-> "identifier", class |-> x, token |-> x, brings |-> Nothing]
Hidden(x) == [kind |-> "opaque", class |-> x, token |-> x, brings |-> Nothing]
Custom(x, token) == [kind |-> "object", class |-> x, token |-> token, brings |-> Nothing]

Array(S) == [form |-> "array", elements |-> S]
Written(form, S) == [form |-> form, elements |-> S]
Classes(S) == Array({Class(x) : x \in S})

AModule(imports, providers, controllers, exports, global, seen, static) == [
  static |-> static, global |-> global, decorated |-> global, seen |-> seen,
  lists |-> [key \in Lists |->
    CASE key = "imports"     -> imports
      [] key = "providers"   -> providers
      [] key = "controllers" -> controllers
      [] key = "exports"     -> exports]]

ImportersOfAll == {Classes({}), Classes({g}), Classes({library, b}),
                   Array({Custom(b, b)})}
Offering == {Classes({}), Classes({p})}

As == {AModule(i, o, Classes({controller}), Classes({}), FALSE, TRUE, TRUE) :
         i \in ImportersOfAll,
         o \in {Classes({}), Classes({alias}), Array({Custom(alias, p)}),
                Array({Hidden(p)}), Written("shorthand", {Class(p)})}}
Bs == {AModule(i, o, Classes({}), e, FALSE, s, TRUE) :
         i \in {Classes({}), Classes({g})}, o \in Offering,
         e \in {Classes({}), Classes({p}), Classes({g}), Array({Class(p), Hidden(alias)})},
         s \in BOOLEAN}
Gs == {AModule(i, o, Classes({}), e, global, TRUE, TRUE) :
         i \in {Classes({}), Classes({b})}, o \in Offering,
         e \in {Classes({}), Classes({p}), Classes({b}), Array({Class(p), Hidden(alias)}),
                Written("expression", {Class(p)})},
         global \in BOOLEAN}

Parameters ==
  {[type |-> p, token |-> t, plain |-> TRUE, optional |-> FALSE] : t \in {p, alias}}

Apps == [modules : {(a :> x) @@ (b :> y) @@ (g :> z) : x \in As, y \in Bs, z \in Gs},
         others : {{library, controller, p, alias}},
         injectables : {{p}}, consumer : {controller},
         constructor : {{r} : r \in Parameters}]

(* The importer writes out, or gets from a call, a dynamic b that provides  *)
(* and exports p, or is global as well.                                    *)
Dynamic(kind, global) ==
  [kind |-> kind, class |-> b, token |-> b,
   brings |-> [providers |-> {p}, exports |-> {p}, global |-> global]]

Plain(imports, controllers) ==
  AModule(imports, Classes({}), controllers, Classes({}), FALSE, TRUE, TRUE)

DynamicApps ==
  {[modules |-> (a :> Plain(ia, Classes({controller}))) @@ (b :> Plain(Classes({}), Classes({})))
                  @@ (g :> Plain(ig, Classes({}))),
    others |-> {library, controller, p, alias}, injectables |-> {p},
    consumer |-> controller,
    constructor |-> {[type |-> p, token |-> p, plain |-> TRUE, optional |-> FALSE]}] :
     ia \in {Classes({}), Array({Dynamic("object", FALSE)}), Array({Dynamic("opaque", FALSE)})},
     ig \in {Classes({a}), Array({Class(a), Dynamic("opaque", TRUE)})}}

NoModules == [modules |-> <<>>, others |-> {controller}, injectables |-> {},
              consumer |-> controller, constructor |-> {}]

(* bound: the modules vary for one graph only, the one without edges.      *)
MCApplications(graph_) ==
  IF graph_.kind = "providers" /\ graph_.name = Reversed
     /\ \A n \in 1 .. NProviders : Range(graph_.use[n]) = {"none"}
  THEN Apps ELSE {NoModules}

MCDynamicApplications(graph_) == DynamicApps
=============================================================================
