----------------------------- MODULE NestWiring -----------------------------
(***************************************************************************)
(* provider-not-registered (src/rules/nest): the module metadata of a Nest *)
(* application is read into a model (framework/nest/extract.ts), then      *)
(* every constructor injection of a known provider is looked for through   *)
(* the imports of the modules that register its consumer                   *)
(* (isInjectionResolvable in di-graph.ts).                                 *)
(*                                                                         *)
(* The model is read first, then CycleSearch runs for the other two rules  *)
(* on injections, then this one.  What Nest itself would do with the same  *)
(* metadata is Resolves, below the rule.                                   *)
(***************************************************************************)
EXTENDS CycleSearch

CONSTANT Applications(_)  \* what may be written around a graph of injections

Lists == {"imports", "providers", "controllers", "exports"}

(* An element of a list: a class, an object with useClass, useExisting or  *)
(* module, or something that cannot be read (a factory, a spread, a call). *)
(* token is what Nest takes it for.  In imports, an object with module or  *)
(* what a forRoot() call returns is a dynamic module: brings is what it    *)
(* adds to the metadata of its class.                                      *)
Brings(names) == [providers : SUBSET names, exports : SUBSET names, global : BOOLEAN]
Nothing == [providers |-> {}, exports |-> {}, global |-> FALSE]

Element(names) == [kind : {"identifier", "object", "opaque"},
                   class : names, token : names, brings : Brings(names)]

(* A list is an array, another expression, or a shorthand property.        *)
List(names) == [form : {"array", "expression", "shorthand"},
                elements : SUBSET Element(names)]

Module(names) == [
  static    : BOOLEAN, \* @Module is given an object literal
  global    : BOOLEAN, \* Nest takes the class for a global module
  decorated : BOOLEAN, \* it bears a decorator written Global
  seen      : BOOLEAN, \* its file is scanned and refers to @nestjs/
  lists     : [Lists -> List(names)]]

Parameter(names) == [
  type : names, token : names,  \* @Inject(token), or the type
  plain : BOOLEAN,              \* the type is an identifier
  optional : BOOLEAN]

IsApplication(a) ==
  LET names == DOMAIN a.modules \cup a.others
  IN  /\ a.modules \in [DOMAIN a.modules -> Module(names)]
      /\ a.injectables \subseteq names       \* known @Injectable classes
      /\ a.consumer \in names
      /\ a.constructor \subseteq Parameter(names)

ASSUME ApplicationsAssumption ==
  \A g \in Graphs : \A a \in Applications(g) : IsApplication(a)

VARIABLES
  app,          \* what is written
  step,         \* "extract", "rules" or "reported"
  model,        \* the module entries read
  unregistered  \* the parameters reported

wiring == <<app, step, model, unregistered>>

Modules == DOMAIN app.modules

-----------------------------------------------------------------------------
(* Reading the metadata *)

(* A shorthand property is passed over; another expression is told.  Of an *)
(* object only the class is taken: what a dynamic module brings is not.    *)
Unreadable(list) ==
  \/ list.form = "expression"
  \/ list.form = "array" /\ \E e \in list.elements : e.kind = "opaque"
ReadReferences(list) ==
  IF list.form = "array"
  THEN {e.class : e \in {x \in list.elements : x.kind # "opaque"}}
  ELSE {}

ReadModule(m) == [
  refs |-> [key \in Lists |-> IF m.static THEN ReadReferences(m.lists[key]) ELSE {}],
  unresolved |-> IF m.static THEN {key \in Lists : Unreadable(m.lists[key])} ELSE Lists,
  global |-> m.decorated]

ReadInjections == {p \in app.constructor : ~p.optional /\ p.plain}

Extract ==
  /\ step = "extract"
  /\ model' = [n \in {m \in Modules : app.modules[m].seen} |->
                 ReadModule(app.modules[n])]
  /\ step' = "rules"
  /\ UNCHANGED <<app, unregistered>>

-----------------------------------------------------------------------------
(* The rule *)

Entries == DOMAIN model
HasUnresolved(n) == model[n].unresolved # {}

Owners == {n \in Entries : app.consumer \in
             model[n].refs["providers"] \cup model[n].refs["controllers"]}

(* The entries whose imports the walk from start looks at.                 *)
Walked_StartOnly(start) == {start}
Walked(start) ==
  {n \in Entries : \A S \in SUBSET Entries :
     start \in S /\ (\A k \in S : model[k].refs["imports"] \cap Entries \subseteq S)
       => n \in S}

ReachableFrom(start, provider) ==
  \/ HasUnresolved(start)
  \/ provider \in model[start].refs["providers"]
  \/ \E n \in Walked(start) : \E i \in model[n].refs["imports"] :
       i \in Entries =>
         HasUnresolved(i) \/ provider \in model[i].refs["exports"]

FromGlobal(provider) ==
  \E n \in Entries :
    /\ model[n].global /\ ~HasUnresolved(n)
    /\ provider \in model[n].refs["exports"]

IsInjectionResolvable(provider) ==
  \/ provider \notin app.injectables
  \/ Owners = {}
  \/ FromGlobal(provider)
  \/ \E n \in Owners : ReachableFrom(n, provider)

ReportUnregistered ==
  /\ step = "rules" /\ pc = "done"
  /\ unregistered' = {p \in ReadInjections : ~IsInjectionResolvable(p.type)}
  /\ step' = "reported"
  /\ UNCHANGED <<app, model>>

-----------------------------------------------------------------------------
WiringInit ==
  /\ app \in Applications(graph)
  /\ step = "extract"
  /\ model = <<>>
  /\ unregistered = {}

RulesInit == Init /\ WiringInit

RulesNext ==
  \/ Extract /\ UNCHANGED vars
  \/ step = "rules" /\ Next /\ UNCHANGED wiring
  \/ ReportUnregistered /\ UNCHANGED vars

RulesSpec == RulesInit /\ [][RulesNext]_<<vars, wiring>>

-----------------------------------------------------------------------------
(* What Nest does: a class of modules has an instance for each way it is   *)
(* imported, and one of its own where no module imports it.                *)

Tokens(n, key) == {e.token : e \in app.modules[n].lists[key].elements}

ImportedBy(n) == {[module |-> e.token, brings |-> e.brings] :
                    e \in {x \in app.modules[n].lists["imports"].elements : x.token \in Modules}}
Instances ==
  (UNION {ImportedBy(n) : n \in Modules})
    \cup {[module |-> k, brings |-> Nothing] :
            k \in {n \in Modules : \A l \in Modules : n \notin Tokens(l, "imports")}}

Provided(x) == Tokens(x.module, "providers") \cup x.brings.providers
Exported(x) == Tokens(x.module, "exports") \cup x.brings.exports
IsGlobal(x) == app.modules[x.module].global \/ x.brings.global

(* An instance sees what it provides itself and what its imports and the   *)
(* global ones offer; it offers what it provides and exports, and what a   *)
(* module it sees and re-exports, by its class, offers.                    *)
Visible(x) == {y \in Instances : y \in ImportedBy(x.module) \/ IsGlobal(y)}

OfferedBy(S, token) ==
  {x \in Instances : \/ token \in Provided(x) \cap Exported(x)
                    \/ \E y \in Visible(x) \cap S : y.module \in Exported(x)}
Offers(x, token) ==
  \A S \in SUBSET Instances : OfferedBy(S, token) \subseteq S => x \in S

Resolves(x, token) ==
  \/ token \in Provided(x)
  \/ \E y \in Visible(x) : Offers(y, token)

(* What the rule takes at its word: lists that are written out, a class    *)
(* registered under a token of its own, a parameter that asks for its      *)
(* type, global modules that are seen, readable and re-export none, and    *)
(* dynamic modules that add nothing to their class.                        *)
ListsAreWrittenOut ==
  \A n \in Modules : \A key \in Lists : LET list == app.modules[n].lists[key] IN
    /\ list.form # "shorthand"
    /\ \A e \in list.elements : e.kind # "opaque" => e.token = e.class
ParametersAskForTheirType == \A p \in app.constructor : p.token = p.type
GlobalsAreRead ==
  \A n \in Modules : app.modules[n].global =>
    /\ app.modules[n].seen /\ app.modules[n].static /\ app.modules[n].decorated
    /\ \A key \in Lists : ~Unreadable(app.modules[n].lists[key])
    /\ Tokens(n, "exports") \cap Modules = {}
DynamicModulesAddNothing ==
  \A n \in Modules : \A e \in app.modules[n].lists["imports"].elements : e.brings = Nothing

(* Some module that registers the consumer cannot resolve the parameter.   *)
BrokenFor(p) ==
  \E x \in Instances :
    /\ app.consumer \in Provided(x) \cup Tokens(x.module, "controllers")
    /\ ~Resolves(x, p.token)

(* provider-not-registered.ts:8 "only provably broken wiring is reported": *)
(* whatever else could not be read and however exports travel, a module    *)
(* registers the consumer in which Nest cannot resolve the parameter.      *)
WiringReportsAreReal ==
  (/\ ListsAreWrittenOut /\ ParametersAskForTheirType
   /\ GlobalsAreRead /\ DynamicModulesAddNothing) =>
    \A p \in unregistered : BrokenFor(p)

(* The same where a dynamic module does bring providers and exports of its *)
(* own, or is global: extract.ts:382-396 reads { module: X, ... } as X,    *)
(* and a forRoot() call in a module off the walk is never consulted.       *)
OnlyBrokenWiringIsReported ==
  ListsAreWrittenOut /\ ParametersAskForTheirType /\ GlobalsAreRead =>
    \A p \in unregistered : BrokenFor(p)

(* docs/specs/009-nest-di-rules/spec.md, AC-7: no report when "any         *)
(* consulted module has hasUnresolved"; but a global module that lists the *)
(* provider among its exports is passed over if anything else in it could  *)
(* not be read.                                                            *)
UnreadGlobalsAreNotReported ==
  \A p \in unregistered : \A n \in Entries :
    model[n].global => p.type \notin model[n].refs["exports"]
=============================================================================
