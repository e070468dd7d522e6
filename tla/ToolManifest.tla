---------------------------- MODULE ToolManifest ----------------------------
(***************************************************************************)
(* Tool manifests, version 3: what the strict parser of a manifest file    *)
(* accepts (toolspec), what a typed declaration is turned into for the     *)
(* wire, and what the registry of dispatchable tools exports.              *)
(*                                                                         *)
(* A manifest entry keeps of every field what the rules tell apart: a text *)
(* is empty or not, a name is a number (0 when empty), a list is absent,   *)
(* empty, has a blank item or is fine, and the value of a route has        *)
(* exactly its fields, more than those, or a blank one.                    *)
(***************************************************************************)
EXTENDS Integers, Sequences, FiniteSets

RouteKinds == {"harness_executor", "connector_binding"}

Lists == {"absent", "empty", "blank", "fine"}

Entries ==
    [typed : BOOLEAN, name : Nat, description : STRING, service : STRING, source : STRING,
     operation_class : STRING, route : SUBSET STRING, route_fields : STRING,
     required_capabilities : Lists, resource_types : Lists,
     enabled : {"absent", "true", "false"}, parameters : {"absent", "empty", "given"}]

IsHarness(t) == t.route = {"harness_executor"}

---------------------------------------------------------------------------
(* parse_manifest_v3.  `typed' is that every field is known and has its    *)
(* type.                                                                   *)

RouteParses(t) ==
    /\ Cardinality(t.route) = 1 /\ t.route \subseteq RouteKinds
    /\ t.route_fields = "exact"
    /\ IF IsHarness(t) THEN t.required_capabilities = "absent" /\ t.resource_types = "absent"
       ELSE t.required_capabilities = "fine" /\ t.resource_types # "empty"

ResourceTypesParse(t) == t.resource_types # "blank"

ToolParses(t) ==
    /\ t.typed
    /\ t.name # 0 /\ t.description # "" /\ t.service # "" /\ t.source # ""
    /\ t.operation_class \in {"read", "write"}
    /\ RouteParses(t) /\ ResourceTypesParse(t)

ManifestParses(doc) ==
    /\ doc.form = "object" /\ doc.schema = 3
    /\ \A i \in DOMAIN doc.tools : ToolParses(doc.tools[i])
    /\ \A i, j \in DOMAIN doc.tools : doc.tools[i].name = doc.tools[j].name => i = j

(* The typed declaration of an entry: what is absent gets its default.     *)
ParseTool(t) == [t EXCEPT !.enabled = IF @ = "absent" THEN "true" ELSE @,
                          !.parameters = IF @ = "absent" THEN "empty" ELSE @]

ParseManifest(doc) == [i \in DOMAIN doc.tools |-> ParseTool(doc.tools[i])]

---------------------------------------------------------------------------
(* ToolSpec.to_wire: laxer than the parser (no description, a field too    *)
(* many in the route, capabilities or not), and without the parameters.    *)

HasWire(t) ==
    /\ t.service # "" /\ t.source # "" /\ t.operation_class \in {"read", "write"}
    /\ Cardinality(t.route) = 1 /\ t.route \subseteq RouteKinds
    /\ t.route_fields # "blank"

(* Mutant: a tool that is switched off is registered without saying so.    *)
ToWireEnabled(t) == [t EXCEPT !.parameters = "absent", !.enabled = "absent"]

ToWire(t) == [t EXCEPT !.parameters = "absent"]

SerializeToolSpecs(specs) ==
    [form |-> "object", schema |-> 3, tools |-> [i \in DOMAIN specs |-> ToWire(specs[i])]]

---------------------------------------------------------------------------
(* The registry.  A registration is optional; registering a tool again     *)
(* without one withdraws it from the manifest.                             *)

Unrouted == [route |-> {}]

Register(registry, tool, registration) ==
    [n \in DOMAIN registry \cup {tool} |-> IF n = tool THEN registration ELSE registry[n]]

RegistrationIsValid(r) ==
    /\ r.service # "" /\ r.source # "" /\ r.operation_class \in {"read", "write"}
    /\ Cardinality(r.route \cap RouteKinds) = 1 /\ r.route_fields # "blank"
    /\ IF "connector_binding" \in r.route THEN r.required_capabilities = "fine"
       ELSE r.required_capabilities = "absent" /\ r.resource_types = "absent"

(* A list of resource types is left out when there is nothing in it.       *)
ExportEntry(r) ==
    [r EXCEPT !.enabled = "true", !.parameters = "absent",
              !.resource_types = IF @ = "empty" THEN "absent" ELSE @]

Routed(registry) == {n \in DOMAIN registry : registry[n] # Unrouted}

CanExport(registry) == \A n \in Routed(registry) : RegistrationIsValid(registry[n])

(* The entries come sorted by name.                                        *)
ExportKeiToolManifest(registry) ==
    LET names  == Routed(registry)
        nth(i) == CHOOSE n \in names : Cardinality({m \in names : m <= n}) = i
    IN  [form |-> "object", schema |-> 3,
         tools |-> [i \in 1 .. Cardinality(names) |-> ExportEntry(registry[nth(i)])]]
=============================================================================
