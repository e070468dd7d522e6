---------------------------- MODULE MCKeiHarness ----------------------------
(* Manifests with every deviation of one field from a connector tool and   *)
(* from a harness tool, offered as a file, as declarations, as a registry  *)
(* and as a document; and harnesses of every setting around a good one.    *)
EXTENDS KeiHarness

Connector ==
    [typed |-> TRUE, name |-> 1, description |-> "d", service |-> "s", source |-> "s",
     operation_class |-> "read", route |-> {"connector_binding"}, route_fields |-> "exact",
     required_capabilities |-> "fine", resource_types |-> "absent",
     enabled |-> "absent", parameters |-> "given"]

Executor ==
    [Connector EXCEPT !.name = 2, !.route = {"harness_executor"},
                      !.required_capabilities = "absent", !.operation_class = "write"]

Deviations(t) ==
    {[t EXCEPT !.typed = FALSE], [t EXCEPT !.name = 0], [t EXCEPT !.description = ""],
     [t EXCEPT !.service = ""], [t EXCEPT !.source = ""], [t EXCEPT !.operation_class = "list"],
     [t EXCEPT !.route = {}], [t EXCEPT !.route = RouteKinds],
     [t EXCEPT !.route_fields = "more"], [t EXCEPT !.route_fields = "blank"],
     [t EXCEPT !.enabled = "false"], [t EXCEPT !.parameters = "absent"]}
    \cup {[t EXCEPT !.required_capabilities = l] : l \in Lists}
    \cup {[t EXCEPT !.resource_types = l] : l \in Lists}

Documents ==
    {[form |-> f, schema |-> 3, tools |-> <<Connector>>] : f \in {"object", "text"}}
    \cup {[form |-> "object", schema |-> v, tools |-> <<>>] : v \in {2, 3}}
    \cup {[form |-> "object", schema |-> 3, tools |-> <<t, u>>] :
            t \in Deviations(Connector), u \in {Connector, Executor}}
    \cup {[form |-> "object", schema |-> 3, tools |-> <<Connector, t>>] : t \in Deviations(Executor)}

(* A tool registered twice, the second time without a route, is withdrawn. *)
Registries ==
    {Register(Register(Register(<<>>, 1, Connector), t.name, t), 1, u) :
        t \in Deviations(Executor), u \in {Connector, Unrouted}}

NoSocket == [socket |-> FALSE, own |-> FALSE, writable |-> FALSE]
Sidecar  == [socket |-> TRUE, own |-> FALSE, writable |-> FALSE]

Quiet ==
    [from |-> "file", document |-> [form |-> "object", schema |-> 3, tools |-> <<>>],
     registry |-> <<>>, url |-> "https", runtime_token |-> TRUE,
     expect_tools |-> TRUE, attempts |-> 1, absolute |-> FALSE, executables |-> {},
     secrets |-> {}, base_url |-> "remote", socket |-> NoSocket, sidecar |-> FALSE]

(* With a sidecar, and with a proxy of its own.                             *)
SidecarServed ==
    [Quiet EXCEPT !.document = [@ EXCEPT !.tools = <<Connector, Executor>>], !.attempts = 2,
                  !.sidecar = TRUE]

SelfServed == [SidecarServed EXCEPT !.sidecar = FALSE, !.executables = {"cwd"}, !.secrets = {"provider"}]

Serving ==
    {[SidecarServed EXCEPT !.base_url = "", !.socket = f] :
        f \in {Sidecar, [Sidecar EXCEPT !.writable = TRUE]}}
    \cup {[SidecarServed EXCEPT !.base_url = "loopback"], [SelfServed EXCEPT !.base_url = ""],
          [SelfServed EXCEPT !.absolute = TRUE], [SelfServed EXCEPT !.secrets = {}]}

MCSetups ==
    {[Quiet EXCEPT !.from = f, !.document = d] : f \in {"file", "specs", "document"}, d \in Documents}
    \cup {[Quiet EXCEPT !.from = "registry", !.registry = g] : g \in Registries}
    \cup {[Quiet EXCEPT !.expect_tools = FALSE], [Quiet EXCEPT !.url = "file"],
          [Quiet EXCEPT !.attempts = 0, !.document = [@ EXCEPT !.tools = <<Executor>>]]}
    \cup Serving

MCReplies ==
    {[status |-> s, sse |-> e, body |-> b] :
        s \in {200, 202, 401, 403, 500}, e \in BOOLEAN, b \in Bodies}

MCOthers == {[form |-> "object", schema |-> 3, tools |-> <<Connector>>]}

=============================================================================
