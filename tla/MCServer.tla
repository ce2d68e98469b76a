------------------------------ MODULE MCServer ------------------------------
(***************************************************************************)
(* A server with two clients, a task and one of a pod with the same name,  *)
(* whose ID begins with the other's, and an agent that registers twice.    *)
(***************************************************************************)
EXTENDS Server

App == [ID |-> "web.1", Name |-> "web", FrameworkID |-> "marathon", ExecutorID |-> "",
        ContainerIDs |-> <<"c1">>]
Pod == [ID |-> "web.10", Name |-> "web", FrameworkID |-> "marathon", ExecutorID |-> "instance",
        ContainerIDs |-> <<"c2", "c3">>]

BothTasks == {App, Pod}
JustApp == {App}
TwoAgentIDs == <<"S0", "S1">>
SandboxFiles == {"stdout", "stderr"}

\* strings.Contains among the names and the IDs below.
Fragments == {<<"web", "web.1">>, <<"web", "web.10">>, <<"web.1", "web.1">>,
              <<"web.1", "web.10">>, <<"web.10", "web.10">>}

\* A file that is read as "stdout" with a query, and one that is read as two segments.
Unescaped == ("stdout?1" :> [as |-> <<"stdout">>, ends |-> TRUE]) @@
             ("stdout%2F1" :> [as |-> <<"stdout", "1">>, ends |-> FALSE])

Input(flags, file, doc, ca, listeners, free) ==
  [parses |-> TRUE, flags |-> flags, file |-> file, doc |-> doc, caReadable |-> ca,
   listeners |-> listeners, portFree |-> free]

Agent == "role" :> "agent"

\* Those that fail: bad flags, no role, port below the range, a file without role, an
\* unknown option, a value of a wrong type, no file, no certificate, no duration, a port in
\* use.
AllStarts ==
  {Input(Agent @@ ("auth" :> TRUE), "none", NoOptions, TRUE, 1, FALSE),
   Input(("port" :> 80) @@ ("timeout" :> "0s"), "given",
         ("role" :> "agent_public") @@ ("port" :> 1024), TRUE, 2, TRUE),
   Input(("role" :> "master") @@ ("auth" :> TRUE), "none", NoOptions, TRUE, 0, TRUE),
   [Input(Agent, "none", NoOptions, TRUE, 1, TRUE) EXCEPT !.parses = FALSE],
   Input(NoOptions, "none", NoOptions, TRUE, 1, TRUE),
   Input(Agent @@ ("port" :> 80), "none", NoOptions, TRUE, 0, TRUE),
   Input(Agent, "given", "port" :> 1024, TRUE, 1, TRUE),
   Input(Agent, "given", Agent @@ ("colour" :> "red"), TRUE, 1, TRUE),
   Input(Agent, "given", Agent @@ ("auth" :> Mistyped), TRUE, 1, TRUE),
   Input(Agent, "unreadable", NoOptions, TRUE, 1, TRUE),
   Input(Agent @@ ("ca-cert" :> "ca.crt"), "none", NoOptions, FALSE, 1, TRUE),
   Input(Agent @@ ("timeout" :> "soon"), "none", NoOptions, TRUE, 1, TRUE),
   Input(Agent, "none", NoOptions, TRUE, 0, FALSE)}

Get(path, token, query, stream) ==
  [path |-> path, token |-> token, query |-> query, stream |-> stream]

Discover(suffix) == <<"v2", "task">> \o suffix
V1Container(suffix) ==
  <<"v1", "range", "framework", "marathon", "executor", "web.1", "container", "c1">> \o suffix
V2Container(suffix) ==
  <<"v2", "task", "frameworks", "marathon", "executors", "web.1", "runs", "c1">> \o suffix

AllClients == {"browser", "script"}

\* A browser that discovers tasks; a script that knows its containers, and the requests
\* that are answered at once.
AllRequests ==
  [browser |->
     {Get(Discover(<<"web">>), "good", "END", FALSE),
      Get(Discover(<<"web.1", "file", "stdout?1">>), "good", "END", FALSE),
      Get(Discover(<<"web.10", "browse">>), "good", "", FALSE),
      Get(Discover(<<"web.10", "file", "stderr", "download">>), "good", "", FALSE)},
   script |->
     {Get(V1Container(<<>>), "good", "", FALSE),
      Get(V2Container(<<"stdout">>), "good", "", TRUE),
      Get(V2Container(<<"stdout">>), "malformed", "garbled", FALSE),
      Get(V1Container(<<"download">>), "none", "", FALSE),
      Get(Discover(<<"web", "stdout">>), "good", "", FALSE),
      Get(<<"v1", "fields", "AGENT_ID">>, "none", "", FALSE)}]

\* One client on an agent, for the run about what an ID stands for.
OneStart == {Input(Agent, "none", NoOptions, TRUE, 1, TRUE)}
OneClient == {"browser"}
OneAgentID == <<"S0">>
IDRequests ==
  [browser |-> {Get(Discover(<<"web.1">>), "good", "", FALSE),
                Get(Discover(<<"web.1", "file", "stdout%2F1">>), "good", "", FALSE)}]
=============================================================================
