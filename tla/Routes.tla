------------------------------- MODULE Routes -------------------------------
(***************************************************************************)
(* The paths of dcos-log: the routing tables of both APIs, the redirects   *)
(* of v2's discovery and the directories of the agent they lead to.  A     *)
(* path is the sequence of its segments; an empty last segment is a        *)
(* trailing slash.                                                         *)
(***************************************************************************)
EXTENDS Naturals, Sequences, SequencesExt

\* What becomes of a segment with "?", "#" or "%" in it that is written into a URL as it is:
\* `as' are the segments it is read back as, and it `ends' the path if what is behind it is
\* taken for the query or for a fragment (which then sets no option).
CONSTANT Misread

Words == {"system", "v1", "agent", "logs", "v2", "task", "frameworks", "executors", "runs",
          "tasks", "files", "browse", "download", "stdout"}

ASSUME MisreadAssumption ==
  /\ \A s \in DOMAIN Misread :
       /\ Misread[s].as \in Seq(STRING) /\ Misread[s].as # <<>>
       /\ Misread[s].ends \in BOOLEAN
  /\ Words \cap DOMAIN Misread = {}

\* A variable of a template stands for one segment that is not empty.
V1Vars == {"{framework_id}", "{executor_id}", "{container_id}", "{field}"}
V2Vars == {"{frameworkID}", "{executorID}", "{containerID}", "{taskPath}", "{file}",
           "{taskID}", "{name}"}

To(path, handler) == [path |-> path, handler |-> handler, guarded |-> FALSE]
Guarded(path, handler) == [path |-> path, handler |-> handler, guarded |-> TRUE]

-----------------------------------------------------------------------------
\* v1: the routes of a container's entries go through Auth if it is configured.

Container ==
  <<"framework", "{framework_id}", "executor", "{executor_id}", "container",
    "{container_id}">>

V1Routes ==
  LET Ranges == <<"v1", "range">>
      Streams == <<"v1", "stream">>
      journal == "readJournalHandler"
  IN  <<To(Ranges \o <<"">>, journal),
        Guarded(Ranges \o Container, journal),
        To(Ranges \o <<"download">>, journal),
        Guarded(Ranges \o Container \o <<"download">>, journal),
        To(Streams \o <<"">>, journal),
        Guarded(Streams \o Container, journal),
        To(<<"v1", "fields", "{field}">>, "fieldHandler")>>

-----------------------------------------------------------------------------
\* v2: every handler is Wrapped, none is behind Auth.

TaskPath ==
  <<"v2", "task", "frameworks", "{frameworkID}", "executors", "{executorID}", "runs",
    "{containerID}">>
PodPath == TaskPath \o <<"tasks", "{taskPath}">>
DiscoverPath == <<"v2", "task", "{taskID}">>
ComponentPath == <<"v2", "component">>

V2Routes ==
  <<To(TaskPath \o <<"files", "browse">>, "browseFiles"),
    To(PodPath \o <<"files", "browse">>, "browseFiles"),
    To(TaskPath \o <<"{file}">>, "filesAPIHandler"),
    To(PodPath \o <<"{file}">>, "filesAPIHandler"),
    To(DiscoverPath, "discoverHandler"),
    To(DiscoverPath \o <<"file", "{file}">>, "discoverHandler"),
    To(DiscoverPath \o <<"browse">>, "browseHandler"),
    To(DiscoverPath \o <<"download">>, "downloadHandler"),
    To(DiscoverPath \o <<"file", "{file}", "download">>, "downloadHandler"),
    To(ComponentPath, "journalHandler"),
    To(ComponentPath \o <<"{name}">>, "journalHandler"),
    To(TaskPath \o <<"{file}", "download">>, "downloadFile"),
    To(PodPath \o <<"{file}", "download">>, "downloadFile")>>

-----------------------------------------------------------------------------
\* gorilla/mux: the first route whose template matches.

Table == V1Routes \o V2Routes

IsVar(segment) == segment \in V1Vars \cup V2Vars

Matches(template, path) ==
  /\ Len(template) = Len(path)
  /\ \A i \in DOMAIN path :
       IF IsVar(template[i]) THEN path[i] # "" ELSE path[i] = template[i]

\* mux.Vars of a request: a variable that the route does not have reads as "".
VarsOf(template, path) ==
  [v \in V1Vars \cup V2Vars |->
     LET i == SelectInSeq(template, LAMBDA s : s = v) IN IF i = 0 THEN "" ELSE path[i]]

\* What a handler learns of its request's path.
RouteOf(path) ==
  LET i == SelectInSeq(Table, LAMBDA r : Matches(r.path, path))
      route == IF i = 0 THEN To(<<>>, "NotFound") ELSE Table[i]
  IN  [handler |-> route.handler, guarded |-> route.guarded,
       vars |-> VarsOf(route.path, path)]

-----------------------------------------------------------------------------
\* Redirects.  A CanonicalTaskID has the fields ID, AgentID, FrameworkID, ExecutorID
\* ("" unless the task belongs to a pod) and ContainerIDs, from the task's container to
\* the executor's.

\* Mutant of PodSuffix: the sandbox of the pod's executor.
NoPodSuffix(id) == <<>>

PodSuffix(id) == IF id.ExecutorID # "" THEN <<"tasks", id.ID>> ELSE <<>>

\* What discoverHandler, browseHandler and downloadHandler append.
ViewSuffix(handler, file) ==
  CASE handler = "browseHandler"   -> <<"files", "browse">>
    [] handler = "discoverHandler" -> <<file>>
    [] handler = "downloadHandler" -> <<file, "download">>

\* The variables, which mux has decoded, are joined as they are.  mux has cleaned the path
\* they come from, so that path.Join finds no "/", "." or ".." in them.
RedirectURL(id, handler, file) ==
  <<"system", "v1", "agent", id.AgentID, "logs", "v2", "task",
    "frameworks", id.FrameworkID,
    "executors", IF id.ExecutorID # "" THEN id.ExecutorID ELSE id.ID,
    "runs", Last(id.ContainerIDs)>> \o PodSuffix(id) \o ViewSuffix(handler, file)

\* Admin Router sends /system/v1/agent/<id>/logs/... to the dcos-log of that agent.
RedirectAgent(url) == url[4]
Written(url) == SubSeq(url, 6, Len(url))

EndsPath(segment) == segment \in DOMAIN Misread /\ Misread[segment].ends
Cut(url) == \E i \in DOMAIN url : EndsPath(url[i])

\* The path of a URL, as its reader finds it: up to the first segment that ends it, with
\* escapes decoded.
Parsed(path) ==
  IF ToSet(path) \cap DOMAIN Misread = {} THEN path
  ELSE LET kept == IF Cut(path) THEN SubSeq(path, 1, SelectInSeq(path, EndsPath)) ELSE path
       IN  FlattenSeq([i \in DOMAIN kept |->
             IF kept[i] \in DOMAIN Misread THEN Misread[kept[i]].as ELSE <<kept[i]>>])

RedirectPath(url) == Parsed(Written(url))

-----------------------------------------------------------------------------
\* Directories of the agent, below /var/lib/mesos/slave.

RunPath(agentID, framework, executor, container) ==
  <<"slaves", agentID, "frameworks", framework, "executors", executor, "runs", container>>

\* NewLineReader's sandboxPath.
SandboxPath(agentID, v) ==
  RunPath(agentID, v["{frameworkID}"], v["{executorID}"], v["{containerID}"])
    \o IF v["{taskPath}"] # "" THEN <<"tasks", v["{taskPath}"]>> ELSE <<>>

\* The directory Auth tries to browse.
AuthPath(agentID, v) ==
  RunPath(agentID, v["{framework_id}"], v["{executor_id}"], v["{container_id}"])
=============================================================================
