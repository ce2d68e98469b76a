------------------------------- MODULE Server -------------------------------
(***************************************************************************)
(* dcos-log as a whole: it starts from a configuration, routes concurrent  *)
(* requests through the middleware to the handlers, and the handlers ask   *)
(* mesos and the agent of their node.  Requests share one nodeutil.NodeInfo *)
(* with its mutex and its caches.                                          *)
(*                                                                         *)
(* A handler is the sequence `todo' of the calls it still has to make; a   *)
(* call is one step, or two where it blocks with the mutex held.  What a   *)
(* reader does once it has been set up is in FilesReader and JournalReader. *)
(***************************************************************************)
EXTENDS Config, Routes, FiniteSets

CONSTANTS
  Starts,      \* inputs of NewConfig, with the fields caReadable, listeners, portFree
  Clients,     \* each makes one request and may follow its redirect
  Requests,    \* what each client may ask for
  Tasks,       \* the tasks mesos knows at some time
  Started,     \* those of them that run before dcos-log does
  PartOf,      \* the names that occur in the IDs of tasks: pairs of a name and an ID
  AgentIDs,    \* the IDs under which the agent registers, one after the other
  Files        \* the files in every sandbox

Nobody == "nobody"
Request == [path : Seq(STRING), token : {"good", "malformed", "none"},
            query : {"", "END", "garbled"}, stream : BOOLEAN]
Task == [ID : STRING, Name : STRING, FrameworkID : STRING, ExecutorID : STRING,
         ContainerIDs : Seq(STRING)]

\* No client is nobody.  A task has an ID of its own, which occurs in itself, and a container
\* one executor.  The IDs that mesos makes of agents need no escapes.
ASSUME ServerAssumption ==
  /\ Nobody \notin Clients
  /\ Requests \in [Clients -> SUBSET Request]
  /\ Tasks \subseteq Task /\ IsFiniteSet(Tasks)
  /\ \A t, u \in Tasks :
       /\ t.ID = u.ID => t = u
       /\ Last(t.ContainerIDs) = Last(u.ContainerIDs) => t.ExecutorID = u.ExecutorID
  /\ Started \subseteq Tasks
  /\ \A t \in Tasks : <<t.ID, t.ID>> \in PartOf
  /\ AgentIDs \in Seq(STRING) /\ AgentIDs # <<>>
  /\ ToSet(AgentIDs) \cap DOMAIN Misread = {}

VARIABLES
  phase,       \* "starting", "serving" or "exited"
  cfg,         \* the effective configuration
  listen,      \* "nowhere", "socket" (passed by systemd) or "port" (of cfg)
  reg,         \* the agent's registration: an index of AgentIDs
  task,        \* the mesos state: status and agent of every task
  granted,     \* whether mesos and the agent accept the clients' token
  cachedIP,    \* NodeInfo: detect_ip has succeeded
  cachedID,    \* NodeInfo: cachedMesosID, "" if unset
  mutex,       \* NodeInfo: who holds the mutex across a step
  conn,        \* what each client asked for, its handler's calls and its answer
  seen         \* history of each client's request, read by the properties only

env == <<reg, task, granted>>
server == <<phase, cfg, listen>>
cache == <<cachedIP, cachedID, mutex>>
vars == <<server, env, cache, conn, seen>>

NoRequest == [path |-> <<>>, token |-> "", query |-> "", stream |-> FALSE]
NoRoute == RouteOf(<<>>)
NoAnswer == [code |-> 0, body |-> <<>>]
AgentID == AgentIDs[reg]

Discovers(route) ==
  route.handler \in {"discoverHandler", "browseHandler", "downloadHandler"}
Busy(c) == conn[c].todo # <<>>
Answered(c) == conn[c].ans.code # 0

-----------------------------------------------------------------------------
\* Mesos and the agent.

\* findTask: those called so and those with the name anywhere in their ID.
Matching(name) == {t \in Tasks : t.Name = name \/ <<name, t.ID>> \in PartOf}
Active == {"staging", "running"}
FoundTasks(name, completed, tasks) ==
  {t \in Matching(name) :
     tasks[t].status \in IF completed THEN {"completed"} ELSE Active}

\* A task that is being staged has no container yet.
HasContainer(tasks, t) == tasks[t].status \in {"running", "completed"}

Canonical(t) ==
  [ID |-> t.ID, AgentID |-> task[t].agent, FrameworkID |-> t.FrameworkID,
   ExecutorID |-> t.ExecutorID, ContainerIDs |-> t.ContainerIDs]

\* The layout of the agent's work directory: a task without executor ID runs in a command
\* executor of its own, the tasks of a pod have directories below their executor's.
ExecutorDir(t) ==
  RunPath(task[t].agent, t.FrameworkID, IF t.ExecutorID = "" THEN t.ID ELSE t.ExecutorID,
          t.ContainerIDs[Len(t.ContainerIDs)])
TaskDir(t) == ExecutorDir(t) \o IF t.ExecutorID = "" THEN <<>> ELSE <<"tasks", t.ID>>

Dirs ==
  LET launched == {t \in Tasks : HasContainer(task, t)}
  IN  {ExecutorDir(t) : t \in launched} \cup {TaskDir(t) : t \in launched}

OnDisk(path) == path \in Dirs \/ (Front(path) \in Dirs /\ Last(path) \in Files)

AgentCode(path) ==
  IF ~granted THEN 401 ELSE IF OnDisk(path) THEN 200 ELSE 404

-----------------------------------------------------------------------------
\* What the properties remember of a request.

\* The task that a name finds: the only one that is active, or else the only completed one.
Designated(name, tasks) ==
  LET active == FoundTasks(name, FALSE, tasks)
      completed == FoundTasks(name, TRUE, tasks)
  IN  IF active # {}
      THEN IF Cardinality(active) = 1 THEN {t \in active : HasContainer(tasks, t)} ELSE {}
      ELSE IF Cardinality(completed) = 1 THEN completed ELSE {}

\* The directory or file a request for a sandbox means while the agent is registered as id.
Asked(route, id) ==
  CASE route.handler = "browseFiles" -> SandboxPath(id, route.vars)
    [] route.handler \in {"filesAPIHandler", "downloadFile"} ->
         Append(SandboxPath(id, route.vars), route.vars["{file}"])
    [] route.guarded -> AuthPath(id, route.vars)
    [] OTHER -> <<>>

\* first: where the client's first request went; clean: no call failed, mesos knew the
\* node and the token was accepted all along; allowed: the token was accepted at some time
\* since the request arrived; targets: what the name in it found since then; there: what it
\* asks for was on the agent's disk when it arrived.
Noticed(r, route, first) ==
  [first |-> first,
   clean |-> granted /\ r.token = "good" /\ r.query # "garbled",
   allowed |-> granted,
   targets |-> IF Discovers(route) THEN {Designated(route.vars["{taskID}"], task)} ELSE {},
   there |-> Asked(route, AgentID) # <<>> /\ OnDisk(Asked(route, AgentID))]

Nothing == [first |-> NoRoute, clean |-> FALSE, allowed |-> FALSE, targets |-> {},
            there |-> FALSE]

\* The environment has changed under the requests in flight.
Observe ==
  seen' = [c \in Clients |->
    IF ~Busy(c) THEN seen[c]
    ELSE [seen[c] EXCEPT
            !.clean = @ /\ granted',
            !.targets = IF Discovers(conn[c].route)
                        THEN @ \cup {Designated(conn[c].route.vars["{taskID}"], task')}
                        ELSE @]]

Failed(c) == seen' = [seen EXCEPT ![c].clean = FALSE]

-----------------------------------------------------------------------------
Init ==
  /\ phase = "starting" /\ cfg = Defaults /\ listen = "nowhere"
  /\ reg = 1 /\ granted = TRUE
  /\ task = [t \in Tasks |-> IF t \in Started
                             THEN [status |-> "running", agent |-> AgentID]
                             ELSE [status |-> "unknown", agent |-> ""]]
  /\ cachedIP = FALSE /\ cachedID = "" /\ mutex = Nobody
  /\ conn = [c \in Clients |-> [req |-> NoRequest, route |-> NoRoute, todo |-> <<>>,
                                node |-> "", ans |-> NoAnswer]]
  /\ seen = [c \in Clients |-> Nothing]

-----------------------------------------------------------------------------
\* The environment.

ReRegister ==
  /\ reg < Len(AgentIDs)
  /\ \A t \in Tasks : task[t].status \notin Active
  /\ reg' = reg + 1
  /\ UNCHANGED <<server, task, granted, cache, conn>>
  /\ Observe

TaskChanges(t, from, to, agent) ==
  /\ task[t].status = from
  /\ task' = [task EXCEPT ![t] = [status |-> to, agent |-> agent]]
  /\ granted' = granted
  /\ Observe
  /\ UNCHANGED <<server, reg, cache, conn>>

Launch(t) == TaskChanges(t, "unknown", "staging", AgentID)
Run(t) == TaskChanges(t, "staging", "running", task[t].agent)
Complete(t) == TaskChanges(t, "running", "completed", task[t].agent)

\* The clients' token is revoked or expires.
Revoke ==
  /\ granted
  /\ granted' = FALSE
  /\ task' = task
  /\ Observe
  /\ UNCHANGED <<server, reg, cache, conn>>

-----------------------------------------------------------------------------
\* main and StartServer.

\* time.ParseDuration, in seconds; other strings are refused.
Durations == ("5s" :> 5) @@ ("0s" :> 0)

Starting(in) ==
  /\ Loads(in)
  /\ Effective(in)["ca-cert"] # "" => in.caReadable
  /\ Effective(in)["timeout"] \in DOMAIN Durations
  /\ Effective(in)["role"] \in Roles
  /\ in.listeners # 1 => in.portFree

StartServer(in) ==
  /\ phase = "starting"
  /\ Starting(in)
  /\ phase' = "serving"
  /\ cfg' = Effective(in)
  /\ listen' = IF in.listeners = 1 THEN "socket" ELSE "port"
  /\ UNCHANGED <<env, cache, conn, seen>>

StartFails(in) ==
  /\ phase = "starting"
  /\ ~Starting(in)
  /\ phase' = "exited"
  /\ UNCHANGED <<cfg, listen, env, cache, conn, seen>>

-----------------------------------------------------------------------------
\* A request arrives and its handler returns at once or starts its calls.

\* Mutant of Lookups.
CompletedFirst == <<"Completed", "Running">>

\* discover tries the running tasks before the completed ones.
Lookups == <<"Running", "Completed">>

AuthCalls == <<"DetectIP", "MesosID", "Authorize">>
ReaderCalls == <<"MesosID", "DetectIP">>

\* OptReadFromEnd asks for the file's length.
SizeCall(r) == IF r.query = "END" THEN <<"Size">> ELSE <<>>

Calls(r, route) ==
  LET h == route.handler
  IN  CASE h \in {"readJournalHandler", "journalHandler"} ->
             (IF route.guarded /\ cfg["auth"] THEN AuthCalls ELSE <<>>) \o <<"Journal">>
        [] h = "fieldHandler" -> <<"Field">>
        [] Discovers(route) -> Lookups
        [] h = "filesAPIHandler" -> ReaderCalls \o SizeCall(r) \o <<"Read">>
        [] h = "browseFiles" -> Append(ReaderCalls, "Browse")
        [] h = "downloadFile" -> Append(ReaderCalls, "Download")
        [] OTHER -> <<>>

\* GetAuthFromRequest finds a token; Wrapped then puts it in the request's context.
HasToken(r) == r.token = "good"

\* Journals are read without a token unless Auth is configured for the route.
NeedsToken(calls) == \E i \in DOMAIN calls : calls[i] \notin {"Journal", "Field"}

\* buildOpts comes before the token is looked for; 0: no early return.
EarlyReturn(r, route) ==
  CASE route.handler = "NotFound" -> 404
    [] route.handler = "filesAPIHandler" /\ r.query = "garbled" -> 400
    [] NeedsToken(Calls(r, route)) /\ ~HasToken(r) -> 401
    [] OTHER -> 0

\* Mutant of Pending: no return behind the early errors.
PendingAnyway(r, route) == Calls(r, route)

Pending(r, route) == IF EarlyReturn(r, route) = 0 THEN Calls(r, route) ELSE <<>>

ServeHTTP(c, r, route, first) ==
  /\ conn' = [conn EXCEPT ![c] =
       [req |-> r, route |-> route, node |-> "",
        todo |-> Pending(r, route),
        ans |-> [code |-> EarlyReturn(r, route), body |-> <<>>]]]
  /\ seen' = [seen EXCEPT ![c] = Noticed(r, route, first)]
  /\ UNCHANGED <<server, env, cache>>

Arrive(c, r) ==
  /\ phase = "serving"
  /\ conn[c].req = NoRequest
  /\ ServeHTTP(c, r, RouteOf(r.path), RouteOf(r.path))

\* The request for a redirect's URL.  Its query is the one redirectURL appended, unless that
\* has become part of another.
Redirection(r, url) ==
  [r EXCEPT !.path = RedirectPath(url), !.query = IF Cut(url) THEN "" ELSE @]

\* The client follows a redirect to this node, whose agent has the ID in it.
Follow(c) ==
  /\ conn[c].ans.code = 303
  /\ cfg["role"] # "master"
  /\ RedirectAgent(conn[c].ans.body) = AgentID
  /\ LET r == Redirection(conn[c].req, conn[c].ans.body)
     IN  ServeHTTP(c, r, RouteOf(r.path), seen[c].first)

-----------------------------------------------------------------------------
\* The calls of a handler.

Calling(c, call) == Busy(c) /\ Head(conn[c].todo) = call

\* The call returns and its handler goes on with `rest'.
Proceed(c, rest) == conn' = [conn EXCEPT ![c].todo = rest]
Rest(c) == Tail(conn[c].todo)

Answer(c, code, body) ==
  conn' = [conn EXCEPT ![c].todo = <<>>, ![c].node = "",
                       ![c].ans = [code |-> code, body |-> body]]

\* NodeInfo.MesosID looks into its cache.
MesosIDHit(c) ==
  /\ Calling(c, "MesosID")
  /\ mutex = Nobody
  /\ cachedID # ""
  /\ conn' = [conn EXCEPT ![c].todo = Tail(@), ![c].node = cachedID]
  /\ UNCHANGED <<server, env, cache, seen>>

\* Mutant of MesosIDMiss: the mutex is kept.
MesosIDMissLocked(c) ==
  /\ Calling(c, "MesosID")
  /\ mutex = Nobody
  /\ cachedID = ""
  /\ mutex' = c
  /\ Proceed(c, <<"DetectIP", "State", "Store">> \o Rest(c))
  /\ UNCHANGED <<server, env, cachedIP, cachedID, seen>>

\* It unlocks the mutex before it asks for the IP and the state.
MesosIDMiss(c) ==
  /\ Calling(c, "MesosID")
  /\ mutex = Nobody
  /\ cachedID = ""
  /\ Proceed(c, <<"DetectIP", "State", "Store">> \o Rest(c))
  /\ UNCHANGED <<server, env, cache, seen>>

DetectIPHit(c) ==
  /\ Calling(c, "DetectIP")
  /\ mutex = Nobody
  /\ cachedIP
  /\ Proceed(c, Rest(c))
  /\ UNCHANGED <<server, env, cache, seen>>

\* The script runs with the mutex locked.
DetectIPRun(c) ==
  /\ Calling(c, "DetectIP")
  /\ mutex = Nobody
  /\ ~cachedIP
  /\ mutex' = c
  /\ Proceed(c, <<"Script">> \o Rest(c))
  /\ UNCHANGED <<server, env, cachedIP, cachedID, seen>>

ScriptDone(c) ==
  /\ Calling(c, "Script")
  /\ cachedIP' = TRUE
  /\ mutex' = Nobody
  /\ Proceed(c, Rest(c))
  /\ UNCHANGED <<server, env, cachedID, seen>>

\* Mutant of ScriptFails: the mutex is unlocked behind the script only.
ScriptFailsLocked(c) ==
  /\ Calling(c, "Script")
  /\ Answer(c, 500, <<>>)
  /\ Failed(c)
  /\ UNCHANGED <<server, env, cache>>

\* It is missing, fails, prints no address or runs into its timeout.
ScriptFails(c) ==
  /\ Calling(c, "Script")
  /\ mutex' = Nobody
  /\ Answer(c, 500, <<>>)
  /\ Failed(c)
  /\ UNCHANGED <<server, env, cachedIP, cachedID>>

MasterID == "leader"

\* What the state of mesos may say: the master's own ID and its agents in their order, by
\* where the address in their pid is; the node's agent may be missing, and a pid garbled.
Slave(pid, id) == [pid |-> pid, id |-> id]
States ==
  {[id |-> MasterID, slaves |-> <<Slave("there", "other"), Slave("here", AgentID)>>],
   [id |-> MasterID, slaves |-> <<Slave("garbled", "other"), Slave("here", AgentID)>>],
   [id |-> "", slaves |-> <<Slave("there", "other")>>]}

\* Mutant of LocalSlave: addresses are not compared.
FirstSlave(slaves) == slaves[1].id

\* The ID of the node's agent, unless a garbled pid comes before it; "" is an error.
LocalSlave(slaves) ==
  LET i == SelectInSeq(slaves, LAMBDA s : s.pid # "there")
  IN  IF i # 0 /\ slaves[i].pid = "here" THEN slaves[i].id ELSE ""

NodeID(state) == IF cfg["role"] = "master" THEN state.id ELSE LocalSlave(state.slaves)

\* MesosID gets the state and looks for the node in it.
StateFound(c, state) ==
  /\ granted
  /\ NodeID(state) # ""
  /\ conn' = [conn EXCEPT ![c].todo = Tail(@), ![c].node = NodeID(state)]
  /\ seen' = seen

NodeMissing(c, state) ==
  /\ granted
  /\ NodeID(state) = ""
  /\ Answer(c, 500, <<>>)
  /\ Failed(c)

\* Mesos refuses its state to a token it does not accept.
StateRefused(c) ==
  /\ ~granted
  /\ Answer(c, 500, <<>>)
  /\ seen' = seen

FetchState(c) ==
  /\ Calling(c, "State")
  /\ \/ \E state \in States : StateFound(c, state) \/ NodeMissing(c, state)
     \/ StateRefused(c)
  /\ UNCHANGED <<server, env, cache>>

Store(c) ==
  /\ Calling(c, "Store")
  /\ mutex = Nobody
  /\ cachedID' = conn[c].node
  /\ Proceed(c, Rest(c))
  /\ UNCHANGED <<server, env, cachedIP, mutex, seen>>

FileOf(route) == IF route.vars["{file}"] = "" THEN "stdout" ELSE route.vars["{file}"]

\* discover: TaskCanonicalID must find one task, with a container.
LookUp(c) ==
  \E call \in {"Running", "Completed"} :
    /\ Calling(c, call)
    /\ LET found == FoundTasks(conn[c].route.vars["{taskID}"], call = "Completed", task)
       IN  IF granted /\ Cardinality(found) = 1 /\ \A t \in found : HasContainer(task, t)
           THEN \E t \in found :
                  Answer(c, 303, RedirectURL(Canonical(t), conn[c].route.handler,
                                             FileOf(conn[c].route)))
           ELSE IF Rest(c) # <<>> THEN Proceed(c, Rest(c)) ELSE Answer(c, 500, <<>>)
    /\ UNCHANGED <<server, env, cache, seen>>

\* Mutant of PassesAuth: any answer will do.
PassesAny(code) == TRUE

PassesAuth(code) == code = 200

\* On a master getSandboxURL chooses the master's port, and the master knows no sandbox.
AuthCode(path) == IF cfg["role"] = "master" /\ granted THEN 404 ELSE AgentCode(path)

\* Auth browses the sandbox with the client's token; the code of a refusal is passed on.
Authorize(c) ==
  /\ Calling(c, "Authorize")
  /\ \E code \in {AuthCode(AuthPath(conn[c].node, conn[c].route.vars))} :
       IF PassesAuth(code) THEN Proceed(c, Rest(c)) ELSE Answer(c, code, <<>>)
  /\ UNCHANGED <<server, env, cache, seen>>

Target(c) == Asked(conn[c].route, conn[c].node)

\* The agent, if there is one, is asked for the target and answers with `code'.
AtAgent(c, call, code) ==
  /\ Calling(c, call)
  /\ cfg["role"] # "master"
  /\ code = AgentCode(Target(c))

\* A missing file found out in set-up is 204, in reading 404; other codes are errors.
Size(c) ==
  /\ \/ AtAgent(c, "Size", 200) /\ Proceed(c, Rest(c))
     \/ AtAgent(c, "Size", 404) /\ Answer(c, 204, <<>>)
     \/ AtAgent(c, "Size", 401) /\ Answer(c, 500, <<>>)
  /\ UNCHANGED <<server, env, cache, seen>>

\* A stream has sent its header before it reads.
Read(c) ==
  /\ \/ AtAgent(c, "Read", 200) /\ Answer(c, 200, Target(c))
     \/ AtAgent(c, "Read", 404) /\ Answer(c, IF conn[c].req.stream THEN 200 ELSE 404, <<>>)
     \/ AtAgent(c, "Read", 401) /\ Answer(c, IF conn[c].req.stream THEN 200 ELSE 500, <<>>)
  /\ UNCHANGED <<server, env, cache, seen>>

\* BrowseSandbox decodes whatever it gets, and a refusal is no list of files.
Undecodable == {401, 404}

Browse(c) ==
  /\ \/ AtAgent(c, "Browse", 200) /\ Answer(c, 200, Target(c))
     \/ \E code \in Undecodable : AtAgent(c, "Browse", code) /\ Answer(c, 500, <<>>)
  /\ UNCHANGED <<server, env, cache, seen>>

\* The codes of the responses that ReadManager.Download returns without an error.
Downloaded == {200, 401, 404}

\* downloadFile copies the agent's headers and body, not its code.
Download(c) ==
  /\ \E code \in Downloaded :
       /\ AtAgent(c, "Download", code)
       /\ Answer(c, 200, IF code = 200 THEN Target(c) ELSE <<>>)
  /\ UNCHANGED <<server, env, cache, seen>>

\* The agent or mesos is not reached or the client's timeout expires.
CallFails(c) ==
  /\ \E call \in {"State", "Running", "Completed", "Authorize", "Size", "Read", "Browse",
                  "Download"} : Calling(c, call)
  /\ CASE Calling(c, "Running") /\ Rest(c) # <<>> -> Proceed(c, Rest(c))
       [] Calling(c, "Read") /\ conn[c].req.stream -> Answer(c, 200, <<>>)
       [] OTHER -> Answer(c, 500, <<>>)
  /\ Failed(c)
  /\ UNCHANGED <<server, env, cache>>

\* JournalReader takes over: the entries of a container, or of the node.
Journal(c) ==
  /\ Calling(c, "Journal")
  /\ Answer(c, 200, <<"journal", conn[c].route.vars["{container_id}"]>>)
  /\ UNCHANGED <<server, env, cache, seen>>

AllowedFields == {"FRAMEWORK_ID", "AGENT_ID", "EXECUTOR_ID", "CONTAINER_ID", "STREAM"}

\* Refused fields and errors of the journal are 400, a field without values 204.
Field(c) ==
  /\ Calling(c, "Field")
  /\ \/ Answer(c, 400, <<>>)
     \/ /\ conn[c].route.vars["{field}"] \in AllowedFields
        /\ \E code \in {200, 204} : Answer(c, code, <<>>)
  /\ UNCHANGED <<server, env, cache, seen>>

-----------------------------------------------------------------------------
\* Calls that return by themselves, and those that wait for mesos or the agent.
Local(c) ==
  \/ MesosIDHit(c) \/ MesosIDMiss(c) \/ DetectIPHit(c) \/ DetectIPRun(c)
  \/ ScriptDone(c) \/ ScriptFails(c) \/ Store(c) \/ Journal(c) \/ Field(c)

Remote(c) ==
  \/ FetchState(c) \/ LookUp(c) \/ Authorize(c) \/ Size(c) \/ Read(c) \/ Browse(c)
  \/ Download(c) \/ CallFails(c)

Environment ==
  \/ ReRegister
  \/ Revoke
  \/ \E t \in Tasks : Launch(t) \/ Run(t) \/ Complete(t)

Next ==
  \/ \E in \in Starts : StartServer(in) \/ StartFails(in)
  \/ Environment
  \/ \E c \in Clients :
       \/ \E r \in Requests[c] : Arrive(c, r)
       \/ Follow(c)
       \/ Local(c)
       \/ Remote(c)

Spec == Init /\ [][Next]_vars

\* http.Client's Timeout ends a call unless it is zero.  Whatever it is, setupFilesAPIReader
\* ends MesosID after five seconds, and ReadManager each of its reads after three.
Bounded(c) ==
  \/ Durations[cfg["timeout"]] > 0
  \/ Calling(c, "State") /\ "Authorize" \notin {conn[c].todo[i] : i \in DOMAIN conn[c].todo}
  \/ Calling(c, "Size") \/ Calling(c, "Read")

LiveSpec ==
  /\ Spec
  /\ \A c \in Clients : WF_vars(Busy(c) /\ (Local(c) \/ (Bounded(c) /\ Remote(c))))

-----------------------------------------------------------------------------
\* Properties.

Code == {0, 200, 204, 303, 400, 401, 404, 500}

\* Every variable has its type, and a handler that has answered makes no more calls: every
\* http.Error and logError is followed by a return.
TypeOK ==
  /\ phase \in {"starting", "serving", "exited"}
  /\ listen \in {"nowhere", "socket", "port"}
  /\ reg \in DOMAIN AgentIDs
  /\ \A t \in Tasks :
       /\ task[t].status \in Active \cup {"unknown", "completed"}
       /\ task[t].agent \in ToSet(AgentIDs) \cup {""}
  /\ {granted, cachedIP} \subseteq BOOLEAN
  /\ cachedID \in ToSet(AgentIDs) \cup {"", "other", MasterID}
  /\ mutex \in Clients \cup {Nobody}
  /\ \A c \in Clients :
       /\ conn[c].ans.code \in Code
       /\ Busy(c) => ~Answered(c) /\ conn[c].req # NoRequest

\* A server that answers has a role the schema knows and listens on the socket systemd
\* passed or on a port the schema allows, wherever the options came from
\* (config.go:88-136, server.go:42-88).
ServesValid ==
  (\E c \in Clients : conn[c].req # NoRequest) =>
    /\ phase = "serving"
    /\ cfg["role"] \in Roles
    /\ listen = "socket" \/ (listen = "port" /\ cfg["port"] \in Ports)

\* Where authorization is configured, and in v2 always, a client sees a task's log only if
\* its token was accepted at some time since the request arrived: what NodeInfo caches
\* with one client's token opens nothing to another's (auth.go:72-142).
TaskAuthorised ==
  \A c \in Clients :
    /\ conn[c].ans.code = 200 /\ conn[c].ans.body # <<>>
    /\ conn[c].route.guarded => cfg["auth"]
    /\ Asked(conn[c].route, AgentID) # <<>>
    => seen[c].allowed /\ conn[c].req.token = "good"

\* Discovery is right at some moment between request and answer, although it looks at two
\* states of mesos: if all the time there was one task that the name finds, running or else
\* completed, the client is sent to it (handlers.go:411-449 of v2).  A name finds every task
\* that is called so and every task with the name anywhere in its ID (util.go:401 of nodeutil).
DiscoversRight ==
  \A c \in Clients :
    /\ Answered(c) /\ Discovers(conn[c].route)
    /\ seen[c].clean /\ {} \notin seen[c].targets
    => /\ conn[c].ans.code = 303
       /\ \E target \in seen[c].targets : \E t \in target :
            conn[c].ans.body = RedirectURL(Canonical(t), conn[c].route.handler,
                                           FileOf(conn[c].route))

\* No segment of a redirect for this request is read back as something else.
Legible(first) ==
  /\ FileOf(first) \notin DOMAIN Misread
  /\ \A t \in Matching(first.vars["{taskID}"]) :
       {t.ID, t.FrameworkID, t.ExecutorID, Last(t.ContainerIDs)} \cap DOMAIN Misread = {}

\* The file or the directory of t that a request to discover it asks for.
ViewOf(t, first) ==
  IF first.handler = "browseHandler" THEN TaskDir(t) ELSE Append(TaskDir(t), FileOf(first))

\* The client has discovered something and been shown something.
Shows(c) ==
  Discovers(seen[c].first) /\ conn[c].ans.code = 200 /\ conn[c].ans.body # <<>>

\* A client that follows the redirect gets the file or the directory it asked for, of a
\* task that its name finds, or nothing: also with a cached mesos ID that is out of date.
\* It is so where no segment needed an escape; which of several tasks with the name in
\* their IDs it is, GivenTask is about (handlers.go:338-374 of v2, routes.go:13-58 of v2,
\* read.go:67-84 of the reader).
RightSandbox ==
  \A c \in Clients :
    Shows(c) /\ Legible(seen[c].first) =>
      \E t \in Matching(seen[c].first.vars["{taskID}"]) :
        conn[c].ans.body = ViewOf(t, seen[c].first)

\* What /v2/task/<task-id> shows is the log of the task with this ID: the API's description
\* has no other (swagger.yml:224-227).  findTask takes the ID for a part of one.
GivenTask ==
  \A c \in Clients :
    Shows(c) /\ Legible(seen[c].first) =>
      \A t \in Tasks :
        t.ID = seen[c].first.vars["{taskID}"] => conn[c].ans.body = ViewOf(t, seen[c].first)

\* What was on the node's disk when it was asked for is served to a client whose token is
\* good, whoever filled the caches, as long as no call fails, mesos lists the node's agent
\* whenever it is asked for its state and the agent keeps the ID it was started with
\* (auth.go:98-137, handlers.go:113-141 of v2).
FoundIfThere ==
  \A c \in Clients :
    /\ Answered(c) /\ seen[c].clean /\ seen[c].there
    /\ reg = 1 /\ cfg["role"] # "master"
    => conn[c].ans.code = 200 /\ conn[c].ans.body # <<>>

\* Between two steps the mutex that all requests share is held for as long as detect_ip runs
\* and no longer (the caches are read and written in one step): one script runs at a time,
\* and who waits for the mutex waits for a script, which has a timeout of its own, and
\* neither for mesos nor for another who waits (util.go:157-208 and 250-303 of nodeutil).
LockedForScript == \A c \in Clients : mutex = c <=> Calling(c, "Script")

\* Every request is answered if the configured timeout is not zero, and a request for a
\* task's log even then: none waits for ever for the mutex or for a call, also behind
\* others that do (server.go:54-63, handlers.go:110-116 of v2, read.go:342 of the reader).
EveryRequestAnswered ==
  \A c \in Clients :
    /\ Busy(c)
    /\ Durations[cfg["timeout"]] > 0 \/ conn[c].route.handler = "filesAPIHandler"
    ~> Answered(c)
=============================================================================
