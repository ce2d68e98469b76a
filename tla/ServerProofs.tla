----------------------------- MODULE ServerProofs -----------------------------
(***************************************************************************)
(* Proofs about Server, for any number of clients, tasks and requests, any *)
(* agent IDs and any inputs of start-up: every variable keeps its type,    *)
(* only valid options are served with, nobody reads a task's log with a    *)
(* token that was never accepted, a redirect of discovery leads to a task  *)
(* that the name finds, who follows it sees that task's log or nothing,    *)
(* what is on the agent's disk is found, and the mutex of NodeInfo is held *)
(* for a running script only.                                              *)
(*                                                                         *)
(* All follow from Flow, which says for a request that is being served     *)
(* which calls its handler may have left and for one that is answered      *)
(* which answers there are. Allowed adds what Auth has established,        *)
(* Discovering what the look-ups of discover have, Finding what the        *)
(* handler knows of its node, Sent which task a redirect was for and       *)
(* Locking who runs the script. A step of a handler is seen through        *)
(* CallEffect: it goes on, tries again, or ends.                           *)
(***************************************************************************)
EXTENDS Server, NatSets, SequenceTheorems

Handler ==
  {"readJournalHandler", "fieldHandler", "journalHandler", "discoverHandler", "browseHandler",
   "downloadHandler", "filesAPIHandler", "browseFiles", "downloadFile", "NotFound"}

Entry(e) ==
  /\ e.handler \in Handler
  /\ e.guarded \in BOOLEAN
  /\ e.guarded => e.handler = "readJournalHandler"

\* Every entry of the routing tables; only journals are behind Auth.
LEMMA TableEntries ==
  Len(Table) \in Nat /\ \A i \in 1 .. Len(Table) : Entry(Table[i])
<1> DEFINE E == {V1Routes[i] : i \in 1 .. 7} \cup {V2Routes[i] : i \in 1 .. 13}
           s == V1Routes
           t == V2Routes
<1>1. s = <<s[1], s[2], s[3], s[4], s[5], s[6], s[7]>>
  BY DEF V1Routes
<1>2. t = <<t[1], t[2], t[3], t[4], t[5], t[6], t[7], t[8], t[9], t[10], t[11], t[12], t[13]>>
  BY DEF V2Routes
<1>3. \A p, h : Entry(To(p, h)) <=> h \in Handler
  BY DEF Entry, To
<1>4. \A p : Entry(Guarded(p, "readJournalHandler"))
  BY DEF Entry, Guarded, Handler
<1>5. /\ Entry(s[1]) /\ Entry(s[2]) /\ Entry(s[3]) /\ Entry(s[4])
      /\ Entry(s[5]) /\ Entry(s[6]) /\ Entry(s[7])
  BY <1>3, <1>4 DEF V1Routes, Handler
<1>6. /\ Entry(t[1]) /\ Entry(t[2]) /\ Entry(t[3]) /\ Entry(t[4]) /\ Entry(t[5]) /\ Entry(t[6])
      /\ Entry(t[7]) /\ Entry(t[8]) /\ Entry(t[9]) /\ Entry(t[10]) /\ Entry(t[11])
      /\ Entry(t[12]) /\ Entry(t[13])
  BY <1>3 DEF V2Routes, Handler
<1>7. /\ s[1] \in E /\ s[2] \in E /\ s[3] \in E /\ s[4] \in E /\ s[5] \in E /\ s[6] \in E /\ s[7] \in E
      /\ t[1] \in E /\ t[2] \in E /\ t[3] \in E /\ t[4] \in E /\ t[5] \in E /\ t[6] \in E /\ t[7] \in E
      /\ t[8] \in E /\ t[9] \in E /\ t[10] \in E /\ t[11] \in E /\ t[12] \in E /\ t[13] \in E
  OBVIOUS
<1>8. \A e \in E : Entry(e)
  BY <1>5, <1>6
<1> HIDE DEF E
<1>9. /\ \A a, b, c, d, e, f, g \in E : <<a, b, c, d, e, f, g>> \in Seq(E)
      /\ \A a, b, c, d, e, f, g, h, i, j, k, l, m \in E :
           <<a, b, c, d, e, f, g, h, i, j, k, l, m>> \in Seq(E)
  OBVIOUS
<1>10. s \in Seq(E)
  <2> HIDE DEF s
  <2>1. <<s[1], s[2], s[3], s[4], s[5], s[6], s[7]>> \in Seq(E)
    BY <1>7, <1>9
  <2>2. QED
    BY <1>1, <2>1
<1>11. t \in Seq(E)
  <2> HIDE DEF t
  <2>1. <<t[1], t[2], t[3], t[4], t[5], t[6], t[7], t[8], t[9], t[10], t[11], t[12], t[13]>> \in Seq(E)
    BY <1>7, <1>9
  <2>2. QED
    BY <1>2, <2>1
<1>12. Table \in Seq(E)
  BY <1>10, <1>11 DEF Table
<1>13. QED
  BY <1>8, <1>12

-----------------------------------------------------------------------------
Connection(k) ==
  k = [req |-> k.req, route |-> k.route, todo |-> k.todo, node |-> k.node, ans |-> k.ans]

\* conn is a function of records.
Connections ==
  /\ conn = [c \in Clients |-> conn[c]]
  /\ \A c \in Clients : Connection(conn[c])

\* Nothing of a connection changes but its calls, its node and its answer.
Own(c) ==
  \A d \in Clients :
    /\ conn'[d].req = conn[d].req /\ conn'[d].route = conn[d].route
    /\ d # c => conn'[d] = conn[d]

\* The records of conn, with the sets their fields are in.
LEMMA ConnectionTypes ==
  ASSUME Connections
  PROVE  \E R, Q, T, N, A : conn \in [Clients -> [req : R, route : Q, todo : T, node : N, ans : A]]
<1> DEFINE R == {conn[d].req : d \in Clients}
           Q == {conn[d].route : d \in Clients}
           T == {conn[d].todo : d \in Clients}
           N == {conn[d].node : d \in Clients}
           A == {conn[d].ans : d \in Clients}
<1>1. \A d \in Clients : /\ conn[d].req \in R /\ conn[d].route \in Q /\ conn[d].todo \in T
                         /\ conn[d].node \in N /\ conn[d].ans \in A
  OBVIOUS
<1> HIDE DEF R, Q, T, N, A
<1>2. \A d \in Clients : conn[d] \in [req : R, route : Q, todo : T, node : N, ans : A]
  BY <1>1 DEF Connections, Connection
<1>3. conn \in [Clients -> [req : R, route : Q, todo : T, node : N, ans : A]]
  BY <1>2 DEF Connections
<1>4. QED
  BY <1>3

\* What the three ways in which a handler goes on do to conn.
LEMMA Updated ==
  ASSUME NEW c \in Clients, NEW todo, NEW node, NEW ans, Connections,
         conn' = [d \in Clients |-> conn'[d]], \A d \in Clients : d # c => conn'[d] = conn[d],
         conn'[c] = [req |-> conn[c].req, route |-> conn[c].route, todo |-> todo, node |-> node,
                     ans |-> ans]
  PROVE  /\ Connections' /\ Own(c)
         /\ conn'[c].todo = todo /\ conn'[c].node = node /\ conn'[c].ans = ans
BY DEF Connections, Connection, Own

\* The two ways a handler goes on change the calls left and the node, no more.
LEMMA Updates ==
  ASSUME Connections, NEW c \in Clients, NEW rest, NEW node
  PROVE  /\ Proceed(c, rest) =>
              /\ Connections' /\ Own(c)
              /\ conn'[c].todo = rest /\ conn'[c].node = conn[c].node /\ conn'[c].ans = conn[c].ans
         /\ conn' = [conn EXCEPT ![c].todo = Tail(@), ![c].node = node] =>
              /\ Connections' /\ Own(c)
              /\ conn'[c].todo = Tail(conn[c].todo) /\ conn'[c].node = node
              /\ conn'[c].ans = conn[c].ans
<1>1. PICK R, Q, T, N, A : conn \in [Clients -> [req : R, route : Q, todo : T, node : N, ans : A]]
  BY ConnectionTypes
<1> DEFINE k == conn[c]
           Is(todo, nod, ans) ==
             /\ conn' = [d \in Clients |-> conn'[d]]
             /\ \A d \in Clients : d # c => conn'[d] = conn[d]
             /\ conn'[c] = [req |-> k.req, route |-> k.route, todo |-> todo, node |-> nod, ans |-> ans]
<1>2. ASSUME NEW todo, NEW nod, NEW ans, Is(todo, nod, ans)
      PROVE  /\ Connections' /\ Own(c)
             /\ conn'[c].todo = todo /\ conn'[c].node = nod /\ conn'[c].ans = ans
  BY <1>2, Updated
<1>3. Proceed(c, rest) => Is(rest, k.node, k.ans)
  BY <1>1 DEF Proceed
<1>4. conn' = [conn EXCEPT ![c].todo = Tail(@), ![c].node = node] => Is(Tail(k.todo), node, k.ans)
  BY <1>1, ZenonT(40)
<1> HIDE DEF Is
<1>5. Proceed(c, rest) =>
        /\ Connections' /\ Own(c)
        /\ conn'[c].todo = rest /\ conn'[c].node = conn[c].node /\ conn'[c].ans = conn[c].ans
  BY <1>2, <1>3
<1>6. conn' = [conn EXCEPT ![c].todo = Tail(@), ![c].node = node] =>
        /\ Connections' /\ Own(c)
        /\ conn'[c].todo = Tail(conn[c].todo) /\ conn'[c].node = node
        /\ conn'[c].ans = conn[c].ans
  BY <1>2, <1>4
<1>7. QED
  BY <1>5, <1>6

\* An answer ends the calls of its request and leaves all others alone.
LEMMA AnswerGiven ==
  ASSUME Connections, NEW c \in Clients, NEW code, NEW body, Answer(c, code, body)
  PROVE  /\ Connections' /\ Own(c) /\ conn'[c].todo = <<>> /\ conn'[c].node = ""
         /\ conn'[c].ans.code = code /\ conn'[c].ans.body = body
<1>1. PICK R, Q, T, N, A : conn \in [Clients -> [req : R, route : Q, todo : T, node : N, ans : A]]
  BY ConnectionTypes
<1> DEFINE a == [code |-> code, body |-> body]
           e == <<>>
           n == ""
<1>2. a.code = code /\ a.body = body
  OBVIOUS
<1>3. conn' = [conn EXCEPT ![c].todo = e, ![c].node = n, ![c].ans = a]
  BY DEF Answer
<1> HIDE DEF a, e, n
<1>4. conn'[c] = [req |-> conn[c].req, route |-> conn[c].route, todo |-> e, node |-> n, ans |-> a]
  BY <1>1, <1>3
<1>5. conn' = [d \in Clients |-> conn'[d]] /\ \A d \in Clients : d # c => conn'[d] = conn[d]
  BY <1>1, <1>3
<1>6. /\ Connections' /\ Own(c)
      /\ conn'[c].todo = e /\ conn'[c].node = n /\ conn'[c].ans = a
  BY <1>4, <1>5, Updated
<1>7. QED
  BY <1>2, <1>6 DEF e, n

-----------------------------------------------------------------------------
History(h) ==
  /\ h = [first |-> h.first, clean |-> h.clean, allowed |-> h.allowed, targets |-> h.targets,
          there |-> h.there]
  /\ h.clean \in BOOLEAN /\ h.allowed \in BOOLEAN /\ h.there \in BOOLEAN

\* seen is a function of records.
Histories ==
  /\ seen = [c \in Clients |-> seen[c]]
  /\ \A c \in Clients : History(seen[c])

NameOf(route) == route.vars["{taskID}"]

\* What a change of the environment and a failed call do to the histories.
LEMMA ObserveEffect ==
  ASSUME Histories, Observe, granted' \in BOOLEAN
  PROVE  /\ Histories'
         /\ \A c \in Clients :
              /\ seen'[c].first = seen[c].first
              /\ seen'[c].allowed = seen[c].allowed
              /\ seen'[c].there = seen[c].there
              /\ ~Busy(c) => seen'[c] = seen[c]
              /\ seen'[c].clean => seen[c].clean /\ (Busy(c) => granted')
              /\ seen[c].targets \subseteq seen'[c].targets
              /\ Busy(c) /\ Discovers(conn[c].route) =>
                   seen'[c].targets =
                     seen[c].targets \cup {Designated(NameOf(conn[c].route), task')}
<1>1. seen' = [c \in Clients |-> seen'[c]]
  BY DEF Observe
<1>2. ASSUME NEW c \in Clients
      PROVE  /\ History(seen'[c])
             /\ seen'[c].first = seen[c].first
             /\ seen'[c].allowed = seen[c].allowed
             /\ seen'[c].there = seen[c].there
             /\ ~Busy(c) => seen'[c] = seen[c]
             /\ seen'[c].clean => seen[c].clean /\ (Busy(c) => granted')
             /\ seen[c].targets \subseteq seen'[c].targets
             /\ Busy(c) /\ Discovers(conn[c].route) =>
                  seen'[c].targets =
                    seen[c].targets \cup {Designated(NameOf(conn[c].route), task')}
  <2> DEFINE h == seen[c]
             D == Discovers(conn[c].route)
             new == IF D THEN h.targets \cup {Designated(NameOf(conn[c].route), task')}
                         ELSE h.targets
  <2>1. CASE ~Busy(c)
    <3>1. seen'[c] = h
      BY <2>1 DEF Observe
    <3>2. QED
      BY <2>1, <3>1 DEF Histories
  <2>2. CASE Busy(c)
    <3>1. h \in [first : {h.first}, clean : BOOLEAN, allowed : BOOLEAN, targets : {h.targets},
                 there : BOOLEAN]
      BY DEF Histories, History
    <3>2. seen'[c] = [h EXCEPT !.clean = @ /\ granted', !.targets = new]
      BY <2>2 DEF Observe, NameOf
    <3> HIDE DEF h, new
    <3>3. /\ DOMAIN seen'[c] = {"first", "clean", "allowed", "targets", "there"}
          /\ seen'[c].first = h.first /\ seen'[c].clean = (h.clean /\ granted')
          /\ seen'[c].allowed = h.allowed /\ seen'[c].targets = new
          /\ seen'[c].there = h.there
      BY <3>1, <3>2
    <3>4. seen'[c] = [first |-> seen'[c].first, clean |-> seen'[c].clean,
                      allowed |-> seen'[c].allowed, targets |-> seen'[c].targets,
                      there |-> seen'[c].there]
      BY <3>1, <3>2, <3>3
    <3>5. seen'[c].clean \in BOOLEAN
      BY <3>3
    <3>6. History(seen'[c])
      BY <3>1, <3>3, <3>4, <3>5 DEF History
    <3>7. h.targets \subseteq new /\ (D => new = h.targets \cup {Designated(NameOf(conn[c].route), task')})
      BY DEF new
    <3>8. QED
      BY <2>2, <3>3, <3>6, <3>7 DEF h
  <2>3. QED
    BY <2>1, <2>2
<1>3. QED
  BY <1>1, <1>2 DEF Histories

\* A failed call leaves its mark on one request only.
LEMMA FailedEffect ==
  ASSUME Histories, NEW c \in Clients, Failed(c)
  PROVE  /\ Histories' /\ ~seen'[c].clean
         /\ \A d \in Clients :
              /\ seen'[d].first = seen[d].first /\ seen'[d].allowed = seen[d].allowed
              /\ seen'[d].targets = seen[d].targets /\ seen'[d].there = seen[d].there
              /\ d # c => seen'[d] = seen[d]
<1> DEFINE h == seen[c]
           new == [first |-> h.first, clean |-> FALSE, allowed |-> h.allowed,
                   targets |-> h.targets, there |-> h.there]
<1>1. h \in [first : {h.first}, clean : BOOLEAN, allowed : BOOLEAN, targets : {h.targets},
             there : BOOLEAN]
  BY DEF Histories, History
<1>2. seen' = [d \in Clients |-> seen'[d]] /\ \A d \in Clients : d # c => seen'[d] = seen[d]
  BY DEF Failed, Histories
<1>3. seen'[c] = new
  BY <1>1 DEF Failed, Histories, History
<1>4. /\ h.allowed \in BOOLEAN /\ h.there \in BOOLEAN
      /\ seen'[c].first = h.first /\ seen'[c].clean = FALSE /\ seen'[c].allowed = h.allowed
      /\ seen'[c].targets = h.targets /\ seen'[c].there = h.there
  BY <1>3 DEF Histories, History
<1>5. History(seen'[c])
  BY <1>3, <1>4 DEF History
<1> HIDE DEF h, new
<1>6. Histories'
  BY <1>2, <1>5 DEF Histories
<1>7. QED
  BY <1>2, <1>4, <1>6 DEF h

-----------------------------------------------------------------------------
\* The calls of a handler that does not discover: preliminaries, and one call that answers.
Preliminary == {"DetectIP", "Script", "MesosID", "State", "Store", "Authorize", "Size"}
Final == {"Read", "Browse", "Download", "Journal", "Field"}
Call == Preliminary \cup Final

FinalCall(h) ==
  CASE h = "filesAPIHandler" -> "Read"
    [] h = "browseFiles" -> "Browse"
    [] h = "downloadFile" -> "Download"
    [] h = "fieldHandler" -> "Field"
    [] OTHER -> "Journal"

\* The calls that find out the node's ID come before all that use it.
Setters == {"MesosID", "State"}

Planned(s, h) ==
  /\ s \in Seq(Call) /\ Len(s) > 0
  /\ s[Len(s)] = FinalCall(h)
  /\ \A i \in 1 .. Len(s) - 1 : s[i] \in Preliminary
  /\ \A i, j \in 1 .. Len(s) : i < j /\ s[j] \in Setters => s[i] \in {"DetectIP", "Script"}

\* A preliminary call returns.
LEMMA PlannedTail ==
  ASSUME NEW s, NEW h, Planned(s, h), Head(s) \in Preliminary
  PROVE  /\ Planned(Tail(s), h) /\ Len(s) > 1
         /\ Len(Tail(s)) = Len(s) - 1
         /\ \A i \in 1 .. Len(s) - 1 : Tail(s)[i] = s[i + 1]
<1>1. s \in Seq(Call) /\ Len(s) \in Nat /\ Len(s) > 0
  BY DEF Planned
<1>2. s[Len(s)] \notin Preliminary
  BY DEF Planned, FinalCall, Preliminary
<1>3. Head(s) = s[1] /\ Len(s) > 1
  BY <1>1, <1>2
<1>4. /\ Tail(s) \in Seq(Call) /\ Len(Tail(s)) = Len(s) - 1
      /\ \A i \in 1 .. Len(s) - 1 : Tail(s)[i] = s[i + 1]
  BY <1>1, <1>3
<1>5. Tail(s)[Len(Tail(s))] = FinalCall(h)
  BY <1>1, <1>3, <1>4 DEF Planned
<1>6. \A i \in 1 .. Len(Tail(s)) - 1 : Tail(s)[i] \in Preliminary
  BY <1>1, <1>3, <1>4 DEF Planned
<1>7. \A i, j \in 1 .. Len(Tail(s)) :
        i < j /\ Tail(s)[j] \in Setters => Tail(s)[i] \in {"DetectIP", "Script"}
  <2>1. ASSUME NEW i \in 1 .. Len(Tail(s)), NEW j \in 1 .. Len(Tail(s)), i < j,
               Tail(s)[j] \in Setters
        PROVE  Tail(s)[i] \in {"DetectIP", "Script"}
    <3>1. i + 1 \in 1 .. Len(s) /\ j + 1 \in 1 .. Len(s) /\ i + 1 < j + 1
      BY <1>1, <1>4, <2>1
    <3>2. Tail(s)[i] = s[i + 1] /\ Tail(s)[j] = s[j + 1]
      BY <1>4
    <3>3. QED
      BY <2>1, <3>1, <3>2 DEF Planned
  <2>2. QED
    BY <2>1
<1>8. QED
  BY <1>3, <1>4, <1>5, <1>6, <1>7 DEF Planned

\* DetectIP runs its script.
LEMMA PlannedScript ==
  ASSUME NEW s, NEW h, Planned(s, h), Head(s) = "DetectIP"
  PROVE  LET new == <<"Script">> \o Tail(s)
         IN  /\ Planned(new, h) /\ Len(new) = Len(s) /\ new[1] = "Script"
             /\ \A i \in 2 .. Len(s) : new[i] = s[i]
<1> DEFINE t == Tail(s)
           new == <<"Script">> \o t
<1>1. /\ Planned(t, h) /\ Len(s) \in Nat /\ Len(s) > 1 /\ Len(t) = Len(s) - 1
      /\ \A i \in 1 .. Len(s) - 1 : t[i] = s[i + 1]
  BY PlannedTail DEF Preliminary, Planned
<1>2. t \in Seq(Call) /\ <<"Script">> \in Seq(Call) /\ Len(<<"Script">>) = 1
  BY <1>1 DEF Planned, Call, Preliminary
<1> HIDE DEF t
<1>3. /\ new \in Seq(Call) /\ Len(new) = Len(s) /\ new[1] = "Script"
      /\ \A i \in 2 .. Len(s) : new[i] = t[i - 1]
  BY <1>1, <1>2
<1> HIDE DEF new
<1>4. \A i \in 2 .. Len(s) : new[i] = s[i]
  BY <1>1, <1>3
<1>5. s[1] = "DetectIP"
  BY DEF Planned
<1>6. s[Len(s)] = FinalCall(h) /\ \A i \in 1 .. Len(s) - 1 : s[i] \in Preliminary
  BY DEF Planned
<1>7. new[Len(new)] = FinalCall(h)
  BY <1>1, <1>3, <1>4, <1>6
<1>8. \A i \in 1 .. Len(new) - 1 : new[i] \in Preliminary
  BY <1>1, <1>3, <1>4, <1>6 DEF Preliminary
<1>9. \A i, j \in 1 .. Len(new) : i < j /\ new[j] \in Setters => new[i] \in {"DetectIP", "Script"}
  <2>1. ASSUME NEW i \in 1 .. Len(new), NEW j \in 1 .. Len(new), i < j, new[j] \in Setters
        PROVE  new[i] \in {"DetectIP", "Script"}
    <3>1. new[j] = s[j]
      BY <1>1, <1>3, <1>4, <2>1
    <3>2. s[i] \in {"DetectIP", "Script"}
      BY <1>3, <2>1, <3>1 DEF Planned
    <3>3. i = 1 \/ new[i] = s[i]
      BY <1>1, <1>3, <1>4, <2>1
    <3>4. QED
      BY <1>3, <3>2, <3>3
  <2>2. QED
    BY <2>1
<1>10. QED
  BY <1>1, <1>3, <1>4, <1>7, <1>8, <1>9 DEF Planned, new, t

\* MesosID misses its cache.
LEMMA PlannedMiss ==
  ASSUME NEW s, NEW h, Planned(s, h), Head(s) = "MesosID"
  PROVE  LET new == <<"DetectIP", "State", "Store">> \o Tail(s)
         IN  /\ Planned(new, h) /\ Len(new) = Len(s) + 2
             /\ new[1] = "DetectIP" /\ new[2] = "State" /\ new[3] = "Store"
             /\ \A i \in 2 .. Len(s) : new[i + 2] = s[i]
<1> DEFINE t == Tail(s)
           pre == <<"DetectIP", "State", "Store">>
           new == pre \o t
<1>1. /\ Planned(t, h) /\ Len(s) \in Nat /\ Len(s) > 1 /\ Len(t) = Len(s) - 1
      /\ \A i \in 1 .. Len(s) - 1 : t[i] = s[i + 1]
  BY PlannedTail DEF Preliminary, Planned
<1>2. t \in Seq(Call)
  BY <1>1 DEF Planned
<1>3. /\ pre \in Seq(Call) /\ Len(pre) = 3
      /\ pre[1] = "DetectIP" /\ pre[2] = "State" /\ pre[3] = "Store"
  BY DEF Call, Preliminary
<1> HIDE DEF t, pre
<1>4. /\ new \in Seq(Call) /\ Len(new) = Len(s) + 2
      /\ new[1] = "DetectIP" /\ new[2] = "State" /\ new[3] = "Store"
      /\ \A i \in 4 .. Len(s) + 2 : new[i] = t[i - 3]
  <2>1. /\ new \in Seq(Call) /\ Len(new) = 3 + Len(t)
        /\ \A i \in 1 .. 3 + Len(t) : new[i] = IF i <= 3 THEN pre[i] ELSE t[i - 3]
    <3>1. /\ new \in Seq(Call) /\ Len(new) = Len(pre) + Len(t)
          /\ \A i \in 1 .. Len(pre) + Len(t) : new[i] = IF i <= Len(pre) THEN pre[i] ELSE t[i - Len(pre)]
      BY <1>2, <1>3, ConcatProperties, Zenon
    <3> HIDE DEF new
    <3>2. QED
      BY <1>3, <3>1
  <2> HIDE DEF new
  <2>2. QED
    BY <1>1, <1>3, <2>1
<1> HIDE DEF new
<1>5. \A i \in 4 .. Len(s) + 2 : new[i] = s[i - 2]
  BY <1>1, <1>4
<1>6. s[1] = "MesosID"
  BY DEF Planned
<1>7. s[Len(s)] = FinalCall(h) /\ \A i \in 1 .. Len(s) - 1 : s[i] \in Preliminary
  BY DEF Planned
<1>8. new[Len(new)] = FinalCall(h)
  BY <1>1, <1>4, <1>5, <1>7
<1>9. \A i \in 1 .. Len(new) - 1 : new[i] \in Preliminary
  <2>1. ASSUME NEW i \in 1 .. Len(new) - 1
        PROVE  new[i] \in Preliminary
    <3>1. i = 1 \/ i = 2 \/ i = 3 \/ i \in 4 .. Len(s) + 1
      BY <1>1, <1>4
    <3>2. i \in 4 .. Len(s) + 1 => new[i] = s[i - 2] /\ i - 2 \in 1 .. Len(s) - 1
      BY <1>1, <1>5
    <3>3. i \in 4 .. Len(s) + 1 => new[i] \in Preliminary
      BY <1>7, <3>2
    <3>4. QED
      BY <1>4, <3>1, <3>3 DEF Preliminary
  <2>2. QED
    BY <2>1
<1>10. \A j \in 2 .. Len(s) : s[j] \notin Setters
  BY <1>1, <1>6 DEF Planned
<1>11. \A i, j \in 1 .. Len(new) : i < j /\ new[j] \in Setters => new[i] \in {"DetectIP", "Script"}
  <2>1. ASSUME NEW i \in 1 .. Len(new), NEW j \in 1 .. Len(new), i < j, new[j] \in Setters
        PROVE  new[i] \in {"DetectIP", "Script"}
    <3>1. j \notin 4 .. Len(s) + 2
      BY <1>1, <1>5, <1>10, <2>1
    <3>2. j # 3
      BY <1>4, <2>1 DEF Setters
    <3>3. j = 2 /\ i = 1
      BY <1>1, <1>4, <2>1, <3>1, <3>2
    <3>4. QED
      BY <1>4, <3>3
  <2>2. QED
    BY <2>1
<1>12. \A i \in 2 .. Len(s) : new[i + 2] = s[i]
  BY <1>1, <1>5
<1>13. QED
  BY <1>1, <1>4, <1>8, <1>9, <1>11, <1>12 DEF Planned, new, pre, t

RouteOK(route) ==
  /\ route.handler \in Handler
  /\ route.guarded \in BOOLEAN
  /\ route.guarded => route.handler = "readJournalHandler"

\* A request for something in a sandbox.
Sandboxed(route) ==
  route.handler \in {"browseFiles", "filesAPIHandler", "downloadFile"} \/ route.guarded

\* Auth or, in v2, the agent itself looks at the token.
Protected(route) == Sandboxed(route) /\ (route.guarded => cfg["auth"])

\* Concatenations of tuples.
LEMMA ShortTuples ==
  ASSUME NEW a, NEW b, NEW c, NEW d
  PROVE  /\ <<>> \o <<a>> = <<a>>
         /\ <<a, b>> \o <<>> = <<a, b>>
         /\ <<a, b>> \o <<c>> = <<a, b, c>>
         /\ Append(<<a, b>>, c) = <<a, b, c>>
         /\ <<a, b, c>> \o <<d>> = <<a, b, c, d>>
<1> DEFINE S == {a, b, c, d}
<1>1. /\ <<>> \in Seq(S) /\ <<a>> \in Seq(S) /\ <<c>> \in Seq(S) /\ <<d>> \in Seq(S)
      /\ <<a, b>> \in Seq(S) /\ <<a, b, c>> \in Seq(S) /\ <<a, b, c, d>> \in Seq(S)
  OBVIOUS
<1> HIDE DEF S
<1>2. <<>> \o <<a>> = <<a>> /\ <<a, b>> \o <<>> = <<a, b>>
  BY <1>1, ConcatEmptySeq
<1>3. <<a, b>> \o <<c>> = <<a, b, c>>
  <2> DEFINE n == <<a, b>> \o <<c>>
  <2>1. n \in Seq(S) /\ Len(n) = 3 /\ n[1] = a /\ n[2] = b /\ n[3] = c
    BY <1>1
  <2> DEFINE m == <<a, b, c>>
  <2>2. m \in Seq(S) /\ Len(m) = 3 /\ m[1] = a /\ m[2] = b /\ m[3] = c
    BY <1>1
  <2> HIDE DEF n, m
  <2>3. \A i \in 1 .. 3 : n[i] = m[i]
    BY <2>1, <2>2
  <2>4. n = m
    BY <2>1, <2>2, <2>3, SeqEqual
  <2>5. QED
    BY <2>4 DEF n, m
<1>4. Append(<<a, b>>, c) = <<a, b, c>>
  <2> DEFINE n == Append(<<a, b>>, c)
  <2>1. n \in Seq(S) /\ Len(n) = 3 /\ n[1] = a /\ n[2] = b /\ n[3] = c
    BY <1>1 DEF S
  <2> DEFINE m == <<a, b, c>>
  <2>2. m \in Seq(S) /\ Len(m) = 3 /\ m[1] = a /\ m[2] = b /\ m[3] = c
    BY <1>1
  <2> HIDE DEF n, m
  <2>3. \A i \in 1 .. 3 : n[i] = m[i]
    BY <2>1, <2>2
  <2>4. n = m
    BY <2>1, <2>2, <2>3, SeqEqual
  <2>5. QED
    BY <2>4 DEF n, m
<1>5. <<a, b, c>> \o <<d>> = <<a, b, c, d>>
  <2> DEFINE n == <<a, b, c>> \o <<d>>
  <2>1. n \in Seq(S) /\ Len(n) = 4 /\ n[1] = a /\ n[2] = b /\ n[3] = c /\ n[4] = d
    BY <1>1
  <2> DEFINE m == <<a, b, c, d>>
  <2>2. m \in Seq(S) /\ Len(m) = 4 /\ m[1] = a /\ m[2] = b /\ m[3] = c /\ m[4] = d
    BY <1>1
  <2> HIDE DEF n, m
  <2>3. \A i \in 1 .. 4 : n[i] = m[i]
    BY <2>1, <2>2
  <2>4. n = m
    BY <2>1, <2>2, <2>3, SeqEqual
  <2>5. QED
    BY <2>4 DEF n, m
<1>6. QED
  BY <1>2, <1>3, <1>4, <1>5

\* The calls, written out.
LEMMA CallsOf ==
  ASSUME NEW r, NEW route, RouteOK(route)
  PROVE  /\ route.guarded /\ cfg["auth"] =>
              Calls(r, route) = <<"DetectIP", "MesosID", "Authorize", "Journal">>
         /\ route.handler \in {"readJournalHandler", "journalHandler"} /\ ~(route.guarded /\ cfg["auth"]) =>
              Calls(r, route) = <<"Journal">>
         /\ route.handler = "fieldHandler" => Calls(r, route) = <<"Field">>
         /\ Discovers(route) => Calls(r, route) = Lookups
         /\ route.handler = "filesAPIHandler" /\ r.query = "END" =>
              Calls(r, route) = <<"MesosID", "DetectIP", "Size", "Read">>
         /\ route.handler = "filesAPIHandler" /\ r.query # "END" =>
              Calls(r, route) = <<"MesosID", "DetectIP", "Read">>
         /\ route.handler = "browseFiles" => Calls(r, route) = <<"MesosID", "DetectIP", "Browse">>
         /\ route.handler = "downloadFile" => Calls(r, route) = <<"MesosID", "DetectIP", "Download">>
         /\ route.handler = "NotFound" => Calls(r, route) = <<>>
<1>1. /\ AuthCalls \o <<"Journal">> = <<"DetectIP", "MesosID", "Authorize", "Journal">>
      /\ <<>> \o <<"Journal">> = <<"Journal">>
  BY ShortTuples, ZenonT(40) DEF AuthCalls
<1>2. /\ ReaderCalls \o <<"Size">> \o <<"Read">> = <<"MesosID", "DetectIP", "Size", "Read">>
      /\ ReaderCalls \o <<>> \o <<"Read">> = <<"MesosID", "DetectIP", "Read">>
  <2>1. /\ ReaderCalls \o <<"Size">> = <<"MesosID", "DetectIP", "Size">>
        /\ ReaderCalls \o <<>> = <<"MesosID", "DetectIP">>
    BY ShortTuples DEF ReaderCalls
  <2>2. /\ <<"MesosID", "DetectIP", "Size">> \o <<"Read">> = <<"MesosID", "DetectIP", "Size", "Read">>
        /\ <<"MesosID", "DetectIP">> \o <<"Read">> = <<"MesosID", "DetectIP", "Read">>
    BY ShortTuples, ZenonT(40)
  <2>3. QED
    BY <2>1, <2>2, Zenon
<1>3. /\ Append(ReaderCalls, "Browse") = <<"MesosID", "DetectIP", "Browse">>
      /\ Append(ReaderCalls, "Download") = <<"MesosID", "DetectIP", "Download">>
  BY ShortTuples DEF ReaderCalls
<1>4. QED
  BY <1>1, <1>2, <1>3 DEF Calls, RouteOK, Discovers, SizeCall

\* The calls are in order, and those of a protected route need a token.
LEMMA CallsFacts ==
  ASSUME NEW r, NEW route, RouteOK(route), ~Discovers(route), route.handler # "NotFound"
  PROVE  LET calls == Calls(r, route)
         IN  /\ Planned(calls, route.handler)
             /\ \/ calls \in {<<"Journal">>, <<"Field">>}
                \/ \E i \in 1 .. Len(calls) : calls[i] \in Setters
             /\ Protected(route) => NeedsToken(calls)
             /\ route.guarded /\ cfg["auth"] =>
                  \E i \in 1 .. Len(calls) : calls[i] = "Authorize"
<1>1. CASE route.guarded /\ cfg["auth"]
  <2> DEFINE s == <<"DetectIP", "MesosID", "Authorize", "Journal">>
  <2>1. Calls(r, route) = s
    BY <1>1, CallsOf
  <2>2. s \in Seq(Call) /\ Len(s) = 4 /\ s[1] = "DetectIP" /\ s[2] = "MesosID" /\ s[3] = "Authorize" /\ s[4] = "Journal"
    BY DEF Call, Preliminary, Final
  <2> HIDE DEF s
  <2>3. Planned(s, route.handler)
    BY <1>1, <2>2 DEF Planned, FinalCall, Preliminary, Setters, RouteOK
  <2>4. QED
    BY <1>1, <2>1, <2>2, <2>3 DEF NeedsToken, Setters, Protected, Sandboxed, RouteOK
<1>2. CASE /\ route.handler \in {"readJournalHandler", "journalHandler"}
          /\ ~(route.guarded /\ cfg["auth"])
  <2>1. Calls(r, route) = <<"Journal">>
    BY <1>2, CallsOf
  <2>2. Planned(<<"Journal">>, route.handler)
    BY <1>2 DEF Planned, FinalCall, Call, Final
  <2>3. ~Protected(route) /\ ~(route.guarded /\ cfg["auth"])
    BY <1>2 DEF Protected, Sandboxed, RouteOK
  <2>4. QED
    BY <2>1, <2>2, <2>3
<1>3. CASE route.handler = "fieldHandler"
  <2>1. Calls(r, route) = <<"Field">>
    BY <1>3, CallsOf
  <2>2. Planned(<<"Field">>, route.handler)
    BY <1>3 DEF Planned, FinalCall, Call, Final
  <2>3. ~Protected(route) /\ ~(route.guarded /\ cfg["auth"])
    BY <1>3 DEF Protected, Sandboxed, RouteOK
  <2>4. QED
    BY <2>1, <2>2, <2>3
<1>4. CASE route.handler = "filesAPIHandler" /\ r.query = "END"
  <2> DEFINE s == <<"MesosID", "DetectIP", "Size", "Read">>
  <2>1. Calls(r, route) = s
    BY <1>4, CallsOf
  <2>2. s \in Seq(Call) /\ Len(s) = 4 /\ s[1] = "MesosID" /\ s[2] = "DetectIP" /\ s[3] = "Size" /\ s[4] = "Read"
    BY DEF Call, Preliminary, Final
  <2> HIDE DEF s
  <2>3. Planned(s, route.handler)
    BY <1>4, <2>2 DEF Planned, FinalCall, Preliminary, Setters, RouteOK
  <2>4. QED
    BY <1>4, <2>1, <2>2, <2>3 DEF NeedsToken, Setters, Protected, Sandboxed, RouteOK
<1>5. CASE route.handler = "filesAPIHandler" /\ r.query # "END"
  <2> DEFINE s == <<"MesosID", "DetectIP", "Read">>
  <2>1. Calls(r, route) = s
    BY <1>5, CallsOf
  <2>2. s \in Seq(Call) /\ Len(s) = 3 /\ s[1] = "MesosID" /\ s[2] = "DetectIP" /\ s[3] = "Read"
    BY DEF Call, Preliminary, Final
  <2> HIDE DEF s
  <2>3. Planned(s, route.handler)
    BY <1>5, <2>2 DEF Planned, FinalCall, Preliminary, Setters, RouteOK
  <2>4. QED
    BY <1>5, <2>1, <2>2, <2>3 DEF NeedsToken, Setters, Protected, Sandboxed, RouteOK
<1>6. CASE route.handler = "browseFiles"
  <2> DEFINE s == <<"MesosID", "DetectIP", "Browse">>
  <2>1. Calls(r, route) = s
    BY <1>6, CallsOf
  <2>2. s \in Seq(Call) /\ Len(s) = 3 /\ s[1] = "MesosID" /\ s[2] = "DetectIP" /\ s[3] = "Browse"
    BY DEF Call, Preliminary, Final
  <2> HIDE DEF s
  <2>3. Planned(s, route.handler)
    BY <1>6, <2>2 DEF Planned, FinalCall, Preliminary, Setters, RouteOK
  <2>4. QED
    BY <1>6, <2>1, <2>2, <2>3 DEF NeedsToken, Setters, Protected, Sandboxed, RouteOK
<1>7. CASE route.handler = "downloadFile"
  <2> DEFINE s == <<"MesosID", "DetectIP", "Download">>
  <2>1. Calls(r, route) = s
    BY <1>7, CallsOf
  <2>2. s \in Seq(Call) /\ Len(s) = 3 /\ s[1] = "MesosID" /\ s[2] = "DetectIP" /\ s[3] = "Download"
    BY DEF Call, Preliminary, Final
  <2> HIDE DEF s
  <2>3. Planned(s, route.handler)
    BY <1>7, <2>2 DEF Planned, FinalCall, Preliminary, Setters, RouteOK
  <2>4. QED
    BY <1>7, <2>1, <2>2, <2>3 DEF NeedsToken, Setters, Protected, Sandboxed, RouteOK
<1>8. QED
  BY <1>1, <1>2, <1>3, <1>4, <1>5, <1>6, <1>7 DEF RouteOK, Handler, Discovers

\* What a request is told at once, and what is still to be done for it.
LEMMA ServedFacts ==
  ASSUME NEW r, NEW route, RouteOK(route)
  PROVE  LET todo == Pending(r, route)
             code == EarlyReturn(r, route)
         IN  /\ code \in {0, 400, 401, 404}
             /\ todo # <<>> => code = 0
             /\ todo # <<>> /\ Discovers(route) => todo = Lookups
             /\ todo # <<>> /\ ~Discovers(route) =>
                  /\ Planned(todo, route.handler)
                  /\ \/ todo \in {<<"Journal">>, <<"Field">>}
                     \/ \E i \in 1 .. Len(todo) : todo[i] \in Setters
             /\ todo # <<>> /\ Protected(route) => HasToken(r)
             /\ todo # <<>> /\ route.guarded /\ cfg["auth"] =>
                  \E i \in 1 .. Len(todo) : todo[i] = "Authorize"
             /\ Sandboxed(route) /\ HasToken(r) /\ r.query # "garbled" => code = 0
<1> DEFINE todo == Pending(r, route)
           code == EarlyReturn(r, route)
<1>1. code \in {0, 400, 401, 404} /\ (todo # <<>> => code = 0 /\ todo = Calls(r, route))
  BY DEF EarlyReturn, Pending
<1>2. Sandboxed(route) => route.handler # "NotFound" /\ ~Discovers(route)
  BY DEF Sandboxed, RouteOK, Discovers
<1>3. Sandboxed(route) /\ HasToken(r) /\ r.query # "garbled" => code = 0
  BY <1>2 DEF EarlyReturn
<1>4. code = 0 => ~NeedsToken(Calls(r, route)) \/ HasToken(r)
  BY DEF EarlyReturn
<1>5. todo # <<>> /\ Discovers(route) => todo = Lookups
  BY <1>1, CallsOf
<1>6. todo # <<>> => route.handler # "NotFound"
  BY <1>1 DEF EarlyReturn
<1>7. Protected(route) => Sandboxed(route)
  BY DEF Protected
<1>8. route.guarded => Sandboxed(route)
  BY DEF Sandboxed
<1> HIDE DEF todo, code
<1>9. todo # <<>> /\ ~Discovers(route) =>
        /\ Planned(todo, route.handler)
        /\ \/ todo \in {<<"Journal">>, <<"Field">>}
           \/ \E i \in 1 .. Len(todo) : todo[i] \in Setters
  BY <1>1, <1>6, CallsFacts
<1>10. todo # <<>> /\ Protected(route) => HasToken(r)
  BY <1>1, <1>2, <1>4, <1>6, <1>7, CallsFacts
<1>11. todo # <<>> /\ route.guarded /\ cfg["auth"] =>
         \E i \in 1 .. Len(todo) : todo[i] = "Authorize"
  BY <1>1, <1>2, <1>6, <1>8, CallsFacts
<1>12. QED
  BY <1>1, <1>3, <1>5, <1>9, <1>10, <1>11 DEF todo, code

-----------------------------------------------------------------------------
\* Every path has a route that a handler can rely on.
LEMMA RouteFacts ==
  ASSUME NEW path
  PROVE  RouteOK(RouteOf(path))
<1> DEFINE I == {i \in 1 .. Len(Table) : Matches(Table[i].path, path)}
           i == IF I # {} THEN Min(I) ELSE 0
           e == IF i = 0 THEN To(<<>>, "NotFound") ELSE Table[i]
<1>1. Len(Table) \in Nat /\ \A j \in 1 .. Len(Table) : Entry(Table[j])
  BY TableEntries
<1>2. I # {} => i \in 1 .. Len(Table)
  <2>1. I \in SUBSET Nat
    BY <1>1
  <2>2. I # {} => i \in I
    BY <2>1, MinNat
  <2>3. QED
    BY <2>2
<1>3. Entry(e)
  <2>1. Entry(To(<<>>, "NotFound"))
    BY DEF To, Entry, Handler
  <2>2. QED
    BY <1>1, <1>2, <2>1
<1>4. RouteOf(path) = [handler |-> e.handler, guarded |-> e.guarded,
                       vars |-> VarsOf(e.path, path)]
  BY DEF RouteOf, SelectInSeq
<1> HIDE DEF e
<1>5. QED
  BY <1>3, <1>4 DEF RouteOK, Entry

Views == {"discoverHandler", "browseHandler", "downloadHandler"}
ExecutorOf(id) == IF id.ExecutorID # "" THEN id.ExecutorID ELSE id.ID

\* What comes behind the n segments of a task's directory.
RedirectView(path, h, file, n) ==
  /\ h = "browseHandler" => Len(path) = n + 2 /\ path[n + 1] = "files" /\ path[n + 2] = "browse"
  /\ h = "discoverHandler" => Len(path) = n + 1 /\ path[n + 1] = file
  /\ h = "downloadHandler" => Len(path) = n + 2 /\ path[n + 1] = file /\ path[n + 2] = "download"

\* A template behind a prefix.
LEMMA Prefixed ==
  ASSUME NEW S, NEW p \in Seq(S), NEW s \in Seq(S)
  PROVE  /\ Len(p \o s) = Len(p) + Len(s)
         /\ \A i \in 1 .. Len(p) : (p \o s)[i] = p[i]
         /\ \A i \in 1 .. Len(s) : (p \o s)[Len(p) + i] = s[i]
OBVIOUS

\* Every route of the tables.
LEMMA TableRoutes ==
  \A i \in 1 .. Len(Table) :
    \/ \E j \in 1 .. 7 : Table[i] = V1Routes[j]
    \/ \E j \in 1 .. 13 : Table[i] = V2Routes[j]
<1> DEFINE E == {V1Routes[i] : i \in 1 .. 7} \cup {V2Routes[i] : i \in 1 .. 13}
           s == V1Routes
           t == V2Routes
<1>1. s = <<s[1], s[2], s[3], s[4], s[5], s[6], s[7]>>
  BY DEF V1Routes
<1>2. t = <<t[1], t[2], t[3], t[4], t[5], t[6], t[7], t[8], t[9], t[10], t[11], t[12], t[13]>>
  BY DEF V2Routes
<1>7. /\ s[1] \in E /\ s[2] \in E /\ s[3] \in E /\ s[4] \in E /\ s[5] \in E /\ s[6] \in E /\ s[7] \in E
      /\ t[1] \in E /\ t[2] \in E /\ t[3] \in E /\ t[4] \in E /\ t[5] \in E /\ t[6] \in E /\ t[7] \in E
      /\ t[8] \in E /\ t[9] \in E /\ t[10] \in E /\ t[11] \in E /\ t[12] \in E /\ t[13] \in E
  OBVIOUS
<1>8. \A e \in E : (\E j \in 1 .. 7 : e = V1Routes[j]) \/ (\E j \in 1 .. 13 : e = V2Routes[j])
  OBVIOUS
<1> HIDE DEF E
<1>9. /\ \A a, b, c, d, e, f, g \in E : <<a, b, c, d, e, f, g>> \in Seq(E)
      /\ \A a, b, c, d, e, f, g, h, i, j, k, l, m \in E :
           <<a, b, c, d, e, f, g, h, i, j, k, l, m>> \in Seq(E)
  OBVIOUS
<1>10. s \in Seq(E)
  <2> HIDE DEF s
  <2>1. <<s[1], s[2], s[3], s[4], s[5], s[6], s[7]>> \in Seq(E)
    BY <1>7, <1>9
  <2>2. QED
    BY <1>1, <2>1
<1>11. t \in Seq(E)
  <2> HIDE DEF t
  <2>1. <<t[1], t[2], t[3], t[4], t[5], t[6], t[7], t[8], t[9], t[10], t[11], t[12], t[13]>> \in Seq(E)
    BY <1>7, <1>9
  <2>2. QED
    BY <1>2, <2>1
<1>12. Table \in Seq(E)
  BY <1>10, <1>11 DEF Table
<1>13. QED
  BY <1>8, <1>12

\* The routes of v1 begin with their version.
LEMMA V1Begin ==
  \A j \in 1 .. 7 : Len(V1Routes[j].path) >= 1 /\ V1Routes[j].path[1] = "v1"
<1> DEFINE S == {"v1", "range", "stream", "", "download", "framework", "{framework_id}",
                 "executor", "{executor_id}", "container", "{container_id}"}
           R == <<"v1", "range">>
           T == <<"v1", "stream">>
           C == Container
<1>1. /\ R \in Seq(S) /\ Len(R) >= 1 /\ R[1] = "v1"
      /\ T \in Seq(S) /\ Len(T) >= 1 /\ T[1] = "v1"
      /\ <<"">> \in Seq(S) /\ <<"download">> \in Seq(S) /\ C \in Seq(S)
  <2>1. R \in Seq(S) /\ Len(R) >= 1 /\ R[1] = "v1"
    OBVIOUS
  <2>2. T \in Seq(S) /\ Len(T) >= 1 /\ T[1] = "v1"
    OBVIOUS
  <2>3. <<"">> \in Seq(S) /\ <<"download">> \in Seq(S)
    OBVIOUS
  <2>4. C \in Seq(S)
    BY DEF Container
  <2>5. QED
    BY <2>1, <2>2, <2>3, <2>4
<1> HIDE DEF R, T, C, S
<1>2. ASSUME NEW p \in Seq(S), NEW s \in Seq(S), Len(p) >= 1, p[1] = "v1"
      PROVE  p \o s \in Seq(S) /\ Len(p \o s) >= 1 /\ (p \o s)[1] = "v1"
  <2>1. Len(p) \in Nat /\ Len(s) \in Nat /\ 1 \in 1 .. Len(p)
    BY <1>2
  <2>2. p \o s \in Seq(S) /\ Len(p \o s) = Len(p) + Len(s) /\ (p \o s)[1] = p[1]
    BY <2>1, Prefixed
  <2>3. QED
    BY <1>2, <2>1, <2>2
<1>3. /\ R \o C \in Seq(S) /\ Len(R \o C) >= 1 /\ (R \o C)[1] = "v1"
      /\ T \o C \in Seq(S) /\ Len(T \o C) >= 1 /\ (T \o C)[1] = "v1"
      /\ Len(R \o <<"">>) >= 1 /\ (R \o <<"">>)[1] = "v1"
      /\ Len(R \o <<"download">>) >= 1 /\ (R \o <<"download">>)[1] = "v1"
      /\ Len(T \o <<"">>) >= 1 /\ (T \o <<"">>)[1] = "v1"
  <2>1. R \o C \in Seq(S) /\ Len(R \o C) >= 1 /\ (R \o C)[1] = "v1"
    BY <1>1, <1>2
  <2>2. T \o C \in Seq(S) /\ Len(T \o C) >= 1 /\ (T \o C)[1] = "v1"
    BY <1>1, <1>2
  <2>3. Len(R \o <<"">>) >= 1 /\ (R \o <<"">>)[1] = "v1"
    BY <1>1, <1>2
  <2>4. Len(R \o <<"download">>) >= 1 /\ (R \o <<"download">>)[1] = "v1"
    BY <1>1, <1>2
  <2>5. Len(T \o <<"">>) >= 1 /\ (T \o <<"">>)[1] = "v1"
    BY <1>1, <1>2
  <2>6. QED
    BY <2>1, <2>2, <2>3, <2>4, <2>5
<1> DEFINE RC == R \o C
<1>9. Len(RC \o <<"download">>) >= 1 /\ (RC \o <<"download">>)[1] = "v1"
  <2> HIDE DEF RC
  <2>1. QED
    BY <1>1, <1>2, <1>3 DEF RC
<1>4. \A p, h : To(p, h).path = p /\ Guarded(p, h).path = p
  BY DEF To, Guarded
<1> DEFINE F == <<"v1", "fields", "{field}">>
<1>5. Len(F) >= 1 /\ F[1] = "v1"
  OBVIOUS
<1> HIDE DEF F
<1>6. /\ V1Routes[1].path = R \o <<"">> /\ V1Routes[2].path = R \o C
      /\ V1Routes[3].path = R \o <<"download">> /\ V1Routes[4].path = RC \o <<"download">>
      /\ V1Routes[5].path = T \o <<"">> /\ V1Routes[6].path = T \o C
      /\ V1Routes[7].path = F
  BY <1>4 DEF V1Routes, R, T, C, F, RC
<1>7. /\ Len(V1Routes[1].path) >= 1 /\ V1Routes[1].path[1] = "v1"
      /\ Len(V1Routes[2].path) >= 1 /\ V1Routes[2].path[1] = "v1"
      /\ Len(V1Routes[3].path) >= 1 /\ V1Routes[3].path[1] = "v1"
      /\ Len(V1Routes[4].path) >= 1 /\ V1Routes[4].path[1] = "v1"
      /\ Len(V1Routes[5].path) >= 1 /\ V1Routes[5].path[1] = "v1"
      /\ Len(V1Routes[6].path) >= 1 /\ V1Routes[6].path[1] = "v1"
      /\ Len(V1Routes[7].path) >= 1 /\ V1Routes[7].path[1] = "v1"
  BY <1>1, <1>3, <1>5, <1>6, <1>9 DEF RC
<1>8. QED
  <2>1. TAKE j \in 1 .. 7
  <2>2. \/ j = 1 \/ j = 2 \/ j = 3 \/ j = 4 \/ j = 5 \/ j = 6 \/ j = 7
    OBVIOUS
  <2>3. QED
    BY <1>7, <2>2, Zenon

\* The variables in the templates of v2, by name.
FrameworkVar == "{frameworkID}"
ExecutorVar == "{executorID}"
ContainerVar == "{containerID}"
TaskVar == "{taskPath}"
FileVar == "{file}"

\* They stand for segments, and the other segments for themselves.
LEMMA SegmentKinds ==
  /\ IsVar(FrameworkVar) /\ IsVar(ExecutorVar) /\ IsVar(ContainerVar) /\ IsVar(TaskVar)
  /\ IsVar(FileVar)
  /\ ~IsVar("v1") /\ ~IsVar("v2") /\ ~IsVar("task") /\ ~IsVar("frameworks") /\ ~IsVar("executors")
  /\ ~IsVar("runs") /\ ~IsVar("tasks") /\ ~IsVar("files") /\ ~IsVar("browse") /\ ~IsVar("download")
  /\ FrameworkVar # ExecutorVar /\ FrameworkVar # ContainerVar /\ FrameworkVar # TaskVar
  /\ FrameworkVar # FileVar /\ ExecutorVar # ContainerVar /\ ExecutorVar # TaskVar
  /\ ExecutorVar # FileVar /\ ContainerVar # TaskVar /\ ContainerVar # FileVar
  /\ TaskVar # FileVar
BY Zenon DEF FrameworkVar, ExecutorVar, ContainerVar, TaskVar, FileVar, IsVar, V1Vars, V2Vars

\* The route a redirect of the handler h leads to.
Reader(h) ==
  CASE h = "browseHandler"   -> "browseFiles"
    [] h = "discoverHandler" -> "filesAPIHandler"
    [] h = "downloadHandler" -> "downloadFile"

\* The template of a reader for tasks whose directory has n segments: 10 in a pod.
Depths == {8, 10}
ReaderTemplate(h, n) ==
  (IF n = 10 THEN PodPath ELSE TaskPath) \o ViewSuffix(h, FileVar)

\* The segments of a task's directory.
Directory(p, framework, executor, container) ==
  /\ p[1] = "v2" /\ p[2] = "task" /\ p[3] = "frameworks" /\ p[4] = framework
  /\ p[5] = "executors" /\ p[6] = executor /\ p[7] = "runs" /\ p[8] = container

\* A template of a task's directory looks as the redirects do.
LEMMA TemplateSegments ==
  ASSUME NEW h \in Views, NEW n \in Depths
  PROVE  LET p == ReaderTemplate(h, n)
         IN  /\ Directory(p, FrameworkVar, ExecutorVar, ContainerVar)
             /\ n = 10 => p[9] = "tasks" /\ p[10] = TaskVar
             /\ RedirectView(p, h, FileVar, n)
<1> DEFINE p == ReaderTemplate(h, n)
           d == IF n = 10 THEN PodPath ELSE TaskPath
           s == ViewSuffix(h, FileVar)
           S == {"v2", "task", "frameworks", FrameworkVar, "executors", ExecutorVar, "runs",
                 ContainerVar, "tasks", TaskVar, "files", "browse", FileVar, "download"}
           T == TaskPath
           U == <<"tasks", TaskVar>>
           In(q) == Directory(q, FrameworkVar, ExecutorVar, ContainerVar)
<1>1. T \in Seq(S) /\ Len(T) = 8 /\ In(T)
  <2>1. T = <<"v2", "task", "frameworks", FrameworkVar, "executors", ExecutorVar, "runs", ContainerVar>>
    BY Zenon DEF TaskPath, FrameworkVar, ExecutorVar, ContainerVar
  <2> HIDE DEF T
  <2>2. QED
    BY <2>1 DEF Directory
<1>2. U \in Seq(S) /\ Len(U) = 2 /\ U[1] = "tasks" /\ U[2] = TaskVar
  OBVIOUS
<1>3. PodPath = T \o U
  BY Zenon DEF PodPath, TaskVar
<1>4. /\ <<"files", "browse">> \in Seq(S) /\ <<FileVar>> \in Seq(S)
      /\ <<FileVar, "download">> \in Seq(S)
  OBVIOUS
<1>5. /\ h = "browseHandler" => s = <<"files", "browse">>
      /\ h = "discoverHandler" => s = <<FileVar>>
      /\ h = "downloadHandler" => s = <<FileVar, "download">>
  BY DEF ViewSuffix
<1> HIDE DEF s
<1>6. /\ h = "browseHandler" => Len(s) = 2 /\ s[1] = "files" /\ s[2] = "browse"
      /\ h = "discoverHandler" => Len(s) = 1 /\ s[1] = FileVar
      /\ h = "downloadHandler" => Len(s) = 2 /\ s[1] = FileVar /\ s[2] = "download"
  BY <1>5
<1> HIDE DEF S, T, U
<1>7. s \in Seq(S)
  BY <1>4, <1>5 DEF Views
<1>8. ASSUME NEW a \in Seq(S), Len(a) >= 8, In(a), NEW b \in Seq(S)
      PROVE  /\ In(a \o b)
             /\ \A i \in 1 .. Len(b) : (a \o b)[Len(a) + i] = b[i]
             /\ Len(a \o b) = Len(a) + Len(b)
             /\ Len(a) >= 10 => (a \o b)[9] = a[9] /\ (a \o b)[10] = a[10]
  <2> DEFINE ab == a \o b
  <2>1. /\ Len(ab) = Len(a) + Len(b)
        /\ \A i \in 1 .. Len(a) : ab[i] = a[i]
        /\ \A i \in 1 .. Len(b) : ab[Len(a) + i] = b[i]
    BY Prefixed
  <2> HIDE DEF ab
  <2>2. /\ ab[1] = a[1] /\ ab[2] = a[2] /\ ab[3] = a[3] /\ ab[4] = a[4]
        /\ ab[5] = a[5] /\ ab[6] = a[6] /\ ab[7] = a[7] /\ ab[8] = a[8]
    BY <1>8, <2>1
  <2>3. Len(a) >= 10 => ab[9] = a[9] /\ ab[10] = a[10]
    BY <1>8, <2>1
  <2>4. In(ab)
    BY <1>8, <2>2, Zenon DEF Directory
  <2>5. QED
    BY <2>1, <2>3, <2>4 DEF ab
<1> HIDE DEF In
<1>9. /\ d \in Seq(S) /\ Len(d) = n /\ n \in {8, 10} /\ In(d)
      /\ n = 10 => d[9] = "tasks" /\ d[10] = TaskVar
  <2>1. CASE n = 8
    <3>1. d = T
      BY <2>1 DEF T
    <3> HIDE DEF d
    <3>2. Len(d) = n
      BY <1>1, <2>1, <3>1
    <3>3. QED
      BY <1>1, <2>1, <3>1, <3>2
  <2>2. CASE n = 10
    <3>1. d = T \o U
      BY <1>3, <2>2
    <3>2. T \o U \in Seq(S) /\ Len(T \o U) = 10
      <4>1. T \o U \in Seq(S) /\ Len(T \o U) = Len(T) + Len(U)
        BY <1>1, <1>2, ConcatProperties, Zenon
      <4>2. QED
        BY <1>1, <1>2, <4>1
    <3>3. In(T \o U) /\ (T \o U)[9] = "tasks" /\ (T \o U)[10] = TaskVar
      <4>1. In(T \o U) /\ \A i \in 1 .. Len(U) : (T \o U)[Len(T) + i] = U[i]
        <5>1. Len(T) >= 8
          BY <1>1
        <5>2. QED
          BY <1>1, <1>2, <1>8, <5>1
      <4> DEFINE TU == T \o U
      <4> HIDE DEF TU
      <4>2. \A i \in 1 .. 2 : TU[8 + i] = U[i]
        BY <1>1, <1>2, <4>1 DEF TU
      <4>3. TU[8 + 1] = U[1] /\ TU[8 + 2] = U[2]
        BY <4>2
      <4>4. TU[9] = "tasks" /\ TU[10] = TaskVar
        BY <1>2, <4>3
      <4>5. QED
        BY <4>1, <4>4 DEF TU
    <3> HIDE DEF d
    <3>4. QED
      BY <2>2, <3>1, <3>2, <3>3
  <2>3. QED
    BY <2>1, <2>2 DEF Depths
<1>10. p = d \o s
  BY DEF ReaderTemplate, s
<1> HIDE DEF d, p
<1>11. /\ In(p) /\ Len(p) = n + Len(s)
       /\ \A i \in 1 .. Len(s) : p[n + i] = s[i]
       /\ n = 10 => p[9] = "tasks" /\ p[10] = TaskVar
  <2>1. Len(d) >= 8 /\ (n = 10 => Len(d) >= 10)
    BY <1>9
  <2>2. /\ In(d \o s) /\ Len(d \o s) = Len(d) + Len(s)
        /\ \A i \in 1 .. Len(s) : (d \o s)[Len(d) + i] = s[i]
        /\ Len(d) >= 10 => (d \o s)[9] = d[9] /\ (d \o s)[10] = d[10]
    BY <1>7, <1>8, <1>9, <2>1
  <2>3. QED
    BY <1>9, <1>10, <2>1, <2>2
<1>12. RedirectView(p, h, FileVar, n)
  <2>a. n \in Nat /\ \A i \in 1 .. Len(s) : p[n + i] = s[i]
    BY <1>9, <1>11
  <2>b. /\ Len(s) = 1 => p[n + 1] = s[1] /\ Len(p) = n + 1
        /\ Len(s) = 2 => p[n + 1] = s[1] /\ p[n + 2] = s[2] /\ Len(p) = n + 2
    <3>1. ASSUME Len(s) = 1
          PROVE  p[n + 1] = s[1] /\ Len(p) = n + 1
      <4>1. 1 \in 1 .. Len(s)
        BY <3>1
      <4>2. p[n + 1] = s[1]
        BY <2>a, <4>1
      <4>3. QED
        BY <1>11, <3>1, <4>2
    <3>2. ASSUME Len(s) = 2
          PROVE  p[n + 1] = s[1] /\ p[n + 2] = s[2] /\ Len(p) = n + 2
      <4>1. 1 \in 1 .. Len(s) /\ 2 \in 1 .. Len(s)
        BY <3>2
      <4>2. p[n + 1] = s[1] /\ p[n + 2] = s[2]
        BY <2>a, <4>1
      <4>3. QED
        BY <1>11, <3>2, <4>2
    <3>3. QED
      BY <3>1, <3>2
  <2>1. ASSUME h = "browseHandler"
        PROVE  Len(p) = n + 2 /\ p[n + 1] = "files" /\ p[n + 2] = "browse"
    BY <1>6, <2>b, <2>1, Zenon
  <2>2. ASSUME h = "discoverHandler"
        PROVE  Len(p) = n + 1 /\ p[n + 1] = FileVar
    BY <1>6, <2>b, <2>2, Zenon
  <2>3. ASSUME h = "downloadHandler"
        PROVE  Len(p) = n + 2 /\ p[n + 1] = FileVar /\ p[n + 2] = "download"
    BY <1>6, <2>b, <2>3, Zenon
  <2>4. QED
    BY <2>1, <2>2, <2>3 DEF RedirectView
<1>13. QED
  BY <1>11, <1>12 DEF p, In

\* The routes of v2: a task's directory, or a shorter path.
LEMMA V2Templates ==
  \A j \in 1 .. 13 :
    \/ \E h \in Views, n \in Depths : V2Routes[j] = To(ReaderTemplate(h, n), Reader(h))
    \/ Len(V2Routes[j].path) <= 6
<1>1. \A p, h : To(p, h).path = p
  BY DEF To
<1> DEFINE task_ == "{taskID}"
           name == "{name}"
           D == <<"v2", "task", task_>>
           C == <<"v2", "component">>
           a == <<"file", FileVar>>
           b == <<"browse">>
           e == <<"download">>
           f == <<"file", FileVar, "download">>
           g == <<name>>
           S == {"v2", "task", task_, "component", name, "file", FileVar, "browse", "download"}
<1>2. /\ V2Routes[5].path = D /\ V2Routes[6].path = D \o a /\ V2Routes[7].path = D \o b
      /\ V2Routes[8].path = D \o e /\ V2Routes[9].path = D \o f
      /\ V2Routes[10].path = C /\ V2Routes[11].path = C \o g
  BY <1>1 DEF V2Routes, DiscoverPath, ComponentPath, FileVar
<1> HIDE DEF task_, name
<1>3. D \in Seq(S) /\ Len(D) = 3 /\ C \in Seq(S) /\ Len(C) = 2
  OBVIOUS
<1>4. /\ a \in Seq(S) /\ b \in Seq(S) /\ e \in Seq(S) /\ f \in Seq(S) /\ g \in Seq(S)
      /\ Len(a) = 2 /\ Len(b) = 1 /\ Len(e) = 1 /\ Len(f) = 3 /\ Len(g) = 1
  OBVIOUS
<1> HIDE DEF a, b, e, f, g, D, C, S
<1>5. /\ Len(D \o a) = Len(D) + Len(a) /\ Len(D \o b) = Len(D) + Len(b)
      /\ Len(D \o e) = Len(D) + Len(e) /\ Len(D \o f) = Len(D) + Len(f)
      /\ Len(C \o g) = Len(C) + Len(g)
  <2>1. \A x, y \in Seq(S) : Len(x \o y) = Len(x) + Len(y)
    OBVIOUS
  <2>2. QED
    BY <1>3, <1>4, <2>1, Zenon
<1>6. /\ Len(V2Routes[5].path) <= 6 /\ Len(V2Routes[6].path) <= 6 /\ Len(V2Routes[7].path) <= 6
      /\ Len(V2Routes[8].path) <= 6 /\ Len(V2Routes[9].path) <= 6 /\ Len(V2Routes[10].path) <= 6
      /\ Len(V2Routes[11].path) <= 6
  BY <1>2, <1>3, <1>4, <1>5
<1>7. /\ V2Routes[1] = To(TaskPath \o <<"files", "browse">>, "browseFiles")
      /\ V2Routes[2] = To(PodPath \o <<"files", "browse">>, "browseFiles")
      /\ V2Routes[3] = To(TaskPath \o <<FileVar>>, "filesAPIHandler")
      /\ V2Routes[4] = To(PodPath \o <<FileVar>>, "filesAPIHandler")
      /\ V2Routes[12] = To(TaskPath \o <<FileVar, "download">>, "downloadFile")
      /\ V2Routes[13] = To(PodPath \o <<FileVar, "download">>, "downloadFile")
  BY DEF V2Routes, FileVar
<1>8. /\ ViewSuffix("browseHandler", FileVar) = <<"files", "browse">>
      /\ ViewSuffix("discoverHandler", FileVar) = <<FileVar>>
      /\ ViewSuffix("downloadHandler", FileVar) = <<FileVar, "download">>
  BY DEF ViewSuffix
<1>9. /\ Reader("browseHandler") = "browseFiles" /\ Reader("discoverHandler") = "filesAPIHandler"
      /\ Reader("downloadHandler") = "downloadFile"
  BY DEF Reader
<1>10. /\ V2Routes[1] = To(ReaderTemplate("browseHandler", 8), Reader("browseHandler"))
       /\ V2Routes[2] = To(ReaderTemplate("browseHandler", 10), Reader("browseHandler"))
       /\ V2Routes[3] = To(ReaderTemplate("discoverHandler", 8), Reader("discoverHandler"))
       /\ V2Routes[4] = To(ReaderTemplate("discoverHandler", 10), Reader("discoverHandler"))
       /\ V2Routes[12] = To(ReaderTemplate("downloadHandler", 8), Reader("downloadHandler"))
       /\ V2Routes[13] = To(ReaderTemplate("downloadHandler", 10), Reader("downloadHandler"))
  <2>1. \A h : /\ ReaderTemplate(h, 8) = TaskPath \o ViewSuffix(h, FileVar)
               /\ ReaderTemplate(h, 10) = PodPath \o ViewSuffix(h, FileVar)
    BY DEF ReaderTemplate
  <2>2. QED
    BY <1>7, <1>8, <1>9, <2>1, Zenon
<1>11. QED
  <2>1. TAKE j \in 1 .. 13
  <2>2. /\ "browseHandler" \in Views /\ "discoverHandler" \in Views /\ "downloadHandler" \in Views
        /\ 8 \in Depths /\ 10 \in Depths
    BY DEF Views, Depths
  <2>3. \/ j = 1 \/ j = 2 \/ j = 3 \/ j = 4 \/ j = 12 \/ j = 13
        \/ j = 5 \/ j = 6 \/ j = 7 \/ j = 8 \/ j = 9 \/ j = 10 \/ j = 11
    OBVIOUS
  <2>4. CASE j = 5 \/ j = 6 \/ j = 7 \/ j = 8 \/ j = 9 \/ j = 10 \/ j = 11
    BY <1>6, <2>4, Zenon
  <2>5. CASE j = 1 \/ j = 2 \/ j = 3 \/ j = 4 \/ j = 12 \/ j = 13
    BY <1>10, <2>2, <2>5, Zenon
  <2>6. QED
    BY <2>3, <2>4, <2>5

\* How many segments the directory of a task has.
Depth(id) == IF id.ExecutorID # "" THEN 10 ELSE 8

\* Both kinds of task, told apart by a number.
LEMMA DepthOf ==
  ASSUME NEW id
  PROVE  /\ Depth(id) \in Depths
         /\ Depth(id) = 8 => id.ExecutorID = ""
         /\ Depth(id) = 10 => id.ExecutorID # ""
<1>1. 8 \in Depths /\ 10 \in Depths /\ 8 # 10
  BY DEF Depths
<1>2. Depth(id) = 8 <=> ~(Depth(id) = 10)
  BY <1>1, Zenon DEF Depth
<1>3. Depth(id) \in Depths
  BY <1>1, Zenon DEF Depth
<1>4. QED
  BY <1>1, <1>3, Zenon DEF Depth

\* How long a path is, by what it shows.
LEMMA ViewLength ==
  ASSUME NEW p, NEW h \in Views, NEW f, NEW n \in Nat, RedirectView(p, h, f, n)
  PROVE  Len(p) = IF h = "discoverHandler" THEN n + 1 ELSE n + 2
BY DEF RedirectView, Views

\* Where the variables of a template are.
LEMMA TemplateVars ==
  ASSUME NEW h \in Views, NEW n \in Depths
  PROVE  LET p == ReaderTemplate(h, n)
         IN  \A j \in 1 .. Len(p) :
               /\ p[j] = FrameworkVar => j = 4
               /\ p[j] = ExecutorVar => j = 6
               /\ p[j] = ContainerVar => j = 8
               /\ p[j] = TaskVar => n = 10 /\ j = 10
               /\ p[j] = FileVar => j = n + 1
<1> DEFINE p == ReaderTemplate(h, n)
<1>1. /\ Directory(p, FrameworkVar, ExecutorVar, ContainerVar)
      /\ n = 10 => p[9] = "tasks" /\ p[10] = TaskVar
      /\ RedirectView(p, h, FileVar, n)
  BY TemplateSegments
<1>2. n = 8 \/ n = 10
  BY DEF Depths
<1> HIDE DEF p
<1>3. Len(p) = IF h = "discoverHandler" THEN n + 1 ELSE n + 2
  BY <1>1, <1>2, ViewLength
<1>4. /\ p[n + 1] = FileVar \/ ~IsVar(p[n + 1])
      /\ h # "discoverHandler" => ~IsVar(p[n + 2])
  BY <1>1, SegmentKinds DEF RedirectView, Views
<1>5. /\ ~IsVar(p[1]) /\ ~IsVar(p[2]) /\ ~IsVar(p[3]) /\ ~IsVar(p[5]) /\ ~IsVar(p[7])
      /\ p[4] = FrameworkVar /\ p[6] = ExecutorVar /\ p[8] = ContainerVar
      /\ n = 10 => ~IsVar(p[9]) /\ p[10] = TaskVar
  BY <1>1, SegmentKinds, Zenon DEF Directory
<1>6. SUFFICES ASSUME NEW j \in 1 .. Len(p)
               PROVE  /\ p[j] = FrameworkVar => j = 4
                      /\ p[j] = ExecutorVar => j = 6
                      /\ p[j] = ContainerVar => j = 8
                      /\ p[j] = TaskVar => n = 10 /\ j = 10
                      /\ p[j] = FileVar => j = n + 1
  BY DEF p
<1> DEFINE Here == /\ p[j] = FrameworkVar => j = 4
                   /\ p[j] = ExecutorVar => j = 6
                   /\ p[j] = ContainerVar => j = 8
                   /\ p[j] = TaskVar => n = 10 /\ j = 10
                   /\ p[j] = FileVar => j = n + 1
<1>7. ~IsVar(p[j]) => Here
  BY SegmentKinds, Zenon
<1>8. \/ j = 1 \/ j = 2 \/ j = 3 \/ j = 4 \/ j = 5 \/ j = 6 \/ j = 7 \/ j = 8
      \/ (n = 10 /\ (j = 9 \/ j = 10))
      \/ j = n + 1
      \/ (h # "discoverHandler" /\ j = n + 2)
  <2>1. CASE h = "discoverHandler"
    BY <1>2, <1>3, <2>1
  <2>2. CASE h # "discoverHandler"
    BY <1>2, <1>3, <2>2
  <2>3. QED
    BY <2>1, <2>2
<1>9. CASE j = 1 \/ j = 2 \/ j = 3 \/ j = 5 \/ j = 7
  BY <1>5, <1>7, <1>9, Zenon
<1>10. CASE j = 4 \/ j = 6 \/ j = 8
  BY <1>5, <1>10, SegmentKinds, Zenon
<1>11. CASE n = 10 /\ (j = 9 \/ j = 10)
  BY <1>5, <1>7, <1>11, SegmentKinds, Zenon
<1>12. CASE j = n + 1
  BY <1>4, <1>7, <1>12, SegmentKinds, Zenon
<1>13. CASE h # "discoverHandler" /\ j = n + 2
  BY <1>4, <1>7, <1>13, Zenon
<1>14. QED
  BY <1>8, <1>9, <1>10, <1>11, <1>12, <1>13

\* mux.Vars: what the only place of a variable in the template holds, or nothing.
LEMMA VarAt ==
  ASSUME NEW template, Len(template) \in Nat, NEW path, NEW v, IsVar(v),
         NEW k \in 1 .. Len(template), template[k] = v,
         \A j \in 1 .. Len(template) : template[j] = v => j = k
  PROVE  VarsOf(template, path)[v] = path[k]
<1> DEFINE I == {j \in 1 .. Len(template) : template[j] = v}
           i == IF I # {} THEN Min(I) ELSE 0
<1>1. VarsOf(template, path)[v] = IF i = 0 THEN "" ELSE path[i]
  BY DEF VarsOf, SelectInSeq, IsVar
<1>2. I \in SUBSET Nat /\ k \in I /\ (\A j \in I : j = k) /\ k # 0
  OBVIOUS
<1> HIDE DEF I
<1>3. Min(I) \in I
  BY <1>2, MinNat
<1>4. i = k
  BY <1>2, <1>3, Zenon
<1> HIDE DEF i
<1>5. QED
  BY <1>1, <1>2, <1>4

\* A variable that the template does not have reads as empty.
LEMMA VarNowhere ==
  ASSUME NEW template, Len(template) \in Nat, NEW path, NEW v, IsVar(v),
         \A j \in 1 .. Len(template) : template[j] # v
  PROVE  VarsOf(template, path)[v] = ""
<1> DEFINE I == {j \in 1 .. Len(template) : template[j] = v}
           i == IF I # {} THEN Min(I) ELSE 0
<1>1. VarsOf(template, path)[v] = IF i = 0 THEN "" ELSE path[i]
  BY DEF VarsOf, SelectInSeq, IsVar
<1>2. i = 0
  OBVIOUS
<1> HIDE DEF i
<1>3. QED
  BY <1>1, <1>2

\* The path to the reader of a task's log, as id names the task.
TaskForm(path, id, h, file) ==
  /\ DOMAIN path = 1 .. Len(path)
  /\ Directory(path, id.FrameworkID, ExecutorOf(id), Last(id.ContainerIDs))
  /\ Depth(id) = 10 => path[9] = "tasks" /\ path[10] = id.ID
  /\ RedirectView(path, h, file, Depth(id))

\* The path that a redirect leads to.
LEMMA RedirectShape ==
  ASSUME NEW id, NEW h \in Views, NEW file
  PROVE  LET url == RedirectURL(id, h, file)
             path == Written(url)
         IN  /\ path # <<>>
             /\ RedirectAgent(url) = id.AgentID
             /\ TaskForm(path, id, h, file)
<1> DEFINE url == RedirectURL(id, h, file)
           path == Written(url)
           pod == PodSuffix(id)
           view == ViewSuffix(h, file)
           last == Last(id.ContainerIDs)
           exec == ExecutorOf(id)
           fw == id.FrameworkID
           agent == id.AgentID
           me == id.ID
           n == Depth(id)
           b == <<"system", "v1", "agent", agent, "logs", "v2", "task",
                  "frameworks", fw, "executors", exec, "runs", last>>
           S == {"system", "v1", "agent", agent, "logs", "v2", "task", "frameworks",
                 fw, "executors", exec, "runs", last, "tasks", me,
                 "files", "browse", file, "download"}
<1>1. url = (b \o pod) \o view
  BY DEF RedirectURL, ExecutorOf
<1>2. pod = IF id.ExecutorID # "" THEN <<"tasks", me>> ELSE <<>>
  BY DEF PodSuffix
<1>3. /\ h = "browseHandler" => view = <<"files", "browse">>
      /\ h = "discoverHandler" => view = <<file>>
      /\ h = "downloadHandler" => view = <<file, "download">>
  BY DEF ViewSuffix
<1> HIDE DEF url, pod, view, last, exec, fw, agent, me
<1>4. b \in Seq(S) /\ Len(b) = 13
  OBVIOUS
<1>5. /\ b[4] = agent /\ b[6] = "v2" /\ b[7] = "task" /\ b[8] = "frameworks"
      /\ b[9] = fw /\ b[10] = "executors" /\ b[11] = exec
      /\ b[12] = "runs" /\ b[13] = last
  OBVIOUS
<1>6. /\ <<"tasks", me>> \in Seq(S) /\ <<>> \in Seq(S) /\ <<"files", "browse">> \in Seq(S)
      /\ <<file>> \in Seq(S) /\ <<file, "download">> \in Seq(S)
  OBVIOUS
<1> HIDE DEF S, b
<1>7. pod \in Seq(S) /\ view \in Seq(S)
  BY <1>2, <1>3, <1>6 DEF Views
<1>8. n = 8 + Len(pod)
  <2>1. CASE id.ExecutorID = ""
    <3>1. n = 8 /\ pod = <<>>
      BY <1>2, <2>1 DEF Depth
    <3> HIDE DEF n
    <3>2. QED
      BY <3>1
  <2>2. CASE id.ExecutorID # ""
    <3>1. n = 10 /\ pod = <<"tasks", me>>
      BY <1>2, <2>2 DEF Depth
    <3> HIDE DEF n
    <3>2. Len(<<"tasks", me>>) = 2
      OBVIOUS
    <3>3. Len(pod) = 2
      BY <3>1, <3>2
    <3>4. QED
      BY <3>1, <3>3
  <2>3. QED
    BY <2>1, <2>2
<1>9. /\ url[4] = b[4] /\ path \in Seq(S) /\ Len(path) = 8 + Len(pod) + Len(view)
      /\ \A i \in 1 .. 8 : path[i] = b[i + 5]
      /\ \A i \in 1 .. Len(pod) : path[8 + i] = pod[i]
      /\ \A i \in 1 .. Len(view) : path[8 + Len(pod) + i] = view[i]
  <2> DEFINE a == b \o pod
  <2>d. url = a \o view
    BY <1>1
  <2>0. Len(pod) \in Nat /\ Len(view) \in Nat
    BY <1>7
  <2>a. /\ a \in Seq(S) /\ Len(a) = Len(b) + Len(pod)
        /\ \A i \in 1 .. Len(b) + Len(pod) : a[i] = IF i <= Len(b) THEN b[i] ELSE pod[i - Len(b)]
    BY <1>4, <1>7, ConcatProperties, Zenon
  <2> HIDE DEF a
  <2>c. a \in Seq(S)
    BY <2>a
  <2>b. /\ url \in Seq(S) /\ Len(url) = Len(a) + Len(view)
        /\ \A i \in 1 .. Len(a) + Len(view) : url[i] = IF i <= Len(a) THEN a[i] ELSE view[i - Len(a)]
    BY <1>7, <2>c, <2>d, ConcatProperties, Zenon
  <2> DEFINE p == Len(pod)
             v == Len(view)
  <2>1. p \in Nat /\ v \in Nat
    BY <2>0
  <2>2. a \in Seq(S) /\ \A i \in 1 .. 13 + p : a[i] = IF i <= 13 THEN b[i] ELSE pod[i - 13]
    BY <1>4, <2>a
  <2>3. Len(a) = 13 + p /\ Len(url) = 13 + p + v /\ url \in Seq(S)
    BY <1>4, <2>1, <2>a, <2>b
  <2>4. \A i \in 1 .. 13 + p + v : url[i] = IF i <= 13 + p THEN a[i] ELSE view[i - (13 + p)]
    BY <2>3, <2>b
  <2> HIDE DEF url, p, v
  <2>5. \A i \in 1 .. 13 : url[i] = b[i]
    <3>1. TAKE i \in 1 .. 13
    <3>2. i \in 1 .. 13 + p + v /\ i \in 1 .. 13 + p
      BY <2>1
    <3>3. QED
      BY <2>2, <2>4, <3>2
  <2>6. \A i \in 1 .. p : url[13 + i] = pod[i]
    <3>1. TAKE i \in 1 .. p
    <3>2. /\ 13 + i \in 1 .. 13 + p + v /\ 13 + i \in 1 .. 13 + p
          /\ ~(13 + i <= 13) /\ (13 + i) - 13 = i
      BY <2>1
    <3>3. QED
      BY <2>2, <2>4, <3>2
  <2>7. \A i \in 1 .. v : url[13 + p + i] = view[i]
    <3>1. TAKE i \in 1 .. v
    <3>2. /\ 13 + p + i \in 1 .. 13 + p + v /\ ~(13 + p + i <= 13 + p)
          /\ (13 + p + i) - (13 + p) = i
      BY <2>1
    <3>3. QED
      BY <2>4, <3>2
  <2>8. /\ path \in Seq(S) /\ Len(path) = 8 + p + v
        /\ \A i \in 1 .. 8 + p + v : path[i] = url[i + 5]
    BY <2>1, <2>3 DEF Written
  <2> HIDE DEF path
  <2>9. \A i \in 1 .. 8 : path[i] = b[i + 5]
    <3>1. TAKE i \in 1 .. 8
    <3>2. i \in 1 .. 8 + p + v /\ i + 5 \in 1 .. 13
      BY <2>1
    <3>3. QED
      BY <2>5, <2>8, <3>2
  <2>10. \A i \in 1 .. p : path[8 + i] = pod[i]
    <3>1. TAKE i \in 1 .. p
    <3>2. 8 + i \in 1 .. 8 + p + v /\ (8 + i) + 5 = 13 + i
      BY <2>1
    <3>3. QED
      BY <2>6, <2>8, <3>2
  <2>11. \A i \in 1 .. v : path[8 + p + i] = view[i]
    <3>1. TAKE i \in 1 .. v
    <3>2. 8 + p + i \in 1 .. 8 + p + v /\ (8 + p + i) + 5 = 13 + p + i
      BY <2>1
    <3>3. QED
      BY <2>7, <2>8, <3>2
  <2>12. url[4] = b[4]
    BY <2>5
  <2>13. QED
    BY <2>8, <2>9, <2>10, <2>11, <2>12 DEF p, v
<1> HIDE DEF path, n
<1>10. RedirectAgent(url) = agent
  BY <1>5, <1>9 DEF RedirectAgent
<1>11. /\ path[1] = b[6] /\ path[2] = b[7] /\ path[3] = b[8] /\ path[4] = b[9]
       /\ path[5] = b[10] /\ path[6] = b[11] /\ path[7] = b[12] /\ path[8] = b[13]
  BY <1>9
<1>12. ASSUME n = 10
       PROVE  path[9] = "tasks" /\ path[10] = me
  <2>1. pod = <<"tasks", me>>
    BY <1>12, <1>2, DepthOf, Zenon DEF n
  <2>2. Len(pod) = 2 /\ pod[1] = "tasks" /\ pod[2] = me
    BY <2>1
  <2>3. path[8 + 1] = pod[1] /\ path[8 + 2] = pod[2]
    BY <1>9, <2>2
  <2>4. QED
    BY <2>2, <2>3
<1>13. n \in Nat /\ \A i \in 1 .. Len(view) : path[n + i] = view[i]
  BY <1>7, <1>8, <1>9
<1>14. ASSUME h = "browseHandler"
       PROVE  Len(path) = n + 2 /\ path[n + 1] = "files" /\ path[n + 2] = "browse"
  <2>1. Len(view) = 2 /\ view[1] = "files" /\ view[2] = "browse"
    BY <1>3, <1>14
  <2>2. QED
    BY <1>8, <1>9, <1>13, <2>1
<1>15. ASSUME h = "discoverHandler"
       PROVE  Len(path) = n + 1 /\ path[n + 1] = file
  <2>1. Len(view) = 1 /\ view[1] = file
    BY <1>3, <1>15
  <2>2. QED
    BY <1>8, <1>9, <1>13, <2>1
<1>16. ASSUME h = "downloadHandler"
       PROVE  Len(path) = n + 2 /\ path[n + 1] = file /\ path[n + 2] = "download"
  <2>1. Len(view) = 2 /\ view[1] = file /\ view[2] = "download"
    BY <1>3, <1>16
  <2>2. QED
    BY <1>8, <1>9, <1>13, <2>1
<1>17. path # <<>> /\ DOMAIN path = 1 .. Len(path)
  <2>1. Len(path) # 0
    BY <1>7, <1>9
  <2>2. QED
    BY <1>9, <2>1
<1>18. RedirectView(path, h, file, n)
  BY <1>14, <1>15, <1>16 DEF RedirectView
<1>19. Directory(path, fw, exec, last)
  BY <1>5, <1>11, Zenon DEF Directory
<1>20. TaskForm(path, id, h, file)
  BY <1>12, <1>17, <1>18, <1>19, Zenon DEF TaskForm, n, last, exec, fw, me
<1>21. QED
  BY <1>5, <1>10, <1>17, <1>20, Zenon DEF path, url, agent

\* No other route matches the path of a redirect.
LEMMA OnlyReader ==
  ASSUME NEW id, NEW h \in Views, NEW file, NEW n \in Depths, n = Depth(id),
         NEW i \in 1 .. Len(Table),
         Matches(Table[i].path, Written(RedirectURL(id, h, file)))
  PROVE  Table[i] = To(ReaderTemplate(h, n), Reader(h))
<1> DEFINE path == Written(RedirectURL(id, h, file))
           t == Table[i].path
<1>10. TaskForm(path, id, h, file)
  BY RedirectShape
<1>2. Matches(t, path)
  OBVIOUS
<1>3. n = 8 \/ n = 10
  BY DEF Depths
<1> HIDE DEF path, t
<1>1. /\ DOMAIN path = 1 .. Len(path)
      /\ Directory(path, id.FrameworkID, ExecutorOf(id), Last(id.ContainerIDs))
      /\ RedirectView(path, h, file, n)
  BY <1>10, Zenon DEF TaskForm
<1>4. /\ Len(t) = Len(path)
      /\ \A k \in 1 .. Len(path) : ~IsVar(t[k]) => path[k] = t[k]
  BY <1>1, <1>2 DEF Matches
<1>5. Len(path) = IF h = "discoverHandler" THEN n + 1 ELSE n + 2
  BY <1>1, <1>3, ViewLength
<1>9. Len(path) \in Nat /\ Len(path) > 6
  <2>1. n \in Nat /\ n >= 8
    BY <1>3
  <2>2. QED
    BY <1>5, <2>1
<1>6. ASSUME NEW j \in 1 .. 7, Table[i] = V1Routes[j]
      PROVE  FALSE
  <2>1. t[1] = "v1"
    BY <1>6, V1Begin DEF t
  <2>2. path[1] = "v2" /\ 1 \in 1 .. Len(path)
    BY <1>1, <1>9 DEF Directory
  <2>3. path[1] = "v1"
    BY <1>4, <2>1, <2>2, SegmentKinds
  <2>4. QED
    BY <2>2, <2>3
<1>7. ASSUME NEW j \in 1 .. 13, Table[i] = V2Routes[j]
      PROVE  Table[i] = To(ReaderTemplate(h, n), Reader(h))
  <2>1. Len(t) \in Nat /\ Len(t) > 6
    BY <1>4, <1>9
  <2>2. PICK g \in Views, m \in Depths : Table[i] = To(ReaderTemplate(g, m), Reader(g))
    <3>1. ~(Len(V2Routes[j].path) <= 6)
      <4>1. t = V2Routes[j].path
        BY <1>7 DEF t
      <4>2. QED
        BY <2>1, <4>1
    <3>2. QED
      BY <1>7, <3>1, V2Templates
  <2>3. t = ReaderTemplate(g, m)
    BY <2>2 DEF t, To
  <2>4. RedirectView(t, g, FileVar, m)
    BY <2>3, TemplateSegments
  <2>5. m = 8 \/ m = 10
    BY DEF Depths
  <2>6. Len(t) = IF g = "discoverHandler" THEN m + 1 ELSE m + 2
    BY <2>4, <2>5, ViewLength
  <2>7. m = n /\ (g = "discoverHandler" <=> h = "discoverHandler")
    <3>1. CASE g = "discoverHandler"
      BY <1>3, <1>4, <1>5, <2>5, <2>6, <3>1
    <3>2. CASE g # "discoverHandler"
      BY <1>3, <1>4, <1>5, <2>5, <2>6, <3>2
    <3>3. QED
      BY <3>1, <3>2
  <2>9. g = h
    <3>1. CASE h = "discoverHandler"
      BY <2>7, <3>1
    <3>2. CASE h # "discoverHandler"
      <4>1. g # "discoverHandler"
        BY <2>7, <3>2
      <4>2. n + 2 \in 1 .. Len(path)
        BY <1>3, <1>5, <3>2
      <4>3. /\ g = "browseHandler" => t[n + 2] = "browse"
            /\ g = "downloadHandler" => t[n + 2] = "download"
        BY <2>4, <2>7 DEF RedirectView
      <4>4. /\ h = "browseHandler" => path[n + 2] = "browse"
            /\ h = "downloadHandler" => path[n + 2] = "download"
        BY <1>1 DEF RedirectView
      <4>5. /\ g = "browseHandler" => path[n + 2] = "browse"
            /\ g = "downloadHandler" => path[n + 2] = "download"
        BY <1>4, <4>2, <4>3, SegmentKinds
      <4>6. QED
        BY <3>2, <4>1, <4>4, <4>5 DEF Views
    <3>3. QED
      BY <3>1, <3>2
  <2>10. QED
    BY <2>2, <2>7, <2>9
<1>8. QED
  BY <1>6, <1>7, TableRoutes

\* The variables of a request for the log of the task that id names.
TaskVars(v, id, h, file) ==
  /\ v[FrameworkVar] = id.FrameworkID
  /\ v[ExecutorVar] = ExecutorOf(id)
  /\ v[ContainerVar] = Last(id.ContainerIDs)
  /\ Depth(id) = 10 => v[TaskVar] = id.ID /\ id.ID # ""
  /\ Depth(id) = 8 => v[TaskVar] = ""
  /\ h # "browseHandler" => v[FileVar] = file

\* The route that the redirect to a task leads to.
Lands(route, id, h, file) ==
  route.handler = Reader(h) /\ ~route.guarded /\ TaskVars(route.vars, id, h, file)

\* mux's choice is a route that matches, if there is one.
LEMMA RouteChosen ==
  ASSUME NEW path
  PROVE  LET route == RouteOf(path)
         IN  \/ route.handler = "NotFound"
             \/ \E i \in 1 .. Len(Table) :
                  /\ Matches(Table[i].path, path)
                  /\ route.handler = Table[i].handler /\ route.guarded = Table[i].guarded
                  /\ route.vars = VarsOf(Table[i].path, path)
<1> DEFINE I == {i \in 1 .. Len(Table) : Matches(Table[i].path, path)}
           k == IF I # {} THEN Min(I) ELSE 0
           e == IF k = 0 THEN To(<<>>, "NotFound") ELSE Table[k]
           route == RouteOf(path)
<1>1. Len(Table) \in Nat
  BY TableEntries
<1>2. I # {} => k \in I
  <2>1. I \in SUBSET Nat
    BY <1>1
  <2> HIDE DEF I
  <2>2. QED
    BY <2>1, MinNat
<1>3. route = [handler |-> e.handler, guarded |-> e.guarded, vars |-> VarsOf(e.path, path)]
  BY DEF RouteOf, SelectInSeq
<1> HIDE DEF route
<1>4. CASE I = {}
  <2>1. e = To(<<>>, "NotFound")
    BY <1>4
  <2> HIDE DEF e
  <2>2. route.handler = "NotFound"
    BY <1>3, <2>1 DEF To
  <2>3. QED
    BY <2>2 DEF route
<1>5. CASE I # {}
  <2>1. k \in 1 .. Len(Table) /\ Matches(Table[k].path, path)
    BY <1>2, <1>5
  <2> HIDE DEF k
  <2>2. e = Table[k]
    BY <1>1, <2>1
  <2> HIDE DEF e
  <2>3. /\ route.handler = Table[k].handler /\ route.guarded = Table[k].guarded
        /\ route.vars = VarsOf(Table[k].path, path)
    BY <1>3, <2>2
  <2>4. QED
    BY <2>1, <2>3 DEF route
<1>6. QED
  BY <1>4, <1>5

\* The variables of a redirect's path are what it was made from.
LEMMA RedirectVars ==
  ASSUME NEW id, NEW h \in Views, NEW file, NEW n \in Depths, n = Depth(id),
         Matches(ReaderTemplate(h, n), Written(RedirectURL(id, h, file)))
  PROVE  TaskVars(VarsOf(ReaderTemplate(h, n), Written(RedirectURL(id, h, file))), id, h, file)
<1> DEFINE path == Written(RedirectURL(id, h, file))
           p == ReaderTemplate(h, n)
           V == VarsOf(p, path)
<1>1. Matches(p, path)
  OBVIOUS
<1>18. TaskForm(path, id, h, file)
  BY RedirectShape
<1>3. /\ Directory(p, FrameworkVar, ExecutorVar, ContainerVar)
      /\ n = 10 => p[9] = "tasks" /\ p[10] = TaskVar
      /\ RedirectView(p, h, FileVar, n)
  BY TemplateSegments
<1>4. \A j \in 1 .. Len(p) :
        /\ p[j] = FrameworkVar => j = 4
        /\ p[j] = ExecutorVar => j = 6
        /\ p[j] = ContainerVar => j = 8
        /\ p[j] = TaskVar => n = 10 /\ j = 10
        /\ p[j] = FileVar => j = n + 1
  BY TemplateVars
<1>5. n = 8 \/ n = 10
  BY DEF Depths
<1> HIDE DEF path, p
<1>2. /\ DOMAIN path = 1 .. Len(path)
      /\ Directory(path, id.FrameworkID, ExecutorOf(id), Last(id.ContainerIDs))
      /\ n = 10 => path[9] = "tasks" /\ path[10] = id.ID
      /\ RedirectView(path, h, file, n)
  BY <1>18, Zenon DEF TaskForm
<1>7. Len(p) = IF h = "discoverHandler" THEN n + 1 ELSE n + 2
  BY <1>3, <1>5, ViewLength
<1>8. /\ Len(p) \in Nat /\ 4 \in 1 .. Len(p) /\ 6 \in 1 .. Len(p) /\ 8 \in 1 .. Len(p)
      /\ n + 1 \in 1 .. Len(p) /\ (n = 10 => 10 \in 1 .. Len(p))
  <2>1. n >= 8 /\ Len(p) \in Nat /\ Len(p) >= n + 1
    BY <1>5, <1>7
  <2>2. QED
    BY <1>5, <2>1
<1>9. ASSUME NEW v, IsVar(v)
      PROVE  /\ \A j \in 1 .. Len(p) :
                  p[j] = v /\ (\A l \in 1 .. Len(p) : p[l] = v => l = j) => V[v] = path[j]
             /\ (\A j \in 1 .. Len(p) : p[j] # v) => V[v] = ""
  <2>1. Len(p) \in Nat
    BY <1>8
  <2>2. ASSUME NEW j \in 1 .. Len(p), p[j] = v, \A l \in 1 .. Len(p) : p[l] = v => l = j
        PROVE  V[v] = path[j]
    BY <1>9, <2>1, <2>2, VarAt
  <2>3. ASSUME \A j \in 1 .. Len(p) : p[j] # v
        PROVE  V[v] = ""
    BY <1>9, <2>1, <2>3, VarNowhere
  <2>4. QED
    BY <2>2, <2>3
<1> HIDE DEF V
<1>10. /\ p[4] = FrameworkVar /\ p[6] = ExecutorVar /\ p[8] = ContainerVar
       /\ path[4] = id.FrameworkID /\ path[6] = ExecutorOf(id) /\ path[8] = Last(id.ContainerIDs)
  BY <1>2, <1>3, Zenon DEF Directory
<1>11. V[FrameworkVar] = id.FrameworkID
  <2>1. \A l \in 1 .. Len(p) : p[l] = FrameworkVar => l = 4
    BY <1>4, Zenon
  <2>2. QED
    BY <1>8, <1>9, <1>10, <2>1, SegmentKinds, ZenonT(40)
<1>12. V[ExecutorVar] = ExecutorOf(id)
  <2>1. \A l \in 1 .. Len(p) : p[l] = ExecutorVar => l = 6
    BY <1>4, Zenon
  <2>2. QED
    BY <1>8, <1>9, <1>10, <2>1, SegmentKinds, Zenon
<1>13. V[ContainerVar] = Last(id.ContainerIDs)
  <2>1. \A l \in 1 .. Len(p) : p[l] = ContainerVar => l = 8
    BY <1>4, Zenon
  <2>2. QED
    BY <1>8, <1>9, <1>10, <2>1, SegmentKinds, Zenon
<1>14. ASSUME n = 10
       PROVE  V[TaskVar] = id.ID /\ id.ID # ""
  <2>1. \A l \in 1 .. Len(p) : p[l] = TaskVar => l = 10
    BY <1>4, Zenon
  <2>2. p[10] = TaskVar /\ path[10] = id.ID /\ 10 \in 1 .. Len(p)
    BY <1>2, <1>3, <1>8, <1>14, Zenon
  <2>3. V[TaskVar] = id.ID
    BY <1>9, <2>1, <2>2, SegmentKinds, Zenon
  <2>4. \A j \in 1 .. Len(p) : IsVar(p[j]) => path[j] # ""
    BY <1>1, <1>2 DEF Matches
  <2>5. QED
    BY <2>2, <2>3, <2>4, SegmentKinds, Zenon
<1>15. ASSUME n = 8
       PROVE  V[TaskVar] = ""
  <2>1. \A j \in 1 .. Len(p) : p[j] # TaskVar
    BY <1>4, <1>15
  <2>2. QED
    BY <1>9, <2>1, SegmentKinds, Zenon
<1>16. ASSUME h # "browseHandler"
       PROVE  V[FileVar] = file
  <2> DEFINE m == n + 1
  <2>1. \A l \in 1 .. Len(p) : p[l] = FileVar => l = m
    BY <1>4, Zenon
  <2>2. m \in 1 .. Len(p)
    BY <1>8
  <2>3. p[m] = FileVar /\ path[m] = file
    BY <1>2, <1>3, <1>16, Zenon DEF RedirectView, Views
  <2> HIDE DEF m
  <2>4. QED
    BY <1>9, <2>1, <2>2, <2>3, SegmentKinds, Zenon
<1>17. TaskVars(V, id, h, file)
  BY <1>11, <1>12, <1>13, <1>14, <1>15, <1>16, Zenon DEF TaskVars
<1>19. QED
  BY <1>17 DEF V, p, path

\* A redirect leads to the reader it is meant for, with the variables it was made from.
LEMMA RedirectLands ==
  ASSUME NEW id, NEW h \in Views, NEW file
  PROVE  LET route == RouteOf(Written(RedirectURL(id, h, file)))
         IN  route.handler = "NotFound" \/ Lands(route, id, h, file)
<1>1. PICK n \in Depths : n = Depth(id)
  BY DepthOf
<1> DEFINE path == Written(RedirectURL(id, h, file))
           p == ReaderTemplate(h, n)
           route == RouteOf(path)
<1>2. SUFFICES ASSUME route.handler # "NotFound"
               PROVE  Lands(route, id, h, file)
  OBVIOUS
<1> HIDE DEF route
<1>3. PICK i \in 1 .. Len(Table) :
        /\ Matches(Table[i].path, path)
        /\ route.handler = Table[i].handler /\ route.guarded = Table[i].guarded
        /\ route.vars = VarsOf(Table[i].path, path)
  <2> HIDE DEF path
  <2>1. QED
    BY <1>2, RouteChosen DEF route
<1>4. Table[i] = To(p, Reader(h))
  BY <1>1, <1>3, OnlyReader
<1>5. Table[i].path = p /\ Table[i].handler = Reader(h) /\ ~Table[i].guarded
  <2> HIDE DEF p
  <2>1. QED
    BY <1>4 DEF To
<1>6. /\ route.handler = Reader(h) /\ ~route.guarded /\ route.vars = VarsOf(p, path)
      /\ Matches(p, path)
  BY <1>3, <1>5, Zenon
<1>7. TaskVars(VarsOf(p, path), id, h, file)
  BY <1>1, <1>6, RedirectVars
<1>8. QED
  BY <1>6, <1>7 DEF Lands

\* Nothing in a redirect is read back as something else.
Sound(id, file) ==
  {id.ID, id.FrameworkID, id.ExecutorID, Last(id.ContainerIDs), file} \cap DOMAIN Misread = {}

\* Then its path is read as it was written.
LEMMA ReadAsWritten ==
  ASSUME NEW id, NEW h \in Views, NEW file, Sound(id, file)
  PROVE  RedirectPath(RedirectURL(id, h, file)) = Written(RedirectURL(id, h, file))
<1> DEFINE path == Written(RedirectURL(id, h, file))
           last == Last(id.ContainerIDs)
           exec == ExecutorOf(id)
           S == Words \cup {id.ID, id.FrameworkID, exec, last, file}
<1>1. TaskForm(path, id, h, file)
  BY RedirectShape
<1>2. PICK n \in Depths : n = Depth(id)
  BY DepthOf
<1>3. {"v2", "task", "frameworks", "executors", "runs", "tasks", "files", "browse", "download"}
        \subseteq S
  BY DEF Words
<1>4. S \cap DOMAIN Misread = {}
  <2>1. exec \in {id.ID, id.ExecutorID}
    BY Zenon DEF ExecutorOf
  <2> HIDE DEF exec, last
  <2>2. QED
    BY <2>1, MisreadAssumption DEF Sound, last
<1>5. {id.ID, id.FrameworkID, exec, last, file} \subseteq S
  OBVIOUS
<1> HIDE DEF path, S, exec, last
<1>6. /\ DOMAIN path = 1 .. Len(path) /\ Directory(path, id.FrameworkID, exec, last)
      /\ n = 10 => path[9] = "tasks" /\ path[10] = id.ID
      /\ RedirectView(path, h, file, n)
  BY <1>1, <1>2, Zenon DEF TaskForm, exec, last
<1>7. n = 8 \/ n = 10
  BY DEF Depths
<1>8. Len(path) = IF h = "discoverHandler" THEN n + 1 ELSE n + 2
  BY <1>6, <1>7, ViewLength
<1>9. \A i \in 1 .. 8 : path[i] \in S
  BY <1>3, <1>5, <1>6 DEF Directory
<1>10. n = 10 => path[9] \in S /\ path[10] \in S
  BY <1>3, <1>5, <1>6
<1>11. path[n + 1] \in S /\ (h # "discoverHandler" => path[n + 2] \in S)
  BY <1>3, <1>5, <1>6 DEF RedirectView, Views
<1>12. \A i \in 1 .. Len(path) : path[i] \in S
  <2>1. CASE n = 8
    <3>1. Len(path) = 9 \/ (Len(path) = 10 /\ h # "discoverHandler")
      BY <1>8, <2>1
    <3>2. path[9] \in S /\ (h # "discoverHandler" => path[10] \in S)
      BY <1>11, <2>1
    <3>3. QED
      BY <1>9, <3>1, <3>2
  <2>2. CASE n = 10
    <3>1. Len(path) = 11 \/ (Len(path) = 12 /\ h # "discoverHandler")
      BY <1>8, <2>2
    <3>2. path[11] \in S /\ (h # "discoverHandler" => path[12] \in S)
      BY <1>11, <2>2
    <3>3. QED
      BY <1>9, <1>10, <2>2, <3>1, <3>2
  <2>3. QED
    BY <1>7, <2>1, <2>2
<1>13. ToSet(path) \cap DOMAIN Misread = {}
  BY <1>4, <1>6, <1>12 DEF ToSet
<1>14. QED
  BY <1>13 DEF RedirectPath, Parsed, path

-----------------------------------------------------------------------------
(***************************************************************************)
(* The inductive invariant: how far a request has come.                    *)
(***************************************************************************)
NodeIDs == ToSet(AgentIDs) \cup {"", "other", MasterID}

TaskStates ==
  [Tasks -> [status : Active \cup {"unknown", "completed"}, agent : ToSet(AgentIDs) \cup {""}]]

\* The client is sent to a task that has the name it asked for and has run.
Redirected(c) ==
  /\ Discovers(conn[c].route)
  /\ \E t \in Matching(NameOf(conn[c].route)) :
       /\ HasContainer(task, t)
       /\ conn[c].ans.body = RedirectURL(Canonical(t), conn[c].route.handler,
                                         FileOf(conn[c].route))

\* The calls that a handler which has not answered still makes.
OnTrack(c) ==
  IF Discovers(conn[c].route)
  THEN conn[c].todo \in {Lookups, <<"Completed">>}
  ELSE Planned(conn[c].todo, conn[c].route.handler)

RequestOK(r) ==
  r = [path |-> r.path, token |-> r.token, query |-> r.query, stream |-> r.stream]

\* A client has made this request: only NoRequest has the token "".
Given(r) == r.token # ""

ClientOK(c) ==
  /\ RequestOK(conn[c].req) /\ RouteOK(conn[c].route)
  /\ conn[c].node \in NodeIDs /\ conn[c].ans.code \in Code
  /\ conn[c].req = NoRequest => conn[c].todo = <<>> /\ conn[c].ans.code = 0
  /\ conn[c].req # NoRequest => phase = "serving" /\ Given(conn[c].req)
  /\ Busy(c) => conn[c].ans.code = 0 /\ OnTrack(c)
  /\ conn[c].ans.code = 303 => Redirected(c)

Configured ==
  phase = "serving" =>
    /\ cfg["role"] \in Roles
    /\ listen = "socket" \/ (listen = "port" /\ cfg["port"] \in Ports)

Globals ==
  /\ phase \in {"starting", "serving", "exited"}
  /\ listen \in {"nowhere", "socket", "port"}
  /\ reg \in DOMAIN AgentIDs
  /\ task \in TaskStates
  /\ granted \in BOOLEAN /\ cachedIP \in BOOLEAN
  /\ cachedID \in NodeIDs
  /\ mutex \in Clients \cup {Nobody}

Flow ==
  /\ Globals
  /\ Configured
  /\ Connections /\ Histories
  /\ \A c \in Clients : ClientOK(c)

\* Two of the properties are parts of Flow.
LEMMA FlowTypes == Flow => TypeOK /\ ServesValid
<1> SUFFICES ASSUME Flow
             PROVE  TypeOK /\ ServesValid
  OBVIOUS
<1>1. \A t \in Tasks : /\ task[t].status \in Active \cup {"unknown", "completed"}
                       /\ task[t].agent \in ToSet(AgentIDs) \cup {""}
  BY DEF Flow, Globals, TaskStates
<1>2. {granted, cachedIP} \subseteq BOOLEAN
  BY DEF Flow, Globals
<1>3. \A c \in Clients : /\ conn[c].ans.code \in Code
                         /\ Busy(c) => ~Answered(c) /\ conn[c].req # NoRequest
  BY DEF Flow, ClientOK, Busy, Answered
<1>4. TypeOK
  BY <1>1, <1>2, <1>3 DEF Flow, Globals, NodeIDs, TypeOK
<1>5. ServesValid
  BY DEF Flow, ClientOK, Configured, ServesValid
<1>6. QED
  BY <1>4, <1>5

\* A dcos-log that is starting has no requests.
LEMMA FlowInit == Init => Flow
<1> SUFFICES ASSUME Init
             PROVE  Flow
  OBVIOUS
<1>1. reg = 1 /\ 1 \in DOMAIN AgentIDs /\ AgentID \in ToSet(AgentIDs)
  <2>1. AgentIDs \in Seq(STRING) /\ AgentIDs # <<>>
    BY ServerAssumption
  <2>2. 1 \in DOMAIN AgentIDs
    BY <2>1
  <2>3. QED
    BY <2>2 DEF Init, AgentID, ToSet
<1>2. task \in TaskStates
  BY <1>1 DEF Init, TaskStates, Active
<1>3. Globals
  BY <1>1, <1>2 DEF Init, Globals, NodeIDs
<1>4. Configured
  BY DEF Init, Configured
<1>5. Connections /\ \A c \in Clients : conn[c] = [req |-> NoRequest, route |-> NoRoute, todo |-> <<>>,
                                node |-> "", ans |-> NoAnswer]
  BY DEF Init, Connections, Connection
<1>6. Histories
  BY DEF Init, Histories, History, Nothing
<1>7. RouteOK(NoRoute)
  BY RouteFacts DEF NoRoute
<1>8. \A c \in Clients : ClientOK(c)
  <2>1. TAKE c \in Clients
  <2>a. NoAnswer.code = 0
    BY DEF NoAnswer
  <2>2. /\ conn[c].req = NoRequest /\ conn[c].route = NoRoute /\ conn[c].todo = <<>>
        /\ conn[c].node = "" /\ conn[c].ans.code = 0
    <3> DEFINE k == [req |-> NoRequest, route |-> NoRoute, todo |-> <<>>, node |-> "",
                     ans |-> NoAnswer]
    <3>1. k.req = NoRequest /\ k.route = NoRoute /\ k.todo = <<>> /\ k.node = "" /\ k.ans = NoAnswer
      OBVIOUS
    <3>2. conn[c] = k
      BY <1>5
    <3> HIDE DEF k
    <3>3. QED
      BY <2>a, <3>1, <3>2
  <2>3. RequestOK(NoRequest) /\ "" \in NodeIDs /\ 0 \in Code /\ 0 # 303
    BY DEF RequestOK, NoRequest, NodeIDs, Code
  <2>4. ~Busy(c)
    BY <2>2 DEF Busy
  <2>5. QED
    BY <1>7, <2>2, <2>3, <2>4 DEF ClientOK
<1>9. QED
  BY <1>3, <1>4, <1>5, <1>6, <1>8 DEF Flow

-----------------------------------------------------------------------------
\* A step of the handler of one client leaves the others alone.
LEMMA OwnStep ==
  ASSUME Flow, NEW c \in Clients, Connections', Histories', Own(c), UNCHANGED <<server, env>>,
         cachedIP' \in BOOLEAN, cachedID' \in NodeIDs, mutex' \in Clients \cup {Nobody},
         ClientOK(c)'
  PROVE  Flow'
<1>1. UNCHANGED <<phase, cfg, listen, reg, task, granted>>
  BY DEF server, env
<1>2. Globals'
  BY <1>1 DEF Flow, Globals, TaskStates, NodeIDs
<1>3. Configured'
  BY <1>1 DEF Flow, Configured
<1>4. ASSUME NEW d \in Clients, d # c
      PROVE  ClientOK(d)'
  <2>1. conn'[d] = conn[d] /\ ClientOK(d)
    BY <1>4 DEF Own, Flow
  <2>2. UNCHANGED <<Busy(d), OnTrack(d)>>
    BY <2>1 DEF Busy, OnTrack
  <2>3. Redirected(d) => Redirected(d)'
    BY <1>1, <2>1 DEF Redirected, Canonical
  <2>4. QED
    BY <1>1, <2>1, <2>2, <2>3 DEF ClientOK
<1>5. QED
  BY <1>2, <1>3, <1>4 DEF Flow

\* A handler goes on with its calls.
LEMMA GoesOn ==
  ASSUME Flow, NEW c \in Clients, Busy(c), Own(c), UNCHANGED <<server, env>>,
         conn'[c].node \in NodeIDs, conn'[c].ans = conn[c].ans,
         IF Discovers(conn[c].route) THEN conn'[c].todo \in {Lookups, <<"Completed">>}
                                     ELSE Planned(conn'[c].todo, conn[c].route.handler)
  PROVE  ClientOK(c)'
<1>1. UNCHANGED <<phase, task>> /\ conn'[c].req = conn[c].req /\ conn'[c].route = conn[c].route
  BY DEF server, env, Own
<1>2. ClientOK(c)
  BY DEF Flow
<1>3. /\ conn[c].ans.code = 0 /\ conn[c].req # NoRequest
  BY <1>2 DEF ClientOK, Busy
<1>4. OnTrack(c)'
  BY <1>1 DEF OnTrack
<1>5. 0 # 303
  OBVIOUS
<1>6. QED
  BY <1>1, <1>2, <1>3, <1>4, <1>5 DEF ClientOK

\* A handler answers.
LEMMA Answers ==
  ASSUME Flow, NEW c \in Clients, Busy(c), Own(c), UNCHANGED <<server, env>>,
         conn'[c].todo = <<>>, conn'[c].node = "", conn'[c].ans.code \in Code,
         conn'[c].ans.code = 303 => Redirected(c)'
  PROVE  ClientOK(c)'
<1>1. UNCHANGED <<phase, task>> /\ conn'[c].req = conn[c].req /\ conn'[c].route = conn[c].route
  BY DEF server, env, Own
<1>2. ClientOK(c)
  BY DEF Flow
<1>3. /\ conn[c].req # NoRequest
  BY <1>2 DEF ClientOK, Busy
<1>4. ~Busy(c)' /\ conn'[c].node \in NodeIDs
  BY DEF Busy, NodeIDs
<1>5. QED
  BY <1>1, <1>2, <1>3, <1>4 DEF ClientOK

-----------------------------------------------------------------------------
\* The call a handler is about to make, and what comes behind it.
LEMMA Called ==
  ASSUME Flow, NEW c \in Clients, NEW call, Calling(c, call)
  PROVE  LET todo == conn[c].todo
             route == conn[c].route
         IN  /\ Busy(c) /\ conn[c].req # NoRequest /\ phase = "serving"
             /\ Discovers(route) =>
                  \/ call = "Running" /\ todo = Lookups /\ Rest(c) = <<"Completed">>
                  \/ call = "Completed" /\ todo = <<"Completed">> /\ Rest(c) = <<>>
             /\ ~Discovers(route) => call \in Call /\ Planned(todo, route.handler)
             /\ call \in Final =>
                  /\ ~Discovers(route) /\ Len(todo) = 1 /\ todo[1] = call
                  /\ call = FinalCall(route.handler)
             /\ call \in Preliminary =>
                  /\ ~Discovers(route)
                  /\ Planned(Rest(c), route.handler) /\ Len(todo) > 1
                  /\ Len(Rest(c)) = Len(todo) - 1
                  /\ \A i \in 1 .. Len(todo) - 1 : Rest(c)[i] = todo[i + 1]
<1> DEFINE todo == conn[c].todo
           route == conn[c].route
<1>1. Busy(c) /\ Head(todo) = call /\ ClientOK(c)
  BY DEF Calling, Flow
<1>2. conn[c].req # NoRequest /\ phase = "serving" /\ OnTrack(c)
  BY <1>1 DEF ClientOK, Busy
<1>3. Discovers(route) =>
        \/ call = "Running" /\ todo = Lookups /\ Rest(c) = <<"Completed">>
        \/ call = "Completed" /\ todo = <<"Completed">> /\ Rest(c) = <<>>
  <2>1. Head(Lookups) = "Running" /\ Tail(Lookups) = <<"Completed">>
    BY DEF Lookups
  <2>2. Head(<<"Completed">>) = "Completed" /\ Tail(<<"Completed">>) = <<>>
    OBVIOUS
  <2>3. QED
    BY <1>1, <1>2, <2>1, <2>2 DEF OnTrack, Rest
<1>4. ~Discovers(route) => Planned(todo, route.handler)
  BY <1>2 DEF OnTrack
<1>5. ~Discovers(route) => call \in Call
  BY <1>1, <1>4 DEF Planned
<1>6. ASSUME call \in Final
      PROVE  /\ ~Discovers(route) /\ Len(todo) = 1 /\ todo[1] = call
             /\ call = FinalCall(route.handler)
  <2>1. ~Discovers(route)
    BY <1>3, <1>6 DEF Final
  <2>2. todo[1] \notin Preliminary /\ todo[1] = call
    BY <1>1, <1>4, <1>6, <2>1 DEF Final, Preliminary, Planned
  <2>3. Len(todo) = 1
    <3>1. Len(todo) \in Nat /\ Len(todo) > 0 /\ \A i \in 1 .. Len(todo) - 1 : todo[i] \in Preliminary
      BY <1>4, <2>1 DEF Planned
    <3> DEFINE n == Len(todo)
    <3>2. n \in Nat /\ n > 0
      BY <3>1
    <3> HIDE DEF n
    <3>3. n # 1 => 1 \in 1 .. n - 1
      BY <3>2
    <3>4. QED
      BY <2>2, <3>1, <3>3 DEF n
  <2>4. QED
    BY <1>4, <2>1, <2>2, <2>3 DEF Planned
<1>7. ASSUME call \in Preliminary
      PROVE  /\ ~Discovers(route)
             /\ Planned(Rest(c), route.handler) /\ Len(todo) > 1
             /\ Len(Rest(c)) = Len(todo) - 1
             /\ \A i \in 1 .. Len(todo) - 1 : Rest(c)[i] = todo[i + 1]
  <2>1. ~Discovers(route)
    BY <1>3, <1>7 DEF Preliminary
  <2>2. QED
    BY <1>1, <1>4, <1>7, <2>1, PlannedTail DEF Rest
<1>8. QED
  BY <1>1, <1>2, <1>3, <1>4, <1>5, <1>6, <1>7

-----------------------------------------------------------------------------
\* What a step of a client's handler leaves alone.
Keeps(c) ==
  /\ Connections' /\ Own(c)
  /\ Histories'
  /\ \A d \in Clients :
       /\ seen'[d].first = seen[d].first /\ seen'[d].allowed = seen[d].allowed
       /\ seen'[d].targets = seen[d].targets /\ seen'[d].there = seen[d].there
       /\ seen'[d].clean => seen[d].clean
       /\ d # c => seen'[d] = seen[d]
  /\ UNCHANGED <<server, env>>
  /\ cachedIP' \in BOOLEAN /\ cachedID' \in NodeIDs /\ mutex' \in Clients \cup {Nobody}

\* Auth is still to come.
Guards(s) == \E i \in 1 .. Len(s) : s[i] = "Authorize"

\* A preliminary call returns; Auth is passed only with a token that is accepted.
Continues(c) ==
  /\ conn'[c].node \in NodeIDs /\ conn'[c].ans = conn[c].ans
  /\ ~Discovers(conn[c].route)
  /\ Planned(conn'[c].todo, conn[c].route.handler)
  /\ Guards(conn[c].todo) /\ ~granted => Guards(conn'[c].todo)

\* No running task was found.
Retries(c) ==
  /\ conn'[c].node \in NodeIDs /\ conn'[c].ans = conn[c].ans
  /\ Discovers(conn[c].route)
  /\ conn[c].todo = Lookups /\ conn'[c].todo = <<"Completed">>

\* The handler answers; without an accepted token it has nothing of a sandbox but what the
\* journal holds of it.
Ends(c) ==
  /\ conn'[c].todo = <<>> /\ conn'[c].node = ""
  /\ conn'[c].ans.code \in Code /\ conn'[c].ans.code # 0
  /\ conn'[c].ans.code = 303 => Redirected(c)'
  /\ conn'[c].ans.code = 200 /\ conn'[c].ans.body # <<>> /\ Sandboxed(conn[c].route) /\ ~granted =>
       conn[c].route.guarded /\ Len(conn[c].todo) = 1 /\ conn[c].todo[1] = "Journal"

Effect(c) == Keeps(c) /\ (Continues(c) \/ Retries(c) \/ Ends(c))

\* Nothing of the histories changes.
LEMMA KeepsSeen ==
  ASSUME Flow, NEW c \in Clients, Connections', Own(c), UNCHANGED <<server, env, seen>>,
         cachedIP' \in BOOLEAN, cachedID' \in NodeIDs, mutex' \in Clients \cup {Nobody}
  PROVE  Keeps(c)
<1>1. Histories'
  BY DEF Flow, Histories
<1>2. QED
  BY <1>1 DEF Keeps

\* A preliminary call other than Auth's.
LEMMA KeepsGuard ==
  ASSUME Flow, NEW c \in Clients, NEW call \in Preliminary \ {"Authorize"}, Calling(c, call)
  PROVE  Guards(conn[c].todo) => Guards(Rest(c))
<1> DEFINE s == conn[c].todo
           t == Rest(c)
<1>1. /\ Len(s) > 1 /\ Len(t) = Len(s) - 1 /\ Planned(s, conn[c].route.handler)
      /\ \A i \in 1 .. Len(s) - 1 : t[i] = s[i + 1]
  BY Called
<1>2. s \in Seq(Call) /\ Len(s) \in Nat
  BY <1>1 DEF Planned
<1>3. s[1] = call
  BY <1>1, <1>2 DEF Calling
<1> HIDE DEF s, t
<1>4. ASSUME NEW i \in 1 .. Len(s), s[i] = "Authorize"
      PROVE  \E j \in 1 .. Len(t) : t[j] = "Authorize"
  <2>1. i # 1
    BY <1>3, <1>4
  <2>2. i - 1 \in 1 .. Len(s) - 1 /\ (i - 1) + 1 = i
    BY <1>2, <2>1
  <2>3. t[i - 1] = s[i]
    BY <1>1, <2>2
  <2>4. QED
    BY <1>1, <1>4, <2>2, <2>3
<1>5. QED
  BY <1>4 DEF Guards, s, t

\* The cache of MesosID.
LEMMA MesosIDEffect ==
  ASSUME Flow, NEW c \in Clients, MesosIDHit(c) \/ MesosIDMiss(c)
  PROVE  Effect(c)
<1>1. Calling(c, "MesosID") /\ "MesosID" \in Preliminary \ {"Authorize"}
  BY DEF MesosIDHit, MesosIDMiss, Preliminary
<1>2. /\ ~Discovers(conn[c].route) /\ Planned(conn[c].todo, conn[c].route.handler)
      /\ Planned(Rest(c), conn[c].route.handler)
  BY <1>1, Called
<1>3. Guards(conn[c].todo) => Guards(Rest(c))
  BY <1>1, KeepsGuard
<1>4. UNCHANGED <<server, env, cachedIP, cachedID, mutex, seen>>
  BY DEF MesosIDHit, MesosIDMiss, cache
<1>5. /\ cachedIP' \in BOOLEAN /\ cachedID' \in NodeIDs /\ mutex' \in Clients \cup {Nobody}
      /\ NodeIDs' = NodeIDs /\ cachedID \in NodeIDs /\ conn[c].node \in NodeIDs
  BY <1>4 DEF Flow, Globals, ClientOK, NodeIDs
<1>6. Connections
  BY DEF Flow
<1>7. CASE MesosIDHit(c)
  <2>1. conn' = [conn EXCEPT ![c].todo = Tail(@), ![c].node = cachedID]
    BY <1>7 DEF MesosIDHit
  <2>2. /\ Connections' /\ Own(c) /\ conn'[c].todo = Rest(c) /\ conn'[c].node = cachedID
        /\ conn'[c].ans = conn[c].ans
    BY <1>6, <2>1, Updates DEF Rest
  <2>3. Keeps(c)
    BY <1>4, <1>5, <2>2, KeepsSeen
  <2>4. QED
    BY <1>2, <1>3, <1>5, <2>2, <2>3 DEF Effect, Continues
<1>8. CASE MesosIDMiss(c)
  <2> DEFINE s == conn[c].todo
             new == <<"DetectIP", "State", "Store">> \o Tail(s)
  <2>1. Proceed(c, new)
    BY <1>8 DEF MesosIDMiss, Rest
  <2>2. /\ Connections' /\ Own(c) /\ conn'[c].todo = new /\ conn'[c].node = conn[c].node
        /\ conn'[c].ans = conn[c].ans
    <3> HIDE DEF new
    <3>1. QED
      BY <1>6, <2>1, Updates
  <2>3. Keeps(c)
    BY <1>4, <1>5, <2>2, KeepsSeen
  <2>4. /\ Planned(new, conn[c].route.handler) /\ Len(new) = Len(s) + 2
        /\ \A i \in 2 .. Len(s) : new[i + 2] = s[i]
    BY <1>1, <1>2, PlannedMiss DEF Calling
  <2>5. s[1] = "MesosID" /\ Len(s) \in Nat
    BY <1>1, <1>2 DEF Calling, Planned
  <2> HIDE DEF new, s
  <2>6. Guards(s) => Guards(new)
    <3>1. ASSUME NEW i \in 1 .. Len(s), s[i] = "Authorize"
          PROVE  \E j \in 1 .. Len(new) : new[j] = "Authorize"
      <4>1. i # 1
        BY <2>5, <3>1
      <4>2. i \in 2 .. Len(s) /\ i + 2 \in 1 .. Len(s) + 2
        BY <2>5, <4>1
      <4>3. new[i + 2] = "Authorize"
        BY <2>4, <3>1, <4>2
      <4>4. QED
        BY <2>4, <4>2, <4>3
    <3>2. QED
      BY <3>1 DEF Guards
  <2>7. QED
    BY <1>2, <1>5, <2>2, <2>3, <2>4, <2>6 DEF Effect, Continues, s
<1>9. QED
  BY <1>7, <1>8

\* DetectIP with its cache and its script.
LEMMA DetectIPEffect ==
  ASSUME Flow, NEW c \in Clients, DetectIPHit(c) \/ DetectIPRun(c)
  PROVE  Effect(c)
<1>1. Calling(c, "DetectIP") /\ "DetectIP" \in Preliminary \ {"Authorize"}
  BY DEF DetectIPHit, DetectIPRun, Preliminary
<1>2. /\ ~Discovers(conn[c].route) /\ Planned(conn[c].todo, conn[c].route.handler)
      /\ Planned(Rest(c), conn[c].route.handler)
  BY <1>1, Called
<1>3. Guards(conn[c].todo) => Guards(Rest(c))
  BY <1>1, KeepsGuard
<1>4. UNCHANGED <<server, env, cachedIP, cachedID, seen>> /\ mutex' \in {mutex, c}
  BY DEF DetectIPHit, DetectIPRun, cache
<1>5. /\ cachedIP' \in BOOLEAN /\ cachedID' \in NodeIDs /\ mutex' \in Clients \cup {Nobody}
      /\ NodeIDs' = NodeIDs /\ conn[c].node \in NodeIDs
  BY <1>4 DEF Flow, Globals, ClientOK, NodeIDs
<1>6. Connections
  BY DEF Flow
<1>7. CASE DetectIPHit(c)
  <2>1. Proceed(c, Rest(c))
    BY <1>7 DEF DetectIPHit
  <2>2. /\ Connections' /\ Own(c) /\ conn'[c].todo = Rest(c) /\ conn'[c].node = conn[c].node
        /\ conn'[c].ans = conn[c].ans
    BY <1>6, <2>1, Updates
  <2>3. Keeps(c)
    BY <1>4, <1>5, <2>2, KeepsSeen
  <2>4. QED
    BY <1>2, <1>3, <1>5, <2>2, <2>3 DEF Effect, Continues
<1>8. CASE DetectIPRun(c)
  <2> DEFINE s == conn[c].todo
             new == <<"Script">> \o Tail(s)
  <2>1. Proceed(c, new)
    BY <1>8 DEF DetectIPRun, Rest
  <2>2. /\ Connections' /\ Own(c) /\ conn'[c].todo = new /\ conn'[c].node = conn[c].node
        /\ conn'[c].ans = conn[c].ans
    BY <1>6, <2>1, Updates
  <2>3. Keeps(c)
    BY <1>4, <1>5, <2>2, KeepsSeen
  <2>4. /\ Planned(new, conn[c].route.handler) /\ Len(new) = Len(s)
        /\ \A i \in 2 .. Len(s) : new[i] = s[i]
    BY <1>1, <1>2, PlannedScript DEF Calling
  <2>5. s[1] = "DetectIP" /\ Len(s) \in Nat
    BY <1>1, <1>2 DEF Calling, Planned
  <2> HIDE DEF new, s
  <2>6. Guards(s) => Guards(new)
    <3>1. ASSUME NEW i \in 1 .. Len(s), s[i] = "Authorize"
          PROVE  \E j \in 1 .. Len(new) : new[j] = "Authorize"
      <4>1. i # 1
        BY <2>5, <3>1
      <4>2. i \in 2 .. Len(s)
        BY <2>5, <4>1
      <4>3. QED
        BY <2>4, <3>1, <4>2
    <3>2. QED
      BY <3>1 DEF Guards
  <2>7. QED
    BY <1>2, <1>5, <2>2, <2>3, <2>4, <2>6 DEF Effect, Continues, s
<1>9. QED
  BY <1>7, <1>8

\* A call fails.
LEMMA KeepsFailed ==
  ASSUME Flow, NEW c \in Clients, Connections', Own(c), UNCHANGED <<server, env>>, Failed(c),
         cachedIP' \in BOOLEAN, cachedID' \in NodeIDs, mutex' \in Clients \cup {Nobody}
  PROVE  Keeps(c)
<1>1. Histories
  BY DEF Flow
<1>2. /\ Histories' /\ ~seen'[c].clean
      /\ \A d \in Clients :
           /\ seen'[d].first = seen[d].first /\ seen'[d].allowed = seen[d].allowed
           /\ seen'[d].targets = seen[d].targets /\ seen'[d].there = seen[d].there
           /\ d # c => seen'[d] = seen[d]
  BY <1>1, FailedEffect
<1>3. QED
  BY <1>2 DEF Keeps

\* A handler answers with no redirect and, without an accepted token, with no content.
Refuses(c) ==
  \E code \in Code \ {0, 303} : \E body : (granted \/ body = <<>>) /\ Answer(c, code, body)

\* A code without a body is a refusal.
LEMMA RefusesWith ==
  ASSUME NEW c \in Clients, NEW code \in Code \ {0, 303}, Answer(c, code, <<>>)
  PROVE  Refuses(c)
<1> DEFINE body == <<>>
<1>1. (granted \/ body = <<>>) /\ Answer(c, code, body)
  OBVIOUS
<1> HIDE DEF body
<1>2. QED
  BY <1>1 DEF Refuses

\* The answers without content, and those with one.
LEMMA Refusals ==
  ASSUME NEW c \in Clients
  PROVE  /\ Answer(c, 200, <<>>) => Refuses(c)
         /\ Answer(c, 204, <<>>) => Refuses(c)
         /\ Answer(c, 400, <<>>) => Refuses(c)
         /\ Answer(c, 401, <<>>) => Refuses(c)
         /\ Answer(c, 404, <<>>) => Refuses(c)
         /\ Answer(c, 500, <<>>) => Refuses(c)
         /\ \A body : granted /\ Answer(c, 200, body) => Refuses(c)
<1>1. Answer(c, 200, <<>>) => Refuses(c)
  <2> DEFINE code == 200
  <2>1. code \in Code \ {0, 303}
    BY DEF Code
  <2> HIDE DEF code
  <2>2. Answer(c, code, <<>>) => Refuses(c)
    BY <2>1, RefusesWith
  <2>3. QED
    BY <2>2 DEF code
<1>2. Answer(c, 204, <<>>) => Refuses(c)
  <2> DEFINE code == 204
  <2>1. code \in Code \ {0, 303}
    BY DEF Code
  <2> HIDE DEF code
  <2>2. Answer(c, code, <<>>) => Refuses(c)
    BY <2>1, RefusesWith
  <2>3. QED
    BY <2>2 DEF code
<1>3. Answer(c, 400, <<>>) => Refuses(c)
  <2> DEFINE code == 400
  <2>1. code \in Code \ {0, 303}
    BY DEF Code
  <2> HIDE DEF code
  <2>2. Answer(c, code, <<>>) => Refuses(c)
    BY <2>1, RefusesWith
  <2>3. QED
    BY <2>2 DEF code
<1>4. Answer(c, 401, <<>>) => Refuses(c)
  <2> DEFINE code == 401
  <2>1. code \in Code \ {0, 303}
    BY DEF Code
  <2> HIDE DEF code
  <2>2. Answer(c, code, <<>>) => Refuses(c)
    BY <2>1, RefusesWith
  <2>3. QED
    BY <2>2 DEF code
<1>5. Answer(c, 404, <<>>) => Refuses(c)
  <2> DEFINE code == 404
  <2>1. code \in Code \ {0, 303}
    BY DEF Code
  <2> HIDE DEF code
  <2>2. Answer(c, code, <<>>) => Refuses(c)
    BY <2>1, RefusesWith
  <2>3. QED
    BY <2>2 DEF code
<1>6. Answer(c, 500, <<>>) => Refuses(c)
  <2> DEFINE code == 500
  <2>1. code \in Code \ {0, 303}
    BY DEF Code
  <2> HIDE DEF code
  <2>2. Answer(c, code, <<>>) => Refuses(c)
    BY <2>1, RefusesWith
  <2>3. QED
    BY <2>2 DEF code
<1>7. ASSUME NEW body, granted, Answer(c, 200, body)
      PROVE  Refuses(c)
  <2> DEFINE code == 200
  <2>1. code \in Code \ {0, 303} /\ Answer(c, code, body)
    BY <1>7 DEF Code
  <2> HIDE DEF code
  <2>2. QED
    BY <1>7, <2>1 DEF Refuses
<1>8. QED
  BY <1>1, <1>2, <1>3, <1>4, <1>5, <1>6, <1>7

\* A handler that refuses ends its request, whatever it did to the caches.
LEMMA RefusedEffect ==
  ASSUME Flow, NEW c \in Clients, Refuses(c), seen' = seen \/ Failed(c), UNCHANGED <<server, env>>,
         cachedIP' \in BOOLEAN, cachedID' \in NodeIDs, mutex' \in Clients \cup {Nobody}
  PROVE  Effect(c)
<1>1. PICK code \in Code \ {0, 303} : \E body : (granted \/ body = <<>>) /\ Answer(c, code, body)
  BY DEF Refuses
<1>2. PICK body : (granted \/ body = <<>>) /\ Answer(c, code, body)
  BY <1>1
<1>3. Connections
  BY DEF Flow
<1>4. /\ Connections' /\ Own(c) /\ conn'[c].todo = <<>> /\ conn'[c].node = ""
      /\ conn'[c].ans.code = code /\ conn'[c].ans.body = body
  BY <1>2, <1>3, AnswerGiven, ZenonT(40)
<1>5. Keeps(c)
  <2>1. CASE seen' = seen
    BY <1>4, <2>1, KeepsSeen
  <2>2. CASE Failed(c)
    BY <1>4, <2>2, KeepsFailed
  <2>3. QED
    BY <2>1, <2>2
<1>6. QED
  BY <1>2, <1>4, <1>5 DEF Effect, Ends

\* The script returns or fails.
LEMMA ScriptEffect ==
  ASSUME Flow, NEW c \in Clients, ScriptDone(c) \/ ScriptFails(c)
  PROVE  Effect(c)
<1>1. Calling(c, "Script") /\ "Script" \in Preliminary \ {"Authorize"}
  BY DEF ScriptDone, ScriptFails, Preliminary
<1>2. ~Discovers(conn[c].route) /\ Planned(Rest(c), conn[c].route.handler)
  BY <1>1, Called
<1>3. Guards(conn[c].todo) => Guards(Rest(c))
  BY <1>1, KeepsGuard
<1>4. UNCHANGED <<server, env, cachedID>> /\ mutex' = Nobody /\ cachedIP' \in {TRUE, cachedIP}
  BY DEF ScriptDone, ScriptFails
<1>5. /\ cachedIP' \in BOOLEAN /\ cachedID' \in NodeIDs /\ mutex' \in Clients \cup {Nobody}
      /\ conn[c].node \in NodeIDs
  BY <1>4 DEF Flow, Globals, ClientOK, NodeIDs
<1>6. Connections /\ Histories
  BY DEF Flow
<1>7. CASE ScriptDone(c)
  <2>1. Proceed(c, Rest(c)) /\ seen' = seen
    BY <1>7 DEF ScriptDone
  <2>2. /\ Connections' /\ Own(c) /\ conn'[c].todo = Rest(c) /\ conn'[c].node = conn[c].node
        /\ conn'[c].ans = conn[c].ans
    BY <1>6, <2>1, Updates
  <2>3. Keeps(c)
    BY <1>4, <1>5, <2>1, <2>2, KeepsSeen
  <2>4. QED
    BY <1>2, <1>3, <1>5, <2>2, <2>3 DEF Effect, Continues
<1>8. CASE ScriptFails(c)
  <2>1. Answer(c, 500, <<>>) /\ Failed(c)
    BY <1>8 DEF ScriptFails
  <2>2. Refuses(c)
    BY <2>1, Refusals
  <2>3. QED
    BY <1>4, <1>5, <2>1, <2>2, RefusedEffect
<1>9. QED
  BY <1>7, <1>8

\* The agent that the state of mesos has for this node, if it has one.
LEMMA LocalSlaveID ==
  ASSUME NEW slaves, Len(slaves) \in Nat,
         \A i \in 1 .. Len(slaves) : slaves[i].pid = "here" => slaves[i].id = AgentID
  PROVE  LocalSlave(slaves) \in {AgentID, ""}
<1> DEFINE P(s) == s.pid # "there"
           I == {i \in 1 .. Len(slaves) : P(slaves[i])}
           k == SelectInSeq(slaves, LAMBDA s : s.pid # "there")
<1>1. k = IF I # {} THEN Min(I) ELSE 0
  BY DEF SelectInSeq
<1>2. I # {} => Min(I) \in I
  <2>1. I \subseteq Nat
    OBVIOUS
  <2> HIDE DEF I
  <2>2. QED
    BY <2>1, MinNat
<1>3. k = 0 \/ k \in 1 .. Len(slaves)
  BY <1>1, <1>2
<1> HIDE DEF k
<1>4. QED
  BY <1>3 DEF LocalSlave, k

\* The ID that MesosID gets out of a state, "" if it is an error.
LEMMA NodeFound ==
  ASSUME NEW state \in States
  PROVE  NodeID(state) \in IF cfg["role"] = "master" THEN {MasterID, ""} ELSE {AgentID, ""}
<1>1. PICK a \in {"there", "garbled", "alone"} :
        /\ state.id \in {MasterID, ""}
        /\ IF a = "alone" THEN state.slaves = <<Slave("there", "other")>>
           ELSE state.slaves = <<Slave(a, "other"), Slave("here", AgentID)>>
  <2> DEFINE two == <<Slave("there", "other"), Slave("here", AgentID)>>
             odd == <<Slave("garbled", "other"), Slave("here", AgentID)>>
             one == <<Slave("there", "other")>>
             none == ""
  <2>1. state \in {[id |-> MasterID, slaves |-> two], [id |-> MasterID, slaves |-> odd],
                   [id |-> none, slaves |-> one]}
    BY Zenon DEF States
  <2> HIDE DEF two, odd, one, none
  <2>2. \/ state.id = MasterID /\ state.slaves = two
        \/ state.id = MasterID /\ state.slaves = odd
        \/ state.id = none /\ state.slaves = one
    BY <2>1
  <2>3. QED
    BY <2>2, Zenon DEF two, odd, one, none
<1>2. /\ Len(state.slaves) \in Nat
      /\ \A i \in 1 .. Len(state.slaves) : state.slaves[i].pid = "here" => state.slaves[i].id = AgentID
  <2> DEFINE x == Slave(a, "other")
             y == Slave("here", AgentID)
             z == Slave("there", "other")
  <2>1. x.pid # "here" /\ y.id = AgentID /\ z.pid # "here"
    BY DEF Slave
  <2> HIDE DEF x, y, z
  <2>2. state.slaves = <<z>> \/ state.slaves = <<x, y>>
    BY <1>1 DEF x, y, z
  <2>3. QED
    BY <2>1, <2>2
<1>3. LocalSlave(state.slaves) \in {AgentID, ""}
  BY <1>2, LocalSlaveID
<1>4. QED
  BY <1>1, <1>3 DEF NodeID

\* What becomes of a request for the state.
LEMMA FetchedState ==
  ASSUME NEW c \in Clients, FetchState(c)
  PROVE  /\ Calling(c, "State") /\ UNCHANGED <<server, env, cache>>
         /\ \/ \E node \in IF cfg["role"] = "master" THEN {MasterID} ELSE {AgentID} :
                 /\ granted /\ seen' = seen
                 /\ conn' = [conn EXCEPT ![c].todo = Tail(@), ![c].node = node]
            \/ Answer(c, 500, <<>>) /\ granted /\ Failed(c)
            \/ Answer(c, 500, <<>>) /\ ~granted /\ seen' = seen
<1>1. CASE \E state \in States : StateFound(c, state)
  <2>1. PICK state \in States : StateFound(c, state)
    BY <1>1
  <2> DEFINE node == NodeID(state)
  <2>2. node \in IF cfg["role"] = "master" THEN {MasterID} ELSE {AgentID}
    BY <2>1, NodeFound DEF StateFound
  <2>3. /\ granted /\ seen' = seen
        /\ conn' = [conn EXCEPT ![c].todo = Tail(@), ![c].node = node]
    BY <2>1 DEF StateFound
  <2> HIDE DEF node
  <2>4. QED
    BY <2>2, <2>3 DEF FetchState
<1>2. CASE \E state \in States : NodeMissing(c, state)
  BY <1>2 DEF NodeMissing, FetchState
<1>3. CASE StateRefused(c)
  BY <1>3 DEF StateRefused, FetchState
<1>4. QED
  BY <1>1, <1>2, <1>3 DEF FetchState

\* MesosID reads the state of mesos and fills its cache.
LEMMA StateEffect ==
  ASSUME Flow, NEW c \in Clients, FetchState(c) \/ Store(c)
  PROVE  Effect(c)
<1>1. PICK call \in {"State", "Store"} : Calling(c, call)
  BY DEF FetchState, Store
<1>2. call \in Preliminary \ {"Authorize"}
  BY DEF Preliminary
<1>3. ~Discovers(conn[c].route) /\ Planned(Rest(c), conn[c].route.handler)
  BY <1>1, <1>2, Called
<1>4. Guards(conn[c].todo) => Guards(Rest(c))
  BY <1>1, <1>2, KeepsGuard
<1>5. UNCHANGED <<server, env, cachedIP, mutex>> /\ cachedID' \in {cachedID, conn[c].node}
  BY DEF FetchState, Store, cache
<1>6. /\ cachedIP' \in BOOLEAN /\ cachedID' \in NodeIDs /\ mutex' \in Clients \cup {Nobody}
      /\ conn[c].node \in NodeIDs
  BY <1>5 DEF Flow, Globals, ClientOK, NodeIDs
<1>7. Connections
  BY DEF Flow
<1> DEFINE Nodes == IF cfg["role"] = "master" THEN {MasterID} ELSE {AgentID}
           Goes(node) == conn' = [conn EXCEPT ![c].todo = Tail(@), ![c].node = node]
<1>8. ASSUME NEW node \in Nodes, seen' = seen, Goes(node)
      PROVE  Effect(c)
  <2>1. node \in NodeIDs
    BY <1>8 DEF Flow, Globals, NodeIDs, AgentID, ToSet
  <2>2. /\ Connections' /\ Own(c) /\ conn'[c].todo = Rest(c) /\ conn'[c].node = node
        /\ conn'[c].ans = conn[c].ans
    BY <1>7, <1>8, Updates DEF Rest
  <2>3. Keeps(c)
    BY <1>5, <1>6, <1>8, <2>2, KeepsSeen
  <2>4. QED
    BY <1>3, <1>4, <2>1, <2>2, <2>3 DEF Effect, Continues
<1>9. ASSUME Answer(c, 500, <<>>), seen' = seen \/ Failed(c)
      PROVE  Effect(c)
  <2>1. Refuses(c)
    BY <1>9, Refusals
  <2>2. QED
    BY <1>5, <1>6, <1>9, <2>1, RefusedEffect
<1>12. CASE FetchState(c)
  <2>1. \/ \E node \in Nodes : seen' = seen /\ Goes(node)
        \/ Answer(c, 500, <<>>) /\ (seen' = seen \/ Failed(c))
    BY <1>12, FetchedState
  <2> HIDE DEF Nodes, Goes
  <2>2. QED
    BY <1>8, <1>9, <2>1
<1>10. CASE Store(c)
  <2>1. Proceed(c, Rest(c)) /\ seen' = seen
    BY <1>10 DEF Store
  <2>2. /\ Connections' /\ Own(c) /\ conn'[c].todo = Rest(c) /\ conn'[c].node = conn[c].node
        /\ conn'[c].ans = conn[c].ans
    BY <1>7, <2>1, Updates
  <2>3. Keeps(c)
    BY <1>5, <1>6, <2>1, <2>2, KeepsSeen
  <2>4. QED
    BY <1>3, <1>4, <1>6, <2>2, <2>3 DEF Effect, Continues
<1>11. QED
  BY <1>10, <1>12

\* Auth asks the agent.
LEMMA AuthorizeEffect ==
  ASSUME Flow, NEW c \in Clients, Authorize(c)
  PROVE  Effect(c)
<1> DEFINE path == AuthPath(conn[c].node, conn[c].route.vars)
           code == AuthCode(path)
<1>1. Calling(c, "Authorize") /\ "Authorize" \in Preliminary
  BY DEF Authorize, Preliminary
<1>2. ~Discovers(conn[c].route) /\ Planned(Rest(c), conn[c].route.handler)
  BY <1>1, Called
<1>3. UNCHANGED <<server, env, cachedIP, cachedID, mutex, seen>>
  BY DEF Authorize, cache
<1>4. /\ cachedIP' \in BOOLEAN /\ cachedID' \in NodeIDs /\ mutex' \in Clients \cup {Nobody}
      /\ conn[c].node \in NodeIDs
  BY <1>3 DEF Flow, Globals, ClientOK, NodeIDs
<1>5. Connections
  BY DEF Flow
<1>6. code \in {200, 401, 404} /\ (code = 200 => granted)
  BY DEF AuthCode, AgentCode
<1>7. IF PassesAuth(code) THEN Proceed(c, Rest(c)) ELSE Answer(c, code, <<>>)
  BY DEF Authorize
<1> HIDE DEF code
<1>8. CASE PassesAuth(code)
  <2>1. granted
    BY <1>6, <1>8 DEF PassesAuth
  <2>2. /\ Connections' /\ Own(c) /\ conn'[c].todo = Rest(c) /\ conn'[c].node = conn[c].node
        /\ conn'[c].ans = conn[c].ans
    BY <1>5, <1>7, <1>8, Updates
  <2>3. Keeps(c)
    BY <1>3, <1>4, <2>2, KeepsSeen
  <2>4. QED
    BY <1>2, <1>4, <2>1, <2>2, <2>3 DEF Effect, Continues
<1>9. CASE ~PassesAuth(code)
  <2>1. code \in Code \ {0, 303}
    BY <1>6 DEF Code
  <2>2. Refuses(c)
    BY <1>7, <1>9, <2>1, RefusesWith
  <2>3. QED
    BY <1>3, <1>4, <2>2, RefusedEffect
<1>10. QED
  BY <1>8, <1>9

\* The agent is asked for a file or a directory.
LEMMA AgentEffect ==
  ASSUME Flow, NEW c \in Clients, Size(c) \/ Read(c) \/ Browse(c) \/ Download(c)
  PROVE  Effect(c)
<1>1. UNCHANGED <<server, env, cachedIP, cachedID, mutex, seen>>
  BY DEF Size, Read, Browse, Download, cache
<1>2. /\ cachedIP' \in BOOLEAN /\ cachedID' \in NodeIDs /\ mutex' \in Clients \cup {Nobody}
      /\ conn[c].node \in NodeIDs
  BY <1>1 DEF Flow, Globals, ClientOK, NodeIDs
<1>3. Connections
  BY DEF Flow
<1>4. \A call : AtAgent(c, call, 200) => granted
  BY DEF AtAgent, AgentCode
<1>5. Refuses(c) => Effect(c)
  BY <1>1, <1>2, RefusedEffect
<1>6. CASE AtAgent(c, "Size", 200) /\ Proceed(c, Rest(c))
  <2>1. Calling(c, "Size") /\ "Size" \in Preliminary \ {"Authorize"}
    BY <1>6 DEF AtAgent, Preliminary
  <2>2. ~Discovers(conn[c].route) /\ Planned(Rest(c), conn[c].route.handler)
    BY <2>1, Called
  <2>3. Guards(conn[c].todo) => Guards(Rest(c))
    BY <2>1, KeepsGuard
  <2>4. /\ Connections' /\ Own(c) /\ conn'[c].todo = Rest(c) /\ conn'[c].node = conn[c].node
        /\ conn'[c].ans = conn[c].ans
    BY <1>3, <1>6, Updates
  <2>5. Keeps(c)
    BY <1>1, <1>2, <2>4, KeepsSeen
  <2>6. QED
    BY <1>2, <2>2, <2>3, <2>4, <2>5 DEF Effect, Continues
<1>7. CASE Answer(c, 204, <<>>) \/ Answer(c, 500, <<>>) \/ Answer(c, 200, <<>>) \/ Answer(c, 404, <<>>)
  BY <1>5, <1>7, Refusals
<1>8. CASE granted /\ Answer(c, 200, Target(c))
  <2> DEFINE body == Target(c)
  <2>1. granted /\ Answer(c, 200, body)
    BY <1>8
  <2> HIDE DEF body
  <2>2. QED
    BY <1>5, <2>1, Refusals
<1>9. CASE Size(c)
  BY <1>6, <1>7, <1>9 DEF Size
<1>10. CASE Read(c)
  <2>1. CASE conn[c].req.stream
    BY <1>4, <1>7, <1>8, <1>10, <2>1 DEF Read
  <2>2. CASE ~conn[c].req.stream
    BY <1>4, <1>7, <1>8, <1>10, <2>2 DEF Read
  <2>3. QED
    BY <2>1, <2>2
<1>11. CASE Browse(c)
  BY <1>4, <1>7, <1>8, <1>11 DEF Browse
<1>12. CASE Download(c)
  <2>1. PICK code \in Downloaded :
          AtAgent(c, "Download", code) /\ Answer(c, 200, IF code = 200 THEN Target(c) ELSE <<>>)
    BY <1>12 DEF Download
  <2>2. CASE code = 200
    <3>1. granted /\ Answer(c, 200, Target(c))
      BY <1>4, <2>1, <2>2
    <3>2. QED
      BY <1>8, <3>1
  <2>3. CASE code # 200
    <3>1. Answer(c, 200, <<>>)
      BY <2>1, <2>3
    <3>2. QED
      BY <1>7, <3>1
  <2>4. QED
    BY <2>2, <2>3
<1>13. QED
  BY <1>9, <1>10, <1>11, <1>12

\* The journal and the values of its fields need no token.
LEMMA JournalEffect ==
  ASSUME Flow, NEW c \in Clients, Journal(c) \/ Field(c)
  PROVE  Effect(c)
<1>1. UNCHANGED <<server, env, cachedIP, cachedID, mutex, seen>>
  BY DEF Journal, Field, cache
<1>2. cachedIP' \in BOOLEAN /\ cachedID' \in NodeIDs /\ mutex' \in Clients \cup {Nobody}
  BY <1>1 DEF Flow, Globals, NodeIDs
<1>3. Connections /\ ClientOK(c)
  BY DEF Flow
<1>4. CASE Field(c)
  <2>1. Answer(c, 400, <<>>) \/ \E code \in {200, 204} : Answer(c, code, <<>>)
    BY <1>4, Zenon DEF Field
  <2>2. Refuses(c)
    <3>1. CASE Answer(c, 400, <<>>)
      BY <3>1, Refusals
    <3>2. CASE \E code \in {200, 204} : Answer(c, code, <<>>)
      <4>1. PICK code \in {200, 204} : Answer(c, code, <<>>)
        BY <3>2
      <4>2. code \in Code \ {0, 303}
        BY DEF Code
      <4>3. QED
        BY <4>1, <4>2, RefusesWith
    <3>3. QED
      BY <2>1, <3>1, <3>2
  <2>3. QED
    BY <1>1, <1>2, <2>2, RefusedEffect
<1>5. CASE Journal(c)
  <2> DEFINE code == 200
             body == <<"journal", conn[c].route.vars["{container_id}"]>>
             s == conn[c].todo
             h == conn[c].route.handler
  <2>1. Answer(c, code, body) /\ Calling(c, "Journal")
    BY <1>5 DEF Journal
  <2>2. code \in Code /\ code # 0 /\ code # 303
    BY DEF Code
  <2>3. "Journal" \in Final
    BY DEF Final
  <2>4. Len(s) = 1 /\ s[1] = "Journal" /\ "Journal" = FinalCall(h)
    BY <2>1, <2>3, Called
  <2>5. Sandboxed(conn[c].route) => conn[c].route.guarded
    BY <1>3, <2>4 DEF Sandboxed, FinalCall, ClientOK
  <2> HIDE DEF code, body
  <2>6. /\ Connections' /\ Own(c) /\ conn'[c].todo = <<>> /\ conn'[c].node = ""
        /\ conn'[c].ans.code = code /\ conn'[c].ans.body = body
    BY <1>3, <2>1, AnswerGiven
  <2>7. Keeps(c)
    BY <1>1, <1>2, <2>6, KeepsSeen
  <2>8. QED
    BY <2>2, <2>4, <2>5, <2>6, <2>7 DEF Effect, Ends
<1>6. QED
  BY <1>4, <1>5

\* A lookup finds the task, or the next one is tried.
LEMMA LookUpEffect ==
  ASSUME Flow, NEW c \in Clients, LookUp(c)
  PROVE  Effect(c)
<1> DEFINE route == conn[c].route
           h == route.handler
           name == NameOf(route)
<1>1. PICK call \in {"Running", "Completed"} :
        /\ Calling(c, call)
        /\ LET found == FoundTasks(name, call = "Completed", task)
           IN  IF granted /\ Cardinality(found) = 1 /\ \A t \in found : HasContainer(task, t)
               THEN \E t \in found : Answer(c, 303, RedirectURL(Canonical(t), h, FileOf(route)))
               ELSE IF Rest(c) # <<>> THEN Proceed(c, Rest(c)) ELSE Answer(c, 500, <<>>)
  BY DEF LookUp, NameOf
<1>2. UNCHANGED <<server, env, cachedIP, cachedID, mutex, seen>>
  BY DEF LookUp, cache
<1>3. /\ cachedIP' \in BOOLEAN /\ cachedID' \in NodeIDs /\ mutex' \in Clients \cup {Nobody}
      /\ conn[c].node \in NodeIDs
  BY <1>2 DEF Flow, Globals, ClientOK, NodeIDs
<1>4. Connections
  BY DEF Flow
<1>5. /\ Discovers(route)
      /\ \/ conn[c].todo = Lookups /\ Rest(c) = <<"Completed">>
         \/ conn[c].todo = <<"Completed">> /\ Rest(c) = <<>>
  BY <1>1, Called DEF Call, Preliminary, Final
<1>6. Refuses(c) => Effect(c)
  BY <1>2, <1>3, RefusedEffect
<1> DEFINE found == FoundTasks(name, call = "Completed", task)
           one == granted /\ Cardinality(found) = 1 /\ \A t \in found : HasContainer(task, t)
<1>7. CASE one
  <2> DEFINE code == 303
  <2>1. PICK t \in found : Answer(c, code, RedirectURL(Canonical(t), h, FileOf(route)))
    BY <1>1, <1>7
  <2> DEFINE body == RedirectURL(Canonical(t), h, FileOf(route))
  <2>2. HasContainer(task, t) /\ t \in Matching(name)
    BY <1>7, <2>1 DEF FoundTasks
  <2>3. code \in Code /\ code # 0 /\ code # 200
    BY DEF Code
  <2>4. Answer(c, code, body)
    BY <2>1
  <2> HIDE DEF code, body
  <2>5. /\ Connections' /\ Own(c) /\ conn'[c].todo = <<>> /\ conn'[c].node = ""
        /\ conn'[c].ans.code = code /\ conn'[c].ans.body = body
    <3> HIDE DEF found, one
    <3>1. QED
      BY <1>4, <2>4, AnswerGiven
  <2>6. Keeps(c)
    BY <1>2, <1>3, <2>5, KeepsSeen
  <2>7. Redirected(c)'
    <3>1. conn'[c].route = route /\ task' = task
      BY <1>2, <2>5 DEF Own, env
    <3>2. Canonical(t)' = Canonical(t)
      BY <3>1 DEF Canonical
    <3>3. QED
      BY <1>5, <2>2, <2>5, <3>1, <3>2 DEF Redirected, body
  <2>8. QED
    BY <2>3, <2>5, <2>6, <2>7 DEF Effect, Ends
<1>8. CASE ~one /\ Rest(c) # <<>>
  <2>1. Proceed(c, Rest(c)) /\ conn[c].todo = Lookups /\ Rest(c) = <<"Completed">>
    BY <1>1, <1>5, <1>8
  <2>2. /\ Connections' /\ Own(c) /\ conn'[c].todo = Rest(c) /\ conn'[c].node = conn[c].node
        /\ conn'[c].ans = conn[c].ans
    BY <1>4, <2>1, Updates
  <2>3. Keeps(c)
    BY <1>2, <1>3, <2>2, KeepsSeen
  <2>4. QED
    BY <1>3, <1>5, <2>1, <2>2, <2>3 DEF Effect, Retries
<1>9. CASE ~one /\ Rest(c) = <<>>
  <2>1. Answer(c, 500, <<>>)
    BY <1>1, <1>9
  <2>2. QED
    BY <1>6, <2>1, Refusals
<1>10. QED
  BY <1>7, <1>8, <1>9

\* mesos or the agent is not reached.
LEMMA FailsEffect ==
  ASSUME Flow, NEW c \in Clients, CallFails(c)
  PROVE  Effect(c) /\ Failed(c)
<1>1. UNCHANGED <<server, env, cachedIP, cachedID, mutex>> /\ Failed(c)
  BY DEF CallFails, cache
<1>2. /\ cachedIP' \in BOOLEAN /\ cachedID' \in NodeIDs /\ mutex' \in Clients \cup {Nobody}
      /\ conn[c].node \in NodeIDs
  BY <1>1 DEF Flow, Globals, ClientOK, NodeIDs
<1>3. Connections
  BY DEF Flow
<1>4. Refuses(c) => Effect(c)
  BY <1>1, <1>2, RefusedEffect
<1>5. \/ Calling(c, "Running") /\ Rest(c) # <<>> /\ Proceed(c, Rest(c))
      \/ Answer(c, 200, <<>>)
      \/ Answer(c, 500, <<>>)
  BY DEF CallFails
<1>6. CASE Calling(c, "Running") /\ Rest(c) # <<>> /\ Proceed(c, Rest(c))
  <2>1. /\ Discovers(conn[c].route)
        /\ conn[c].todo = Lookups /\ Rest(c) = <<"Completed">>
    BY <1>6, Called DEF Call, Preliminary, Final
  <2>2. /\ Connections' /\ Own(c) /\ conn'[c].todo = Rest(c) /\ conn'[c].node = conn[c].node
        /\ conn'[c].ans = conn[c].ans
    BY <1>3, <1>6, Updates
  <2>3. Keeps(c)
    BY <1>1, <1>2, <2>2, KeepsFailed
  <2>4. QED
    BY <1>1, <1>2, <2>1, <2>2, <2>3 DEF Effect, Retries
<1>7. CASE Answer(c, 200, <<>>) \/ Answer(c, 500, <<>>)
  BY <1>1, <1>4, <1>7, Refusals
<1>8. QED
  BY <1>5, <1>6, <1>7

\* Every step of a handler.
LEMMA CallEffect ==
  ASSUME Flow, NEW c \in Clients, Local(c) \/ Remote(c)
  PROVE  Effect(c) /\ Busy(c)
<1>1. Effect(c)
  BY MesosIDEffect, DetectIPEffect, ScriptEffect, StateEffect, AuthorizeEffect, AgentEffect,
     JournalEffect, LookUpEffect, FailsEffect DEF Local, Remote
<1>2. Busy(c)
  BY ZenonT(40)
     DEF Local, Remote, MesosIDHit, MesosIDMiss, DetectIPHit, DetectIPRun, ScriptDone,
         ScriptFails, Store, Journal, Field, FetchState, LookUp, Authorize, Size, Read, Browse,
         Download, CallFails, AtAgent, Calling
<1>3. QED
  BY <1>1, <1>2

-----------------------------------------------------------------------------
\* A task keeps its agent and, once it has one, its container; the token is not granted
\* again.
LEMMA EnvironmentEffect ==
  ASSUME Flow, Environment
  PROVE  /\ UNCHANGED <<phase, cfg, listen, cachedIP, cachedID, mutex, conn>>
         /\ Observe /\ reg' \in DOMAIN AgentIDs /\ task' \in TaskStates
         /\ granted' \in BOOLEAN /\ (granted' => granted)
         /\ \A t \in Tasks : HasContainer(task, t) =>
              HasContainer(task', t) /\ task'[t].agent = task[t].agent
<1>1. /\ reg \in DOMAIN AgentIDs /\ task \in TaskStates /\ granted \in BOOLEAN
      /\ AgentID \in ToSet(AgentIDs)
  BY DEF Flow, Globals, AgentID, ToSet
<1>2. CASE ReRegister
  <2>1. /\ UNCHANGED <<phase, cfg, listen, cachedIP, cachedID, mutex, conn>>
        /\ Observe /\ task' = task /\ granted' = granted /\ reg' = reg + 1 /\ reg < Len(AgentIDs)
    BY <1>2 DEF ReRegister, server, cache
  <2>2. reg' \in DOMAIN AgentIDs
    BY <1>1, <2>1, ServerAssumption
  <2>3. QED
    BY <1>1, <2>1, <2>2
<1>3. CASE Revoke
  BY <1>1, <1>3 DEF Revoke, server, cache
<1>4. ASSUME NEW t \in Tasks, NEW from, NEW to, NEW agent, TaskChanges(t, from, to, agent),
             to \in Active \cup {"completed"}, agent \in ToSet(AgentIDs) \cup {""},
             from = "unknown" \/ from = "staging" \/ (from = "running" /\ to = "completed" /\ agent = task[t].agent)
      PROVE  /\ UNCHANGED <<phase, cfg, listen, cachedIP, cachedID, mutex, conn>>
             /\ Observe /\ reg' \in DOMAIN AgentIDs /\ task' \in TaskStates
             /\ granted' \in BOOLEAN /\ (granted' => granted)
             /\ \A u \in Tasks : HasContainer(task, u) =>
                  HasContainer(task', u) /\ task'[u].agent = task[u].agent
  <2>1. /\ UNCHANGED <<phase, cfg, listen, reg, cachedIP, cachedID, mutex, conn>>
        /\ Observe /\ granted' = granted /\ task[t].status = from
        /\ task' = [task EXCEPT ![t] = [status |-> to, agent |-> agent]]
    BY <1>4 DEF TaskChanges, server, cache
  <2>2. task' \in TaskStates
    BY <1>1, <1>4, <2>1 DEF TaskStates
  <2>3. /\ \A u \in Tasks : u # t => task'[u] = task[u]
        /\ task'[t].status = to /\ task'[t].agent = agent
    BY <1>1, <2>1 DEF TaskStates
  <2>4. ASSUME NEW u \in Tasks, HasContainer(task, u)
        PROVE  HasContainer(task', u) /\ task'[u].agent = task[u].agent
    <3>1. CASE u # t
      BY <2>3, <2>4, <3>1 DEF HasContainer
    <3>2. CASE u = t
      <4>1. from = "running" /\ to = "completed" /\ agent = task[t].agent
        BY <1>4, <2>1, <2>4, <3>2 DEF HasContainer
      <4>2. QED
        BY <2>3, <3>2, <4>1 DEF HasContainer
    <3>3. QED
      BY <3>1, <3>2
  <2>5. QED
    BY <1>1, <2>1, <2>2, <2>4
<1>5. ASSUME NEW t \in Tasks, Launch(t) \/ Run(t) \/ Complete(t)
      PROVE  /\ UNCHANGED <<phase, cfg, listen, cachedIP, cachedID, mutex, conn>>
             /\ Observe /\ reg' \in DOMAIN AgentIDs /\ task' \in TaskStates
             /\ granted' \in BOOLEAN /\ (granted' => granted)
             /\ \A u \in Tasks : HasContainer(task, u) =>
                  HasContainer(task', u) /\ task'[u].agent = task[u].agent
  <2>1. task[t].agent \in ToSet(AgentIDs) \cup {""}
    BY <1>1 DEF TaskStates
  <2>2. CASE Launch(t)
    BY <1>1, <1>4, <2>2 DEF Launch, Active
  <2>3. CASE Run(t)
    BY <1>4, <2>1, <2>3 DEF Run, Active
  <2>4. CASE Complete(t)
    BY <1>4, <2>1, <2>4 DEF Complete
  <2>5. QED
    BY <1>5, <2>2, <2>3, <2>4
<1>6. QED
  BY <1>2, <1>3, <1>5 DEF Environment

\* What mesos does happens to no request, but may be noticed by it.
LEMMA FlowEnvironment ==
  ASSUME Flow, Environment
  PROVE  Flow'
<1>1. /\ UNCHANGED <<phase, cfg, listen, cachedIP, cachedID, mutex, conn>>
      /\ Observe /\ reg' \in DOMAIN AgentIDs /\ task' \in TaskStates /\ granted' \in BOOLEAN
      /\ \A t \in Tasks : HasContainer(task, t) =>
           HasContainer(task', t) /\ task'[t].agent = task[t].agent
  BY EnvironmentEffect
<1>2. Globals'
  BY <1>1 DEF Flow, Globals, NodeIDs, TaskStates
<1>3. Configured'
  BY <1>1 DEF Flow, Configured
<1>4. Histories
  BY DEF Flow
<1>5. Histories'
  BY <1>1, <1>4, ObserveEffect
<1>6. Connections'
  BY <1>1 DEF Flow, Connections
<1>7. ASSUME NEW c \in Clients
      PROVE  ClientOK(c)'
  <2>1. Redirected(c) => Redirected(c)'
    BY <1>1 DEF Redirected, Canonical, Matching
  <2>2. QED
    BY <1>1, <2>1 DEF Flow, ClientOK, Busy, OnTrack
<1>8. QED
  BY <1>2, <1>3, <1>5, <1>6, <1>7 DEF Flow

\* main starts the server or exits.
LEMMA FlowStart ==
  ASSUME Flow, NEW in, StartServer(in) \/ StartFails(in)
  PROVE  Flow'
<1>1. /\ UNCHANGED <<reg, task, granted, cachedIP, cachedID, mutex, conn, seen>>
      /\ phase = "starting"
  BY DEF StartServer, StartFails, env, cache
<1>2. \A c \in Clients : conn[c].req = NoRequest
  BY <1>1 DEF Flow, ClientOK
<1>3. Globals' /\ Configured'
  <2>1. CASE StartServer(in)
    <3>1. /\ phase' = "serving" /\ cfg' = Effective(in) /\ Starting(in)
          /\ listen' = IF in.listeners = 1 THEN "socket" ELSE "port"
      BY <2>1 DEF StartServer
    <3>2. Valid(Effective(in))
      BY <3>1 DEF Starting, Loads, ValidStruct
    <3>3. "port" \in DOMAIN Effective(in)
      BY DEF Effective, Defaults, Options
    <3>4. cfg'["role"] \in Roles /\ cfg'["port"] \in Ports
      BY <3>1, <3>2, <3>3 DEF Valid
    <3>5. listen' = "socket" \/ listen' = "port"
      BY <3>1
    <3>6. QED
      BY <1>1, <3>1, <3>4, <3>5 DEF Flow, Globals, Configured, NodeIDs, TaskStates
  <2>2. CASE StartFails(in)
    BY <1>1, <2>2 DEF StartFails, Flow, Globals, Configured, NodeIDs, TaskStates
  <2>3. QED
    BY <2>1, <2>2
<1>4. Connections' /\ Histories'
  BY <1>1 DEF Flow, Connections, Histories
<1>5. ASSUME NEW c \in Clients
      PROVE  ClientOK(c)'
  <2>1. conn[c].todo = <<>> /\ conn[c].ans.code = 0 /\ ClientOK(c)
    BY <1>2 DEF Flow, ClientOK
  <2>2. ~Busy(c)' /\ 0 # 303
    BY <1>1, <2>1 DEF Busy
  <2>3. QED
    BY <1>1, <1>2, <2>1, <2>2 DEF ClientOK
<1>6. QED
  BY <1>3, <1>4, <1>5 DEF Flow

\* What a request that arrives does to conn and to its history.
Served(c, r, route, first) ==
  /\ \A d \in Clients : d # c => conn'[d] = conn[d] /\ seen'[d] = seen[d]
  /\ conn'[c].req = r /\ conn'[c].route = route /\ conn'[c].node = ""
  /\ conn'[c].todo = Pending(r, route)
  /\ conn'[c].ans.code = EarlyReturn(r, route) /\ conn'[c].ans.body = <<>>
  /\ seen'[c] = Noticed(r, route, first)

\* What a request is once mux has found its handler.
LEMMA ServeEffect ==
  ASSUME Flow, NEW c \in Clients, NEW r, NEW route, NEW first, ServeHTTP(c, r, route, first)
  PROVE  Connections' /\ Histories' /\ Served(c, r, route, first)
<1>0. Connections /\ Histories /\ granted \in BOOLEAN
  BY DEF Flow, Globals
<1>1. /\ conn' = [d \in Clients |-> conn'[d]]
      /\ \A d \in Clients : d # c => conn'[d] = conn[d]
      /\ conn'[c] = [req |-> r, route |-> route, node |-> "", todo |-> Pending(r, route),
                     ans |-> [code |-> EarlyReturn(r, route), body |-> <<>>]]
  BY <1>0 DEF ServeHTTP, Connections
<1>2. /\ seen' = [d \in Clients |-> seen'[d]]
      /\ \A d \in Clients : d # c => seen'[d] = seen[d]
      /\ seen'[c] = Noticed(r, route, first)
  BY <1>0 DEF ServeHTTP, Histories
<1>3. Connection(conn'[c])
  BY <1>1 DEF Connection
<1>4. History(Noticed(r, route, first))
  <2> DEFINE n == Noticed(r, route, first)
  <2>1. /\ n = [first |-> n.first, clean |-> n.clean, allowed |-> n.allowed,
                targets |-> n.targets, there |-> n.there]
        /\ n.clean = (granted /\ r.token = "good" /\ r.query # "garbled")
        /\ n.allowed = granted
        /\ n.there = (Asked(route, AgentID) # <<>> /\ OnDisk(Asked(route, AgentID)))
    BY DEF Noticed
  <2>2. n.clean \in BOOLEAN /\ n.allowed \in BOOLEAN /\ n.there \in BOOLEAN
    BY <1>0, <2>1
  <2>3. QED
    BY <2>1, <2>2 DEF History
<1>5. Connections' /\ Histories'
  BY <1>0, <1>1, <1>2, <1>3, <1>4 DEF Connections, Histories
<1>6. /\ conn'[c].req = r /\ conn'[c].route = route /\ conn'[c].node = ""
      /\ conn'[c].todo = Pending(r, route)
      /\ conn'[c].ans.code = EarlyReturn(r, route) /\ conn'[c].ans.body = <<>>
  <2> DEFINE e == <<>>
             ans == [code |-> EarlyReturn(r, route), body |-> e]
             n == ""
             todo == Pending(r, route)
             k == [req |-> r, route |-> route, node |-> n, todo |-> todo, ans |-> ans]
  <2>1. ans.code = EarlyReturn(r, route) /\ ans.body = <<>>
    OBVIOUS
  <2> HIDE DEF ans, n, todo
  <2>2. k.req = r /\ k.route = route /\ k.node = n /\ k.todo = todo /\ k.ans = ans
    OBVIOUS
  <2> HIDE DEF k
  <2>3. conn'[c] = k
    BY <1>1 DEF k, ans, n, todo, e
  <2>4. QED
    BY <2>1, <2>2, <2>3 DEF n, todo
<1>7. QED
  BY <1>1, <1>2, <1>5, <1>6 DEF Served

\* A request is served.
LEMMA FlowServe ==
  ASSUME Flow, NEW c \in Clients, NEW r, NEW route, NEW first, RouteOK(route), RequestOK(r),
         Given(r), phase = "serving", ServeHTTP(c, r, route, first)
  PROVE  Flow'
<1> DEFINE todo == Pending(r, route)
           code == EarlyReturn(r, route)
<1>1. UNCHANGED <<phase, cfg, listen, reg, task, granted, cachedIP, cachedID, mutex>>
  BY DEF ServeHTTP, server, env, cache
<1>3. /\ code \in {0, 400, 401, 404}
      /\ todo # <<>> => code = 0
      /\ todo # <<>> /\ Discovers(route) => todo = Lookups
      /\ todo # <<>> /\ ~Discovers(route) => Planned(todo, route.handler)
  BY ServedFacts
<1> HIDE DEF todo, code
<1>4. /\ Connections' /\ Histories'
      /\ \A d \in Clients : d # c => conn'[d] = conn[d]
      /\ conn'[c].req = r /\ conn'[c].route = route /\ conn'[c].node = ""
      /\ conn'[c].todo = todo /\ conn'[c].ans.code = code
  <2>1. Connections' /\ Histories' /\ Served(c, r, route, first)
    BY ServeEffect
  <2>2. QED
    BY <2>1 DEF Served, todo, code
<1>5. Globals' /\ Configured'
  BY <1>1 DEF Flow, Globals, Configured, NodeIDs, TaskStates
<1>6. ClientOK(c)'
  <2>1. r # NoRequest
    <3>1. NoRequest.token = ""
      BY DEF NoRequest
    <3>2. QED
      BY <3>1, Zenon DEF Given
  <2>2. code \in Code /\ code # 303 /\ "" \in NodeIDs
    BY <1>3 DEF Code, NodeIDs
  <2>3. Busy(c)' => code = 0 /\ OnTrack(c)'
    BY <1>3, <1>4, ZenonT(40) DEF Busy, OnTrack
  <2>4. QED
    BY <1>1, <1>4, <2>1, <2>2, <2>3, ZenonT(40) DEF ClientOK
<1>7. ASSUME NEW d \in Clients, d # c
      PROVE  ClientOK(d)'
  <2>1. conn'[d] = conn[d] /\ ClientOK(d)
    BY <1>4, <1>7 DEF Flow
  <2>2. UNCHANGED <<Busy(d), OnTrack(d)>>
    BY <2>1 DEF Busy, OnTrack
  <2>3. Redirected(d) => Redirected(d)'
    BY <1>1, <2>1 DEF Redirected, Canonical
  <2>4. QED
    BY <1>1, <2>1, <2>2, <2>3 DEF ClientOK
<1>8. QED
  BY <1>4, <1>5, <1>6, <1>7 DEF Flow

\* The request for a redirect is the first one with another path.
LEMMA Followed ==
  ASSUME Flow, NEW c \in Clients, Follow(c)
  PROVE  LET r == Redirection(conn[c].req, conn[c].ans.body)
         IN  /\ phase = "serving" /\ RequestOK(r) /\ Given(r)
             /\ r.path = RedirectPath(conn[c].ans.body)
             /\ ServeHTTP(c, r, RouteOf(r.path), seen[c].first)
<1> DEFINE q == conn[c].req
           path == RedirectPath(conn[c].ans.body)
           query == IF Cut(conn[c].ans.body) THEN "" ELSE q.query
           r == Redirection(q, conn[c].ans.body)
<1>1. ClientOK(c) /\ conn[c].ans.code = 303
  BY DEF Flow, Follow
<1>2. phase = "serving" /\ Given(q)
  <2>1. q # NoRequest
    BY <1>1 DEF ClientOK
  <2>2. QED
    BY <1>1, <2>1 DEF ClientOK
<1>3. r = [q EXCEPT !.path = path, !.query = query]
  BY DEF Redirection
<1>4. q = [path |-> q.path, token |-> q.token, query |-> q.query, stream |-> q.stream]
  BY <1>1 DEF ClientOK, RequestOK
<1>5. ServeHTTP(c, r, RouteOf(r.path), seen[c].first)
  BY DEF Follow
<1> HIDE DEF path, query, q, r
<1>6. r = [path |-> path, token |-> q.token, query |-> query, stream |-> q.stream]
  BY <1>3, <1>4
<1>7. RequestOK(r) /\ r.path = path /\ r.token = q.token
  BY <1>6 DEF RequestOK
<1>8. Given(r)
  BY <1>2, <1>7, Zenon DEF Given
<1>9. QED
  BY <1>2, <1>5, <1>7, <1>8 DEF r, q, path

\* Flow survives every step.
LEMMA FlowStep == Flow /\ [Next]_vars => Flow'
<1> SUFFICES ASSUME Flow, [Next]_vars
             PROVE  Flow'
  OBVIOUS
<1>1. CASE \E in \in Starts : StartServer(in) \/ StartFails(in)
  BY <1>1, FlowStart
<1>2. CASE Environment
  BY <1>2, FlowEnvironment
<1>3. ASSUME NEW c \in Clients, NEW r \in Requests[c], Arrive(c, r)
      PROVE  Flow'
  <2>1. r \in Request
    BY ServerAssumption
  <2>2. RequestOK(r) /\ Given(r)
    <3>1. RequestOK(r) /\ r.token \in {"good", "malformed", "none"}
      BY <2>1 DEF Request, RequestOK
    <3>2. QED
      BY <3>1, Zenon DEF Given
  <2>3. phase = "serving" /\ ServeHTTP(c, r, RouteOf(r.path), RouteOf(r.path))
    BY <1>3 DEF Arrive
  <2>4. RouteOK(RouteOf(r.path))
    BY RouteFacts
  <2>5. QED
    BY <2>1, <2>2, <2>3, <2>4, FlowServe
<1>4. ASSUME NEW c \in Clients, Follow(c)
      PROVE  Flow'
  <2> DEFINE r == Redirection(conn[c].req, conn[c].ans.body)
             route == RouteOf(r.path)
             first == seen[c].first
  <2>1. /\ phase = "serving" /\ RequestOK(r) /\ Given(r)
        /\ ServeHTTP(c, r, route, first)
    BY <1>4, Followed
  <2>2. RouteOK(route)
    BY RouteFacts
  <2> HIDE DEF r, route, first
  <2>3. QED
    BY <2>1, <2>2, FlowServe
<1>5. ASSUME NEW c \in Clients, Local(c) \/ Remote(c)
      PROVE  Flow'
  <2>1. Effect(c) /\ Busy(c)
    BY <1>5, CallEffect
  <2>2. ClientOK(c)'
    <3>1. CASE Continues(c)
      BY <2>1, <3>1, GoesOn DEF Effect, Keeps, Continues
    <3>2. CASE Retries(c)
      BY <2>1, <3>2, GoesOn DEF Effect, Keeps, Retries
    <3>3. CASE Ends(c)
      BY <2>1, <3>3, Answers DEF Effect, Keeps, Ends
    <3>4. QED
      BY <2>1, <3>1, <3>2, <3>3 DEF Effect
  <2>3. QED
    BY <2>1, <2>2, OwnStep DEF Effect, Keeps
<1>6. CASE UNCHANGED vars
  <2>1. UNCHANGED <<phase, cfg, listen, reg, task, granted, cachedIP, cachedID, mutex, conn, seen>>
    BY <1>6 DEF vars, server, env, cache
  <2>2. QED
    BY <2>1, ZenonT(40)
       DEF Flow, Globals, Configured, NodeIDs, TaskStates, Connections, Histories, ClientOK,
                Busy, OnTrack, Redirected, Canonical
<1>7. QED
  BY <1>1, <1>2, <1>3, <1>4, <1>5, <1>6 DEF Next

\* Every state of the program is in Flow.
LEMMA FlowHolds == Spec => []Flow
BY FlowInit, FlowStep, PTL DEF Spec

\* The types, and that a handler that has answered makes no more calls: http.Error and
\* logError are followed by a return in every handler and middleware.
THEOREM TypeCorrect == Spec => []TypeOK
BY FlowHolds, FlowTypes, PTL

\* A server that answers was started with a role and a port that the schema allows, wherever
\* NewConfig found them.
THEOREM ServesRight == Spec => []ServesValid
BY FlowHolds, FlowTypes, PTL

-----------------------------------------------------------------------------
(***************************************************************************)
(* Authorization.  A token that was accepted after the request arrived was *)
(* accepted when it arrived; until then a guarded request has Auth before  *)
(* it.                                                                     *)
(***************************************************************************)
Allowed(c) ==
  /\ granted /\ conn[c].req # NoRequest => seen[c].allowed
  /\ Busy(c) /\ Protected(conn[c].route) => HasToken(conn[c].req)
  /\ Busy(c) /\ conn[c].route.guarded /\ cfg["auth"] /\ ~seen[c].allowed => Guards(conn[c].todo)
  /\ conn[c].ans.code = 200 /\ conn[c].ans.body # <<>> /\ Protected(conn[c].route) =>
       seen[c].allowed /\ HasToken(conn[c].req)

AllAllowed == \A c \in Clients : Allowed(c)

\* Before the server is started nobody has asked for anything.
LEMMA StartEffect ==
  ASSUME Flow, NEW in, StartServer(in) \/ StartFails(in)
  PROVE  /\ UNCHANGED <<reg, task, granted, cachedIP, cachedID, mutex, conn, seen>>
         /\ \A c \in Clients : /\ conn[c].req = NoRequest /\ ~Busy(c) /\ ~Busy(c)'
                               /\ conn[c].ans.code = 0
<1>1. /\ UNCHANGED <<reg, task, granted, cachedIP, cachedID, mutex, conn, seen>>
      /\ phase = "starting"
  BY DEF StartServer, StartFails, env, cache
<1>2. ASSUME NEW c \in Clients
      PROVE  conn[c].req = NoRequest /\ ~Busy(c) /\ ~Busy(c)' /\ conn[c].ans.code = 0
  BY <1>1 DEF Flow, ClientOK, Busy
<1>3. QED
  BY <1>1, <1>2

\* A request is told at once that it is wrong, or that no token came with it.
LEMMA AllowedServe ==
  ASSUME Flow, AllAllowed, NEW c \in Clients, NEW r, NEW route, NEW first, RouteOK(route),
         UNCHANGED <<server, env>>, Served(c, r, route, first)
  PROVE  AllAllowed'
<1>1. UNCHANGED <<cfg, granted>>
  BY DEF server, env
<1>2. ASSUME NEW d \in Clients, d # c
      PROVE  Allowed(d)'
  <2>1. conn'[d] = conn[d] /\ seen'[d] = seen[d] /\ Allowed(d)
    BY <1>2 DEF Served, AllAllowed
  <2>2. QED
    BY <1>1, <2>1 DEF Allowed, Busy, Protected
<1>3. Allowed(c)'
  <2> DEFINE todo == Pending(r, route)
             code == EarlyReturn(r, route)
  <2>1. /\ code \in {0, 400, 401, 404}
        /\ todo # <<>> /\ Protected(route) => HasToken(r)
        /\ todo # <<>> /\ route.guarded /\ cfg["auth"] =>
             \E i \in 1 .. Len(todo) : todo[i] = "Authorize"
    BY ServedFacts
  <2>2. Noticed(r, route, first).allowed = granted
    BY DEF Noticed
  <2> HIDE DEF todo, code
  <2>3. /\ conn'[c].req = r /\ conn'[c].route = route /\ conn'[c].todo = todo
        /\ conn'[c].ans.code = code /\ seen'[c].allowed = granted
    BY <2>2 DEF Served, todo, code
  <2>4. conn'[c].ans.code # 200
    BY <2>1, <2>3
  <2>5. Protected(conn[c].route)' = Protected(route)
    BY <1>1, <2>3 DEF Protected, Sandboxed
  <2>6. Busy(c)' => todo # <<>>
    BY <2>3 DEF Busy
  <2>7. Busy(c)' /\ route.guarded /\ cfg["auth"] => Guards(todo)
    BY <2>1, <2>6 DEF Guards
  <2>8. QED
    BY <1>1, <2>1, <2>3, <2>4, <2>5, <2>6, <2>7 DEF Allowed
<1>4. QED
  BY <1>2, <1>3 DEF AllAllowed

\* A handler passes Auth, and gets something from the agent, only with an accepted token.
LEMMA AllowedCall ==
  ASSUME Flow, AllAllowed, NEW c \in Clients, Busy(c), Effect(c)
  PROVE  AllAllowed'
<1>1. /\ UNCHANGED <<cfg, granted>>
      /\ \A d \in Clients : /\ seen'[d].allowed = seen[d].allowed
                            /\ conn'[d].req = conn[d].req /\ conn'[d].route = conn[d].route
                            /\ d # c => conn'[d] = conn[d]
  BY DEF Effect, Keeps, Own, server, env
<1>2. ASSUME NEW d \in Clients, d # c
      PROVE  Allowed(d)'
  <2>1. conn'[d] = conn[d] /\ Allowed(d)
    BY <1>1, <1>2 DEF AllAllowed
  <2>2. QED
    BY <1>1, <2>1 DEF Allowed, Busy, Protected
<1>3. Allowed(c)'
  <2> DEFINE route == conn[c].route
  <2>1. /\ Allowed(c) /\ ClientOK(c)
        /\ conn'[c].req = conn[c].req /\ conn'[c].route = route
        /\ seen'[c].allowed = seen[c].allowed
    BY <1>1 DEF AllAllowed, Flow
  <2>2. /\ conn[c].req # NoRequest /\ conn[c].ans.code = 0
        /\ route.guarded => ~Discovers(route)
    BY <2>1 DEF ClientOK, Busy, RouteOK, Discovers
  <2>3. Protected(conn[c].route)' = Protected(route)
    BY <1>1, <2>1 DEF Protected, Sandboxed
  <2>4. granted => seen[c].allowed
    BY <2>1, <2>2 DEF Allowed
  <2>5. CASE Continues(c) \/ Retries(c)
    <3>1. conn'[c].ans.code # 200
      BY <2>2, <2>5 DEF Continues, Retries
    <3>2. route.guarded /\ cfg["auth"] /\ ~seen[c].allowed => Guards(conn[c].todo)'
      BY <2>1, <2>2, <2>4, <2>5 DEF Allowed, Continues, Retries, Guards
    <3>3. QED
      BY <1>1, <2>1, <2>3, <3>1, <3>2 DEF Allowed
  <2>6. CASE Ends(c)
    <3>1. ~Busy(c)'
      BY <2>6 DEF Ends, Busy
    <3>2. ASSUME conn'[c].ans.code = 200, conn'[c].ans.body # <<>>, Protected(route)
          PROVE  seen[c].allowed /\ HasToken(conn[c].req)
      <4>1. HasToken(conn[c].req)
        BY <2>1, <3>2 DEF Allowed
      <4>2. CASE ~granted
        <5>1. route.guarded /\ Len(conn[c].todo) = 1 /\ conn[c].todo[1] = "Journal"
          BY <2>6, <3>2, <4>2 DEF Ends, Protected
        <5>2. ~Guards(conn[c].todo)
          BY <5>1 DEF Guards
        <5>3. cfg["auth"]
          BY <3>2, <5>1 DEF Protected
        <5>4. seen[c].allowed
          BY <2>1, <5>1, <5>2, <5>3 DEF Allowed
        <5>5. QED
          BY <4>1, <5>4
      <4>3. QED
        BY <2>4, <4>1, <4>2
    <3>3. QED
      BY <1>1, <2>1, <2>2, <2>3, <3>1, <3>2 DEF Allowed
  <2>7. QED
    BY <2>5, <2>6 DEF Effect
<1>4. QED
  BY <1>2, <1>3 DEF AllAllowed

\* Nobody has been served yet.
LEMMA AllowedInit == Init => AllAllowed
<1> SUFFICES ASSUME Init
             PROVE  AllAllowed
  OBVIOUS
<1>1. \A c \in Clients : conn[c].req = NoRequest /\ ~Busy(c) /\ conn[c].ans.code = 0
  <2>1. phase = "starting" /\ Flow
    BY FlowInit DEF Init
  <2>2. QED
    BY <2>1 DEF Flow, ClientOK, Busy
<1>2. QED
  BY <1>1 DEF AllAllowed, Allowed

\* Nobody gets past Auth by a step of another request, by a cache or by mesos:
\* only by an answer of the agent while the token is accepted.
LEMMA AllowedStep == Flow /\ AllAllowed /\ [Next]_vars => AllAllowed'
<1> SUFFICES ASSUME Flow, AllAllowed, [Next]_vars
             PROVE  AllAllowed'
  OBVIOUS
<1>1. ASSUME NEW in \in Starts, StartServer(in) \/ StartFails(in)
      PROVE  AllAllowed'
  BY <1>1, StartEffect DEF AllAllowed, Allowed
<1>2. CASE Environment
  <2>1. UNCHANGED <<cfg, conn>> /\ Observe /\ (granted' => granted) /\ granted' \in BOOLEAN
    BY <1>2, EnvironmentEffect
  <2>2. \A c \in Clients : seen'[c].allowed = seen[c].allowed
    BY <2>1, ObserveEffect DEF Flow
  <2>3. QED
    BY <2>1, <2>2 DEF AllAllowed, Allowed, Busy, Protected
<1>3. ASSUME NEW c \in Clients, NEW r \in Requests[c], Arrive(c, r)
      PROVE  AllAllowed'
  <2>1. ServeHTTP(c, r, RouteOf(r.path), RouteOf(r.path))
    BY <1>3 DEF Arrive
  <2>2. RouteOK(RouteOf(r.path)) /\ UNCHANGED <<server, env>>
    BY <2>1, RouteFacts DEF ServeHTTP
  <2>3. Served(c, r, RouteOf(r.path), RouteOf(r.path))
    BY <2>1, ServeEffect
  <2>4. QED
    BY <2>2, <2>3, AllowedServe
<1>4. ASSUME NEW c \in Clients, Follow(c)
      PROVE  AllAllowed'
  <2> DEFINE r == Redirection(conn[c].req, conn[c].ans.body)
             route == RouteOf(r.path)
             first == seen[c].first
  <2>1. ServeHTTP(c, r, route, first)
    BY <1>4, Followed
  <2>2. RouteOK(route)
    BY RouteFacts
  <2> HIDE DEF r, route, first
  <2>3. UNCHANGED <<server, env>>
    BY <2>1 DEF ServeHTTP
  <2>4. Served(c, r, route, first)
    BY <2>1, ServeEffect
  <2>5. QED
    BY <2>2, <2>3, <2>4, AllowedServe
<1>5. ASSUME NEW c \in Clients, Local(c) \/ Remote(c)
      PROVE  AllAllowed'
  BY <1>5, CallEffect, AllowedCall
<1>6. CASE UNCHANGED vars
  <2>1. UNCHANGED <<cfg, granted, conn, seen>>
    BY <1>6 DEF vars, server, env
  <2>2. QED
    BY <2>1 DEF AllAllowed, Allowed, Busy, Protected
<1>7. QED
  BY <1>1, <1>2, <1>3, <1>4, <1>5, <1>6 DEF Next

\* An answer with a task's log is one that Allowed speaks about.
LEMMA AllowedAuthorised == AllAllowed => TaskAuthorised
<1> SUFFICES ASSUME AllAllowed, NEW c \in Clients,
                    conn[c].ans.code = 200, conn[c].ans.body # <<>>,
                    conn[c].route.guarded => cfg["auth"],
                    Asked(conn[c].route, AgentID) # <<>>
             PROVE  seen[c].allowed /\ conn[c].req.token = "good"
  BY DEF TaskAuthorised
<1>1. Sandboxed(conn[c].route)
  BY DEF Asked, Sandboxed
<1>2. QED
  BY <1>1 DEF AllAllowed, Allowed, Protected, HasToken

\* A client is shown a task's log only if its token was accepted since its request arrived:
\* by the agent, asked by Auth in v1 and for the file itself in v2, never because another
\* client's token has filled the caches of NodeInfo.
THEOREM AuthorisedOnly == Spec => []TaskAuthorised
<1>1. Flow /\ AllAllowed /\ [Next]_vars => (Flow /\ AllAllowed)'
  BY FlowStep, AllowedStep
<1>2. Spec => [](Flow /\ AllAllowed)
  BY FlowInit, AllowedInit, <1>1, PTL DEF Spec
<1>3. QED
  BY <1>2, AllowedAuthorised, PTL

-----------------------------------------------------------------------------
(***************************************************************************)
(* Discovery.  While the answer is open the name finds one task, and once  *)
(* no running task was found there is none.                                *)
(***************************************************************************)
Running(c) == FoundTasks(NameOf(conn[c].route), FALSE, task)

\* The name found one task all the time since the request arrived, and no call failed.
Clear(c) == seen[c].clean /\ {} \notin seen[c].targets

\* The answer is the redirect to a task the name found.
SentThere(c) ==
  /\ conn[c].ans.code = 303
  /\ \E target \in seen[c].targets : \E t \in target :
       /\ t \in Tasks /\ HasContainer(task, t)
       /\ conn[c].ans.body = RedirectURL(Canonical(t), conn[c].route.handler,
                                         FileOf(conn[c].route))

Discovering(c) ==
  /\ Busy(c) /\ seen[c].clean => granted
  /\ Discovers(conn[c].route) =>
       /\ Busy(c) => Designated(NameOf(conn[c].route), task) \in seen[c].targets
       /\ conn[c].todo = <<"Completed">> /\ Clear(c) => Running(c) = {}
       /\ Answered(c) /\ Clear(c) => SentThere(c)

AllDiscovering == \A c \in Clients : Discovering(c)

\* A look-up returns the task that the name finds, or the name finds none, or a completed one is
\* still to be looked for.
LEMMA DesignatedFacts ==
  ASSUME NEW name, NEW tasks
  PROVE  LET running == FoundTasks(name, FALSE, tasks)
             completed == FoundTasks(name, TRUE, tasks)
             D == Designated(name, tasks)
         IN  /\ Cardinality(running) = 1 /\ (\A t \in running : HasContainer(tasks, t)) => D = running
             /\ ~(Cardinality(running) = 1 /\ \A t \in running : HasContainer(tasks, t)) =>
                  D = {} \/ running = {}
             /\ running = {} => D = IF Cardinality(completed) = 1 THEN completed ELSE {}
             /\ \A t \in completed : HasContainer(tasks, t)
<1> DEFINE running == FoundTasks(name, FALSE, tasks)
           completed == FoundTasks(name, TRUE, tasks)
           D == Designated(name, tasks)
<1>1. D = IF running # {}
          THEN IF Cardinality(running) = 1 THEN {t \in running : HasContainer(tasks, t)} ELSE {}
          ELSE IF Cardinality(completed) = 1 THEN completed ELSE {}
  BY DEF Designated
<1>2. \A t \in completed : HasContainer(tasks, t)
  BY DEF FoundTasks, HasContainer
<1>3. running \subseteq Tasks
  BY DEF FoundTasks, Matching
<1>4. IsFiniteSet(running)
  BY <1>3, FS_Subset, ServerAssumption
<1> HIDE DEF running, completed, D
<1>5. ASSUME Cardinality(running) = 1
      PROVE  \E t : running = {t}
  BY <1>4, <1>5, FS_Singleton
<1>6. ASSUME Cardinality(running) = 1, \A t \in running : HasContainer(tasks, t)
      PROVE  D = running
  <2>1. running # {}
    BY <1>5, <1>6
  <2>2. {t \in running : HasContainer(tasks, t)} = running
    BY <1>6
  <2>3. QED
    BY <1>1, <1>6, <2>1, <2>2
<1>7. ASSUME ~(Cardinality(running) = 1 /\ \A t \in running : HasContainer(tasks, t)),
             running # {}
      PROVE  D = {}
  <2>1. CASE Cardinality(running) # 1
    BY <1>1, <1>7, <2>1
  <2>2. CASE Cardinality(running) = 1
    <3>1. PICK t : running = {t}
      BY <1>5, <2>2
    <3>2. ~HasContainer(tasks, t)
      BY <1>7, <2>2, <3>1
    <3>3. {u \in running : HasContainer(tasks, u)} = {}
      BY <3>1, <3>2
    <3>4. QED
      BY <1>1, <1>7, <2>2, <3>3
  <2>3. QED
    BY <2>1, <2>2
<1>8. QED
  BY <1>1, <1>2, <1>6, <1>7 DEF running, completed, D

\* A handler that discovers makes no other calls than its lookups.
LEMMA OnlyLooksUp ==
  ASSUME Flow, NEW c \in Clients, Discovers(conn[c].route), Local(c) \/ Remote(c)
  PROVE  LookUp(c) \/ CallFails(c)
<1>1. \A call \in Call : ~Calling(c, call)
  <2>1. SUFFICES ASSUME NEW call \in Call, Calling(c, call)
                 PROVE  FALSE
    OBVIOUS
  <2>2. call \in {"Running", "Completed"}
    BY <2>1, Called
  <2>3. QED
    BY <2>1, <2>2 DEF Call, Preliminary, Final
<1>2. /\ ~Calling(c, "MesosID") /\ ~Calling(c, "DetectIP") /\ ~Calling(c, "Script")
      /\ ~Calling(c, "Store") /\ ~Calling(c, "State") /\ ~Calling(c, "Authorize")
      /\ ~Calling(c, "Size") /\ ~Calling(c, "Read") /\ ~Calling(c, "Browse")
      /\ ~Calling(c, "Download") /\ ~Calling(c, "Journal") /\ ~Calling(c, "Field")
  BY <1>1 DEF Call, Preliminary, Final
<1>3. QED
  BY <1>2, ZenonT(40) DEF Local, Remote, MesosIDHit, MesosIDMiss, DetectIPHit, DetectIPRun, ScriptDone,
              ScriptFails, Store, Journal, Field, FetchState, Authorize, Size, Read, Browse,
              Download, AtAgent

\* What a task's step does to a name without running tasks: it still has none, or a task
\* that has no container yet.
LEMMA StillNone ==
  ASSUME Flow, Environment, NEW name, FoundTasks(name, FALSE, task) = {}
  PROVE  FoundTasks(name, FALSE, task') = {} \/ Designated(name, task') = {}
<1>1. CASE task' = task
  BY <1>1
<1>2. ASSUME NEW t \in Tasks, Launch(t) \/ Run(t) \/ Complete(t)
      PROVE  FoundTasks(name, FALSE, task') = {} \/ Designated(name, task') = {}
  <2>1. /\ \A u \in Tasks : u # t => task'[u] = task[u]
        /\ Launch(t) => task'[t].status = "staging"
        /\ ~Launch(t) => task[t].status \in Active
    <3>1. task \in TaskStates
      BY DEF Flow, Globals
    <3>2. ASSUME NEW from, NEW to, NEW agent, TaskChanges(t, from, to, agent)
          PROVE  /\ \A u \in Tasks : u # t => task'[u] = task[u]
                 /\ task'[t].status = to /\ task[t].status = from
      BY <3>1, <3>2 DEF TaskStates, TaskChanges
    <3>3. CASE Launch(t)
      BY <3>2, <3>3 DEF Launch
    <3>4. CASE Run(t)
      <4>1. /\ \A u \in Tasks : u # t => task'[u] = task[u]
            /\ task[t].status = "staging" /\ task'[t].status = "running"
        BY <3>2, <3>4 DEF Run
      <4>2. QED
        BY <4>1 DEF Active, Launch, TaskChanges
    <3>5. CASE Complete(t)
      <4>1. /\ \A u \in Tasks : u # t => task'[u] = task[u]
            /\ task[t].status = "running"
        BY <3>2, <3>5 DEF Complete
      <4>2. QED
        BY <4>1 DEF Active, Launch, TaskChanges
    <3>6. QED
      BY <1>2, <3>3, <3>4, <3>5
  <2>2. CASE t \in Matching(name) /\ Launch(t)
    <3>1. FoundTasks(name, FALSE, task') = {t}
      BY <2>1, <2>2 DEF FoundTasks, Matching, Active
    <3>2. ~HasContainer(task', t)
      BY <2>1, <2>2 DEF HasContainer
    <3>3. Designated(name, task') = {}
      BY <3>1, <3>2, DesignatedFacts
    <3>4. QED
      BY <3>3
  <2>3. CASE t \in Matching(name) /\ ~Launch(t)
    BY <2>1, <2>3 DEF FoundTasks
  <2>4. CASE t \notin Matching(name)
    BY <2>1, <2>4 DEF FoundTasks, Matching
  <2>5. QED
    BY <2>2, <2>3, <2>4
<1>3. QED
  BY <1>1, <1>2 DEF Environment, ReRegister, Revoke

\* A request that has just arrived has found nothing yet.
LEMMA DiscoveringServe ==
  ASSUME Flow, AllDiscovering, NEW c \in Clients, NEW r, NEW route, NEW first, RouteOK(route),
         UNCHANGED <<server, env>>, Served(c, r, route, first)
  PROVE  AllDiscovering'
<1>1. UNCHANGED <<cfg, task, granted>>
  BY DEF server, env
<1>2. ASSUME NEW d \in Clients, d # c
      PROVE  Discovering(d)'
  <2>1. conn'[d] = conn[d] /\ seen'[d] = seen[d] /\ Discovering(d)
    BY <1>2 DEF Served, AllDiscovering
  <2>2. UNCHANGED <<Busy(d), Answered(d), Clear(d), Running(d), SentThere(d)>>
    BY <1>1, <2>1 DEF Busy, Answered, Clear, Running, SentThere, Canonical
  <2>3. QED
    BY <1>1, <2>1, <2>2 DEF Discovering
<1>3. Discovering(c)'
  <2> DEFINE todo == Pending(r, route)
             code == EarlyReturn(r, route)
             n == Noticed(r, route, first)
  <2>1. todo # <<>> /\ Discovers(route) => todo = Lookups
    BY ServedFacts
  <2>2. /\ n.clean = (granted /\ r.token = "good" /\ r.query # "garbled")
        /\ Discovers(route) => n.targets = {Designated(NameOf(route), task)}
    BY DEF Noticed, NameOf
  <2>3. Discovers(route) /\ r.token = "good" => code = 0
    BY DEF Discovers, EarlyReturn, HasToken
  <2> DEFINE rest == <<"Completed">>
  <2>4. Lookups # rest /\ <<>> # rest
    BY DEF Lookups
  <2> HIDE DEF todo, code, n, rest
  <2>5. /\ conn'[c].route = route /\ conn'[c].todo = todo /\ conn'[c].ans.code = code
        /\ seen'[c] = n
    BY DEF Served, todo, code, n
  <2>6. Answered(c)' => code # 0
    BY <2>5 DEF Answered
  <2>7. Discovers(route) => conn'[c].todo # rest
    BY <2>1, <2>4, <2>5
  <2>8. QED
    BY <1>1, <2>2, <2>3, <2>5, <2>6, <2>7 DEF Discovering, Clear, rest
<1>4. QED
  BY <1>2, <1>3 DEF AllDiscovering

\* A look-up finds a task that was one of the targets when it looked, and the
\* next call of discover keeps what it found.
LEMMA DiscoveringCall ==
  ASSUME Flow, AllDiscovering, NEW c \in Clients, Local(c) \/ Remote(c)
  PROVE  AllDiscovering'
<1>1. Effect(c) /\ Busy(c)
  BY CallEffect
<1>2. /\ UNCHANGED <<cfg, task, granted>>
      /\ \A d \in Clients : /\ conn'[d].route = conn[d].route
                            /\ seen'[d].targets = seen[d].targets
                            /\ seen'[d].clean => seen[d].clean
                            /\ d # c => conn'[d] = conn[d] /\ seen'[d] = seen[d]
  BY <1>1 DEF Effect, Keeps, Own, server, env
<1>3. ASSUME NEW d \in Clients, d # c
      PROVE  Discovering(d)'
  <2>1. conn'[d] = conn[d] /\ seen'[d] = seen[d] /\ Discovering(d)
    BY <1>2, <1>3 DEF AllDiscovering
  <2>2. UNCHANGED <<Busy(d), Answered(d), Clear(d), Running(d), SentThere(d)>>
    BY <1>2, <2>1 DEF Busy, Answered, Clear, Running, SentThere, Canonical
  <2>3. QED
    BY <1>2, <2>1, <2>2 DEF Discovering
<1>4. Discovering(c)'
  <2> DEFINE route == conn[c].route
             name == NameOf(route)
  <2>1. Discovering(c) /\ conn'[c].route = route
    BY <1>2 DEF AllDiscovering
  <2>2. Busy(c)' /\ seen'[c].clean => granted'
    BY <1>1, <1>2, <2>1 DEF Discovering
  <2>3. CASE ~Discovers(route)
    BY <2>1, <2>2, <2>3 DEF Discovering
  <2>4. CASE Discovers(route) /\ CallFails(c)
    <3>1. ~Clear(c)'
      BY <2>4, FailsEffect, FailedEffect DEF Flow, Clear
    <3>2. Designated(name, task') \in seen'[c].targets
      BY <1>1, <1>2, <2>1, <2>4 DEF Discovering
    <3>3. QED
      BY <2>1, <2>2, <3>1, <3>2 DEF Discovering
  <2>5. CASE Discovers(route) /\ LookUp(c)
    <3>1. PICK call \in {"Running", "Completed"} :
            /\ Calling(c, call)
            /\ LET found == FoundTasks(name, call = "Completed", task)
               IN  IF granted /\ Cardinality(found) = 1 /\ \A t \in found : HasContainer(task, t)
                   THEN \E t \in found :
                          Answer(c, 303, RedirectURL(Canonical(t), route.handler, FileOf(route)))
                   ELSE IF Rest(c) # <<>> THEN Proceed(c, Rest(c)) ELSE Answer(c, 500, <<>>)
      BY <2>5, ZenonT(40) DEF LookUp, NameOf
    <3>2. seen' = seen /\ Connections
      BY <2>5 DEF LookUp, Flow
    <3> DEFINE D == Designated(name, task)
               running == FoundTasks(name, FALSE, task)
               completed == FoundTasks(name, TRUE, task)
               found == FoundTasks(name, call = "Completed", task)
               one == Cardinality(found) = 1 /\ \A t \in found : HasContainer(task, t)
    <3>3. /\ Cardinality(running) = 1 /\ (\A t \in running : HasContainer(task, t)) => D = running
          /\ ~(Cardinality(running) = 1 /\ \A t \in running : HasContainer(task, t)) =>
               D = {} \/ running = {}
          /\ running = {} => D = IF Cardinality(completed) = 1 THEN completed ELSE {}
          /\ \A t \in completed : HasContainer(task, t)
      BY DesignatedFacts
    <3>4. D \in seen[c].targets
      BY <1>1, <2>1, <2>5 DEF Discovering
    <3>5. /\ call = "Running" => Rest(c) = <<"Completed">> /\ found = running
          /\ call = "Completed" =>
               conn[c].todo = <<"Completed">> /\ Rest(c) = <<>> /\ found = completed
      BY <2>5, <3>1, Called
    <3>6. Clear(c) => granted /\ D # {} /\ (call = "Completed" => running = {})
      BY <1>1, <2>1, <2>5, <3>4, <3>5 DEF Discovering, Clear, Running
    <3> HIDE DEF D, running, completed
    <3>7. Clear(c)' = Clear(c)
      BY <3>2 DEF Clear
    <3>8. Clear(c) /\ one => D = found
      BY <3>3, <3>5, <3>6
    <3>9. Clear(c) /\ ~one => call = "Running" /\ running = {}
      BY <3>3, <3>5, <3>6
    <3>10. CASE granted /\ one
      <4> DEFINE code == 303
      <4>1. PICK t \in found : Answer(c, code, RedirectURL(Canonical(t), route.handler, FileOf(route)))
        BY <3>1, <3>10
      <4> DEFINE body == RedirectURL(Canonical(t), route.handler, FileOf(route))
      <4>2. HasContainer(task, t) /\ t \in Tasks
        BY <3>10, <4>1 DEF FoundTasks, Matching
      <4>3. t \in found /\ Answer(c, code, body)
        BY <4>1
      <4> HIDE DEF body, code, found, one
      <4>4. /\ conn'[c].todo = <<>>
            /\ conn'[c].ans.code = code /\ conn'[c].ans.body = body
        BY <3>2, <4>3, AnswerGiven
      <4>5. Canonical(t)' = Canonical(t)
        BY <1>2 DEF Canonical
      <4>6. Clear(c) => SentThere(c)'
        BY <1>2, <2>1, <3>4, <3>8, <3>10, <4>2, <4>3, <4>4, <4>5 DEF SentThere, code, body
      <4>7. ~Busy(c)' /\ <<>> # <<"Completed">>
        BY <4>4 DEF Busy
      <4>8. QED
        BY <2>1, <2>2, <3>7, <4>4, <4>6, <4>7 DEF Discovering
    <3>11. CASE ~(granted /\ one) /\ call = "Running"
      <4>1. Proceed(c, Rest(c))
        <5>1. IF Rest(c) # <<>> THEN Proceed(c, Rest(c)) ELSE Answer(c, 500, <<>>)
          BY <3>1, <3>11
        <5>2. Rest(c) # <<>>
          BY <3>5, <3>11
        <5>3. QED
          BY <5>1, <5>2, Zenon
      <4>2. conn'[c].ans = conn[c].ans /\ conn[c].ans.code = 0
        BY <1>1, <3>2, <4>1, Updates DEF Flow, ClientOK
      <4>3. ~Answered(c)'
        BY <4>2 DEF Answered
      <4>4. Clear(c) => Running(c)' = {}
        BY <1>2, <2>1, <3>6, <3>9, <3>11 DEF Running, running
      <4>5. D' = D /\ Designated(NameOf(conn'[c].route), task') = D
        BY <1>2, <2>1 DEF D
      <4>6. QED
        BY <2>1, <2>2, <3>2, <3>4, <3>7, <4>3, <4>4, <4>5 DEF Discovering
    <3>12. CASE ~(granted /\ one) /\ call = "Completed"
      <4>1. ~Clear(c)
        BY <3>6, <3>9, <3>12
      <4>2. Designated(NameOf(conn'[c].route), task') = D
        BY <1>2, <2>1 DEF D
      <4>3. QED
        BY <2>1, <2>2, <3>2, <3>4, <3>7, <4>1, <4>2 DEF Discovering
    <3>13. QED
      BY <3>10, <3>11, <3>12
  <2>6. QED
    BY <2>3, <2>4, <2>5, OnlyLooksUp
<1>5. QED
  BY <1>3, <1>4 DEF AllDiscovering

\* Targets are only added to while mesos starts and ends tasks.
LEMMA DiscoveringEnvironment ==
  ASSUME Flow, AllDiscovering, Environment
  PROVE  AllDiscovering'
<1>1. /\ conn' = conn /\ Observe /\ granted' \in BOOLEAN
      /\ \A t \in Tasks : HasContainer(task, t) =>
           HasContainer(task', t) /\ task'[t].agent = task[t].agent
  BY EnvironmentEffect
<1>2. ASSUME NEW c \in Clients
      PROVE  Discovering(c)'
  <2> DEFINE route == conn[c].route
             name == NameOf(route)
  <2>1. /\ Discovering(c) /\ ClientOK(c)
        /\ conn'[c] = conn[c] /\ Busy(c)' = Busy(c) /\ Answered(c)' = Answered(c)
    BY <1>1 DEF AllDiscovering, Flow, Busy, Answered
  <2>2. /\ ~Busy(c) => seen'[c] = seen[c]
        /\ seen'[c].clean => seen[c].clean /\ (Busy(c) => granted')
        /\ seen[c].targets \subseteq seen'[c].targets
        /\ Busy(c) /\ Discovers(route) =>
             seen'[c].targets = seen[c].targets \cup {Designated(name, task')}
    BY <1>1, ObserveEffect DEF Flow
  <2>3. Clear(c)' => Clear(c)
    BY <2>2 DEF Clear
  <2>4. Answered(c) => ~Busy(c)
    BY <2>1 DEF ClientOK, Answered
  <2>5. ASSUME Answered(c), SentThere(c)
        PROVE  SentThere(c)'
    <3>1. PICK target \in seen[c].targets : \E t \in target :
            /\ t \in Tasks /\ HasContainer(task, t)
            /\ conn[c].ans.body = RedirectURL(Canonical(t), route.handler, FileOf(route))
      BY <2>5 DEF SentThere
    <3>2. PICK t \in target :
            /\ t \in Tasks /\ HasContainer(task, t)
            /\ conn[c].ans.body = RedirectURL(Canonical(t), route.handler, FileOf(route))
      BY <3>1
    <3>3. HasContainer(task', t) /\ Canonical(t)' = Canonical(t)
      BY <1>1, <3>2 DEF Canonical
    <3>4. seen'[c].targets = seen[c].targets
      BY <2>2, <2>4, <2>5
    <3>5. QED
      BY <2>1, <2>5, <3>1, <3>2, <3>3, <3>4 DEF SentThere
  <2>6. ASSUME Discovers(route), conn[c].todo = <<"Completed">>, Clear(c)'
        PROVE  Running(c)' = {}
    <3>1. FoundTasks(name, FALSE, task) = {}
      BY <2>1, <2>3, <2>6 DEF Discovering, Running
    <3>2. Busy(c)
      BY <2>6 DEF Busy
    <3>3. Designated(name, task') \in seen'[c].targets
      BY <2>2, <2>6, <3>2
    <3>4. Designated(name, task') # {}
      BY <2>6, <3>3 DEF Clear
    <3>5. FoundTasks(name, FALSE, task') = {}
      BY <3>1, <3>4, StillNone
    <3>6. QED
      BY <2>1, <3>5 DEF Running
  <2>7. QED
    BY <2>1, <2>2, <2>3, <2>5, <2>6 DEF Discovering
<1>3. QED
  BY <1>2 DEF AllDiscovering


\* Nothing is being discovered before the first request.
LEMMA DiscoveringInit == Init => AllDiscovering
<1> SUFFICES ASSUME Init
             PROVE  AllDiscovering
  OBVIOUS
<1>1. ASSUME NEW c \in Clients
      PROVE  /\ ~Busy(c) /\ ~Answered(c)
             /\ conn[c].todo # <<"Completed">>
  <2>1. phase = "starting" /\ ClientOK(c)
    BY FlowInit DEF Init, Flow
  <2>2. conn[c].todo = <<>> /\ conn[c].ans.code = 0
    BY <2>1 DEF ClientOK
  <2>3. QED
    BY <2>2 DEF Busy, Answered
<1>2. QED
  BY <1>1 DEF AllDiscovering, Discovering

\* Discovering survives every step.
LEMMA DiscoveringStep == Flow /\ AllDiscovering /\ [Next]_vars => AllDiscovering'
<1> SUFFICES ASSUME Flow, AllDiscovering, [Next]_vars
             PROVE  AllDiscovering'
  OBVIOUS
<1>1. ASSUME NEW in \in Starts, StartServer(in) \/ StartFails(in)
      PROVE  AllDiscovering'
  <2>1. /\ UNCHANGED <<task, granted, conn, seen>>
        /\ \A c \in Clients : ~Busy(c) /\ ~Busy(c)' /\ conn[c].ans.code = 0
    BY <1>1, StartEffect
  <2>2. \A c \in Clients : ~Answered(c)' /\ conn'[c].todo # <<"Completed">>
    BY <2>1 DEF Answered, Busy
  <2>3. QED
    BY <2>1, <2>2 DEF AllDiscovering, Discovering
<1>2. CASE Environment
  BY <1>2, DiscoveringEnvironment
<1>3. ASSUME NEW c \in Clients, NEW r \in Requests[c], Arrive(c, r)
      PROVE  AllDiscovering'
  <2>1. ServeHTTP(c, r, RouteOf(r.path), RouteOf(r.path))
    BY <1>3 DEF Arrive
  <2>2. RouteOK(RouteOf(r.path)) /\ UNCHANGED <<server, env>>
    BY <2>1, RouteFacts DEF ServeHTTP
  <2>3. Served(c, r, RouteOf(r.path), RouteOf(r.path))
    BY <2>1, ServeEffect
  <2>4. QED
    BY <2>2, <2>3, DiscoveringServe
<1>4. ASSUME NEW c \in Clients, Follow(c)
      PROVE  AllDiscovering'
  <2> DEFINE r == Redirection(conn[c].req, conn[c].ans.body)
             route == RouteOf(r.path)
             first == seen[c].first
  <2>1. ServeHTTP(c, r, route, first)
    BY <1>4, Followed
  <2>2. RouteOK(route)
    BY RouteFacts
  <2> HIDE DEF r, route, first
  <2>3. UNCHANGED <<server, env>>
    BY <2>1 DEF ServeHTTP
  <2>4. Served(c, r, route, first)
    BY <2>1, ServeEffect
  <2>5. QED
    BY <2>2, <2>3, <2>4, DiscoveringServe
<1>5. ASSUME NEW c \in Clients, Local(c) \/ Remote(c)
      PROVE  AllDiscovering'
  BY <1>5, DiscoveringCall
<1>6. CASE UNCHANGED vars
  <2>1. UNCHANGED <<task, granted, conn, seen>>
    BY <1>6 DEF vars, env
  <2>2. ASSUME NEW c \in Clients
        PROVE  Discovering(c)'
    <3>1. UNCHANGED <<Busy(c), Answered(c), Clear(c), Running(c), SentThere(c)>>
      BY <2>1 DEF Busy, Answered, Clear, Running, SentThere, Canonical
    <3>2. Discovering(c)
      BY DEF AllDiscovering
    <3>3. QED
      BY <2>1, <3>1, <3>2 DEF Discovering
  <2>3. QED
    BY <2>2 DEF AllDiscovering
<1>7. QED
  BY <1>1, <1>2, <1>3, <1>4, <1>5, <1>6 DEF Next

\* Discovery asks mesos twice, first for the running tasks, and answers right all the same: if
\* all the time there was one task that the name finds, as its name or as a part of its ID,
\* running or else completed, the client is sent to it.
THEOREM DiscoveryRight == Spec => []DiscoversRight
<1>1. Flow /\ AllDiscovering /\ [Next]_vars => (Flow /\ AllDiscovering)'
  BY FlowStep, DiscoveringStep
<1>2. AllDiscovering => DiscoversRight
  BY DEF AllDiscovering, Discovering, DiscoversRight, Clear, SentThere
<1>3. Spec => [](Flow /\ AllDiscovering)
  BY FlowInit, DiscoveringInit, <1>1, PTL DEF Spec
<1>4. QED
  BY <1>2, <1>3, PTL

-----------------------------------------------------------------------------
(***************************************************************************)
(* Finding what is there.  While the agent keeps its first ID the caches   *)
(* hold no other, a handler that has looked its ID up has that one, and    *)
(* what was on the agent's disk stays there.                               *)
(***************************************************************************)
\* The ID of the node is still to be found out.
Unset(s) == \E i \in 1 .. Len(s) : s[i] \in Setters

\* The premises of FoundIfThere that are not about a request.
Steady == reg = 1 /\ cfg["role"] # "master"

\* The handler knows the agent's ID, will know it or does not use it.
Located(c) ==
  \/ conn[c].node = AgentID
  \/ Unset(conn[c].todo)
  \/ conn[c].todo \in {<<"Journal">>, <<"Field">>}

There(c) == Asked(conn[c].route, AgentID) # <<>> /\ OnDisk(Asked(conn[c].route, AgentID))

Finding(c) ==
  /\ Guards(conn[c].todo) => conn[c].route.guarded
  /\ Busy(c) /\ seen[c].clean => granted
  /\ Steady =>
       /\ Busy(c) /\ ~Discovers(conn[c].route) => Located(c)
       /\ Busy(c) /\ seen[c].there => There(c)
       /\ Answered(c) /\ seen[c].clean /\ seen[c].there =>
            conn[c].ans.code = 200 /\ conn[c].ans.body # <<>>

AllFinding ==
  /\ phase = "starting" => cachedID = ""
  /\ Steady => cachedID \in {"", AgentID}
  /\ \A c \in Clients : Finding(c)

\* What a step of a handler means for finding.
Moves(c) ==
  /\ Guards(conn'[c].todo) => Guards(conn[c].todo)
  /\ Steady =>
       /\ cachedID' \in {"", AgentID}
       /\ conn'[c].todo # <<>> /\ ~Discovers(conn[c].route) =>
            conn'[c].node = AgentID \/ Unset(conn'[c].todo)
       /\ conn'[c].ans.code # 0 /\ seen'[c].clean /\ seen[c].there =>
            conn'[c].ans.code = 200 /\ conn'[c].ans.body # <<>>

-----------------------------------------------------------------------------
\* A call that needs the node's ID has it.
LEMMA NodeKnown ==
  ASSUME Flow, AllFinding, Steady, NEW c \in Clients,
         NEW call \in {"Store", "Authorize", "Size", "Read", "Browse", "Download"},
         Calling(c, call)
  PROVE  conn[c].node = AgentID
<1> DEFINE s == conn[c].todo
           h == conn[c].route.handler
<1>1. Busy(c) /\ ~Discovers(conn[c].route) /\ Planned(s, h)
  BY Called DEF Preliminary, Final
<1>2. Located(c)
  BY <1>1 DEF AllFinding, Finding
<1>3. s \in Seq(Call) /\ Len(s) \in Nat /\ Len(s) > 0 /\ s[1] = call
  <2>1. s \in Seq(Call) /\ Len(s) \in Nat /\ Len(s) > 0
    BY <1>1 DEF Planned
  <2>2. Head(s) = call
    BY DEF Calling
  <2> HIDE DEF s
  <2>3. Head(s) = s[1]
    BY <2>1
  <2>4. QED
    BY <2>1, <2>2, <2>3
<1>4. s # <<"Journal">> /\ s # <<"Field">>
  BY <1>3
<1>5. ~Unset(s)
  <2>1. SUFFICES ASSUME NEW i \in 1 .. Len(s), s[i] \in Setters
                 PROVE  FALSE
    BY DEF Unset
  <2> HIDE DEF s
  <2>2. i # 1
    BY <1>3, <2>1 DEF Setters
  <2>3. 1 \in 1 .. Len(s) /\ 1 < i
    BY <1>3, <2>1, <2>2
  <2>4. s[1] \in {"DetectIP", "Script"}
    BY <1>1, <2>1, <2>3 DEF Planned
  <2>5. QED
    BY <1>3, <2>4
<1>6. QED
  BY <1>2, <1>4, <1>5 DEF Located

\* A preliminary call returns.
LEMMA RestMoves ==
  ASSUME Flow, NEW c \in Clients, NEW call \in Preliminary, Calling(c, call)
  PROVE  /\ Guards(Rest(c)) => Guards(conn[c].todo)
         /\ call \notin Setters /\ Unset(conn[c].todo) => Unset(Rest(c))
         /\ conn[c].todo # <<"Journal">> /\ conn[c].todo # <<"Field">>
<1> DEFINE s == conn[c].todo
           t == Rest(c)
<1>1. /\ Len(s) > 1 /\ Len(t) = Len(s) - 1 /\ Planned(s, conn[c].route.handler)
      /\ \A i \in 1 .. Len(s) - 1 : t[i] = s[i + 1]
  BY Called
<1>2. s \in Seq(Call) /\ Len(s) \in Nat
  BY <1>1 DEF Planned
<1>3. s[1] = call
  BY <1>1, <1>2 DEF Calling
<1>4. s # <<"Journal">> /\ s # <<"Field">>
  BY <1>3 DEF Preliminary
<1> HIDE DEF s, t
<1>5. ASSUME NEW i \in 1 .. Len(t)
      PROVE  i + 1 \in 1 .. Len(s) /\ t[i] = s[i + 1]
  BY <1>1, <1>2
<1>6. ASSUME NEW i \in 1 .. Len(s), s[i] \in Setters, call \notin Setters
      PROVE  \E j \in 1 .. Len(t) : t[j] \in Setters
  <2>1. i # 1
    BY <1>3, <1>6
  <2>2. i - 1 \in 1 .. Len(s) - 1 /\ (i - 1) + 1 = i
    BY <1>2, <2>1
  <2>3. t[i - 1] = s[i]
    BY <1>1, <2>2
  <2>4. QED
    BY <1>1, <1>6, <2>2, <2>3
<1>7. QED
  BY <1>4, <1>5, <1>6 DEF Guards, Unset, s, t

\* A call that neither looks the node's ID up nor changes it returns.
LEMMA Returned ==
  ASSUME Flow, AllFinding, NEW c \in Clients, NEW call \in Preliminary \ Setters, Calling(c, call),
         conn'[c].todo = Rest(c), conn'[c].node = conn[c].node, conn'[c].ans = conn[c].ans,
         Steady => cachedID' \in {"", AgentID}
  PROVE  Moves(c)
<1>1. Busy(c) /\ ~Discovers(conn[c].route) /\ conn[c].ans.code = 0
  <2>1. Busy(c) /\ ~Discovers(conn[c].route)
    BY Called
  <2>2. QED
    BY <2>1 DEF Flow, ClientOK
<1>2. Steady => Located(c)
  BY <1>1 DEF AllFinding, Finding
<1>3. Guards(Rest(c)) => Guards(conn[c].todo)
  BY RestMoves
<1>4. /\ Unset(conn[c].todo) => Unset(Rest(c))
      /\ conn[c].todo # <<"Journal">> /\ conn[c].todo # <<"Field">>
  BY RestMoves
<1>5. QED
  BY <1>1, <1>2, <1>3, <1>4 DEF Moves, Located

\* A handler answers.
LEMMA Ended ==
  ASSUME AllFinding, NEW c \in Clients, conn'[c].todo = <<>>, cachedID' = cachedID,
         Steady /\ seen'[c].clean /\ seen[c].there =>
           conn'[c].ans.code = 200 /\ conn'[c].ans.body # <<>>
  PROVE  Moves(c)
<1>1. ~Guards(<<>>)
  <2>1. Len(<<>>) = 0
    OBVIOUS
  <2>2. QED
    BY <2>1 DEF Guards
<1>2. QED
  BY <1>1 DEF Moves, AllFinding

\* What a request asks for is there and its token is accepted.
LEMMA Sought ==
  ASSUME Flow, AllFinding, Steady, NEW c \in Clients, Busy(c), seen[c].clean, seen[c].there
  PROVE  /\ granted /\ There(c) /\ Sandboxed(conn[c].route) /\ ~Discovers(conn[c].route)
         /\ AgentCode(Asked(conn[c].route, AgentID)) = 200
<1>1. granted /\ There(c)
  BY DEF AllFinding, Finding
<1>2. Sandboxed(conn[c].route)
  BY <1>1 DEF There, Asked, Sandboxed
<1>3. ~Discovers(conn[c].route)
  BY <1>2 DEF Flow, ClientOK, RouteOK, Sandboxed, Discovers
<1>4. AgentCode(Asked(conn[c].route, AgentID)) = 200
  BY <1>1 DEF There, AgentCode
<1>5. QED
  BY <1>1, <1>2, <1>3, <1>4

\* A refusal ends the calls.
LEMMA RefusedEnds ==
  ASSUME Connections, NEW c \in Clients, Refuses(c)
  PROVE  conn'[c].todo = <<>>
BY AnswerGiven DEF Refuses

\* An answer from the agent.
LEMMA AnsweredWith ==
  ASSUME Connections, NEW c \in Clients, NEW body, Answer(c, 200, body)
  PROVE  conn'[c].todo = <<>> /\ conn'[c].ans.code = 200 /\ conn'[c].ans.body = body
<1> DEFINE code == 200
<1>1. Answer(c, code, body)
  OBVIOUS
<1> HIDE DEF code
<1>2. conn'[c].todo = <<>> /\ conn'[c].ans.code = code /\ conn'[c].ans.body = body
  BY <1>1, AnswerGiven
<1>3. QED
  BY <1>2 DEF code

\* NodeInfo looks the node's ID up.
LEMMA MesosIDMoves ==
  ASSUME Flow, AllFinding, NEW c \in Clients, MesosIDHit(c) \/ MesosIDMiss(c)
  PROVE  Moves(c)
<1> DEFINE s == conn[c].todo
<1>1. Calling(c, "MesosID") /\ "MesosID" \in Preliminary
  BY DEF MesosIDHit, MesosIDMiss, Preliminary
<1>2. /\ Busy(c) /\ conn[c].ans.code = 0 /\ ~Discovers(conn[c].route)
      /\ Planned(s, conn[c].route.handler)
  <2>1. Busy(c) /\ ~Discovers(conn[c].route) /\ Planned(s, conn[c].route.handler)
    BY <1>1, Called
  <2>2. QED
    BY <2>1 DEF Flow, ClientOK
<1>3. Guards(Rest(c)) => Guards(s)
  BY <1>1, RestMoves
<1>4. Connections
  BY DEF Flow
<1>5. cachedID' = cachedID /\ (Steady => cachedID \in {"", AgentID})
  BY DEF MesosIDHit, MesosIDMiss, cache, AllFinding
<1>6. CASE MesosIDHit(c)
  <2>1. conn' = [conn EXCEPT ![c].todo = Tail(@), ![c].node = cachedID] /\ cachedID # ""
    BY <1>6 DEF MesosIDHit
  <2>2. conn'[c].todo = Rest(c) /\ conn'[c].node = cachedID /\ conn'[c].ans = conn[c].ans
    BY <1>4, <2>1, Updates DEF Rest
  <2>3. QED
    BY <1>2, <1>3, <1>5, <2>1, <2>2 DEF Moves
<1>7. CASE MesosIDMiss(c)
  <2> DEFINE new == <<"DetectIP", "State", "Store">> \o Tail(s)
  <2>1. Proceed(c, new)
    BY <1>7 DEF MesosIDMiss, Rest
  <2>2. conn'[c].todo = new /\ conn'[c].ans = conn[c].ans
    <3> HIDE DEF new
    <3>1. QED
      BY <1>4, <2>1, Updates
  <2>3. /\ Len(new) = Len(s) + 2
        /\ new[1] = "DetectIP" /\ new[2] = "State" /\ new[3] = "Store"
        /\ \A i \in 2 .. Len(s) : new[i + 2] = s[i]
    BY <1>1, <1>2, PlannedMiss DEF Calling
  <2>4. Len(s) \in Nat /\ Len(s) > 0
    BY <1>2 DEF Planned
  <2> HIDE DEF new, s
  <2>5. Unset(new)
    <3>1. 2 \in 1 .. Len(new)
      BY <2>3, <2>4
    <3>2. QED
      BY <2>3, <3>1 DEF Unset, Setters
  <2>6. Guards(new) => Guards(s)
    <3>1. ASSUME NEW i \in 1 .. Len(new), new[i] = "Authorize"
          PROVE  \E j \in 1 .. Len(s) : s[j] = "Authorize"
      <4>1. i # 1 /\ i # 2 /\ i # 3
        BY <2>3, <3>1
      <4>2. i - 2 \in 2 .. Len(s) /\ (i - 2) + 2 = i
        BY <2>3, <2>4, <4>1
      <4>3. new[i] = s[i - 2]
        BY <2>3, <4>2
      <4>4. QED
        BY <2>4, <3>1, <4>2, <4>3
    <3>2. QED
      BY <3>1 DEF Guards
  <2>7. QED
    BY <1>2, <1>5, <2>2, <2>5, <2>6 DEF Moves, s
<1>8. QED
  BY <1>6, <1>7

\* NodeInfo finds the address out.
LEMMA DetectIPMoves ==
  ASSUME Flow, AllFinding, NEW c \in Clients,
         DetectIPHit(c) \/ DetectIPRun(c) \/ ScriptDone(c) \/ ScriptFails(c)
  PROVE  Moves(c)
<1> DEFINE s == conn[c].todo
<1>1. cachedID' = cachedID /\ (Steady => cachedID \in {"", AgentID})
  BY DEF DetectIPHit, DetectIPRun, ScriptDone, ScriptFails, cache, AllFinding
<1>2. Connections
  BY DEF Flow
<1>3. {"DetectIP", "Script"} \subseteq Preliminary \ Setters
  BY DEF Preliminary, Setters
<1>4. CASE DetectIPHit(c) \/ ScriptDone(c)
  <2>1. PICK call \in Preliminary \ Setters : Calling(c, call)
    BY <1>3, <1>4 DEF DetectIPHit, ScriptDone
  <2>2. Proceed(c, Rest(c))
    BY <1>4 DEF DetectIPHit, ScriptDone
  <2>3. conn'[c].todo = Rest(c) /\ conn'[c].node = conn[c].node /\ conn'[c].ans = conn[c].ans
    BY <1>2, <2>2, Updates
  <2>4. QED
    BY <1>1, <2>1, <2>3, Returned
<1>5. CASE DetectIPRun(c)
  <2> DEFINE new == <<"Script">> \o Tail(s)
  <2>1. Proceed(c, new) /\ Calling(c, "DetectIP") /\ "DetectIP" \in Preliminary
    BY <1>3, <1>5 DEF DetectIPRun, Rest
  <2>2. /\ conn'[c].todo = new /\ conn'[c].node = conn[c].node /\ conn'[c].ans = conn[c].ans
    <3> HIDE DEF new
    <3>1. QED
      BY <1>2, <2>1, Updates
  <2>3. Busy(c) /\ ~Discovers(conn[c].route) /\ Planned(s, conn[c].route.handler)
    BY <2>1, Called
  <2>4. conn[c].ans.code = 0
    BY <2>3 DEF Flow, ClientOK
  <2>5. Len(new) = Len(s) /\ new[1] = "Script" /\ \A i \in 2 .. Len(s) : new[i] = s[i]
    BY <2>1, <2>3, PlannedScript DEF Calling
  <2>6. s[1] = "DetectIP" /\ Len(s) \in Nat
    BY <2>1, <2>3 DEF Calling, Planned
  <2>7. s # <<"Journal">> /\ s # <<"Field">>
    BY <2>1, RestMoves
  <2>8. Steady => Located(c)
    BY <2>3 DEF AllFinding, Finding
  <2> HIDE DEF new, s
  <2>9. \A i \in 1 .. Len(s) : i = 1 \/ new[i] = s[i]
    BY <2>5, <2>6
  <2>10. Unset(s) => Unset(new)
    <3>1. \A i \in 1 .. Len(s) : s[i] \in Setters => new[i] = s[i]
      BY <2>6, <2>9 DEF Setters
    <3>2. QED
      BY <2>5, <3>1 DEF Unset
  <2>11. Guards(new) => Guards(s)
    <3>1. \A i \in 1 .. Len(s) : new[i] = "Authorize" => s[i] = "Authorize"
      BY <2>5, <2>9
    <3>2. QED
      BY <2>5, <3>1 DEF Guards
  <2>12. Steady => conn[c].node = AgentID \/ Unset(s)
    BY <2>7, <2>8 DEF Located, s
  <2>13. QED
    BY <1>1, <2>2, <2>4, <2>10, <2>11, <2>12 DEF Moves, s
<1>6. CASE ScriptFails(c)
  <2>1. Answer(c, 500, <<>>) /\ Failed(c)
    BY <1>6 DEF ScriptFails
  <2>2. conn'[c].todo = <<>>
    BY <1>2, <2>1, Refusals, RefusedEnds
  <2>3. ~seen'[c].clean
    BY <2>1, FailedEffect DEF Flow
  <2>4. QED
    BY <1>1, <2>2, <2>3, Ended
<1>7. QED
  BY <1>4, <1>5, <1>6

\* MesosID gets the agent's ID from the state of mesos and stores it.
LEMMA StateMoves ==
  ASSUME Flow, AllFinding, NEW c \in Clients, FetchState(c) \/ Store(c)
  PROVE  Moves(c)
<1>1. Connections
  BY DEF Flow
<1>2. CASE FetchState(c)
  <2> DEFINE Nodes == IF cfg["role"] = "master" THEN {MasterID} ELSE {AgentID}
             Goes(node) == conn' = [conn EXCEPT ![c].todo = Tail(@), ![c].node = node]
  <2>1. /\ Calling(c, "State") /\ "State" \in Preliminary /\ cachedID' = cachedID
        /\ \/ \E node \in Nodes : seen' = seen /\ Goes(node)
           \/ Answer(c, 500, <<>>) /\ Failed(c)
           \/ Answer(c, 500, <<>>) /\ ~granted /\ seen' = seen
    BY <1>2, FetchedState DEF cache, Preliminary
  <2>2. \A node \in Nodes : Steady => node = AgentID
    BY DEF Steady
  <2> HIDE DEF Nodes
  <2>3. Busy(c) /\ conn[c].ans.code = 0 /\ (seen[c].clean => granted)
    <3>1. Busy(c)
      BY <2>1, Called
    <3>2. QED
      BY <3>1 DEF Flow, ClientOK, AllFinding, Finding
  <2>4. Steady => cachedID' \in {"", AgentID}
    BY <2>1 DEF AllFinding
  <2>5. ASSUME NEW node \in Nodes, Goes(node), seen' = seen
        PROVE  Moves(c)
    <3>1. conn'[c].todo = Rest(c) /\ conn'[c].node = node /\ conn'[c].ans = conn[c].ans
      BY <1>1, <2>5, Updates DEF Rest
    <3>2. Guards(Rest(c)) => Guards(conn[c].todo)
      BY <2>1, RestMoves
    <3>3. Steady => node = AgentID
      BY <2>2
    <3>4. QED
      BY <2>3, <2>4, <3>1, <3>2, <3>3 DEF Moves
  <2>6. ASSUME Answer(c, 500, <<>>), Failed(c) \/ (~granted /\ seen' = seen)
        PROVE  Moves(c)
    <3>1. conn'[c].todo = <<>>
      BY <1>1, <2>6, Refusals, RefusedEnds
    <3>2. ~seen'[c].clean
      <4>1. Failed(c) => ~seen'[c].clean
        BY FailedEffect DEF Flow
      <4>2. QED
        BY <2>3, <2>6, <4>1
    <3>3. QED
      BY <2>1, <3>1, <3>2, Ended
  <2> HIDE DEF Goes
  <2>7. QED
    BY <2>1, <2>5, <2>6
<1>3. CASE Store(c)
  <2>1. Calling(c, "Store") /\ Proceed(c, Rest(c)) /\ cachedID' = conn[c].node
    BY <1>3 DEF Store
  <2>2. "Store" \in Preliminary \ Setters
    BY DEF Preliminary, Setters
  <2>3. conn'[c].todo = Rest(c) /\ conn'[c].node = conn[c].node /\ conn'[c].ans = conn[c].ans
    BY <1>1, <2>1, Updates
  <2>4. Steady => cachedID' = AgentID
    BY <2>1, NodeKnown
  <2>5. QED
    BY <2>1, <2>2, <2>3, <2>4, Returned
<1>4. QED
  BY <1>2, <1>3

\* Auth, asked about the sandbox of a container.
LEMMA AuthorizeMoves ==
  ASSUME Flow, AllFinding, NEW c \in Clients, Authorize(c)
  PROVE  Moves(c)
<1> DEFINE path == AuthPath(conn[c].node, conn[c].route.vars)
           code == AuthCode(path)
<1>1. Calling(c, "Authorize") /\ "Authorize" \in Preliminary \ Setters
  BY DEF Authorize, Preliminary, Setters
<1>2. Connections
  BY DEF Flow
<1>3. cachedID' = cachedID /\ seen' = seen /\ (Steady => cachedID \in {"", AgentID})
  BY DEF Authorize, cache, AllFinding
<1>4. IF PassesAuth(code) THEN Proceed(c, Rest(c)) ELSE Answer(c, code, <<>>)
  BY DEF Authorize
<1>5. Busy(c) /\ Planned(conn[c].todo, conn[c].route.handler)
  BY <1>1, Called
<1>6. conn[c].route.guarded
  <2>1. Guards(conn[c].todo)
    <3> DEFINE s == conn[c].todo
    <3>1. s \in Seq(Call) /\ Len(s) \in Nat /\ Len(s) > 0 /\ s[1] = "Authorize"
      BY <1>1, <1>5 DEF Calling, Planned
    <3> HIDE DEF s
    <3>2. 1 \in 1 .. Len(s)
      BY <3>1
    <3>3. Guards(s)
      BY <3>1, <3>2 DEF Guards
    <3>4. QED
      BY <3>3 DEF s
  <2>2. QED
    BY <2>1 DEF AllFinding, Finding
<1>7. ASSUME Steady, seen[c].clean, seen[c].there
      PROVE  PassesAuth(code)
  <2>1. conn[c].node = AgentID
    BY <1>1, <1>7, NodeKnown
  <2>2. AgentCode(Asked(conn[c].route, AgentID)) = 200
    BY <1>5, <1>7, Sought
  <2>3. conn[c].route.handler = "readJournalHandler"
    BY <1>6 DEF Flow, ClientOK, RouteOK
  <2>4. Asked(conn[c].route, AgentID) = path
    BY <1>6, <2>1, <2>3 DEF Asked
  <2>5. code = 200
    BY <1>7, <2>2, <2>4 DEF AuthCode, Steady
  <2>6. QED
    BY <2>5 DEF PassesAuth
<1>8. CASE PassesAuth(code)
  <2>1. conn'[c].todo = Rest(c) /\ conn'[c].node = conn[c].node /\ conn'[c].ans = conn[c].ans
    BY <1>2, <1>4, <1>8, Updates
  <2>2. QED
    BY <1>1, <1>3, <2>1, Returned
<1>9. CASE ~PassesAuth(code)
  <2>1. conn'[c].todo = <<>> /\ conn'[c].ans.code = code
    <3> HIDE DEF code
    <3>1. QED
      BY <1>2, <1>4, <1>9, AnswerGiven
  <2>2. ~(Steady /\ seen'[c].clean /\ seen[c].there)
    BY <1>3, <1>7, <1>9
  <2>3. QED
    BY <1>3, <2>1, <2>2, Ended
<1>10. QED
  BY <1>8, <1>9

\* The agent, asked for a file or a directory.
LEMMA AgentMoves ==
  ASSUME Flow, AllFinding, NEW c \in Clients, Size(c) \/ Read(c) \/ Browse(c) \/ Download(c)
  PROVE  Moves(c)
<1> DEFINE Missed == ~(Steady /\ seen[c].clean /\ seen[c].there)
<1>1. Connections
  BY DEF Flow
<1>2. cachedID' = cachedID /\ seen' = seen /\ (Steady => cachedID \in {"", AgentID})
  BY DEF Size, Read, Browse, Download, cache, AllFinding
<1>3. ASSUME NEW call \in {"Size", "Read", "Browse", "Download"}, Calling(c, call), ~Missed
      PROVE  AgentCode(Target(c)) = 200 /\ Target(c) # <<>>
  <2>1. Busy(c)
    BY <1>3 DEF Calling
  <2>2. conn[c].node = AgentID
    BY <1>3, NodeKnown
  <2>3. There(c) /\ AgentCode(Asked(conn[c].route, AgentID)) = 200
    BY <1>3, <2>1, Sought
  <2>4. QED
    BY <2>2, <2>3 DEF Target, There
<1>4. ASSUME Refuses(c), Missed
      PROVE  Moves(c)
  BY <1>1, <1>2, <1>4, RefusedEnds, Ended
<1>5. ASSUME Answer(c, 200, Target(c)), Missed \/ Target(c) # <<>>
      PROVE  Moves(c)
  <2> DEFINE body == Target(c)
  <2>1. Answer(c, 200, body) /\ (Missed \/ body # <<>>)
    BY <1>5
  <2> HIDE DEF body
  <2>2. conn'[c].todo = <<>> /\ conn'[c].ans.code = 200 /\ conn'[c].ans.body = body
    BY <1>1, <2>1, AnsweredWith
  <2>3. QED
    BY <1>2, <2>1, <2>2, Ended
<1>6. CASE Size(c)
  <2>1. CASE AtAgent(c, "Size", 200) /\ Proceed(c, Rest(c))
    <3>1. Calling(c, "Size") /\ "Size" \in Preliminary \ Setters
      BY <2>1 DEF AtAgent, Preliminary, Setters
    <3>2. conn'[c].todo = Rest(c) /\ conn'[c].node = conn[c].node /\ conn'[c].ans = conn[c].ans
      BY <1>1, <2>1, Updates
    <3>3. QED
      BY <1>2, <3>1, <3>2, Returned
  <2>2. CASE /\ AtAgent(c, "Size", 404) \/ AtAgent(c, "Size", 401)
             /\ Answer(c, 204, <<>>) \/ Answer(c, 500, <<>>)
    <3>1. Calling(c, "Size") /\ AgentCode(Target(c)) # 200
      BY <2>2 DEF AtAgent
    <3>2. Missed
      BY <1>3, <3>1
    <3>3. Refuses(c)
      BY <2>2, Refusals
    <3>4. QED
      BY <1>4, <3>2, <3>3
  <2>3. QED
    BY <1>6, <2>1, <2>2 DEF Size
<1>7. CASE Read(c)
  <2>1. CASE AtAgent(c, "Read", 200) /\ Answer(c, 200, Target(c))
    <3>1. Calling(c, "Read")
      BY <2>1 DEF AtAgent
    <3>2. QED
      BY <1>3, <1>5, <2>1, <3>1
  <2>2. CASE /\ AtAgent(c, "Read", 404) \/ AtAgent(c, "Read", 401)
             /\ Answer(c, 200, <<>>) \/ Answer(c, 404, <<>>) \/ Answer(c, 500, <<>>)
    <3>1. Calling(c, "Read") /\ AgentCode(Target(c)) # 200
      BY <2>2 DEF AtAgent
    <3>2. Missed
      BY <1>3, <3>1
    <3>3. Refuses(c)
      BY <2>2, Refusals
    <3>4. QED
      BY <1>4, <3>2, <3>3
  <2>3. CASE conn[c].req.stream
    BY <1>7, <2>1, <2>2, <2>3 DEF Read
  <2>4. CASE ~conn[c].req.stream
    BY <1>7, <2>1, <2>2, <2>4 DEF Read
  <2>5. QED
    BY <2>3, <2>4
<1>8. CASE Browse(c)
  <2>1. CASE AtAgent(c, "Browse", 200) /\ Answer(c, 200, Target(c))
    <3>1. Calling(c, "Browse")
      BY <2>1 DEF AtAgent
    <3>2. QED
      BY <1>3, <1>5, <2>1, <3>1
  <2>2. CASE \E code \in Undecodable : AtAgent(c, "Browse", code) /\ Answer(c, 500, <<>>)
    <3>1. Calling(c, "Browse") /\ AgentCode(Target(c)) # 200
      BY <2>2 DEF AtAgent, Undecodable
    <3>2. Missed
      BY <1>3, <3>1
    <3>3. Refuses(c)
      BY <2>2, Refusals
    <3>4. QED
      BY <1>4, <3>2, <3>3
  <2>3. QED
    BY <1>8, <2>1, <2>2 DEF Browse
<1>9. CASE Download(c)
  <2>1. PICK code \in Downloaded :
          AtAgent(c, "Download", code) /\ Answer(c, 200, IF code = 200 THEN Target(c) ELSE <<>>)
    BY <1>9 DEF Download
  <2>2. Calling(c, "Download") /\ AgentCode(Target(c)) = code
    BY <2>1 DEF AtAgent
  <2>3. CASE code = 200
    <3>1. Answer(c, 200, Target(c))
      BY <2>1, <2>3
    <3>2. QED
      BY <1>3, <1>5, <2>2, <3>1
  <2>4. CASE code # 200
    <3>1. Answer(c, 200, <<>>)
      BY <2>1, <2>4
    <3>2. QED
      BY <1>3, <1>4, <2>2, <2>4, <3>1, Refusals
  <2>5. QED
    BY <2>3, <2>4
<1>10. QED
  BY <1>6, <1>7, <1>8, <1>9

\* The journal answers whoever gets there; field values are no part of a sandbox.
LEMMA JournalMoves ==
  ASSUME Flow, AllFinding, NEW c \in Clients, Journal(c) \/ Field(c)
  PROVE  Moves(c)
<1>1. Connections
  BY DEF Flow
<1>2. cachedID' = cachedID /\ seen' = seen
  BY DEF Journal, Field, cache
<1>3. CASE Journal(c)
  <2> DEFINE body == <<"journal", conn[c].route.vars["{container_id}"]>>
  <2>1. Answer(c, 200, body) /\ body # <<>>
    BY <1>3 DEF Journal
  <2> HIDE DEF body
  <2>2. conn'[c].todo = <<>> /\ conn'[c].ans.code = 200 /\ conn'[c].ans.body = body
    BY <1>1, <2>1, AnsweredWith
  <2>3. QED
    BY <1>2, <2>1, <2>2, Ended
<1>4. CASE Field(c)
  <2>1. Calling(c, "Field") /\ "Field" \in Final
    BY <1>4 DEF Field, Final
  <2>2. Busy(c) /\ "Field" = FinalCall(conn[c].route.handler)
    BY <2>1, Called
  <2>3. conn[c].route.handler = "fieldHandler"
    BY <2>2 DEF FinalCall
  <2>4. ~Sandboxed(conn[c].route)
    BY <2>3 DEF Sandboxed, Flow, ClientOK, RouteOK
  <2>5. ~(Steady /\ seen[c].clean /\ seen[c].there)
    BY <2>2, <2>4, Sought
  <2>6. Answer(c, 400, <<>>) \/ \E code \in {200, 204} : Answer(c, code, <<>>)
    BY <1>4, Zenon DEF Field
  <2>7. CASE Answer(c, 400, <<>>)
    BY <1>1, <1>2, <2>5, <2>7, Refusals, RefusedEnds, Ended
  <2>8. CASE \E code \in {200, 204} : Answer(c, code, <<>>)
    <3>1. PICK code \in {200, 204} : Answer(c, code, <<>>)
      BY <2>8
    <3>2. code \in Code \ {0, 303}
      BY DEF Code
    <3>3. Refuses(c)
      BY <3>1, <3>2, RefusesWith
    <3>4. QED
      BY <1>1, <1>2, <2>5, <3>3, RefusedEnds, Ended
  <2>9. QED
    BY <2>6, <2>7, <2>8
<1>5. QED
  BY <1>3, <1>4

\* Discovery looks at no sandbox.
LEMMA RetryMoves ==
  ASSUME Flow, AllFinding, NEW c \in Clients, Busy(c), Effect(c), Discovers(conn[c].route),
         cachedID' = cachedID
  PROVE  Moves(c)
<1>1. conn[c].ans.code = 0 /\ (Steady => cachedID \in {"", AgentID})
  BY DEF Flow, ClientOK, AllFinding
<1>2. CASE Retries(c)
  <2> DEFINE s == <<"Completed">>
  <2>1. Len(s) = 1 /\ s[1] = "Completed"
    OBVIOUS
  <2>2. conn'[c].todo = s /\ conn'[c].ans.code = 0
    BY <1>1, <1>2 DEF Retries
  <2> HIDE DEF s
  <2>3. ~Guards(s)
    BY <2>1 DEF Guards
  <2>4. QED
    BY <1>1, <2>2, <2>3 DEF Moves
<1>3. CASE Ends(c)
  <2>1. conn'[c].todo = <<>> /\ (seen'[c].clean => seen[c].clean)
    BY <1>3 DEF Ends, Effect, Keeps
  <2>2. ~(Steady /\ seen[c].clean /\ seen[c].there)
    BY Sought
  <2>3. QED
    BY <2>1, <2>2, Ended
<1>4. QED
  BY <1>2, <1>3 DEF Effect, Continues

\* A call that fails makes the request one that FoundIfThere says nothing of.
LEMMA FailsMoves ==
  ASSUME Flow, AllFinding, NEW c \in Clients, CallFails(c)
  PROVE  Moves(c)
<1>1. Effect(c) /\ Failed(c) /\ cachedID' = cachedID
  BY FailsEffect DEF CallFails, cache
<1>2. Connections /\ ~seen'[c].clean
  BY <1>1, FailedEffect DEF Flow
<1>3. \/ Calling(c, "Running") /\ Rest(c) # <<>> /\ Proceed(c, Rest(c))
      \/ Answer(c, 200, <<>>)
      \/ Answer(c, 500, <<>>)
  BY DEF CallFails
<1>4. CASE Calling(c, "Running")
  <2>1. Busy(c) /\ Discovers(conn[c].route)
    BY <1>4, Called DEF Call, Preliminary, Final
  <2>2. QED
    BY <1>1, <2>1, RetryMoves
<1>5. CASE Answer(c, 200, <<>>) \/ Answer(c, 500, <<>>)
  BY <1>1, <1>2, <1>5, Refusals, RefusedEnds, Ended
<1>6. QED
  BY <1>3, <1>4, <1>5

\* Every step of a handler.
LEMMA CallMoves ==
  ASSUME Flow, AllFinding, NEW c \in Clients, Local(c) \/ Remote(c)
  PROVE  Moves(c)
<1>1. CASE LookUp(c)
  <2>1. PICK call \in {"Running", "Completed"} : Calling(c, call)
    BY <1>1 DEF LookUp
  <2>2. Busy(c) /\ Discovers(conn[c].route)
    BY <2>1, Called DEF Call, Preliminary, Final
  <2>3. Effect(c) /\ cachedID' = cachedID
    BY <1>1, LookUpEffect DEF LookUp, cache
  <2>4. QED
    BY <2>2, <2>3, RetryMoves
<1>2. QED
  BY <1>1, MesosIDMoves, DetectIPMoves, StateMoves, AuthorizeMoves, AgentMoves, JournalMoves,
     FailsMoves DEF Local, Remote

\* A handler's step leaves what other requests look for where it is.
LEMMA FindingCall ==
  ASSUME Flow, AllFinding, NEW c \in Clients, Busy(c), Effect(c), Moves(c)
  PROVE  AllFinding'
<1>1. /\ UNCHANGED <<phase, cfg, reg, task, granted>> /\ Own(c)
      /\ \A d \in Clients :
           /\ seen'[d].there = seen[d].there /\ (seen'[d].clean => seen[d].clean)
           /\ d # c => seen'[d] = seen[d]
  BY DEF Effect, Keeps, server, env
<1>2. Steady' = Steady /\ AgentID' = AgentID /\ Dirs' = Dirs
  BY <1>1 DEF Steady, AgentID, Dirs, ExecutorDir, TaskDir
<1>3. phase # "starting"
  BY DEF Flow, ClientOK, Busy
<1>4. \A d \in Clients : There(d) => There(d)'
  BY <1>1, <1>2 DEF There, OnDisk, Own
<1>5. ASSUME NEW d \in Clients, d # c
      PROVE  Finding(d)'
  <2>1. conn'[d] = conn[d] /\ seen'[d] = seen[d] /\ Finding(d)
    BY <1>1, <1>5 DEF Own, AllFinding
  <2>2. QED
    BY <1>1, <1>2, <1>4, <2>1 DEF Finding, Busy, Answered, Located
<1>6. Finding(c)'
  <2>1. Finding(c) /\ conn'[c].route = conn[c].route
    BY <1>1 DEF AllFinding, Own
  <2>2. Guards(conn[c].todo)' => conn[c].route.guarded
    BY <2>1 DEF Finding, Moves, Guards
  <2>3. Busy(c)' /\ seen'[c].clean => granted'
    BY <1>1, <2>1 DEF Finding
  <2>4. ASSUME Steady
        PROVE  /\ Busy(c)' /\ ~Discovers(conn[c].route) => Located(c)'
               /\ Busy(c)' /\ seen'[c].there => There(c)'
               /\ Answered(c)' /\ seen'[c].clean /\ seen'[c].there =>
                    conn'[c].ans.code = 200 /\ conn'[c].ans.body # <<>>
    <3>1. Busy(c)' /\ ~Discovers(conn[c].route) => Located(c)'
      BY <1>2, <2>4 DEF Moves, Busy, Located, Unset
    <3>2. Busy(c)' /\ seen'[c].there => There(c)'
      BY <1>1, <1>4, <2>1, <2>4 DEF Finding
    <3>3. Answered(c)' /\ seen'[c].clean /\ seen'[c].there =>
            conn'[c].ans.code = 200 /\ conn'[c].ans.body # <<>>
      BY <1>1, <2>4 DEF Moves, Answered
    <3>4. QED
      BY <3>1, <3>2, <3>3
  <2>5. QED
    BY <1>2, <2>1, <2>2, <2>3, <2>4 DEF Finding
<1>7. Steady' => cachedID' \in {"", AgentID'}
  BY <1>2 DEF Moves
<1>8. QED
  BY <1>1, <1>3, <1>5, <1>6, <1>7 DEF AllFinding

\* Only the calls of a guarded route have Auth among them.
LEMMA GuardedCalls ==
  ASSUME NEW r, NEW route, RouteOK(route), Guards(Pending(r, route))
  PROVE  route.guarded
<1>1. Pending(r, route) \in {<<>>, Calls(r, route)}
  BY DEF Pending
<1>2. \A s : Guards(s) => \E i \in 1 .. Len(s) : s[i] = "Authorize"
  BY DEF Guards
<1>3. /\ ~Guards(<<>>) /\ ~Guards(<<"Journal">>) /\ ~Guards(<<"Field">>) /\ ~Guards(Lookups)
      /\ ~Guards(<<"MesosID", "DetectIP", "Size", "Read">>)
      /\ ~Guards(<<"MesosID", "DetectIP", "Read">>)
      /\ ~Guards(<<"MesosID", "DetectIP", "Browse">>)
      /\ ~Guards(<<"MesosID", "DetectIP", "Download">>)
  <2>1. ~Guards(<<>>) /\ ~Guards(<<"Journal">>) /\ ~Guards(<<"Field">>) /\ ~Guards(Lookups)
    BY DEF Guards, Lookups
  <2>2. ~Guards(<<"MesosID", "DetectIP", "Size", "Read">>)
    BY DEF Guards
  <2>3. /\ ~Guards(<<"MesosID", "DetectIP", "Read">>)
        /\ ~Guards(<<"MesosID", "DetectIP", "Browse">>)
        /\ ~Guards(<<"MesosID", "DetectIP", "Download">>)
    BY DEF Guards
  <2>4. QED
    BY <2>1, <2>2, <2>3
<1>4. route.guarded \/ ~Guards(Calls(r, route))
  <2>1. CASE ~route.guarded
    <3>1. \/ Calls(r, route) \in {<<>>, <<"Journal">>, <<"Field">>, Lookups}
          \/ Calls(r, route) = <<"MesosID", "DetectIP", "Size", "Read">>
          \/ Calls(r, route) = <<"MesosID", "DetectIP", "Read">>
          \/ Calls(r, route) = <<"MesosID", "DetectIP", "Browse">>
          \/ Calls(r, route) = <<"MesosID", "DetectIP", "Download">>
      BY <2>1, CallsOf DEF RouteOK, Handler, Discovers
    <3>2. QED
      BY <1>3, <3>1
  <2>2. QED
    BY <2>1
<1>5. QED
  BY <1>1, <1>3, <1>4

\* A request that asks for what is there, with a good token, is not refused at once.
LEMMA FindingServe ==
  ASSUME Flow, AllFinding, NEW c \in Clients, NEW r, NEW route, NEW first, RouteOK(route),
         UNCHANGED <<server, env, cache>>, Served(c, r, route, first), phase = "serving"
  PROVE  AllFinding'
<1> DEFINE todo == Pending(r, route)
           code == EarlyReturn(r, route)
           there == Asked(route, AgentID) # <<>> /\ OnDisk(Asked(route, AgentID))
           clean == granted /\ r.token = "good" /\ r.query # "garbled"
<1>1. UNCHANGED <<phase, cfg, reg, task, granted, cachedID>>
  BY DEF server, env, cache
<1>2. Steady' = Steady /\ AgentID' = AgentID /\ Dirs' = Dirs
  BY <1>1 DEF Steady, AgentID, Dirs, ExecutorDir, TaskDir
<1>3. ASSUME NEW d \in Clients, d # c
      PROVE  Finding(d)'
  <2>1. conn'[d] = conn[d] /\ seen'[d] = seen[d] /\ Finding(d)
    BY <1>3 DEF Served, AllFinding
  <2>2. There(d)' = There(d)
    BY <1>2, <2>1 DEF There, OnDisk
  <2>3. QED
    BY <1>1, <1>2, <2>1, <2>2 DEF Finding, Busy, Answered, Located
<1>4. /\ todo # <<>> /\ ~Discovers(route) =>
           todo \in {<<"Journal">>, <<"Field">>} \/ \E i \in 1 .. Len(todo) : todo[i] \in Setters
      /\ Sandboxed(route) /\ HasToken(r) /\ r.query # "garbled" => code = 0
  BY ServedFacts
<1>5. there => Sandboxed(route)
  BY DEF Asked, Sandboxed
<1>6. Guards(todo) => route.guarded
  BY GuardedCalls
<1>7. Noticed(r, route, first).clean = clean /\ Noticed(r, route, first).there = there
  BY DEF Noticed
<1> HIDE DEF todo, code, there, clean
<1>8. /\ conn'[c].route = route /\ conn'[c].todo = todo /\ conn'[c].ans.code = code
      /\ seen'[c].clean = clean /\ seen'[c].there = there
  BY <1>7 DEF Served, todo, code
<1>9. there => There(c)'
  BY <1>2, <1>8 DEF There, OnDisk, there
<1>10. Finding(c)'
  <2>1. Guards(conn[c].todo)' => conn'[c].route.guarded
    BY <1>6, <1>8 DEF Guards
  <2>2. Busy(c)' /\ seen'[c].clean => granted'
    BY <1>1, <1>8 DEF clean
  <2>3. Busy(c)' /\ ~Discovers(conn[c].route)' => Located(c)'
    BY <1>4, <1>8 DEF Busy, Discovers, Located, Unset
  <2>4. Busy(c)' /\ seen'[c].there => There(c)'
    BY <1>8, <1>9
  <2>5. ~(Answered(c)' /\ seen'[c].clean /\ seen'[c].there)
    BY <1>4, <1>5, <1>8 DEF Answered, HasToken, clean
  <2>6. QED
    BY <2>1, <2>2, <2>3, <2>4, <2>5 DEF Finding
<1>11. QED
  BY <1>1, <1>2, <1>3, <1>10 DEF AllFinding

\* What is on the agent's disk stays there.
LEMMA DiskGrows ==
  ASSUME Flow, Environment
  PROVE  Dirs \subseteq Dirs'
<1>1. \A t \in Tasks : HasContainer(task, t) =>
        HasContainer(task', t) /\ task'[t].agent = task[t].agent
  BY EnvironmentEffect
<1>2. ASSUME NEW t \in Tasks, HasContainer(task, t)
      PROVE  HasContainer(task', t) /\ ExecutorDir(t) \in Dirs' /\ TaskDir(t) \in Dirs'
  <2>1. HasContainer(task', t) /\ task'[t].agent = task[t].agent
    BY <1>1, <1>2
  <2>2. ExecutorDir(t)' = ExecutorDir(t)
    BY <2>1 DEF ExecutorDir
  <2>3. TaskDir(t)' = TaskDir(t)
    BY <2>2 DEF TaskDir
  <2>4. QED
    BY <2>1, <2>2, <2>3 DEF Dirs
<1>3. QED
  BY <1>2 DEF Dirs

\* While the agent keeps its ID nothing that was there is lost to a request.
LEMMA FindingEnvironment ==
  ASSUME Flow, AllFinding, Environment
  PROVE  AllFinding'
<1>1. /\ UNCHANGED <<phase, cfg, cachedID, conn>> /\ Observe /\ granted' \in BOOLEAN
      /\ Dirs \subseteq Dirs'
  BY EnvironmentEffect, DiskGrows
<1>2. \A c \in Clients :
        /\ seen'[c].there = seen[c].there
        /\ ~Busy(c) => seen'[c] = seen[c]
        /\ seen'[c].clean => seen[c].clean /\ (Busy(c) => granted')
  BY <1>1, ObserveEffect DEF Flow
<1>3. Steady' => Steady /\ AgentID' = AgentID
  <2>1. reg \in DOMAIN AgentIDs
    BY DEF Flow, Globals
  <2>2. reg \in Nat /\ reg >= 1
    BY <2>1, ServerAssumption
  <2>3. reg' = reg \/ reg' = reg + 1
    BY DEF Environment, ReRegister, Revoke, Launch, Run, Complete, TaskChanges
  <2>4. reg' = 1 => reg' = reg
    BY <2>2, <2>3
  <2>5. QED
    BY <1>1, <2>4 DEF Steady, AgentID
<1>4. ASSUME NEW c \in Clients
      PROVE  Finding(c)'
  <2>1. conn'[c] = conn[c] /\ Finding(c)
    BY <1>1 DEF AllFinding
  <2>2. Steady' /\ There(c) => There(c)'
    BY <1>1, <1>3, <2>1 DEF There, OnDisk
  <2>3. QED
    BY <1>1, <1>2, <1>3, <2>1, <2>2 DEF Finding, Busy, Answered, Located
<1>5. QED
  BY <1>1, <1>3, <1>4 DEF AllFinding

\* Every step keeps what there is to find, and who will find it.
LEMMA FindingStep == Flow /\ AllFinding /\ [Next]_vars => AllFinding'
<1> SUFFICES ASSUME Flow, AllFinding, [Next]_vars
             PROVE  AllFinding'
  OBVIOUS
<1>1. ASSUME NEW in \in Starts, StartServer(in) \/ StartFails(in)
      PROVE  AllFinding'
  <2>1. /\ UNCHANGED <<reg, granted, cachedID, conn, seen>> /\ phase = "starting"
        /\ phase' # "starting"
        /\ \A c \in Clients : ~Busy(c) /\ ~Busy(c)' /\ conn[c].ans.code = 0
    BY <1>1, StartEffect DEF StartServer, StartFails
  <2>2. cachedID' = ""
    BY <2>1 DEF AllFinding
  <2>3. ASSUME NEW c \in Clients
        PROVE  Finding(c)'
    <3>1. Finding(c) /\ ~Answered(c)'
      BY <2>1 DEF AllFinding, Answered
    <3>2. QED
      BY <2>1, <3>1 DEF Finding
  <2>4. QED
    BY <2>1, <2>2, <2>3 DEF AllFinding
<1>2. CASE Environment
  BY <1>2, FindingEnvironment
<1>3. ASSUME NEW c \in Clients, NEW r \in Requests[c], Arrive(c, r)
      PROVE  AllFinding'
  <2>1. ServeHTTP(c, r, RouteOf(r.path), RouteOf(r.path)) /\ phase = "serving"
    BY <1>3 DEF Arrive
  <2>2. RouteOK(RouteOf(r.path)) /\ UNCHANGED <<server, env, cache>>
    BY <2>1, RouteFacts DEF ServeHTTP
  <2>3. Served(c, r, RouteOf(r.path), RouteOf(r.path))
    BY <2>1, ServeEffect
  <2>4. QED
    BY <2>1, <2>2, <2>3, FindingServe
<1>4. ASSUME NEW c \in Clients, Follow(c)
      PROVE  AllFinding'
  <2> DEFINE r == Redirection(conn[c].req, conn[c].ans.body)
             route == RouteOf(r.path)
             first == seen[c].first
  <2>1. ServeHTTP(c, r, route, first) /\ phase = "serving"
    BY <1>4, Followed
  <2>2. RouteOK(route)
    BY RouteFacts
  <2> HIDE DEF r, route, first
  <2>3. UNCHANGED <<server, env, cache>>
    BY <2>1 DEF ServeHTTP
  <2>4. Served(c, r, route, first)
    BY <2>1, ServeEffect
  <2>5. QED
    BY <2>1, <2>2, <2>3, <2>4, FindingServe
<1>5. ASSUME NEW c \in Clients, Local(c) \/ Remote(c)
      PROVE  AllFinding'
  <2>1. Effect(c) /\ Busy(c) /\ Moves(c)
    BY <1>5, CallEffect, CallMoves
  <2>2. QED
    BY <2>1, FindingCall
<1>6. CASE UNCHANGED vars
  <2>1. UNCHANGED <<phase, cfg, reg, task, granted, cachedID, conn, seen>>
    BY <1>6 DEF vars, server, env, cache
  <2>2. AgentID' = AgentID /\ Dirs' = Dirs
    BY <2>1 DEF AgentID, Dirs, ExecutorDir, TaskDir
  <2>3. \A c \in Clients : There(c)' = There(c)
    BY <2>1, <2>2 DEF There, OnDisk
  <2>4. QED
    BY <2>1, <2>2, <2>3 DEF AllFinding, Finding, Steady, Located, Busy, Answered
<1>7. QED
  BY <1>1, <1>2, <1>3, <1>4, <1>5, <1>6 DEF Next

\* Nothing has been asked for, and the cache is empty.
LEMMA FindingInit == Init => AllFinding
<1> SUFFICES ASSUME Init
             PROVE  AllFinding
  OBVIOUS
<1>1. \A c \in Clients : conn[c].todo = <<>> /\ ~Busy(c) /\ conn[c].ans.code = 0
  <2>1. phase = "starting" /\ Flow
    BY FlowInit DEF Init
  <2>2. QED
    BY <2>1 DEF Flow, ClientOK, Busy
<1>2. ~Guards(<<>>)
  <2>1. Len(<<>>) = 0
    OBVIOUS
  <2>2. QED
    BY <2>1 DEF Guards
<1>3. cachedID = ""
  BY DEF Init
<1>4. QED
  BY <1>1, <1>2, <1>3 DEF AllFinding, Finding, Answered

\* What was on the agent's disk when it was asked for is served to a client whose token is
\* accepted all along, if no call fails: also if another client's request has filled the
\* caches of NodeInfo or fills them at the same time, and in whatever order its calls come.
THEOREM WhatIsThereIsFound == Spec => []FoundIfThere
<1>1. Flow /\ AllFinding /\ [Next]_vars => (Flow /\ AllFinding)'
  BY FlowStep, FindingStep
<1>2. AllFinding => FoundIfThere
  BY DEF AllFinding, Finding, Steady, FoundIfThere
<1>3. Spec => [](Flow /\ AllFinding)
  BY FlowInit, FindingInit, <1>1, PTL DEF Spec
<1>4. QED
  BY <1>2, <1>3, PTL

-----------------------------------------------------------------------------
(***************************************************************************)
(* The sandbox of a redirect.  The task a client was sent to is remembered *)
(* by no variable: it is the one whose path the first route named and      *)
(* whose redirect mux has split into the variables of the route that the   *)
(* client has now.                                                         *)
(***************************************************************************)
\* A path and what is in front of its last segment.
LEMMA FrontFacts ==
  ASSUME NEW S, NEW p \in Seq(S), Len(p) >= 1, NEW l \in S
  PROVE  Len(Front(p)) + 1 = Len(p) /\ Len(Append(p, l)) = Len(p) + 1 /\ Front(Append(p, l)) = p
<1> DEFINE q == Append(p, l)
           f == Front(q)
           n == Len(p)
<1>1. n \in Nat /\ n >= 1
  OBVIOUS
<1>2. Len(Front(p)) + 1 = Len(p)
  <2>1. PICK m \in Nat : Len(p) = m + 1
    <3>1. n - 1 \in Nat /\ n = (n - 1) + 1
      BY <1>1
    <3>2. QED
      BY <3>1
  <2>2. Len(Front(p)) = m
    BY <2>1 DEF Front
  <2>3. QED
    BY <2>1, <2>2
<1>3. q \in Seq(S) /\ Len(q) = n + 1 /\ \A i \in 1 .. n : q[i] = p[i]
  BY <1>1
<1> HIDE DEF q
<1>4. f \in Seq(S) /\ Len(f) = n /\ \A i \in 1 .. n : f[i] = q[i]
  BY <1>1, <1>3 DEF Front
<1> HIDE DEF f
<1>5. f = p
  BY <1>3, <1>4
<1>6. QED
  BY <1>2, <1>3, <1>5 DEF f, q

\* The directories of an executor and of a task of a pod.
LEMMA RunPathFacts ==
  ASSUME NEW a, NEW f, NEW e, NEW c, NEW x
  PROVE  LET p == RunPath(a, f, e, c)
             q == p \o <<"tasks", x>>
         IN  /\ p \o <<>> = p /\ Len(p) = 8 /\ p[6] = e /\ p[8] = c
             /\ Len(q) = 10 /\ q[10] = x
             /\ \E S : p \in Seq(S) /\ q \in Seq(S)
<1> DEFINE S == {"slaves", a, "frameworks", f, "executors", e, "runs", c, "tasks", x}
           p == RunPath(a, f, e, c)
           r == <<"tasks", x>>
           q == p \o r
<1>1. p = <<"slaves", a, "frameworks", f, "executors", e, "runs", c>>
  BY DEF RunPath
<1>2. p \in Seq(S) /\ Len(p) = 8 /\ p[6] = e /\ p[8] = c
  <2> HIDE DEF p
  <2>1. QED
    BY <1>1
<1>3. r \in Seq(S) /\ Len(r) = 2 /\ r[2] = x
  OBVIOUS
<1> HIDE DEF S, p, r
<1>4. q \in Seq(S) /\ Len(q) = 10 /\ q[10] = x
  <2>1. p \in Seq(S) /\ r \in Seq(S)
    BY <1>2, <1>3
  <2>2. Len(q) = Len(p) + Len(r) /\ \A i \in 1 .. Len(r) : q[Len(p) + i] = r[i]
    BY <2>1, Prefixed
  <2>3. q \in Seq(S)
    BY <2>1
  <2> HIDE DEF q
  <2>4. 2 \in 1 .. Len(r) /\ Len(p) + 2 = 10
    BY <1>2, <1>3
  <2>5. q[10] = r[2]
    BY <2>2, <2>4
  <2>6. QED
    BY <1>2, <1>3, <2>2, <2>3, <2>5
<1> HIDE DEF q
<1>5. p \o <<>> = p
  BY <1>2
<1>6. QED
  BY <1>2, <1>4, <1>5 DEF q, r, p

\* The directory of a task t, or that of its executor, in a form that compares.
LEMMA TaskDirs ==
  ASSUME NEW t \in Tasks
  PROVE  /\ t.ExecutorID = "" => TaskDir(t) = ExecutorDir(t)
         /\ Len(ExecutorDir(t)) = 8 /\ ExecutorDir(t)[6] = ExecutorOf(t)
         /\ ExecutorDir(t)[8] = Last(t.ContainerIDs)
         /\ t.ExecutorID # "" => Len(TaskDir(t)) = 10 /\ TaskDir(t)[10] = t.ID
<1> DEFINE a == task[t].agent
           f == t.FrameworkID
           e == ExecutorOf(t)
           c == Last(t.ContainerIDs)
           x == t.ID
           p == RunPath(a, f, e, c)
           q == p \o <<"tasks", x>>
<1>1. ExecutorDir(t) = p
  BY DEF ExecutorDir, ExecutorOf, Last
<1>2. /\ t.ExecutorID = "" => TaskDir(t) = p \o <<>>
      /\ t.ExecutorID # "" => TaskDir(t) = q
  <2> HIDE DEF p
  <2>1. QED
    BY <1>1, Zenon DEF TaskDir
<1> HIDE DEF a, f, e, c, x
<1>3. /\ p \o <<>> = p /\ Len(p) = 8 /\ p[6] = e /\ p[8] = c
      /\ Len(q) = 10 /\ q[10] = x
  BY RunPathFacts
<1> HIDE DEF p, q
<1>4. QED
  BY <1>1, <1>2, <1>3, Zenon DEF e, c, x

\* The agent's directories.
LEMMA DirsFacts ==
  ASSUME NEW d \in Dirs
  PROVE  /\ Len(d) \in {8, 10}
         /\ \E u \in Tasks : \/ d = ExecutorDir(u)
                             \/ u.ExecutorID # "" /\ d = TaskDir(u)
<1>1. PICK u \in Tasks : d = ExecutorDir(u) \/ d = TaskDir(u)
  BY DEF Dirs
<1>2. /\ u.ExecutorID = "" => TaskDir(u) = ExecutorDir(u)
      /\ Len(ExecutorDir(u)) = 8
      /\ u.ExecutorID # "" => Len(TaskDir(u)) = 10
  BY TaskDirs
<1>3. d = ExecutorDir(u) \/ (u.ExecutorID # "" /\ d = TaskDir(u))
  BY <1>1, <1>2, Zenon
<1>4. Len(d) = 8 \/ Len(d) = 10
  BY <1>2, <1>3, Zenon
<1>5. QED
  BY <1>3, <1>4, Zenon

\* The directory that a request for a task's log means.
LEMMA SandboxForm ==
  ASSUME NEW t, NEW node, NEW v, NEW h, NEW file, TaskVars(v, t, h, file)
  PROVE  LET s == SandboxPath(node, v)
         IN  /\ Len(s) = Depth(t)
             /\ Depth(t) = 8 => s[6] = ExecutorOf(t) /\ s[8] = Last(t.ContainerIDs)
             /\ Depth(t) = 10 => s[10] = t.ID
             /\ \E S : s \in Seq(S)
<1> DEFINE s == SandboxPath(node, v)
           p == RunPath(node, v[FrameworkVar], v[ExecutorVar], v[ContainerVar])
           x == v[TaskVar]
           q == p \o <<"tasks", x>>
<1>1. s = p \o IF x # "" THEN <<"tasks", x>> ELSE <<>>
  BY Zenon DEF SandboxPath, FrameworkVar, ExecutorVar, ContainerVar, TaskVar
<1> HIDE DEF s
<1>2. /\ p \o <<>> = p /\ Len(p) = 8 /\ p[6] = v[ExecutorVar] /\ p[8] = v[ContainerVar]
      /\ Len(q) = 10 /\ q[10] = x
      /\ \E S : p \in Seq(S) /\ q \in Seq(S)
  BY RunPathFacts
<1>3. /\ v[ExecutorVar] = ExecutorOf(t) /\ v[ContainerVar] = Last(t.ContainerIDs)
      /\ Depth(t) = 10 => x = t.ID /\ t.ID # ""
      /\ Depth(t) = 8 => x = ""
  BY Zenon DEF TaskVars
<1>4. (x = "" => s = p) /\ (x # "" => s = q)
  <2> HIDE DEF p, x
  <2>1. QED
    BY <1>1, <1>2, Zenon
<1> HIDE DEF p, q, x
<1>5. Depth(t) = 8 \/ Depth(t) = 10
  BY DepthOf DEF Depths
<1>6. CASE Depth(t) = 8
  <2>1. s = p
    BY <1>3, <1>4, <1>6, Zenon
  <2>2. 8 # 10
    OBVIOUS
  <2>3. QED
    BY <1>2, <1>3, <1>6, <2>1, <2>2, Zenon DEF s
<1>7. CASE Depth(t) = 10
  <2>1. s = q
    BY <1>3, <1>4, <1>7, Zenon
  <2>2. 8 # 10
    OBVIOUS
  <2>3. QED
    BY <1>2, <1>3, <1>7, <2>1, <2>2, Zenon DEF s
<1>8. QED
  BY <1>5, <1>6, <1>7, Zenon

\* If it is there, it is the task's.
LEMMA SandboxIs ==
  ASSUME NEW t \in Tasks, NEW node, NEW v, NEW h, NEW file, TaskVars(v, t, h, file),
         SandboxPath(node, v) \in Dirs
  PROVE  SandboxPath(node, v) = TaskDir(t)
<1> DEFINE s == SandboxPath(node, v)
<1>1. /\ Len(s) = Depth(t)
      /\ Depth(t) = 8 => s[6] = ExecutorOf(t) /\ s[8] = Last(t.ContainerIDs)
      /\ Depth(t) = 10 => s[10] = t.ID
  BY SandboxForm
<1>2. PICK u \in Tasks : s = ExecutorDir(u) \/ (u.ExecutorID # "" /\ s = TaskDir(u))
  BY DirsFacts
<1> HIDE DEF s
<1>3. /\ t.ID = u.ID => t = u
      /\ Last(t.ContainerIDs) = Last(u.ContainerIDs) => t.ExecutorID = u.ExecutorID
  BY ServerAssumption
<1>4. /\ Len(ExecutorDir(u)) = 8 /\ ExecutorDir(u)[6] = ExecutorOf(u)
      /\ ExecutorDir(u)[8] = Last(u.ContainerIDs)
      /\ u.ExecutorID # "" => Len(TaskDir(u)) = 10 /\ TaskDir(u)[10] = u.ID
      /\ t.ExecutorID = "" => TaskDir(t) = ExecutorDir(t)
  BY TaskDirs
<1>5. /\ Depth(t) \in Depths
      /\ Depth(t) = 8 => t.ExecutorID = ""
      /\ Depth(t) = 10 => t.ExecutorID # ""
  BY DepthOf
<1>6. 8 # 10 /\ (Depth(t) = 8 \/ Depth(t) = 10)
  BY <1>5 DEF Depths
<1>7. CASE Depth(t) = 8
  <2>1. s = ExecutorDir(u)
    BY <1>1, <1>2, <1>4, <1>6, <1>7, Zenon
  <2>2. t.ExecutorID = "" /\ u.ExecutorID = ""
    BY <1>1, <1>3, <1>4, <1>5, <1>7, <2>1, Zenon
  <2>3. t.ID = u.ID
    BY <1>1, <1>4, <1>7, <2>1, <2>2, Zenon DEF ExecutorOf
  <2>4. QED
    BY <1>3, <1>4, <2>1, <2>2, <2>3, Zenon DEF s
<1>8. CASE Depth(t) = 10
  <2>1. s = TaskDir(u) /\ u.ExecutorID # ""
    BY <1>1, <1>2, <1>4, <1>6, <1>8, Zenon
  <2>2. t.ID = u.ID
    BY <1>1, <1>4, <1>8, <2>1, Zenon
  <2>3. QED
    BY <1>3, <2>1, <2>2, Zenon DEF s
<1>9. QED
  BY <1>6, <1>7, <1>8

\* What a client that followed the redirect to t shows: t's directory or a file in it.
TaskView(t, h, file) == IF h = "browseHandler" THEN TaskDir(t) ELSE Append(TaskDir(t), file)

\* The agent has nothing else where a client that was sent to t looks.
LEMMA Shown ==
  ASSUME NEW t \in Tasks, NEW route, NEW h \in Views, NEW file, Lands(route, t, h, file),
         NEW node, OnDisk(Asked(route, node))
  PROVE  Asked(route, node) = TaskView(t, h, file)
<1> DEFINE s == SandboxPath(node, route.vars)
           v == route.vars
           asked == Asked(route, node)
<1>1. TaskVars(v, t, h, file) /\ route.handler = Reader(h) /\ ~route.guarded
  BY DEF Lands
<1>2. /\ h = "browseHandler" => asked = s
      /\ h # "browseHandler" => asked = Append(s, v[FileVar])
  <2>1. /\ h = "browseHandler" => route.handler = "browseFiles"
        /\ h # "browseHandler" => route.handler \in {"filesAPIHandler", "downloadFile"}
    BY <1>1 DEF Reader, Views
  <2>2. route.handler \in {"filesAPIHandler", "downloadFile"} => route.handler # "browseFiles"
    OBVIOUS
  <2>3. FileVar = "{file}"
    BY Zenon DEF FileVar
  <2>4. CASE h = "browseHandler"
    BY <1>1, <2>1, <2>2, <2>4, Zenon DEF Asked
  <2>5. CASE h # "browseHandler"
    BY <1>1, <2>1, <2>2, <2>3, <2>5, Zenon DEF Asked
  <2>6. QED
    BY <2>4, <2>5
<1>3. Len(s) = Depth(t) /\ \E S : s \in Seq(S)
  BY <1>1, SandboxForm
<1>4. s \in Dirs => s = TaskDir(t)
  BY <1>1, SandboxIs
<1>5. asked \in Dirs \/ Front(asked) \in Dirs
  BY DEF OnDisk
<1> HIDE DEF s, v, asked
<1>6. Len(s) = 8 \/ Len(s) = 10
  BY <1>3, DepthOf DEF Depths
<1>7. \A d \in Dirs : Len(d) = 8 \/ Len(d) = 10
  BY DirsFacts
<1>8. PICK S : s \in Seq(S)
  BY <1>3
<1> DEFINE l == v[FileVar]
           T == S \cup {l}
<1>9. s \in Seq(T) /\ l \in T
  BY <1>8
<1> HIDE DEF T, l
<1>10. Len(Front(s)) + 1 = Len(s) /\ Len(Append(s, l)) = Len(s) + 1 /\ Front(Append(s, l)) = s
  <2>1. Len(s) >= 1
    <3>1. ASSUME Len(s) = 8
          PROVE  Len(s) >= 1
      BY <3>1
    <3>2. ASSUME Len(s) = 10
          PROVE  Len(s) >= 1
      BY <3>2
    <3>3. QED
      BY <1>6, <3>1, <3>2
  <2>2. QED
    BY <1>9, <2>1, FrontFacts
<1>11. Front(s) \notin Dirs /\ Append(s, l) \notin Dirs
  <2>1. Len(Front(s)) = 7 \/ Len(Front(s)) = 9
    BY <1>6, <1>10 DEF Front
  <2> DEFINE a == Append(s, l)
  <2>a. Len(a) = Len(s) + 1
    BY <1>10
  <2> HIDE DEF a
  <2>b. Len(a) = 9 \/ Len(a) = 11
    <3>2. CASE Len(s) = 8
      BY <2>a, <3>2
    <3>3. CASE Len(s) = 10
      BY <2>a, <3>3
    <3>4. QED
      BY <1>6, <3>2, <3>3
  <2>2. Len(Append(s, l)) = 9 \/ Len(Append(s, l)) = 11
    BY <2>b DEF a
  <2>3. 7 # 8 /\ 7 # 10 /\ 9 # 8 /\ 9 # 10 /\ 11 # 8 /\ 11 # 10
    OBVIOUS
  <2>4. QED
    BY <1>7, <2>1, <2>2, <2>3, Zenon
<1>12. s = TaskDir(t)
  <2>1. CASE h = "browseHandler"
    BY <1>2, <1>4, <1>5, <1>11, <2>1, Zenon
  <2>2. CASE h # "browseHandler"
    BY <1>2, <1>4, <1>5, <1>10, <1>11, <2>2, Zenon DEF l
  <2>3. QED
    BY <2>1, <2>2
<1>13. h # "browseHandler" => v[FileVar] = file
  BY <1>1, Zenon DEF TaskVars
<1>14. QED
  BY <1>2, <1>12, <1>13, Zenon DEF TaskView, asked

\* The client sees nothing of a sandbox.
Silent(c) == conn[c].ans.code # 200 \/ conn[c].ans.body = <<>>

\* Where a client that has followed a redirect to t is, and what it is shown there.
SentTo(c, t) ==
  LET first == seen[c].first
      route == conn[c].route
  IN  /\ HasContainer(task, t)
      /\ \/ route.handler = "NotFound" /\ conn[c].todo = <<>>
         \/ Lands(route, t, first.handler, FileOf(first))
      /\ Silent(c) \/ conn[c].ans.body = TaskView(t, first.handler, FileOf(first))

Sent(c) ==
  Legible(seen[c].first) =>
    /\ Discovers(conn[c].route) => seen[c].first = conn[c].route /\ Silent(c)
    /\ Discovers(seen[c].first) /\ ~Discovers(conn[c].route) =>
         \E t \in Matching(NameOf(seen[c].first)) : SentTo(c, t)

AllSent == \A c \in Clients : Sent(c)

\* A task that has a container keeps its directory.
LEMMA SentKept ==
  ASSUME NEW c, Sent(c), conn'[c] = conn[c], seen'[c].first = seen[c].first,
         \A t \in Tasks : HasContainer(task, t) =>
           HasContainer(task', t) /\ task'[t].agent = task[t].agent
  PROVE  Sent(c)'
<1> DEFINE first == seen[c].first
<1>1. ASSUME NEW t \in Matching(NameOf(first)), SentTo(c, t)
      PROVE  SentTo(c, t)'
  <2>1. t \in Tasks /\ HasContainer(task, t)
    BY <1>1 DEF Matching, SentTo
  <2>2. HasContainer(task, t)' /\ task'[t].agent = task[t].agent
    BY <2>1 DEF HasContainer
  <2>3. TaskDir(t)' = TaskDir(t)
    BY <2>2 DEF TaskDir, ExecutorDir
  <2>4. \A h, file : TaskView(t, h, file)' = TaskView(t, h, file)
    BY <2>3 DEF TaskView
  <2>5. Silent(c)' = Silent(c)
    BY DEF Silent
  <2>6. QED
    BY <1>1, <2>2, <2>4, <2>5, Zenon DEF SentTo
<1>2. Silent(c)' = Silent(c)
  BY DEF Silent
<1>3. Legible(seen[c].first)' = Legible(seen[c].first)
  BY DEF Legible, Matching, FileOf
<1>4. QED
  BY <1>1, <1>2, <1>3, Zenon DEF Sent

\* A request goes to the task it was sent to, and has no answer from the agent yet.
LEMMA SentServe ==
  ASSUME Flow, NEW c \in Clients, NEW r, NEW route, NEW first, RouteOK(route),
         UNCHANGED <<server, env>>, Served(c, r, route, first),
         \/ first = route
         \/ ~Legible(first)
         \/ /\ ~Discovers(route)
            /\ \E t \in Matching(NameOf(first)) :
                 /\ HasContainer(task, t)
                 /\ route.handler = "NotFound" \/ Lands(route, t, first.handler, FileOf(first))
  PROVE  Sent(c)'
<1> DEFINE todo == Pending(r, route)
           code == EarlyReturn(r, route)
<1>1. code # 200 /\ (route.handler = "NotFound" => todo = <<>>)
  <2>1. code \in {0, 400, 401, 404}
    BY ServedFacts
  <2>2. route.handler = "NotFound" => code # 0
    BY DEF EarlyReturn
  <2>3. QED
    BY <2>1, <2>2 DEF Pending
<1>2. Noticed(r, route, first).first = first
  BY DEF Noticed
<1> HIDE DEF todo, code
<1>3. /\ conn'[c].route = route /\ conn'[c].todo = todo /\ conn'[c].ans.code = code
      /\ seen'[c].first = first
  BY <1>2 DEF Served, todo, code
<1>4. Silent(c)'
  BY <1>1, <1>3 DEF Silent
<1>5. task' = task
  BY DEF env
<1>6. ASSUME NEW t, HasContainer(task, t),
             route.handler = "NotFound" \/ Lands(route, t, first.handler, FileOf(first))
      PROVE  SentTo(c, t)'
  <2>1. HasContainer(task, t)'
    BY <1>5, <1>6 DEF HasContainer
  <2>2. QED
    BY <1>1, <1>3, <1>4, <1>6, <2>1, Zenon DEF SentTo
<1>7. CASE first = route
  BY <1>3, <1>4, <1>7 DEF Sent
<1>8. CASE /\ ~Discovers(route)
           /\ \E t \in Matching(NameOf(first)) :
                /\ HasContainer(task, t)
                /\ route.handler = "NotFound" \/ Lands(route, t, first.handler, FileOf(first))
  <2>1. ~Discovers(conn[c].route)'
    BY <1>3, <1>8 DEF Discovers
  <2>2. \E t \in Matching(NameOf(first)) : SentTo(c, t)'
    BY <1>6, <1>8
  <2>3. (\E t \in Matching(NameOf(seen[c].first)) : SentTo(c, t))'
    BY <1>3, <2>2, Zenon DEF Matching, NameOf
  <2>4. QED
    BY <2>1, <2>3, Zenon DEF Sent
<1>9. CASE ~Legible(first)
  <2>1. ~Legible(seen'[c].first)
    BY <1>3, <1>9
  <2>2. QED
    BY <2>1, Zenon DEF Sent, Legible, Matching, FileOf
<1>10. QED
  BY <1>7, <1>8, <1>9

\* The route of a request to the task that a redirect names.
LEMMA SentFollow ==
  ASSUME Flow, AllSent, NEW c \in Clients, conn[c].ans.code = 303, Legible(seen[c].first)
  PROVE  LET route == RouteOf(RedirectPath(conn[c].ans.body))
             first == seen[c].first
         IN  /\ ~Discovers(route)
             /\ \E t \in Matching(NameOf(first)) :
                  /\ HasContainer(task, t)
                  /\ route.handler = "NotFound" \/ Lands(route, t, first.handler, FileOf(first))
<1> DEFINE first == conn[c].route
           h == first.handler
           file == FileOf(first)
           path == RedirectPath(conn[c].ans.body)
           route == RouteOf(path)
<1>1. ClientOK(c) /\ Sent(c)
  BY DEF Flow, AllSent
<1>2. Redirected(c)
  BY <1>1 DEF ClientOK
<1>3. Discovers(first) /\ seen[c].first = first /\ h \in Views
  BY <1>1, <1>2 DEF Redirected, Sent, Discovers, Views
<1>4. PICK t \in Matching(NameOf(first)) :
        /\ HasContainer(task, t)
        /\ conn[c].ans.body = RedirectURL(Canonical(t), h, file)
  BY <1>2 DEF Redirected
<1> HIDE DEF h, file
<1>5. path = Written(RedirectURL(Canonical(t), h, file))
  <2> DEFINE id == Canonical(t)
  <2>1. /\ id.ID = t.ID /\ id.FrameworkID = t.FrameworkID /\ id.ExecutorID = t.ExecutorID
        /\ id.ContainerIDs = t.ContainerIDs
    BY DEF Canonical
  <2>2. /\ file \notin DOMAIN Misread
        /\ {t.ID, t.FrameworkID, t.ExecutorID, Last(t.ContainerIDs)} \cap DOMAIN Misread = {}
    BY <1>3, Zenon DEF Legible, NameOf, file
  <2>6. Sound(t, file)
    BY <2>2 DEF Sound
  <2> HIDE DEF id
  <2>3. Sound(id, file)
    BY <2>1, <2>6, Zenon DEF Sound
  <2>4. RedirectPath(RedirectURL(id, h, file)) = Written(RedirectURL(id, h, file))
    BY <1>3, <2>3, ReadAsWritten
  <2>5. QED
    BY <1>4, <2>4 DEF id
<1>6. route.handler = "NotFound" \/ Lands(route, Canonical(t), h, file)
  <2> DEFINE id == Canonical(t)
  <2>1. route = RouteOf(Written(RedirectURL(id, h, file)))
    BY <1>5
  <2> HIDE DEF id, route
  <2>2. route.handler = "NotFound" \/ Lands(route, id, h, file)
    BY <1>3, <2>1, RedirectLands
  <2>3. QED
    BY <2>2 DEF id
<1>7. \A v : TaskVars(v, Canonical(t), h, file) => TaskVars(v, t, h, file)
  <2> DEFINE id == Canonical(t)
  <2>1. /\ id.ID = t.ID /\ id.FrameworkID = t.FrameworkID /\ id.ExecutorID = t.ExecutorID
        /\ id.ContainerIDs = t.ContainerIDs
    BY DEF Canonical
  <2> HIDE DEF id
  <2>2. ExecutorOf(id) = ExecutorOf(t) /\ Depth(id) = Depth(t)
    BY <2>1, ZenonT(40) DEF ExecutorOf, Depth
  <2>3. ASSUME NEW v, TaskVars(v, id, h, file)
        PROVE  TaskVars(v, t, h, file)
    <3>1. /\ v[FrameworkVar] = t.FrameworkID /\ v[ExecutorVar] = ExecutorOf(t)
          /\ v[ContainerVar] = Last(t.ContainerIDs)
      <4>1. /\ v[FrameworkVar] = id.FrameworkID /\ v[ExecutorVar] = ExecutorOf(id)
            /\ v[ContainerVar] = Last(id.ContainerIDs)
        BY <2>3, Zenon DEF TaskVars
      <4>2. QED
        BY <2>1, <2>2, <4>1
    <3>2. Depth(t) = 10 => v[TaskVar] = t.ID /\ t.ID # ""
      BY <2>1, <2>2, <2>3, Zenon DEF TaskVars
    <3>3. (Depth(t) = 8 => v[TaskVar] = "") /\ (h # "browseHandler" => v[FileVar] = file)
      BY <2>2, <2>3, Zenon DEF TaskVars
    <3>4. QED
      BY <3>1, <3>2, <3>3, Zenon DEF TaskVars
  <2>4. QED
    BY <2>3 DEF id
<1> HIDE DEF route
<1>8. route.handler = "NotFound" \/ Lands(route, t, h, file)
  BY <1>6, <1>7, Zenon DEF Lands
<1>9. ~Discovers(route)
  <2>1. CASE route.handler = "NotFound"
    BY <2>1 DEF Discovers
  <2>2. CASE Lands(route, t, h, file)
    <3>1. route.handler = Reader(h)
      BY <2>2 DEF Lands
    <3>2. QED
      BY <1>3, <3>1 DEF Reader, Views, Discovers
  <2>3. QED
    BY <1>8, <2>1, <2>2
<1>10. QED
  BY <1>3, <1>4, <1>8, <1>9, Zenon DEF h, file, route, path

\* A call that returns, and an answer without content, show nothing.
LEMMA StaysSilent ==
  ASSUME Flow, NEW c \in Clients
  PROVE  /\ Busy(c) /\ (\E rest : Proceed(c, rest)) => Silent(c)'
         /\ Busy(c) /\ (\E node : conn' = [conn EXCEPT ![c].todo = Tail(@), ![c].node = node]) =>
              Silent(c)'
         /\ (\E code : Answer(c, code, <<>>)) => Silent(c)'
         /\ (\E body : Answer(c, 303, body)) => Silent(c)'
<1>1. Connections /\ (Busy(c) => conn[c].ans.code = 0)
  BY DEF Flow, ClientOK
<1>2. conn[c].ans.code = 0 /\ conn'[c].ans = conn[c].ans => Silent(c)'
  BY DEF Silent
<1>3. ASSUME NEW rest, Proceed(c, rest)
      PROVE  conn'[c].ans = conn[c].ans
  BY <1>1, <1>3, Updates
<1>4. ASSUME NEW node, conn' = [conn EXCEPT ![c].todo = Tail(@), ![c].node = node]
      PROVE  conn'[c].ans = conn[c].ans
  BY <1>1, <1>4, Updates
<1>5. ASSUME NEW code, Answer(c, code, <<>>)
      PROVE  Silent(c)'
  <2> DEFINE body == <<>>
  <2>1. Answer(c, code, body)
    BY <1>5
  <2> HIDE DEF body
  <2>2. conn'[c].ans.body = body
    BY <1>1, <2>1, AnswerGiven
  <2>3. QED
    BY <2>2 DEF Silent, body
<1>6. ASSUME NEW body, Answer(c, 303, body)
      PROVE  Silent(c)'
  <2> DEFINE code == 303
  <2>1. Answer(c, code, body) /\ code # 200
    BY <1>6
  <2> HIDE DEF code
  <2>2. conn'[c].ans.code = code
    BY <1>1, <2>1, AnswerGiven
  <2>3. QED
    BY <2>1, <2>2 DEF Silent
<1>7. QED
  BY <1>1, <1>2, <1>3, <1>4, <1>5, <1>6

\* What a client is shown comes from the journal or is what the agent was asked for.
LEMMA ShownByAgent ==
  ASSUME Flow, NEW c \in Clients, Local(c) \/ Remote(c)
  PROVE  \/ Silent(c)'
         \/ Calling(c, "Journal")
         \/ /\ \E call \in {"Read", "Browse", "Download"} : Calling(c, call)
            /\ OnDisk(Target(c)) /\ conn'[c].ans.body = Target(c)
<1>1. Busy(c) /\ Connections
  BY CallEffect DEF Flow
<1>2. /\ (\E rest : Proceed(c, rest)) => Silent(c)'
      /\ (\E node : conn' = [conn EXCEPT ![c].todo = Tail(@), ![c].node = node]) => Silent(c)'
      /\ (\E code : Answer(c, code, <<>>)) => Silent(c)'
      /\ (\E body : Answer(c, 303, body)) => Silent(c)'
  BY <1>1, StaysSilent
<1>3. \A call : AtAgent(c, call, 200) => Calling(c, call) /\ OnDisk(Target(c))
  BY DEF AtAgent, AgentCode
<1>4. Answer(c, 200, Target(c)) => conn'[c].ans.body = Target(c)
  <2> DEFINE body == Target(c)
  <2> HIDE DEF body
  <2>1. Answer(c, 200, body) => conn'[c].ans.body = body
    BY <1>1, AnsweredWith
  <2>2. QED
    BY <2>1 DEF body
<1>5. CASE MesosIDHit(c)
  BY <1>2, <1>5 DEF MesosIDHit
<1>6. CASE MesosIDMiss(c) \/ DetectIPHit(c) \/ DetectIPRun(c) \/ ScriptDone(c) \/ Store(c)
  <2>1. \E rest : Proceed(c, rest)
    BY <1>6 DEF MesosIDMiss, DetectIPHit, DetectIPRun, ScriptDone, Store
  <2>2. QED
    BY <1>2, <2>1
<1>7. CASE ScriptFails(c)
  <2>1. Answer(c, 500, <<>>)
    BY <1>7 DEF ScriptFails
  <2>2. QED
    BY <1>2, <2>1
<1>8. CASE Journal(c)
  BY <1>8 DEF Journal
<1>9. CASE Field(c)
  <2>1. \E code : Answer(c, code, <<>>)
    BY <1>9 DEF Field
  <2>2. QED
    BY <1>2, <2>1
<1>10. CASE FetchState(c)
  <2> DEFINE Goes(node) == conn' = [conn EXCEPT ![c].todo = Tail(@), ![c].node = node]
  <2>1. (\E node : Goes(node)) \/ Answer(c, 500, <<>>)
    BY <1>10, FetchedState
  <2>2. (\E node : Goes(node)) => Silent(c)'
    BY <1>2
  <2> HIDE DEF Goes
  <2>3. QED
    BY <1>2, <2>1, <2>2
<1>11. CASE Authorize(c)
  BY <1>2, <1>11 DEF Authorize
<1>12. CASE LookUp(c)
  <2> DEFINE route == conn[c].route
             found(call) == FoundTasks(NameOf(route), call = "Completed", task)
             one(call) == granted /\ Cardinality(found(call)) = 1
                            /\ \A t \in found(call) : HasContainer(task, t)
             body(t) == RedirectURL(Canonical(t), route.handler, FileOf(route))
  <2>1. PICK call \in {"Running", "Completed"} :
          IF one(call) THEN \E t \in found(call) : Answer(c, 303, body(t))
          ELSE IF Rest(c) # <<>> THEN Proceed(c, Rest(c)) ELSE Answer(c, 500, <<>>)
    BY <1>12, ZenonT(40) DEF LookUp, NameOf
  <2> HIDE DEF one, found, body
  <2>2. QED
    BY <1>2, <2>1
<1>13. CASE Size(c)
  BY <1>2, <1>13 DEF Size
<1>14. CASE Read(c)
  <2>1. \/ AtAgent(c, "Read", 200) /\ Answer(c, 200, Target(c))
        \/ \E code : Answer(c, code, <<>>)
    BY <1>14 DEF Read
  <2>2. QED
    BY <1>2, <1>3, <1>4, <2>1
<1>15. CASE Browse(c)
  <2>1. \/ AtAgent(c, "Browse", 200) /\ Answer(c, 200, Target(c))
        \/ \E code : Answer(c, code, <<>>)
    BY <1>15 DEF Browse
  <2>2. QED
    BY <1>2, <1>3, <1>4, <2>1
<1>16. CASE Download(c)
  <2>1. PICK code \in Downloaded :
          AtAgent(c, "Download", code) /\ Answer(c, 200, IF code = 200 THEN Target(c) ELSE <<>>)
    BY <1>16 DEF Download
  <2>2. CASE code = 200
    BY <1>3, <1>4, <2>1, <2>2
  <2>3. CASE code # 200
    BY <1>2, <2>1, <2>3
  <2>4. QED
    BY <2>2, <2>3
<1>17. CASE CallFails(c)
  <2>1. Proceed(c, Rest(c)) \/ Answer(c, 200, <<>>) \/ Answer(c, 500, <<>>)
    BY <1>17 DEF CallFails
  <2>2. QED
    BY <1>2, <2>1
<1>18. QED
  BY <1>5, <1>6, <1>7, <1>8, <1>9, <1>10, <1>11, <1>12, <1>13, <1>14, <1>15, <1>16, <1>17
     DEF Local, Remote

\* What the agent shows a client that was sent to t is t's.
LEMMA ShownOfTask ==
  ASSUME Flow, NEW c \in Clients, Local(c) \/ Remote(c), NEW t \in Tasks, NEW h \in Views, NEW file,
         Lands(conn[c].route, t, h, file)
  PROVE  Silent(c)' \/ conn'[c].ans.body = TaskView(t, h, file)
<1> DEFINE route == conn[c].route
<1>1. route.handler \in {"browseFiles", "filesAPIHandler", "downloadFile"}
  BY DEF Lands, Reader, Views
<1>2. ~Calling(c, "Journal")
  <2>1. SUFFICES ASSUME Calling(c, "Journal")
                 PROVE  FALSE
    OBVIOUS
  <2>2. "Journal" \in Final
    BY DEF Final
  <2>3. "Journal" = FinalCall(route.handler)
    BY <2>1, <2>2, Called
  <2>4. QED
    BY <1>1, <2>3 DEF FinalCall
<1>3. CASE OnDisk(Target(c)) /\ conn'[c].ans.body = Target(c)
  <2> DEFINE node == conn[c].node
  <2>1. OnDisk(Asked(route, node)) /\ conn'[c].ans.body = Asked(route, node)
    BY <1>3 DEF Target
  <2>2. Lands(route, t, h, file)
    OBVIOUS
  <2> HIDE DEF route, node
  <2>3. Asked(route, node) = TaskView(t, h, file)
    BY <2>1, <2>2, Shown
  <2>4. QED
    BY <2>1, <2>3
<1>4. QED
  BY <1>2, <1>3, ShownByAgent

\* A handler shows a client nothing but what is the task's it was sent to.
LEMMA SentCall ==
  ASSUME Flow, AllSent, NEW c \in Clients, Local(c) \/ Remote(c)
  PROVE  Sent(c)'
<1> DEFINE first == seen[c].first
           route == conn[c].route
           h == first.handler
           file == FileOf(first)
<1>1. /\ Busy(c) /\ Sent(c) /\ conn'[c].route = route /\ seen'[c].first = first
      /\ UNCHANGED task
  BY CallEffect DEF AllSent, Effect, Keeps, Own, env
<1>6. SUFFICES ASSUME Legible(first)
               PROVE  Sent(c)'
  BY <1>1, Zenon DEF Sent, Legible, Matching, FileOf
<1>2. CASE Discovers(route)
  <2>1. \A call \in Final : ~Calling(c, call)
    BY <1>2, Called
  <2>2. Silent(c)'
    BY <2>1, ShownByAgent DEF Final
  <2>3. QED
    BY <1>1, <1>2, <2>2 DEF Sent, Discovers
<1>3. CASE Discovers(first) /\ ~Discovers(route)
  <2>1. PICK t \in Matching(NameOf(first)) : SentTo(c, t)
    BY <1>1, <1>3, <1>6 DEF Sent
  <2>2. t \in Tasks /\ h \in Views
    BY <1>3 DEF Matching, Discovers, Views
  <2>3. HasContainer(task, t) /\ Lands(route, t, h, file)
    BY <1>1, <2>1 DEF SentTo, Busy
  <2>4. Silent(c)' \/ conn'[c].ans.body = TaskView(t, h, file)
    <3> HIDE DEF h, file
    <3>1. QED
      BY <2>2, <2>3, ShownOfTask
  <2>5. TaskView(t, h, file)' = TaskView(t, h, file)
    BY <1>1 DEF TaskView, TaskDir, ExecutorDir
  <2>6. SentTo(c, t)'
    BY <1>1, <2>3, <2>4, <2>5, Zenon DEF SentTo, HasContainer
  <2>7. t \in Matching(NameOf(seen'[c].first))
    BY <1>1
  <2>8. (\E u \in Matching(NameOf(seen[c].first)) : SentTo(c, u))'
    BY <2>6, <2>7, Zenon DEF Matching, NameOf
  <2>9. ~Discovers(conn[c].route)'
    BY <1>1, <1>3 DEF Discovers
  <2>10. QED
    BY <2>8, <2>9, Zenon DEF Sent
<1>4. CASE ~Discovers(first) /\ ~Discovers(route)
  BY <1>1, <1>4 DEF Sent, Discovers
<1>5. QED
  BY <1>2, <1>3, <1>4

\* Nobody has been sent anywhere.
LEMMA SentInit == Init => AllSent
<1> SUFFICES ASSUME Init, NEW c \in Clients
             PROVE  Sent(c)
  BY DEF AllSent
<1>1. conn[c].route = NoRoute /\ seen[c].first = NoRoute /\ conn[c].ans.code # 200
  <2>1. conn[c].ans.code = 0
    <3>1. Flow /\ phase = "starting"
      BY FlowInit DEF Init
    <3>2. QED
      BY <3>1 DEF Flow, ClientOK
  <2>2. conn[c].route = NoRoute
    BY DEF Init
  <2>3. seen[c].first = NoRoute
    BY DEF Init, Nothing
  <2>4. QED
    BY <2>1, <2>2, <2>3
<1>2. QED
  BY <1>1 DEF Sent, Silent

\* Nobody is sent to, or shown, another task than one the name finds.
LEMMA SentStep == Flow /\ AllSent /\ [Next]_vars => AllSent'
<1> SUFFICES ASSUME Flow, AllSent, [Next]_vars, NEW d \in Clients
             PROVE  Sent(d)'
  BY DEF AllSent
<1>1. ASSUME conn'[d] = conn[d], seen'[d].first = seen[d].first,
             \A t \in Tasks : HasContainer(task, t) =>
               HasContainer(task', t) /\ task'[t].agent = task[t].agent
      PROVE  Sent(d)'
  BY <1>1, SentKept DEF AllSent
<1>2. ASSUME NEW in \in Starts, StartServer(in) \/ StartFails(in)
      PROVE  Sent(d)'
  BY <1>1, <1>2, StartEffect
<1>3. CASE Environment
  <2>1. /\ UNCHANGED conn /\ Observe /\ granted' \in BOOLEAN
        /\ \A t \in Tasks : HasContainer(task, t) =>
             HasContainer(task', t) /\ task'[t].agent = task[t].agent
    BY <1>3, EnvironmentEffect
  <2>2. seen'[d].first = seen[d].first
    BY <2>1, ObserveEffect DEF Flow
  <2>3. QED
    BY <1>1, <2>1, <2>2
<1>4. ASSUME NEW c \in Clients, NEW r, NEW route, NEW first, Served(c, r, route, first),
             UNCHANGED <<server, env>>, d # c
      PROVE  Sent(d)'
  BY <1>1, <1>4 DEF Served, env
<1>5. ASSUME NEW c \in Clients, NEW r \in Requests[c], Arrive(c, r)
      PROVE  Sent(d)'
  <2> DEFINE route == RouteOf(r.path)
  <2>1. ServeHTTP(c, r, route, route)
    BY <1>5 DEF Arrive
  <2>2. RouteOK(route) /\ UNCHANGED <<server, env>>
    BY <2>1, RouteFacts DEF ServeHTTP
  <2> HIDE DEF route
  <2>3. Served(c, r, route, route)
    BY <2>1, ServeEffect
  <2>4. QED
    BY <1>4, <2>2, <2>3, SentServe
<1>6. ASSUME NEW c \in Clients, Follow(c)
      PROVE  Sent(d)'
  <2> DEFINE r == Redirection(conn[c].req, conn[c].ans.body)
             route == RouteOf(r.path)
             first == seen[c].first
  <2>1. ServeHTTP(c, r, route, first)
    BY <1>6, Followed
  <2>2. RouteOK(route)
    BY RouteFacts
  <2>3. Legible(first) =>
          /\ ~Discovers(route)
          /\ \E t \in Matching(NameOf(first)) :
               /\ HasContainer(task, t)
               /\ route.handler = "NotFound" \/ Lands(route, t, first.handler, FileOf(first))
    <3>1. r.path = RedirectPath(conn[c].ans.body)
      BY <1>6, Followed
    <3>2. conn[c].ans.code = 303
      BY <1>6 DEF Follow
    <3> HIDE DEF r
    <3>3. QED
      BY <3>1, <3>2, SentFollow
  <2> HIDE DEF r, route, first
  <2>4. UNCHANGED <<server, env>>
    BY <2>1 DEF ServeHTTP
  <2>5. Served(c, r, route, first)
    BY <2>1, ServeEffect
  <2>6. d = c => Sent(d)'
    BY <2>2, <2>3, <2>4, <2>5, SentServe
  <2>7. QED
    BY <1>4, <2>4, <2>5, <2>6
<1>7. ASSUME NEW c \in Clients, Local(c) \/ Remote(c)
      PROVE  Sent(d)'
  <2>1. CASE d = c
    BY <1>7, <2>1, SentCall
  <2>2. CASE d # c
    BY <1>1, <1>7, <2>2, CallEffect DEF Effect, Keeps, Own, env
  <2>3. QED
    BY <2>1, <2>2
<1>8. CASE UNCHANGED vars
  BY <1>1, <1>8 DEF vars, env
<1>9. QED
  BY <1>2, <1>3, <1>5, <1>6, <1>7, <1>8 DEF Next

\* What a client that asked for a task by its name is shown is what Sent says.
LEMMA SentRight == Flow /\ AllSent => RightSandbox
<1> SUFFICES ASSUME Flow, AllSent, NEW c \in Clients, Shows(c), Legible(seen[c].first)
             PROVE  \E t \in Matching(NameOf(seen[c].first)) :
                      conn[c].ans.body = ViewOf(t, seen[c].first)
  BY Zenon DEF RightSandbox, NameOf
<1>1. Discovers(seen[c].first) /\ ~Silent(c)
  BY DEF Shows, Silent
<1>2. Sent(c) /\ ~Discovers(conn[c].route)
  BY <1>1 DEF AllSent, Sent
<1>3. QED
  BY <1>1, <1>2 DEF Sent, SentTo, ViewOf, TaskView

\* The redirect of v2's discovery, the route that mux finds for it and the directory that the
\* agent keeps agree: a client that follows it sees the log of a task that its name finds, or
\* nothing, whatever the IDs and the file are called as long as a URL needs no escapes for them.
THEOREM SandboxRight == Spec => []RightSandbox
<1>1. Flow /\ AllSent /\ [Next]_vars => (Flow /\ AllSent)'
  BY FlowStep, SentStep
<1>2. Spec => [](Flow /\ AllSent)
  BY FlowInit, SentInit, <1>1, PTL DEF Spec
<1>3. QED
  BY <1>2, SentRight, PTL

-----------------------------------------------------------------------------
(***************************************************************************)
(* The mutex.  The call that runs with it locked is never in the middle of *)
(* a handler's calls, so that who holds it is about to give it up.         *)
(***************************************************************************)
\* No call but the next one runs the script.
Locking(c) ==
  /\ mutex = c <=> Calling(c, "Script")
  /\ \A i \in 2 .. Len(conn[c].todo) : conn[c].todo[i] # "Script"

AllLocking == \A c \in Clients : Locking(c)

\* The script is not among the calls behind the next one.
LEMMA RestFree ==
  ASSUME Flow, AllLocking, NEW c \in Clients, Busy(c)
  PROVE  /\ \E S : Rest(c) \in Seq(S)
         /\ \A i \in 1 .. Len(Rest(c)) : Rest(c)[i] # "Script"
<1> DEFINE s == conn[c].todo
<1>1. OnTrack(c) /\ s # <<>> /\ \A i \in 2 .. Len(s) : s[i] # "Script"
  BY DEF Flow, ClientOK, Busy, AllLocking, Locking
<1>2. PICK S : s \in Seq(S)
  <2>1. Lookups \in Seq({"Running", "Completed"}) /\ <<"Completed">> \in Seq({"Completed"})
    BY DEF Lookups
  <2>2. QED
    BY <1>1, <2>1 DEF OnTrack, Planned
<1> HIDE DEF s
<1>3. /\ Tail(s) \in Seq(S) /\ Len(Tail(s)) = Len(s) - 1
      /\ \A i \in 1 .. Len(s) - 1 : Tail(s)[i] = s[i + 1]
  BY <1>1, <1>2
<1>4. ASSUME NEW i \in 1 .. Len(Tail(s))
      PROVE  Tail(s)[i] # "Script"
  <2>1. i + 1 \in 2 .. Len(s) /\ Tail(s)[i] = s[i + 1]
    BY <1>2, <1>3
  <2>2. QED
    BY <1>1, <2>1
<1>5. QED
  BY <1>3, <1>4 DEF Rest, s

\* Nor is it if others come before them.
LEMMA AheadOfRest ==
  ASSUME Flow, AllLocking, NEW c \in Clients, Busy(c), NEW S, NEW p \in Seq(S), Len(p) >= 1
  PROVE  LET new == p \o Rest(c)
         IN  /\ new # <<>> /\ Head(new) = p[1]
             /\ \A i \in 2 .. Len(p) : new[i] = p[i]
             /\ \A i \in Len(p) + 1 .. Len(new) : new[i] # "Script"
<1> DEFINE t == Rest(c)
           new == p \o t
<1>1. /\ \E R : t \in Seq(R)
      /\ \A i \in 1 .. Len(t) : t[i] # "Script"
  BY RestFree
<1>2. PICK R : t \in Seq(R)
  BY <1>1
<1> DEFINE T == S \cup R
<1>3. p \in Seq(T) /\ t \in Seq(T)
  BY <1>2
<1> HIDE DEF t, T
<1>4. /\ new \in Seq(T) /\ Len(new) = Len(p) + Len(t)
      /\ \A i \in 1 .. Len(p) : new[i] = p[i]
      /\ \A i \in 1 .. Len(t) : new[Len(p) + i] = t[i]
  BY <1>3, Prefixed
<1> HIDE DEF new
<1>5. new # <<>> /\ Head(new) = p[1]
  BY <1>3, <1>4
<1>6. ASSUME NEW i \in Len(p) + 1 .. Len(new)
      PROVE  new[i] # "Script"
  <2>1. i - Len(p) \in 1 .. Len(t) /\ Len(p) + (i - Len(p)) = i
    BY <1>3, <1>4
  <2>2. QED
    BY <1>1, <1>4, <2>1
<1>7. QED
  BY <1>4, <1>5, <1>6 DEF new, t

\* A call that is not the script returns or ends the handler.
LEMMA Unlocked ==
  ASSUME Flow, AllLocking, NEW c \in Clients, Busy(c), mutex' # c,
         conn'[c].todo = Rest(c) \/ conn'[c].todo = <<>>
  PROVE  Locking(c)'
<1> DEFINE t == conn'[c].todo
<1> DEFINE Free(s) == (\E S : s \in Seq(S)) /\ \A i \in 1 .. Len(s) : s[i] # "Script"
<1>1. Free(<<>>)
  <2>1. <<>> \in Seq({}) /\ Len(<<>>) = 0
    OBVIOUS
  <2>2. QED
    BY <2>1
<1>2. Free(Rest(c))
  BY RestFree
<1>3. t = Rest(c) \/ t = <<>>
  OBVIOUS
<1> HIDE DEF Free, t
<1>4. Free(t)
  BY <1>1, <1>2, <1>3
<1>5. (\E S : t \in Seq(S)) /\ \A i \in 1 .. Len(t) : t[i] # "Script"
  BY <1>4 DEF Free
<1>6. t # <<>> => Head(t) # "Script"
  BY <1>5
<1>7. \A i \in 2 .. Len(t) : t[i] # "Script"
  BY <1>5
<1>8. ~Calling(c, "Script")'
  BY <1>6 DEF Calling, Busy, t
<1>9. QED
  BY <1>7, <1>8 DEF Locking, t

\* The calls of a new request do not start in the middle of DetectIP.
LEMMA LockingServe ==
  ASSUME Flow, AllLocking, NEW c \in Clients, ~Busy(c), NEW r, NEW route, NEW first, RouteOK(route),
         ServeHTTP(c, r, route, first)
  PROVE  AllLocking'
<1> DEFINE new == Pending(r, route)
           Free(s) == s = <<>> \/ (s[1] # "Script" /\ Head(s) = s[1] /\ \A i \in 2 .. Len(s) : s[i] # "Script")
<1>1. Free(Calls(r, route))
  <2>1. /\ Free(<<>>) /\ Free(<<"Journal">>) /\ Free(<<"Field">>)
        /\ Free(<<"Running", "Completed">>)
        /\ Free(<<"DetectIP", "MesosID", "Authorize", "Journal">>)
        /\ Free(<<"MesosID", "DetectIP", "Size", "Read">>)
        /\ Free(<<"MesosID", "DetectIP", "Read">>)
        /\ Free(<<"MesosID", "DetectIP", "Browse">>)
        /\ Free(<<"MesosID", "DetectIP", "Download">>)
    OBVIOUS
  <2> HIDE DEF Free
  <2>2. Free(Lookups)
    BY <2>1 DEF Lookups
  <2>3. QED
    BY <2>1, <2>2, CallsOf DEF RouteOK, Handler, Discovers
<1>2. Free(new)
  <2>1. new = <<>> \/ new = Calls(r, route)
    BY DEF Pending
  <2> HIDE DEF new
  <2>2. CASE new = <<>>
    BY <2>2
  <2>3. CASE new = Calls(r, route)
    <3> HIDE DEF Free
    <3>1. QED
      BY <1>1, <2>3
  <2>4. QED
    BY <2>1, <2>2, <2>3
<1>3. /\ \A d \in Clients : d # c => conn'[d] = conn[d]
      /\ conn'[c].todo = new
  BY ServeEffect, ZenonT(40) DEF Served
<1>4. mutex' = mutex /\ mutex # c
  BY DEF ServeHTTP, cache, AllLocking, Locking, Calling
<1> HIDE DEF new
<1>5. Locking(c)'
  <2>1. Len(<<>>) = 0
    OBVIOUS
  <2>2. ~Calling(c, "Script")'
    BY <1>2, <1>3 DEF Calling, Busy
  <2>3. \A i \in 2 .. Len(new) : new[i] # "Script"
    BY <1>2, <2>1
  <2>4. QED
    BY <1>3, <1>4, <2>2, <2>3 DEF Locking
<1>6. QED
  BY <1>3, <1>4, <1>5 DEF AllLocking, Locking, Calling, Busy

\* The other clients wait, or do not care.
LEMMA OthersWait ==
  ASSUME Flow, AllLocking, NEW c \in Clients, Own(c), Locking(c)',
         \/ mutex' = mutex
         \/ mutex = Nobody /\ mutex' = c
         \/ mutex = c /\ mutex' = Nobody
  PROVE  AllLocking'
<1>1. ASSUME NEW d \in Clients, d # c
      PROVE  Locking(d)'
  <2>1. conn'[d] = conn[d] /\ Locking(d)
    BY <1>1 DEF Own, AllLocking
  <2>2. (mutex' = d) <=> (mutex = d)
    BY <1>1, ServerAssumption
  <2>3. QED
    BY <2>1, <2>2 DEF Locking, Calling, Busy
<1>2. QED
  BY <1>1 DEF AllLocking

\* NodeInfo takes the mutex for the script and gives it back with its result, in both cases.
LEMMA LockingCall ==
  ASSUME Flow, AllLocking, NEW c \in Clients, Local(c) \/ Remote(c)
  PROVE  AllLocking'
<1>1. Busy(c) /\ Own(c) /\ Connections
  BY CallEffect DEF Flow, Effect, Keeps
<1>2. /\ mutex = c <=> Calling(c, "Script")
      /\ mutex \in Clients \cup {Nobody} /\ c # Nobody
  BY ServerAssumption DEF AllLocking, Locking, Flow, Globals
<1>3. /\ Proceed(c, Rest(c)) => conn'[c].todo = Rest(c)
      /\ \A code, body : Answer(c, code, body) => conn'[c].todo = <<>>
  BY <1>1, Updates, AnswerGiven
<1>4. ASSUME conn'[c].todo = Rest(c) \/ conn'[c].todo = <<>>,
             \/ mutex' = mutex /\ mutex # c
             \/ mutex = c /\ mutex' = Nobody
      PROVE  AllLocking'
  <2>1. Locking(c)'
    BY <1>1, <1>2, <1>4, Unlocked
  <2>2. QED
    BY <1>1, <1>4, <2>1, OthersWait
<1>5. ASSUME NEW call, Calling(c, call), call # "Script"
      PROVE  mutex # c
  BY <1>2, <1>5 DEF Calling
<1>6. CASE MesosIDHit(c)
  <2> DEFINE Goes == conn' = [conn EXCEPT ![c].todo = Tail(@), ![c].node = cachedID]
  <2>1. Goes /\ mutex' = mutex /\ Calling(c, "MesosID")
    BY <1>6 DEF MesosIDHit, cache
  <2>2. conn'[c].todo = Rest(c)
    BY <1>1, <2>1, Updates DEF Rest
  <2> HIDE DEF Goes
  <2>3. QED
    BY <1>4, <1>5, <2>1, <2>2
<1>7. CASE MesosIDMiss(c)
  <2> DEFINE p == <<"DetectIP", "State", "Store">>
             new == p \o Rest(c)
  <2>1. Proceed(c, new) /\ mutex' = mutex /\ mutex # c
    BY <1>5, <1>7 DEF MesosIDMiss, cache
  <2>2. /\ p \in Seq({"DetectIP", "State", "Store"}) /\ Len(p) = 3
        /\ \A i \in 1 .. 3 : p[i] # "Script"
    OBVIOUS
  <2> HIDE DEF p
  <2>3. /\ new # <<>> /\ Head(new) = p[1]
        /\ \A i \in 2 .. 3 : new[i] = p[i]
        /\ \A i \in 4 .. Len(new) : new[i] # "Script"
    BY <1>1, <2>2, AheadOfRest
  <2> HIDE DEF new
  <2>4. conn'[c].todo = new
    BY <1>1, <2>1, Updates
  <2>5. ~Calling(c, "Script")'
    BY <2>2, <2>3, <2>4 DEF Calling
  <2>6. \A i \in 2 .. Len(new) : new[i] # "Script"
    BY <2>2, <2>3
  <2>7. Locking(c)'
    BY <2>1, <2>4, <2>5, <2>6 DEF Locking
  <2>8. QED
    BY <1>1, <2>1, <2>7, OthersWait
<1>8. CASE DetectIPRun(c)
  <2> DEFINE p == <<"Script">>
             new == p \o Rest(c)
  <2>1. Proceed(c, new) /\ mutex = Nobody /\ mutex' = c
    BY <1>8 DEF DetectIPRun
  <2>2. p \in Seq({"Script"}) /\ Len(p) = 1 /\ p[1] = "Script"
    OBVIOUS
  <2> HIDE DEF p
  <2>3. Len(p) >= 1
    BY <2>2
  <2>4. /\ new # <<>> /\ Head(new) = p[1]
        /\ \A i \in Len(p) + 1 .. Len(new) : new[i] # "Script"
    BY <1>1, <2>2, <2>3, AheadOfRest
  <2> HIDE DEF new
  <2>5. /\ new # <<>> /\ Head(new) = "Script"
        /\ \A i \in 2 .. Len(new) : new[i] # "Script"
    BY <2>2, <2>4
  <2>6. conn'[c].todo = new
    BY <1>1, <2>1, Updates
  <2>7. Locking(c)'
    BY <2>1, <2>5, <2>6 DEF Locking, Calling, Busy
  <2>8. QED
    BY <1>1, <2>1, <2>7, OthersWait
<1>9. CASE ScriptDone(c)
  <2>1. Calling(c, "Script") /\ mutex' = Nobody /\ Proceed(c, Rest(c))
    BY <1>9 DEF ScriptDone
  <2>2. QED
    BY <1>2, <1>3, <1>4, <2>1
<1>10. CASE ScriptFails(c)
  <2>1. Calling(c, "Script") /\ mutex' = Nobody /\ Answer(c, 500, <<>>)
    BY <1>10 DEF ScriptFails
  <2>2. QED
    BY <1>2, <1>3, <1>4, <2>1
<1>11. CASE DetectIPHit(c)
  <2>1. Calling(c, "DetectIP") /\ mutex' = mutex /\ Proceed(c, Rest(c))
    BY <1>11 DEF DetectIPHit, cache
  <2>2. QED
    BY <1>3, <1>4, <1>5, <2>1
<1>12. CASE Store(c)
  <2>1. Calling(c, "Store") /\ mutex' = mutex /\ Proceed(c, Rest(c))
    BY <1>12 DEF Store
  <2>2. QED
    BY <1>3, <1>4, <1>5, <2>1
<1>13. CASE FetchState(c)
  <2> DEFINE Goes(node) == conn' = [conn EXCEPT ![c].todo = Tail(@), ![c].node = node]
  <2>1. Calling(c, "State") /\ mutex' = mutex /\ ((\E node : Goes(node)) \/ Answer(c, 500, <<>>))
    BY <1>13, FetchedState DEF cache
  <2>2. (\E node : Goes(node)) => conn'[c].todo = Rest(c)
    BY <1>1, Updates DEF Rest
  <2> HIDE DEF Goes
  <2>3. QED
    BY <1>3, <1>4, <1>5, <2>1, <2>2
<1>14. ASSUME NEW call, Calling(c, call), call # "Script", mutex' = mutex,
              Proceed(c, Rest(c)) \/ \E code, body : Answer(c, code, body)
       PROVE  AllLocking'
  BY <1>3, <1>4, <1>5, <1>14
<1>15. CASE LookUp(c)
  <2> DEFINE route == conn[c].route
             found(call) == FoundTasks(NameOf(route), call = "Completed", task)
             one(call) == granted /\ Cardinality(found(call)) = 1
                            /\ \A t \in found(call) : HasContainer(task, t)
             body(t) == RedirectURL(Canonical(t), route.handler, FileOf(route))
  <2>1. PICK call \in {"Running", "Completed"} :
          /\ Calling(c, call)
          /\ IF one(call) THEN \E t \in found(call) : Answer(c, 303, body(t))
             ELSE IF Rest(c) # <<>> THEN Proceed(c, Rest(c)) ELSE Answer(c, 500, <<>>)
    BY <1>15 DEF LookUp, NameOf
  <2>2. mutex' = mutex
    BY <1>15 DEF LookUp, cache
  <2> HIDE DEF one, found, body
  <2>3. QED
    BY <1>14, <2>1, <2>2
<1>16. CASE Authorize(c)
  <2>1. /\ Calling(c, "Authorize") /\ mutex' = mutex
        /\ Proceed(c, Rest(c)) \/ \E code : Answer(c, code, <<>>)
    BY <1>16 DEF Authorize, cache
  <2>2. QED
    BY <1>14, <2>1
<1>17. CASE Size(c) \/ Read(c) \/ Browse(c)
  <2>1. /\ \E call \in {"Size", "Read", "Browse"} : Calling(c, call)
        /\ mutex' = mutex
        /\ Proceed(c, Rest(c)) \/ \E code, body : Answer(c, code, body)
    BY <1>17 DEF Size, Read, Browse, AtAgent, cache
  <2>2. QED
    BY <1>14, <2>1
<1>18. CASE Download(c)
  <2>1. /\ Calling(c, "Download") /\ mutex' = mutex
        /\ \E code, body : Answer(c, code, body)
    BY <1>18 DEF Download, AtAgent, cache
  <2>2. QED
    BY <1>14, <2>1
<1>19. CASE Journal(c) \/ Field(c)
  <2>1. /\ \E call \in {"Journal", "Field"} : Calling(c, call)
        /\ mutex' = mutex
        /\ \E code, body : Answer(c, code, body)
    BY <1>19 DEF Journal, Field, cache
  <2>2. QED
    BY <1>14, <2>1
<1>20. CASE CallFails(c)
  <2>1. /\ \E call \in {"State", "Running", "Completed", "Authorize", "Size", "Read", "Browse",
                        "Download"} : Calling(c, call)
        /\ mutex' = mutex
        /\ Proceed(c, Rest(c)) \/ \E code, body : Answer(c, code, body)
    BY <1>20 DEF CallFails, cache
  <2>2. QED
    BY <1>14, <2>1
<1>21. QED
  BY <1>6, <1>7, <1>8, <1>9, <1>10, <1>11, <1>12, <1>13, <1>15, <1>16, <1>17, <1>18, <1>19, <1>20
     DEF Local, Remote

\* The mutex is free when nobody has asked for anything.
LEMMA LockingInit == Init => AllLocking
<1> SUFFICES ASSUME Init, NEW c \in Clients
             PROVE  Locking(c)
  BY DEF AllLocking
<1>1. mutex = Nobody /\ c # Nobody
  BY ServerAssumption DEF Init
<1>2. conn[c].todo = <<>>
  <2>1. phase = "starting" /\ Flow
    BY FlowInit DEF Init
  <2>2. QED
    BY <2>1 DEF Flow, ClientOK
<1>3. Len(<<>>) = 0
  OBVIOUS
<1>4. QED
  BY <1>1, <1>2, <1>3 DEF Locking, Calling, Busy

\* Only NodeInfo locks.
LEMMA LockingStep == Flow /\ AllLocking /\ [Next]_vars => AllLocking'
<1> SUFFICES ASSUME Flow, AllLocking, [Next]_vars
             PROVE  AllLocking'
  OBVIOUS
<1>1. ASSUME UNCHANGED <<conn, mutex>>
      PROVE  AllLocking'
  BY <1>1 DEF AllLocking, Locking, Calling, Busy
<1>2. ASSUME NEW in \in Starts, StartServer(in) \/ StartFails(in)
      PROVE  AllLocking'
  BY <1>1, <1>2, StartEffect
<1>3. CASE Environment
  BY <1>1, <1>3, EnvironmentEffect
<1>4. ASSUME NEW c \in Clients, NEW r \in Requests[c], Arrive(c, r)
      PROVE  AllLocking'
  <2> DEFINE route == RouteOf(r.path)
  <2>1. ServeHTTP(c, r, route, route) /\ ~Busy(c)
    BY <1>4 DEF Arrive, Flow, ClientOK, Busy
  <2>2. RouteOK(route)
    BY RouteFacts
  <2> HIDE DEF route
  <2>3. QED
    BY <2>1, <2>2, LockingServe
<1>5. ASSUME NEW c \in Clients, Follow(c)
      PROVE  AllLocking'
  <2> DEFINE r == Redirection(conn[c].req, conn[c].ans.body)
             route == RouteOf(r.path)
             first == seen[c].first
  <2>1. ServeHTTP(c, r, route, first)
    BY <1>5, Followed
  <2>2. RouteOK(route)
    BY RouteFacts
  <2> HIDE DEF r, route, first
  <2>3. conn[c].ans.code # 0
    BY <1>5 DEF Follow
  <2>4. ~Busy(c)
    BY <2>3 DEF Flow, ClientOK
  <2>5. QED
    BY <2>1, <2>2, <2>4, LockingServe
<1>6. ASSUME NEW c \in Clients, Local(c) \/ Remote(c)
      PROVE  AllLocking'
  BY <1>6, LockingCall
<1>7. CASE UNCHANGED vars
  BY <1>1, <1>7 DEF vars, cache
<1>8. QED
  BY <1>2, <1>3, <1>4, <1>5, <1>6, <1>7 DEF Next

\* NodeInfo's mutex is held for a running script and for nothing else: nobody who waits for it
\* waits for mesos or for another who waits, and no two scripts run at once.
THEOREM MutexForScript == Spec => []LockedForScript
<1>1. Flow /\ AllLocking /\ [Next]_vars => (Flow /\ AllLocking)'
  BY FlowStep, LockingStep
<1>2. Spec => [](Flow /\ AllLocking)
  BY FlowInit, LockingInit, <1>1, PTL DEF Spec
<1>3. AllLocking => LockedForScript
  BY DEF AllLocking, Locking, LockedForScript
<1>4. QED
  BY <1>2, <1>3, PTL
=============================================================================
