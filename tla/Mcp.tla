-------------------------------- MODULE Mcp --------------------------------
(***************************************************************************)
(* The MCP manager and its stdio clients (evolva/agent/mcp.py) for one     *)
(* server name: threads list its tools and call them while it is added,    *)
(* replaced and removed, while its process answers late, out of order, not *)
(* at all or with garbage, or dies, and while the program itself crashes.  *)
(*                                                                         *)
(* A server's configuration is the number of the edit that made it. Ids a  *)
(* server invents for requests of its own never look like an answer here,  *)
(* and messages of no interest to a request are not modelled: the client   *)
(* skips them.                                                             *)
(***************************************************************************)
EXTENDS Integers, Sequences, SequencesExt

CONSTANTS
  McpThreads,   \* threads that use the manager
  McpFree,      \* no thread
  McpMaxClients,  \* bound: client objects, one per configuration in use
  McpMaxRequests, \* bound: ids of a client
  McpMaxEdits     \* bound: edits of the configuration

ASSUME McpAssumption ==
  /\ McpFree \notin McpThreads
  /\ McpMaxClients \in Nat /\ McpMaxRequests \in Nat /\ McpMaxEdits \in Nat

McpClients == 1 .. McpMaxClients
McpConfigs == 0 .. McpMaxEdits  \* 0: not registered

VARIABLES
  mcpEdits,   \* edits so far
  mcpFile,    \* servers.json
  mcpServer,  \* MCPManager.servers
  mcpCache,   \* [file, memory]: whose tools the cache holds, 0 for nobody's
  mcpMade,    \* clients made so far
  mcpClient,  \* MCPManager.clients, 0 for none
  mcpOf,      \* [McpClients -> client object]
  mcpThread   \* [McpThreads -> the operation in progress]

mcpVars == <<mcpEdits, mcpFile, mcpServer, mcpCache, mcpMade, mcpClient, mcpOf, mcpThread>>
mcpRegistry == <<mcpEdits, mcpFile, mcpServer, mcpCache, mcpMade, mcpClient>>

\* A request as the server sees it; by is who made it, which only the model knows.
McpMessage == [id : Nat, by : McpThreads \X Nat]
\* A process and its pipes: requests it read, answers nobody read yet.
McpProcess == [alive : BOOLEAN, asked : SUBSET McpMessage, out : Seq(McpMessage)]
ClientObject ==
  [config : Nat, next : Nat, initialized : BOOLEAN, lock : McpThreads \cup {McpFree},
   started : BOOLEAN, proc : McpProcess]
McpSteps == {"idle", "initialize", "opening", "notify", "request", "waiting", "answered"}
McpOperation == [pc : McpSteps, op : {"list", "call"}, client : Nat, id : Nat,
                 sent : Nat, answer : McpThreads \X Nat]

NoProcess == [alive |-> FALSE, asked |-> {}, out |-> << >>]
NewProcess == [NoProcess EXCEPT !.alive = TRUE]
NewClient(config) == [config |-> config, next |-> 1, initialized |-> FALSE,
                      lock |-> McpFree, started |-> FALSE, proc |-> NoProcess]

McpIdle(t, sent) == [pc |-> "idle", op |-> "list", client |-> 0, id |-> 0,
                    sent |-> sent, answer |-> <<t, 0>>]

McpTypeOK ==
  /\ mcpEdits \in Nat /\ mcpFile \in Nat /\ mcpServer \in Nat
  /\ mcpCache \in [file : Nat, memory : Nat]
  /\ mcpMade \in Nat /\ mcpClient \in {0} \cup McpClients
  /\ mcpOf \in [McpClients -> ClientObject]
  /\ mcpThread \in [McpThreads -> McpOperation]

McpInit ==
  /\ mcpEdits \in {0, 1} \cap McpConfigs  \* a server may be registered already
  /\ mcpFile = mcpEdits /\ mcpServer = mcpEdits
  /\ mcpCache = [file |-> 0, memory |-> 0]
  /\ mcpMade = 0 /\ mcpClient = 0
  /\ mcpOf = [c \in McpClients |-> NewClient(0)]
  /\ mcpThread = [t \in McpThreads |-> McpIdle(t, 0)]

-----------------------------------------------------------------------------
(* The registry *)

\* close(): the process is terminated, the handshake forgotten. No lock is taken.
McpClosed(client) == [client EXCEPT !.started = FALSE, !.proc = NoProcess, !.initialized = FALSE]

ClosedClient(c) == [d \in McpClients |-> IF d = c THEN McpClosed(mcpOf[d]) ELSE mcpOf[d]]

\* add_server and remove_server write servers.json first ...
McpEditFile(registers) ==
  /\ mcpEdits < McpMaxEdits
  /\ mcpFile = mcpServer
  /\ registers \/ mcpFile # 0
  /\ mcpEdits' = mcpEdits + 1
  /\ mcpFile' = IF registers THEN mcpEdits + 1 ELSE 0
  /\ UNCHANGED <<mcpServer, mcpCache, mcpMade, mcpClient, mcpOf, mcpThread>>

\* ... then take the new configuration, drop the client and the cached tools.
McpEditMemory ==
  /\ mcpFile # mcpServer
  /\ mcpServer' = mcpFile
  /\ mcpOf' = ClosedClient(mcpClient)
  /\ mcpClient' = 0
  /\ mcpCache' = [file |-> 0, memory |-> 0]
  /\ UNCHANGED <<mcpEdits, mcpFile, mcpMade, mcpThread>>

\* The program dies and starts again: the servers lose their pipes, the
\* manager loads both files.
McpCrash ==
  /\ mcpServer' = mcpFile
  /\ mcpCache' = [mcpCache EXCEPT !.memory = mcpCache.file]
  /\ mcpClient' = 0
  /\ mcpOf' = [c \in McpClients |-> [McpClosed(mcpOf[c]) EXCEPT !.lock = McpFree]]
  /\ mcpThread' = [t \in McpThreads |-> McpIdle(t, mcpThread[t].sent)]
  /\ UNCHANGED <<mcpEdits, mcpFile, mcpMade>>

-----------------------------------------------------------------------------
(* An operation of a thread *)

\* A call, or a list that finds no tools cached or only expired ones, takes the
\* manager's client or makes one.
McpBegin(t, op) ==
  /\ mcpThread[t].pc = "idle"
  /\ mcpServer # 0
  /\ mcpClient = 0 => mcpMade < McpMaxClients
  /\ LET c == IF mcpClient = 0 THEN mcpMade + 1 ELSE mcpClient IN
     /\ mcpClient' = c
     /\ mcpMade' = IF mcpClient = 0 THEN c ELSE mcpMade
     /\ mcpOf' = IF mcpClient = 0 THEN [mcpOf EXCEPT ![c] = NewClient(mcpServer)] ELSE mcpOf
     /\ mcpThread' = [mcpThread EXCEPT ![t] =
          [@ EXCEPT !.pc = "initialize", !.op = op, !.client = c]]
  /\ UNCHANGED <<mcpEdits, mcpFile, mcpServer, mcpCache>>

\* initialize() returns at once when the flag is set, whatever became of the
\* process it was set for.
AlreadyInitialized(t) ==
  /\ mcpThread[t].pc = "initialize"
  /\ mcpOf[mcpThread[t].client].initialized
  /\ mcpThread' = [mcpThread EXCEPT ![t].pc = "request"]
  /\ UNCHANGED <<mcpRegistry, mcpOf>>

\* start(): the process, or a new one when there is none or it died.
McpStarted(client) ==
  IF client.started /\ client.proc.alive THEN client.proc ELSE NewProcess

\* request(), first half: take the lock and the next id, write the request.
McpSend(t) ==
  LET thread == mcpThread[t]
      client == mcpOf[thread.client]
      proc   == McpStarted(client)
      new    == [id |-> client.next, by |-> <<t, thread.sent + 1>>]
  IN
  /\ \/ thread.pc = "initialize" /\ ~client.initialized
     \/ thread.pc = "request"
  /\ client.lock = McpFree
  /\ client.next <= McpMaxRequests
  /\ mcpOf' = [mcpOf EXCEPT ![thread.client] =
       [client EXCEPT !.lock = t, !.next = client.next + 1, !.started = TRUE,
                 !.proc = [proc EXCEPT !.asked = proc.asked \cup {new}]]]
  /\ mcpThread' = [mcpThread EXCEPT ![t] =
       [thread EXCEPT !.pc = IF thread.pc = "request" THEN "waiting" ELSE "opening",
                      !.id = client.next, !.sent = thread.sent + 1]]
  /\ UNCHANGED mcpRegistry

McpWaiting(t) == mcpThread[t].pc \in {"opening", "waiting"}

\* Mutant: any answer is taken.
IsAnyAnswer(message, t) == TRUE

IsAnswer(message, t) == message.id = mcpThread[t].id

\* request(), second half: messages are read one by one until one has the id.
McpReceive(t) ==
  LET thread == mcpThread[t]
      c      == thread.client
      out    == mcpOf[c].proc.out
  IN
  /\ McpWaiting(t)
  /\ out # << >>
  /\ IF IsAnswer(Head(out), t)
     THEN /\ mcpOf' = [mcpOf EXCEPT ![c].proc.out = Tail(out), ![c].lock = McpFree]
          /\ mcpThread' = [mcpThread EXCEPT ![t] =
               [thread EXCEPT !.pc = IF thread.pc = "opening" THEN "notify" ELSE "answered",
                         !.answer = Head(out).by]]
     ELSE /\ mcpOf' = [mcpOf EXCEPT ![c].proc.out = Tail(out)]
          /\ UNCHANGED mcpThread
  /\ UNCHANGED mcpRegistry

McpAbandon(t) == mcpThread' = [mcpThread EXCEPT ![t] = McpIdle(t, @.sent)]

\* The deadline passes, or a message is too large: the client is closed.
McpTimeOut(t) ==
  /\ McpWaiting(t)
  /\ mcpOf' = [mcpOf EXCEPT ![mcpThread[t].client] = [McpClosed(@) EXCEPT !.lock = McpFree]]
  /\ McpAbandon(t)
  /\ UNCHANGED mcpRegistry

\* Garbage, or the end of the output: the request fails, the process stays,
\* and with it the answer that may still come.
FailRead(t) ==
  /\ McpWaiting(t)
  /\ mcpOf' = [mcpOf EXCEPT ![mcpThread[t].client].lock = McpFree]
  /\ McpAbandon(t)
  /\ UNCHANGED mcpRegistry

\* notify() starts a process too, if need be; the flag is set without the lock.
NotifyInitialized(t) ==
  LET c == mcpThread[t].client IN
  /\ mcpThread[t].pc = "notify"
  /\ mcpOf[c].lock = McpFree
  /\ mcpOf' = [mcpOf EXCEPT ![c] =
       [@ EXCEPT !.proc = McpStarted(mcpOf[c]), !.started = TRUE, !.initialized = TRUE]]
  /\ mcpThread' = [mcpThread EXCEPT ![t].pc = "request"]
  /\ UNCHANGED mcpRegistry

\* A list puts the tools in the cache under the name, a call returns.
McpFinish(t) ==
  /\ mcpThread[t].pc = "answered"
  /\ mcpCache' = IF mcpThread[t].op = "list"
                 THEN [c \in {"file", "memory"} |-> mcpOf[mcpThread[t].client].config]
                 ELSE mcpCache
  /\ McpAbandon(t)
  /\ UNCHANGED <<mcpEdits, mcpFile, mcpServer, mcpMade, mcpClient, mcpOf>>

-----------------------------------------------------------------------------
(* The server *)

McpAnswer(c) ==
  /\ mcpOf[c].started /\ mcpOf[c].proc.alive
  /\ LET proc == mcpOf[c].proc IN
     \E m \in proc.asked :
       mcpOf' = [mcpOf EXCEPT ![c].proc =
         [proc EXCEPT !.asked = proc.asked \ {m}, !.out = Append(proc.out, m)]]
  /\ UNCHANGED <<mcpRegistry, mcpThread>>

\* What it wrote before can still be read.
McpDie(c) ==
  /\ mcpOf[c].started /\ mcpOf[c].proc.alive
  /\ mcpOf' = [mcpOf EXCEPT ![c].proc = [@ EXCEPT !.alive = FALSE, !.asked = {}]]
  /\ UNCHANGED <<mcpRegistry, mcpThread>>

McpNext ==
  \/ \E registers \in BOOLEAN : McpEditFile(registers)
  \/ McpEditMemory
  \/ McpCrash
  \/ \E t \in McpThreads :
       \/ \E op \in {"list", "call"} : McpBegin(t, op)
       \/ AlreadyInitialized(t)
       \/ McpSend(t)
       \/ McpReceive(t)
       \/ McpTimeOut(t)
       \/ FailRead(t)
       \/ NotifyInitialized(t)
       \/ McpFinish(t)
  \/ \E c \in McpClients : McpAnswer(c) \/ McpDie(c)

McpSpec == McpInit /\ [][McpNext]_mcpVars

-----------------------------------------------------------------------------

\* A request is answered by the answer to it: never by a late one to an earlier
\* request of the same or another thread that failed, was abandoned or went to
\* a process since replaced (MCPClient.request).
AnswersMatch ==
  \A t \in McpThreads :
    mcpThread[t].pc \in {"notify", "answered"} =>
      mcpThread[t].answer = <<t, mcpThread[t].sent>>
=============================================================================
