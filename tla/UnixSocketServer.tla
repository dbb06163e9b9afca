----------------------------- MODULE UnixSocketServer -----------------------------
(* The server that local programs connect to (ipc/unix_socket_server.cpp): an    *)
(* accept thread, a thread per client, threads of the program that write to all  *)
(* clients (Senders), and a main thread that starts and stops the server.  An    *)
(* action is what one thread does under mutex_, or between two of its blocking   *)
(* calls.  Descriptors are numbers that the kernel gives out again once they are *)
(* closed: a thread that kept one after it released the lock may mean another    *)
(* client by it.                                                                 *)
EXTENDS Naturals, FiniteSets

CONSTANTS Clients,     \* local programs, each of which connects once
          Fds,         \* descriptor numbers
          Senders,     \* threads that call SendToAll, beside the accept thread
          MaxMessages, \* bound: messages of the programs
          Nothing      \* no client, no descriptor, no snapshot

ASSUME FdsAssumption == Fds \subseteq Nat
ASSUME NothingAssumption == Nothing \notin Clients \cup Fds
ASSUME SendersAssumption == "accept" \notin Senders
ASSUME MessagesAssumption == MaxMessages \in Nat

VARIABLES
  main,      \* where the main thread is between Start and the end of Stop
  running,   \* running_
  acceptor,  \* where the accept thread is
  newcomer,  \* the client it has accepted and not yet put into clients_
  link,      \* each program's connection, as the kernel sees it
  fd,        \* the descriptor of each connection that is open
  clients,   \* clients_: whose thread the entry of a descriptor holds
  thread,    \* where the thread of each client is
  leftover,  \* local_clients: what Stop still has to join
  stale,     \* descriptors a sender has dropped and will shut down
  written,   \* messages of programs that were read
  latest,    \* latest_
  current,   \* clients whose sent_version is latest_version_
  unread,    \* the snapshot in each client's socket
  seen       \* the last snapshot each client has read

acceptVars == <<main, running, acceptor, newcomer, leftover>>
clientVars == <<link, fd, clients, thread>>
latestVars == <<latest, current, unread, seen>>
serverVars == <<acceptVars, clientVars, stale, written, latestVars>>

SendThreads == Senders \cup {"accept"}

\* What latest_ may be is up to the endpoint that publishes.
ServerTypeOK ==
  /\ main \in {"off", "started", "closing", "draining", "stopped"}
  /\ running \in BOOLEAN
  /\ acceptor \in {"off", "accept", "insert", "flush", "ended"}
  /\ newcomer \in Clients \cup {Nothing}
  /\ leftover \in SUBSET Clients
  /\ link \in [Clients -> {"absent", "backlog", "up", "gone", "shut"}]
  /\ fd \in [Clients -> Fds \cup {Nothing}]
  /\ clients \in [Fds -> Clients \cup {Nothing}]
  /\ thread \in [Clients -> {"none", "reading", "message", "leaving", "closing", "ended"}]
  /\ stale \in [SendThreads -> SUBSET Fds]
  /\ written \in 0..MaxMessages
  /\ current \in SUBSET Clients

ServerInit(snapshot) ==
  /\ main = "off" /\ running = FALSE /\ acceptor = "off" /\ newcomer = Nothing /\ leftover = {}
  /\ link = [c \in Clients |-> "absent"]
  /\ fd = [c \in Clients |-> Nothing]
  /\ clients = [f \in Fds |-> Nothing]
  /\ thread = [c \in Clients |-> "none"]
  /\ stale = [t \in SendThreads |-> {}]
  /\ written = 0
  /\ latest = snapshot /\ current = Clients
  /\ unread = [c \in Clients |-> Nothing]
  /\ seen = [c \in Clients |-> Nothing]

Served == {c \in Clients : \E f \in Fds : clients[f] = c}
FreeFds == {f \in Fds : \A c \in Clients : fd[c] # f}
Lowest(F) == CHOOSE f \in F : \A g \in F : f <= g

-------------------------------------------------------------------------------
(* The programs and the kernel. *)

Connect(c) ==
  /\ link[c] = "absent"
  /\ main = "started" /\ running
  /\ link' = [link EXCEPT ![c] = "backlog"]
  /\ UNCHANGED <<acceptVars, fd, clients, thread, stale, written, latestVars>>

ClientReads(c) ==
  /\ unread[c] # Nothing /\ link[c] \in {"up", "shut"}
  /\ seen' = [seen EXCEPT ![c] = unread[c]]
  /\ unread' = [unread EXCEPT ![c] = Nothing]
  /\ UNCHANGED <<acceptVars, clientVars, stale, written, latest, current>>

ClientLeaves(c) ==
  /\ link[c] \in {"backlog", "up", "shut"}
  /\ link' = [link EXCEPT ![c] = "gone"]
  /\ unread' = [unread EXCEPT ![c] = Nothing]
  /\ UNCHANGED <<acceptVars, fd, clients, thread, stale, written, latest, current, seen>>

-------------------------------------------------------------------------------
(* SendToAll and what it is called with. *)

\* Variant: the connections of the dropped clients are left open.
DropForgets(t, failed) ==
  /\ clients' = [f \in Fds |-> IF clients[f] \in failed THEN Nothing ELSE clients[f]]
  /\ UNCHANGED stale

\* The entries of the clients a write failed for are erased, their threads detached;
\* their descriptors are shut down by thread t once it has released the lock.
Drop(t, failed) ==
  /\ clients' = [f \in Fds |-> IF clients[f] \in failed THEN Nothing ELSE clients[f]]
  /\ stale' = [stale EXCEPT ![t] = {f \in Fds : clients[f] \in failed}]

ShutdownStale(t) ==
  /\ stale[t] # {}
  /\ link' = [c \in Clients |-> IF fd[c] \in stale[t] /\ link[c] = "up" THEN "shut" ELSE link[c]]
  /\ stale' = [stale EXCEPT ![t] = {}]
  /\ UNCHANGED <<acceptVars, fd, clients, thread, written, latestVars>>

\* SendLatest: nothing to send, or a snapshot still unread, counts as done; sending to a
\* connection that is down fails.
SendLatest(c) == c \notin current /\ unread[c] = Nothing /\ link[c] = "up"
LatestFails(c) == c \notin current /\ unread[c] = Nothing /\ link[c] # "up"

FlushLatest(t) ==
  LET sent == {c \in Served : SendLatest(c)} IN
  /\ unread' = [c \in Clients |-> IF c \in sent THEN latest ELSE unread[c]]
  /\ current' = current \cup sent
  /\ Drop(t, {c \in Served : LatestFails(c)})
  /\ UNCHANGED <<link, fd, thread, written, latest, seen>>

\* The first part of PublishLatest; FlushLatest follows under the lock taken anew.
SetLatest(snapshot) ==
  /\ latest' = snapshot
  /\ current' = {}
  /\ UNCHANGED <<acceptVars, clientVars, stale, written, unread, seen>>

\* Write: a client that is down fails, and so may one that blocks for 200 ms.
Write(t) ==
  \E failed \in SUBSET Served :
    /\ \A c \in Served : link[c] # "up" => c \in failed
    /\ Drop(t, failed)
    /\ UNCHANGED <<acceptVars, link, fd, thread, written, latestVars>>

-------------------------------------------------------------------------------
(* The accept thread. *)

Accept(c) ==
  /\ acceptor = "accept" /\ running /\ stale["accept"] = {}
  /\ link[c] \in {"backlog", "gone"} /\ thread[c] = "none"
  /\ FreeFds # {}
  /\ fd' = [fd EXCEPT ![c] = Lowest(FreeFds)]
  /\ link' = [link EXCEPT ![c] = IF @ = "backlog" THEN "up" ELSE @]
  /\ newcomer' = c
  /\ acceptor' = "insert"
  /\ UNCHANGED <<main, running, leftover, clients, thread, stale, written, latestVars>>

\* HandleClient's loop tests right before each read.
LoopTest == IF running THEN "reading" ELSE "leaving"

Insert ==
  /\ acceptor = "insert"
  /\ clients' = [clients EXCEPT ![fd[newcomer]] = newcomer]
  /\ thread' = [thread EXCEPT ![newcomer] = LoopTest]
  /\ current' = IF latest = Nothing THEN current ELSE current \ {newcomer}
  /\ newcomer' = Nothing
  /\ acceptor' = "flush"
  /\ UNCHANGED <<main, running, leftover, link, fd, stale, written, latest, unread, seen>>

AcceptFlush ==
  /\ acceptor = "flush"
  /\ acceptor' = "accept"
  /\ FlushLatest("accept")
  /\ UNCHANGED <<main, running, newcomer, leftover>>

\* accept fails once Stop has closed the listening socket.
AcceptEnds ==
  /\ acceptor = "accept" /\ ~running /\ stale["accept"] = {}
  /\ acceptor' = "ended"
  /\ UNCHANGED <<main, running, newcomer, leftover, clientVars, stale, written, latestVars>>

AcceptStep == Insert \/ AcceptFlush \/ AcceptEnds \/ ShutdownStale("accept")

-------------------------------------------------------------------------------
(* HandleClient. *)

\* What a program wrote may be read after it has left.
ReadMessage(c) ==
  /\ thread[c] = "reading" /\ written < MaxMessages
  /\ written' = written + 1
  /\ thread' = [thread EXCEPT ![c] = "message"]
  /\ UNCHANGED <<acceptVars, link, fd, clients, stale, latestVars>>

ReadEnds(c) ==
  /\ thread[c] = "reading" /\ link[c] # "up"
  /\ thread' = [thread EXCEPT ![c] = "leaving"]
  /\ UNCHANGED <<acceptVars, link, fd, clients, stale, written, latestVars>>

\* The callbacks run under the lock; what they do is up to those who registered them.
RunCallbacks(c) ==
  /\ thread[c] = "message"
  /\ thread' = [thread EXCEPT ![c] = LoopTest]
  /\ UNCHANGED <<acceptVars, link, fd, clients, stale, written, latestVars>>

\* Variant: the descriptor is closed before the entry is erased.
EraseCloses(c) ==
  /\ thread[c] = "leaving"
  /\ fd' = [fd EXCEPT ![c] = Nothing]
  /\ thread' = [thread EXCEPT ![c] = "closing"]
  /\ UNCHANGED <<acceptVars, link, clients, stale, written, latestVars>>

\* The thread erases the entry of its descriptor, detaching itself if the entry is its own.
EraseClient(c) ==
  /\ thread[c] = "leaving"
  /\ clients' = [clients EXCEPT ![fd[c]] = Nothing]
  /\ thread' = [thread EXCEPT ![c] = "closing"]
  /\ UNCHANGED <<acceptVars, link, fd, stale, written, latestVars>>

CloseClient(c) ==
  /\ thread[c] = "closing"
  /\ fd' = [fd EXCEPT ![c] = Nothing]
  /\ link' = [link EXCEPT ![c] = "gone"]
  /\ unread' = [unread EXCEPT ![c] = Nothing]
  /\ thread' = [thread EXCEPT ![c] = "ended"]
  /\ UNCHANGED <<acceptVars, clients, stale, written, latest, current, seen>>

HandleClient(c) == ReadEnds(c) \/ EraseClient(c) \/ CloseClient(c)

-------------------------------------------------------------------------------
(* Start and Stop. *)

\* The socket, bind or listen may fail; the server then has no thread.
Start ==
  /\ main = "off"
  /\ main' = "started"
  /\ \/ running' = TRUE /\ acceptor' = "accept"
     \/ UNCHANGED <<running, acceptor>>
  /\ UNCHANGED <<newcomer, leftover, clientVars, stale, written, latestVars>>

\* Programs that nobody has accepted yet are refused.
StopFlag ==
  /\ main = "started"
  /\ running' = FALSE
  /\ link' = [c \in Clients |-> IF link[c] = "backlog" THEN "gone" ELSE link[c]]
  /\ main' = "closing"
  /\ UNCHANGED <<acceptor, newcomer, leftover, fd, clients, thread, stale, written, latestVars>>

\* Past the join of the accept thread.
StopSwap ==
  /\ main = "closing" /\ acceptor \in {"off", "ended"}
  /\ link' = [c \in Clients |-> IF c \in Served /\ link[c] = "up" THEN "shut" ELSE link[c]]
  /\ leftover' = Served
  /\ clients' = [f \in Fds |-> Nothing]
  /\ main' = "draining"
  /\ UNCHANGED <<running, acceptor, newcomer, fd, thread, stale, written, latestVars>>

\* A client's thread joined; its descriptor, which it has closed, is closed once more.
StopJoin(c) ==
  /\ main = "draining" /\ c \in leftover /\ thread[c] = "ended"
  /\ leftover' = leftover \ {c}
  /\ UNCHANGED <<main, running, acceptor, newcomer, clientVars, stale, written, latestVars>>

StopDone ==
  /\ main = "draining" /\ leftover = {}
  /\ main' = "stopped"
  /\ UNCHANGED <<running, acceptor, newcomer, leftover, clientVars, stale, written, latestVars>>

StopStep == StopSwap \/ StopDone \/ \E c \in Clients : StopJoin(c)

ProgramStep(c) == Connect(c) \/ ReadMessage(c) \/ ClientReads(c) \/ ClientLeaves(c)
ServerStep ==
  \/ AcceptStep \/ \E c \in Clients : Accept(c) \/ HandleClient(c)
  \/ \E t \in Senders : ShutdownStale(t)
  \/ Start \/ StopFlag \/ StopStep

-------------------------------------------------------------------------------
(* Properties. *)

\* An entry of clients_ is about the connection that has the descriptor now, and about
\* a thread that has not left: no descriptor is written to or shut down under the lock
\* after it was closed, and Stop joins exactly threads that it will not find detached
\* (HandleClient erases before it closes).
EntriesLive ==
  \A f \in Fds : clients[f] # Nothing =>
    /\ fd[clients[f]] = f
    /\ thread[clients[f]] \in {"reading", "message", "leaving"}

\* A new client never finds an entry for its descriptor, whose thread it would overwrite
\* and so end the program (AcceptLoop).
NewcomerIsNew ==
  acceptor = "insert" =>
    /\ newcomer \in Clients /\ fd[newcomer] \in Fds /\ thread[newcomer] = "none"
    /\ clients[fd[newcomer]] = Nothing

\* Two connections never share a descriptor, and a thread has its own open until it
\* closes it.
OneOwnerEach ==
  /\ \A c, d \in Clients : c # d /\ fd[c] # Nothing => fd[c] # fd[d]
  /\ \A c \in Clients : thread[c] \in {"reading", "message", "leaving", "closing"} => fd[c] \in Fds

ServerInv == ServerTypeOK /\ EntriesLive /\ NewcomerIsNew /\ OneOwnerEach
=============================================================================
