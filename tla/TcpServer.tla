-------------------------------- MODULE TcpServer ------------------------------
(***************************************************************************)
(* TcpServer, Acceptor and TcpConnection (src/event_server/network/) with  *)
(* the io threads of EventLoopThread and the kernel's side of the sockets. *)
(* The main thread constructs the server, accepts in its own loop and at   *)
(* last destroys the server; each connection lives on the io loop that     *)
(* getNextLoop gave it.                                                    *)
(*                                                                         *)
(* A handler is one step unless another thread can see it half done:       *)
(* newConnection posts connectEstablished, then stores the connection in   *)
(* connections_; removeConnection, on an io thread, looks it up there and  *)
(* erases it.  Nothing guards the map.                                     *)
(***************************************************************************)
EXTENDS EventLoopThread, FiniteSetsExt

CONSTANTS
    Clients,    \* the peers, each connects once
    Nobody,
    MaxBytes,   \* bound: the bytes all clients send together
    FdLimits    \* the limits there may be on descriptors, for idleFd_ and connections together

ASSUME ServerAssumption ==
    /\ IsFiniteSet(Clients) /\ Clients \cap {Nobody, Ready} = {} /\ Nobody \notin Threads
    /\ MaxBytes \in Nat /\ FdLimits \subseteq Nat \ {0}

(* The bytes of a client are numbered from 1.  Of those it sent, the       *)
(* socket holds got + 1 .. sent and inputBuffer_ retrieved + 1 .. got.     *)
VARIABLES
    \* the kernel and the peers
    peer,      \* "away", "connected", "fin" after its shutdown, "rst" after a reset
    backlog,   \* the connections not yet accepted
    maxFds,    \* the limit on descriptors, one of FdLimits
    sent,
    soError,   \* the socket's pending error
    tx,        \* what was written to the socket
    sock,      \* the server's descriptor: "none", "open", "closed"
    \* the server
    main,         \* the main thread: "acceptor", "pool", "loop", "post", "insert", "inserting", "refuse", "gone"
    started_,
    acceptSocket_, \* the listening socket: "none", "open", "closed"
    conn,         \* the local conn of newConnection
    loopIndex_,   \* EventLoopThreadPool::loopIndex_
    connections_, \* the clients whose connection is in the map
    idleFd_,      \* Acceptor::idleFd_ is open
    accept_event_, \* the Acceptor's event is in the main loop's base
    \* the connections
    ioLoop,       \* TcpConnection::dispatcher_
    state_,
    registered,   \* readEventPtr_ is in the loop's event base
    got, retrieved

kernelVars == <<peer, backlog, maxFds, sent, soError>>
acceptorVars == <<started_, acceptSocket_, idleFd_, accept_event_>>
mainVars == <<main, conn, loopIndex_, ioLoop, acceptorVars>>
bufferVars == <<got, retrieved, tx>>
connVars == <<sock, state_, registered, bufferVars>>
vars == <<threadVars, kernelVars, mainVars, connections_, connVars>>

Init ==
    /\ ThreadsInit
    /\ peer = [c \in Clients |-> "away"] /\ backlog = <<>> /\ maxFds \in FdLimits
    /\ sent = [c \in Clients |-> 0]
    /\ soError = [c \in Clients |-> FALSE]
    /\ sock = [c \in Clients |-> "none"]
    /\ main = "acceptor" /\ conn = Nobody /\ loopIndex_ = 0
    /\ connections_ = {} /\ started_ = 0
    /\ acceptSocket_ = "none" /\ idleFd_ = FALSE /\ accept_event_ = FALSE
    /\ ioLoop = [c \in Clients |-> Nobody]
    /\ state_ = [c \in Clients |-> "none"]
    /\ registered = [c \in Clients |-> FALSE]
    /\ got = [c \in Clients |-> 0] /\ retrieved = [c \in Clients |-> 0]
    /\ tx = [c \in Clients |-> <<>>]

Main(stage) == Unbroken /\ main = stage
OpenFds == Cardinality({c \in Clients : sock[c] = "open"}) + IF idleFd_ THEN 1 ELSE 0

(* ------------------------------ the clients ----------------------------- *)
Connect(c) ==
    /\ Unbroken /\ accept_event_ /\ peer[c] = "away"
    /\ peer' = [peer EXCEPT ![c] = "connected"]
    /\ backlog' = Append(backlog, c)
    /\ UNCHANGED <<threadVars, maxFds, sent, soError, mainVars, connections_, connVars>>

Send(c) ==
    /\ Unbroken /\ peer[c] = "connected" /\ MapThenSumSet(LAMBDA d : sent[d], Clients) < MaxBytes
    /\ sent' = [sent EXCEPT ![c] = @ + 1]
    /\ UNCHANGED <<threadVars, peer, backlog, maxFds, soError, mainVars, connections_, connVars>>

Finish(c) ==
    /\ Unbroken /\ peer[c] = "connected"
    /\ peer' = [peer EXCEPT ![c] = "fin"]
    /\ UNCHANGED <<threadVars, backlog, maxFds, sent, soError, mainVars, connections_, connVars>>

Reset(c) ==
    /\ Unbroken /\ peer[c] \in {"connected", "fin"}
    /\ peer' = [peer EXCEPT ![c] = "rst"]
    /\ soError' = [soError EXCEPT ![c] = TRUE]
    /\ UNCHANGED <<threadVars, backlog, maxFds, sent, mainVars, connections_, connVars>>

ClientStep == \E c \in Clients : Connect(c) \/ Send(c) \/ Finish(c) \/ Reset(c)

PostedTo(l) == {c \in Clients : \E k \in DOMAIN posts[l] : posts[l][k] = c}

close(cs) == sock' = [c \in Clients |-> IF c \in cs THEN "closed" ELSE sock[c]]

(* A connection is destroyed with its last pointer: its event leaves the   *)
(* base and its descriptor is closed.                                      *)
Destroyed(cs) ==
    /\ close(cs)
    /\ registered' = [c \in Clients |-> IF c \in cs THEN FALSE ELSE registered[c]]

(* --------------------------- the main thread ---------------------------- *)
(* TcpServer() makes the Acceptor, then the pool's threads, in the order   *)
(* the members are declared in, and starts the pool; start() listens and   *)
(* runs the loop; ~TcpServer joins the threads of the pool, then the       *)
(* Acceptor goes.                                                          *)

(* ::socket may fail; the code says so on stdout, and goes on with -1.     *)
createNonblockingOrDie == {0, -1}

(* What the options come to: nobody asks whether setsockopt did it.        *)
setReuseAddr(on) == {on, FALSE}
setReusePort(on) == {on, FALSE}

(* ::bind: the address may be free, left behind by an earlier server, or   *)
(* have a listener that shares it or does not.                             *)
Binds(sockfd, address, reuseaddr, reuseport) ==
    /\ sockfd >= 0
    /\ \/ address = "free"
       \/ address = "left" /\ reuseaddr
       \/ address = "shared" /\ reuseport

(* Here it is LOG(FATAL).                                                  *)
bindOrDie(sockfd, address, reuseaddr, reuseport) ==
    fault' = IF Binds(sockfd, address, reuseaddr, reuseport) THEN fault ELSE "not bound"

Acceptor(option, address) ==
    /\ \E sockfd \in createNonblockingOrDie, reuseaddr \in setReuseAddr(TRUE),
          reuseport \in setReusePort(option = "kReusePort") :
              bindOrDie(sockfd, address, reuseaddr, reuseport)
    /\ acceptSocket_' = "open" /\ idleFd_' = TRUE

(* The members are constructed in the order of their declaration           *)
(* (TcpServer.h:93-94), so the Acceptor comes before the pool's threads.   *)
MakeAcceptor ==
    /\ Main("acceptor") /\ main' = "pool"
    /\ \E option \in {"kNoReusePort", "kReusePort"}, address \in {"free", "left", "shared", "taken"} :
          Acceptor(option, address)
    /\ UNCHANGED <<maker, thread, loop_, granted, looping, posts, exiting, busy, kernelVars, conn,
                   loopIndex_, ioLoop, started_, accept_event_, connections_, connVars>>

(* The pool's threads are made and run, and at last told to exit and       *)
(* joined.                                                                 *)
MakePool ==
    /\ Main("pool") /\ PoolStep
    /\ UNCHANGED <<kernelVars, mainVars, connections_, connVars>>

(* ::listen may fail; the code says so on stdout, whatever the name says.  *)
listenOrDie == {0, -1}

SocketListens == {rtn >= 0 : rtn \in listenOrDie}

(* Acceptor::listen: no event when the socket does not listen.             *)
listen == accept_event_' \in SocketListens

(* started_.getAndSet(1): a second start() returns at once.                *)
getAndSet(old) == started_ = old /\ started_' = 1

start ==
    /\ Main("pool") /\ Maker("started", 1)
    /\ getAndSet(0)
    /\ listen
    /\ main' = "loop"
    /\ UNCHANGED <<threadVars, kernelVars, conn, loopIndex_, ioLoop, acceptSocket_, idleFd_,
                   connections_, connVars>>

(* The main loop was told to exit: start() returns.  Its caller may end    *)
(* the io loops, by threadPool(), and wait for them.                       *)
StartReturns ==
    /\ Main("loop") /\ main' = "pool"
    /\ UNCHANGED <<threadVars, kernelVars, conn, loopIndex_, ioLoop, acceptorVars, connections_, connVars>>

EndLoops ==
    /\ Main("pool") /\ AskExits
    /\ UNCHANGED <<kernelVars, mainVars, connections_, connVars>>

(* A descriptor, or an errno: the process may be out of descriptors, the   *)
(* connection may be lost (ECONNABORTED, and here also EPROTO and EPERM),  *)
(* or the call fails and leaves it in the backlog (EINTR, and here also    *)
(* EAGAIN and the unexpected ones, of which only a message is left).       *)
accept ==
    (IF OpenFds < maxFds THEN {"connfd"} ELSE {"EMFILE"}) \cup {"ECONNABORTED", "EINTR"}

(* Acceptor::handleRead is called with a connection in the backlog.        *)
CanAccept(result) ==
    Main("loop") /\ accept_event_ /\ backlog # <<>> /\ result \in accept

(* A slip: the loop is chosen by the connections there are now.            *)
getNextLoopByCount == Loops[(Cardinality(connections_) % Len(Loops)) + 1]

getNextLoop == getLoop(Loops[(loopIndex_ % Len(Loops)) + 1])

(* TcpConnection(): the connection has its loop and its socket.            *)
TcpConnection(c, loop) ==
    /\ ioLoop' = [ioLoop EXCEPT ![c] = loop]
    /\ state_' = [state_ EXCEPT ![c] = "kConnecting"]
    /\ sock' = [sock EXCEPT ![c] = "open"]

(* newConnection up to its second post; the first posts nothing to do, and *)
(* goes through whatever pointer there is.                                 *)
newConnection(c) ==
    /\ fault' = IF getNextLoop = NoLoop THEN "null loop" ELSE fault
    /\ TcpConnection(c, getNextLoop)
    /\ loopIndex_' = loopIndex_ + 1
    /\ conn' = c /\ main' = "post"

Accept ==
    /\ CanAccept("connfd")
    /\ newConnection(Head(backlog))
    /\ backlog' = Tail(backlog)
    /\ UNCHANGED <<maker, thread, loop_, granted, looping, posts, exiting, busy, peer, maxFds, sent, soError, acceptorVars, connections_,
                   registered, bufferVars>>

(* handleRead looks for EMFILE alone: the connection is gone, ...          *)
AcceptAborted ==
    /\ CanAccept("ECONNABORTED")
    /\ sock' = [sock EXCEPT ![Head(backlog)] = "closed"]
    /\ backlog' = Tail(backlog)
    /\ UNCHANGED <<threadVars, peer, maxFds, sent, soError, mainVars, connections_,
                   state_, registered, bufferVars>>

(* ... or waits for the next event.                                        *)
AcceptFails == CanAccept("EINTR") /\ UNCHANGED vars

PostEstablished ==
    /\ Main("post")
    /\ posts' = [posts EXCEPT ![ioLoop[conn]] = Append(@, conn)]
    /\ main' = "insert"
    /\ UNCHANGED <<maker, thread, loop_, granted, looping, exiting, busy, fault, kernelVars,
                   conn, loopIndex_, ioLoop, acceptorVars, connections_, connVars>>

(* connections_[connName] = std::move(conn), which takes its time.         *)
InTable == {l \in Threads : busy[l] # "no"}

BeginInsert ==
    /\ Main("insert")
    /\ main' = "inserting"
    /\ fault' = IF InTable # {} THEN "table race" ELSE fault
    /\ UNCHANGED <<maker, thread, loop_, granted, looping, posts, exiting, busy, kernelVars,
                   conn, loopIndex_, ioLoop, acceptorVars, connections_, connVars>>

Insert ==
    /\ Main("inserting")
    /\ connections_' = connections_ \cup {conn}
    /\ conn' = Nobody /\ main' = "loop"
    /\ UNCHANGED <<threadVars, kernelVars, loopIndex_, ioLoop, acceptorVars, connVars>>

(* EMFILE: the spare descriptor makes room to accept one connection and    *)
(* close it at once, then it is opened again.                              *)
OutOfFds ==
    /\ CanAccept("EMFILE")
    /\ idleFd_' = FALSE /\ main' = "refuse"
    /\ UNCHANGED <<threadVars, kernelVars, conn, loopIndex_, ioLoop, started_, acceptSocket_,
                   accept_event_, connections_, connVars>>

(* A slip: the spare descriptor is not opened again.                       *)
RefuseKeepsNoSpare ==
    /\ Main("refuse")
    /\ sock' = [sock EXCEPT ![Head(backlog)] = "closed"]
    /\ backlog' = Tail(backlog) /\ main' = "loop"
    /\ UNCHANGED <<threadVars, peer, maxFds, sent, soError, conn, loopIndex_, ioLoop, acceptorVars,
                   connections_, state_, registered, bufferVars>>

Refuse ==
    /\ Main("refuse")
    /\ sock' = [sock EXCEPT ![Head(backlog)] = "closed"]
    /\ backlog' = Tail(backlog)
    /\ idleFd_' = TRUE /\ main' = "loop"
    /\ UNCHANGED <<threadVars, peer, maxFds, sent, soError, conn, loopIndex_, ioLoop, started_,
                   acceptSocket_, accept_event_, connections_, state_, registered, bufferVars>>

(* The server is destroyed.  Connections whose event an io thread may be   *)
(* about to run, or whose loop is gone, are destroyed here, on the wrong   *)
(* thread, without waiting for it.  A connection that waits to be          *)
(* established is kept by the posted callback.                             *)
Destroy ==
    /\ Main("pool") /\ (Maker("started", 1) \/ Maker("waited", 1))
    /\ fault' = IF \E c \in Clients : registered[c] THEN "destroyed alive" ELSE fault
    /\ connections_' = {}
    /\ maker' = At("exit", 1)
    /\ UNCHANGED <<thread, loop_, granted, looping, posts, exiting, busy, kernelVars,
                   mainVars, connVars>>

CloseSocket == acceptSocket_' = "closed"

Gone ==
    /\ Main("pool") /\ Maker("joined", 1)
    /\ main' = "gone" /\ idleFd_' = FALSE /\ accept_event_' = FALSE /\ CloseSocket
    /\ UNCHANGED <<threadVars, kernelVars, conn, loopIndex_, ioLoop, started_, connections_, connVars>>

MainStep ==
    \/ MakeAcceptor \/ MakePool \/ start \/ Accept \/ AcceptAborted \/ AcceptFails
    \/ PostEstablished \/ BeginInsert \/ Insert \/ OutOfFds \/ Refuse \/ Gone

(* ------------------------------ an io thread ---------------------------- *)
LoopStep(i) ==
    /\ ThreadStep(i)
    /\ UNCHANGED <<kernelVars, mainVars, connections_, connVars>>

(* connectEstablished, from the posted callback.  When the map let go of   *)
(* the connection meanwhile, the callback was the last to hold it.         *)
connectEstablished(l) ==
    /\ InLoop(l) /\ posts[l] # <<>> /\ Head(posts[l]) # Ready
    /\ posts' = [posts EXCEPT ![l] = Tail(@)]
    /\ LET c == Head(posts[l]) IN
       /\ state_' = [state_ EXCEPT ![c] = "kConnected"]
       /\ IF c \in connections_ \cup {conn}
          THEN registered' = [registered EXCEPT ![c] = TRUE] /\ UNCHANGED sock
          ELSE Destroyed({c})
    /\ UNCHANGED <<maker, thread, loop_, granted, looping, exiting, busy, fault, kernelVars,
                   mainVars, connections_, bufferVars>>

CanRead(c) == registered[c] /\ InLoop(ioLoop[c])
Numbers(from, n) == [k \in 1 .. n |-> from + k]

(* What one readv brings, and what one write of len bytes takes: perhaps   *)
(* not all.  A full or a reset socket takes nothing.                       *)
readv(c) == got[c] + 1 .. sent[c]
write(c, len) == IF peer[c] = "rst" THEN {0} ELSE 0 .. len

doWriteCompleteDefault(c) == retrieved' = [retrieved EXCEPT ![c] = got'[c]]

(* A slip: what was read is dropped after any write.                       *)
sendDrops(c) ==
    \E n \in write(c, got'[c] - retrieved[c]) :
        /\ tx' = [tx EXCEPT ![c] = @ \o Numbers(retrieved[c], n)]
        /\ doWriteCompleteDefault(c)

(* send(Buffer): write what inputBuffer_ holds.  A write that is complete  *)
(* calls writeCompleteCallback_, which empties inputBuffer_; a short one,  *)
(* or one that is refused, leaves the buffer as it is, for the next time   *)
(* there is input.                                                         *)
send(c) ==
    LET len == got'[c] - retrieved[c] IN
    \E n \in write(c, len) :
        /\ tx' = [tx EXCEPT ![c] = @ \o Numbers(retrieved[c], n)]
        /\ IF n = len THEN doWriteCompleteDefault(c) ELSE UNCHANGED retrieved

doMessageDefault(c) == send(c)

(* handleRead with input. *)
HandleInput(c) ==
    /\ CanRead(c) /\ got[c] < sent[c]
    /\ \E upTo \in readv(c) : got' = [got EXCEPT ![c] = upTo]
    /\ doMessageDefault(c)
    /\ UNCHANGED <<threadVars, kernelVars, mainVars, connections_, sock, state_, registered>>

(* To read the pending error clears it. *)
getSocketError(c) == soError' = [soError EXCEPT ![c] = FALSE]

handleError(c) == getSocketError(c)

(* handleRead with n < 0. *)
ReadFails(c) ==
    /\ CanRead(c) /\ got[c] = sent[c] /\ soError[c]
    /\ handleError(c)
    /\ UNCHANGED <<threadVars, peer, backlog, maxFds, sent, mainVars, connections_, connVars>>

(* n = 0: handleClose, up to where removeConnection goes into the map.     *)
HandleClose(c) ==
    /\ CanRead(c) /\ got[c] = sent[c] /\ ~soError[c] /\ peer[c] \in {"fin", "rst"}
    /\ state_' = [state_ EXCEPT ![c] = "kDisconnected"]
    /\ busy' = [busy EXCEPT ![ioLoop[c]] = "removing"]
    /\ fault' = IF main = "inserting" \/ InTable # {} THEN "table race" ELSE fault
    /\ UNCHANGED <<maker, thread, loop_, granted, looping, posts, exiting, kernelVars,
                   mainVars, connections_, sock, registered, bufferVars>>

(* A slip: the connection stays in the map.                                *)
removeConnectionKeeps(c) ==
    /\ Unbroken /\ registered[c] /\ busy[ioLoop[c]] = "removing" /\ state_[c] = "kDisconnected"
    /\ fault' = IF c \notin connections_ THEN "null connection" ELSE fault
    /\ busy' = [busy EXCEPT ![ioLoop[c]] = "no"]
    /\ UNCHANGED <<maker, thread, loop_, granted, looping, posts, exiting, kernelVars,
                   mainVars, connections_, connVars>>

(* removeConnection and the end of handleClose: the guard was the last     *)
(* pointer.  operator[] gives a null pointer when the connection is not    *)
(* in the map yet, and the next line dereferences it.                      *)
removeConnection(c) ==
    /\ Unbroken /\ registered[c] /\ busy[ioLoop[c]] = "removing" /\ state_[c] = "kDisconnected"
    /\ fault' = IF c \notin connections_ THEN "null connection" ELSE fault
    /\ connections_' = connections_ \ {c}
    /\ Destroyed({c})
    /\ busy' = [busy EXCEPT ![ioLoop[c]] = "no"]
    /\ UNCHANGED <<maker, thread, loop_, granted, looping, posts, exiting, kernelVars,
                   mainVars, state_, bufferVars>>

LoopThread(i) ==
    LoopStep(i) \/ connectEstablished(Loops[i])
ConnectionStep(c) == HandleInput(c) \/ ReadFails(c) \/ HandleClose(c) \/ removeConnection(c)

Next ==
    \/ ClientStep \/ MainStep \/ StartReturns \/ EndLoops \/ Destroy
    \/ \E i \in DOMAIN Loops : LoopThread(i)
    \/ \E c \in Clients : ConnectionStep(c)

(* Each thread runs.  A loop serves every file event that is ready and     *)
(* what is posted to it: the queues of libevent are emptied in order.      *)
(* accept does not fail for ever.                                          *)
Fairness ==
    /\ WF_vars(MainStep)
    /\ \A i \in DOMAIN Loops : WF_vars(LoopThread(i))
    /\ \A c \in Clients : WF_vars(ConnectionStep(c))

Spec == Init /\ [][Next]_vars /\ Fairness

(* ------------------------------ properties ------------------------------ *)
(* A read event fires only for a connection that is established, whose     *)
(* socket is open and that something holds; its handler's assertions on    *)
(* state_ are true whenever it can start.                                  *)
LiveHandlers ==
    Unbroken => \A c \in Clients : registered[c] =>
        /\ sock[c] = "open" /\ (thread[ioLoop[c]] = "loop" \/ exiting[ioLoop[c]])
        /\ c \in connections_ \cup {conn}
        /\ state_[c] = "kConnected" \/ busy[ioLoop[c]] = "removing"

(* No descriptor is lost: each open socket belongs to a connection that    *)
(* something will destroy, the process stays within its limit, the         *)
(* Acceptor has its spare descriptor back before the loop goes on, and     *)
(* nothing is open when the server is gone.                                *)
DescriptorsHeld ==
    Unbroken =>
        /\ OpenFds <= maxFds
        /\ main = "loop" => idleFd_
        /\ \A c \in Clients : sock[c] = "open" =>
              \/ c = conn \/ c \in connections_
              \/ \E l \in Threads : c \in PostedTo(l)
        /\ main = "gone" => OpenFds = 0 /\ acceptSocket_ = "closed"

(* What is dropped from inputBuffer_ was written to the client, in order,  *)
(* whatever short writes there were.                                       *)
NothingLost ==
    \A c \in Clients : \A b \in 1 .. retrieved[c] :
        /\ \E k \in DOMAIN tx[c] : tx[c][k] = b
        /\ \A a \in 1 .. b : \E k, m \in DOMAIN tx[c] : k <= m /\ tx[c][k] = a /\ tx[c][m] = b

(* "New connections are assigned on a round-robin basis" (TcpServer.h):    *)
(* whatever closed in between, no loop was given two more than another.    *)
RoundRobin ==
    LET given(l) == Cardinality({c \in Clients : ioLoop[c] = l})
    IN  \A l, m \in Threads : given(l) <= given(m) + 1

(* The constructor returns, and every io loop has turned by then: nobody   *)
(* waits for a promise that the other keeps back.  Except when the address *)
(* could not be bound, or a thread was faster than the constructor of its  *)
(* own EventLoopThread, which starts it before it constructs the promises  *)
(* (EventLoopThread.h:60-67).                                              *)
ServerStarts ==
    <>((maker.stage = "started" /\ \A l \in Threads : looping[l])
           \/ fault \in {"not bound", "unconstructed"})

(* A client that connected is accepted or refused, also out of descriptors, *)
(* and one that closed or reset its connection gets it closed.             *)
ClientsServed ==
    \A c \in Clients :
        /\ peer[c] # "away" ~> sock[c] # "none" \/ main \in {"pool", "gone"} \/ ~Unbroken
        /\ (peer[c] \in {"fin", "rst"} /\ sock[c] = "open") ~>
              sock[c] = "closed" \/ (\E l \in Threads : exiting[l]) \/ ~Unbroken

(* Once destroyed, the server goes: every io thread is let out of its loop *)
(* and joined, once, whether or not its owner ended the loops and waited   *)
(* for them before.                                                        *)
ServerStops ==
    /\ maker.stage = "wait" ~> maker.stage = "waited" \/ ~Unbroken
    /\ maker.stage = "exit" ~> main = "gone" \/ ~Unbroken

(* "Thread safe." (TcpServer.h:79, removeConnection): a connection can be  *)
(* removed at any time, from the thread it lives on.                       *)
RemoveThreadSafe == fault \notin {"table race", "null connection"}
================================================================================
