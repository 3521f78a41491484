----------------------------- MODULE TcpServerProofs ---------------------------
(***************************************************************************)
(* Proofs about TcpServer: the invariants of its runs, for any number of   *)
(* loops, clients, bytes and descriptors.                                  *)
(***************************************************************************)
EXTENDS TcpServer, FiniteSetTheorems, TLAPS

(* --------------------------- the invariant ------------------------------ *)
(* What the owner of the pool is at: making the threads, starting them, or *)
(* taking them down.                                                       *)
Making == {"construct", "members", "future"}
Starting == {"run", "turn", "started"}
Destroying == {"exit", "join", "joined"}
Ending == {"wait", "waited"} \cup Destroying

(* What the main thread is at inside start(). *)
Inserting == {"post", "insert", "inserting"}
Serving == {"loop", "refuse"} \cup Inserting

ThreadTypes ==
    /\ maker \in [stage : Making \cup Starting \cup Ending, i : DOMAIN Loops]
    /\ thread \in [Threads -> {"none", "spawned", "waits", "loop", "left", "finished"}]
    /\ loop_ \in [Threads -> BOOLEAN]
    /\ posts \in [Threads -> Seq(Clients \cup {Ready})]
    /\ exiting \in [Threads -> BOOLEAN]
    /\ busy \in [Threads -> {"no", "removing"}]

KernelTypes ==
    /\ peer \in [Clients -> {"away", "connected", "fin", "rst"}]
    /\ backlog \in Seq(Clients) /\ (main = "refuse" => backlog # <<>>)
    /\ maxFds \in Nat \ {0}
    /\ sock \in [Clients -> {"none", "open", "closed"}]

ServerTypes ==
    /\ main \in {"acceptor", "pool", "gone"} \cup Serving
    /\ conn \in Clients \cup {Nobody} /\ (conn \in Clients <=> main \in Inserting)
    /\ loopIndex_ \in Nat
    /\ connections_ \subseteq Clients
    /\ idleFd_ \in BOOLEAN
    /\ ioLoop \in [Clients -> Threads \cup {Nobody, NoLoop}]
    /\ state_ \in [Clients -> {"none", "kConnecting", "kConnected", "kDisconnected"}]
    /\ registered \in [Clients -> BOOLEAN]

TypeOK == ThreadTypes /\ KernelTypes /\ ServerTypes

(* The threads of the pool: where each is, given where the owner is.       *)
PoolInv ==
    /\ maker.stage \in Making => \A j \in DOMAIN Loops :
          /\ j < maker.i => loop_[Loops[j]]
          /\ j > maker.i \/ (maker.stage = "construct" /\ j = maker.i) => thread[Loops[j]] = "none"
    /\ \A l \in Threads :
          /\ loop_[l] => thread[l] \notin {"none", "spawned"}
          /\ maker.stage \in Making \/ loop_[l] \/ exiting[l]
          /\ exiting[l] => maker.stage \in Ending
          /\ thread[l] \in {"left", "finished"} => exiting[l]
          /\ thread[l] \in {"none", "spawned", "left", "finished"} => posts[l] = <<>>
    /\ maker.stage \in {"exit", "join"} =>
          \A j \in DOMAIN Loops : j < maker.i => thread[Loops[j]] = "finished"
    /\ maker.stage = "joined" => \A l \in Threads : thread[l] = "finished"

(* The main thread serves between the start of the pool and its end.       *)
MainInv ==
    /\ main \in Serving => maker.stage = "started"
    /\ main = "gone" => maker.stage = "joined" /\ ~idleFd_ /\ acceptSocket_ = "closed"
    /\ main \in {"acceptor", "refuse", "gone"} \/ idleFd_

Posted(c) == \E l \in Threads : \E k \in DOMAIN posts[l] : posts[l][k] = c
BeforePost(c) == main = "post" /\ conn = c

(* A client is in the backlog once, and only before it has a socket here.  *)
BacklogInv ==
    /\ \A j, k \in DOMAIN backlog : backlog[j] = backlog[k] => j = k
    /\ \A k \in DOMAIN backlog : peer[backlog[k]] # "away" /\ sock[backlog[k]] = "none"
    /\ \A c \in Clients :
          /\ peer[c] = "away" => sock[c] = "none"
          /\ sock[c] = "none" => ioLoop[c] = Nobody

(* A connection waits once, in the loop it was given, to be established.   *)
PostsInv ==
    \A l \in Threads : \A k \in DOMAIN posts[l] : posts[l][k] \in Clients =>
        LET c == posts[l][k]
        IN  /\ ioLoop[c] = l /\ sock[c] = "open" /\ ~registered[c] /\ ~BeforePost(c)
            /\ \A j \in DOMAIN posts[l] : posts[l][j] = c => j = k

(* A connection with a socket is on its way into its loop or in it; there  *)
(* the server holds it, and at most one of a loop is being removed.        *)
ConnInv ==
    /\ \A c \in Clients :
          /\ sock[c] = "open" => ioLoop[c] \in Threads /\ (registered[c] \/ Posted(c) \/ BeforePost(c))
          /\ c \in connections_ \cup {conn} => sock[c] = "open"
          /\ registered[c] =>
                /\ sock[c] = "open" /\ ~BeforePost(c)
                /\ c \in connections_ \cup {conn}
                /\ thread[ioLoop[c]] = "loop" \/ exiting[ioLoop[c]]
                /\ \/ state_[c] = "kConnected"
                   \/ state_[c] = "kDisconnected" /\ busy[ioLoop[c]] = "removing"
    /\ \A c, d \in Clients :
          registered[c] /\ registered[d] /\ ioLoop[c] = ioLoop[d]
             /\ state_[c] = "kDisconnected" /\ state_[d] = "kDisconnected" => c = d
    /\ conn \notin connections_
    /\ maker.stage \in Destroying => connections_ = {} /\ \A c \in Clients : ~registered[c]

(* The spare descriptor always fits beside those of the connections.       *)
Open == {c \in Clients : sock[c] = "open"}
FdInv == Cardinality(Open) < maxFds

IInv == Unbroken => PoolInv /\ MainInv /\ BacklogInv /\ PostsInv /\ ConnInv /\ FdInv

(* ------------------------------- types --------------------------------- *)
LEMMA LoopsFacts ==
    /\ Len(Loops) \in Nat /\ Len(Loops) >= 1 /\ DOMAIN Loops = 1 .. Len(Loops)
    /\ \A i \in DOMAIN Loops : Loops[i] \in Threads
    /\ \A l \in Threads : \E i \in DOMAIN Loops : l = Loops[i]
    /\ \A i, j \in DOMAIN Loops : Loops[i] = Loops[j] => i = j
    /\ \A l \in Threads : l # NoLoop /\ l # Nobody
BY LoopsAssumption, ServerAssumption DEF Threads

LEMMA AfterFacts ==
    ASSUME NEW stage, NEW next, NEW i \in DOMAIN Loops
    PROVE  \/ i + 1 \in DOMAIN Loops /\ After(stage, i, next) = At(stage, i + 1)
           \/ i = Len(Loops) /\ After(stage, i, next) = At(next, 1)
BY LoopsFacts DEF After

LEMMA StageFacts ==
    ASSUME NEW s \in Making \cup Starting \cup Ending, NEW i \in DOMAIN Loops
    PROVE  At(s, i) \in [stage : Making \cup Starting \cup Ending, i : DOMAIN Loops]
BY DEF At

LEMMA InitTypes == Init => TypeOK
<1> SUFFICES ASSUME Init PROVE TypeOK
  OBVIOUS
<1>1. ThreadTypes
  <2>1. At("construct", 1) \in [stage : Making \cup Starting \cup Ending, i : DOMAIN Loops]
    BY LoopsFacts, StageFacts DEF Making
  <2>2. <<>> \in Seq(Clients \cup {Ready})
    BY SMT
  <2> QED
    BY <2>1, <2>2 DEF Init, ThreadsInit, ThreadTypes
<1>2. KernelTypes
  BY ServerAssumption DEF Init, KernelTypes
<1>3. ServerTypes
  BY ServerAssumption DEF Init, ServerTypes, Serving, Inserting
<1> QED
  BY <1>1, <1>2, <1>3 DEF TypeOK

LEMMA PoolTypes ==
    ASSUME ThreadTypes, PoolStep
    PROVE  ThreadTypes'
<1> PICK i \in DOMAIN Loops :
        Spawn(i) \/ ConstructMembers(i) \/ GetLoop(i) \/ Grant(i) \/ SeesLoopTurn(i)
            \/ Wait(i) \/ AskExit(i) \/ Join(i)
  BY DEF PoolStep
<1> DEFINE Stages == Making \cup Starting \cup Ending
<1>1. maker' \in [stage : Stages, i : DOMAIN Loops]
  <2>1. CASE Spawn(i) \/ ConstructMembers(i) \/ Grant(i) \/ AskExit(i)
    BY <2>1, StageFacts DEF Spawn, ConstructMembers, Grant, AskExit, Making, Starting, Ending, Destroying
  <2>2. CASE GetLoop(i) \/ SeesLoopTurn(i) \/ Wait(i) \/ Join(i)
    BY <2>2, StageFacts, AfterFacts, LoopsFacts
       DEF GetLoop, SeesLoopTurn, Wait, Join, Making, Starting, Ending, Destroying
  <2> QED
    BY <2>1, <2>2
<1>2. maker' \in [stage : Making \cup Starting \cup Ending, i : DOMAIN Loops]
  BY <1>1
<1>3. Loops[i] \in Threads
  BY LoopsFacts
<1>4. CASE Spawn(i)
  <2>1. thread' = [thread EXCEPT ![Loops[i]] = "spawned"] /\ UNCHANGED <<loop_, posts, exiting, busy>>
    BY <1>4 DEF Spawn
  <2> QED BY <1>2, <1>3, <2>1 DEF ThreadTypes
<1>5. CASE GetLoop(i)
  BY <1>2, <1>3, <1>5 DEF ThreadTypes, GetLoop
<1>6. CASE AskExit(i)
  BY <1>2, <1>3, <1>6 DEF ThreadTypes, AskExit
<1>7. CASE ConstructMembers(i) \/ Grant(i) \/ SeesLoopTurn(i) \/ Wait(i) \/ Join(i)
  <2>1. UNCHANGED <<thread, loop_, posts, exiting, busy>>
    BY <1>7 DEF ConstructMembers, Grant, SeesLoopTurn, Wait, Join
  <2> QED BY <1>2, <2>1 DEF ThreadTypes
<1> QED
  BY <1>4, <1>5, <1>6, <1>7

LEMMA NextLoop ==
    ASSUME ServerTypes
    PROVE  /\ (loopIndex_ % Len(Loops)) + 1 \in DOMAIN Loops
           /\ getNextLoop \in Threads \cup {NoLoop}
           /\ getNextLoop # NoLoop => getNextLoop = Loops[(loopIndex_ % Len(Loops)) + 1]
<1>1. (loopIndex_ % Len(Loops)) + 1 \in DOMAIN Loops
  BY LoopsFacts DEF ServerTypes
<1> QED
  BY <1>1, LoopsFacts DEF getNextLoop, getLoop

(* What the steps of the other threads and of the kernel leave alone.      *)
LEMMA QuietSteps ==
    /\ ClientStep => UNCHANGED <<threadVars, mainVars, connections_, connVars, maxFds>>
    /\ AcceptFails => UNCHANGED <<threadVars, kernelVars, mainVars, connections_, connVars>>
    /\ AcceptAborted \/ AcceptFails \/ StartReturns \/ start \/ Insert \/ OutOfFds \/ Refuse \/ Gone => UNCHANGED threadVars
    /\ \A c \in Clients : HandleInput(c) => UNCHANGED <<threadVars, kernelVars, mainVars, connections_, sock, state_, registered>>
    /\ \A c \in Clients : ReadFails(c) => UNCHANGED <<threadVars, peer, backlog, maxFds, sent, mainVars, connections_, connVars>>
BY DEF ClientStep, Connect, Send, Finish, Reset, AcceptAborted, AcceptFails, vars, StartReturns, start, Insert, OutOfFds,
       Refuse, Gone, HandleInput, ReadFails

(* A connection destroyed.                                                 *)
Closing(c) ==
    /\ sock' = [sock EXCEPT ![c] = "closed"]
    /\ registered' = [registered EXCEPT ![c] = FALSE]

LEMMA DestroyedFacts ==
    ASSUME KernelTypes, ServerTypes, NEW c \in Clients, Destroyed({c})
    PROVE  Closing(c)
<1>1. sock' = [d \in Clients |-> IF d = c THEN "closed" ELSE sock[d]]
  BY DEF Destroyed, close
<1>2. registered' = [d \in Clients |-> IF d = c THEN FALSE ELSE registered[d]]
  BY DEF Destroyed
<1>3. sock' = [sock EXCEPT ![c] = "closed"]
  BY <1>1 DEF KernelTypes
<1>4. registered' = [registered EXCEPT ![c] = FALSE]
  BY <1>2 DEF ServerTypes
<1> QED
  BY <1>3, <1>4 DEF Closing

(* connectEstablished, with the client at the head of the posts.           *)
Established(l, c) ==
    /\ InLoop(l) /\ posts[l] # <<>> /\ c = Head(posts[l])
    /\ posts' = [posts EXCEPT ![l] = Tail(@)]
    /\ state_' = [state_ EXCEPT ![c] = "kConnected"]
    /\ UNCHANGED <<maker, thread, loop_, granted, looping, exiting, busy, fault, kernelVars,
                   mainVars, connections_, bufferVars>>

LEMMA EstablishedFacts ==
    ASSUME TypeOK, NEW l \in Threads, connectEstablished(l)
    PROVE  \E c \in Clients :
              /\ Established(l, c)
              /\ \/ /\ c \in connections_ \cup {conn}
                    /\ registered' = [registered EXCEPT ![c] = TRUE] /\ UNCHANGED sock
                 \/ c \notin connections_ \cup {conn} /\ Closing(c)
<1> DEFINE c == Head(posts[l])
<1>1. posts[l] \in Seq(Clients \cup {Ready}) /\ posts[l] # <<>> /\ c # Ready
  BY DEF connectEstablished, TypeOK, ThreadTypes
<1>2. c \in Clients
  <2>1. c \in Clients \cup {Ready}
    BY <1>1
  <2> QED
    BY <1>1, <2>1
<1>3. Established(l, c)
  BY DEF connectEstablished, Established
<1>4. IF c \in connections_ \cup {conn}
      THEN registered' = [registered EXCEPT ![c] = TRUE] /\ UNCHANGED sock
      ELSE Destroyed({c})
  BY DEF connectEstablished
<1> HIDE DEF c
<1> QED
  BY <1>2, <1>3, <1>4, DestroyedFacts DEF TypeOK

LEMMA ThreadTypesStep ==
    ASSUME TypeOK, Next
    PROVE  ThreadTypes'
<1> USE DEF TypeOK
<1>1. CASE UNCHANGED threadVars
  BY <1>1 DEF ThreadTypes, threadVars
<1>2. CASE MakePool
  BY <1>2, PoolTypes DEF MakePool
<1>3. CASE EndLoops \/ Destroy
  <2>1. maker' \in [stage : Making \cup Starting \cup Ending, i : DOMAIN Loops]
    <3>1. maker' \in {At("wait", 1), At("exit", 1)}
      BY <1>3 DEF EndLoops, AskExits, Destroy
    <3>2. {"wait", "exit"} \subseteq Making \cup Starting \cup Ending
      BY DEF Ending, Destroying
    <3> QED
      BY <3>1, <3>2, StageFacts, LoopsFacts
  <2>2. exiting' \in [Threads -> BOOLEAN]
    BY <1>3 DEF ThreadTypes, EndLoops, AskExits, Destroy
  <2> QED
    BY <1>3, <2>1, <2>2 DEF ThreadTypes, EndLoops, AskExits, Destroy
<1>4. CASE Accept \/ BeginInsert \/ MakeAcceptor
  BY <1>4 DEF ThreadTypes, Accept, BeginInsert, MakeAcceptor
<1>5. CASE PostEstablished
  <2>1. conn \in Clients
    BY <1>5 DEF PostEstablished, Main, ServerTypes, Inserting
  <2>2. \A l \in Threads : Append(posts[l], conn) \in Seq(Clients \cup {Ready})
    BY <2>1 DEF ThreadTypes
  <2>3. posts' \in [Threads -> Seq(Clients \cup {Ready})]
    BY <1>5, <2>2 DEF ThreadTypes, PostEstablished
  <2> QED
    BY <1>5, <2>3 DEF ThreadTypes, PostEstablished
<1>6. ASSUME NEW i \in DOMAIN Loops, LoopThread(i)
      PROVE  ThreadTypes'
  <2>1. Loops[i] \in Threads
    BY LoopsFacts
  <2>2. <<Ready>> \in Seq(Clients \cup {Ready})
    BY SMT
  <2>3. posts[Loops[i]] # <<>> => Tail(posts[Loops[i]]) \in Seq(Clients \cup {Ready})
    BY <2>1 DEF ThreadTypes
  <2>4. CASE MakeLoop(i)
    BY <2>1, <2>2, <2>4 DEF ThreadTypes, MakeLoop
  <2>5. CASE EnterLoop(i) \/ LeaveLoop(i) \/ EndThread(i)
    BY <2>1, <2>5 DEF ThreadTypes, EnterLoop, LeaveLoop, EndThread
  <2>6. CASE TurnLoop(i)
    BY <2>1, <2>3, <2>6 DEF ThreadTypes, TurnLoop
  <2>7. CASE connectEstablished(Loops[i])
    BY <2>1, <2>3, <2>7 DEF ThreadTypes, connectEstablished
  <2> QED
    BY <1>6, <2>4, <2>5, <2>6, <2>7 DEF LoopThread, LoopStep, ThreadStep
<1>7. ASSUME NEW c \in Clients, HandleClose(c) \/ removeConnection(c)
      PROVE  ThreadTypes'
  BY <1>7 DEF ThreadTypes, HandleClose, removeConnection
<1> QED
  BY <1>1, <1>2, <1>3, <1>4, <1>5, <1>6, <1>7, QuietSteps DEF Next, MainStep, ConnectionStep

LEMMA KernelTypesStep ==
    ASSUME TypeOK, Next
    PROVE  KernelTypes'
<1> USE DEF TypeOK, KernelTypes
<1>1. CASE UNCHANGED <<kernelVars, sock>> /\ main' # "refuse"
  BY <1>1 DEF kernelVars
<1>2. ASSUME NEW c \in Clients, Connect(c) \/ Send(c) \/ Finish(c) \/ Reset(c)
      PROVE  KernelTypes'
  <2>1. Append(backlog, c) \in Seq(Clients) /\ Append(backlog, c) # <<>>
    OBVIOUS
  <2> QED
    BY <1>2, <2>1 DEF Connect, Send, Finish, Reset, mainVars, connVars
<1>3. CASE Accept \/ AcceptAborted \/ Refuse
  <2>1. backlog # <<>> /\ Head(backlog) \in Clients /\ Tail(backlog) \in Seq(Clients)
    BY <1>3 DEF Accept, AcceptAborted, Refuse, CanAccept, Main
  <2>2. main' # "refuse"
    BY <1>3 DEF Accept, AcceptAborted, Refuse, newConnection, CanAccept, Main, mainVars
  <2> QED
    BY <1>3, <2>1, <2>2 DEF Accept, AcceptAborted, Refuse, newConnection, TcpConnection
<1>4. CASE OutOfFds
  BY <1>4 DEF OutOfFds, CanAccept, kernelVars, connVars
<1>5. CASE MakePool \/ MakeAcceptor \/ start \/ PostEstablished \/ BeginInsert \/ Insert \/ Gone
           \/ StartReturns \/ EndLoops \/ Destroy \/ AcceptFails
  BY <1>5, QuietSteps DEF kernelVars, connVars, mainVars, MakePool, MakeAcceptor, start, PostEstablished, BeginInsert,
     Insert, Gone, StartReturns, EndLoops, Destroy, Main
<1>6. ASSUME NEW i \in DOMAIN Loops, LoopThread(i)
      PROVE  KernelTypes'
  <2>1. UNCHANGED <<kernelVars, main>>
    BY <1>6 DEF LoopThread, LoopStep, connectEstablished, mainVars
  <2>2. UNCHANGED sock \/ \E d : close({d})
    BY <1>6 DEF LoopThread, LoopStep, connectEstablished, Destroyed, connVars
  <2>3. sock' \in [Clients -> {"none", "open", "closed"}]
    BY <2>2 DEF close
  <2> QED
    BY <2>1, <2>3 DEF kernelVars
<1>7. ASSUME NEW c \in Clients, ConnectionStep(c)
      PROVE  KernelTypes'
  <2>1. UNCHANGED <<peer, backlog, maxFds, main>>
    BY <1>7 DEF ConnectionStep, HandleInput, ReadFails, HandleClose, removeConnection, kernelVars, mainVars
  <2>2. UNCHANGED sock \/ close({c})
    BY <1>7 DEF ConnectionStep, HandleInput, ReadFails, HandleClose, removeConnection, Destroyed, connVars
  <2>3. sock' \in [Clients -> {"none", "open", "closed"}]
    BY <2>2 DEF close
  <2> QED
    BY <2>1, <2>3
<1> QED
  BY <1>2, <1>3, <1>4, <1>5, <1>6, <1>7 DEF Next, MainStep, ClientStep

LEMMA ServerTypesStep ==
    ASSUME TypeOK, Next
    PROVE  ServerTypes'
<1> USE DEF TypeOK, ServerTypes
<1>1. CASE UNCHANGED <<mainVars, connections_, state_, registered>>
  BY <1>1 DEF mainVars, acceptorVars
<1>2. CASE Accept
  <2>1. Head(backlog) \in Clients
    BY <1>2 DEF Accept, CanAccept, KernelTypes
  <2>2. ioLoop' \in [Clients -> Threads \cup {Nobody, NoLoop}]
    BY <1>2, <2>1, NextLoop DEF Accept, newConnection, TcpConnection
  <2>3. UNCHANGED <<connections_, idleFd_, registered>> /\ state_' \in [Clients -> {"none", "kConnecting", "kConnected", "kDisconnected"}]
    BY <1>2, <2>1 DEF Accept, newConnection, TcpConnection, acceptorVars
  <2>4. conn' = Head(backlog) /\ main' = "post" /\ loopIndex_' = loopIndex_ + 1
    BY <1>2 DEF Accept, newConnection
  <2> QED
    BY <2>1, <2>2, <2>3, <2>4 DEF Serving, Inserting
<1>3. CASE start \/ PostEstablished \/ BeginInsert \/ OutOfFds \/ Refuse \/ Gone \/ StartReturns \/ Destroy
  <2>1. /\ UNCHANGED <<conn, loopIndex_, ioLoop, state_, registered>>
        /\ connections_' = connections_ \/ connections_' = {}
        /\ idleFd_' = idleFd_ \/ idleFd_' = TRUE \/ idleFd_' = FALSE
    BY <1>3 DEF start, PostEstablished, BeginInsert, OutOfFds, Refuse, Gone, StartReturns, Destroy,
       mainVars, acceptorVars, connVars
  <2>2. main' \in {"acceptor", "pool", "gone"} \cup Serving /\ (main' \in Inserting <=> main \in Inserting)
    BY <1>3 DEF start, PostEstablished, BeginInsert, OutOfFds, Refuse, Gone, StartReturns, Destroy,
       Main, CanAccept, Serving, Inserting, mainVars
  <2> QED
    BY <2>1, <2>2
<1>4. CASE Insert
  BY <1>4, ServerAssumption DEF Insert, Main, Serving, Inserting, mainVars, acceptorVars, connVars
<1>5. CASE MakePool \/ AcceptAborted \/ AcceptFails \/ EndLoops
  BY <1>5, QuietSteps DEF MakePool, AcceptAborted, EndLoops, mainVars, acceptorVars, connVars
<1>6. ASSUME NEW i \in DOMAIN Loops, LoopThread(i)
      PROVE  ServerTypes'
  <2>1. CASE LoopStep(i)
    BY <1>1, <2>1 DEF LoopStep, connVars
  <2>2. CASE connectEstablished(Loops[i])
    <3>1. PICK c \in Clients : Established(Loops[i], c) /\ registered' \in {[registered EXCEPT ![c] = TRUE], [registered EXCEPT ![c] = FALSE]}
      BY <2>2, EstablishedFacts, LoopsFacts DEF Closing
    <3> QED
      BY <3>1 DEF Established, mainVars, acceptorVars
  <2> QED
    BY <1>6, <2>1, <2>2 DEF LoopThread
<1>7. ASSUME NEW c \in Clients, ConnectionStep(c)
      PROVE  ServerTypes'
  <2>1. UNCHANGED mainVars /\ (connections_' = connections_ \/ connections_' = connections_ \ {c})
    BY <1>7 DEF ConnectionStep, HandleInput, ReadFails, HandleClose, removeConnection
  <2>2. state_' \in [Clients -> {"none", "kConnecting", "kConnected", "kDisconnected"}]
    BY <1>7 DEF ConnectionStep, HandleInput, ReadFails, HandleClose, removeConnection, connVars
  <2>3. registered' \in [Clients -> BOOLEAN]
    BY <1>7 DEF ConnectionStep, HandleInput, ReadFails, HandleClose, removeConnection, Destroyed, connVars
  <2> QED
    BY <2>1, <2>2, <2>3 DEF mainVars, acceptorVars
<1>8. CASE MakeAcceptor
  BY <1>8 DEF MakeAcceptor, Acceptor, Main, Serving, Inserting, connVars
<1> QED
  BY <1>1, <1>2, <1>3, <1>4, <1>5, <1>6, <1>7, <1>8, QuietSteps DEF Next, MainStep, connVars

LEMMA TypesStep == TypeOK /\ [Next]_vars => TypeOK'
<1> SUFFICES ASSUME TypeOK, [Next]_vars PROVE TypeOK'
  OBVIOUS
<1>1. CASE Next
  BY <1>1, ThreadTypesStep, KernelTypesStep, ServerTypesStep DEF TypeOK
<1>2. CASE UNCHANGED vars
  BY <1>2 DEF TypeOK, ThreadTypes, KernelTypes, ServerTypes, vars, threadVars, kernelVars, mainVars,
     acceptorVars, connVars
<1> QED
  BY <1>1, <1>2

(* TypeOK, for any constants, in the last state of a program that broke    *)
(* too: conn is set while the main thread is inside newConnection, and     *)
(* only callbacks of clients and of the pool are posted.                   *)
THEOREM ServerTypeCorrect == Spec => []TypeOK
<1> QED
  BY InitTypes, TypesStep, PTL DEF Spec

(* ------------------------------ the pool ------------------------------- *)
(* A step of threadFunc().                                                 *)
LEMMA ThreadStepPool ==
    ASSUME TypeOK, PoolInv, NEW i \in DOMAIN Loops, ThreadStep(i), Unbroken'
    PROVE  PoolInv'
<1> USE LoopsFacts
<1>1. CASE MakeLoop(i)
  <2>1. ~Maker("members", i) /\ thread[Loops[i]] = "spawned"
    BY <1>1 DEF MakeLoop, Unbroken, Thread
  <2>2. thread' = [thread EXCEPT ![Loops[i]] = "waits"] /\ UNCHANGED <<maker, loop_, exiting>>
        /\ posts' = [posts EXCEPT ![Loops[i]] = <<Ready>>]
    BY <1>1 DEF MakeLoop
  <2> QED
    BY <2>1, <2>2 DEF PoolInv, TypeOK, ThreadTypes
<1>2. CASE EnterLoop(i)
  BY <1>2 DEF EnterLoop, Thread, PoolInv, TypeOK, ThreadTypes
<1>3. CASE TurnLoop(i)
  BY <1>3 DEF TurnLoop, InLoop, PoolInv, TypeOK, ThreadTypes
<1>4. CASE LeaveLoop(i)
  BY <1>4 DEF LeaveLoop, InLoop, PoolInv, TypeOK, ThreadTypes
<1>5. CASE EndThread(i)
  <2>1. maker.stage \notin Making
    BY <1>5 DEF EndThread, Thread, PoolInv, Making, Ending, Destroying
  <2> QED
    BY <1>5, <2>1 DEF EndThread, Thread, PoolInv, TypeOK, ThreadTypes
<1> QED
  BY <1>1, <1>2, <1>3, <1>4, <1>5 DEF ThreadStep

(* A step of the thread that makes the pool, starts it and takes it down.  *)
LEMMA PoolStepPool ==
    ASSUME TypeOK, PoolInv, PoolStep
    PROVE  PoolInv'
<1> USE LoopsFacts
<1> PICK i \in DOMAIN Loops :
        Spawn(i) \/ ConstructMembers(i) \/ GetLoop(i) \/ Grant(i) \/ SeesLoopTurn(i)
            \/ Wait(i) \/ AskExit(i) \/ Join(i)
  BY DEF PoolStep
<1>1. CASE Spawn(i)
  BY <1>1 DEF Spawn, Maker, At, PoolInv, TypeOK, ThreadTypes, Making, Ending, Destroying
<1>2. CASE ConstructMembers(i)
  BY <1>2 DEF ConstructMembers, Maker, At, PoolInv, TypeOK, ThreadTypes, Making, Ending, Destroying
<1>3. CASE GetLoop(i)
  <2>1. maker.stage = "future" /\ maker.i = i /\ thread[Loops[i]] = "waits"
    BY <1>3 DEF GetLoop, Maker
  <2>2. loop_' = [loop_ EXCEPT ![Loops[i]] = TRUE] /\ UNCHANGED <<thread, exiting, posts>>
    BY <1>3 DEF GetLoop
  <2>3. \A j \in DOMAIN Loops : j <= i => loop_'[Loops[j]]
    BY <2>1, <2>2 DEF PoolInv, Making, TypeOK, ThreadTypes
  <2>4. \A j \in DOMAIN Loops : j > i => thread[Loops[j]] = "none"
    BY <2>1 DEF PoolInv, Making
  <2>5. CASE maker' = At("construct", i + 1)
    BY <2>1, <2>2, <2>3, <2>4, <2>5 DEF At, PoolInv, TypeOK, ThreadTypes, Making, Ending, Destroying
  <2>6. CASE maker' = At("run", 1) /\ i = Len(Loops)
    <3>1. \A l \in Threads : loop_'[l] /\ ~exiting[l]
      BY <2>1, <2>3, <2>6 DEF PoolInv, Ending, Destroying
    <3> QED
      BY <2>1, <2>2, <2>6, <3>1 DEF At, PoolInv, TypeOK, ThreadTypes, Making, Ending, Destroying
  <2> QED
    BY <1>3, <2>5, <2>6, AfterFacts DEF GetLoop
<1>4. CASE Grant(i)
  BY <1>4 DEF Grant, Maker, At, PoolInv, TypeOK, ThreadTypes, Making, Ending, Destroying
<1>5. CASE SeesLoopTurn(i)
  <2>1. maker'.stage \in {"run", "started"} /\ maker.stage = "turn" /\ UNCHANGED <<thread, loop_, exiting, posts>>
    BY <1>5, AfterFacts DEF SeesLoopTurn, Maker, At
  <2> QED
    BY <2>1 DEF PoolInv, Making, Ending, Destroying
<1>6. CASE Wait(i)
  <2>1. maker'.stage \in {"wait", "waited"} /\ maker.stage = "wait" /\ UNCHANGED <<thread, loop_, exiting, posts>>
    BY <1>6, AfterFacts DEF Wait, Maker, At
  <2> QED
    BY <2>1 DEF PoolInv, Making, Ending, Destroying
<1>7. CASE AskExit(i)
  <2>1. exiting' = IF loop_[Loops[i]] THEN [exiting EXCEPT ![Loops[i]] = TRUE] ELSE exiting
    BY <1>7 DEF AskExit
  <2>2. \A l \in Threads : exiting'[l] \in BOOLEAN /\ (exiting[l] => exiting'[l])
    BY <2>1 DEF TypeOK, ThreadTypes
  <2>3. maker.stage = "exit" /\ maker.i = i /\ maker'.stage = "join" /\ maker'.i = i /\ UNCHANGED <<thread, loop_, posts>>
    BY <1>7 DEF AskExit, Maker, At
  <2> QED
    BY <2>2, <2>3 DEF PoolInv, Making, Ending, Destroying
<1>8. CASE Join(i)
  <2>1. maker.stage = "join" /\ maker.i = i /\ thread[Loops[i]] = "finished" /\ UNCHANGED <<thread, loop_, exiting, posts>>
    BY <1>8 DEF Join, Maker
  <2>2. \A j \in DOMAIN Loops : j <= i => thread[Loops[j]] = "finished"
    BY <2>1 DEF PoolInv
  <2>3. CASE maker' = At("exit", i + 1)
    BY <2>1, <2>2, <2>3 DEF At, PoolInv, Making, Ending, Destroying
  <2>4. CASE maker' = At("joined", 1) /\ i = Len(Loops)
    BY <2>1, <2>2, <2>4 DEF At, PoolInv, Making, Ending, Destroying
  <2> QED
    BY <1>8, <2>3, <2>4, AfterFacts DEF Join
<1> QED
  BY <1>1, <1>2, <1>3, <1>4, <1>5, <1>6, <1>7, <1>8

(* While the main thread serves, every loop is there to be posted to.      *)
LEMMA ServingLoops ==
    ASSUME TypeOK, PoolInv, MainInv, main \in Serving
    PROVE  \A l \in Threads : ~exiting[l] /\ loop_[l] /\ thread[l] \in {"waits", "loop"}
BY DEF TypeOK, ThreadTypes, PoolInv, MainInv, Making, Ending, Destroying

LEMMA PoolInvStep ==
    ASSUME TypeOK, PoolInv, MainInv, Next, Unbroken'
    PROVE  PoolInv'
<1>1. CASE UNCHANGED <<maker, thread, loop_, posts, exiting>>
  BY <1>1 DEF PoolInv
<1>2. CASE MakePool
  BY <1>2, PoolStepPool DEF MakePool
<1>4. CASE EndLoops
  <2>1. \A l \in Threads : exiting'[l] \in BOOLEAN /\ (exiting[l] => exiting'[l])
    BY <1>4 DEF EndLoops, AskExits, TypeOK, ThreadTypes
  <2> QED
    BY <1>4, <2>1 DEF EndLoops, AskExits, Maker, At, PoolInv, Making, Ending, Destroying
<1>5. CASE Destroy
  <2>1. maker.stage \in {"started", "waited"} /\ maker' = At("exit", 1) /\ UNCHANGED <<thread, loop_, exiting, posts>>
    BY <1>5 DEF Destroy, Maker
  <2> QED
    BY <2>1, LoopsFacts DEF At, PoolInv, Making, Ending, Destroying
<1>6. CASE PostEstablished
  <2>1. \A l \in Threads : thread[l] \in {"waits", "loop"}
    BY <1>6, ServingLoops DEF PostEstablished, Main, Serving, Inserting
  <2>2. UNCHANGED <<maker, thread, loop_, exiting>>
    BY <1>6 DEF PostEstablished
  <2> QED
    BY <2>1, <2>2 DEF PoolInv
<1>7. ASSUME NEW i \in DOMAIN Loops, LoopThread(i)
      PROVE  PoolInv'
  <2>1. CASE connectEstablished(Loops[i])
    <3>1. Loops[i] \in Threads
      BY LoopsFacts
    <3>2. thread[Loops[i]] = "loop" /\ posts' = [posts EXCEPT ![Loops[i]] = Tail(@)]
          /\ UNCHANGED <<maker, thread, loop_, exiting>>
      BY <2>1 DEF connectEstablished, InLoop
    <3> QED
      BY <3>1, <3>2 DEF PoolInv, TypeOK, ThreadTypes
  <2> QED
    BY <1>7, <2>1, ThreadStepPool DEF LoopThread, LoopStep
<1>8. ASSUME NEW c \in Clients, ConnectionStep(c)
      PROVE  UNCHANGED <<maker, thread, loop_, posts, exiting>>
  BY <1>8, QuietSteps DEF ConnectionStep, HandleClose, removeConnection, threadVars
<1>9. MakeAcceptor \/ Accept \/ BeginInsert => UNCHANGED <<maker, thread, loop_, posts, exiting>>
  BY DEF MakeAcceptor, Accept, BeginInsert
<1> QED
  BY <1>1, <1>2, <1>4, <1>5, <1>6, <1>7, <1>8, <1>9, QuietSteps DEF Next, MainStep, threadVars

(* --------------------------- the main thread ---------------------------- *)
LEMMA MainInvStep ==
    ASSUME TypeOK, PoolInv, MainInv, Next
    PROVE  MainInv'
<1> USE DEF MainInv, Serving, Inserting
<1>1. CASE UNCHANGED <<main, conn, maker, idleFd_, acceptSocket_>>
  BY <1>1
<1>2. CASE MakePool
  <2>1. main = "pool" /\ UNCHANGED <<main, conn, idleFd_, acceptSocket_>>
    BY <1>2 DEF MakePool, Main, mainVars, acceptorVars
  <2> QED
    BY <2>1
<1>3. CASE MakeAcceptor
  BY <1>3 DEF MakeAcceptor, Acceptor
<1>4. CASE start \/ StartReturns
  BY <1>4 DEF start, StartReturns, Main, Maker, threadVars, acceptorVars, Making
<1>5. CASE Accept
  BY <1>5 DEF Accept, CanAccept, Main, newConnection, acceptorVars
<1>6. CASE PostEstablished \/ BeginInsert \/ Insert
  BY <1>6 DEF PostEstablished, BeginInsert, Insert, Main, threadVars, acceptorVars
<1>7. CASE OutOfFds \/ Refuse
  BY <1>7 DEF OutOfFds, Refuse, CanAccept, Main, threadVars
<1>8. CASE EndLoops \/ Destroy
  BY <1>8 DEF EndLoops, AskExits, Destroy, Main, Maker, At, mainVars, acceptorVars, Making
<1>9. CASE Gone
  BY <1>9 DEF Gone, CloseSocket, Main, Maker, threadVars, Making
<1>10. ASSUME NEW i \in DOMAIN Loops, LoopThread(i)
       PROVE  UNCHANGED <<main, conn, maker, idleFd_, acceptSocket_>>
  BY <1>10 DEF LoopThread, LoopStep, ThreadStep, MakeLoop, EnterLoop, TurnLoop, LeaveLoop, EndThread,
     connectEstablished, mainVars, acceptorVars
<1>11. ASSUME NEW c \in Clients, ConnectionStep(c)
       PROVE  UNCHANGED <<main, conn, maker, idleFd_, acceptSocket_>>
  BY <1>11, QuietSteps DEF ConnectionStep, HandleClose, removeConnection, threadVars, mainVars, acceptorVars
<1>12. ClientStep \/ AcceptAborted \/ AcceptFails => UNCHANGED <<main, conn, maker, idleFd_, acceptSocket_>>
  BY QuietSteps DEF AcceptAborted, threadVars, mainVars, acceptorVars
<1> QED
  BY <1>1, <1>2, <1>3, <1>4, <1>5, <1>6, <1>7, <1>8, <1>9, <1>10, <1>11, <1>12 DEF Next, MainStep

(* --------------------------- the backlog -------------------------------- *)
LEMMA HeadTail ==
    ASSUME NEW S, NEW q \in Seq(S), q # <<>>
    PROVE  /\ Head(q) \in S /\ Tail(q) \in Seq(S) /\ 1 \in DOMAIN q /\ q[1] = Head(q)
           /\ \A k \in DOMAIN Tail(q) : k + 1 \in DOMAIN q /\ k + 1 # 1 /\ Tail(q)[k] = q[k + 1]
           /\ \A k \in DOMAIN q : k = 1 \/ (k - 1 \in DOMAIN Tail(q) /\ Tail(q)[k - 1] = q[k])
BY SMT

LEMMA AppendFacts ==
    ASSUME NEW S, NEW q \in Seq(S), NEW x \in S
    PROVE  /\ Append(q, x) \in Seq(S) /\ Len(q) + 1 \in DOMAIN Append(q, x)
           /\ Append(q, x)[Len(q) + 1] = x
           /\ \A k \in DOMAIN Append(q, x) : k = Len(q) + 1 \/ (k \in DOMAIN q /\ Append(q, x)[k] = q[k])
           /\ \A k \in DOMAIN q : k # Len(q) + 1 /\ k \in DOMAIN Append(q, x) /\ Append(q, x)[k] = q[k]
BY SMT

LEMMA BacklogInvStep ==
    ASSUME TypeOK, BacklogInv, PostsInv, ConnInv, Next
    PROVE  BacklogInv'
<1> USE DEF TypeOK, KernelTypes, ServerTypes
<1>1. CASE UNCHANGED <<peer, backlog, sock, ioLoop>>
  BY <1>1 DEF BacklogInv
<1>2. ASSUME NEW c \in Clients, Connect(c)
      PROVE  BacklogInv'
  <2>1. /\ peer[c] = "away" /\ peer' = [peer EXCEPT ![c] = "connected"] /\ backlog' = Append(backlog, c)
        /\ UNCHANGED <<sock, ioLoop>>
    BY <1>2 DEF Connect, mainVars, connVars
  <2>2. \A k \in DOMAIN backlog : backlog[k] # c /\ backlog[k] \in Clients
    BY <2>1 DEF BacklogInv
  <2>3. \A j, k \in DOMAIN backlog' : backlog'[j] = backlog'[k] => j = k
    BY <2>1, <2>2, AppendFacts DEF BacklogInv
  <2>4. \A k \in DOMAIN backlog' : peer'[backlog'[k]] # "away" /\ sock[backlog'[k]] = "none"
    BY <2>1, <2>2, AppendFacts DEF BacklogInv
  <2> QED
    BY <2>1, <2>3, <2>4 DEF BacklogInv
<1>3. ASSUME NEW c \in Clients, Send(c) \/ Finish(c) \/ Reset(c)
      PROVE  BacklogInv'
  <2>1. /\ UNCHANGED <<backlog, sock, ioLoop>>
        /\ \A d \in Clients : peer'[d] = "away" <=> peer[d] = "away"
    BY <1>3 DEF Send, Finish, Reset, mainVars, connVars
  <2>2. \A k \in DOMAIN backlog : backlog[k] \in Clients
    OBVIOUS
  <2> QED
    BY <2>1, <2>2 DEF BacklogInv
<1>4. CASE Accept \/ AcceptAborted \/ Refuse
  <2> DEFINE c == Head(backlog)
  <2>1. backlog # <<>> /\ backlog' = Tail(backlog) /\ UNCHANGED peer
    BY <1>4 DEF Accept, AcceptAborted, Refuse, CanAccept, Main
  <2>2. \E s \in {"open", "closed"} : sock' = [sock EXCEPT ![c] = s]
    BY <1>4 DEF Accept, AcceptAborted, Refuse, newConnection, TcpConnection
  <2>3. ioLoop' = ioLoop \/ \E l : ioLoop' = [ioLoop EXCEPT ![c] = l]
    BY <1>4 DEF Accept, AcceptAborted, Refuse, newConnection, TcpConnection, mainVars
  <2>4. c \in Clients /\ peer[c] # "away"
    BY <2>1, HeadTail DEF BacklogInv
  <2>5. \A k \in DOMAIN backlog' : backlog'[k] # c /\ backlog'[k] \in Clients
    BY <2>1, HeadTail DEF BacklogInv
  <2>6. \A j, k \in DOMAIN backlog' : backlog'[j] = backlog'[k] => j = k
    BY <2>1, HeadTail DEF BacklogInv
  <2>7. \A k \in DOMAIN backlog' : peer[backlog'[k]] # "away" /\ sock[backlog'[k]] = "none"
    BY <2>1, HeadTail DEF BacklogInv
  <2> HIDE DEF c
  <2> QED
    BY <2>1, <2>2, <2>3, <2>4, <2>5, <2>6, <2>7 DEF BacklogInv
<1>5. CASE MakePool \/ MakeAcceptor \/ start \/ PostEstablished \/ BeginInsert \/ Insert \/ OutOfFds \/ Gone
           \/ StartReturns \/ EndLoops \/ Destroy \/ AcceptFails
  <2>1. UNCHANGED <<peer, backlog, sock, ioLoop>>
    BY <1>5, QuietSteps DEF kernelVars, connVars, mainVars, MakePool, MakeAcceptor, start, PostEstablished, BeginInsert,
       Insert, OutOfFds, Gone, StartReturns, EndLoops, Destroy
  <2> QED
    BY <2>1, <1>1
<1>6. ASSUME NEW c \in Clients, Closing(c), sock[c] = "open", UNCHANGED <<peer, backlog, ioLoop>>
      PROVE  BacklogInv'
  <2>1. \A k \in DOMAIN backlog : backlog[k] \in Clients /\ backlog[k] # c
    BY <1>6 DEF BacklogInv
  <2> QED
    BY <1>6, <2>1 DEF BacklogInv, Closing
<1>7. ASSUME NEW i \in DOMAIN Loops, LoopThread(i)
      PROVE  BacklogInv'
  <2>1. CASE LoopStep(i)
    BY <1>1, <2>1 DEF LoopStep, kernelVars, mainVars, connVars
  <2>2. CASE connectEstablished(Loops[i])
    <3>1. Loops[i] \in Threads
      BY LoopsFacts
    <3>2. PICK c \in Clients : Established(Loops[i], c) /\ (UNCHANGED sock \/ Closing(c))
      BY <2>2, <3>1, EstablishedFacts
    <3>3. UNCHANGED <<peer, backlog, ioLoop>>
      BY <3>2 DEF Established, kernelVars, mainVars
    <3>4. sock[c] = "open"
      <4>1. 1 \in DOMAIN posts[Loops[i]] /\ posts[Loops[i]][1] = c
        BY <3>1, <3>2, HeadTail DEF Established, ThreadTypes
      <4> QED
        BY <3>1, <4>1 DEF PostsInv
    <3> QED
      BY <1>1, <1>6, <3>2, <3>3, <3>4
  <2> QED
    BY <1>7, <2>1, <2>2 DEF LoopThread
<1>8. ASSUME NEW c \in Clients, ConnectionStep(c)
      PROVE  BacklogInv'
  <2>1. CASE HandleInput(c) \/ ReadFails(c) \/ HandleClose(c)
    BY <1>1, <2>1, QuietSteps DEF HandleClose, kernelVars, mainVars, connVars
  <2>2. CASE removeConnection(c)
    <3>1. Closing(c) /\ UNCHANGED <<peer, backlog, ioLoop>> /\ registered[c]
      BY <2>2, DestroyedFacts DEF removeConnection, kernelVars, mainVars
    <3> QED
      BY <1>6, <3>1 DEF ConnInv
  <2> QED
    BY <1>8, <2>1, <2>2 DEF ConnectionStep
<1> QED
  BY <1>2, <1>3, <1>4, <1>5, <1>7, <1>8 DEF Next, MainStep, ClientStep

(* ----------------------------- the posts -------------------------------- *)
LEMMA PostedTail ==
    ASSUME TypeOK, NEW l \in Threads, posts[l] # <<>>, posts' = [posts EXCEPT ![l] = Tail(@)]
    PROVE  /\ Posted(Head(posts[l]))
           /\ \A c : c # Head(posts[l]) => (Posted(c)' <=> Posted(c))
<1>1. posts[l] \in Seq(Clients \cup {Ready})
  BY DEF TypeOK, ThreadTypes
<1>2. posts'[l] = Tail(posts[l]) /\ \A m \in Threads : m # l => posts'[m] = posts[m]
  BY DEF TypeOK, ThreadTypes
<1>3. /\ 1 \in DOMAIN posts[l] /\ posts[l][1] = Head(posts[l])
      /\ \A k \in DOMAIN posts'[l] : k + 1 \in DOMAIN posts[l] /\ posts'[l][k] = posts[l][k + 1]
      /\ \A k \in DOMAIN posts[l] : k = 1 \/ (k - 1 \in DOMAIN posts'[l] /\ posts'[l][k - 1] = posts[l][k])
  <2> DEFINE q == posts[l]
  <2>1. q \in Seq(Clients \cup {Ready}) /\ q # <<>> /\ posts'[l] = Tail(q)
    BY <1>1, <1>2
  <2> HIDE DEF q
  <2>2. /\ 1 \in DOMAIN q /\ q[1] = Head(q)
        /\ \A k \in DOMAIN Tail(q) : k + 1 \in DOMAIN q /\ Tail(q)[k] = q[k + 1]
        /\ \A k \in DOMAIN q : k = 1 \/ (k - 1 \in DOMAIN Tail(q) /\ Tail(q)[k - 1] = q[k])
    BY <2>1, HeadTail
  <2> QED
    BY <2>1, <2>2 DEF q
<1>4. Posted(Head(posts[l]))
  BY <1>3 DEF Posted
<1>5. ASSUME NEW c, c # Head(posts[l]), NEW m \in Threads
      PROVE  (\E k \in DOMAIN posts'[m] : posts'[m][k] = c) <=> (\E k \in DOMAIN posts[m] : posts[m][k] = c)
  <2>1. CASE m = l
    <3>1. ASSUME NEW k \in DOMAIN posts'[l], posts'[l][k] = c
          PROVE  \E j \in DOMAIN posts[l] : posts[l][j] = c
      <4>1. k + 1 \in DOMAIN posts[l] /\ posts[l][k + 1] = c
        BY <1>3, <3>1
      <4> QED
        BY <4>1
    <3>2. ASSUME NEW k \in DOMAIN posts[l], posts[l][k] = c
          PROVE  \E j \in DOMAIN posts'[l] : posts'[l][j] = c
      <4>1. k - 1 \in DOMAIN posts'[l] /\ posts'[l][k - 1] = c
        BY <1>3, <1>5, <3>2
      <4> QED
        BY <4>1
    <3> QED
      BY <2>1, <3>1, <3>2
  <2>2. CASE m # l
    BY <1>2, <2>2
  <2> QED
    BY <2>1, <2>2
<1>6. ASSUME NEW c, c # Head(posts[l])
      PROVE  Posted(c)' <=> Posted(c)
  <2>1. Posted(c)' <=> \E m \in Threads : \E k \in DOMAIN posts'[m] : posts'[m][k] = c
    BY DEF Posted
  <2> QED
    BY <1>5, <1>6, <2>1 DEF Posted
<1> QED
  BY <1>4, <1>6

(* Nothing is posted, and the connections that wait stay as they are.      *)
LEMMA PostsKept ==
    ASSUME TypeOK, PostsInv, UNCHANGED posts,
           \A c \in Clients : sock[c] = "open" /\ ~registered[c] /\ ~BeforePost(c) =>
               ioLoop'[c] = ioLoop[c] /\ sock'[c] = "open" /\ ~registered'[c] /\ ~BeforePost(c)'
    PROVE  PostsInv'
BY DEF PostsInv

(* The head of the posts of a loop is taken.                               *)
LEMMA PostsTaken ==
    ASSUME TypeOK, PostsInv, NEW l \in Threads, posts[l] # <<>>, posts' = [posts EXCEPT ![l] = Tail(@)],
           UNCHANGED ioLoop,
           \A c \in Clients : c # Head(posts[l]) =>
               sock'[c] = sock[c] /\ registered'[c] = registered[c] /\ BeforePost(c)' = BeforePost(c)
    PROVE  PostsInv'
<1>1. posts[l] \in Seq(Clients \cup {Ready})
  BY DEF TypeOK, ThreadTypes
<1>2. posts'[l] = Tail(posts[l]) /\ \A m \in Threads : m # l => posts'[m] = posts[m]
  BY DEF TypeOK, ThreadTypes
<1>3. /\ 1 \in DOMAIN posts[l] /\ posts[l][1] = Head(posts[l])
      /\ \A k \in DOMAIN posts'[l] : k + 1 \in DOMAIN posts[l] /\ posts'[l][k] = posts[l][k + 1] /\ k + 1 # 1
      /\ \A k \in DOMAIN posts'[l] : k \in Nat
  <2> DEFINE q == posts[l]
  <2>1. q \in Seq(Clients \cup {Ready}) /\ q # <<>> /\ posts'[l] = Tail(q)
    BY <1>1, <1>2
  <2> HIDE DEF q
  <2>2. /\ 1 \in DOMAIN q /\ q[1] = Head(q)
        /\ \A k \in DOMAIN Tail(q) : k + 1 \in DOMAIN q /\ Tail(q)[k] = q[k + 1] /\ k + 1 # 1 /\ k \in Nat
    BY <2>1, HeadTail
  <2> QED
    BY <2>1, <2>2 DEF q
<1> SUFFICES ASSUME NEW m \in Threads, NEW k \in DOMAIN posts'[m], NEW c \in Clients, c = posts'[m][k]
             PROVE  /\ ioLoop[c] = m /\ sock'[c] = "open" /\ ~registered'[c] /\ ~BeforePost(c)'
                    /\ \A j \in DOMAIN posts'[m] : posts'[m][j] = c => j = k
  BY DEF PostsInv
<1>4. CASE m = l
  <2>1. k + 1 \in DOMAIN posts[l] /\ posts[l][k + 1] = c /\ k + 1 # 1
    BY <1>3, <1>4
  <2>2. /\ ioLoop[c] = l /\ sock[c] = "open" /\ ~registered[c] /\ ~BeforePost(c)
        /\ \A j \in DOMAIN posts[l] : posts[l][j] = c => j = k + 1
    BY <2>1 DEF PostsInv
  <2>3. c # Head(posts[l])
    BY <1>3, <2>1, <2>2
  <2>4. \A j \in DOMAIN posts'[m] : posts'[m][j] = c => j = k
    BY <1>3, <1>4, <2>2
  <2> QED
    BY <1>4, <2>2, <2>3, <2>4
<1>5. CASE m # l
  <2>1. /\ ioLoop[c] = m /\ sock[c] = "open" /\ ~registered[c] /\ ~BeforePost(c)
        /\ \A j \in DOMAIN posts[m] : posts[m][j] = c => j = k
    BY <1>2, <1>5 DEF PostsInv
  <2>2. c # Head(posts[l])
    BY <1>3, <1>5, <2>1 DEF PostsInv
  <2> QED
    BY <1>2, <1>5, <2>1, <2>2
<1> QED
  BY <1>4, <1>5

LEMMA PostsInvStep ==
    ASSUME TypeOK, PoolInv, MainInv, BacklogInv, PostsInv, ConnInv, Next, Unbroken'
    PROVE  PostsInv'
<1>1. CASE UNCHANGED <<posts, ioLoop, sock, registered>> /\ (main' = "post" => UNCHANGED <<main, conn>>)
  <2>1. \A c \in Clients : BeforePost(c)' => BeforePost(c)
    BY <1>1 DEF BeforePost
  <2> QED
    BY <1>1, <2>1, PostsKept
<1>2. CASE Accept \/ AcceptAborted \/ Refuse
  <2> DEFINE d == Head(backlog)
  <2>1. backlog # <<>> /\ UNCHANGED <<posts, registered>>
    BY <1>2 DEF TypeOK, KernelTypes, Accept, AcceptAborted, Refuse, CanAccept, Main, threadVars
  <2>2. d \in Clients /\ sock[d] = "none"
    BY <2>1, HeadTail DEF TypeOK, KernelTypes, BacklogInv
  <2>3. \A c \in Clients : c # d => sock'[c] = sock[c] /\ ioLoop'[c] = ioLoop[c]
    BY <1>2 DEF TypeOK, KernelTypes, ServerTypes, Accept, AcceptAborted, Refuse, newConnection, TcpConnection,
       mainVars
  <2>4. \A c \in Clients : BeforePost(c)' => BeforePost(c) \/ c = d
    BY <1>2 DEF Accept, AcceptAborted, Refuse, CanAccept, Main, newConnection, BeforePost, mainVars
  <2> HIDE DEF d
  <2> QED
    BY <2>1, <2>2, <2>3, <2>4, PostsKept
<1>3. CASE PostEstablished
  <2> DEFINE m == ioLoop[conn]
  <2>1. conn \in Clients /\ BeforePost(conn) /\ sock[conn] = "open" /\ m \in Threads /\ ~registered[conn]
    BY <1>3 DEF PostEstablished, Main, TypeOK, ServerTypes, Inserting, ConnInv, BeforePost
  <2>2. posts[m] \in Seq(Clients \cup {Ready}) /\ conn \in Clients \cup {Ready}
    BY <2>1 DEF TypeOK, ThreadTypes
  <2>3. posts'[m] = Append(posts[m], conn) /\ \A l \in Threads : l # m => posts'[l] = posts[l]
    BY <1>3, <2>1 DEF PostEstablished, TypeOK, ThreadTypes
  <2>4. UNCHANGED <<ioLoop, sock, registered>> /\ \A c : ~BeforePost(c)'
    BY <1>3 DEF PostEstablished, BeforePost, connVars
  <2>5. \A l \in Threads : \A k \in DOMAIN posts[l] : posts[l][k] # conn
    BY <2>1 DEF PostsInv
  <2> SUFFICES ASSUME NEW l \in Threads, NEW k \in DOMAIN posts'[l], posts'[l][k] \in Clients
               PROVE  LET c == posts'[l][k]
                      IN  /\ ioLoop[c] = l /\ sock[c] = "open" /\ ~registered[c]
                          /\ \A j \in DOMAIN posts'[l] : posts'[l][j] = c => j = k
    BY <2>4 DEF PostsInv
  <2> HIDE DEF m
  <2>6. CASE l # m
    BY <2>3, <2>6 DEF PostsInv
  <2>7. CASE l = m /\ k = Len(posts[m]) + 1
    <3>1. posts'[l][k] = conn /\ \A j \in DOMAIN posts'[l] : posts'[l][j] = conn => j = k
      BY <2>1, <2>2, <2>3, <2>5, <2>7, AppendFacts
    <3> QED
      BY <2>1, <2>7, <3>1 DEF m
  <2>8. CASE l = m /\ k # Len(posts[m]) + 1
    <3>1. k \in DOMAIN posts[m] /\ posts[m][k] = posts'[l][k]
      BY <2>2, <2>3, <2>8, AppendFacts
    <3>2. \A j \in DOMAIN Append(posts[m], conn) :
             \/ Append(posts[m], conn)[j] = conn
             \/ j \in DOMAIN posts[m] /\ Append(posts[m], conn)[j] = posts[m][j]
      BY <2>2, AppendFacts
    <3>3. /\ posts[m][k] \in Clients /\ posts[m][k] # conn
          /\ ioLoop[posts[m][k]] = m /\ sock[posts[m][k]] = "open" /\ ~registered[posts[m][k]]
          /\ \A j \in DOMAIN posts[m] : posts[m][j] = posts[m][k] => j = k
      BY <2>1, <2>5, <3>1 DEF PostsInv
    <3>4. posts'[m] = Append(posts[m], conn)
      BY <2>1, <2>3
    <3> QED
      BY <2>1, <2>8, <3>1, <3>2, <3>3, <3>4
  <2> QED
    BY <2>6, <2>7, <2>8
<1>4. CASE MakePool \/ MakeAcceptor \/ start \/ BeginInsert \/ Insert \/ OutOfFds \/ Gone
           \/ StartReturns \/ EndLoops \/ Destroy \/ AcceptFails
  <2>1. UNCHANGED <<posts, ioLoop, sock, registered>>
    BY <1>4, QuietSteps DEF MakePool, PoolStep, Spawn, ConstructMembers, GetLoop, Grant, SeesLoopTurn, Wait, AskExit, Join,
       MakeAcceptor, start, BeginInsert, Insert, OutOfFds, Gone, StartReturns, EndLoops, AskExits, Destroy,
       threadVars, mainVars, connVars
  <2>2. main' = "post" => UNCHANGED <<main, conn>>
    BY <1>4, QuietSteps DEF MakePool, MakeAcceptor, start, BeginInsert, Insert, OutOfFds, Gone, StartReturns, EndLoops, Destroy,
       mainVars
  <2> QED
    BY <1>1, <2>1, <2>2
<1>5. ASSUME NEW i \in DOMAIN Loops, LoopThread(i)
      PROVE  PostsInv'
  <2> DEFINE l == Loops[i]
  <2>1. l \in Threads
    BY LoopsFacts
  <2>2. CASE MakeLoop(i) /\ UNCHANGED <<mainVars, connVars>>
    <3>1. posts' = [posts EXCEPT ![l] = <<Ready>>] /\ UNCHANGED <<ioLoop, sock, registered, main, conn>>
      BY <2>2 DEF MakeLoop, mainVars, connVars
    <3> QED
      BY <2>1, <3>1, ServerAssumption DEF PostsInv, TypeOK, ThreadTypes, BeforePost
  <2>3. CASE TurnLoop(i) /\ UNCHANGED <<mainVars, connVars>>
    <3>1. posts[l] # <<>> /\ posts' = [posts EXCEPT ![l] = Tail(@)]
          /\ UNCHANGED <<ioLoop, sock, registered, main, conn>>
      BY <2>3 DEF TurnLoop, mainVars, connVars
    <3> QED
      BY <2>1, <3>1, PostsTaken DEF BeforePost
  <2>4. CASE LoopStep(i) /\ ~MakeLoop(i) /\ ~TurnLoop(i)
    BY <1>1, <2>4 DEF LoopStep, ThreadStep, EnterLoop, LeaveLoop, EndThread, mainVars, connVars
  <2>5. CASE connectEstablished(Loops[i])
    <3>1. PICK c \in Clients :
              /\ Established(l, c)
              /\ \/ registered' = [registered EXCEPT ![c] = TRUE] /\ UNCHANGED sock
                 \/ Closing(c)
      BY <2>1, <2>5, EstablishedFacts
    <3>2. c = Head(posts[l]) /\ posts[l] # <<>> /\ posts' = [posts EXCEPT ![l] = Tail(@)]
          /\ UNCHANGED <<ioLoop, main, conn>>
      BY <3>1 DEF Established, mainVars
    <3>3. \A d \in Clients : d # c => sock'[d] = sock[d] /\ registered'[d] = registered[d]
      BY <3>1 DEF Closing, TypeOK, KernelTypes, ServerTypes
    <3> HIDE DEF l
    <3> QED
      BY <2>1, <3>2, <3>3, PostsTaken DEF BeforePost
  <2> QED
    BY <1>5, <2>2, <2>3, <2>4, <2>5 DEF LoopThread, LoopStep
<1>6. ASSUME NEW c \in Clients, ConnectionStep(c)
      PROVE  PostsInv'
  <2>1. CASE HandleInput(c) \/ ReadFails(c) \/ HandleClose(c)
    <3>1. UNCHANGED <<posts, ioLoop, sock, registered, main, conn>>
      BY <2>1, QuietSteps DEF HandleClose, threadVars, mainVars, connVars
    <3> QED
      BY <1>1, <3>1
  <2>2. CASE removeConnection(c)
    <3>1. Closing(c) /\ UNCHANGED <<posts, ioLoop, main, conn>> /\ registered[c]
      BY <2>2, DestroyedFacts DEF removeConnection, mainVars, TypeOK
    <3>2. \A d \in Clients : d # c => sock'[d] = sock[d] /\ registered'[d] = registered[d]
      BY <3>1 DEF Closing, TypeOK, KernelTypes, ServerTypes
    <3> QED
      BY <3>1, <3>2, PostsKept DEF BeforePost
  <2> QED
    BY <1>6, <2>1, <2>2 DEF ConnectionStep
<1>7. ClientStep => UNCHANGED <<posts, ioLoop, sock, registered, main, conn>>
  BY QuietSteps DEF threadVars, mainVars, connVars
<1> QED
  BY <1>1, <1>2, <1>3, <1>4, <1>5, <1>6, <1>7 DEF Next, MainStep

(* --------------------------- the connections ---------------------------- *)
(* ConnInv, one conjunct to a name.                                        *)
Owned(c) ==
    /\ sock[c] = "open" => ioLoop[c] \in Threads /\ (registered[c] \/ Posted(c) \/ BeforePost(c))
    /\ c \in connections_ \cup {conn} => sock[c] = "open"

Alive(c) ==
    /\ sock[c] = "open" /\ ~BeforePost(c)
    /\ c \in connections_ \cup {conn}
    /\ thread[ioLoop[c]] = "loop" \/ exiting[ioLoop[c]]
    /\ \/ state_[c] = "kConnected"
       \/ state_[c] = "kDisconnected" /\ busy[ioLoop[c]] = "removing"

OneRemoved == \A c, d \in Clients :
    registered[c] /\ registered[d] /\ ioLoop[c] = ioLoop[d]
       /\ state_[c] = "kDisconnected" /\ state_[d] = "kDisconnected" => c = d

AllLetGo == maker.stage \in Destroying => connections_ = {} /\ \A c \in Clients : ~registered[c]

LEMMA ConnInvParts ==
    ConnInv <=> /\ \A c \in Clients : Owned(c) /\ (registered[c] => Alive(c))
                /\ OneRemoved /\ conn \notin connections_ /\ AllLetGo
BY DEF ConnInv, Owned, Alive, OneRemoved, AllLetGo

(* A step that changes neither the connections nor the posts.              *)
LEMMA ConnKept ==
    ASSUME TypeOK, ConnInv,
           UNCHANGED <<sock, ioLoop, registered, connections_, conn, state_, busy>>,
           \A c : Posted(c)' <=> Posted(c), \A c : BeforePost(c)' <=> BeforePost(c),
           \A l \in Threads : thread[l] = "loop" \/ exiting[l] => thread'[l] = "loop" \/ exiting'[l],
           maker'.stage \in Destroying => maker.stage \in Destroying
    PROVE  ConnInv'
BY DEF ConnInv

LEMMA PoolConn ==
    ASSUME TypeOK, PoolInv, ConnInv, MakePool
    PROVE  ConnInv'
<1>1. PICK i \in DOMAIN Loops :
         Spawn(i) \/ ConstructMembers(i) \/ GetLoop(i) \/ Grant(i) \/ SeesLoopTurn(i)
             \/ Wait(i) \/ AskExit(i) \/ Join(i)
  BY DEF MakePool, PoolStep
<1>2. UNCHANGED <<sock, ioLoop, registered, connections_, conn, state_, busy, posts, main>>
  BY <1>1 DEF MakePool, Spawn, ConstructMembers, GetLoop, Grant, SeesLoopTurn, Wait, AskExit, Join, mainVars, connVars
<1>3. maker'.stage \in Destroying => maker.stage \in Destroying
  BY <1>1, AfterFacts DEF Spawn, ConstructMembers, GetLoop, Grant, SeesLoopTurn, Wait, AskExit, Join,
     Maker, At, Destroying
<1>4. ASSUME NEW l \in Threads, thread[l] = "loop" \/ exiting[l]
      PROVE  thread'[l] = "loop" \/ exiting'[l]
  <2>1. CASE Spawn(i)
    <3>1. thread[Loops[i]] = "none"
      BY <2>1 DEF Spawn, Maker, PoolInv, Making
    <3>2. Loops[i] \in Threads /\ ~exiting[Loops[i]] /\ UNCHANGED exiting
      BY <2>1, LoopsFacts DEF Spawn, Maker, PoolInv, Ending, Destroying
    <3> QED
      BY <1>4, <2>1, <3>1, <3>2 DEF Spawn, TypeOK, ThreadTypes
  <2>2. CASE AskExit(i)
    BY <1>4, <2>2 DEF AskExit, TypeOK, ThreadTypes
  <2>3. CASE ConstructMembers(i) \/ GetLoop(i) \/ Grant(i) \/ SeesLoopTurn(i) \/ Wait(i) \/ Join(i)
    BY <1>4, <2>3 DEF ConstructMembers, GetLoop, Grant, SeesLoopTurn, Wait, Join
  <2> QED
    BY <1>1, <2>1, <2>2, <2>3
<1> QED
  BY <1>2, <1>3, <1>4, ConnKept DEF Posted, BeforePost

LEMMA ThreadConn ==
    ASSUME TypeOK, PoolInv, ConnInv, NEW i \in DOMAIN Loops, LoopStep(i)
    PROVE  ConnInv'
<1> DEFINE l == Loops[i]
<1>1. l \in Threads
  BY LoopsFacts
<1>2. UNCHANGED <<sock, ioLoop, registered, connections_, conn, state_, busy, main, maker, exiting>>
  BY DEF LoopStep, ThreadStep, MakeLoop, EnterLoop, TurnLoop, LeaveLoop, EndThread, mainVars, connVars
<1>3. ASSUME NEW m \in Threads, thread[m] = "loop" \/ exiting[m]
      PROVE  thread'[m] = "loop" \/ exiting[m]
  BY <1>1, <1>3 DEF LoopStep, ThreadStep, MakeLoop, EnterLoop, TurnLoop, LeaveLoop, EndThread, Thread, InLoop,
     TypeOK, ThreadTypes
<1>4. \A c \in Clients : Posted(c)' <=> Posted(c)
  <2>1. CASE MakeLoop(i)
    <3>1. posts' = [posts EXCEPT ![l] = <<Ready>>] /\ posts[l] = <<>>
      BY <1>1, <2>1 DEF MakeLoop, Thread, PoolInv
    <3>2. Ready \notin Clients
      BY ServerAssumption
    <3> QED
      BY <1>1, <3>1, <3>2 DEF Posted, TypeOK, ThreadTypes
  <2>2. CASE TurnLoop(i)
    <3>1. posts[l] # <<>> /\ Head(posts[l]) \notin Clients /\ posts' = [posts EXCEPT ![l] = Tail(@)]
      BY <2>2, ServerAssumption DEF TurnLoop
    <3> HIDE DEF l
    <3> QED
      BY <1>1, <3>1, PostedTail
  <2>3. CASE EnterLoop(i) \/ LeaveLoop(i) \/ EndThread(i)
    BY <2>3 DEF EnterLoop, LeaveLoop, EndThread, Posted
  <2> QED
    BY <2>1, <2>2, <2>3 DEF LoopStep, ThreadStep
<1> QED
  BY <1>2, <1>3, <1>4 DEF ConnInv, BeforePost

LEMMA EstablishedConn ==
    ASSUME TypeOK, MainInv, PostsInv, ConnInv, NEW l \in Threads, connectEstablished(l)
    PROVE  ConnInv'
<1> USE DEF TypeOK, KernelTypes, ServerTypes
<1>1. PICK c \in Clients :
          /\ Established(l, c)
          /\ \/ /\ c \in connections_ \cup {conn}
                /\ registered' = [registered EXCEPT ![c] = TRUE] /\ UNCHANGED sock
             \/ c \notin connections_ \cup {conn} /\ Closing(c)
  BY EstablishedFacts
<1>2. /\ c = Head(posts[l]) /\ posts[l] # <<>> /\ posts' = [posts EXCEPT ![l] = Tail(@)]
      /\ state_' = [state_ EXCEPT ![c] = "kConnected"] /\ thread[l] = "loop"
      /\ UNCHANGED <<maker, thread, exiting, busy, connections_, ioLoop, main, conn>>
  BY <1>1 DEF Established, InLoop, mainVars
<1>3. /\ \A d \in Clients : BeforePost(d)' <=> BeforePost(d)
      /\ \A d \in Clients : d # c => (Posted(d)' <=> Posted(d))
      /\ Posted(c)
  BY <1>2, PostedTail DEF BeforePost
<1>4. ioLoop[c] = l /\ sock[c] = "open" /\ ~BeforePost(c)
  <2>1. posts[l] \in Seq(Clients \cup {Ready})
    BY DEF ThreadTypes
  <2>2. 1 \in DOMAIN posts[l] /\ posts[l][1] = c
    BY <1>2, <2>1, HeadTail
  <2> QED
    BY <2>2 DEF PostsInv
<1>5. \A d \in Clients : d # c => /\ sock'[d] = sock[d] /\ registered'[d] = registered[d]
                                  /\ state_'[d] = state_[d]
  BY <1>1, <1>2 DEF Closing
<1>6. /\ state_'[c] = "kConnected"
      /\ \/ c \in connections_ \cup {conn} /\ registered'[c] /\ sock'[c] = "open"
         \/ c \notin connections_ \cup {conn} /\ ~registered'[c] /\ sock'[c] = "closed"
  BY <1>1, <1>2, <1>4 DEF Closing
<1>7. \A d \in Clients : Owned(d)'
  BY <1>2, <1>3, <1>4, <1>5, <1>6, ConnInvParts DEF Owned
<1>8. \A d \in Clients : registered'[d] => Alive(d)'
  BY <1>2, <1>3, <1>4, <1>5, <1>6, ConnInvParts DEF Alive
<1>9. OneRemoved'
  BY <1>2, <1>5, <1>6, ConnInvParts DEF OneRemoved
<1>10. (conn \notin connections_)'
  BY <1>2, ConnInvParts
<1>11. AllLetGo'
  <2>1. maker.stage \in Destroying => conn \notin Clients
    BY DEF MainInv, Destroying, Serving
  <2> QED
    BY <1>2, <1>5, <1>6, <2>1, ConnInvParts DEF AllLetGo
<1> QED
  BY <1>7, <1>8, <1>9, <1>10, <1>11 DEF ConnInv, Owned, Alive, OneRemoved, AllLetGo

(* getNextLoop gives no null pointer to newConnection.                     *)
LEMMA NextLoopThere ==
    ASSUME TypeOK, PoolInv, MainInv, main \in Serving
    PROVE  getNextLoop \in Threads /\ getNextLoop = Loops[(loopIndex_ % Len(Loops)) + 1]
<1>1. \A l \in Threads : loop_[l]
  BY ServingLoops
<1> QED
  BY <1>1, NextLoop, LoopsFacts DEF getNextLoop, getLoop, TypeOK

LEMMA AcceptConn ==
    ASSUME TypeOK, PoolInv, MainInv, BacklogInv, PostsInv, ConnInv, Accept, Unbroken'
    PROVE  ConnInv'
<1> USE DEF TypeOK, KernelTypes, ServerTypes
<1> DEFINE c == Head(backlog)
<1>1. main = "loop" /\ backlog # <<>> /\ main' = "post" /\ conn' = c
      /\ UNCHANGED <<maker, thread, exiting, busy, posts, registered, connections_>>
  BY DEF Accept, CanAccept, Main, newConnection
<1>2. c \in Clients /\ sock[c] = "none"
  BY <1>1, HeadTail DEF BacklogInv
<1>3. getNextLoop \in Threads
  BY <1>1, NextLoopThere DEF Serving
<1>4. /\ sock' = [sock EXCEPT ![c] = "open"] /\ state_' = [state_ EXCEPT ![c] = "kConnecting"]
      /\ ioLoop' = [ioLoop EXCEPT ![c] = getNextLoop]
  BY DEF Accept, newConnection, TcpConnection
<1> HIDE DEF c
<1>5. conn = Nobody /\ Nobody \notin Clients
  BY <1>1, ServerAssumption DEF Inserting
<1>6. c \notin connections_ /\ ~registered[c]
  BY <1>2, ConnInvParts DEF Owned, Alive
<1>7. \A d \in Clients : d # c => /\ sock'[d] = sock[d] /\ state_'[d] = state_[d] /\ ioLoop'[d] = ioLoop[d]
  BY <1>4
<1>8. \A d \in Clients : /\ BeforePost(d)' <=> d = c
                         /\ ~BeforePost(d) /\ (Posted(d)' <=> Posted(d))
  BY <1>1 DEF BeforePost, Posted
<1>9. sock'[c] = "open" /\ ioLoop'[c] \in Threads
  BY <1>2, <1>3, <1>4
<1>10. \A d \in Clients : Owned(d)'
  BY <1>1, <1>5, <1>6, <1>7, <1>8, <1>9, ConnInvParts DEF Owned
<1>11. \A d \in Clients : registered'[d] => Alive(d)'
  BY <1>1, <1>5, <1>6, <1>7, <1>8, ConnInvParts DEF Alive
<1>12. OneRemoved'
  BY <1>1, <1>6, <1>7, ConnInvParts DEF OneRemoved
<1>13. (conn \notin connections_)' /\ AllLetGo'
  BY <1>1, <1>6, ConnInvParts DEF AllLetGo
<1> QED
  BY <1>10, <1>11, <1>12, <1>13 DEF ConnInv, Owned, Alive, OneRemoved, AllLetGo

LEMMA InsertConn ==
    ASSUME TypeOK, MainInv, ConnInv, PostEstablished \/ Insert
    PROVE  ConnInv'
<1> USE DEF TypeOK, ServerTypes
<1>1. conn \in Clients
  BY DEF PostEstablished, Insert, Main, Inserting
<1>2. UNCHANGED <<sock, state_, ioLoop, registered, maker, thread, exiting, busy>>
  BY DEF PostEstablished, Insert, threadVars, connVars
<1>3. CASE PostEstablished
  <2> DEFINE m == ioLoop[conn]
  <2>1. m \in Threads
    BY <1>1 DEF ConnInv
  <2>2. posts[m] \in Seq(Clients \cup {Ready}) /\ conn \in Clients \cup {Ready}
    BY <1>1, <2>1 DEF ThreadTypes
  <2>3. posts'[m] = Append(posts[m], conn) /\ \A l \in Threads : l # m => posts'[l] = posts[l]
    BY <1>3, <2>1 DEF PostEstablished, ThreadTypes
  <2> HIDE DEF m
  <2>4. /\ \A k \in DOMAIN posts[m] : k \in DOMAIN posts'[m] /\ posts'[m][k] = posts[m][k]
        /\ Len(posts[m]) + 1 \in DOMAIN posts'[m] /\ posts'[m][Len(posts[m]) + 1] = conn
    BY <2>2, <2>3, AppendFacts
  <2>5. Posted(conn)'
    <3>1. \E k \in DOMAIN posts'[m] : posts'[m][k] = conn
      BY <2>4
    <3>2. Posted(conn)' <=> \E l \in Threads : \E k \in DOMAIN posts'[l] : posts'[l][k] = conn'
      BY DEF Posted
    <3> QED
      BY <1>3, <2>1, <3>1, <3>2 DEF PostEstablished
  <2>6. ASSUME NEW d \in Clients, Posted(d)
        PROVE  Posted(d)'
    <3>1. PICK l \in Threads : \E k \in DOMAIN posts[l] : posts[l][k] = d
      BY <2>6 DEF Posted
    <3>2. \E k \in DOMAIN posts'[l] : posts'[l][k] = d
      BY <2>3, <2>4, <3>1
    <3> QED
      BY <3>2 DEF Posted
  <2>7. \A d \in Clients : ~BeforePost(d)' /\ (BeforePost(d) => d = conn)
    BY <1>3 DEF PostEstablished, BeforePost
  <2>8. UNCHANGED <<connections_, conn>>
    BY <1>3 DEF PostEstablished
  <2> QED
    BY <1>2, <2>5, <2>6, <2>7, <2>8 DEF ConnInv
<1>4. CASE Insert
  <2>1. connections_' = connections_ \cup {conn} /\ conn' = Nobody /\ UNCHANGED posts
    BY <1>4 DEF Insert, threadVars
  <2>2. \A d \in Clients : ~BeforePost(d)' /\ ~BeforePost(d) /\ (Posted(d)' <=> Posted(d))
    BY <1>4, <2>1 DEF Insert, Main, BeforePost, Posted
  <2>3. maker.stage \notin Destroying
    BY <1>4 DEF Insert, Main, MainInv, Serving, Inserting, Destroying
  <2>4. Nobody \notin Clients
    BY ServerAssumption
  <2> QED
    BY <1>1, <1>2, <2>1, <2>2, <2>3, <2>4 DEF ConnInv
<1> QED
  BY <1>3, <1>4

LEMMA CloseConn ==
    ASSUME TypeOK, MainInv, ConnInv, NEW c \in Clients, HandleClose(c) \/ removeConnection(c), Unbroken'
    PROVE  ConnInv'
<1> USE DEF TypeOK, KernelTypes, ServerTypes
<1>1. UNCHANGED <<maker, thread, exiting, posts, main, conn, ioLoop>> /\ registered[c]
  BY DEF HandleClose, removeConnection, CanRead, mainVars
<1>2. \A d \in Clients : (BeforePost(d)' <=> BeforePost(d)) /\ (Posted(d)' <=> Posted(d))
  BY <1>1 DEF BeforePost, Posted
<1>3. ioLoop[c] \in Threads
  BY <1>1 DEF ConnInv
<1>4. CASE HandleClose(c)
  <2>1. /\ busy[ioLoop[c]] = "no" /\ busy' = [busy EXCEPT ![ioLoop[c]] = "removing"]
        /\ state_' = [state_ EXCEPT ![c] = "kDisconnected"]
        /\ UNCHANGED <<sock, registered, connections_>>
    BY <1>4 DEF HandleClose, CanRead, InLoop
  <2>2. \A d \in Clients : registered[d] /\ ioLoop[d] = ioLoop[c] => state_[d] # "kDisconnected"
    BY <2>1 DEF ConnInv
  <2>3. \A d \in Clients : registered[d] => Alive(d)'
    <3> SUFFICES ASSUME NEW d \in Clients, registered[d] PROVE Alive(d)'
      OBVIOUS
    <3>1. ioLoop[d] \in Threads /\ Alive(d)
      BY ConnInvParts DEF Owned, Alive
    <3>2. busy'[ioLoop[d]] = IF ioLoop[d] = ioLoop[c] THEN "removing" ELSE busy[ioLoop[d]]
      BY <2>1, <3>1 DEF ThreadTypes
    <3>3. state_'[d] = IF d = c THEN "kDisconnected" ELSE state_[d]
      BY <2>1
    <3> QED
      BY <1>1, <1>2, <2>1, <3>1, <3>2, <3>3 DEF Alive
  <2>4. OneRemoved'
    BY <1>1, <2>1, <2>2, ConnInvParts DEF OneRemoved
  <2>5. \A d \in Clients : Owned(d)'
    BY <1>1, <1>2, <2>1, ConnInvParts DEF Owned
  <2>6. (conn \notin connections_)' /\ AllLetGo'
    BY <1>1, <2>1, ConnInvParts DEF AllLetGo
  <2> QED
    BY <2>1, <2>3, <2>4, <2>5, <2>6 DEF ConnInv, Owned, Alive, OneRemoved, AllLetGo
<1>5. CASE removeConnection(c)
  <2>1. /\ c \in connections_ /\ connections_' = connections_ \ {c} /\ state_[c] = "kDisconnected"
        /\ busy' = [busy EXCEPT ![ioLoop[c]] = "no"] /\ UNCHANGED state_
    BY <1>5 DEF removeConnection, Unbroken
  <2>2. Closing(c)
    BY <1>5, DestroyedFacts DEF removeConnection
  <2>3. /\ sock'[c] = "closed" /\ ~registered'[c]
        /\ \A d \in Clients : d # c => sock'[d] = sock[d] /\ registered'[d] = registered[d]
    BY <2>2 DEF Closing
  <2>4. conn # c
    BY <2>1 DEF ConnInv
  <2>5. \A d \in Clients : registered'[d] => Alive(d)'
    <3> SUFFICES ASSUME NEW d \in Clients, registered'[d] PROVE Alive(d)'
      OBVIOUS
    <3>1. d # c /\ registered[d] /\ ioLoop[d] \in Threads /\ Alive(d)
      BY <2>3, ConnInvParts DEF Owned, Alive
    <3>2. busy'[ioLoop[d]] = busy[ioLoop[d]] \/ (ioLoop[d] = ioLoop[c] /\ state_[d] = "kConnected")
      BY <1>1, <2>1, <3>1, ConnInvParts DEF ThreadTypes, OneRemoved, Alive
    <3> QED
      BY <1>1, <1>2, <2>1, <2>3, <3>1, <3>2 DEF Alive
  <2>6. \A d \in Clients : Owned(d)'
    BY <1>1, <1>2, <2>1, <2>3, <2>4, ConnInvParts DEF Owned
  <2>7. OneRemoved' /\ (conn \notin connections_)' /\ AllLetGo'
    BY <1>1, <2>1, <2>3, ConnInvParts DEF OneRemoved, AllLetGo
  <2> QED
    BY <2>5, <2>6, <2>7 DEF ConnInv, Owned, Alive, OneRemoved, AllLetGo
<1> QED
  BY <1>4, <1>5

LEMMA ConnInvStep ==
    ASSUME TypeOK, PoolInv, MainInv, BacklogInv, PostsInv, ConnInv, Next, Unbroken'
    PROVE  ConnInv'
<1> USE DEF TypeOK, KernelTypes, ServerTypes
<1>1. CASE UNCHANGED <<sock, ioLoop, registered, connections_, conn, state_, busy, posts, thread, exiting, maker>>
           /\ (main' = "post" <=> main = "post")
  BY <1>1, ConnKept DEF Posted, BeforePost
<1>2. CASE AcceptAborted \/ Refuse
  <2> DEFINE c == Head(backlog)
  <2>1. backlog # <<>> /\ sock' = [sock EXCEPT ![c] = "closed"]
    BY <1>2 DEF AcceptAborted, Refuse, CanAccept, Main
  <2>2. UNCHANGED <<ioLoop, registered, connections_, conn, state_, busy, posts, thread, exiting, maker>>
        /\ main # "post" /\ main' # "post"
    BY <1>2 DEF AcceptAborted, Refuse, CanAccept, Main, mainVars, threadVars
  <2>3. c \in Clients /\ sock[c] = "none"
    BY <2>1, HeadTail DEF BacklogInv
  <2> HIDE DEF c
  <2> QED
    BY <2>1, <2>2, <2>3 DEF ConnInv, Posted, BeforePost
<1>3. CASE EndLoops \/ Destroy
  <2>1. UNCHANGED <<sock, ioLoop, registered, conn, state_, busy, posts, thread, main>>
        /\ connections_' \in {connections_, {}} /\ (connections_' = {} \/ UNCHANGED connections_)
    BY <1>3 DEF EndLoops, AskExits, Destroy, mainVars, connVars
  <2>2. \A l \in Threads : exiting[l] => exiting'[l]
    BY <1>3 DEF EndLoops, AskExits, Destroy, ThreadTypes
  <2>3. CASE Destroy
    <3>1. connections_' = {} /\ \A c \in Clients : ~registered[c]
      BY <2>3 DEF Destroy, Unbroken
    <3> QED
      BY <2>1, <2>2, <3>1 DEF ConnInv, Posted, BeforePost
  <2>4. CASE EndLoops
    <3>1. maker'.stage \notin Destroying /\ UNCHANGED connections_
      BY <2>4 DEF EndLoops, AskExits, At, Destroying
    <3> QED
      BY <2>1, <2>2, <3>1, ConnKept DEF Posted, BeforePost
  <2> QED
    BY <1>3, <2>3, <2>4
<1>4. CASE MakeAcceptor \/ start \/ AcceptFails \/ BeginInsert \/ OutOfFds \/ Gone \/ StartReturns
  <2>1. UNCHANGED <<sock, ioLoop, registered, connections_, conn, state_, busy, posts, thread, exiting, maker>>
    BY <1>4, QuietSteps DEF MakeAcceptor, start, BeginInsert, OutOfFds, Gone, StartReturns, threadVars, mainVars, connVars
  <2>2. main' # "post" /\ main # "post"
    BY <1>4, QuietSteps DEF MakeAcceptor, start, AcceptFails, BeginInsert, OutOfFds, Gone, StartReturns, CanAccept, Main,
       mainVars
  <2> QED
    BY <1>1, <2>1, <2>2
<1>5. ASSUME NEW i \in DOMAIN Loops, LoopThread(i)
      PROVE  ConnInv'
  BY <1>5, LoopsFacts, ThreadConn, EstablishedConn DEF LoopThread
<1>6. ASSUME NEW c \in Clients, ConnectionStep(c)
      PROVE  ConnInv'
  <2>1. CASE HandleInput(c) \/ ReadFails(c)
    BY <1>1, <2>1, QuietSteps DEF threadVars, mainVars, connVars
  <2> QED
    BY <1>6, <2>1, CloseConn DEF ConnectionStep
<1>7. CASE ClientStep
  BY <1>1, <1>7, QuietSteps DEF threadVars, mainVars, connVars
<1> QED
  BY <1>2, <1>3, <1>4, <1>5, <1>6, <1>7, PoolConn, AcceptConn, InsertConn DEF Next, MainStep

(* --------------------------- the descriptors ---------------------------- *)
LEMMA FdInvStep ==
    ASSUME TypeOK, MainInv, BacklogInv, ConnInv, FdInv, Next
    PROVE  FdInv'
<1> USE DEF TypeOK, KernelTypes, ServerTypes
<1>1. IsFiniteSet(Open) /\ Cardinality(Open) \in Nat
  BY ServerAssumption, FS_Subset, FS_CardinalityType DEF Open
<1>2. ASSUME UNCHANGED maxFds, \A c \in Clients : sock'[c] = "open" => sock[c] = "open"
      PROVE  FdInv'
  <2>1. Open' \subseteq Open
    BY <1>2 DEF Open
  <2>2. Cardinality(Open') <= Cardinality(Open) /\ Cardinality(Open') \in Nat
    BY <1>1, <2>1, FS_Subset, FS_CardinalityType
  <2> QED
    BY <1>1, <1>2, <2>2 DEF FdInv
<1>3. CASE Accept
  <2> DEFINE c == Head(backlog)
  <2>1. backlog # <<>> /\ main = "loop" /\ OpenFds < maxFds /\ UNCHANGED maxFds
    BY <1>3 DEF Accept, CanAccept, Main, accept
  <2>2. c \in Clients /\ sock[c] = "none"
    BY <2>1, HeadTail DEF BacklogInv
  <2>3. sock' = [sock EXCEPT ![c] = "open"]
    BY <1>3 DEF Accept, newConnection, TcpConnection
  <2> HIDE DEF c
  <2>4. Open' = Open \cup {c} /\ c \notin Open
    BY <2>2, <2>3 DEF Open
  <2>5. Cardinality(Open') = Cardinality(Open) + 1
    BY <1>1, <2>4, FS_AddElement
  <2>6. idleFd_
    BY <2>1 DEF MainInv, Serving, Making
  <2>7. Cardinality(Open) + 1 < maxFds
    BY <2>1, <2>6 DEF OpenFds, Open
  <2> QED
    BY <2>1, <2>5, <2>7 DEF FdInv
<1>4. CASE AcceptAborted \/ Refuse
  <2> DEFINE c == Head(backlog)
  <2>1. UNCHANGED maxFds /\ sock' = [sock EXCEPT ![c] = "closed"]
    BY <1>4 DEF AcceptAborted, Refuse
  <2> HIDE DEF c
  <2> QED
    BY <1>2, <2>1
<1>5. CASE MakePool \/ MakeAcceptor \/ start \/ PostEstablished \/ BeginInsert \/ Insert \/ OutOfFds \/ Gone
           \/ StartReturns \/ EndLoops \/ Destroy \/ AcceptFails
  <2>1. UNCHANGED <<maxFds, sock>>
    BY <1>5, QuietSteps DEF kernelVars, connVars, MakePool, MakeAcceptor, start, PostEstablished, BeginInsert,
       Insert, OutOfFds, Gone, StartReturns, EndLoops, Destroy
  <2> QED
    BY <1>2, <2>1
<1>6. ASSUME NEW i \in DOMAIN Loops, LoopThread(i)
      PROVE  FdInv'
  <2>1. CASE LoopStep(i)
    BY <1>2, <2>1 DEF LoopStep, kernelVars, connVars
  <2>2. CASE connectEstablished(Loops[i])
    <3>1. PICK c \in Clients : Established(Loops[i], c) /\ (UNCHANGED sock \/ Closing(c))
      BY <2>2, LoopsFacts, EstablishedFacts
    <3> QED
      BY <1>2, <3>1 DEF Established, Closing, kernelVars
  <2> QED
    BY <1>6, <2>1, <2>2 DEF LoopThread
<1>7. ASSUME NEW c \in Clients, ConnectionStep(c)
      PROVE  FdInv'
  <2>1. CASE HandleInput(c) \/ ReadFails(c) \/ HandleClose(c)
    <3>1. UNCHANGED <<maxFds, sock>>
      BY <2>1, QuietSteps DEF HandleClose, kernelVars, connVars
    <3> QED
      BY <1>2, <3>1
  <2>2. CASE removeConnection(c)
    <3>1. Closing(c) /\ UNCHANGED maxFds
      BY <2>2, DestroyedFacts DEF removeConnection, kernelVars
    <3> QED
      BY <1>2, <3>1 DEF Closing
  <2> QED
    BY <1>7, <2>1, <2>2 DEF ConnectionStep
<1>8. CASE ClientStep
  BY <1>2, <1>8, QuietSteps DEF connVars
<1> QED
  BY <1>3, <1>4, <1>5, <1>6, <1>7, <1>8 DEF Next, MainStep

(* ----------------------- the invariant is inductive --------------------- *)
LEMMA InitInv == Init => IInv
<1> SUFFICES ASSUME Init PROVE PoolInv /\ MainInv /\ BacklogInv /\ PostsInv /\ ConnInv /\ FdInv
  BY DEF IInv
<1>1. maker = At("construct", 1) /\ main = "acceptor" /\ conn = Nobody
      /\ Nobody \notin Clients /\ Ready \notin Clients
  BY ServerAssumption DEF Init, ThreadsInit
<1>2. PoolInv
  BY <1>1, LoopsFacts DEF Init, ThreadsInit, PoolInv, At, Making, Ending, Destroying
<1>3. MainInv
  BY <1>1 DEF MainInv, At, Serving, Inserting, Making
<1>4. backlog = <<>> /\ BacklogInv
  BY DEF Init, BacklogInv
<1>5. \A l \in Threads : posts[l] = <<>>
  BY DEF Init, ThreadsInit
<1>6. PostsInv
  BY <1>5 DEF PostsInv
<1>7. ConnInv
  BY <1>1 DEF Init, ConnInv, At, Destroying, BeforePost
<1>8. FdInv
  <2>1. Open = {}
    BY DEF Init, Open
  <2> QED
    BY <2>1, FS_EmptySet, ServerAssumption DEF Init, FdInv
<1> QED
  BY <1>2, <1>3, <1>4, <1>6, <1>7, <1>8

LEMMA NextUnbroken == Next => Unbroken
BY DEF Next, ClientStep, Connect, Send, Finish, Reset, MainStep, MakePool, MakeAcceptor, start, Accept,
       AcceptAborted, AcceptFails, PostEstablished, BeginInsert, Insert, OutOfFds, Refuse, Gone, CanAccept, StartReturns,
       EndLoops, Destroy, Main, LoopThread, LoopStep, ThreadStep, MakeLoop, EnterLoop, TurnLoop, LeaveLoop,
       EndThread, Thread, InLoop, connectEstablished, ConnectionStep, HandleInput, ReadFails, HandleClose,
       removeConnection, CanRead

LEMMA NextInv == TypeOK /\ IInv /\ [Next]_vars => IInv'
<1> SUFFICES ASSUME TypeOK, IInv, [Next]_vars PROVE IInv'
  OBVIOUS
<1>1. CASE Next
  <2>1. PoolInv /\ MainInv /\ BacklogInv /\ PostsInv /\ ConnInv /\ FdInv
    BY <1>1, NextUnbroken DEF IInv
  <2> QED
    BY <1>1, <2>1, PoolInvStep, MainInvStep, BacklogInvStep, PostsInvStep, ConnInvStep, FdInvStep DEF IInv
<1>2. CASE UNCHANGED vars
  BY <1>2 DEF IInv, Unbroken, PoolInv, MainInv, BacklogInv, PostsInv, ConnInv, FdInv, Open, Posted, BeforePost,
     vars, threadVars, kernelVars, mainVars, acceptorVars, connVars
<1> QED
  BY <1>1, <1>2

LEMMA Invariant == Spec => [](TypeOK /\ IInv)
<1> QED
  BY InitTypes, TypesStep, InitInv, NextInv, PTL DEF Spec

(* ------------------------------ theorems -------------------------------- *)
(* LiveHandlers, on every number of loops and clients: a handler that can  *)
(* start finds its connection established, held and open, and its loop not *)
(* gone, whatever the main thread does meanwhile.                          *)
THEOREM HandlersFindTheirConnection == Spec => []LiveHandlers
<1>1. TypeOK /\ IInv => LiveHandlers
  BY DEF IInv, ConnInv, LiveHandlers
<1> QED
  BY <1>1, Invariant, PTL

(* DescriptorsHeld, on every limit: no socket without an owner, no more    *)
(* descriptors than the limit, the spare one back in the loop, and nothing *)
(* open when ~TcpServer has returned.                                      *)
THEOREM NoDescriptorLost == Spec => []DescriptorsHeld
<1>1. ASSUME TypeOK, IInv, Unbroken PROVE DescriptorsHeld
  <2> USE <1>1 DEF TypeOK, KernelTypes, ServerTypes
  <2>1. PoolInv /\ MainInv /\ ConnInv /\ FdInv
    BY DEF IInv
  <2>2. IsFiniteSet(Open) /\ Cardinality(Open) \in Nat
    BY ServerAssumption, FS_Subset, FS_CardinalityType DEF Open
  <2>3. OpenFds = Cardinality(Open) + IF idleFd_ THEN 1 ELSE 0
    BY DEF OpenFds, Open
  <2>4. OpenFds <= maxFds
    BY <2>1, <2>2, <2>3 DEF FdInv
  <2>5. main = "loop" => idleFd_
    BY <2>1 DEF MainInv, Serving, Making
  <2>6. ASSUME NEW c \in Clients, sock[c] = "open"
        PROVE  c = conn \/ c \in connections_ \/ \E l \in Threads : c \in PostedTo(l)
    <3>1. registered[c] \/ Posted(c) \/ BeforePost(c)
      BY <2>1, <2>6 DEF ConnInv
    <3> QED
      BY <2>1, <3>1 DEF ConnInv, Posted, BeforePost, PostedTo
  <2>7. ASSUME main = "gone" PROVE OpenFds = 0 /\ acceptSocket_ = "closed"
    <3>1. maker.stage = "joined" /\ ~idleFd_ /\ acceptSocket_ = "closed"
      BY <2>1, <2>7 DEF MainInv
    <3>2. \A l \in Threads : posts[l] = <<>>
      BY <2>1, <3>1 DEF PoolInv
    <3>3. \A c \in Clients : ~registered[c] /\ ~Posted(c) /\ ~BeforePost(c)
      BY <2>1, <2>7, <3>1, <3>2 DEF ConnInv, Destroying, Posted, BeforePost
    <3>4. Open = {}
      BY <2>1, <3>3 DEF ConnInv, Open
    <3> QED
      BY <2>3, <3>1, <3>4, FS_EmptySet
  <2> QED
    BY <2>4, <2>5, <2>6, <2>7 DEF DescriptorsHeld
<1>2. TypeOK /\ IInv => DescriptorsHeld
  BY <1>1 DEF DescriptorsHeld
<1> QED
  BY <1>2, Invariant, PTL

(* newConnection posts to a loop, never through a null pointer: from       *)
(* start() on every thread has its loop, and those loops outlive the main  *)
(* loop, though getLoop() reads loop_ without its mutex.                   *)
THEOREM NoNullLoop == Spec => [](fault # "null loop")
<1>1. Init => fault # "null loop"
  BY DEF Init, ThreadsInit
<1>2. TypeOK /\ IInv /\ fault # "null loop" /\ [Next]_vars => (fault # "null loop")'
  <2> SUFFICES ASSUME TypeOK, IInv, fault # "null loop", [Next]_vars PROVE fault' # "null loop"
    OBVIOUS
  <2>1. CASE Accept
    <3>1. PoolInv /\ MainInv /\ main = "loop"
      BY <2>1 DEF Accept, CanAccept, Main, IInv
    <3>2. getNextLoop # NoLoop
      BY <3>1, NextLoopThere, LoopsFacts DEF Serving
    <3> QED
      BY <2>1, <3>2 DEF Accept, newConnection
  <2>2. CASE MakePool
    BY <2>2 DEF MakePool, PoolStep, Spawn, ConstructMembers, GetLoop, Grant, SeesLoopTurn, Wait, AskExit, Join
  <2>3. CASE MakeAcceptor
    BY <2>3 DEF MakeAcceptor, Acceptor, bindOrDie
  <2>4. CASE PostEstablished \/ BeginInsert \/ EndLoops \/ Destroy
    BY <2>4 DEF PostEstablished, BeginInsert, EndLoops, AskExits, Destroy
  <2>5. ASSUME NEW i \in DOMAIN Loops, LoopThread(i)
        PROVE  fault' # "null loop"
    BY <2>5 DEF LoopThread, LoopStep, ThreadStep, MakeLoop, EnterLoop, TurnLoop, LeaveLoop, EndThread,
       connectEstablished
  <2>6. ASSUME NEW c \in Clients, ConnectionStep(c)
        PROVE  fault' # "null loop"
    BY <2>6, QuietSteps DEF ConnectionStep, HandleClose, removeConnection, threadVars
  <2>7. CASE UNCHANGED threadVars
    BY <2>7 DEF threadVars
  <2> QED
    BY <2>1, <2>2, <2>3, <2>4, <2>5, <2>6, <2>7, QuietSteps DEF Next, MainStep, vars, threadVars
<1> QED
  BY <1>1, <1>2, Invariant, PTL DEF Spec

(* ------------------------------ the bytes ------------------------------- *)
(* The bytes 1 .. r are in t, no later one before the first of an earlier. *)
WrittenTo(t, r) ==
    \A b \in 1 .. r :
        /\ \E k \in DOMAIN t : t[k] = b
        /\ \A a \in 1 .. b : \E k, m \in DOMAIN t : k <= m /\ t[k] = a /\ t[m] = b

BytesInv ==
    /\ sent \in [Clients -> Nat] /\ got \in [Clients -> Nat] /\ retrieved \in [Clients -> Nat]
    /\ tx \in [Clients -> Seq(Nat)]
    /\ \A c \in Clients : retrieved[c] <= got[c] /\ got[c] <= sent[c] /\ WrittenTo(tx[c], retrieved[c])

(* What one write adds to what was written.                                *)
LEMMA WriteFacts ==
    ASSUME NEW t \in Seq(Nat), NEW r \in Nat, NEW n \in Nat, WrittenTo(t, r)
    PROVE  /\ t \o Numbers(r, n) \in Seq(Nat)
           /\ WrittenTo(t \o Numbers(r, n), r) /\ WrittenTo(t \o Numbers(r, n), r + n)
<1> DEFINE u == t \o Numbers(r, n)
<1>1. Numbers(r, n) \in Seq(Nat) /\ Len(Numbers(r, n)) = n /\ \A k \in 1 .. n : Numbers(r, n)[k] = r + k
  BY DEF Numbers
<1>2. u \in Seq(Nat) /\ Len(u) = Len(t) + n /\ Len(t) \in Nat
      /\ (\A k \in DOMAIN t : k \in DOMAIN u /\ k \in 1 .. Len(t) /\ u[k] = t[k])
      /\ (\A k \in 1 .. n : Len(t) + k \in DOMAIN u /\ u[Len(t) + k] = r + k)
  <2> DEFINE v == Numbers(r, n)
  <2>1. v \in Seq(Nat) /\ Len(v) = n /\ \A k \in 1 .. n : v[k] = r + k
    BY <1>1
  <2> HIDE DEF v
  <2>2. t \o v \in Seq(Nat) /\ Len(t \o v) = Len(t) + n /\ Len(t) \in Nat
    BY <2>1
  <2>3. \A k \in DOMAIN t : k \in DOMAIN (t \o v) /\ k \in 1 .. Len(t) /\ (t \o v)[k] = t[k]
    BY <2>1
  <2>4. ASSUME NEW k \in 1 .. n
        PROVE  Len(t) + k \in DOMAIN (t \o v) /\ (t \o v)[Len(t) + k] = r + k
    <3>1. Len(t) + k \in 1 .. Len(t) + Len(v) /\ Len(t) + k > Len(t) /\ Len(t) + k - Len(t) = k
      BY <2>1, <2>2
    <3>2. (t \o v)[Len(t) + k] = v[Len(t) + k - Len(t)]
      BY <2>1, <3>1
    <3> QED
      BY <2>1, <2>2, <3>1, <3>2
  <2> QED
    BY <2>2, <2>3, <2>4 DEF v
<1> HIDE DEF u
<1>3. ASSUME NEW b \in 1 .. r, NEW a \in 1 .. b
      PROVE  \E k, m \in DOMAIN u : k <= m /\ u[k] = a /\ u[m] = b
  <2>1. PICK k \in DOMAIN t, m \in DOMAIN t : k <= m /\ t[k] = a /\ t[m] = b
    BY DEF WrittenTo
  <2> QED
    BY <1>2, <2>1
<1>4. ASSUME NEW b \in r + 1 .. r + n
      PROVE  Len(t) + (b - r) \in DOMAIN u /\ u[Len(t) + (b - r)] = b
  <2>1. b - r \in 1 .. n /\ r + (b - r) = b
    OBVIOUS
  <2> QED
    BY <1>2, <2>1
<1>5. ASSUME NEW b \in r + 1 .. r + n, NEW a \in 1 .. b
      PROVE  \E k, m \in DOMAIN u : k <= m /\ u[k] = a /\ u[m] = b
  <2> DEFINE m == Len(t) + (b - r)
  <2>1. m \in DOMAIN u /\ u[m] = b /\ m >= Len(t) + 1
    BY <1>2, <1>4
  <2>2. CASE a \in 1 .. r
    <3>1. PICK k \in DOMAIN t : t[k] = a
      BY <2>2 DEF WrittenTo
    <3>2. k \in DOMAIN u /\ u[k] = a /\ k <= m
      BY <1>2, <2>1, <3>1
    <3> QED
      BY <2>1, <3>2
  <2>3. CASE a \in r + 1 .. r + n
    <3>1. Len(t) + (a - r) \in DOMAIN u /\ u[Len(t) + (a - r)] = a /\ Len(t) + (a - r) <= m
      BY <1>2, <1>4, <2>3
    <3> QED
      BY <2>1, <3>1
  <2> QED
    BY <2>2, <2>3
<1>6. ASSUME NEW b \in 1 .. r + n
      PROVE  \A a \in 1 .. b : \E k, m \in DOMAIN u : k <= m /\ u[k] = a /\ u[m] = b
  <2>1. b \in 1 .. r \/ b \in r + 1 .. r + n
    OBVIOUS
  <2> QED
    BY <1>3, <1>5, <2>1
<1>7. \A b \in 1 .. r + n : \E k \in DOMAIN u : u[k] = b
  BY <1>6
<1>8. WrittenTo(u, r + n)
  BY <1>6, <1>7 DEF WrittenTo
<1>9. WrittenTo(u, r)
  <2>1. \A b \in 1 .. r : b \in 1 .. r + n
    OBVIOUS
  <2> QED
    BY <1>8, <2>1 DEF WrittenTo
<1> QED
  BY <1>2, <1>8, <1>9 DEF u

LEMMA InputBytes ==
    ASSUME BytesInv, NEW c \in Clients, HandleInput(c)
    PROVE  BytesInv'
<1>1. PICK upTo \in readv(c) : got' = [got EXCEPT ![c] = upTo]
  BY DEF HandleInput
<1>2. PICK n \in write(c, got'[c] - retrieved[c]) :
         /\ tx' = [tx EXCEPT ![c] = @ \o Numbers(retrieved[c], n)]
         /\ IF n = got'[c] - retrieved[c] THEN retrieved' = [retrieved EXCEPT ![c] = got'[c]] ELSE UNCHANGED retrieved
  BY DEF HandleInput, doMessageDefault, send, doWriteCompleteDefault
<1>3. UNCHANGED sent
  BY DEF HandleInput, kernelVars
<1>4. got'[c] \in Nat /\ got[c] <= got'[c] /\ got'[c] <= sent[c] /\ retrieved[c] \in Nat /\ retrieved[c] <= got[c]
  BY <1>1 DEF BytesInv, readv
<1>5. n \in 0 .. got'[c] - retrieved[c]
  BY <1>2, <1>4 DEF write, BytesInv
<1> DEFINE u == tx[c] \o Numbers(retrieved[c], n)
<1>6. u \in Seq(Nat) /\ WrittenTo(u, retrieved[c]) /\ WrittenTo(u, retrieved[c] + n)
  BY <1>4, <1>5, WriteFacts DEF BytesInv
<1>7. tx' = [tx EXCEPT ![c] = u]
  BY <1>2
<1> HIDE DEF u
<1>8. retrieved' \in [Clients -> Nat] /\ retrieved'[c] <= got'[c] /\ WrittenTo(u, retrieved'[c])
      /\ \A d \in Clients : d # c => retrieved'[d] = retrieved[d]
  <2>1. CASE n = got'[c] - retrieved[c]
    <3>1. retrieved' = [retrieved EXCEPT ![c] = got'[c]] /\ got'[c] = retrieved[c] + n
      BY <1>2, <1>4, <2>1
    <3> QED
      BY <1>4, <1>6, <3>1 DEF BytesInv
  <2>2. CASE n # got'[c] - retrieved[c]
    BY <1>2, <1>4, <1>6, <2>2 DEF BytesInv
  <2> QED
    BY <2>1, <2>2
<1>9. got' \in [Clients -> Nat] /\ tx' \in [Clients -> Seq(Nat)] /\ tx'[c] = u
      /\ \A d \in Clients : d # c => got'[d] = got[d] /\ tx'[d] = tx[d]
  BY <1>1, <1>4, <1>6, <1>7 DEF BytesInv
<1> QED
  BY <1>3, <1>4, <1>8, <1>9 DEF BytesInv

LEMMA BytesStep == BytesInv /\ [Next]_vars => BytesInv'
<1> SUFFICES ASSUME BytesInv, [Next]_vars PROVE BytesInv'
  OBVIOUS
<1>1. CASE UNCHANGED <<sent, got, retrieved, tx>>
  BY <1>1 DEF BytesInv
<1>2. ASSUME NEW c \in Clients, Send(c)
      PROVE  BytesInv'
  <2>1. sent' = [sent EXCEPT ![c] = @ + 1] /\ UNCHANGED <<got, retrieved, tx>>
    BY <1>2 DEF Send, connVars, bufferVars
  <2> QED
    BY <2>1 DEF BytesInv
<1>3. ASSUME NEW c \in Clients, Connect(c) \/ Finish(c) \/ Reset(c)
      PROVE  UNCHANGED <<sent, got, retrieved, tx>>
  BY <1>3 DEF Connect, Finish, Reset, connVars, bufferVars
<1>4. MainStep => UNCHANGED <<sent, got, retrieved, tx>>
  BY QuietSteps DEF MainStep, MakePool, MakeAcceptor, start, Accept, AcceptAborted, PostEstablished, BeginInsert, Insert,
     OutOfFds, Refuse, Gone, kernelVars, connVars, bufferVars
<1>5. StartReturns \/ EndLoops \/ Destroy => UNCHANGED <<sent, got, retrieved, tx>>
  BY DEF StartReturns, EndLoops, Destroy, kernelVars, connVars, bufferVars
<1>6. ASSUME NEW i \in DOMAIN Loops, LoopThread(i)
      PROVE  UNCHANGED <<sent, got, retrieved, tx>>
  BY <1>6 DEF LoopThread, LoopStep, connectEstablished, kernelVars, connVars, bufferVars
<1>7. ASSUME NEW c \in Clients, ReadFails(c) \/ HandleClose(c) \/ removeConnection(c)
      PROVE  UNCHANGED <<sent, got, retrieved, tx>>
  BY <1>7 DEF ReadFails, HandleClose, removeConnection, kernelVars, connVars, bufferVars
<1>8. UNCHANGED vars => UNCHANGED <<sent, got, retrieved, tx>>
  BY DEF vars, kernelVars, connVars, bufferVars
<1> QED
  BY <1>1, <1>2, <1>3, <1>4, <1>5, <1>6, <1>7, <1>8, InputBytes DEF Next, ClientStep, ConnectionStep

(* NothingLost, for any number of bytes however they are cut: by readv, by *)
(* short writes, by writes that a reset socket refuses.                    *)
THEOREM BytesReachTheClient == Spec => []NothingLost
<1>1. Init => BytesInv
  BY DEF Init, BytesInv, WrittenTo
<1>2. BytesInv => NothingLost
  BY DEF BytesInv, WrittenTo, NothingLost
<1> QED
  BY <1>1, <1>2, BytesStep, PTL DEF Spec

(* ----------------------------- the next loop ---------------------------- *)
given(l) == Cardinality({c \in Clients : ioLoop[c] = l})

(* How many connections each loop was given: all the same number q, and    *)
(* one more the loops before the next.                                     *)
Dealt ==
    \E q \in Nat : \A j \in DOMAIN Loops :
        given(Loops[j]) = q + IF j <= loopIndex_ % Len(Loops) THEN 1 ELSE 0

LEMMA UniqueRemainder ==
    ASSUME NEW N \in Nat, NEW a \in Int, NEW b \in Int, NEW s \in Int, NEW t \in Int,
           0 <= s, s < N, 0 <= t, t < N, N * a + s = N * b + t
    PROVE  s = t
<1>1. N * (a - b) = t - s
  OBVIOUS
<1>2. CASE a = b
  BY <1>2
<1>3. CASE a >= b + 1
  <2>1. N * (a - b) >= N * 1
    BY <1>3
  <2> QED
    BY <1>1, <2>1
<1>4. CASE b >= a + 1
  <2>1. N * (b - a) >= N * 1
    BY <1>4
  <2>2. N * (b - a) = s - t
    OBVIOUS
  <2> QED
    BY <2>1, <2>2
<1> QED
  BY <1>2, <1>3, <1>4

LEMMA NextRemainder ==
    ASSUME NEW N \in Nat \ {0}, NEW i \in Nat
    PROVE  /\ i % N \in 0 .. N - 1
           /\ (i + 1) % N = IF i % N = N - 1 THEN 0 ELSE (i % N) + 1
<1>1. i % N \in 0 .. N - 1 /\ i = N * (i \div N) + (i % N) /\ i \div N \in Nat
  OBVIOUS
<1>2. (i + 1) % N \in 0 .. N - 1 /\ i + 1 = N * ((i + 1) \div N) + ((i + 1) % N) /\ (i + 1) \div N \in Nat
  OBVIOUS
<1> DEFINE q == i \div N  p == (i + 1) \div N  s == (i + 1) % N
<1> HIDE DEF q, p, s
<1>3. CASE i % N = N - 1
  <2>1. i + 1 = N * (q + 1) + 0
    BY <1>1, <1>3 DEF q
  <2>2. i + 1 = N * p + s /\ p \in Int /\ q + 1 \in Int /\ s \in Int /\ 0 <= s /\ s < N /\ 0 < N
    BY <1>1, <1>2 DEF p, q, s
  <2>3. s = 0
    BY <2>1, <2>2, UniqueRemainder
  <2> QED
    BY <1>1, <1>3, <2>3 DEF s
<1>4. CASE i % N # N - 1
  <2> DEFINE r == (i % N) + 1
  <2>1. i + 1 = N * q + r /\ q \in Int /\ r \in Int /\ 0 <= r /\ r < N
    BY <1>1, <1>4 DEF q
  <2> HIDE DEF r
  <2>2. i + 1 = N * p + s /\ p \in Int /\ s \in Int /\ 0 <= s /\ s < N
    BY <1>2 DEF p, s
  <2>3. s = r
    BY <2>1, <2>2, UniqueRemainder
  <2> QED
    BY <1>1, <1>4, <2>3 DEF s, r
<1> QED
  BY <1>1, <1>3, <1>4

LEMMA AcceptDeals ==
    ASSUME TypeOK, PoolInv, MainInv, BacklogInv, Dealt, Accept
    PROVE  Dealt'
<1> USE DEF TypeOK, KernelTypes, ServerTypes
<1> DEFINE c == Head(backlog)  N == Len(Loops)  r == loopIndex_ % N
<1>1. main = "loop" /\ backlog # <<>> /\ loopIndex_' = loopIndex_ + 1
      /\ ioLoop' = [ioLoop EXCEPT ![c] = getNextLoop]
  BY DEF Accept, CanAccept, Main, newConnection, TcpConnection
<1>2. getNextLoop = Loops[r + 1]
  BY <1>1, NextLoopThere DEF Serving
<1>3. c \in Clients /\ ioLoop[c] = Nobody
  BY <1>1, HeadTail DEF BacklogInv
<1>4. r \in 0 .. N - 1 /\ N \in Nat \ {0} /\ DOMAIN Loops = 1 .. N
      /\ loopIndex_' % N = IF r = N - 1 THEN 0 ELSE r + 1
  <2>1. N \in Nat \ {0} /\ DOMAIN Loops = 1 .. N /\ loopIndex_ \in Nat
    BY LoopsFacts
  <2> HIDE DEF N
  <2>2. /\ r \in 0 .. N - 1
        /\ (loopIndex_ + 1) % N = IF r = N - 1 THEN 0 ELSE r + 1
    BY <2>1, NextRemainder
  <2> QED
    BY <1>1, <2>1, <2>2
<1> HIDE DEF c
<1>5. ASSUME NEW j \in DOMAIN Loops
      PROVE  given(Loops[j])' = given(Loops[j]) + IF j = r + 1 THEN 1 ELSE 0
  <2> DEFINE G == {d \in Clients : ioLoop[d] = Loops[j]}
  <2>1. IsFiniteSet(G) /\ Cardinality(G) \in Nat
    BY ServerAssumption, FS_Subset, FS_CardinalityType
  <2>2. c \notin G
    BY <1>3, LoopsFacts
  <2>3. Loops[r + 1] = Loops[j] <=> j = r + 1
    BY <1>4, LoopsFacts
  <2> DEFINE H == {d \in Clients : ioLoop'[d] = Loops[j]}
  <2>4. given(Loops[j]) = Cardinality(G) /\ given(Loops[j])' = Cardinality(H)
    BY DEF given
  <2> HIDE DEF r
  <2>5. CASE j = r + 1
    <3>1. H = G \cup {c}
      BY <1>1, <1>2, <1>3, <2>3, <2>5
    <3>2. Cardinality(G \cup {c}) = Cardinality(G) + 1
      BY <2>1, <2>2, FS_AddElement
    <3> HIDE DEF G, H
    <3> QED
      BY <2>5, <2>4, <3>1, <3>2
  <2>6. CASE j # r + 1
    <3>1. H = G
      BY <1>1, <1>2, <1>3, <2>2, <2>3, <2>6
    <3> HIDE DEF G, H
    <3> QED
      BY <2>1, <2>6, <2>4, <3>1
  <2> QED
    BY <2>5, <2>6
<1>6. PICK q \in Nat : \A j \in DOMAIN Loops : given(Loops[j]) = q + IF j <= r THEN 1 ELSE 0
  BY DEF Dealt
<1> HIDE DEF N, r
<1>7. CASE r = N - 1
  <2>1. \A j \in DOMAIN Loops : given(Loops[j])' = (q + 1) + IF j <= loopIndex_' % N THEN 1 ELSE 0
    BY <1>4, <1>5, <1>6, <1>7
  <2>2. q + 1 \in Nat
    OBVIOUS
  <2> QED
    BY <2>1, <2>2 DEF Dealt, N
<1>8. CASE r # N - 1
  <2>1. \A j \in DOMAIN Loops : given(Loops[j])' = q + IF j <= loopIndex_' % N THEN 1 ELSE 0
    BY <1>4, <1>5, <1>6, <1>8
  <2> QED
    BY <2>1 DEF Dealt, N
<1> QED
  BY <1>7, <1>8

LEMMA DealtStep == TypeOK /\ IInv /\ Dealt /\ [Next]_vars => Dealt'
<1> SUFFICES ASSUME TypeOK, IInv, Dealt, [Next]_vars PROVE Dealt'
  OBVIOUS
<1>1. CASE UNCHANGED <<ioLoop, loopIndex_>>
  BY <1>1 DEF Dealt, given
<1>2. CASE Accept
  BY <1>2, AcceptDeals DEF Accept, CanAccept, Main, IInv
<1>3. MakePool \/ MakeAcceptor \/ start \/ AcceptAborted \/ AcceptFails \/ PostEstablished \/ BeginInsert \/ Insert
         \/ OutOfFds \/ Refuse \/ Gone \/ StartReturns \/ EndLoops \/ Destroy => UNCHANGED <<ioLoop, loopIndex_>>
  BY QuietSteps DEF MakePool, MakeAcceptor, start, AcceptAborted, PostEstablished, BeginInsert, Insert,
     OutOfFds, Refuse, Gone, StartReturns, EndLoops, Destroy, mainVars
<1>4. ASSUME NEW i \in DOMAIN Loops, LoopThread(i)
      PROVE  UNCHANGED <<ioLoop, loopIndex_>>
  BY <1>4 DEF LoopThread, LoopStep, connectEstablished, mainVars
<1>5. ASSUME NEW c \in Clients, ConnectionStep(c)
      PROVE  UNCHANGED <<ioLoop, loopIndex_>>
  BY <1>5 DEF ConnectionStep, HandleInput, ReadFails, HandleClose, removeConnection, mainVars
<1>6. ClientStep \/ UNCHANGED vars => UNCHANGED <<ioLoop, loopIndex_>>
  BY QuietSteps DEF vars, mainVars
<1> QED
  BY <1>1, <1>2, <1>3, <1>4, <1>5, <1>6 DEF Next, MainStep

(* RoundRobin, for any number of loops and connections: getNextLoop deals  *)
(* the connections out, q rounds and the rest of one.                      *)
THEOREM LoopsAreDealtEvenly == Spec => []RoundRobin
<1>1. Init => Dealt
  <2> SUFFICES ASSUME Init PROVE Dealt
    OBVIOUS
  <2>1. loopIndex_ = 0 /\ 0 % Len(Loops) = 0 /\ 0 \in Nat
    BY LoopsFacts DEF Init
  <2>2. ASSUME NEW j \in DOMAIN Loops PROVE given(Loops[j]) = 0 /\ ~(j <= 0)
    <3>1. {c \in Clients : ioLoop[c] = Loops[j]} = {}
      BY LoopsFacts DEF Init
    <3> QED
      BY <3>1, FS_EmptySet, LoopsFacts DEF given
  <2>3. \A j \in DOMAIN Loops : given(Loops[j]) = 0 + IF j <= loopIndex_ % Len(Loops) THEN 1 ELSE 0
    BY <2>1, <2>2
  <2> QED
    BY <2>1, <2>3 DEF Dealt
<1>2. Dealt => RoundRobin
  <2> SUFFICES ASSUME Dealt, NEW l \in Threads, NEW m \in Threads PROVE given(l) <= given(m) + 1
    BY DEF RoundRobin, given
  <2>1. PICK q \in Nat : \A j \in DOMAIN Loops :
              given(Loops[j]) = q + IF j <= loopIndex_ % Len(Loops) THEN 1 ELSE 0
    BY DEF Dealt
  <2>2. \A j \in DOMAIN Loops : given(Loops[j]) \in {q, q + 1}
    BY <2>1
  <2>3. given(l) \in {q, q + 1} /\ given(m) \in {q, q + 1}
    BY <2>2, LoopsFacts
  <2> QED
    BY <2>3
<1> QED
  BY <1>1, <1>2, Invariant, DealtStep, PTL DEF Spec
================================================================================
