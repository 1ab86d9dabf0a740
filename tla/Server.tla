------------------------------- MODULE Server -------------------------------
(***************************************************************************)
(* The threads of the server and how they start, hand over and end: main   *)
(* (server/src/server.cpp), the Acceptor with its list of ClientHandlers   *)
(* (acceptor.cpp, client_handler.cpp), the two threads of each handler     *)
(* (client_receiver.cpp, client_sender.cpp), the queues between them       *)
(* (monitor_queues.cpp) and the ticks of the game loop (gameloop.cpp).     *)
(*                                                                         *)
(* The queues are as QueueContract has them.  A connection has the id its  *)
(* handler gets, so ids are never used again.  The outgoing queue of a     *)
(* connection is never taken out of MonitorQueues; it is closed when the   *)
(* handler is destroyed.                                                   *)
(***************************************************************************)
EXTENDS Naturals, Sequences, FiniteSets

CONSTANTS
  MaxConns, \* bound: connections made in the whole life of the server
  MaxCmds,  \* bound: commands queued by connected clients
  MaxOut    \* bound: responses told apart in one outgoing queue

ASSUME ServerAssumption ==
  MaxConns \in Nat /\ MaxCmds \in Nat /\ MaxOut \in Nat \ {0}

Conns == 1..MaxConns   \* the ids next_id gives, in the order of accept()
NoConn == 0

VARIABLES
  client,    \* "away", "open", "left" (closed its end) or "reset" (died)
  handler,   \* "none", "starting", "listed" in Acceptor::players, "freed"
  told,      \* ClientHandler::stop() was called
  receiver,  \* ClientReceiver::run: "off", "reading", "leaving", "ended"
  sender,    \* ClientSender::run: "off", "popping", "ended"
  out,       \* the responses waiting in each outgoing queue, up to MaxOut
  commands,  \* commands_queue
  closed,    \* commands_queue is closed
  acceptor,  \* Acceptor::run: "accepting", "adding", "ended"
  newest,    \* the connection the acceptor has just accepted
  main,      \* Server::start, and at last ~Acceptor
  target,    \* the handler clear() is joining
  loop,      \* Gameloop::run: "commands", "updates", "ended"
  stopped,   \* Gameloop::stop() was called
  players,   \* the connections with a player in the game
  cut        \* history: players whose DisconnectCommand a closed queue cut off

threads == <<told, receiver, sender>>
world == <<loop, stopped, players, cut>>
control == <<acceptor, newest, main, target>>
queues == <<out, commands, closed>>
vars == <<client, handler, threads, queues, control, world>>

\* A LoginCommand or any other but the last, and the DisconnectCommand.
Commands == Conns \X {"play", "bye"}

Gone(c) == client[c] \in {"left", "reset"}

\* try_push on the outgoing queue of c.
Queued(c) == IF out[c] < MaxOut THEN out[c] + 1 ELSE MaxOut

-----------------------------------------------------------------------------
Init ==
  /\ client = [c \in Conns |-> "away"]
  /\ handler = [c \in Conns |-> "none"]
  /\ told = [c \in Conns |-> FALSE]
  /\ receiver = [c \in Conns |-> "off"] /\ sender = [c \in Conns |-> "off"]
  /\ out = [c \in Conns |-> 0]
  /\ commands = <<>> /\ closed = FALSE
  /\ acceptor = "accepting" /\ newest = NoConn
  /\ main = "serving" /\ target = NoConn
  /\ loop = "commands" /\ stopped = FALSE /\ players = {} /\ cut = {}

\* The other end of a connection closes it, or is lost.
ClientGoes(c) ==
  /\ client[c] = "open"
  /\ \E how \in {"left", "reset"} : client' = [client EXCEPT ![c] = how]
  /\ UNCHANGED <<handler, threads, queues, control, world>>

\* Acceptor::run up to client->start(); the listening socket is open.
Accept(c) ==
  /\ acceptor = "accepting" /\ main = "serving"
  /\ client[c] = "away" /\ \A d \in Conns : d < c => client[d] # "away"
  /\ client' = [client EXCEPT ![c] = "open"]
  /\ handler' = [handler EXCEPT ![c] = "starting"]
  /\ receiver' = [receiver EXCEPT ![c] = "reading"]
  /\ sender' = [sender EXCEPT ![c] = "popping"]
  /\ acceptor' = "adding" /\ newest' = c
  /\ UNCHANGED <<told, queues, main, target, world>>

\* The mutant that asks only the receiver.
ReceiverIsAlive(c) == receiver[c] # "ended"

\* ClientHandler::is_alive.
IsAlive(c) == receiver[c] # "ended" \/ sender[c] # "ended"

\* reap() and push_back.  The dead handlers are joined and destroyed, and
\* the acceptor goes round unless it was told to stop.
AddHandler ==
  /\ acceptor = "adding"
  /\ handler' = [c \in Conns |->
                   IF c = newest THEN "listed"
                   ELSE IF handler[c] = "listed" /\ ~IsAlive(c) THEN "freed"
                   ELSE handler[c]]
  /\ told' = [c \in Conns |-> told[c] \/ (handler[c] = "listed" /\ ~IsAlive(c))]
  /\ acceptor' = (IF main = "serving" THEN "accepting" ELSE "ended")
  /\ newest' = NoConn
  /\ UNCHANGED <<client, receiver, sender, queues, main, target, world>>

\* accept() fails on the listening socket that stop() closed.
AcceptorEnds ==
  /\ acceptor = "accepting" /\ main # "serving" /\ acceptor' = "ended"
  /\ UNCHANGED <<client, handler, threads, queues, newest, main, target, world>>

-----------------------------------------------------------------------------
\* readCommand while there is something to read: a client counts as having
\* left once all it sent is read, since nothing but a read can tell.  Pushing
\* into the closed commands queue throws and ends the reads.  So do an unknown
\* opcode, which queues nothing, and the DISCONNECT of the protocol, which
\* queues a DisconnectCommand beside the one the receiver will; otherwise the
\* flag is looked at next.
Read(c) ==
  /\ receiver[c] = "reading" /\ client[c] = "open"
  /\ Len(commands) < MaxCmds
  /\ \E what \in {"play", "bye", "end"} :
       /\ commands' = IF closed \/ what = "end" THEN commands
                      ELSE Append(commands, <<c, what>>)
       /\ receiver' = [receiver EXCEPT ![c] =
                         IF closed \/ told[c] \/ what # "play" THEN "leaving" ELSE @]
  /\ UNCHANGED <<client, handler, told, sender, out, closed, control, world>>

\* readCommand of a connection that ended.
ReadFails(c) ==
  /\ receiver[c] = "reading" /\ Gone(c)
  /\ receiver' = [receiver EXCEPT ![c] = "leaving"]
  /\ UNCHANGED <<client, handler, told, sender, queues, control, world>>

\* The mutant that leaves without a DisconnectCommand when it was stopped.
LeaveQuietly(c) ==
  /\ receiver[c] = "leaving"
  /\ receiver' = [receiver EXCEPT ![c] = "ended"]
  /\ commands' = IF closed \/ client[c] = "reset" THEN commands
                 ELSE Append(commands, <<c, "bye">>)
  /\ UNCHANGED <<client, handler, told, sender, out, closed, control, world>>

\* The end of ClientReceiver::run: the DisconnectCommand.
SayGoodbye(c) ==
  /\ receiver[c] = "leaving"
  /\ receiver' = [receiver EXCEPT ![c] = "ended"]
  /\ commands' = IF closed THEN commands ELSE Append(commands, <<c, "bye">>)
  /\ UNCHANGED <<client, handler, told, sender, out, closed, control, world>>

\* A response is taken and written.  Writing to a client that left returns
\* without an error; to one that died it may throw.  Nothing but a response
\* gets the sender out of pop().
Send(c) ==
  /\ sender[c] = "popping" /\ out[c] > 0
  /\ out' = [out EXCEPT ![c] = @ - 1]
  /\ \E s \in {"popping", "ended"} :
       /\ s = "popping" => ~told[c]
       /\ s = "ended" => told[c] \/ client[c] = "reset"
       /\ sender' = [sender EXCEPT ![c] = s]
  /\ UNCHANGED <<client, handler, told, receiver, commands, closed, control, world>>

-----------------------------------------------------------------------------
\* Responses to the players in some, up to the first closed queue.
Answer(some) ==
  out' = [c \in Conns |-> IF c \in some /\ handler[c] # "freed" THEN Queued(c) ELSE out[c]]

\* A login that succeeds makes the connection a player, and any command may
\* answer its sender and others.  A response that throws follows the change.
Play(c) ==
  /\ players' \in {players, players \union {c}} /\ cut' = cut
  /\ \E some \in SUBSET (players' \union {c}) : Answer(some)

\* processPlayerDisconnet: the mates of the clan are told first, and one whose
\* queue is closed ends the handler there, with the player still in the game.
Disconnect(c) ==
  \/ c \notin players /\ UNCHANGED <<out, players, cut>>
  \/ /\ c \in players
     /\ \E mates \in SUBSET (players \ {c}) :
          /\ Answer(mates)
          /\ IF \E d \in mates : handler[d] = "freed"
             THEN players' = players /\ cut' = cut \union {c}
             ELSE players' = players \ {c} /\ cut' = cut \ {c}

\* executeRequest, one command.  A ClosedQueue thrown by a response is caught
\* here, and the rest of its handler is not run.
ExecuteCommand ==
  /\ loop = "commands" /\ commands # <<>>
  /\ LET c == Head(commands)[1]
     IN IF Head(commands)[2] = "play" THEN Play(c) ELSE Disconnect(c)
  /\ commands' = Tail(commands)
  /\ UNCHANGED <<client, handler, threads, closed, control, loop, stopped>>

\* try_pop finds nothing, and throws if the queue is closed.
CommandsDone ==
  /\ loop = "commands" /\ commands = <<>>
  /\ loop' = IF closed THEN "ended" ELSE "updates"
  /\ UNCHANGED <<client, handler, threads, queues, control, stopped, players, cut>>

\* The mutant whose broadcast stops at the first closed queue.
BroadcastThrows ==
  /\ loop = "updates"
  /\ Answer({c \in Conns : handler[c] # "none"})
  /\ loop' = IF stopped \/ \E c \in Conns : handler[c] = "freed" THEN "ended" ELSE "commands"
  /\ UNCHANGED <<client, handler, threads, commands, closed, control, stopped, players, cut>>

\* The rest of the tick.  Creatures and healers may write to players, and a
\* closed queue among these ends Gameloop::run.  executeBroadcast passes over
\* the closed ones of all the queues ever made, so nothing but stop() ends
\* the loop there.  What else the updates may throw is not about queues (World
\* has it) and is left out.
Update ==
  /\ loop = "updates"
  /\ \E some \in SUBSET players :
       IF \E c \in some : handler[c] = "freed"
       THEN Answer(some) /\ loop' = "ended"
       ELSE /\ Answer({c \in Conns : handler[c] # "none"})
            /\ loop' = IF stopped THEN "ended" ELSE "commands"
  /\ UNCHANGED <<client, handler, threads, commands, closed, control, stopped, players, cut>>

-----------------------------------------------------------------------------
\* The mutant that stops the game loop before the handlers are joined.
StopAcceptorAndLoop ==
  /\ main = "serving" /\ main' = "clearing"
  /\ stopped' = TRUE
  /\ UNCHANGED <<client, handler, threads, queues, acceptor, newest, target, loop, players, cut>>

\* "q": Acceptor::stop.
StopAcceptor ==
  /\ main = "serving" /\ main' = "clearing"
  /\ UNCHANGED <<client, handler, threads, queues, acceptor, newest, target, world>>

\* The mutant that joins a handler it has not stopped.
ClearOnlyJoins(c) ==
  /\ main \in {"clearing", "destroying"} /\ target = NoConn
  /\ handler[c] = "listed" /\ ~told[c]
  /\ target' = c
  /\ UNCHANGED <<client, handler, threads, queues, acceptor, newest, main, world>>

\* Acceptor::clear, one handler: stop() sets its flags and no more, then
\* join() waits for both threads.  ~Acceptor does it again at the end.
ClearStops(c) ==
  /\ main \in {"clearing", "destroying"} /\ target = NoConn
  /\ handler[c] = "listed" /\ ~told[c]
  /\ told' = [told EXCEPT ![c] = TRUE]
  /\ target' = c
  /\ UNCHANGED <<client, handler, receiver, sender, queues, acceptor, newest, main, world>>

ClearJoins ==
  /\ target # NoConn /\ ~IsAlive(target)
  /\ target' = NoConn
  /\ UNCHANGED <<client, handler, threads, queues, acceptor, newest, main, world>>

\* players.clear().
ClearDone ==
  /\ main \in {"clearing", "destroying"} /\ target = NoConn
  /\ \A c \in Conns : handler[c] = "listed" => told[c]
  /\ handler' = [c \in Conns |-> IF handler[c] = "listed" THEN "freed" ELSE handler[c]]
  /\ main' = (IF main = "clearing" THEN "closing" ELSE "done")
  /\ UNCHANGED <<client, threads, queues, acceptor, newest, target, world>>

CloseCommands ==
  /\ main = "closing" /\ main' = "stopping"
  /\ closed' = TRUE
  /\ UNCHANGED <<client, handler, threads, out, commands, acceptor, newest, target, world>>

StopLoop ==
  /\ main = "stopping" /\ main' = "joining loop"
  /\ stopped' = TRUE
  /\ UNCHANGED <<client, handler, threads, queues, acceptor, newest, target, loop, players, cut>>

JoinLoop ==
  /\ main = "joining loop" /\ loop = "ended" /\ main' = "joining acceptor"
  /\ UNCHANGED <<client, handler, threads, queues, acceptor, newest, target, world>>

JoinAcceptor ==
  /\ main = "joining acceptor" /\ acceptor = "ended" /\ main' = "destroying"
  /\ UNCHANGED <<client, handler, threads, queues, acceptor, newest, target, world>>

Receiver(c) == Read(c) \/ ReadFails(c) \/ SayGoodbye(c)
Acceptor == (\E c \in Conns : Accept(c)) \/ AddHandler \/ AcceptorEnds
Loop == ExecuteCommand \/ CommandsDone \/ Update
Clearing == (\E c \in Conns : ClearStops(c)) \/ ClearJoins \/ ClearDone
Ending == Clearing \/ CloseCommands \/ StopLoop \/ JoinLoop \/ JoinAcceptor
Main == StopAcceptor \/ Ending

Next ==
  \/ \E c \in Conns : ClientGoes(c) \/ Receiver(c) \/ Send(c)
  \/ Acceptor \/ Loop \/ Main

\* Every thread that can step is scheduled; clients and the operator may
\* never do anything.
Fairness ==
  /\ \A c \in Conns : WF_vars(ReadFails(c) \/ SayGoodbye(c)) /\ WF_vars(Send(c))
  /\ WF_vars(AddHandler \/ AcceptorEnds) /\ WF_vars(Loop) /\ WF_vars(Ending)

SafeSpec == Init /\ [][Next]_vars
Spec == SafeSpec /\ Fairness

-----------------------------------------------------------------------------
\* Every variable has its type, and the acceptor and clear() name a
\* connection exactly while they work on one.
TypeOK ==
  /\ client \in [Conns -> {"away", "open", "left", "reset"}]
  /\ handler \in [Conns -> {"none", "starting", "listed", "freed"}]
  /\ told \in [Conns -> BOOLEAN]
  /\ receiver \in [Conns -> {"off", "reading", "leaving", "ended"}]
  /\ sender \in [Conns -> {"off", "popping", "ended"}]
  /\ out \in [Conns -> 0..MaxOut]
  /\ commands \in Seq(Commands) /\ closed \in BOOLEAN
  /\ acceptor \in {"accepting", "adding", "ended"}
  /\ newest \in Conns \union {NoConn} /\ (acceptor = "adding") = (newest # NoConn)
  /\ main \in {"serving", "clearing", "closing", "stopping", "joining loop",
               "joining acceptor", "destroying", "done"}
  /\ target \in Conns \union {NoConn}
  /\ target # NoConn => main \in {"clearing", "destroying"} /\ told[target]
  /\ loop \in {"commands", "updates", "ended"}
  /\ stopped \in BOOLEAN /\ players \in SUBSET Conns /\ cut \in SUBSET players

\* Neither reap() nor clear() destroys a handler one of whose threads could
\* still use its socket, its protocol or its queue.
NoThreadOutlivesItsHandler ==
  \A c \in Conns : handler[c] = "freed" => receiver[c] = "ended" /\ sender[c] = "ended"

\* Somebody's handler but that of c was destroyed.
AMateIsGone(c) == \E d \in Conns \ {c} : handler[d] = "freed"

\* However its connection ended, a player whose receiver is gone has a
\* DisconnectCommand on the way, as long as the loop takes commands, or had
\* one that was cut off; and none is but by a handler reaped before.
GoodbyeIsOnItsWay ==
  /\ loop # "ended" /\ ~closed =>
       \A c \in players \ cut : receiver[c] = "ended" =>
         \E i \in 1..Len(commands) : commands[i] = <<c, "bye">>
  /\ \A c \in cut : AMateIsGone(c)

\* Closed queues end the game loop early in one case only: it wrote to a player
\* whose handler had been reaped before its DisconnectCommand took it out.
EarlyEndHasACause ==
  loop = "ended" /\ ~closed => \E c \in players : handler[c] = "freed"

\* A client that is gone loses its player, unless the game loop ends first or
\* a mate of its clan whose handler was reaped cuts its DisconnectCommand off.
TheGoneLeaveTheGame ==
  \A c \in Conns : (c \in players /\ Gone(c)) ~>
    (c \notin players \/ loop = "ended" \/ (c \in cut /\ AMateIsGone(c)))

\* A handler added behind clear(), for which no response will ever come.
Late(c) == main \notin {"serving", "clearing"} /\ handler[c] \in {"starting", "listed"}

\* The shutdown ends once every client is gone, because the game loop still
\* ticks while clear() joins and so gets the senders out of pop().  It does
\* not when the loop ended early, or behind a late handler.
ShutdownEnds ==
  (main # "serving" /\ \A c \in Conns : client[c] # "open")
    ~> (main = "done" \/ (loop = "ended" /\ ~closed /\ ~stopped) \/ \E c \in Conns : Late(c))
=============================================================================
