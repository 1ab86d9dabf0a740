---------------------------- MODULE Server_proofs ----------------------------
(***************************************************************************)
(* That no handler is destroyed under a running thread, that every player  *)
(* who is to leave has a DisconnectCommand on the way, and that the game   *)
(* loop ends early for one reason only, for any number of connections.     *)
(***************************************************************************)
EXTENDS Server, SequenceTheorems, TLAPS

LEMMA NoConnIsNone == NoConn \notin Conns
BY ServerAssumption DEF ServerAssumption, NoConn, Conns

-----------------------------------------------------------------------------
LEMMA TypeInit == Init => TypeOK
<1> SUFFICES ASSUME Init PROVE TypeOK
  OBVIOUS
<1>1. commands \in Seq(Commands)
  BY DEF Init
<1>2. out \in [Conns -> 0..MaxOut]
  BY ServerAssumption DEF ServerAssumption, Init
<1>3. told \in [Conns -> BOOLEAN] /\ closed \in BOOLEAN /\ stopped \in BOOLEAN
  BY Zenon DEF Init
<1>4. /\ newest = NoConn /\ target = NoConn /\ acceptor # "adding"
      /\ players \subseteq Conns /\ cut \subseteq players
  BY DEF Init
<1>5. QED
  BY <1>1, <1>2, <1>3, <1>4 DEF TypeOK, Init

LEMMA OneLess ==
  ASSUME NEW n \in 0..MaxOut, n > 0
  PROVE  n - 1 \in 0..MaxOut
BY ServerAssumption DEF ServerAssumption

LEMMA AnswerType ==
  ASSUME out \in [Conns -> 0..MaxOut], NEW some, Answer(some)
  PROVE  out' \in [Conns -> 0..MaxOut]
<1>1. ASSUME NEW c \in Conns
      PROVE (IF c \in some /\ handler[c] # "freed" THEN Queued(c) ELSE out[c]) \in 0..MaxOut
  <2>1. out[c] \in 0..MaxOut
    OBVIOUS
  <2>2. QED
    BY <2>1, ServerAssumption DEF ServerAssumption, Queued
<1>2. QED
  BY <1>1 DEF Answer

\* The types of what belongs to connections, of what the acceptor and main do, and
\* of the game loop.
ConnectionTypes ==
  /\ client \in [Conns -> {"away", "open", "left", "reset"}]
  /\ handler \in [Conns -> {"none", "starting", "listed", "freed"}]
  /\ receiver \in [Conns -> {"off", "reading", "leaving", "ended"}]
  /\ sender \in [Conns -> {"off", "popping", "ended"}]
  /\ out \in [Conns -> 0..MaxOut]
  /\ commands \in Seq(Commands) /\ closed \in BOOLEAN

ControlTypes ==
  /\ told \in [Conns -> BOOLEAN]
  /\ acceptor \in {"accepting", "adding", "ended"}
  /\ newest \in Conns \union {NoConn} /\ (acceptor = "adding") = (newest # NoConn)
  /\ main \in {"serving", "clearing", "closing", "stopping", "joining loop",
               "joining acceptor", "destroying", "done"}
  /\ target \in Conns \union {NoConn}
  /\ target # NoConn => main \in {"clearing", "destroying"} /\ told[target]

LoopTypes ==
  /\ loop \in {"commands", "updates", "ended"}
  /\ stopped \in BOOLEAN /\ players \in SUBSET Conns /\ cut \in SUBSET players

LEMMA TypesAre == TypeOK <=> ConnectionTypes /\ ControlTypes /\ LoopTypes
<1>1. TypeOK => ConnectionTypes
  BY Zenon DEF TypeOK, ConnectionTypes
<1>2. TypeOK => ControlTypes
  BY Zenon DEF TypeOK, ControlTypes
<1>3. TypeOK => LoopTypes
  BY Zenon DEF TypeOK, LoopTypes
<1>4. ConnectionTypes /\ ControlTypes /\ LoopTypes => TypeOK
  BY Zenon DEF TypeOK, ConnectionTypes, ControlTypes, LoopTypes
<1>5. QED
  BY <1>1, <1>2, <1>3, <1>4

LEMMA SameConnections ==
  ASSUME ConnectionTypes, UNCHANGED <<client, handler, receiver, sender, queues>>
  PROVE  ConnectionTypes'
BY Zenon DEF ConnectionTypes, queues

LEMMA SameControl ==
  ASSUME ControlTypes, UNCHANGED <<told, control>>
  PROVE  ControlTypes'
BY Zenon DEF ControlTypes, control

LEMMA SameLoop ==
  ASSUME LoopTypes, UNCHANGED world
  PROVE  LoopTypes'
BY Zenon DEF LoopTypes, world

\* Every step of the threads of a connection.
LEMMA ConnectionKeepsTypes ==
  ASSUME TypeOK, NEW c \in Conns, ClientGoes(c) \/ Receiver(c) \/ Send(c)
  PROVE  TypeOK'
<1>1. ConnectionTypes /\ ControlTypes /\ LoopTypes
  BY TypesAre
<1>2. UNCHANGED <<handler, told, control, world>>
  BY DEF Receiver, ClientGoes, Read, ReadFails, SayGoodbye, Send, threads
<1>3. ControlTypes' /\ LoopTypes'
  <2>1. UNCHANGED <<told, control>> /\ UNCHANGED world
    BY <1>2
  <2>2. QED
    BY <1>1, <2>1, SameControl, SameLoop
<1>4. /\ client \in [Conns -> {"away", "open", "left", "reset"}]
      /\ handler' \in [Conns -> {"none", "starting", "listed", "freed"}]
      /\ receiver \in [Conns -> {"off", "reading", "leaving", "ended"}]
      /\ sender \in [Conns -> {"off", "popping", "ended"}]
      /\ out \in [Conns -> 0..MaxOut] /\ commands \in Seq(Commands) /\ closed \in BOOLEAN
  BY <1>1, <1>2 DEF ConnectionTypes
<1>5. CASE ClientGoes(c)
  <2>1. client' \in [Conns -> {"away", "open", "left", "reset"}]
    BY <1>4, <1>5 DEF ClientGoes
  <2>2. UNCHANGED <<receiver, sender, queues>>
    BY <1>5 DEF ClientGoes, threads
  <2>3. ConnectionTypes'
    BY <1>4, <2>1, <2>2, Zenon DEF ConnectionTypes, queues
  <2>4. QED
    BY <1>3, <2>3, TypesAre, PTL
<1>6. CASE Read(c)
  <2>1. PICK what \in {"play", "bye", "end"} :
          /\ commands' = IF closed \/ what = "end" THEN commands ELSE Append(commands, <<c, what>>)
          /\ receiver' = [receiver EXCEPT ![c] =
                            IF closed \/ told[c] \/ what # "play" THEN "leaving" ELSE @]
    BY <1>6 DEF Read
  <2>2. commands' \in Seq(Commands)
    <3>1. CASE closed \/ what = "end"
      BY <1>4, <2>1, <3>1
    <3>2. CASE ~(closed \/ what = "end")
      <4>1. <<c, what>> \in Commands /\ commands' = Append(commands, <<c, what>>)
        BY <2>1, <3>2 DEF Commands
      <4>2. QED
        BY <1>4, <4>1, AppendProperties
    <3>3. QED
      BY <3>1, <3>2
  <2>3. receiver' \in [Conns -> {"off", "reading", "leaving", "ended"}]
    BY <1>4, <2>1
  <2>4. UNCHANGED <<client, sender, out, closed>>
    BY <1>6 DEF Read
  <2>5. ConnectionTypes'
    BY <1>4, <2>2, <2>3, <2>4, Zenon DEF ConnectionTypes
  <2>6. QED
    BY <1>3, <2>5, TypesAre, PTL
<1>7. CASE ReadFails(c)
  <2>1. receiver' \in [Conns -> {"off", "reading", "leaving", "ended"}]
    BY <1>4, <1>7 DEF ReadFails
  <2>2. UNCHANGED <<client, sender, queues>>
    BY <1>7 DEF ReadFails
  <2>3. ConnectionTypes'
    BY <1>4, <2>1, <2>2, Zenon DEF ConnectionTypes, queues
  <2>4. QED
    BY <1>3, <2>3, TypesAre, PTL
<1>8. CASE SayGoodbye(c)
  <2>1. <<c, "bye">> \in Commands
    BY DEF Commands
  <2>2. Append(commands, <<c, "bye">>) \in Seq(Commands)
    BY <1>4, <2>1, AppendProperties
  <2>3. commands' \in Seq(Commands)
    BY <1>4, <1>8, <2>2 DEF SayGoodbye
  <2>4. receiver' \in [Conns -> {"off", "reading", "leaving", "ended"}]
    BY <1>4, <1>8 DEF SayGoodbye
  <2>5. UNCHANGED <<client, sender, out, closed>>
    BY <1>8 DEF SayGoodbye
  <2>6. ConnectionTypes'
    BY <1>4, <2>3, <2>4, <2>5, Zenon DEF ConnectionTypes
  <2>7. QED
    BY <1>3, <2>6, TypesAre, PTL
<1>9. CASE Send(c)
  <2>1. out' \in [Conns -> 0..MaxOut]
    <3>1. out[c] \in 0..MaxOut /\ out[c] > 0 /\ out' = [out EXCEPT ![c] = @ - 1]
      BY <1>4, <1>9 DEF Send
    <3>2. out[c] - 1 \in 0..MaxOut
      BY <3>1, OneLess
    <3>3. QED
      BY <1>4, <3>1, <3>2
  <2>2. sender' \in [Conns -> {"off", "popping", "ended"}]
    BY <1>4, <1>9 DEF Send
  <2>3. UNCHANGED <<client, receiver, commands, closed>>
    BY <1>9 DEF Send
  <2>4. ConnectionTypes'
    BY <1>4, <2>1, <2>2, <2>3, Zenon DEF ConnectionTypes
  <2>5. QED
    BY <1>3, <2>4, TypesAre, PTL
<1>10. QED
  BY <1>5, <1>6, <1>7, <1>8, <1>9 DEF Receiver

\* Every step of the acceptor.
LEMMA AcceptorKeepsTypes == ASSUME TypeOK, Acceptor PROVE TypeOK'
<1> USE DEF TypeOK, threads, queues, control, world
<1>1. ASSUME NEW c \in Conns, Accept(c) PROVE TypeOK'
  BY <1>1, NoConnIsNone DEF Accept
<1>2. CASE AddHandler
  <2>1. told' \in [Conns -> BOOLEAN]
    BY <1>2, Zenon DEF AddHandler
  <2>2. \A c \in Conns : told[c] => told'[c]
    BY <1>2, Zenon DEF AddHandler
  <2>3. handler' \in [Conns -> {"none", "starting", "listed", "freed"}]
    BY <1>2 DEF AddHandler
  <2>4. target' = target /\ main' = main /\ (target # NoConn => target \in Conns /\ told[target])
    BY <1>2 DEF AddHandler
  <2>5. newest' = NoConn /\ acceptor' \in {"accepting", "ended"}
    BY <1>2 DEF AddHandler
  <2>6. target' # NoConn => main' \in {"clearing", "destroying"} /\ told'[target']
    BY <2>2, <2>4
  <2>7. QED
    BY <1>2, <2>1, <2>3, <2>5, <2>6 DEF AddHandler
<1>3. CASE AcceptorEnds
  BY <1>3 DEF AcceptorEnds
<1>4. QED
  BY <1>1, <1>2, <1>3 DEF Acceptor

\* What a command leaves of the players: it takes one in, or takes one out, or
\* is cut off, and answers some of them.
LEMMA CommandOutcome ==
  ASSUME TypeOK, ExecuteCommand
  PROVE  LET c == Head(commands)[1]
         IN /\ commands # <<>> /\ commands' = Tail(commands) /\ Head(commands) \in Commands
            /\ \/ Head(commands)[2] = "play" /\ players' \in {players, players \union {c}} /\ cut' = cut
               \/ /\ Head(commands)[2] = "bye"
                  /\ \/ players' = players \ {c} /\ cut' = cut \ {c}
                     \/ /\ c \in players /\ players' = players /\ cut' = cut \union {c}
                        /\ AMateIsGone(c)
            /\ out' = out \/ \E some : Answer(some)
<1> DEFINE c == Head(commands)[1]
<1>1. /\ commands # <<>> /\ commands' = Tail(commands) /\ commands \in Seq(Commands)
      /\ players \subseteq Conns /\ cut \subseteq players
  BY DEF ExecuteCommand, TypeOK
<1>2. Head(commands) \in Commands
  BY <1>1, HeadTailProperties
<1>3. Head(commands)[2] \in {"play", "bye"}
  BY <1>2 DEF Commands
<1>4. CASE Head(commands)[2] = "play"
  <2>1. Play(c)
    BY <1>4 DEF ExecuteCommand
  <2>2. QED
    BY <1>1, <1>2, <1>4, <2>1 DEF Play
<1>5. CASE Head(commands)[2] = "bye"
  <2>1. Disconnect(c)
    BY <1>5 DEF ExecuteCommand
  <2>2. CASE c \notin players
    <3>1. out' = out /\ players' = players \ {c} /\ cut' = cut \ {c}
      BY <1>1, <2>1, <2>2 DEF Disconnect
    <3>2. QED
      BY <1>1, <1>2, <1>5, <3>1
  <2>3. CASE c \in players
    <3>1. PICK mates \in SUBSET (players \ {c}) :
            /\ Answer(mates)
            /\ IF \E d \in mates : handler[d] = "freed"
               THEN players' = players /\ cut' = cut \union {c}
               ELSE players' = players \ {c} /\ cut' = cut \ {c}
      BY <2>1, <2>3 DEF Disconnect
    <3>2. CASE \E d \in mates : handler[d] = "freed"
      <4>1. AMateIsGone(c)
        BY <1>1, <3>1, <3>2 DEF AMateIsGone
      <4>2. QED
        BY <1>1, <1>2, <1>5, <2>3, <3>1, <3>2, <4>1
    <3>3. CASE ~\E d \in mates : handler[d] = "freed"
      BY <1>1, <1>2, <1>5, <3>1, <3>3
    <3>4. QED
      BY <3>2, <3>3
  <2>4. QED
    BY <2>2, <2>3
<1>6. QED
  BY <1>3, <1>4, <1>5

\* Every step of the game loop.
LEMMA LoopKeepsTypes == ASSUME TypeOK, Loop PROVE TypeOK'
<1>0. /\ out \in [Conns -> 0..MaxOut] /\ commands \in Seq(Commands)
      /\ players \subseteq Conns /\ cut \subseteq players
  BY DEF TypeOK
<1>1. CASE ExecuteCommand
  <2> DEFINE c == Head(commands)[1]
  <2>1. /\ commands # <<>> /\ commands' = Tail(commands) /\ Head(commands) \in Commands
        /\ \/ players' \in {players, players \union {c}} /\ cut' = cut
           \/ players' = players \ {c} /\ cut' = cut \ {c}
           \/ c \in players /\ players' = players /\ cut' = cut \union {c}
        /\ out' = out \/ \E some : Answer(some)
    BY <1>1, CommandOutcome
  <2>2. commands' \in Seq(Commands) /\ c \in Conns
    BY <1>0, <2>1, HeadTailProperties DEF Commands
  <2>3. players' \subseteq Conns /\ cut' \subseteq players'
    BY <1>0, <2>1, <2>2
  <2>4. out' \in [Conns -> 0..MaxOut]
    BY <1>0, <2>1, AnswerType
  <2>5. QED
    BY <1>1, <2>2, <2>3, <2>4 DEF ExecuteCommand, TypeOK, threads, control
<1>2. CASE CommandsDone
  BY <1>2 DEF CommandsDone, TypeOK, threads, queues, control
<1>3. CASE Update
  <2>1. \E some : Answer(some)
    BY <1>3 DEF Update
  <2>2. out' \in [Conns -> 0..MaxOut]
    BY <1>0, <2>1, AnswerType
  <2>3. loop' \in {"commands", "ended"}
    BY <1>3 DEF Update
  <2>4. QED
    BY <1>3, <2>2, <2>3 DEF Update, TypeOK, threads, control
<1>4. QED
  BY <1>1, <1>2, <1>3 DEF Loop

\* Every step of main.
LEMMA MainKeepsTypes == ASSUME TypeOK, Main PROVE TypeOK'
<1> USE DEF TypeOK, threads, queues, control, world
<1>1. CASE StopAcceptor
  BY <1>1 DEF StopAcceptor
<1>2. ASSUME NEW c \in Conns, ClearStops(c) PROVE TypeOK'
  <2>1. told' \in [Conns -> BOOLEAN] /\ told'[c]
    BY <1>2, Zenon DEF ClearStops
  <2>2. QED
    BY <1>2, <2>1 DEF ClearStops
<1>3. CASE ClearJoins
  BY <1>3 DEF ClearJoins
<1>4. CASE ClearDone
  <2>1. handler' \in [Conns -> {"none", "starting", "listed", "freed"}]
    BY <1>4 DEF ClearDone
  <2>2. QED
    BY <1>4, <2>1 DEF ClearDone
<1>5. CASE CloseCommands
  BY <1>5 DEF CloseCommands
<1>6. CASE StopLoop
  BY <1>6 DEF StopLoop
<1>7. CASE JoinLoop
  BY <1>7 DEF JoinLoop
<1>8. CASE JoinAcceptor
  BY <1>8 DEF JoinAcceptor
<1>9. QED
  BY <1>1, <1>2, <1>3, <1>4, <1>5, <1>6, <1>7, <1>8 DEF Main, Ending, Clearing

LEMMA TypeStep == TypeOK /\ [Next]_vars => TypeOK'
<1> SUFFICES ASSUME TypeOK, [Next]_vars PROVE TypeOK'
  OBVIOUS
<1>1. CASE UNCHANGED vars
  <2>1. UNCHANGED <<client, handler, receiver, sender, queues, told, control, world>>
    BY <1>1 DEF vars, threads
  <2>2. ConnectionTypes /\ ControlTypes /\ LoopTypes
    BY TypesAre
  <2>3. /\ UNCHANGED <<client, handler, receiver, sender, queues>>
        /\ UNCHANGED <<told, control>> /\ UNCHANGED world
    BY <2>1
  <2>4. ConnectionTypes' /\ ControlTypes' /\ LoopTypes'
    BY <2>2, <2>3, SameConnections, SameControl, SameLoop
  <2>5. QED
    BY <2>4, TypesAre, PTL
<1>2. CASE Next
  BY <1>2, ConnectionKeepsTypes, AcceptorKeepsTypes, LoopKeepsTypes, MainKeepsTypes DEF Next
<1>3. QED
  BY <1>1, <1>2

\* Every variable has its type in every reachable state: the threads are where
\* run() can be, and clear() joins only a handler it has told to stop.
THEOREM ServerTypeCorrect == Spec => []TypeOK
BY TypeInit, TypeStep, PTL DEF Spec, SafeSpec

-----------------------------------------------------------------------------
\* A connection nobody made has no handler; one just accepted is not yet in the
\* list; only handlers of the list are told to stop, and of these only the one
\* clear() is joining may have a thread that runs.
HandlersInv ==
  /\ \A c \in Conns : client[c] = "away" => handler[c] = "none"
  /\ newest # NoConn => handler[newest] = "starting"
  /\ \A c \in Conns : told[c] => handler[c] \in {"listed", "freed"}
  /\ \A c \in Conns : handler[c] = "listed" /\ told[c] /\ c # target => ~IsAlive(c)
  /\ NoThreadOutlivesItsHandler

LEMMA HandlersStart == Init => HandlersInv
BY DEF Init, HandlersInv, NoThreadOutlivesItsHandler

\* A thread that ended stays so, unless its connection is made anew.
LEMMA ThreadsStayEnded ==
  ASSUME TypeOK, NEW c \in Conns, Receiver(c) \/ Send(c), NEW d \in Conns
  PROVE  ~IsAlive(d) => ~IsAlive(d)'
<1> USE DEF TypeOK, IsAlive
<1>1. CASE Read(c)
  <2>1. sender' = sender /\ receiver[c] = "reading"
    BY <1>1 DEF Read
  <2>2. \A e \in Conns : e # c => receiver'[e] = receiver[e]
    BY <1>1 DEF Read
  <2>3. QED
    BY <2>1, <2>2
<1>2. CASE ReadFails(c)
  BY <1>2 DEF ReadFails
<1>3. CASE SayGoodbye(c)
  BY <1>3 DEF SayGoodbye
<1>4. CASE Send(c)
  <2>1. receiver' = receiver /\ sender[c] = "popping"
    BY <1>4 DEF Send
  <2>2. \A e \in Conns : e # c => sender'[e] = sender[e]
    BY <1>4 DEF Send
  <2>3. QED
    BY <2>1, <2>2
<1>5. QED
  BY <1>1, <1>2, <1>3, <1>4 DEF Receiver

LEMMA HandlersStep == TypeOK /\ HandlersInv /\ [Next]_vars => HandlersInv'
<1> SUFFICES ASSUME TypeOK, HandlersInv, [Next]_vars PROVE HandlersInv'
  OBVIOUS
<1> USE DEF HandlersInv, NoThreadOutlivesItsHandler
<1>1. ASSUME NEW c \in Conns, ClientGoes(c) PROVE HandlersInv'
  <2>1. \A d \in Conns : client'[d] = "away" => client[d] = "away"
    BY <1>1 DEF ClientGoes, TypeOK
  <2>2. UNCHANGED <<handler, told, receiver, sender, newest, target>>
    BY <1>1 DEF ClientGoes, threads, control
  <2>3. QED
    BY <2>1, <2>2 DEF IsAlive
<1>2. ASSUME NEW c \in Conns, Receiver(c) \/ Send(c) PROVE HandlersInv'
  <2>1. \A d \in Conns : ~IsAlive(d) => ~IsAlive(d)'
    BY <1>2, ThreadsStayEnded
  <2>2. UNCHANGED <<client, handler, told, newest, target>>
    BY <1>2 DEF Receiver, Read, ReadFails, SayGoodbye, Send, control
  <2>3. QED
    BY <2>1, <2>2 DEF IsAlive
<1>3. ASSUME NEW c \in Conns, Accept(c) PROVE HandlersInv'
  <2>1. /\ client[c] = "away" /\ client' = [client EXCEPT ![c] = "open"]
        /\ handler' = [handler EXCEPT ![c] = "starting"] /\ newest' = c
        /\ UNCHANGED <<told, target>>
        /\ receiver' = [receiver EXCEPT ![c] = "reading"]
        /\ sender' = [sender EXCEPT ![c] = "popping"]
    BY <1>3 DEF Accept
  <2>2. handler[c] = "none" /\ ~told[c]
    BY <2>1
  <2>3. client'[c] = "open" /\ handler'[c] = "starting"
    BY <2>1 DEF TypeOK
  <2>4. ASSUME NEW d \in Conns, d # c
        PROVE  /\ client'[d] = client[d] /\ handler'[d] = handler[d]
               /\ receiver'[d] = receiver[d] /\ sender'[d] = sender[d]
    BY <2>1, <2>4 DEF TypeOK
  <2>5. QED
    BY <2>1, <2>2, <2>3, <2>4 DEF IsAlive
<1>4. CASE AddHandler
  <2>1. /\ newest \in Conns /\ newest' = NoConn
        /\ UNCHANGED <<client, receiver, sender, target>>
    BY <1>4 DEF AddHandler, TypeOK
  <2>2. handler[newest] = "starting" /\ ~told[newest]
    BY <2>1, NoConnIsNone
  <2>3. /\ handler'[newest] = "listed"
        /\ told'[newest] <=> told[newest]
    <3>1. handler'[newest] = "listed"
      BY <1>4, <2>1 DEF AddHandler
    <3>2. told'[newest] = (told[newest] \/ (handler[newest] = "listed" /\ ~IsAlive(newest)))
      BY <1>4, <2>1, Zenon DEF AddHandler
    <3>3. QED
      BY <3>1, <3>2, <2>2
  <2>4. ASSUME NEW d \in Conns, d # newest
        PROVE  /\ handler'[d] = IF handler[d] = "listed" /\ ~IsAlive(d) THEN "freed" ELSE handler[d]
               /\ told'[d] <=> told[d] \/ (handler[d] = "listed" /\ ~IsAlive(d))
    <3>1. handler'[d] = IF handler[d] = "listed" /\ ~IsAlive(d) THEN "freed" ELSE handler[d]
      BY <1>4, <2>4 DEF AddHandler
    <3>2. told'[d] = (told[d] \/ (handler[d] = "listed" /\ ~IsAlive(d)))
      BY <1>4, Zenon DEF AddHandler
    <3>3. QED
      BY <3>1, <3>2
  <2>5. \A d \in Conns : IsAlive(d)' <=> IsAlive(d)
    BY <2>1 DEF IsAlive
  <2>6. \A d \in Conns : (told'[d] => handler'[d] \in {"listed", "freed"})
    BY <2>2, <2>3, <2>4
  <2>7. \A d \in Conns : handler'[d] = "listed" /\ told'[d] /\ d # target => ~IsAlive(d)
    BY <2>2, <2>3, <2>4
  <2>8. \A d \in Conns : handler'[d] = "freed" => ~IsAlive(d)
    BY <2>3, <2>4 DEF IsAlive
  <2>9. \A d \in Conns : client'[d] = "away" => handler'[d] = "none"
    BY <2>1, <2>2, <2>4
  <2>10. QED
    BY <2>1, <2>5, <2>6, <2>7, <2>8, <2>9 DEF IsAlive
<1>5. CASE AcceptorEnds
  BY <1>5 DEF AcceptorEnds, threads, IsAlive
<1>6. CASE Loop
  BY <1>6 DEF Loop, ExecuteCommand, CommandsDone, Update, threads, control, IsAlive
<1>7. ASSUME NEW c \in Conns, ClearStops(c) PROVE HandlersInv'
  <2>1. /\ handler[c] = "listed" /\ target = NoConn /\ target' = c
        /\ UNCHANGED <<client, handler, receiver, sender, newest>>
    BY <1>7 DEF ClearStops
  <2>2. ASSUME NEW d \in Conns, d # c PROVE told'[d] <=> told[d]
    <3>1. told'[d] = told[d]
      BY <1>7, <2>2, Zenon DEF ClearStops, TypeOK
    <3>2. QED
      BY <3>1
  <2>3. \A d \in Conns : d # target
    BY <2>1, NoConnIsNone
  <2>4. QED
    BY <2>1, <2>2, <2>3 DEF IsAlive
<1>8. CASE ClearJoins
  BY <1>8 DEF ClearJoins, threads, IsAlive
<1>9. CASE ClearDone
  <2>1. /\ \A c \in Conns : handler[c] = "listed" => told[c]
        /\ target = NoConn
        /\ UNCHANGED <<client, told, receiver, sender, newest, target>>
    BY <1>9 DEF ClearDone, threads
  <2>2. \A c \in Conns : handler'[c] = IF handler[c] = "listed" THEN "freed" ELSE handler[c]
    BY <1>9 DEF ClearDone
  <2>3. \A c \in Conns : c # target
    BY <2>1, NoConnIsNone
  <2>4. newest # NoConn => newest \in Conns
    BY DEF TypeOK
  <2>5. \A c \in Conns : handler'[c] = "freed" => ~IsAlive(c)
    BY <2>1, <2>2, <2>3 DEF IsAlive
  <2>6. \A c \in Conns : handler'[c] # "listed"
    BY <2>2
  <2>7. QED
    BY <2>1, <2>2, <2>4, <2>5, <2>6 DEF IsAlive
<1>10. CASE StopAcceptor \/ CloseCommands \/ StopLoop \/ JoinLoop \/ JoinAcceptor
  BY <1>10 DEF StopAcceptor, CloseCommands, StopLoop, JoinLoop, JoinAcceptor, threads, IsAlive
<1>11. CASE UNCHANGED vars
  BY <1>11 DEF vars, threads, control, IsAlive
<1>12. QED
  BY <1>1, <1>2, <1>3, <1>4, <1>5, <1>6, <1>7, <1>8, <1>9, <1>10, <1>11
  DEF Next, Acceptor, Main, Ending, Clearing

\* reap() and clear() destroy no handler that still has a thread.
THEOREM HandlersCorrect == Spec => []NoThreadOutlivesItsHandler
<1>1. HandlersInv => NoThreadOutlivesItsHandler
  BY DEF HandlersInv
<1>2. QED
  BY <1>1, TypeInit, TypeStep, HandlersStart, HandlersStep, PTL DEF Spec, SafeSpec

-----------------------------------------------------------------------------
\* stop() comes after the queue of commands is closed, so that a loop that ends
\* with the queue open has ended by an exception.
EndInv ==
  /\ main \in {"stopping", "joining loop", "joining acceptor", "destroying", "done"} => closed
  /\ stopped => closed
  /\ EarlyEndHasACause

LEMMA EndStart == Init => EndInv
BY DEF Init, EndInv, EarlyEndHasACause

\* A handler that was destroyed stays so: its id is not given again.
LEMMA FreedStaysFreed ==
  ASSUME TypeOK, HandlersInv, [Next]_vars, NEW c \in Conns, handler[c] = "freed"
  PROVE  handler'[c] = "freed"
<1>1. ASSUME NEW d \in Conns, Accept(d) PROVE handler'[c] = "freed"
  <2>1. handler[d] = "none"
    BY <1>1 DEF Accept, HandlersInv
  <2>2. QED
    BY <1>1, <2>1 DEF Accept, TypeOK
<1>2. CASE AddHandler
  <2>1. c # newest
    BY <1>2, NoConnIsNone DEF HandlersInv, AddHandler, TypeOK
  <2>2. QED
    BY <1>2, <2>1 DEF AddHandler
<1>3. CASE ClearDone
  BY <1>3 DEF ClearDone
<1>4. CASE UNCHANGED handler
  BY <1>4
<1>5. QED
  BY <1>1, <1>2, <1>3, <1>4 DEF Next, Receiver, Acceptor, Loop, Main, Ending, Clearing, vars,
     ClientGoes, Read, ReadFails, SayGoodbye, Send, AcceptorEnds, ExecuteCommand, CommandsDone,
     Update, StopAcceptor, ClearStops, ClearJoins, CloseCommands, StopLoop, JoinLoop, JoinAcceptor

LEMMA EndStep == TypeOK /\ HandlersInv /\ EndInv /\ [Next]_vars => EndInv'
<1> SUFFICES ASSUME TypeOK, HandlersInv, EndInv, [Next]_vars PROVE EndInv'
  OBVIOUS
<1>0. \A c \in Conns : handler[c] = "freed" => handler'[c] = "freed"
  BY FreedStaysFreed
<1>1. CASE Update
  <2>1. /\ UNCHANGED <<main, closed, stopped, players, handler>>
        /\ loop' = "ended" => stopped \/ \E c \in players : handler[c] = "freed"
    BY <1>1 DEF Update, control
  <2>2. QED
    BY <2>1 DEF EndInv, EarlyEndHasACause
<1>2. CASE CommandsDone
  BY <1>2 DEF CommandsDone, control, queues, EndInv, EarlyEndHasACause
<1>3. CASE ExecuteCommand
  BY <1>3 DEF ExecuteCommand, control, EndInv, EarlyEndHasACause
<1>4. CASE Main
  <2>1. UNCHANGED <<loop, players>>
    BY <1>4 DEF Main, Ending, Clearing, StopAcceptor, ClearStops, ClearJoins, ClearDone,
       CloseCommands, StopLoop, JoinLoop, JoinAcceptor, world
  <2>2. closed => closed'
    BY <1>4 DEF Main, Ending, Clearing, StopAcceptor, ClearStops, ClearJoins, ClearDone,
       CloseCommands, StopLoop, JoinLoop, JoinAcceptor, queues
  <2>3. EarlyEndHasACause'
    BY <1>0, <2>1, <2>2 DEF EndInv, EarlyEndHasACause, TypeOK
  <2>4. /\ main' \in {"stopping", "joining loop", "joining acceptor", "destroying", "done"} => closed'
        /\ stopped' => closed'
    <3>1. CASE CloseCommands
      BY <3>1 DEF CloseCommands
    <3>2. CASE StopLoop
      BY <2>2, <3>2 DEF StopLoop, EndInv
    <3>3. CASE JoinLoop \/ JoinAcceptor
      BY <2>2, <3>3 DEF JoinLoop, JoinAcceptor, EndInv, world
    <3>4. CASE StopAcceptor \/ Clearing
      <4>1. UNCHANGED world
        BY <3>4 DEF StopAcceptor, Clearing, ClearStops, ClearJoins, ClearDone
      <4>2. \/ main' = main \/ main' \in {"clearing", "closing"}
            \/ main = "destroying" /\ main' = "done"
        BY <3>4 DEF StopAcceptor, Clearing, ClearStops, ClearJoins, ClearDone
      <4>3. QED
        BY <2>2, <4>1, <4>2 DEF EndInv, world
    <3>5. QED
      BY <1>4, <3>1, <3>2, <3>3, <3>4 DEF Main, Ending
  <2>5. QED
    BY <2>3, <2>4 DEF EndInv
<1>5. CASE UNCHANGED <<main, closed, stopped, loop, players>>
  BY <1>0, <1>5 DEF EndInv, EarlyEndHasACause, TypeOK
<1>6. QED
  BY <1>1, <1>2, <1>3, <1>4, <1>5 DEF Next, Receiver, Acceptor, Loop, vars, queues, control, world,
     ClientGoes, Read, ReadFails, SayGoodbye, Send, Accept, AddHandler, AcceptorEnds

\* The game loop ends by a closed queue, before it is told to, only when it
\* wrote to a player whose handler had been reaped.
THEOREM EarlyEndCorrect == Spec => []EarlyEndHasACause
<1>1. EndInv => EarlyEndHasACause
  BY DEF EndInv
<1>2. QED
  BY <1>1, TypeInit, TypeStep, HandlersStart, HandlersStep, EndStart, EndStep, PTL
  DEF Spec, SafeSpec

-----------------------------------------------------------------------------
\* Every command of a connection that is no more read has its DisconnectCommand
\* behind it, so that a login executed after its client has gone is undone.
ByeFollows(c) ==
  \A i \in 1..Len(commands) : commands[i] = <<c, "play">> =>
    \E j \in 1..Len(commands) : j > i /\ commands[j] = <<c, "bye">>

GoodbyeInv ==
  /\ loop # "ended" /\ ~closed => \A c \in Conns : receiver[c] = "ended" => ByeFollows(c)
  /\ GoodbyeIsOnItsWay

LEMMA GoodbyeStart == Init => GoodbyeInv
BY DEF Init, GoodbyeInv, GoodbyeIsOnItsWay

\* What a push and a pop leave of the order of the commands.
LEMMA PushKeepsOrder ==
  ASSUME NEW s \in Seq(Commands), NEW x \in Commands
  PROVE  /\ Append(s, x) \in Seq(Commands) /\ Len(s) \in Nat /\ Len(Append(s, x)) = Len(s) + 1
         /\ \A i \in 1..Len(s) : Append(s, x)[i] = s[i]
         /\ Append(s, x)[Len(s) + 1] = x
BY AppendProperties, LenProperties

LEMMA PopKeepsOrder ==
  ASSUME NEW s \in Seq(Commands), s # <<>>
  PROVE  /\ Len(s) \in Nat \ {0} /\ Len(Tail(s)) = Len(s) - 1 /\ Head(s) = s[1]
         /\ \A i \in 1..Len(Tail(s)) : Tail(s)[i] = s[i + 1]
<1>1. Len(s) \in Nat /\ Len(s) # 0
  BY EmptySeq, LenProperties
<1>2. QED
  BY <1>1, HeadTailProperties

LEMMA PushKeepsGoodbyes ==
  ASSUME TypeOK, NEW x \in Commands, commands' = Append(commands, x),
         NEW d \in Conns, ByeFollows(d), x # <<d, "play">>
  PROVE  ByeFollows(d)'
<1> DEFINE n == Len(commands)
<1>0. commands \in Seq(Commands)
  BY DEF TypeOK
<1>1. /\ commands \in Seq(Commands) /\ n \in Nat /\ Len(commands') = n + 1
      /\ \A i \in 1..n : commands'[i] = commands[i]
      /\ commands'[n + 1] = x
  BY <1>0, PushKeepsOrder
<1> SUFFICES ASSUME NEW i \in 1..Len(commands'), commands'[i] = <<d, "play">>
             PROVE  \E j \in 1..Len(commands') : j > i /\ commands'[j] = <<d, "bye">>
  BY DEF ByeFollows
<1>2. i \in 1..n /\ commands[i] = <<d, "play">>
  <2>1. i # n + 1
    BY <1>1
  <2>2. i \in 1..n
    BY <1>1, <2>1
  <2>3. QED
    BY <1>1, <2>2
<1>3. PICK j \in 1..n : j > i /\ commands[j] = <<d, "bye">>
  BY <1>2 DEF ByeFollows
<1>4. j \in 1..Len(commands') /\ commands'[j] = <<d, "bye">>
  BY <1>1, <1>3
<1>5. QED
  BY <1>3, <1>4

LEMMA PushKeepsGoodbyeOf ==
  ASSUME TypeOK, NEW x \in Commands, commands' = Append(commands, x), NEW d,
         \E i \in 1..Len(commands) : commands[i] = <<d, "bye">>
  PROVE  \E i \in 1..Len(commands') : commands'[i] = <<d, "bye">>
<1>0. commands \in Seq(Commands)
  BY DEF TypeOK
<1>1. /\ Len(commands) \in Nat /\ Len(commands') = Len(commands) + 1
      /\ \A i \in 1..Len(commands) : commands'[i] = commands[i]
  BY <1>0, PushKeepsOrder
<1>2. PICK i \in 1..Len(commands) : commands[i] = <<d, "bye">>
  OBVIOUS
<1>3. i \in 1..Len(commands') /\ commands'[i] = <<d, "bye">>
  BY <1>1, <1>2
<1>4. QED
  BY <1>3

LEMMA PopKeepsGoodbyes ==
  ASSUME TypeOK, commands # <<>>, commands' = Tail(commands), NEW d \in Conns
  PROVE  /\ ByeFollows(d) => ByeFollows(d)'
         /\ ByeFollows(d) /\ Head(commands) = <<d, "play">> =>
              \E i \in 1..Len(commands') : commands'[i] = <<d, "bye">>
         /\ (\E i \in 1..Len(commands) : commands[i] = <<d, "bye">>)
              /\ Head(commands) # <<d, "bye">> =>
              \E i \in 1..Len(commands') : commands'[i] = <<d, "bye">>
<1> DEFINE n == Len(commands)
<1>1. /\ n \in Nat \ {0} /\ Len(commands') = n - 1 /\ Head(commands) = commands[1]
      /\ \A i \in 1..Len(commands') : commands'[i] = commands[i + 1]
  BY PopKeepsOrder DEF TypeOK
<1>2. ASSUME NEW i \in 1..n, i # 1
      PROVE  i - 1 \in 1..Len(commands') /\ commands'[i - 1] = commands[i]
  <2>1. i - 1 \in 1..Len(commands') /\ (i - 1) + 1 = i
    BY <1>1, <1>2
  <2>2. QED
    BY <1>1, <2>1
<1>3. ASSUME ByeFollows(d), NEW i \in 1..Len(commands'), commands'[i] = <<d, "play">>
      PROVE  \E j \in 1..Len(commands') : j > i /\ commands'[j] = <<d, "bye">>
  <2>1. i + 1 \in 1..n /\ commands[i + 1] = <<d, "play">>
    BY <1>1, <1>3
  <2>2. PICK j \in 1..n : j > i + 1 /\ commands[j] = <<d, "bye">>
    BY <1>3, <2>1 DEF ByeFollows
  <2>3. j # 1 /\ j - 1 > i
    BY <1>1, <2>2
  <2>4. QED
    BY <1>2, <2>2, <2>3
<1>4. ASSUME ByeFollows(d), Head(commands) = <<d, "play">>
      PROVE  \E i \in 1..Len(commands') : commands'[i] = <<d, "bye">>
  <2>1. 1 \in 1..n /\ commands[1] = <<d, "play">>
    BY <1>1, <1>4
  <2>2. PICK j \in 1..n : j > 1 /\ commands[j] = <<d, "bye">>
    BY <1>4, <2>1 DEF ByeFollows
  <2>3. j # 1
    BY <2>2
  <2>4. QED
    BY <1>2, <2>2, <2>3
<1>5. ASSUME NEW i \in 1..n, commands[i] = <<d, "bye">>, Head(commands) # <<d, "bye">>
      PROVE  \E j \in 1..Len(commands') : commands'[j] = <<d, "bye">>
  <2>1. i # 1
    BY <1>1, <1>5
  <2>2. QED
    BY <1>2, <1>5, <2>1
<1>6. QED
  BY <1>3, <1>4, <1>5 DEF ByeFollows

\* Nothing but a command changes who is in the game or was cut off.
LEMMA OnlyCommandsMovePlayers ==
  ASSUME [Next]_vars PROVE ExecuteCommand \/ UNCHANGED <<players, cut>>
BY DEF Next, vars, Receiver, Acceptor, Loop, Main, Ending, Clearing, world, ClientGoes, Read,
   ReadFails, SayGoodbye, Send, Accept, AddHandler, AcceptorEnds, CommandsDone, Update,
   StopAcceptor, ClearStops, ClearJoins, ClearDone, CloseCommands, StopLoop, JoinLoop, JoinAcceptor

\* A goodbye is cut off by a handler destroyed before, and no handler comes back.
LEMMA CutStep ==
  ASSUME TypeOK, HandlersInv, [Next]_vars, \A c \in cut : AMateIsGone(c)
  PROVE  \A c \in cut' : AMateIsGone(c)'
<1>1. \A c \in Conns : AMateIsGone(c) => AMateIsGone(c)'
  BY FreedStaysFreed DEF AMateIsGone
<1>2. cut \subseteq Conns
  BY DEF TypeOK
<1>3. CASE ExecuteCommand
  <2>1. /\ Head(commands) \in Commands
        /\ \/ cut' \subseteq cut
           \/ cut' = cut \union {Head(commands)[1]} /\ AMateIsGone(Head(commands)[1])
    BY <1>3, CommandOutcome
  <2>2. Head(commands)[1] \in Conns
    BY <2>1 DEF Commands
  <2>3. QED
    BY <1>1, <1>2, <2>1, <2>2
<1>4. CASE UNCHANGED cut
  BY <1>1, <1>2, <1>4
<1>5. QED
  BY <1>3, <1>4, OnlyCommandsMovePlayers

LEMMA GoodbyeStep == TypeOK /\ HandlersInv /\ GoodbyeInv /\ [Next]_vars => GoodbyeInv'
<1> SUFFICES ASSUME TypeOK, HandlersInv, GoodbyeInv, [Next]_vars PROVE GoodbyeInv'
  OBVIOUS
<1>0. players' \subseteq Conns /\ cut \subseteq players
  <2>1. TypeOK'
    BY TypeStep
  <2>2. QED
    BY <2>1 DEF TypeOK
<1>00. \A c \in cut' : AMateIsGone(c)'
  BY CutStep DEF GoodbyeInv, GoodbyeIsOnItsWay
<1> SUFFICES ASSUME loop' # "ended", ~closed'
             PROVE  \A d \in Conns : receiver'[d] = "ended" =>
                      /\ ByeFollows(d)'
                      /\ d \in players' \ cut' => \E i \in 1..Len(commands') : commands'[i] = <<d, "bye">>
  BY <1>0, <1>00 DEF GoodbyeInv, GoodbyeIsOnItsWay
<1> TAKE d \in Conns
<1> HAVE receiver'[d] = "ended"
<1> DEFINE Told == \E i \in 1..Len(commands) : commands[i] = <<d, "bye">>
<1>1. ~closed /\ loop # "ended"
  <2>1. closed => closed'
    BY DEF Next, vars, Receiver, Acceptor, Loop, Main, Ending, Clearing, queues, ClientGoes, Read,
       ReadFails, SayGoodbye, Send, Accept, AddHandler, AcceptorEnds, ExecuteCommand,
       CommandsDone, Update, StopAcceptor, ClearStops, ClearJoins, ClearDone, CloseCommands,
       StopLoop, JoinLoop, JoinAcceptor
  <2>2. loop = "ended" => loop' = "ended"
    BY DEF Next, vars, Receiver, Acceptor, Loop, Main, Ending, Clearing, world, ClientGoes, Read,
       ReadFails, SayGoodbye, Send, Accept, AddHandler, AcceptorEnds, ExecuteCommand,
       CommandsDone, Update, StopAcceptor, ClearStops, ClearJoins, ClearDone, CloseCommands,
       StopLoop, JoinLoop, JoinAcceptor
  <2>3. QED
    BY <2>1, <2>2
<1>2. receiver[d] = "ended" => ByeFollows(d) /\ (d \in players \ cut => Told)
  BY <1>1 DEF GoodbyeInv, GoodbyeIsOnItsWay
<1>3. ASSUME NEW c \in Conns, Read(c)
      PROVE  ByeFollows(d)' /\ (d \in players' \ cut' => \E i \in 1..Len(commands') : commands'[i] = <<d, "bye">>)
  <2>1. PICK what \in {"play", "bye", "end"} :
          /\ commands' = IF closed \/ what = "end" THEN commands ELSE Append(commands, <<c, what>>)
          /\ receiver' = [receiver EXCEPT ![c] =
                            IF closed \/ told[c] \/ what # "play" THEN "leaving" ELSE @]
    BY <1>3 DEF Read
  <2>2. receiver[c] = "reading" /\ players' = players /\ cut' = cut
    BY <1>3 DEF Read, world
  <2>3. d # c /\ receiver[d] = "ended"
    BY <2>1, <2>2 DEF TypeOK
  <2>4. CASE commands' = commands
    BY <1>2, <2>2, <2>3, <2>4 DEF ByeFollows
  <2>5. CASE commands' = Append(commands, <<c, what>>) /\ what # "end"
    <3>1. <<c, what>> \in Commands /\ <<c, what>> # <<d, "play">>
      BY <2>3, <2>5 DEF Commands
    <3>2. ByeFollows(d)'
      BY <1>2, <2>3, <2>5, <3>1, PushKeepsGoodbyes
    <3>3. Told => \E i \in 1..Len(commands') : commands'[i] = <<d, "bye">>
      BY <2>5, <3>1, PushKeepsGoodbyeOf
    <3>4. QED
      BY <1>2, <2>2, <2>3, <3>2, <3>3
  <2>6. QED
    BY <2>1, <2>4, <2>5
<1>4. ASSUME NEW c \in Conns, SayGoodbye(c)
      PROVE  ByeFollows(d)' /\ (d \in players' \ cut' => \E i \in 1..Len(commands') : commands'[i] = <<d, "bye">>)
  <2>1. /\ commands' = Append(commands, <<c, "bye">>) /\ players' = players /\ cut' = cut
        /\ receiver' = [receiver EXCEPT ![c] = "ended"]
    BY <1>1, <1>4 DEF SayGoodbye, world
  <2>2. <<c, "bye">> \in Commands /\ <<c, "bye">> # <<d, "play">>
    BY DEF Commands
  <2>3. CASE d = c
    <3> DEFINE n == Len(commands)
    <3>1. /\ n \in Nat /\ Len(commands') = n + 1
          /\ \A i \in 1..n : commands'[i] = commands[i]
          /\ commands'[n + 1] = <<d, "bye">>
      <4>1. commands \in Seq(Commands) /\ commands' = Append(commands, <<d, "bye">>)
        BY <2>1, <2>3 DEF TypeOK
      <4>2. <<d, "bye">> \in Commands
        BY <2>2, <2>3
      <4>3. QED
        BY <4>1, <4>2, PushKeepsOrder
    <3>2. n + 1 \in 1..Len(commands')
      BY <3>1
    <3>3. ASSUME NEW i \in 1..Len(commands'), commands'[i] = <<d, "play">> PROVE n + 1 > i
      BY <3>1, <3>3
    <3>4. QED
      BY <3>1, <3>2, <3>3 DEF ByeFollows
  <2>4. CASE d # c
    <3>1. receiver[d] = "ended"
      BY <2>1, <2>4 DEF TypeOK
    <3>2. ByeFollows(d)'
      BY <1>2, <2>1, <2>2, <3>1, PushKeepsGoodbyes
    <3>3. Told => \E i \in 1..Len(commands') : commands'[i] = <<d, "bye">>
      BY <2>1, <2>2, PushKeepsGoodbyeOf
    <3>4. QED
      BY <1>2, <2>1, <3>1, <3>2, <3>3
  <2>5. QED
    BY <2>3, <2>4
<1>5. ASSUME ExecuteCommand
      PROVE  ByeFollows(d)' /\ (d \in players' \ cut' => \E i \in 1..Len(commands') : commands'[i] = <<d, "bye">>)
  <2>1. /\ commands # <<>> /\ commands' = Tail(commands) /\ receiver' = receiver
        /\ \/ /\ Head(commands)[2] = "play" /\ cut' = cut
              /\ players' \in {players, players \union {Head(commands)[1]}}
           \/ /\ Head(commands)[2] = "bye"
              /\ players' \ cut' \subseteq (players \ cut) \ {Head(commands)[1]}
    BY <1>5, CommandOutcome DEF ExecuteCommand, threads
  <2>2. Head(commands) \in Commands
    BY <1>5, CommandOutcome
  <2>3. ByeFollows(d) /\ (d \in players \ cut => Told)
    BY <1>2, <2>1
  <2>4. ByeFollows(d)'
    BY <2>1, <2>3, PopKeepsGoodbyes
  <2>5. ASSUME d \in players' \ cut', Head(commands) = <<d, "play">>
        PROVE  \E i \in 1..Len(commands') : commands'[i] = <<d, "bye">>
    BY <2>1, <2>3, <2>5, PopKeepsGoodbyes
  <2>6. ASSUME d \in players' \ cut', Head(commands) # <<d, "play">>
        PROVE  \E i \in 1..Len(commands') : commands'[i] = <<d, "bye">>
    <3>1. PICK c \in Conns, what \in {"play", "bye"} : Head(commands) = <<c, what>>
      BY <2>2 DEF Commands
    <3>2. d \in players \ cut /\ Head(commands) # <<d, "bye">>
      BY <2>1, <2>6, <3>1
    <3>3. Told
      BY <2>3, <3>2
    <3>4. QED
      BY <2>1, <3>2, <3>3, PopKeepsGoodbyes
  <2>7. QED
    BY <2>4, <2>5, <2>6
<1>6. CASE UNCHANGED <<commands, players, cut>> /\ (receiver'[d] = "ended" => receiver[d] = "ended")
  BY <1>2, <1>6 DEF ByeFollows
<1>7. ASSUME NEW c \in Conns, Accept(c) \/ ReadFails(c)
      PROVE  UNCHANGED <<commands, players, cut>> /\ (receiver'[d] = "ended" => receiver[d] = "ended")
  BY <1>7 DEF Accept, ReadFails, TypeOK, queues, world
<1>8. QED
  BY <1>3, <1>4, <1>5, <1>6, <1>7
  DEF Next, vars, Receiver, Acceptor, Loop, Main, Ending, Clearing, queues, world, threads,
      ClientGoes, Send, AddHandler, AcceptorEnds, CommandsDone, Update, StopAcceptor, ClearStops,
      ClearJoins, ClearDone, CloseCommands, StopLoop, JoinLoop, JoinAcceptor

\* However its connection ended, a player nobody reads for is to leave the game,
\* unless the handler of somebody else, destroyed before, cut its goodbye off.
THEOREM GoodbyeCorrect == Spec => []GoodbyeIsOnItsWay
<1>1. GoodbyeInv => GoodbyeIsOnItsWay
  BY DEF GoodbyeInv
<1>2. QED
  BY <1>1, TypeInit, TypeStep, HandlersStart, HandlersStep, GoodbyeStart, GoodbyeStep, PTL
  DEF Spec, SafeSpec
=============================================================================
