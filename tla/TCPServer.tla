------------------------------- MODULE TCPServer -------------------------------
(***************************************************************************)
(* sauna/consumers/ext/tcp_server.py: one thread serves the current status *)
(* to TCP clients.  Each round of its loop works on the lists that select  *)
(* returned, while the handlers close sockets and change the lists the     *)
(* next select will be given: what a round works on may be out of date.    *)
(*                                                                         *)
(* The bytes of an answer are counted, their text is left out.  Clients    *)
(* connect, send lines or other data, read, shut down their end and reset  *)
(* the connection at any time.  As on Linux, whose keepalive options the   *)
(* code sets, a socket that accept() returns blocks although the listening *)
(* socket does not.                                                        *)
(***************************************************************************)
EXTENDS Integers

CONSTANTS
  Clients,      \* each connects at most once
  Server,       \* self.server, the listening socket
  NoSocket,     \* no socket at all
  AnswerSize,   \* bytes of an answer
  SendRoom,     \* bytes the kernel takes for a client that does not read
  MaxMessages   \* bound on what a client sends

ASSUME SocketsAssumption == Server \notin Clients /\ NoSocket \notin Clients
ASSUME SizesAssumption ==
  /\ AnswerSize \in Nat \ {0}
  /\ SendRoom \in Nat \ {0}
  /\ MaxMessages \in Nat

VARIABLES
  mustStop,     \* must_stop.is_set()
  pc,           \* where run() is
  conn,         \* state of each client's connection, as the server has it
  readWanted,   \* self.read_wanted, but for the server, which never leaves it
  writeWanted,  \* self.write_wanted: how many times each client is in the list
  writeBuffers, \* self.write_buffers, a defaultdict: length of each buffer
  errored,      \* what is left of the three lists that select returned
  readable,
  writable,
  sending,      \* the client whose send() has not returned
  link,         \* what each client did with its end: "up", "shut" or "reset"
  incoming,     \* data the server has not received: "none", "other" or a "line"
  messages,     \* history: how many messages each client sent
  room,         \* bytes the kernel would take for each client now
  owed          \* history: bytes of the answers made that the kernel did not take yet

listVars == <<readWanted, writeWanted, writeBuffers>>
roundVars == <<errored, readable, writable, sending>>
clientVars == <<link, incoming, messages>>
byteVars == <<room, owed>>
vars == <<mustStop, pc, conn, listVars, roundVars, clientVars, byteVars>>

Open(c) == conn[c] = "open"

\* self.write_buffers[c]
Buffered(c) == IF c \in DOMAIN writeBuffers THEN writeBuffers[c] ELSE 0

WithBuffer(c, n) == [d \in DOMAIN writeBuffers \cup {c} |-> IF d = c THEN n ELSE writeBuffers[d]]

AtMost(bound, n) == IF n > bound THEN bound ELSE n

-----------------------------------------------------------------------------
Init ==
  /\ mustStop = FALSE
  /\ pc = "loop"
  /\ conn = [c \in Clients |-> "absent"]
  /\ readWanted = {}
  /\ writeWanted = [c \in Clients |-> 0]
  /\ writeBuffers = [c \in {} |-> 0]
  /\ errored = {}
  /\ readable = {}
  /\ writable = [c \in Clients |-> 0]
  /\ sending = NoSocket
  /\ link = [c \in Clients |-> "up"]
  /\ incoming = [c \in Clients |-> "none"]
  /\ messages = [c \in Clients |-> 0]
  /\ room = [c \in Clients |-> SendRoom]
  /\ owed = [c \in Clients |-> 0]

(* The clients and the rest of the program.                                *)

SetMustStop ==
  /\ ~ mustStop
  /\ mustStop' = TRUE
  /\ UNCHANGED <<pc, conn, listVars, roundVars, clientVars, byteVars>>

\* The connection is complete: it waits in the backlog for accept().
Connect(c) ==
  /\ conn[c] = "absent"
  /\ conn' = [conn EXCEPT ![c] = "pending"]
  /\ UNCHANGED <<mustStop, pc, listVars, roundVars, clientVars, byteVars>>

\* What arrives before the server receives is received at once.
SendMessage(c) ==
  /\ conn[c] \in {"pending", "open"}
  /\ link[c] = "up"
  /\ messages[c] < MaxMessages
  /\ messages' = [messages EXCEPT ![c] = @ + 1]
  /\ \E data \in {"other", "line"} :
       incoming' = [incoming EXCEPT ![c] = IF @ = "line" THEN @ ELSE data]
  /\ UNCHANGED <<mustStop, pc, conn, listVars, roundVars, link, byteVars>>

\* The client closes the connection for writing, or resets it.
HangUp(c) ==
  /\ conn[c] \in {"pending", "open"}
  /\ \E end \in {"shut", "reset"} :
       /\ link[c] # "reset" /\ link[c] # end
       /\ link' = [link EXCEPT ![c] = end]
  /\ UNCHANGED <<mustStop, pc, conn, listVars, roundVars, incoming, messages, byteVars>>

\* The client reads what it was sent.
ClientReads(c) ==
  /\ room[c] < SendRoom
  /\ link[c] # "reset"
  /\ room' = [room EXCEPT ![c] = SendRoom]
  /\ UNCHANGED <<mustStop, pc, conn, listVars, roundVars, clientVars, owed>>

(* run()                                                                   *)

Stop ==
  /\ pc = "loop"
  /\ mustStop
  /\ pc' = "stopped"
  /\ UNCHANGED <<mustStop, conn, listVars, roundVars, clientVars, byteVars>>

CallSelect ==
  /\ pc = "loop"
  /\ ~ mustStop
  /\ pc' = "select"
  /\ UNCHANGED <<mustStop, conn, listVars, roundVars, clientVars, byteVars>>

ReadyToRead ==
  {c \in readWanted : incoming[c] # "none" \/ link[c] # "up"}
    \cup {s \in {Server} : \E c \in Clients : conn[c] = "pending"}

ReadyToWrite(c) == room[c] > 0 \/ link[c] = "reset"

SelectReturnsMut == ReadyToRead # {} \/ \E c \in Clients : writeWanted[c] > 0 /\ ReadyToWrite(c)

\* With a timeout of one second select always returns, if need be with empty lists.
SelectReturns == TRUE

\* A socket is in the third list when its client sent urgent data.  select() returns a
\* socket as many times as it is in the list, and raises ValueError for a closed one.
Select ==
  /\ pc = "select"
  /\ SelectReturns
  /\ pc' = IF \A c \in readWanted \cup {d \in Clients : writeWanted[d] > 0} : Open(c)
           THEN "errored" ELSE "raised"
  /\ errored' \in SUBSET readWanted
  /\ readable' = ReadyToRead
  /\ writable' = [c \in Clients |-> IF ReadyToWrite(c) THEN writeWanted[c] ELSE 0]
  /\ UNCHANGED <<mustStop, conn, listVars, sending, clientVars, byteVars>>

\* The loop over the writable sockets is over.
AllWritten == \A c \in Clients : writable[c] = 0

NextPhase ==
  /\ \/ pc = "errored" /\ errored = {} /\ pc' = "readable"
     \/ pc = "readable" /\ readable = {} /\ pc' = "writable"
     \/ pc = "writable" /\ sending = NoSocket /\ AllWritten /\ pc' = "loop"
  /\ UNCHANGED <<mustStop, conn, listVars, roundVars, clientVars, byteVars>>

OccurrencesLeftMut(n) == IF n > 0 THEN n - 1 ELSE 0

\* _remove_from_list takes every occurrence out of the list.
OccurrencesLeft(n) == 0

\* _close_socket, which may be called again for a closed socket.  The kernel drops what
\* was not received or sent; what a client does after that is left out.
CloseSocket(c) ==
  /\ conn' = [conn EXCEPT ![c] = "closed"]
  /\ readWanted' = readWanted \ {c}
  /\ writeWanted' = [writeWanted EXCEPT ![c] = OccurrencesLeft(@)]
  /\ writeBuffers' = [d \in DOMAIN writeBuffers \ {c} |-> writeBuffers[d]]
  /\ link' = [link EXCEPT ![c] = "reset"]
  /\ incoming' = [incoming EXCEPT ![c] = "none"]
  /\ room' = [room EXCEPT ![c] = SendRoom]
  /\ owed' = [owed EXCEPT ![c] = 0]

HandleError(c) ==
  /\ pc = "errored"
  /\ c \in errored
  /\ errored' = errored \ {c}
  /\ CloseSocket(c)
  /\ UNCHANGED <<mustStop, pc, readable, writable, sending, messages>>

AnswerMut(c) ==
  /\ writeBuffers' = WithBuffer(c, AnswerSize)
  /\ owed' = [owed EXCEPT ![c] = @ + AnswerSize]

\* self.write_buffers[s] += the current status.
Answer(c) ==
  /\ writeBuffers' = WithBuffer(c, Buffered(c) + AnswerSize)
  /\ owed' = [owed EXCEPT ![c] = @ + AnswerSize]

(* _handle_read_event                                                      *)

\* accept() succeeds: the socket is appended to write_wanted twice, once in
\* _accept_new_connection and once for the answer.
Accept(c) ==
  /\ pc = "readable"
  /\ Server \in readable
  /\ conn[c] = "pending"
  /\ readable' = readable \ {Server}
  /\ conn' = [conn EXCEPT ![c] = "open"]
  /\ readWanted' = readWanted \cup {c}
  /\ writeWanted' = [writeWanted EXCEPT ![c] = @ + 2]
  /\ Answer(c)
  /\ UNCHANGED <<mustStop, pc, errored, writable, sending, clientVars, room>>

\* accept() raises, for instance when the process has no file descriptor left: nothing
\* catches it and the thread ends.
AcceptRaises ==
  /\ pc = "readable"
  /\ Server \in readable
  /\ pc' = "acceptFailed"
  /\ UNCHANGED <<mustStop, conn, listVars, roundVars, clientVars, byteVars>>

EndOfStreamMut(c) == incoming[c] # "line"

EndOfStreamIgnoredMut(c) == FALSE

\* recv() returns an empty string.
EndOfStream(c) == incoming[c] = "none"

\* recv() raises because the client reset the connection or because the socket was
\* closed in this very round, or returns nothing: the client shut down its end.
ReceiveEnd(c) ==
  /\ pc = "readable"
  /\ c \in readable \cap Clients
  /\ ~ Open(c) \/ link[c] = "reset" \/ EndOfStream(c)
  /\ readable' = readable \ {c}
  /\ CloseSocket(c)
  /\ UNCHANGED <<mustStop, pc, errored, writable, sending, messages>>

AnswersWantedMut(c) == writeWanted[c]

\* self.write_wanted.append(s)
AnswersWanted(c) == writeWanted[c] + 1

ReceiveData(c) ==
  /\ pc = "readable"
  /\ c \in readable \cap Clients
  /\ Open(c) /\ link[c] # "reset" /\ ~ EndOfStream(c)
  /\ readable' = readable \ {c}
  /\ incoming' = [incoming EXCEPT ![c] = "none"]
  /\ IF incoming[c] = "line"
     THEN /\ Answer(c)
          /\ writeWanted' = [writeWanted EXCEPT ![c] = AnswersWanted(c)]
     ELSE UNCHANGED <<writeBuffers, owed, writeWanted>>
  /\ UNCHANGED <<mustStop, pc, conn, readWanted, errored, writable, sending, link, messages, room>>

(* _handle_write_event                                                     *)

CallSend(c) ==
  /\ pc = "writable"
  /\ sending = NoSocket
  /\ writable[c] > 0
  /\ writable' = [writable EXCEPT ![c] = @ - 1]
  /\ sending' = c
  /\ UNCHANGED <<mustStop, pc, conn, listVars, errored, readable, clientVars, byteVars>>

\* send() raises: the connection was reset or the socket was closed in this very round.
\* The look-up in write_buffers made an entry for a closed socket, which _close_socket
\* deletes again.
SendRaises(c) ==
  /\ pc = "writable"
  /\ sending = c
  /\ ~ Open(c) \/ link[c] = "reset"
  /\ sending' = NoSocket
  /\ CloseSocket(c)
  /\ UNCHANGED <<mustStop, pc, errored, readable, writable, messages>>

SentNow(c) == AtMost(room[c], Buffered(c))

WantedAfterSendMut(c) == 0

\* self.write_wanted.remove(s) takes one occurrence out of the list.
WantedAfterSend(c) == writeWanted[c] - 1

\* send() on a socket that blocks waits for room until the kernel has taken all.
\* The socket leaves write_wanted when its buffer is empty; list.remove raises
\* ValueError if it is not there.
Send(c) ==
  /\ pc = "writable"
  /\ sending = c
  /\ Open(c) /\ link[c] # "reset"
  /\ SentNow(c) > 0 \/ Buffered(c) = 0
  /\ LET left == Buffered(c) - SentNow(c) IN
       /\ writeBuffers' = WithBuffer(c, left)
       /\ sending' = IF left = 0 THEN NoSocket ELSE c
       /\ writeWanted' = [writeWanted EXCEPT ![c] =
                            IF left = 0 /\ @ > 0 THEN WantedAfterSend(c) ELSE @]
       /\ pc' = IF left = 0 /\ writeWanted[c] = 0 THEN "raised" ELSE pc
  /\ room' = [room EXCEPT ![c] = @ - SentNow(c)]
  /\ owed' = [owed EXCEPT ![c] = @ - SentNow(c)]
  /\ UNCHANGED <<mustStop, conn, readWanted, errored, readable, writable, clientVars>>

-----------------------------------------------------------------------------
Environment ==
  \/ SetMustStop
  \/ \E c \in Clients : Connect(c) \/ SendMessage(c) \/ HangUp(c) \/ ClientReads(c)

HandleRead == AcceptRaises \/ \E c \in Clients : Accept(c) \/ ReceiveEnd(c) \/ ReceiveData(c)

HandleWrite == \E c \in Clients : CallSend(c) \/ SendRaises(c) \/ Send(c)

Run ==
  \/ Stop \/ CallSelect \/ Select \/ NextPhase
  \/ \E c \in Clients : HandleError(c)
  \/ HandleRead
  \/ HandleWrite

Next == Environment \/ Run

Spec == Init /\ [][Next]_vars

\* The thread runs, and the clients read or reset: a blocking send() may depend on it.
Fairness ==
  /\ WF_vars(Run)
  /\ \A c \in Clients : WF_vars(ClientReads(c))

FairSpec == Spec /\ Fairness

-----------------------------------------------------------------------------
\* The types of the variables; a round ends when all its lists were gone through.
TypeOK ==
  /\ mustStop \in BOOLEAN
  /\ pc \in {"loop", "select", "errored", "readable", "writable",
             "stopped", "acceptFailed", "raised"}
  /\ conn \in [Clients -> {"absent", "pending", "open", "closed"}]
  /\ readWanted \in SUBSET Clients
  /\ writeWanted \in [Clients -> Nat]
  /\ DOMAIN writeBuffers \in SUBSET Clients
  /\ writeBuffers \in [DOMAIN writeBuffers -> Nat]
  /\ errored \in SUBSET Clients
  /\ readable \in SUBSET (Clients \cup {Server})
  /\ writable \in [Clients -> Nat]
  /\ sending \in Clients \cup {NoSocket}
  /\ link \in [Clients -> {"up", "shut", "reset"}]
  /\ incoming \in [Clients -> {"none", "other", "line"}]
  /\ messages \in [Clients -> 0..MaxMessages]
  /\ room \in [Clients -> 0..SendRoom]
  /\ owed \in [Clients -> Int]
  /\ sending # NoSocket => pc = "writable"
  /\ pc \in {"errored", "raised"} \/ errored = {}
  /\ pc \in {"errored", "readable", "acceptFailed", "raised"} \/ readable = {}
  /\ pc \in {"loop", "select"} => AllWritten

\* The server watches every connection it accepted and did not close, and keeps nothing
\* of the others: select() is never given a closed socket.
OnlyOpenSockets ==
  /\ readWanted = {c \in Clients : Open(c)}
  /\ \A c \in Clients : writeWanted[c] > 0 => Open(c)
  /\ \A c \in DOMAIN writeBuffers : Open(c)

\* However out of date the lists of a round are, no handler raises ValueError.
HandlersNeverRaise == pc # "raised"

\* Why not: a connection that is open is in write_wanted at least as many times as in
\* what is left of the list of the round.
WritableIsWanted ==
  \A c \in Clients : Open(c) => writable[c] + (IF sending = c THEN 1 ELSE 0) <= writeWanted[c]

\* A client whose answer is in the buffer is in write_wanted: it will be sent.
BufferedIsWanted == \A c \in Clients : Buffered(c) > 0 => writeWanted[c] > 0

\* Each answer reaches the kernel once and whole, in however many pieces.
BytesAddUp == \A c \in Clients : owed[c] = Buffered(c)

\* The server closes a connection only when its client hung up or sent urgent data: no
\* handler mistakes an out of date list for an error.
OnlyDeadIsClosed ==
  [][\A c \in Clients : Open(c) /\ conn'[c] = "closed" => link[c] # "up" \/ pc = "errored"]_vars

Over == pc \in {"stopped", "acceptFailed"}

\* A client that connects or sends a line gets a whole answer or its connection is
\* closed, as long as the thread runs.
EveryClientServed ==
  \A c \in Clients :
    conn[c] = "pending" \/ (Open(c) /\ (incoming[c] = "line" \/ Buffered(c) > 0)) ~>
      \/ Open(c) /\ incoming[c] # "line" /\ Buffered(c) = 0
      \/ conn[c] = "closed"
      \/ Over

\* The server notices that a client has hung up.
HangUpNoticed == \A c \in Clients : Open(c) /\ link[c] # "up" ~> conn[c] = "closed" \/ Over

\* The thread ends when the program stops.
StopIsObeyed == mustStop ~> Over
===============================================================================
