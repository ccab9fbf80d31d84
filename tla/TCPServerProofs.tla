---------------------------- MODULE TCPServerProofs ----------------------------
(***************************************************************************)
(* However many clients connect, send, hang up or stop reading, and in     *)
(* whatever order a round handles its sockets, no handler of the TCP       *)
(* server raises and no answer is forgotten.                               *)
(***************************************************************************)
EXTENDS TCPServer, TLAPS

\* No round knows of a connection that was not accepted yet.
NotYetWritable == \A c \in Clients : conn[c] \in {"absent", "pending"} => writable[c] = 0

\* The inductive invariant.
IInv ==
  /\ TypeOK
  /\ OnlyOpenSockets
  /\ HandlersNeverRaise
  /\ WritableIsWanted
  /\ BufferedIsWanted
  /\ BytesAddUp
  /\ NotYetWritable

\* What the invariants say of a connection.
Safe ==
  /\ OnlyOpenSockets
  /\ HandlersNeverRaise
  /\ WritableIsWanted
  /\ BufferedIsWanted
  /\ BytesAddUp
  /\ NotYetWritable

-----------------------------------------------------------------------------
\* The length of a buffer is a number.
LEMMA BufferedType ==
  ASSUME TypeOK, NEW c \in Clients
  PROVE  Buffered(c) \in Nat
BY DEF TypeOK, Buffered

\* What a look-up or an assignment in the defaultdict leaves there.
LEMMA WithBufferType ==
  ASSUME TypeOK, NEW c \in Clients, NEW n \in Nat
  PROVE  /\ DOMAIN WithBuffer(c, n) = DOMAIN writeBuffers \cup {c}
         /\ DOMAIN WithBuffer(c, n) \in SUBSET Clients
         /\ WithBuffer(c, n) \in [DOMAIN WithBuffer(c, n) -> Nat]
         /\ WithBuffer(c, n)[c] = n
         /\ \A d \in DOMAIN writeBuffers : d # c => WithBuffer(c, n)[d] = writeBuffers[d]
BY DEF TypeOK, WithBuffer

\* The initial state.
LEMMA InitIInv == Init => IInv
<1> SUFFICES ASSUME Init PROVE IInv
  OBVIOUS
<1>1. TypeOK
  <2>1. room \in [Clients -> 0..SendRoom] /\ messages \in [Clients -> 0..MaxMessages]
    BY SizesAssumption DEF Init
  <2>2. DOMAIN writeBuffers = {} /\ writeBuffers \in [DOMAIN writeBuffers -> Nat]
    BY DEF Init
  <2>3. /\ owed \in [Clients -> Int] /\ writeWanted \in [Clients -> Nat]
        /\ writable \in [Clients -> Nat] /\ AllWritten
    BY DEF Init, AllWritten
  <2>4. /\ conn \in [Clients -> {"absent", "pending", "open", "closed"}]
        /\ link \in [Clients -> {"up", "shut", "reset"}]
        /\ incoming \in [Clients -> {"none", "other", "line"}]
    BY DEF Init
  <2>5. /\ mustStop = FALSE /\ pc = "loop" /\ readWanted = {} /\ errored = {} /\ readable = {}
        /\ sending = NoSocket
    BY DEF Init
  <2> QED
    BY <2>1, <2>2, <2>3, <2>4, <2>5 DEF TypeOK
<1>2. \A c \in Clients : Buffered(c) = 0
  BY DEF Init, Buffered
<1>3. OnlyOpenSockets
  BY DEF Init, OnlyOpenSockets, Open
<1>4. HandlersNeverRaise /\ WritableIsWanted /\ NotYetWritable
  BY DEF Init, HandlersNeverRaise, WritableIsWanted, NotYetWritable, Open
<1>5. BufferedIsWanted /\ BytesAddUp
  BY <1>2 DEF Init, BufferedIsWanted, BytesAddUp
<1> QED
  BY <1>1, <1>3, <1>4, <1>5 DEF IInv

\* Closing a socket, wherever it was in the lists.
LEMMA ClosingIsSafe ==
  ASSUME IInv, NEW c \in Clients, CloseSocket(c),
         pc' = pc, \A d \in Clients : writable'[d] = writable[d],
         sending' = sending \/ sending' = NoSocket
  PROVE  /\ Safe'
         /\ conn' \in [Clients -> {"absent", "pending", "open", "closed"}]
         /\ readWanted' \in SUBSET Clients
         /\ writeWanted' \in [Clients -> Nat]
         /\ DOMAIN writeBuffers' \in SUBSET Clients
         /\ writeBuffers' \in [DOMAIN writeBuffers' -> Nat]
         /\ link' \in [Clients -> {"up", "shut", "reset"}]
         /\ incoming' \in [Clients -> {"none", "other", "line"}]
         /\ room' \in [Clients -> 0..SendRoom]
         /\ owed' \in [Clients -> Int]
<1> USE SocketsAssumption DEF IInv, CloseSocket, OccurrencesLeft
<1>1. /\ conn' \in [Clients -> {"absent", "pending", "open", "closed"}]
      /\ readWanted' \in SUBSET Clients
      /\ writeWanted' \in [Clients -> Nat]
      /\ DOMAIN writeBuffers' = DOMAIN writeBuffers \ {c}
      /\ \A d \in DOMAIN writeBuffers' : writeBuffers'[d] = writeBuffers[d]
      /\ DOMAIN writeBuffers' \in SUBSET Clients
      /\ writeBuffers' \in [DOMAIN writeBuffers' -> Nat]
      /\ link' \in [Clients -> {"up", "shut", "reset"}]
      /\ incoming' \in [Clients -> {"none", "other", "line"}]
      /\ owed' \in [Clients -> Int]
  BY DEF TypeOK
<1>2. room' \in [Clients -> 0..SendRoom]
  BY SizesAssumption DEF TypeOK
<1>3. conn'[c] = "closed" /\ writeWanted'[c] = 0 /\ c \notin DOMAIN writeBuffers' /\ owed'[c] = 0
  BY <1>1 DEF TypeOK
<1>4. ASSUME NEW d \in Clients, d # c
      PROVE  /\ conn'[d] = conn[d] /\ writeWanted'[d] = writeWanted[d] /\ owed'[d] = owed[d]
             /\ d \in DOMAIN writeBuffers' <=> d \in DOMAIN writeBuffers
             /\ Buffered(d)' = Buffered(d)
  BY <1>1, <1>4 DEF TypeOK, Buffered
<1>5. Buffered(c)' = 0
  BY <1>3 DEF Buffered
<1>6. OnlyOpenSockets'
  BY <1>1, <1>3, <1>4 DEF OnlyOpenSockets, Open, TypeOK
<1>7. HandlersNeverRaise'
  BY DEF HandlersNeverRaise
<1>8. WritableIsWanted'
  BY <1>3, <1>4 DEF WritableIsWanted, Open, TypeOK
<1>9. BufferedIsWanted' /\ BytesAddUp'
  BY <1>3, <1>4, <1>5 DEF BufferedIsWanted, BytesAddUp
<1>10. NotYetWritable'
  BY <1>3, <1>4 DEF NotYetWritable
<1> QED
  BY <1>1, <1>2, <1>6, <1>7, <1>8, <1>9, <1>10 DEF Safe

\* Adding an answer to the buffer of a connection that is, or becomes, open.
LEMMA AnsweringIsSafe ==
  ASSUME IInv, NEW c \in Clients, Answer(c), pc' = pc,
         writeWanted' \in [Clients -> Nat], writeWanted'[c] > writeWanted[c],
         \A d \in Clients : d # c => writeWanted'[d] = writeWanted[d],
         conn'[c] = "open", \A d \in Clients : d # c => conn'[d] = conn[d],
         readWanted' = readWanted \cup {c}, writable' = writable, sending' = sending,
         Open(c) \/ (writable[c] = 0 /\ sending # c)
  PROVE  /\ Safe'
         /\ DOMAIN writeBuffers' \in SUBSET Clients
         /\ writeBuffers' \in [DOMAIN writeBuffers' -> Nat]
         /\ owed' \in [Clients -> Int]
<1> USE DEF IInv
<1>1. Buffered(c) + AnswerSize \in Nat
  BY BufferedType, SizesAssumption
<1>2. /\ DOMAIN writeBuffers' = DOMAIN writeBuffers \cup {c}
      /\ DOMAIN writeBuffers' \in SUBSET Clients
      /\ writeBuffers' \in [DOMAIN writeBuffers' -> Nat]
      /\ writeBuffers'[c] = Buffered(c) + AnswerSize
      /\ \A d \in DOMAIN writeBuffers : d # c => writeBuffers'[d] = writeBuffers[d]
  <2> DEFINE n == Buffered(c) + AnswerSize
             w == WithBuffer(c, n)
  <2>1. /\ DOMAIN w = DOMAIN writeBuffers \cup {c}
        /\ DOMAIN w \in SUBSET Clients
        /\ w \in [DOMAIN w -> Nat]
        /\ w[c] = n
        /\ \A d \in DOMAIN writeBuffers : d # c => w[d] = writeBuffers[d]
    <3> HIDE DEF n
    <3>1. n \in Nat
      BY <1>1 DEF n
    <3> QED
      BY <3>1, WithBufferType
  <2>2. writeBuffers' = w
    BY DEF Answer
  <2> QED
    BY <2>1, <2>2
<1>3. /\ owed' \in [Clients -> Int] /\ owed'[c] = owed[c] + AnswerSize
      /\ writeWanted[c] \in Nat /\ writeWanted'[c] \in Nat /\ owed[c] \in Int
      /\ \A d \in Clients : d # c => owed'[d] = owed[d]
      /\ conn'[c] = "open"
  <2>1. writeWanted[c] \in Nat /\ writeWanted'[c] \in Nat /\ owed \in [Clients -> Int]
    BY DEF TypeOK
  <2>2. owed' = [owed EXCEPT ![c] = @ + AnswerSize]
    BY DEF Answer
  <2> HIDE DEF IInv
  <2> QED
    BY <2>1, <2>2, SizesAssumption
<1>4. ASSUME NEW d \in Clients, d # c
      PROVE  /\ conn'[d] = conn[d] /\ writeWanted'[d] = writeWanted[d] /\ owed'[d] = owed[d]
             /\ d \in DOMAIN writeBuffers' <=> d \in DOMAIN writeBuffers
             /\ Buffered(d)' = Buffered(d)
  BY <1>2, <1>3, <1>4 DEF Buffered
<1>5. Buffered(c)' = Buffered(c) + AnswerSize
  BY <1>2 DEF Buffered
<1>6. OnlyOpenSockets'
  BY <1>2, <1>3, <1>4 DEF OnlyOpenSockets, Open, TypeOK
<1>7. WritableIsWanted'
  <2> SUFFICES ASSUME NEW d \in Clients, Open(d)'
               PROVE  writable[d] + (IF sending = d THEN 1 ELSE 0) <= writeWanted'[d]
    BY DEF WritableIsWanted
  <2>1. CASE d # c
    BY <2>1, <1>4 DEF WritableIsWanted, Open
  <2>2. CASE d = c /\ Open(c)
    BY <2>2, <1>3 DEF WritableIsWanted, TypeOK
  <2>3. CASE d = c /\ ~ Open(c)
    BY <2>3, <1>3 DEF TypeOK
  <2> QED
    BY <2>1, <2>2, <2>3
<1>8. BufferedIsWanted'
  BY <1>3, <1>4 DEF BufferedIsWanted
<1>9. BytesAddUp'
  BY <1>3, <1>4, <1>5 DEF BytesAddUp
<1>10. NotYetWritable'
  BY <1>3, <1>4 DEF NotYetWritable
<1> QED
  BY <1>2, <1>3, <1>6, <1>7, <1>8, <1>9, <1>10 DEF Safe, HandlersNeverRaise

-----------------------------------------------------------------------------
\* The steps that leave the lists of the server alone.
LEMMA QuietStepIsSafe ==
  ASSUME IInv, pc' = pc \/ pc' # "raised",
         \A c \in Clients : conn'[c] = "open" <=> conn[c] = "open",
         UNCHANGED <<listVars, owed>>,
         \A c \in Clients : Open(c) =>
           writable'[c] + (IF sending' = c THEN 1 ELSE 0) <= writeWanted[c],
         NotYetWritable'
  PROVE  Safe'
<1>1. \A c \in Clients : Open(c)' <=> Open(c)
  BY DEF Open
<1>2. \A c \in Clients : Buffered(c)' = Buffered(c)
  BY DEF Buffered, listVars
<1>3. OnlyOpenSockets'
  BY <1>1 DEF IInv, OnlyOpenSockets, listVars, TypeOK
<1>4. HandlersNeverRaise'
  BY DEF IInv, HandlersNeverRaise
<1>5. WritableIsWanted'
  BY <1>1 DEF WritableIsWanted, listVars
<1>6. BufferedIsWanted' /\ BytesAddUp'
  BY <1>2 DEF IInv, BufferedIsWanted, BytesAddUp, listVars
<1> QED
  BY <1>3, <1>4, <1>5, <1>6 DEF Safe

\* The clients and the rest of the program.
LEMMA EnvironmentStep == IInv /\ Environment => IInv'
<1> SUFFICES ASSUME IInv, Environment PROVE IInv'
  OBVIOUS
<1>1. TypeOK'
  <2>1. CASE SetMustStop
    BY <2>1 DEF SetMustStop, IInv, TypeOK, AllWritten, listVars, roundVars, clientVars, byteVars
  <2>2. ASSUME NEW c \in Clients, Connect(c) PROVE TypeOK'
    BY <2>2 DEF Connect, IInv, TypeOK, AllWritten, listVars, roundVars, clientVars, byteVars
  <2>3. ASSUME NEW c \in Clients, SendMessage(c) PROVE TypeOK'
    <3>1. messages' \in [Clients -> 0..MaxMessages]
      BY <2>3, SizesAssumption DEF SendMessage, IInv, TypeOK
    <3>2. incoming' \in [Clients -> {"none", "other", "line"}]
      BY <2>3 DEF SendMessage, IInv, TypeOK
    <3> QED
      BY <2>3, <3>1, <3>2 DEF SendMessage, IInv, TypeOK, AllWritten, listVars, roundVars, byteVars
  <2>4. ASSUME NEW c \in Clients, HangUp(c) PROVE TypeOK'
    BY <2>4 DEF HangUp, IInv, TypeOK, AllWritten, listVars, roundVars, byteVars
  <2>5. ASSUME NEW c \in Clients, ClientReads(c) PROVE TypeOK'
    BY <2>5, SizesAssumption DEF ClientReads, IInv, TypeOK, AllWritten, listVars, roundVars, clientVars
  <2> QED
    BY <2>1, <2>2, <2>3, <2>4, <2>5 DEF Environment
<1>2. /\ pc' = pc
      /\ UNCHANGED <<listVars, roundVars, owed>>
      /\ \A c \in Clients : conn'[c] = "open" <=> conn[c] = "open"
  BY DEF Environment, SetMustStop, Connect, SendMessage, HangUp, ClientReads, IInv, TypeOK,
    roundVars, byteVars
<1>3. \A c \in Clients : Open(c) =>
        writable'[c] + (IF sending' = c THEN 1 ELSE 0) <= writeWanted[c]
  BY <1>2 DEF IInv, WritableIsWanted, roundVars
<1>4. NotYetWritable'
  <2>1. writable' = writable
    BY <1>2 DEF roundVars
  <2>2. \A c \in Clients : conn'[c] \in {"absent", "pending"} => conn[c] \in {"absent", "pending"}
    BY DEF Environment, SetMustStop, Connect, SendMessage, HangUp, ClientReads, IInv, TypeOK
  <2> QED
    BY <2>1, <2>2 DEF IInv, NotYetWritable
<1>5. Safe'
  BY <1>2, <1>3, <1>4, QuietStepIsSafe
<1> QED
  BY <1>1, <1>5 DEF IInv, Safe

\* The steps of the main loop that only change pc.
LEMMA UnchangedRound ==
  ASSUME IInv, TypeOK', pc' # "raised", UNCHANGED <<conn, listVars, roundVars, owed>>
  PROVE  IInv'
<1>1. \A c \in Clients : Open(c) =>
        writable'[c] + (IF sending' = c THEN 1 ELSE 0) <= writeWanted[c]
  BY DEF IInv, WritableIsWanted, roundVars
<1>2. NotYetWritable'
  BY DEF IInv, NotYetWritable, roundVars
<1>3. Safe'
  BY <1>1, <1>2, QuietStepIsSafe
<1> QED
  BY <1>3 DEF IInv, Safe

\* The main loop.
LEMMA LoopStep == IInv /\ (Stop \/ CallSelect \/ Select \/ NextPhase \/ AcceptRaises) => IInv'
<1> SUFFICES ASSUME IInv, Stop \/ CallSelect \/ Select \/ NextPhase \/ AcceptRaises PROVE IInv'
  OBVIOUS
<1>1. CASE Stop \/ CallSelect \/ NextPhase \/ AcceptRaises
  <2>1. CASE Stop
    <3>1. TypeOK'
      BY <2>1 DEF Stop, IInv, TypeOK, AllWritten, listVars, roundVars, clientVars, byteVars
    <3>2. pc' # "raised" /\ UNCHANGED <<conn, listVars, roundVars, owed>>
      BY <2>1 DEF Stop, byteVars
    <3> QED
      BY <3>1, <3>2, UnchangedRound
  <2>2. CASE CallSelect
    <3>1. TypeOK'
      BY <2>2 DEF CallSelect, IInv, TypeOK, AllWritten, listVars, roundVars, clientVars, byteVars
    <3>2. pc' # "raised" /\ UNCHANGED <<conn, listVars, roundVars, owed>>
      BY <2>2 DEF CallSelect, byteVars
    <3> QED
      BY <3>1, <3>2, UnchangedRound
  <2>3. CASE NextPhase
    <3>1. TypeOK'
      BY <2>3 DEF NextPhase, IInv, TypeOK, AllWritten, listVars, roundVars, clientVars, byteVars
    <3>2. pc' # "raised" /\ UNCHANGED <<conn, listVars, roundVars, owed>>
      BY <2>3 DEF NextPhase, byteVars
    <3> QED
      BY <3>1, <3>2, UnchangedRound
  <2>4. CASE AcceptRaises
    <3>0. sending = NoSocket
      BY <2>4 DEF AcceptRaises, IInv, TypeOK
    <3>1. TypeOK'
      BY <2>4, <3>0 DEF AcceptRaises, IInv, TypeOK, AllWritten, listVars, roundVars, clientVars, byteVars
    <3>2. pc' # "raised" /\ UNCHANGED <<conn, listVars, roundVars, owed>>
      BY <2>4 DEF AcceptRaises, byteVars
    <3> QED
      BY <3>1, <3>2, UnchangedRound
  <2> QED
    BY <1>1, <2>1, <2>2, <2>3, <2>4
<1>2. CASE Select
  <2>1. sending = NoSocket
    BY <1>2 DEF Select, IInv, TypeOK
  <2>2. pc' = "errored"
    BY <1>2 DEF Select, IInv, OnlyOpenSockets
  <2>3. /\ errored' \in SUBSET Clients
        /\ readable' \in SUBSET (Clients \cup {Server})
        /\ writable' \in [Clients -> Nat]
    BY <1>2 DEF Select, ReadyToRead, IInv, TypeOK
  <2>4. TypeOK'
    BY <1>2, <2>1, <2>2, <2>3 DEF Select, IInv, TypeOK, listVars, clientVars, byteVars
  <2>5. \A c \in Clients : Open(c) =>
          writable'[c] + (IF sending' = c THEN 1 ELSE 0) <= writeWanted[c]
    BY <1>2, <2>1, SocketsAssumption DEF Select, IInv, TypeOK
  <2>6. /\ UNCHANGED <<listVars, owed>>
        /\ \A c \in Clients : conn'[c] = "open" <=> conn[c] = "open"
    BY <1>2 DEF Select, byteVars
  <2>7. NotYetWritable'
    <3> SUFFICES ASSUME NEW c \in Clients, conn'[c] \in {"absent", "pending"}
                 PROVE  writable'[c] = 0
      BY DEF NotYetWritable
    <3>1. writeWanted[c] = 0
      BY <1>2 DEF Select, IInv, OnlyOpenSockets, Open, TypeOK
    <3> QED
      BY <1>2, <3>1 DEF Select
  <2>8. Safe'
    BY <2>2, <2>5, <2>6, <2>7, QuietStepIsSafe
  <2> QED
    BY <2>4, <2>8 DEF IInv, Safe
<1> QED
  BY <1>1, <1>2

\* The handlers that close a socket.
LEMMA ClosingStep ==
  ASSUME IInv, NEW c \in Clients, HandleError(c) \/ ReceiveEnd(c) \/ SendRaises(c)
  PROVE  IInv'
<1>1. /\ CloseSocket(c) /\ pc' = pc /\ writable' = writable
      /\ sending' = sending \/ sending' = NoSocket
  BY DEF HandleError, ReceiveEnd, SendRaises
<1>2. /\ Safe'
      /\ conn' \in [Clients -> {"absent", "pending", "open", "closed"}]
      /\ readWanted' \in SUBSET Clients
      /\ writeWanted' \in [Clients -> Nat]
      /\ DOMAIN writeBuffers' \in SUBSET Clients
      /\ writeBuffers' \in [DOMAIN writeBuffers' -> Nat]
      /\ link' \in [Clients -> {"up", "shut", "reset"}]
      /\ incoming' \in [Clients -> {"none", "other", "line"}]
      /\ room' \in [Clients -> 0..SendRoom]
      /\ owed' \in [Clients -> Int]
  BY <1>1, ClosingIsSafe
<1>3. /\ mustStop' = mustStop /\ messages' = messages
      /\ pc \in {"errored", "readable", "writable"}
      /\ errored' \in SUBSET Clients
      /\ readable' \in SUBSET (Clients \cup {Server})
      /\ sending' \in Clients \cup {NoSocket} /\ (sending' # NoSocket => pc = "writable")
      /\ pc \in {"errored", "raised"} \/ errored' = {}
      /\ pc \in {"errored", "readable", "acceptFailed", "raised"} \/ readable' = {}
      /\ writable \in [Clients -> Nat]
  BY DEF HandleError, ReceiveEnd, SendRaises, IInv, TypeOK
<1>4. TypeOK'
  BY <1>1, <1>2, <1>3 DEF IInv, TypeOK
<1> QED
  BY <1>2, <1>4 DEF IInv, Safe

\* The handlers that answer or just receive.
LEMMA ReadStep ==
  ASSUME IInv, NEW c \in Clients, Accept(c) \/ ReceiveData(c)
  PROVE  IInv'
<1>0. pc = "readable" /\ sending = NoSocket /\ SocketsAssumption
  BY SocketsAssumption DEF Accept, ReceiveData, IInv, TypeOK
<1>1. CASE Accept(c)
  <2>1. /\ Answer(c) /\ pc' = pc
        /\ writeWanted' \in [Clients -> Nat] /\ writeWanted'[c] > writeWanted[c]
        /\ \A d \in Clients : d # c => writeWanted'[d] = writeWanted[d]
        /\ conn'[c] = "open" /\ \A d \in Clients : d # c => conn'[d] = conn[d]
        /\ readWanted' = readWanted \cup {c}
        /\ writable' = writable /\ sending' = sending
    BY <1>1 DEF Accept, IInv, TypeOK
  <2>2. writable[c] = 0 /\ sending # c
    BY <1>0, <1>1 DEF Accept, IInv, NotYetWritable, SocketsAssumption
  <2>3. /\ Safe'
        /\ DOMAIN writeBuffers' \in SUBSET Clients
        /\ writeBuffers' \in [DOMAIN writeBuffers' -> Nat]
        /\ owed' \in [Clients -> Int]
    BY <2>1, <2>2, AnsweringIsSafe
  <2>4. TypeOK'
    BY <1>0, <1>1, <2>1, <2>3 DEF Accept, IInv, TypeOK, clientVars
  <2> QED
    BY <2>3, <2>4 DEF IInv, Safe
<1>2. CASE ReceiveData(c) /\ incoming[c] = "line"
  <2>1. conn[c] = "open" /\ readWanted = readWanted \cup {c} /\ Open(c)
    BY <1>2 DEF ReceiveData, IInv, OnlyOpenSockets, Open, TypeOK
  <2>2. /\ Answer(c) /\ pc' = pc
        /\ writeWanted' \in [Clients -> Nat] /\ writeWanted'[c] > writeWanted[c]
        /\ \A d \in Clients : d # c => writeWanted'[d] = writeWanted[d]
        /\ conn'[c] = "open" /\ \A d \in Clients : d # c => conn'[d] = conn[d]
        /\ readWanted' = readWanted \cup {c}
        /\ writable' = writable /\ sending' = sending
    <3>1. writeWanted' = [writeWanted EXCEPT ![c] = writeWanted[c] + 1]
      BY <1>2 DEF ReceiveData, AnswersWanted
    <3>2. /\ writeWanted' \in [Clients -> Nat] /\ writeWanted'[c] > writeWanted[c]
          /\ \A d \in Clients : d # c => writeWanted'[d] = writeWanted[d]
      BY <3>1 DEF IInv, TypeOK
    <3>3. Answer(c) /\ UNCHANGED <<pc, conn, readWanted, writable, sending>>
      BY <1>2 DEF ReceiveData
    <3> QED
      BY <2>1, <3>2, <3>3
  <2>3. /\ Safe'
        /\ DOMAIN writeBuffers' \in SUBSET Clients
        /\ writeBuffers' \in [DOMAIN writeBuffers' -> Nat]
        /\ owed' \in [Clients -> Int]
    <3>1. Open(c) \/ (writable[c] = 0 /\ sending # c)
      BY <2>1
    <3> QED
      BY <2>2, <3>1, AnsweringIsSafe
  <2>4. TypeOK'
    BY <1>0, <1>2, <2>2, <2>3 DEF ReceiveData, IInv, TypeOK
  <2> QED
    BY <2>3, <2>4 DEF IInv, Safe
<1>3. CASE ReceiveData(c) /\ incoming[c] # "line"
  <2>1. pc' # "raised" /\ UNCHANGED <<conn, listVars, writable, sending, owed>>
    BY <1>0, <1>3 DEF ReceiveData, listVars
  <2>2. TypeOK'
    BY <1>0, <1>3, <2>1 DEF ReceiveData, IInv, TypeOK, listVars
  <2>3. \A d \in Clients : Open(d) =>
          writable'[d] + (IF sending' = d THEN 1 ELSE 0) <= writeWanted[d]
    BY <2>1 DEF IInv, WritableIsWanted
  <2>4. NotYetWritable'
    BY <2>1 DEF IInv, NotYetWritable
  <2>5. Safe'
    BY <2>1, <2>3, <2>4, QuietStepIsSafe
  <2> QED
    BY <2>2, <2>5 DEF IInv, Safe
<1> QED
  BY <1>1, <1>2, <1>3

\* The call of send().
LEMMA CallSendStep ==
  ASSUME IInv, NEW c \in Clients, CallSend(c)
  PROVE  IInv'
<1>1. pc' = pc /\ UNCHANGED <<conn, listVars, owed>>
  BY DEF CallSend, byteVars
<1>2. TypeOK'
  BY DEF CallSend, IInv, TypeOK, AllWritten, listVars, clientVars, byteVars
<1>3. \A d \in Clients : Open(d) =>
        writable'[d] + (IF sending' = d THEN 1 ELSE 0) <= writeWanted[d]
  <2> SUFFICES ASSUME NEW d \in Clients, Open(d)
               PROVE  writable'[d] + (IF sending' = d THEN 1 ELSE 0) <= writeWanted[d]
    OBVIOUS
  <2>1. sending # d /\ writable[d] \in Nat /\ writeWanted[d] \in Nat
    BY SocketsAssumption DEF CallSend, IInv, TypeOK
  <2>2. writable[d] <= writeWanted[d]
    BY <2>1 DEF IInv, WritableIsWanted
  <2>3. CASE d = c
    BY <2>1, <2>2, <2>3 DEF CallSend, IInv, TypeOK
  <2>4. CASE d # c
    BY <2>1, <2>2, <2>4 DEF CallSend, IInv, TypeOK
  <2> QED
    BY <2>3, <2>4
<1>4. NotYetWritable'
  <2> SUFFICES ASSUME NEW d \in Clients, conn'[d] \in {"absent", "pending"}
               PROVE  writable'[d] = 0
    BY DEF NotYetWritable
  <2>1. writable[d] = 0
    BY <1>1 DEF IInv, NotYetWritable
  <2> QED
    BY <2>1 DEF CallSend, IInv, TypeOK
<1>5. Safe'
  BY <1>1, <1>3, <1>4, QuietStepIsSafe
<1> QED
  BY <1>2, <1>5 DEF IInv, Safe

\* send() took some bytes, or all there were.
LEMMA SendStep ==
  ASSUME IInv, NEW c \in Clients, Send(c)
  PROVE  IInv'
<1> DEFINE left == Buffered(c) - SentNow(c)
<1> USE DEF IInv
<1>1. /\ Buffered(c) \in Nat /\ room[c] \in 0..SendRoom /\ SendRoom \in Nat
      /\ SentNow(c) \in Nat /\ SentNow(c) <= room[c] /\ SentNow(c) <= Buffered(c) /\ left \in Nat
  <2>1. Buffered(c) \in Nat /\ room[c] \in 0..SendRoom /\ SendRoom \in Nat
    BY BufferedType, SizesAssumption DEF TypeOK
  <2> QED
    BY <2>1 DEF SentNow, AtMost
<1>2. /\ pc = "writable" /\ sending = c /\ Open(c) /\ c \in DOMAIN conn
      /\ writeBuffers' = WithBuffer(c, left)
      /\ sending' = (IF left = 0 THEN NoSocket ELSE c)
      /\ writeWanted' = [writeWanted EXCEPT ![c] =
                           IF left = 0 /\ @ > 0 THEN WantedAfterSend(c) ELSE @]
      /\ pc' = (IF left = 0 /\ writeWanted[c] = 0 THEN "raised" ELSE pc)
      /\ room' = [room EXCEPT ![c] = @ - SentNow(c)]
      /\ owed' = [owed EXCEPT ![c] = @ - SentNow(c)]
      /\ UNCHANGED <<mustStop, conn, readWanted, errored, readable, writable, clientVars>>
  BY DEF Send, TypeOK
<1>3. writable[c] \in Nat /\ writeWanted[c] \in Nat /\ writable[c] + 1 <= writeWanted[c]
  BY <1>2 DEF TypeOK, WritableIsWanted
<1>4. pc' = "writable"
  BY <1>2, <1>3
<1>5. /\ writeWanted' \in [Clients -> Nat]
      /\ writeWanted'[c] = IF left = 0 THEN writeWanted[c] - 1 ELSE writeWanted[c]
      /\ \A d \in Clients : d # c => writeWanted'[d] = writeWanted[d]
  BY <1>2, <1>3 DEF TypeOK, WantedAfterSend
<1>6. /\ owed' \in [Clients -> Int] /\ owed'[c] = owed[c] - SentNow(c)
      /\ \A d \in Clients : d # c => owed'[d] = owed[d]
  BY <1>1, <1>2 DEF TypeOK
<1>7. room' \in [Clients -> 0..SendRoom]
  BY <1>1, <1>2 DEF TypeOK
<1>8. /\ DOMAIN writeBuffers' = DOMAIN writeBuffers \cup {c}
      /\ DOMAIN writeBuffers' \in SUBSET Clients
      /\ writeBuffers' \in [DOMAIN writeBuffers' -> Nat]
      /\ writeBuffers'[c] = left
      /\ \A d \in DOMAIN writeBuffers : d # c => writeBuffers'[d] = writeBuffers[d]
  <2> HIDE DEF left
  <2> DEFINE w == WithBuffer(c, left)
  <2>1. /\ DOMAIN w = DOMAIN writeBuffers \cup {c}
        /\ DOMAIN w \in SUBSET Clients
        /\ w \in [DOMAIN w -> Nat]
        /\ w[c] = left
        /\ \A d \in DOMAIN writeBuffers : d # c => w[d] = writeBuffers[d]
    BY <1>1, WithBufferType
  <2> QED
    BY <1>2, <2>1
<1>9. Buffered(c)' = left /\ \A d \in Clients : d # c => Buffered(d)' = Buffered(d)
  <2> HIDE DEF left
  <2> QED
    BY <1>8 DEF Buffered
<1>10. TypeOK'
  BY <1>2, <1>4, <1>5, <1>6, <1>7, <1>8 DEF TypeOK, clientVars
<1>11. OnlyOpenSockets'
  BY <1>2, <1>5, <1>8 DEF OnlyOpenSockets, Open, TypeOK
<1>12. WritableIsWanted'
  <2> SUFFICES ASSUME NEW d \in Clients, Open(d)'
               PROVE  writable[d] + (IF sending' = d THEN 1 ELSE 0) <= writeWanted'[d]
    BY <1>2 DEF WritableIsWanted
  <2>1. CASE d # c
    <3>1. sending # d /\ sending' # d /\ Open(d) /\ writeWanted'[d] = writeWanted[d]
      BY <1>2, <1>5, <2>1, SocketsAssumption DEF Open
    <3> QED
      BY <3>1 DEF WritableIsWanted
  <2>2. CASE d = c
    <3> HIDE DEF left
    <3>1. CASE left = 0
      BY <1>2, <1>3, <1>5, <2>2, <3>1, SocketsAssumption
    <3>2. CASE left # 0
      BY <1>2, <1>3, <1>5, <2>2, <3>2, SocketsAssumption
    <3> QED
      BY <3>1, <3>2
  <2> QED
    BY <2>1, <2>2
<1>13. BufferedIsWanted'
  <2> HIDE DEF left
  <2> QED
    BY <1>3, <1>5, <1>9 DEF BufferedIsWanted
<1>14. BytesAddUp'
  BY <1>1, <1>6, <1>9 DEF BytesAddUp
<1>15. NotYetWritable' /\ HandlersNeverRaise'
  BY <1>2, <1>4 DEF NotYetWritable, HandlersNeverRaise
<1> QED
  BY <1>10, <1>11, <1>12, <1>13, <1>14, <1>15

\* Every step.
LEMMA StepIInv == IInv /\ [Next]_vars => IInv'
<1> SUFFICES ASSUME IInv, [Next]_vars PROVE IInv'
  OBVIOUS
<1>1. CASE Environment
  BY <1>1, EnvironmentStep
<1>2. CASE Stop \/ CallSelect \/ Select \/ NextPhase \/ AcceptRaises
  BY <1>2, LoopStep
<1>3. ASSUME NEW c \in Clients, HandleError(c) \/ ReceiveEnd(c) \/ SendRaises(c) PROVE IInv'
  BY <1>3, ClosingStep
<1>4. ASSUME NEW c \in Clients, Accept(c) \/ ReceiveData(c) PROVE IInv'
  BY <1>4, ReadStep
<1>5. ASSUME NEW c \in Clients, CallSend(c) PROVE IInv'
  BY <1>5, CallSendStep
<1>6. ASSUME NEW c \in Clients, Send(c) PROVE IInv'
  BY <1>6, SendStep
<1>7. CASE UNCHANGED vars
  <2>1. UNCHANGED <<pc, conn, listVars, roundVars, owed>>
    BY <1>7 DEF vars, byteVars
  <2>2. TypeOK'
    BY <1>7 DEF vars, IInv, TypeOK, AllWritten, listVars, roundVars, clientVars, byteVars
  <2>3. pc' # "raised"
    BY <2>1 DEF IInv, HandlersNeverRaise
  <2> QED
    BY <2>1, <2>2, <2>3, UnchangedRound
<1> QED
  BY <1>1, <1>2, <1>3, <1>4, <1>5, <1>6, <1>7 DEF Next, Run, HandleRead, HandleWrite

\* The inductive invariant holds in every state.
LEMMA AlwaysIInv == Spec => []IInv
BY InitIInv, StepIInv, PTL DEF Spec

-----------------------------------------------------------------------------
\* TypeOK, for any number of clients and any sizes: see TCPServer.
THEOREM TypeCorrect == Spec => []TypeOK
<1>1. IInv => TypeOK
  BY DEF IInv
<1> QED
  BY AlwaysIInv, <1>1, PTL

\* However out of date the lists of a round are, _handle_write_event never removes a
\* socket that is not in write_wanted.
THEOREM HandlersAreSafe == Spec => []HandlersNeverRaise
<1>1. IInv => HandlersNeverRaise
  BY DEF IInv
<1> QED
  BY AlwaysIInv, <1>1, PTL

\* select() never gets a closed socket, and gets every one that is open.
THEOREM SelectIsSafe == Spec => []OnlyOpenSockets
<1>1. IInv => OnlyOpenSockets
  BY DEF IInv
<1> QED
  BY AlwaysIInv, <1>1, PTL

\* An answer is in the buffer until the kernel took all its bytes.
THEOREM AnswersAreKept == Spec => []BytesAddUp
<1>1. IInv => BytesAddUp
  BY DEF IInv
<1> QED
  BY AlwaysIInv, <1>1, PTL

\* As long as an answer is in the buffer, the socket is in write_wanted.
THEOREM AnswersAreWanted == Spec => []BufferedIsWanted
<1>1. IInv => BufferedIsWanted
  BY DEF IInv
<1> QED
  BY AlwaysIInv, <1>1, PTL

-----------------------------------------------------------------------------
(* Which connections are closed.                                           *)

\* An open socket in what is left of the readable ones has something to receive, or a
\* client that hung up: nobody but its handler takes that away.
ReadableIsReady ==
  \A c \in readable \cap Clients :
    \/ conn[c] = "closed"
    \/ conn[c] = "open" /\ (incoming[c] # "none" \/ link[c] # "up")

\* The first list of a select() is what is ready.
LEMMA SelectIsReady == IInv /\ Select => ReadableIsReady'
<1> SUFFICES ASSUME IInv, Select, NEW c \in Clients, c \in readable'
             PROVE  conn'[c] = "open" /\ (incoming'[c] # "none" \/ link'[c] # "up")
  BY DEF ReadableIsReady
<1>1. UNCHANGED <<conn, incoming, link>> /\ c \in ReadyToRead
  BY DEF Select, clientVars
<1>2. c \in readWanted /\ (incoming[c] # "none" \/ link[c] # "up")
  BY <1>1, SocketsAssumption DEF ReadyToRead
<1> QED
  BY <1>1, <1>2 DEF IInv, OnlyOpenSockets, Open

\* A step that takes sockets out of the list, or none, and leaves those that stay in it
\* closed or ready.
LEMMA ReadyStays ==
  ASSUME ReadableIsReady, readable' \subseteq readable,
         \A c \in readable' \cap Clients :
           \/ conn'[c] = "closed"
           \/ conn'[c] = conn[c] /\ (incoming'[c] = incoming[c] \/ incoming'[c] # "none")
                                 /\ (link'[c] = link[c] \/ link'[c] # "up")
  PROVE  ReadableIsReady'
BY DEF ReadableIsReady

\* Every step keeps the readable sockets ready.
LEMMA ReadyStep == IInv /\ ReadableIsReady /\ [Next]_vars => ReadableIsReady'
<1> SUFFICES ASSUME IInv, ReadableIsReady, [Next]_vars PROVE ReadableIsReady'
  OBVIOUS
<1>1. /\ conn \in [Clients -> {"absent", "pending", "open", "closed"}]
      /\ link \in [Clients -> {"up", "shut", "reset"}]
      /\ incoming \in [Clients -> {"none", "other", "line"}]
  BY DEF IInv, TypeOK
<1>2. CASE Select
  BY <1>2, SelectIsReady
<1>3. CASE Stop \/ CallSelect \/ NextPhase \/ AcceptRaises \/ SetMustStop \/ UNCHANGED vars
  <2>1. UNCHANGED <<readable, conn, incoming, link>>
    BY <1>3 DEF Stop, CallSelect, NextPhase, AcceptRaises, SetMustStop, vars, roundVars, clientVars
  <2> QED
    BY <2>1, ReadyStays
<1>4. ASSUME NEW c \in Clients, ClientReads(c) \/ CallSend(c) \/ Send(c) PROVE ReadableIsReady'
  <2>1. UNCHANGED <<readable, conn, incoming, link>>
    BY <1>4 DEF ClientReads, CallSend, Send, roundVars, clientVars
  <2> QED
    BY <2>1, ReadyStays
<1>5. ASSUME NEW c \in Clients, Connect(c) PROVE ReadableIsReady'
  <2>1. /\ UNCHANGED <<readable, incoming, link>>
        /\ conn[c] = "absent" /\ \A d \in Clients : d # c => conn'[d] = conn[d]
    BY <1>5 DEF Connect, roundVars, clientVars
  <2>2. c \notin readable
    BY <2>1 DEF ReadableIsReady
  <2> QED
    BY <2>1, <2>2, ReadyStays
<1>6. ASSUME NEW c \in Clients, SendMessage(c) PROVE ReadableIsReady'
  <2>1. UNCHANGED <<readable, conn, link>>
    BY <1>6 DEF SendMessage, roundVars
  <2>2. \A d \in Clients : incoming'[d] = incoming[d] \/ incoming'[d] # "none"
    BY <1>1, <1>6 DEF SendMessage
  <2> QED
    BY <2>1, <2>2, ReadyStays
<1>7. ASSUME NEW c \in Clients, HangUp(c) PROVE ReadableIsReady'
  <2>1. UNCHANGED <<readable, conn, incoming>>
    BY <1>7 DEF HangUp, roundVars
  <2>2. \A d \in Clients : link'[d] = link[d] \/ link'[d] # "up"
    BY <1>1, <1>7 DEF HangUp
  <2> QED
    BY <2>1, <2>2, ReadyStays
<1>8. ASSUME NEW c \in Clients, HandleError(c) \/ ReceiveEnd(c) \/ SendRaises(c)
      PROVE  ReadableIsReady'
  <2>1. CloseSocket(c) /\ readable' \subseteq readable
    BY <1>8 DEF HandleError, ReceiveEnd, SendRaises
  <2>2. /\ conn'[c] = "closed"
        /\ \A d \in Clients : d # c => /\ conn'[d] = conn[d] /\ incoming'[d] = incoming[d]
                                       /\ link'[d] = link[d]
    BY <1>1, <2>1 DEF CloseSocket
  <2> QED
    BY <2>1, <2>2, ReadyStays
<1>9. ASSUME NEW c \in Clients, Accept(c) PROVE ReadableIsReady'
  <2>1. /\ UNCHANGED <<incoming, link>> /\ readable' \subseteq readable
        /\ conn[c] = "pending" /\ \A d \in Clients : d # c => conn'[d] = conn[d]
    BY <1>9 DEF Accept, clientVars
  <2>2. c \notin readable
    BY <2>1 DEF ReadableIsReady
  <2> QED
    BY <2>1, <2>2, ReadyStays
<1>10. ASSUME NEW c \in Clients, ReceiveData(c) PROVE ReadableIsReady'
  <2>1. /\ UNCHANGED <<conn, link>> /\ readable' = readable \ {c}
        /\ \A d \in Clients : d # c => incoming'[d] = incoming[d]
    BY <1>10 DEF ReceiveData
  <2> QED
    BY <2>1, ReadyStays
<1> QED
  BY <1>2, <1>3, <1>4, <1>5, <1>6, <1>7, <1>8, <1>9, <1>10
     DEF Next, Environment, Run, HandleRead, HandleWrite

\* Only a client that hung up or sent urgent data loses its connection, for any number of
\* clients and however out of date the lists of a round are.
THEOREM HealthyClientsAreKept == Spec => OnlyDeadIsClosed
<1>1. Init => ReadableIsReady
  BY DEF Init, ReadableIsReady
<1>2. ASSUME IInv, ReadableIsReady, [Next]_vars, NEW c \in Clients, Open(c), conn'[c] = "closed"
      PROVE  link[c] # "up" \/ pc = "errored"
  <2>1. conn[c] = "open" /\ conn \in [Clients -> {"absent", "pending", "open", "closed"}]
    BY <1>2 DEF Open, IInv, TypeOK
  <2>2. PICK d \in Clients : HandleError(d) \/ ReceiveEnd(d) \/ SendRaises(d)
    <3>1. CASE \E d \in Clients : Connect(d) \/ Accept(d)
      BY <1>2, <2>1, <3>1 DEF Connect, Accept
    <3>2. CASE conn' = conn
      BY <1>2, <2>1, <3>2
    <3> QED
      BY <1>2, <3>1, <3>2 DEF Next, Environment, Run, HandleRead, HandleWrite, SetMustStop,
         SendMessage, HangUp, ClientReads, Stop, CallSelect, Select, NextPhase, AcceptRaises,
         ReceiveData, CallSend, Send, vars
  <2>3. CloseSocket(d)
    BY <2>2 DEF HandleError, ReceiveEnd, SendRaises
  <2>4. d = c
    BY <1>2, <2>1, <2>3 DEF CloseSocket
  <2> QED
    BY <1>2, <2>1, <2>2, <2>4
       DEF HandleError, ReceiveEnd, SendRaises, ReadableIsReady, EndOfStream, Open
<1>3. IInv /\ ReadableIsReady /\ [Next]_vars =>
        [\A c \in Clients : Open(c) /\ conn'[c] = "closed" => link[c] # "up" \/ pc = "errored"]_vars
  BY <1>2
<1> QED
  BY <1>1, <1>3, ReadyStep, AlwaysIInv, PTL DEF Spec, OnlyDeadIsClosed
===============================================================================
