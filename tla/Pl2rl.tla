------------------------------- MODULE Pl2rl -------------------------------
(***************************************************************************)
(* Log forwarding: the library each OpenSync process logs with (pl2rl.c)   *)
(* and the daemon that hands the messages to the RDK logger (pl2rld.c).    *)
(*                                                                         *)
(* They share a stream socket.  The library never waits: it tries a send   *)
(* three times, goes on after a part that was sent, gives the message up   *)
(* after that and keeps the connection; it connects again when it has      *)
(* something to log, once a second at most.  The daemon reads a header and *)
(* then as much as the header says, closes the connection on a read that   *)
(* is short, and refuses messages of a process that did not register.      *)
(*                                                                         *)
(* A message is HDR + BODY units, the least the two reads can tell apart.  *)
(* The kernel's part, that a stream keeps order and holds SOCKBUF units,   *)
(* that a send may take part of a message or nothing, and that the data of *)
(* a closed end can still be read, is how the code uses it.                *)
(***************************************************************************)
EXTENDS Integers, Sequences, FiniteSets

CONSTANTS
    Procs,              \* the processes that log
    Conns,              \* connections, used again when both ends are closed
    HDR, BODY,          \* length of the header and of the rest
    SOCKBUF,            \* units a connection holds
    PL2RL_RETRIES,
    NoConn,
    MaxTrouble,         \* bound: sends cut short or failing for no reason, and
                        \* failing calls of socket, fcntl, accept
    MaxStops            \* bound: stops of the daemon

ASSUME Pl2rlAssumption ==
    /\ HDR \in Nat \ {0} /\ BODY \in Nat \ {0}
    /\ SOCKBUF \in Nat /\ SOCKBUF >= HDR + BODY
    /\ PL2RL_RETRIES \in Nat \ {0}
    /\ NoConn \notin Conns
    /\ MaxTrouble \in Nat /\ MaxStops \in Nat

LENGTH == HDR + BODY
MsgTypes == {"REGISTER", "LOG"}
Unit == [type : MsgTypes, part : 1 .. LENGTH]

VARIABLES
    pl2rl_fd,
    pl2rl_last_attempt, \* "none", "now" for less than a second, then "past"
    pc,                 \* idle, or the type of the message pl2rl_send sends
    text,               \* a log message follows the registration
    w, tries,           \* of pl2rl_send
    clientEnd,          \* each connection's two ends
    serverEnd,          \* closed, waiting for accept, open, or registered
    stream,
    torn,               \* a message on it was given up half way
    running,            \* the daemon
    reading,            \* the message it has the header of
    refused, handled,   \* the last LOG refused, and the last message handled
    trouble, stops

clientVars == <<pl2rl_fd, pl2rl_last_attempt, pc, text, w, tries>>
connVars == <<clientEnd, serverEnd, stream, torn>>
daemonVars == <<running, reading, refused, handled>>
pl2rlVars == <<clientVars, connVars, daemonVars, trouble, stops>>

NoRead == [conn |-> NoConn, header |-> <<>>, rlen |-> 0]
Nothing == [whole |-> TRUE, torn |-> FALSE]

Pl2rlInit ==
    /\ pl2rl_fd = [p \in Procs |-> NoConn]
    /\ pl2rl_last_attempt = [p \in Procs |-> "none"]
    /\ pc = [p \in Procs |-> "idle"]
    /\ text = [p \in Procs |-> FALSE]
    /\ w = [p \in Procs |-> 0] /\ tries = [p \in Procs |-> 0]
    /\ clientEnd = [c \in Conns |-> FALSE]
    /\ serverEnd = [c \in Conns |-> "closed"]
    /\ stream = [c \in Conns |-> <<>>]
    /\ torn = [c \in Conns |-> FALSE]
    /\ running = FALSE /\ reading = NoRead
    /\ refused = FALSE /\ handled = Nothing
    /\ trouble = 0 /\ stops = 0

Trouble ==
    /\ trouble < MaxTrouble
    /\ trouble' = trouble + 1

-----------------------------------------------------------------------------
(* The library.                                                            *)

Clock(p) ==
    /\ pl2rl_last_attempt[p] = "now"
    /\ pl2rl_last_attempt' = [pl2rl_last_attempt EXCEPT ![p] = "past"]
    /\ UNCHANGED <<pl2rl_fd, pc, text, w, tries, connVars, daemonVars, trouble, stops>>

\* close; what is in the stream can still be read.
CloseClient(c) == clientEnd' = [clientEnd EXCEPT ![c] = FALSE]

pl2rl_disconnect(p) ==
    /\ CloseClient(pl2rl_fd[p])
    /\ pl2rl_last_attempt' = [pl2rl_last_attempt EXCEPT ![p] = "none"]
    /\ pl2rl_fd' = [pl2rl_fd EXCEPT ![p] = NoConn]

\* Mutated form: one try more.
StartSendOnceMore(p, type) ==
    /\ pc' = [pc EXCEPT ![p] = type]
    /\ w' = [w EXCEPT ![p] = 0]
    /\ tries' = [tries EXCEPT ![p] = PL2RL_RETRIES + 1]

StartSend(p, type) ==
    /\ pc' = [pc EXCEPT ![p] = type]
    /\ w' = [w EXCEPT ![p] = 0]
    /\ tries' = [tries EXCEPT ![p] = PL2RL_RETRIES]

EndSend(p) == pc' = [pc EXCEPT ![p] = "idle"] /\ UNCHANGED <<w, tries>>

\* pl2rl_connect up to the registration, rate limited.  Without a daemon, or
\* when a call fails, the attempt counts and the message is dropped.
pl2rl_connect(p) ==
    /\ pl2rl_fd[p] = NoConn
    /\ pl2rl_last_attempt[p] # "now"
    /\ \/ /\ running
          /\ \E c \in Conns :
               /\ ~clientEnd[c] /\ serverEnd[c] = "closed"
               /\ clientEnd' = [clientEnd EXCEPT ![c] = TRUE]
               /\ serverEnd' = [serverEnd EXCEPT ![c] = "waiting"]
               /\ stream' = [stream EXCEPT ![c] = <<>>]
               /\ torn' = [torn EXCEPT ![c] = FALSE]
               /\ pl2rl_fd' = [pl2rl_fd EXCEPT ![p] = c]
          /\ pl2rl_last_attempt' = [pl2rl_last_attempt EXCEPT ![p] = "none"]
          /\ StartSend(p, "REGISTER")
          /\ UNCHANGED trouble
       \/ /\ IF running THEN Trouble ELSE UNCHANGED trouble
          /\ pl2rl_last_attempt' = [pl2rl_last_attempt EXCEPT ![p] = "now"]
          /\ UNCHANGED <<pl2rl_fd, pc, w, tries, connVars>>

\* pl2rl_init, and a message that is longer than the buffer, only connect.
pl2rl_init(p) ==
    /\ pc[p] = "idle"
    /\ pl2rl_connect(p)
    /\ text' = [text EXCEPT ![p] = FALSE]
    /\ UNCHANGED <<daemonVars, stops>>

\* pl2rl_log: no connection costs the message.
pl2rl_log(p) ==
    /\ pc[p] = "idle"
    /\ \/ /\ pl2rl_connect(p)
          /\ text' = [text EXCEPT ![p] = TRUE]
       \/ /\ pl2rl_fd[p] # NoConn
          /\ StartSend(p, "LOG")
          /\ UNCHANGED <<pl2rl_fd, pl2rl_last_attempt, text, connVars, trouble>>
    /\ UNCHANGED <<daemonVars, stops>>

\* No tries are left: a registration closes the connection, a log message is
\* given up and the connection is kept.
GiveUp(p, sent) ==
    /\ IF pc[p] = "REGISTER"
         THEN pl2rl_disconnect(p) /\ UNCHANGED torn
         ELSE /\ torn' = [torn EXCEPT ![pl2rl_fd[p]] = torn[pl2rl_fd[p]] \/ sent > 0]
              /\ UNCHANGED <<pl2rl_fd, pl2rl_last_attempt, clientEnd>>
    /\ EndSend(p)

\* A try that did not send all.
NextTry(p, sent) ==
    IF tries[p] = 1
      THEN GiveUp(p, sent)
      ELSE /\ tries' = [tries EXCEPT ![p] = tries[p] - 1]
           /\ w' = [w EXCEPT ![p] = sent]
           /\ UNCHANGED <<pl2rl_fd, pl2rl_last_attempt, pc, clientEnd, torn>>

Room(p) == SOCKBUF - Len(stream[pl2rl_fd[p]])

Written(p, n) == [i \in 1 .. n |-> [type |-> pc[p], part |-> w[p] + i]]

\* Mutated form: the connection is kept.
SendErrorKeeps(p) ==
    /\ serverEnd[pl2rl_fd[p]] = "closed"
    /\ EndSend(p)
    /\ UNCHANGED <<pl2rl_fd, pl2rl_last_attempt, clientEnd, text, serverEnd, stream,
                   torn, trouble>>

\* The other end is closed.
SendError(p) ==
    /\ serverEnd[pl2rl_fd[p]] = "closed"
    /\ pl2rl_disconnect(p)
    /\ EndSend(p)
    /\ UNCHANGED <<text, serverEnd, stream, torn, trouble>>

\* EAGAIN: the socket is full, or the kernel has no memory.
SendAgain(p) ==
    /\ serverEnd[pl2rl_fd[p]] # "closed"
    /\ IF Room(p) < LENGTH - w[p] THEN UNCHANGED trouble ELSE Trouble
    /\ NextTry(p, w[p])
    /\ UNCHANGED <<text, serverEnd, stream>>

SendPart(p) ==
    /\ serverEnd[pl2rl_fd[p]] # "closed"
    /\ Trouble
    /\ \E n \in 1 .. LENGTH - w[p] - 1 :
         /\ n <= Room(p)
         /\ stream' = [stream EXCEPT ![pl2rl_fd[p]] = @ \o Written(p, n)]
         /\ NextTry(p, w[p] + n)
    /\ UNCHANGED <<text, serverEnd>>

\* All is sent: after a registration comes the message, if there is one.
SendAll(p) ==
    /\ serverEnd[pl2rl_fd[p]] # "closed"
    /\ LENGTH - w[p] <= Room(p)
    /\ stream' = [stream EXCEPT ![pl2rl_fd[p]] = @ \o Written(p, LENGTH - w[p])]
    /\ IF pc[p] = "REGISTER" /\ text[p] THEN StartSend(p, "LOG") ELSE EndSend(p)
    /\ UNCHANGED <<pl2rl_fd, pl2rl_last_attempt, text, clientEnd, serverEnd, torn, trouble>>

pl2rl_send(p) ==
    /\ pc[p] # "idle"
    /\ SendError(p) \/ SendAgain(p) \/ SendPart(p) \/ SendAll(p)
    /\ UNCHANGED <<daemonVars, stops>>

-----------------------------------------------------------------------------
(* The daemon.                                                             *)

pl2rld_client_listener_init ==
    /\ ~running
    /\ running' = TRUE
    /\ UNCHANGED <<clientVars, connVars, reading, refused, handled, trouble, stops>>

\* A signal or a crash: the listener and all connections are closed.
DaemonStops ==
    /\ running
    /\ stops < MaxStops
    /\ stops' = stops + 1
    /\ running' = FALSE /\ reading' = NoRead
    /\ serverEnd' = [c \in Conns |-> "closed"]
    /\ UNCHANGED <<clientVars, clientEnd, stream, torn, refused, handled, trouble>>

\* A connection that cannot be made non-blocking is closed.
pl2rld_client_accept_cb(c) ==
    /\ running /\ reading = NoRead
    /\ serverEnd[c] = "waiting"
    /\ \/ serverEnd' = [serverEnd EXCEPT ![c] = "open"] /\ UNCHANGED trouble
       \/ serverEnd' = [serverEnd EXCEPT ![c] = "closed"] /\ Trouble
    /\ UNCHANGED <<clientVars, clientEnd, stream, torn, daemonVars, stops>>

pl2rld_client_remove(c) ==
    /\ serverEnd' = [serverEnd EXCEPT ![c] = "closed"]
    /\ reading' = NoRead

Least(a, b) == IF a < b THEN a ELSE b

\* read returns what is there, up to n units.
Take(c, n) == SubSeq(stream[c], 1, Least(n, Len(stream[c])))
Leave(c, n) ==
    stream' = [stream EXCEPT ![c] = SubSeq(@, Least(n, Len(@)) + 1, Len(@))]

\* The units are parts from, from + 1, ... of one message.
InStep(units, type, from) ==
    \A i \in DOMAIN units : units[i] = [type |-> type, part |-> from + i - 1]

\* The header of pl2rld_client_recv.  One that is read out of step holds
\* anything: it is refused for its type, or asks for some more.
RecvHeader(c) ==
    /\ running /\ reading = NoRead
    /\ serverEnd[c] \in {"open", "registered"}
    /\ stream[c] # <<>> \/ ~clientEnd[c]
    /\ Leave(c, HDR)
    /\ LET hdr == Take(c, HDR)
       IN  \/ Len(hdr) # HDR /\ pl2rld_client_remove(c)
           \/ /\ Len(hdr) = HDR
              /\ InStep(hdr, hdr[1].type, 1)
              /\ reading' = [conn |-> c, header |-> hdr, rlen |-> BODY]
              /\ UNCHANGED serverEnd
           \/ /\ Len(hdr) = HDR
              /\ ~InStep(hdr, hdr[1].type, 1)
              /\ \/ pl2rld_client_remove(c)
                 \/ /\ \E n \in 0 .. LENGTH :
                         reading' = [conn |-> c, header |-> hdr, rlen |-> n]
                    /\ UNCHANGED serverEnd
    /\ UNCHANGED <<clientVars, clientEnd, torn, running, refused, handled, trouble, stops>>

\* The message is one that was sent, from its first unit to its last.
Whole(header, rest) ==
    /\ Len(header \o rest) = LENGTH
    /\ InStep(header \o rest, header[1].type, 1)

Handle(c, whole) ==
    /\ handled' = [whole |-> whole, torn |-> torn[c]]
    /\ UNCHANGED refused

\* pl2rld_client_recv_log: not before the registration.
pl2rld_client_recv_log(c, whole) ==
    IF serverEnd[c] = "registered"
      THEN Handle(c, whole) /\ reading' = NoRead /\ UNCHANGED serverEnd
      ELSE /\ pl2rld_client_remove(c)
           /\ refused' = ~torn[c]
           /\ UNCHANGED handled

pl2rld_client_recv_reg(c, whole) ==
    /\ serverEnd' = [serverEnd EXCEPT ![c] = "registered"]
    /\ reading' = NoRead
    /\ Handle(c, whole)

\* Mutated form: the length that was read is not compared.
RecvRestAnyLength(c) ==
    /\ running /\ reading.conn = c
    /\ Leave(c, reading.rlen)
    /\ LET rest == Take(c, reading.rlen)
           whole == Whole(reading.header, rest)
       IN  IF reading.header[1].type = "LOG"
             THEN pl2rld_client_recv_log(c, whole)
             ELSE pl2rld_client_recv_reg(c, whole)
    /\ UNCHANGED <<clientVars, clientEnd, torn, running, trouble, stops>>

\* The rest of pl2rld_client_recv: less than the header says is malformed.
RecvRest(c) ==
    /\ running /\ reading.conn = c
    /\ Leave(c, reading.rlen)
    /\ LET rest == Take(c, reading.rlen)
           whole == Whole(reading.header, rest)
           types == IF InStep(reading.header, reading.header[1].type, 1)
                      THEN {reading.header[1].type} ELSE MsgTypes
       IN  IF Len(rest) # reading.rlen
             THEN pl2rld_client_remove(c) /\ UNCHANGED <<refused, handled>>
             ELSE \/ "LOG" \in types /\ pl2rld_client_recv_log(c, whole)
                  \/ "REGISTER" \in types /\ pl2rld_client_recv_reg(c, whole)
    /\ UNCHANGED <<clientVars, clientEnd, torn, running, trouble, stops>>

Pl2rlNext ==
    \/ \E p \in Procs : Clock(p) \/ pl2rl_init(p) \/ pl2rl_log(p) \/ pl2rl_send(p)
    \/ pl2rld_client_listener_init
    \/ DaemonStops
    \/ \E c \in Conns : pl2rld_client_accept_cb(c) \/ RecvHeader(c) \/ RecvRest(c)

-----------------------------------------------------------------------------
(* Properties.                                                             *)

Pl2rlTypeOK ==
    /\ pl2rl_fd \in [Procs -> Conns \cup {NoConn}]
    /\ pl2rl_last_attempt \in [Procs -> {"none", "now", "past"}]
    /\ pc \in [Procs -> {"idle"} \cup MsgTypes] /\ text \in [Procs -> BOOLEAN]
    /\ w \in [Procs -> 0 .. LENGTH] /\ tries \in [Procs -> 0 .. PL2RL_RETRIES]
    /\ clientEnd \in [Conns -> BOOLEAN]
    /\ serverEnd \in [Conns -> {"closed", "waiting", "open", "registered"}]
    /\ \A c \in Conns : stream[c] \in Seq(Unit) /\ Len(stream[c]) <= SOCKBUF
    /\ torn \in [Conns -> BOOLEAN]
    /\ running \in BOOLEAN /\ refused \in BOOLEAN
    /\ reading.conn \in Conns \cup {NoConn} /\ reading.rlen \in 0 .. LENGTH
    /\ handled \in [whole : BOOLEAN, torn : BOOLEAN]
    /\ trouble \in 0 .. MaxTrouble /\ stops \in 0 .. MaxStops

\* What the RDK logger is given is a message as it was sent, never two halves:
\* whatever parts the sends took, however they interleave with the two reads,
\* and whoever was restarted, unless a message was given up on that connection.
\* And no message is refused because its process did not register.
MessagesIntact == (handled.whole \/ handled.torn) /\ ~refused

\* The daemon is given a message on a registered connection.
Heard ==
    \E c \in Conns :
      RecvRest(c) /\ serverEnd[c] = "registered" /\ serverEnd'[c] = "registered"

\* A process keeps a connection on which a message was given up half way.
OutOfStep == \E p \in Procs : pl2rl_fd[p] # NoConn /\ torn[pl2rl_fd[p]]
=============================================================================
