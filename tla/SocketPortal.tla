---------------------------- MODULE SocketPortal ----------------------------
(***************************************************************************)
(* cpp/portalSocket.c and cpp/sock_utils.c: a daemon serves several client *)
(* programs over one listening socket that carries several portals         *)
(* (socketfuncResp below muxfunc, as in examples/echomux/daemon.cpp).      *)
(*                                                                         *)
(* A message is three words of the client's byte stream: the mux header    *)
(* (portal number in its upper half), the message header (method number in *)
(* its upper half) and one argument, whose upper half is zero.  sendmsg    *)
(* appends the three at once: this is a local socket.  Every receive is    *)
(* non-blocking, and one that finds nothing leaves its buffer as it was.   *)
(*                                                                         *)
(* The processes are the clients and the daemon's poller thread.  A client *)
(* may leave at any time, also with answers it has not received, which     *)
(* makes a receive here fail after the last word.  The poller's tables are *)
(* those of poller.cpp.                                                    *)
(***************************************************************************)
EXTENDS Integers, Sequences, FiniteSets, Functions

CONSTANTS
  Client,      \* client programs, each with one connection
  Port,        \* numbers of the portals on the mux, one each
  Served,      \* those with a handler; a proxy has none
  Answering,   \* those whose methods answer on a proxy of the same mux
  Method,      \* method numbers
  Runaway,     \* unknown methods a generated handler puts up with (10)
  Script       \* the messages a client sends: a sequence of [port, method]

ASSUME ScriptAssumption ==
  Served \subseteq Port /\ Script \in [Client -> Seq([port : Served, method : Method])]

VARIABLES
  link,        \* a client's connection: none, up, shut or reset by it, gone (closed here)
  stream,      \* words a client has sent and the daemon has not received
  sent,        \* number of messages a client has sent
  backlog,     \* connections that wait for accept, in order
  client_fd, client_fd_number,   \* the table of connections and its length
  indication_index,              \* slot that is being received from
  map_base,    \* first word of the mux's buffer
  inner, arg,  \* per portal, the header and the argument in its buffer
  dpc,         \* the poller thread: poll, handler, reply, accept, dead
  reply,       \* the message that is being answered
  polled_fds,  \* descriptors the poller waits for, besides the listening one
  calls,       \* the calls the handlers made
  inbox,       \* answers sent to a client
  runaway,     \* per portal, number of unknown methods
  ends,        \* number of ends of file the daemon has met
  atEnd,       \* the handler is called after an end of file
  torn         \* clients a handler called so has received words of

clientVars == <<link, stream, sent, backlog>>
fdVars == <<client_fd, client_fd_number, polled_fds>>
bufferVars == <<indication_index, map_base, inner, arg>>
endVars == <<runaway, ends, atEnd, torn>>
socketVars == <<clientVars, fdVars, bufferVars, dpc, reply, calls, inbox, endVars>>

NoMsg == <<"none", 0>>

\* init_mux stores -1 in the mux's buffer, so that its upper half names no portal.
Unset == [hi |-> 65535, msg |-> NoMsg]

SocketInit ==
  /\ link = [c \in Client |-> "none"]
  /\ stream = [c \in Client |-> <<>>]
  /\ sent = [c \in Client |-> 0]
  /\ backlog = <<>>
  /\ client_fd = <<>>
  /\ client_fd_number = 0
  /\ indication_index = 1
  /\ map_base = Unset
  /\ inner = [p \in Port |-> Unset]
  /\ arg = [p \in Port |-> Unset]
  /\ dpc = "poll"
  /\ reply = NoMsg
  /\ polled_fds = <<>>
  /\ calls = <<>>
  /\ inbox = [c \in Client |-> <<>>]
  /\ runaway = [p \in Port |-> 0]
  /\ ends = 0 /\ atEnd = FALSE /\ torn = {}

-----------------------------------------------------------------------------
\* Clients.

init_connecting(c) ==
  /\ link[c] = "none"
  /\ link' = [link EXCEPT ![c] = "up"]
  /\ backlog' = Append(backlog, c)
  /\ UNCHANGED <<stream, sent, fdVars, bufferVars, dpc, reply, calls, inbox, endVars>>

\* Mutant: the argument is left out.
send_mux_Short(c, k) ==
  LET m == Script[c][k]
      Word(h) == [hi |-> h, msg |-> <<c, k>>]
  IN  <<Word(m.port), Word(m.method)>>

\* Mutant: a message that has been sent is sent again.
send_mux_Again(c, k) ==
  LET m == Script[c][k]
      Word(h) == [hi |-> h, msg |-> <<c, k>>]
      message == <<Word(m.port), Word(m.method), Word(0)>>
  IN  message \o message

\* send_mux over send_socket: the words of message k of client c.
send_mux(c, k) ==
  LET m == Script[c][k]
      Word(h) == [hi |-> h, msg |-> <<c, k>>]
  IN  <<Word(m.port), Word(m.method), Word(0)>>

Send(c) ==
  /\ link[c] = "up"
  /\ sent[c] < Len(Script[c])
  /\ sent' = [sent EXCEPT ![c] = @ + 1]
  /\ stream' = [stream EXCEPT ![c] = @ \o send_mux(c, sent[c] + 1)]
  /\ UNCHANGED <<link, backlog, fdVars, bufferVars, dpc, reply, calls, inbox, endVars>>

Leave(c) ==
  /\ link[c] = "up"
  /\ \/ link' = [link EXCEPT ![c] = "shut"]
     \/ inbox[c] # <<>> /\ link' = [link EXCEPT ![c] = "reset"]
  /\ UNCHANGED <<stream, sent, backlog, fdVars, bufferVars, dpc, reply, calls, inbox, endVars>>

-----------------------------------------------------------------------------
\* The daemon's poller thread.

\* portalRecvFd of one word: what is in the buffer and in the stream after it.
portalRecvFd(buffer, words) ==
  IF words = <<>> THEN [buffer |-> buffer, words |-> <<>>]
                  ELSE [buffer |-> Head(words), words |-> Tail(words)]

Readable(c) == stream[c] # <<>> \/ link[c] \in {"shut", "reset"}

\* Mutant: the listening socket is not among the descriptors.
PollReturns_NoBacklog ==
  \E c \in Range(polled_fds) : Readable(c) \/ link[c] = "gone"

\* poll(2) returns for readable, ended and closed connections and for a backlog.
PollReturns == backlog # <<>> \/ \E c \in Range(polled_fds) : Readable(c) \/ link[c] = "gone"

\* The slots whose receive does not fail with EAGAIN; the loop stops at the first.
Ready == {i \in 1..client_fd_number : Readable(client_fd[i])}

\* The shift after an end of file leaves the slot behind the table as it was.
Shifted(i) ==
  [j \in DOMAIN client_fd |->
     IF j >= i /\ j < client_fd_number THEN client_fd[j + 1] ELSE client_fd[j]]

\* Loop of event_socket up to the handler: after an end of file it goes on with
\* the header of the message before, and an error ends the daemon.
event_socket ==
  /\ dpc = "poll"
  /\ PollReturns
  /\ IF Ready = {}
     THEN /\ dpc' = "accept"
          /\ UNCHANGED <<link, stream, client_fd, client_fd_number, indication_index, map_base, ends, atEnd>>
     ELSE \E i \in Ready :
            LET c == client_fd[i] IN
            /\ \A j \in Ready : i <= j
            /\ \/ /\ stream[c] # <<>>
                  /\ dpc' = "handler" /\ indication_index' = i /\ atEnd' = FALSE
                  /\ map_base' = Head(stream[c])
                  /\ stream' = [stream EXCEPT ![c] = Tail(@)]
                  /\ UNCHANGED <<link, client_fd, client_fd_number, ends>>
               \/ /\ stream[c] = <<>> /\ link[c] = "shut"
                  /\ dpc' = "handler" /\ indication_index' = i /\ atEnd' = TRUE
                  /\ link' = [link EXCEPT ![c] = "gone"]
                  /\ client_fd' = Shifted(i)
                  /\ client_fd_number' = client_fd_number - 1
                  /\ ends' = ends + 1
                  /\ UNCHANGED <<stream, map_base>>
               \/ /\ stream[c] = <<>> /\ link[c] = "reset"
                  /\ dpc' = "dead"
                  /\ UNCHANGED <<link, stream, client_fd, client_fd_number, indication_index, map_base, ends, atEnd>>
  /\ UNCHANGED <<sent, backlog, polled_fds, inner, arg, reply, calls, inbox, runaway, torn>>

\* portal_mux_handler and the generated handler of the portal it finds.  A portal without
\* a handler is called all the same, and too many unknown methods end the daemon.  A
\* receive that finds nothing at a reset connection takes the error away.
portal_mux_handler ==
  /\ dpc = "handler"
  /\ LET p == map_base.hi
         c == client_fd[indication_index]
         words == IF link[c] = "gone" THEN <<>> ELSE stream[c]
         first == portalRecvFd(inner[p], words)
         second == portalRecvFd(arg[p], first.words)
         SetStream(w) == stream' = IF link[c] = "gone" THEN stream ELSE [stream EXCEPT ![c] = w]
         SetLink(w) == link' = IF link[c] = "reset" /\ w = <<>> THEN [link EXCEPT ![c] = "shut"] ELSE link
     IN  IF p \notin Port
         THEN /\ dpc' = "accept"
              /\ UNCHANGED <<link, stream, inner, arg, calls, reply, runaway, torn>>
         ELSE /\ inner' = [inner EXCEPT ![p] = first.buffer]
              /\ torn' = IF atEnd /\ words # <<>> THEN torn \cup {c} ELSE torn
              /\ IF p \notin Served \/ first.buffer.hi \notin Method
                 THEN /\ SetStream(first.words) /\ SetLink(words)
                      /\ dpc' = IF p \notin Served \/ runaway[p] > Runaway THEN "dead" ELSE "accept"
                      /\ runaway' = [runaway EXCEPT ![p] = @ + 1]
                      /\ UNCHANGED <<arg, calls, reply>>
                 ELSE /\ SetStream(second.words) /\ SetLink(first.words)
                      /\ UNCHANGED runaway
                      /\ arg' = [arg EXCEPT ![p] = second.buffer]
                      /\ calls' = Append(calls, [port |-> p, method |-> first.buffer.hi,
                                                 msg |-> second.buffer.msg])
                      /\ IF p \in Answering
                         THEN dpc' = "reply" /\ reply' = second.buffer.msg
                         ELSE dpc' = "accept" /\ reply' = reply
  /\ UNCHANGED <<sent, backlog, fdVars, indication_index, map_base, inbox, ends, atEnd>>

\* The slot an answer goes to: that of the portal's own indication_index, which
\* only the mux's copy of is ever set.
request_index == 1

\* Mutant: without addFdToPoller.
AcceptFirst_Unpolled ==
  /\ client_fd' = [j \in 1..Len(client_fd) \cup {client_fd_number + 1} |->
                     IF j = client_fd_number + 1 THEN Head(backlog) ELSE client_fd[j]]
  /\ client_fd_number' = client_fd_number + 1
  /\ backlog' = Tail(backlog)
  /\ UNCHANGED polled_fds

\* accept_socket and addFdToPoller, where there is a connection to accept.
AcceptFirst ==
  /\ client_fd' = [j \in 1..Len(client_fd) \cup {client_fd_number + 1} |->
                     IF j = client_fd_number + 1 THEN Head(backlog) ELSE client_fd[j]]
  /\ client_fd_number' = client_fd_number + 1
  /\ polled_fds' = Append(polled_fds, Head(backlog))
  /\ backlog' = Tail(backlog)

\* send_socket: without a client it runs event_socket until there is one.  A
\* write to a connection its client has shut ends the daemon (SIGPIPE).
send_socket ==
  /\ dpc = "reply"
  /\ IF client_fd_number = 0
     THEN /\ backlog # <<>>
          /\ AcceptFirst
          /\ UNCHANGED <<dpc, inbox>>
     ELSE LET c == client_fd[request_index] IN
          /\ IF link[c] = "up"
             THEN inbox' = [inbox EXCEPT ![c] = Append(@, reply)] /\ dpc' = "accept"
             ELSE inbox' = inbox /\ dpc' = "dead"
          /\ UNCHANGED <<fdVars, backlog>>
  /\ UNCHANGED <<link, stream, sent, bufferVars, reply, calls, endVars>>

\* The end of event_socket.
accept_socket ==
  /\ dpc = "accept"
  /\ dpc' = "poll"
  /\ IF backlog = <<>> THEN UNCHANGED <<fdVars, backlog>> ELSE AcceptFirst
  /\ UNCHANGED <<link, stream, sent, bufferVars, reply, calls, inbox, endVars>>

Daemon == event_socket \/ portal_mux_handler \/ send_socket \/ accept_socket

SocketNext == Daemon \/ \E c \in Client : init_connecting(c) \/ Send(c) \/ Leave(c)

SocketSpec == SocketInit /\ [][SocketNext]_socketVars

\* The poller thread runs; clients need not.
SocketFairSpec == SocketSpec /\ WF_socketVars(Daemon)

-----------------------------------------------------------------------------
\* Properties.

\* Call i is for message n of client c: with its portal and method, after the calls
\* for all the messages c sent before, and for none of them again.
IsCallFor(i, c, n) ==
  /\ calls[i] = [port |-> Script[c][n].port, method |-> Script[c][n].method, msg |-> <<c, n>>]
  /\ \A j \in 1 .. i - 1 : calls[j].msg[1] = c => calls[j].msg[2] < n
  /\ \A l \in 1 .. n - 1 : \E j \in 1 .. i - 1 : calls[j].msg = <<c, l>>

\* Until the daemon meets an end of file, the handlers of event_socket and
\* portal_mux_handler get every client's messages whole, in order and once.
CallsAreMessages ==
  ends = 0 => \A i \in DOMAIN calls : \E c \in Client : \E n \in 1 .. sent[c] : IsCallFor(i, c, n)

\* A client that leaves costs at most one call nobody asked for, a repetition of the
\* last message of some portal (event_socket goes on to the handler), unless the
\* handler finds words of the client that has moved to its place.
RepeatsBounded ==
  torn = {} => Len(calls) - Cardinality({k.msg : k \in Range(calls)}) <= ends

\* The words of a message that are still in its client's stream.
UnreadWords(c, k) == {i \in DOMAIN stream[c] : stream[c][i].msg = <<c, k>>}

\* A client loses a message only when it has moved to the place of one that left and
\* the handler took its words with the header before: the others' messages are handled
\* or still to be received, whatever is called in between, while the daemon runs.
LossBounded ==
  dpc = "poll" =>
    \A c \in Client \ torn : \A k \in 1 .. sent[c] :
      UnreadWords(c, k) # {} \/ \E e \in Range(calls) : e.msg = <<c, k>>

\* The poller waits for every connection in the table, whatever is closed and
\* accepted in between (addFdToPoller).
TablePolled ==
  \A i \in 1..client_fd_number : client_fd[i] \in Range(polled_fds)

\* As long as no client leaves, every message reaches its handler: the messages
\* are bounded, so again and again none is on the way (event_socket).
MessagesHandled ==
  []<>(\/ \A c \in Client : \A k \in 1..sent[c] : \E e \in Range(calls) : e.msg = <<c, k>>
       \/ \E c \in Client : link[c] \in {"shut", "reset", "gone"})

-----------------------------------------------------------------------------
\* The inductive invariants of the proofs.

\* The handlers have been called for n messages of client c, in order, and what is
\* left in its stream is the words of the others but the first d.
Received(c, n, d) ==
  /\ \A i \in DOMAIN calls : calls[i].msg[1] = c => calls[i].msg[2] <= n
  /\ \A l \in 1 .. n : \E i \in DOMAIN calls : calls[i].msg = <<c, l>>
  /\ Len(stream[c]) = 3 * (sent[c] - n) - d
  /\ \A m \in n + 1 .. sent[c] : \A j \in 1 .. 3 :
       3 * (m - n - 1) + j > d => stream[c][3 * (m - n - 1) + j - d] = send_mux(c, m)[j]

\* event_socket has received the first word of a message of client c.
Receiving(c) == dpc = "handler" /\ client_fd[indication_index] = c

\* A client's stream is at the beginning of a message, or behind the first word of the
\* message that is being received.
ClientInv(c) ==
  \E n \in 0 .. sent[c] :
    \/ ~Receiving(c) /\ Received(c, n, 0)
    \/ /\ Receiving(c) /\ n < sent[c] /\ Received(c, n, 1)
       /\ map_base = [hi |-> Script[c][n + 1].port, msg |-> <<c, n + 1>>]

\* The tables of the daemon, which keep to this whatever the clients do.
TableInv ==
  /\ backlog \in Seq(Client)
  /\ client_fd \in Seq(Client)
  /\ client_fd_number \in 0 .. Len(client_fd)
  /\ polled_fds \in Seq(Client)
  /\ TablePolled

\* What holds until the first end of file.
WholeInv ==
  /\ link \in [Client -> {"none", "up", "shut", "reset"}]
  /\ client_fd_number = Len(client_fd)
  /\ dpc = "handler" => indication_index \in 1 .. client_fd_number
  /\ sent \in [Client -> Nat] /\ \A c \in Client : sent[c] <= Len(Script[c])
  /\ stream \in [Client -> Seq([hi : Served \cup Method \cup {0}, msg : Client \X Nat])]
  /\ calls \in Seq([port : Served, method : Method, msg : Client \X Nat])
  /\ \A c \in Client : ClientInv(c)
  /\ CallsAreMessages

SocketInv == ends \in Nat /\ TableInv /\ (ends = 0 => WholeInv)

=============================================================================
