---------------------------- MODULE SocketProofs ----------------------------
(***************************************************************************)
(* Two systems that talk over sockets.                                     *)
(*                                                                         *)
(* The daemon of a socket: until its first end of file its handlers get    *)
(* every client's messages whole, in order and once, for any number of     *)
(* clients and portals and any messages.  Every client's stream is at the  *)
(* beginning of a message, or behind the first word of the one message     *)
(* that is being received.                                                 *)
(*                                                                         *)
(* The link to the simulator: every read gets the answer to its own        *)
(* request, for every number of programs and accesses, although            *)
(* poll_response ignores the tags: a thread asks only while it owns        *)
(* socket_mutex, so a program has at most one request to read outstanding, *)
(* and it is in one place: on the way to the simulator, at it, on the way  *)
(* back or in shared_response.  And a connected program knows the level of *)
(* the interrupt line, or will once it has read the notices on their way.  *)
(***************************************************************************)
EXTENDS SocketPortal, SimLink, SequenceTheorems, WellFoundedInduction, TLAPS

\* The SMT solver gets half a minute for a leaf; a leaf for Zenon says so.
USE SMTT(30)

\* The three words of a message.
LEMMA MessageWords ==
  ASSUME NEW c \in Client, NEW n \in 1 .. Len(Script[c])
  PROVE  /\ Script[c][n].port \in Served /\ Script[c][n].method \in Method
         /\ send_mux(c, n) \in Seq([hi : Served \cup Method \cup {0}, msg : Client \X Nat])
         /\ Len(send_mux(c, n)) = 3
         /\ send_mux(c, n)[1] = [hi |-> Script[c][n].port, msg |-> <<c, n>>]
         /\ send_mux(c, n)[2] = [hi |-> Script[c][n].method, msg |-> <<c, n>>]
         /\ send_mux(c, n)[3] = [hi |-> 0, msg |-> <<c, n>>]
<1>0. Script[c] \in Seq([port : Served, method : Method])
  BY Zenon, ScriptAssumption
<1>1. Script[c][n] \in [port : Served, method : Method] /\ n \in Nat
  <2>1. Len(Script[c]) \in Nat
    BY Zenon, <1>0, LenProperties
  <2>2. n \in Nat
    BY <2>1
  <2>3. QED
    BY Zenon, <1>0, <2>2, ElementOfSeq
<1>2. QED
  BY <1>1 DEF send_mux

\* A step that touches neither the client's stream nor its calls.
LEMMA ReceivedStays ==
  ASSUME NEW c, NEW n, NEW d, Received(c, n, d),
         stream'[c] = stream[c], sent'[c] = sent[c], calls' = calls
  PROVE  Received(c, n, d)'
BY Zenon DEF Received

LEMMA ClientStays ==
  ASSUME NEW c \in Client, ClientInv(c), Receiving(c)' <=> Receiving(c),
         Receiving(c) => map_base' = map_base,
         stream'[c] = stream[c], sent'[c] = sent[c], calls' = calls
  PROVE  ClientInv(c)'
<1>1. PICK n \in 0 .. sent[c] :
        \/ ~Receiving(c) /\ Received(c, n, 0)
        \/ /\ Receiving(c) /\ n < sent[c] /\ Received(c, n, 1)
           /\ map_base = [hi |-> Script[c][n + 1].port, msg |-> <<c, n + 1>>]
  BY Zenon DEF ClientInv
<1>2. \A d : Received(c, n, d) => Received(c, n, d)'
  BY Zenon, ReceivedStays
<1>3. n \in 0 .. sent'[c]
  BY Zenon
<1>4. CASE Receiving(c)
  <2>1. /\ Receiving(c)' /\ n < sent'[c] /\ Received(c, n, 1)'
        /\ map_base' = [hi |-> Script[c][n + 1].port, msg |-> <<c, n + 1>>]
    BY Zenon, <1>1, <1>2, <1>4
  <2>2. QED
    BY ZenonT(60), <1>3, <2>1 DEF ClientInv
<1>5. CASE ~Receiving(c)
  <2>1. ~Receiving(c)' /\ Received(c, n, 0)'
    BY Zenon, <1>1, <1>2, <1>5
  <2>2. QED
    BY Zenon, <1>3, <2>1 DEF ClientInv
<1>6. QED
  BY Zenon, <1>4, <1>5

\* Another message of the client.
LEMMA ReceivedSent ==
  ASSUME NEW W, NEW c \in Client, stream[c] \in Seq(W), NEW e \in Seq(W), Len(e) = 3,
         sent[c] \in Nat, NEW n \in 0 .. sent[c], NEW d \in {0, 1}, Received(c, n, d),
         d = 1 => n < sent[c],
         e = send_mux(c, sent[c] + 1), stream'[c] = stream[c] \o e,
         sent'[c] = sent[c] + 1, calls' = calls
  PROVE  Received(c, n, d)'
<1>1. PICK s, q, k : s = stream[c] /\ q = sent[c] /\ k = Len(s)
  BY Zenon
<1>0. s \in Seq(W) /\ q \in Nat /\ n \in 0 .. q /\ k = 3 * (q - n) - d /\ k \in Nat /\ k = Len(s)
  BY <1>1 DEF Received
<1>2. /\ \A m \in n + 1 .. q : \A j \in 1 .. 3 :
           3 * (m - n - 1) + j > d => s[3 * (m - n - 1) + j - d] = send_mux(c, m)[j]
  BY Zenon, <1>1 DEF Received
<1>3. /\ Len(s \o e) = k + 3
      /\ \A i \in 1 .. k + 3 : (s \o e)[i] = IF i <= k THEN s[i] ELSE e[i - k]
  <2>1. /\ Len(s \o e) = Len(s) + Len(e)
        /\ \A i \in 1 .. Len(s) + Len(e) : (s \o e)[i] = IF i <= Len(s) THEN s[i] ELSE e[i - Len(s)]
    <3>1. s \in Seq(W)
      BY Zenon, <1>0
    <3>2. QED
      BY ZenonT(60), <3>1, ConcatProperties
  <2>2. Len(s) = k /\ Len(s) + Len(e) = k + 3
    <3>1. Len(s) = k /\ Len(e) = 3
      BY Zenon, <1>0
    <3>2. QED
      BY Zenon, <3>1
  <2>3. QED
    BY Zenon, <2>1, <2>2
<1>4. PICK t : t = s \o e
  BY Zenon
<1>5. Len(t) = 3 * ((q + 1) - n) - d
  BY <1>0, <1>3, <1>4
<1>6. ASSUME NEW m \in n + 1 .. q + 1, NEW j \in 1 .. 3, 3 * (m - n - 1) + j > d
      PROVE  t[3 * (m - n - 1) + j - d] = send_mux(c, m)[j]
  <2>1. CASE m = q + 1
    <3>1. 3 * (m - n - 1) + j - d = k + j /\ k + j \in 1 .. k + 3 /\ ~(k + j <= k) /\ (k + j) - k = j
      BY <1>0, <2>1
    <3>2. t[k + j] = e[j]
      BY Zenon, <1>3, <1>4, <3>1
    <3>3. QED
      BY Zenon, <1>1, <2>1, <3>1, <3>2
  <2>2. CASE m # q + 1
    <3>1. PICK x : x = 3 * (m - n - 1) + j - d
      BY Zenon
    <3>2. m \in n + 1 .. q /\ x \in 1 .. k + 3 /\ x <= k
      BY <1>0, <1>6, <2>2, <3>1
    <3>3. t[x] = s[x]
      BY Zenon, <1>3, <1>4, <3>2
    <3>4. QED
      BY Zenon, <1>2, <1>6, <3>1, <3>2, <3>3
  <2>3. QED
    BY Zenon, <2>1, <2>2
<1>7. stream'[c] = t /\ sent'[c] = q + 1
  BY Zenon, <1>1, <1>4
<1>8. /\ \A i \in DOMAIN calls : calls[i].msg[1] = c => calls[i].msg[2] <= n
      /\ \A l \in 1 .. n : \E i \in DOMAIN calls : calls[i].msg = <<c, l>>
  BY Zenon DEF Received
<1>9. PICK z : z = sent'[c] /\ z = q + 1
  BY Zenon, <1>7
<1>10. /\ Len(t) = 3 * (z - n) - d
       /\ \A m \in n + 1 .. z : \A j \in 1 .. 3 :
            3 * (m - n - 1) + j > d => t[3 * (m - n - 1) + j - d] = send_mux(c, m)[j]
  <2>1. Len(t) = 3 * (z - n) - d
    BY Zenon, <1>5, <1>9
  <2>2. ASSUME NEW m \in n + 1 .. z, NEW j \in 1 .. 3, 3 * (m - n - 1) + j > d
        PROVE  t[3 * (m - n - 1) + j - d] = send_mux(c, m)[j]
    <3>1. m \in n + 1 .. q + 1
      BY Zenon, <1>9
    <3>2. QED
      BY Zenon, <1>6, <2>2, <3>1
  <2>3. QED
    BY Zenon, <2>1, <2>2
<1>11. QED
  BY Zenon, <1>7, <1>8, <1>9, <1>10 DEF Received

\* event_socket receives the first word.
LEMMA ReceivedFirst ==
  ASSUME NEW W, NEW c \in Client, stream[c] \in Seq(W), stream[c] # <<>>,
         sent[c] \in Nat, NEW n \in 0 .. sent[c], Received(c, n, 0),
         stream'[c] = Tail(stream[c]), sent'[c] = sent[c], calls' = calls
  PROVE  /\ n < sent[c]
         /\ Head(stream[c]) = send_mux(c, n + 1)[1]
         /\ Received(c, n, 1)'
<1>1. PICK s, q, k : s = stream[c] /\ q = sent[c] /\ k = Len(s)
  BY Zenon
<1>0. s \in Seq(W) /\ s # <<>> /\ q \in Nat /\ n \in 0 .. q /\ k = 3 * (q - n) /\ k \in Nat /\ k = Len(s)
  BY <1>1 DEF Received
<1>2. /\ \A m \in n + 1 .. q : \A j \in 1 .. 3 :
           3 * (m - n - 1) + j > 0 => s[3 * (m - n - 1) + j - 0] = send_mux(c, m)[j]
  BY Zenon, <1>1 DEF Received
<1>3. k > 0 /\ n < q
  <2>1. k > 0
    BY <1>0
  <2>2. QED
    BY <1>0, <2>1
<1>4. Head(s) = s[1] /\ s[1] = send_mux(c, n + 1)[1]
  <2>1. n + 1 \in n + 1 .. q /\ 3 * ((n + 1) - n - 1) + 1 > 0 /\ 3 * ((n + 1) - n - 1) + 1 - 0 = 1
    BY <1>0, <1>3
  <2>2. 1 \in 1 .. 3
    OBVIOUS
  <2>3. s[1] = send_mux(c, n + 1)[1]
    BY Zenon, <1>2, <2>1, <2>2
  <2>4. QED
    BY <1>0, <2>3
<1>5. /\ Len(Tail(s)) = k - 1
      /\ \A i \in 1 .. k - 1 : Tail(s)[i] = s[i + 1]
  <2>1. /\ Len(Tail(s)) = Len(s) - 1
        /\ \A i \in 1 .. Len(Tail(s)) : Tail(s)[i] = s[i + 1]
    BY Zenon, <1>0, HeadTailProperties
  <2>2. QED
    BY Zenon, <1>0, <2>1
<1>6. ASSUME NEW m \in n + 1 .. q, NEW j \in 1 .. 3, 3 * (m - n - 1) + j > 1
      PROVE  Tail(s)[3 * (m - n - 1) + j - 1] = send_mux(c, m)[j]
  <2>1. PICK x : x = 3 * (m - n - 1) + j - 1
    BY Zenon
  <2>2. x \in 1 .. k - 1 /\ 3 * (m - n - 1) + j - 0 = x + 1 /\ 3 * (m - n - 1) + j > 0
    <3>1. m \in Int /\ n \in Int /\ q \in Int /\ j \in Int /\ k = 3 * (q - n)
      BY <1>0
    <3>2. n + 1 <= m /\ m <= q /\ 1 <= j /\ j <= 3
      BY <1>0
    <3>3. x \in Int /\ x + 1 = 3 * (m - n - 1) + j /\ 1 <= x /\ x <= k - 1
      BY <1>6, <2>1, <3>1, <3>2
    <3>4. QED
      BY <3>1, <3>3
  <2>3. Tail(s)[x] = s[x + 1]
    BY Zenon, <1>5, <2>2
  <2>4. QED
    BY Zenon, <1>2, <2>1, <2>2, <2>3
<1>7. /\ \A i \in DOMAIN calls : calls[i].msg[1] = c => calls[i].msg[2] <= n
      /\ \A l \in 1 .. n : \E i \in DOMAIN calls : calls[i].msg = <<c, l>>
  BY Zenon DEF Received
<1>8. /\ Len(stream'[c]) = 3 * (sent'[c] - n) - 1
      /\ \A m \in n + 1 .. sent'[c] : \A j \in 1 .. 3 :
           3 * (m - n - 1) + j > 1 => stream'[c][3 * (m - n - 1) + j - 1] = send_mux(c, m)[j]
  BY ZenonT(60), <1>0, <1>1, <1>5, <1>6
<1>9. Received(c, n, 1)'
  BY Zenon, <1>7, <1>8 DEF Received
<1>10. QED
  BY Zenon, <1>1, <1>3, <1>4, <1>9

\* portal_mux_handler receives the other two.
LEMMA ReceivedRest ==
  ASSUME NEW W, NEW c \in Client, stream[c] \in Seq(W),
         sent[c] \in Nat, NEW n \in 0 .. sent[c], n < sent[c], Received(c, n, 1)
  PROVE  /\ stream[c] # <<>> /\ Head(stream[c]) = send_mux(c, n + 1)[2]
         /\ Tail(stream[c]) # <<>> /\ Head(Tail(stream[c])) = send_mux(c, n + 1)[3]
         /\ Tail(Tail(stream[c])) \in Seq(W)
         /\ Len(Tail(Tail(stream[c]))) = 3 * (sent[c] - (n + 1))
         /\ \A m \in n + 2 .. sent[c] : \A j \in 1 .. 3 :
              Tail(Tail(stream[c]))[3 * (m - (n + 1) - 1) + j] = send_mux(c, m)[j]
<1>1. PICK s, q, k : s = stream[c] /\ q = sent[c] /\ k = Len(s)
  BY Zenon
<1>0. s \in Seq(W) /\ q \in Nat /\ n \in 0 .. q /\ n < q /\ k = 3 * (q - n) - 1 /\ k \in Nat /\ k = Len(s)
  BY <1>1 DEF Received
<1>01. k >= 2
  BY <1>0
<1>2. \A m \in n + 1 .. q : \A j \in 1 .. 3 :
        3 * (m - n - 1) + j > 1 => s[3 * (m - n - 1) + j - 1] = send_mux(c, m)[j]
  BY Zenon, <1>1 DEF Received
<1>3. s[1] = send_mux(c, n + 1)[2] /\ s[2] = send_mux(c, n + 1)[3]
  <2>1. /\ n + 1 \in n + 1 .. q /\ 2 \in 1 .. 3 /\ 3 \in 1 .. 3
        /\ 3 * ((n + 1) - n - 1) + 2 > 1 /\ 3 * ((n + 1) - n - 1) + 2 - 1 = 1
        /\ 3 * ((n + 1) - n - 1) + 3 > 1 /\ 3 * ((n + 1) - n - 1) + 3 - 1 = 2
    <3>1. n \in Int /\ q \in Int /\ n + 1 <= q
      BY <1>0
    <3>2. (n + 1) - n - 1 = 0 /\ n + 1 \in n + 1 .. q
      BY <3>1
    <3>3. /\ 2 \in 1 .. 3 /\ 3 \in 1 .. 3
          /\ 3 * 0 + 2 > 1 /\ 3 * 0 + 2 - 1 = 1 /\ 3 * 0 + 3 > 1 /\ 3 * 0 + 3 - 1 = 2
      OBVIOUS
    <3>4. QED
      BY Zenon, <3>2, <3>3
  <2>2. s[3 * ((n + 1) - n - 1) + 2 - 1] = send_mux(c, n + 1)[2]
    BY Zenon, <1>2, <2>1
  <2>3. s[3 * ((n + 1) - n - 1) + 3 - 1] = send_mux(c, n + 1)[3]
    BY Zenon, <1>2, <2>1
  <2>4. QED
    BY Zenon, <2>1, <2>2, <2>3
<1>4. PICK t : t = Tail(s)
  BY Zenon
<1>5. s # <<>> /\ Head(s) = s[1]
  BY <1>0, <1>01
<1>6. /\ t \in Seq(W) /\ Len(t) = k - 1 /\ \A i \in 1 .. k - 1 : t[i] = s[i + 1]
  <2>1. /\ t \in Seq(W) /\ Len(t) = Len(s) - 1
        /\ \A i \in 1 .. Len(t) : t[i] = s[i + 1]
    BY Zenon, <1>0, <1>4, <1>5, HeadTailProperties
  <2>2. QED
    BY ZenonT(60), <1>0, <2>1
<1>7. t # <<>> /\ Head(t) = t[1] /\ t[1] = s[2]
  BY <1>0, <1>01, <1>6
<1>8. PICK u : u = Tail(t)
  BY Zenon
<1>9. u \in Seq(W) /\ Len(u) = k - 2 /\ \A i \in 1 .. k - 2 : u[i] = t[i + 1]
  <2>1. /\ u \in Seq(W) /\ Len(u) = Len(t) - 1
        /\ \A i \in 1 .. Len(u) : u[i] = t[i + 1]
    BY Zenon, <1>6, <1>7, <1>8, HeadTailProperties
  <2>2. Len(u) = k - 2
    <3>1. k \in Nat
      BY Zenon, <1>0
    <3>2. Len(t) = k - 1 /\ Len(u) = Len(t) - 1
      BY Zenon, <1>6, <2>1
    <3>3. QED
      BY <3>1, <3>2
  <2>3. QED
    BY Zenon, <2>1, <2>2
<1>10. \A i \in 1 .. k - 2 : u[i] = s[i + 2]
  BY <1>0, <1>6, <1>9
<1>11. ASSUME NEW m \in n + 2 .. q, NEW j \in 1 .. 3
       PROVE  u[3 * (m - (n + 1) - 1) + j] = send_mux(c, m)[j]
  <2>1. PICK x : x = 3 * (m - (n + 1) - 1) + j
    BY Zenon
  <2>2. x \in 1 .. k - 2 /\ m \in n + 1 .. q /\ 3 * (m - n - 1) + j > 1 /\ 3 * (m - n - 1) + j - 1 = x + 2
    BY <1>0, <2>1
  <2>3. s[x + 2] = send_mux(c, m)[j]
    BY Zenon, <1>2, <2>2
  <2>4. QED
    BY Zenon, <1>10, <2>1, <2>2, <2>3
<1>12. Len(u) = 3 * (q - (n + 1))
  <2>1. Len(u) = k - 2 /\ k = 3 * (q - n) - 1
    BY Zenon, <1>0, <1>9
  <2>2. q \in Int /\ n \in Int
    BY <1>0
  <2>3. 3 * (q - n) - 1 - 2 = 3 * (q - (n + 1))
    BY <2>2
  <2>4. QED
    BY Zenon, <2>1, <2>3
<1>13. QED
  BY ZenonT(60), <1>1, <1>3, <1>4, <1>5, <1>7, <1>8, <1>9, <1>11, <1>12

-----------------------------------------------------------------------------
\* The table of connections.

\* Accepting a connection fills the slot behind the table.
LEMMA Accepted ==
  ASSUME TableInv, backlog # <<>>, AcceptFirst
  PROVE  /\ TableInv'
         /\ client_fd_number = Len(client_fd) => client_fd_number' = Len(client_fd')
         /\ \A i \in 1 .. client_fd_number : client_fd'[i] = client_fd[i]
<1>1. PICK k, q, h : k = Len(client_fd) /\ q = client_fd_number /\ h = Head(backlog)
  BY Zenon
<1>2. /\ k \in Nat /\ q \in 0 .. k /\ h \in Client /\ DOMAIN client_fd = 1 .. k
      /\ \A i \in 1 .. k : client_fd[i] \in Client
  <2>1. backlog \in Seq(Client) /\ client_fd \in Seq(Client) /\ client_fd_number \in 0 .. Len(client_fd)
    BY Zenon DEF TableInv
  <2>2. h \in Client
    BY Zenon, <1>1, <2>1, HeadTailProperties
  <2>3. QED
    BY <1>1, <2>1, <2>2
<1>3. PICK j : j \in Nat /\ j = (IF q = k THEN k + 1 ELSE k)
  BY <1>2
<1>4. 1 .. k \cup {q + 1} = 1 .. j /\ q + 1 \in 1 .. j
  BY <1>2, <1>3
<1>5. client_fd' = [i \in 1 .. j |-> IF i = q + 1 THEN h ELSE client_fd[i]]
  BY Zenon, <1>1, <1>4 DEF AcceptFirst
<1>6. \A i \in 1 .. j : i = q + 1 \/ i \in 1 .. k
  BY Zenon, <1>4
<1>7. client_fd' \in [1 .. j -> Client]
  BY Zenon, <1>2, <1>5, <1>6
<1>8. client_fd' \in Seq(Client) /\ Len(client_fd') = j
  BY <1>3, <1>7
<1>9. client_fd_number' = q + 1 /\ q + 1 \in 0 .. j
  BY <1>1, <1>2, <1>3 DEF AcceptFirst
<1>10. \A i \in 1 .. q : client_fd'[i] = client_fd[i]
  BY <1>2, <1>3, <1>5
<1>11. backlog' \in Seq(Client) /\ polled_fds' \in Seq(Client)
       /\ Range(polled_fds') = Range(polled_fds) \cup {h}
  <2>1. backlog \in Seq(Client) /\ polled_fds \in Seq(Client)
    BY Zenon DEF TableInv
  <2>2. backlog' \in Seq(Client) /\ polled_fds' = Append(polled_fds, h)
    BY Zenon, <1>1, <2>1, HeadTailProperties DEF AcceptFirst
  <2>3. polled_fds' \in Seq(Client)
    BY Zenon, <1>2, <2>1, <2>2, AppendProperties
  <2>4. Range(Append(polled_fds, h)) = Range(polled_fds) \cup {h}
    <3>1. /\ Len(Append(polled_fds, h)) = Len(polled_fds) + 1 /\ Len(polled_fds) \in Nat
          /\ \A i \in 1 .. Len(polled_fds) : Append(polled_fds, h)[i] = polled_fds[i]
          /\ Append(polled_fds, h)[Len(polled_fds) + 1] = h
      BY <1>2, <2>1, AppendProperties
    <3>2. /\ DOMAIN polled_fds = 1 .. Len(polled_fds)
          /\ DOMAIN Append(polled_fds, h) = 1 .. Len(polled_fds) + 1
      BY <2>1, <2>2, <2>3, <3>1
    <3>3. 1 .. Len(polled_fds) + 1 = 1 .. Len(polled_fds) \cup {Len(polled_fds) + 1}
      BY <3>1
    <3>4. QED
      BY <3>1, <3>2, <3>3 DEF Range
  <2>5. QED
    BY Zenon, <2>2, <2>3, <2>4
<1>12. TablePolled'
  <2> SUFFICES ASSUME NEW i \in 1 .. q + 1 PROVE client_fd'[i] \in Range(polled_fds')
    BY Zenon, <1>9 DEF TablePolled
  <2>1. CASE i = q + 1
    BY Zenon, <1>4, <1>5, <1>11, <2>1
  <2>2. CASE i # q + 1
    <3>1. i \in 1 .. q
      BY <1>2, <2>2
    <3>2. client_fd[i] \in Range(polled_fds)
      BY Zenon, <1>1, <3>1 DEF TableInv, TablePolled
    <3>3. QED
      BY Zenon, <1>10, <1>11, <3>1, <3>2
  <2>3. QED
    BY Zenon, <2>1, <2>2
<1>13. TableInv'
  BY Zenon, <1>8, <1>9, <1>11, <1>12 DEF TableInv
<1>14. client_fd_number = Len(client_fd) => client_fd_number' = Len(client_fd')
  BY Zenon, <1>1, <1>3, <1>8, <1>9
<1>15. QED
  BY Zenon, <1>1, <1>10, <1>13, <1>14

\* An end of file takes a connection out of the table.
LEMMA Closed ==
  ASSUME TableInv, NEW i \in 1 .. client_fd_number, client_fd' = Shifted(i),
         client_fd_number' = client_fd_number - 1, UNCHANGED <<backlog, polled_fds>>
  PROVE  TableInv'
<1>1. PICK k, q : k = Len(client_fd) /\ q = client_fd_number
  BY Zenon
<1>2. /\ k \in Nat /\ q \in 0 .. k /\ i \in 1 .. q /\ DOMAIN client_fd = 1 .. k
      /\ \A j \in 1 .. k : client_fd[j] \in Client
  BY <1>1 DEF TableInv
<1>3. client_fd' = [j \in 1 .. k |-> IF j >= i /\ j < q THEN client_fd[j + 1] ELSE client_fd[j]]
  BY Zenon, <1>1, <1>2 DEF Shifted
<1>4. \A j \in 1 .. k : j >= i /\ j < q => j + 1 \in 1 .. k
  BY <1>2
<1>5. client_fd' \in [1 .. k -> Client]
  BY Zenon, <1>2, <1>3, <1>4
<1>6. client_fd' \in Seq(Client) /\ Len(client_fd') = k
  BY <1>2, <1>5
<1>7. client_fd_number' \in 0 .. k
  BY <1>1, <1>2
<1>8. ASSUME NEW j \in 1 .. q - 1 PROVE client_fd'[j] \in Range(polled_fds)
  <2>1. j \in 1 .. k /\ j \in 1 .. q /\ j + 1 \in 1 .. q
    BY <1>2
  <2>2. client_fd'[j] \in {client_fd[j], client_fd[j + 1]}
    BY Zenon, <1>3, <2>1
  <2>3. client_fd[j] \in Range(polled_fds) /\ client_fd[j + 1] \in Range(polled_fds)
    BY Zenon, <1>1, <2>1 DEF TableInv, TablePolled
  <2>4. QED
    BY Zenon, <2>2, <2>3
<1>9. TablePolled'
  BY Zenon, <1>1, <1>8 DEF TablePolled
<1>10. QED
  BY Zenon, <1>6, <1>7, <1>9 DEF TableInv

\* Every step keeps the tables.
LEMMA TableStep == ASSUME TableInv, [SocketNext]_socketVars PROVE TableInv'
<1>1. ASSUME UNCHANGED <<backlog, client_fd, client_fd_number, polled_fds>> PROVE TableInv'
  BY Zenon, <1>1 DEF TableInv, TablePolled
<1>2. ASSUME NEW c \in Client, init_connecting(c) PROVE TableInv'
  <2>1. backlog' \in Seq(Client)
    BY Zenon, <1>2, AppendProperties DEF TableInv, init_connecting
  <2>2. UNCHANGED <<client_fd, client_fd_number, polled_fds>>
    BY Zenon, <1>2 DEF init_connecting, fdVars
  <2>3. QED
    BY Zenon, <2>1, <2>2 DEF TableInv, TablePolled
<1>3. ASSUME NEW c \in Client, Send(c) \/ Leave(c) PROVE TableInv'
  BY ZenonT(60), <1>1, <1>3 DEF Send, Leave, fdVars
<1>4. CASE event_socket
  <2>1. CASE UNCHANGED <<client_fd, client_fd_number>>
    BY Zenon, <1>1, <1>4, <2>1 DEF event_socket
  <2>2. ASSUME NEW i \in Ready, client_fd' = Shifted(i), client_fd_number' = client_fd_number - 1
        PROVE  TableInv'
    BY Zenon, <1>4, <2>2, Closed DEF Ready, event_socket
  <2>3. QED
    BY Zenon, <1>4, <2>1, <2>2 DEF event_socket
<1>5. CASE portal_mux_handler
  BY ZenonT(60), <1>1, <1>5 DEF portal_mux_handler, fdVars
<1>6. CASE send_socket
  BY Zenon, <1>1, <1>6, Accepted DEF send_socket, fdVars
<1>7. CASE accept_socket
  BY Zenon, <1>1, <1>7, Accepted DEF accept_socket, fdVars
<1>8. CASE UNCHANGED socketVars
  BY Zenon, <1>1, <1>8 DEF socketVars, clientVars, fdVars
<1>9. QED
  BY Zenon, <1>2, <1>3, <1>4, <1>5, <1>6, <1>7, <1>8 DEF SocketNext, Daemon

-----------------------------------------------------------------------------
\* The messages, until the first end of file.

\* Messages that are sent do not disturb the calls there were.
LEMMA CallsStay ==
  ASSUME CallsAreMessages, UNCHANGED <<calls, ends>>,
         \A o \in Client : sent[o] \in Nat /\ sent'[o] \in Nat /\ sent[o] <= sent'[o]
  PROVE  CallsAreMessages'
<1> SUFFICES ASSUME ends = 0, NEW i \in DOMAIN calls
             PROVE  \E o \in Client : \E n \in 1 .. sent'[o] : IsCallFor(i, o, n)'
  BY Zenon DEF CallsAreMessages
<1>1. PICK o \in Client : \E n \in 1 .. sent[o] : IsCallFor(i, o, n)
  BY Zenon DEF CallsAreMessages
<1>2. PICK n \in 1 .. sent[o] : IsCallFor(i, o, n)
  BY Zenon, <1>1
<1>3. IsCallFor(i, o, n)'
  BY Zenon, <1>2 DEF IsCallFor
<1>4. sent[o] \in Nat /\ sent'[o] \in Nat /\ sent[o] <= sent'[o]
  BY Zenon
<1>5. n \in 1 .. sent'[o]
  BY <1>4
<1>6. QED
  BY Zenon, <1>3, <1>5

\* A step that handles no message and receives none.
LEMMA WholeRests ==
  ASSUME WholeInv, UNCHANGED <<sent, stream, calls, ends>>,
         link' \in [Client -> {"none", "up", "shut", "reset"}],
         client_fd_number' = Len(client_fd'),
         \/ dpc # "handler" /\ dpc' # "handler"
         \/ UNCHANGED <<dpc, client_fd, client_fd_number, indication_index, map_base>>
  PROVE  WholeInv'
<1>1. ASSUME NEW c \in Client PROVE ClientInv(c)'
  <2>1. ClientInv(c)
    BY Zenon DEF WholeInv
  <2>2. (Receiving(c)' <=> Receiving(c)) /\ (Receiving(c) => map_base' = map_base)
    BY Zenon DEF Receiving
  <2>3. QED
    BY Zenon, <2>1, <2>2, ClientStays
<1>2. CallsAreMessages'
  <2>1. CallsAreMessages /\ sent \in [Client -> Nat]
    BY Zenon DEF WholeInv
  <2>2. \A o \in Client : sent[o] \in Nat /\ sent'[o] \in Nat /\ sent[o] <= sent'[o]
    BY <2>1
  <2>3. QED
    BY Zenon, <2>1, <2>2, CallsStay
<1>3. dpc' = "handler" => indication_index' \in 1 .. client_fd_number'
  BY Zenon DEF WholeInv
<1>4. QED
  BY ZenonT(60), <1>1, <1>2, <1>3 DEF WholeInv

\* A client sends a message.
LEMMA WholeSent ==
  ASSUME WholeInv, NEW c \in Client, Send(c) PROVE WholeInv'
<1> DEFINE W == [hi : Served \cup Method \cup {0}, msg : Client \X Nat]
<1>1. /\ sent \in [Client -> Nat] /\ sent[c] \in Nat /\ sent[c] < Len(Script[c])
      /\ stream \in [Client -> Seq(W)] /\ stream[c] \in Seq(W)
  BY Zenon DEF WholeInv, Send
<1>2. PICK e : e = send_mux(c, sent[c] + 1)
  BY Zenon
<1>3. e \in Seq(W) /\ Len(e) = 3
  <2>1. Script[c] \in Seq([port : Served, method : Method])
    BY ZenonT(60), ScriptAssumption
  <2>2. Len(Script[c]) \in Nat
    BY Zenon, <2>1, LenProperties
  <2>3. sent[c] + 1 \in 1 .. Len(Script[c])
    BY <1>1, <2>2
  <2>4. QED
    BY Zenon, <1>2, <2>3, MessageWords
<1> HIDE DEF W
<1>4. /\ stream'[c] = stream[c] \o e /\ sent'[c] = sent[c] + 1
      /\ \A o \in Client : o # c => stream'[o] = stream[o] /\ sent'[o] = sent[o]
      /\ UNCHANGED <<link, dpc, client_fd, client_fd_number, indication_index, map_base, calls, ends>>
  BY Zenon, <1>1, <1>2 DEF Send, fdVars, bufferVars, endVars
<1>5. stream' \in [Client -> Seq(W)]
  <2>1. stream[c] \o e \in Seq(W)
    BY Zenon, <1>1, <1>3, ConcatProperties
  <2>2. QED
    BY Zenon, <1>1, <1>2, <2>1 DEF Send
<1>6. sent' \in [Client -> Nat] /\ \A o \in Client : sent'[o] <= Len(Script[o])
  <2>1. sent' \in [Client -> Nat]
    BY <1>1 DEF Send
  <2>2. \A o \in Client : Len(Script[o]) \in Nat
    <3>1. \A o \in Client : Script[o] \in Seq([port : Served, method : Method])
      BY ZenonT(60), ScriptAssumption
    <3>2. QED
      BY Zenon, <3>1, LenProperties
  <2>3. sent'[c] <= Len(Script[c])
    BY <1>1, <1>4, <2>2
  <2>4. QED
    BY Zenon, <1>4, <2>1, <2>3 DEF WholeInv
<1>7. ClientInv(c)'
  <2>1. PICK n \in 0 .. sent[c] :
          \/ ~Receiving(c) /\ Received(c, n, 0)
          \/ /\ Receiving(c) /\ n < sent[c] /\ Received(c, n, 1)
             /\ map_base = [hi |-> Script[c][n + 1].port, msg |-> <<c, n + 1>>]
    BY Zenon DEF WholeInv, ClientInv
  <2>2. n \in 0 .. sent'[c]
    BY <1>1, <1>4
  <2>3. Receiving(c)' <=> Receiving(c)
    BY Zenon, <1>4 DEF Receiving
  <2>4. CASE Receiving(c)
    <3>1. Received(c, n, 1)'
      BY Zenon, <1>1, <1>2, <1>3, <1>4, <2>1, <2>4, ReceivedSent
    <3>2. n < sent'[c]
      BY <1>1, <1>4, <2>1, <2>4
    <3>3. QED
      BY Zenon, <1>4, <2>1, <2>2, <2>3, <2>4, <3>1, <3>2 DEF ClientInv
  <2>5. CASE ~Receiving(c)
    <3>0. Received(c, n, 0) /\ (0 = 1 => n < sent[c])
      BY <2>1, <2>5
    <3>1. Received(c, n, 0)'
      BY ZenonT(60), <1>1, <1>2, <1>3, <1>4, <3>0, ReceivedSent
    <3>2. QED
      BY Zenon, <2>2, <2>3, <2>5, <3>1 DEF ClientInv
  <2>6. QED
    BY Zenon, <2>4, <2>5
<1>8. ASSUME NEW o \in Client, o # c PROVE ClientInv(o)'
  <2>1. ClientInv(o) /\ (Receiving(o)' <=> Receiving(o))
    BY Zenon, <1>4 DEF WholeInv, Receiving
  <2>2. QED
    BY Zenon, <1>4, <1>8, <2>1, ClientStays
<1>9. CallsAreMessages'
  <2>1. \A o \in Client : sent[o] \in Nat /\ sent'[o] \in Nat
    BY Zenon, <1>1, <1>6
  <2>2. ASSUME NEW o \in Client PROVE sent[o] <= sent'[o]
    <3>1. sent'[o] = sent[o] \/ sent'[o] = sent[o] + 1
      BY Zenon, <1>4
    <3>2. QED
      BY <2>1, <3>1
  <2>3. CallsAreMessages
    BY Zenon DEF WholeInv
  <2>4. QED
    BY Zenon, <1>4, <2>1, <2>2, <2>3, CallsStay
<1>10. QED
  BY Zenon, <1>4, <1>5, <1>6, <1>7, <1>8, <1>9 DEF WholeInv, W

\* event_socket receives the first word of a message.
LEMMA WholeReceived ==
  ASSUME TableInv, WholeInv, dpc = "poll", UNCHANGED <<sent, calls, ends>>,
         NEW i \in Ready, stream[client_fd[i]] # <<>>,
         dpc' = "handler", indication_index' = i,
         map_base' = Head(stream[client_fd[i]]),
         stream' = [stream EXCEPT ![client_fd[i]] = Tail(@)],
         UNCHANGED <<link, client_fd, client_fd_number>>
  PROVE  WholeInv'
<1> DEFINE W == [hi : Served \cup Method \cup {0}, msg : Client \X Nat]
<1>2. PICK c : c = client_fd[i]
  BY Zenon
<1>3. c \in Client /\ i \in 1 .. client_fd_number
  BY <1>2 DEF Ready, TableInv
<1>4. /\ stream[c] # <<>> /\ map_base' = Head(stream[c])
      /\ stream' = [stream EXCEPT ![c] = Tail(@)]
      /\ UNCHANGED <<link, client_fd, client_fd_number>>
  BY <1>2
<1>5. stream \in [Client -> Seq(W)] /\ sent \in [Client -> Nat]
  BY Zenon DEF WholeInv
<1> HIDE DEF W
<1>6. stream'[c] = Tail(stream[c]) /\ \A o \in Client : o # c => stream'[o] = stream[o]
  BY Zenon, <1>3, <1>4, <1>5
<1>7. stream' \in [Client -> Seq(W)]
  <2>1. Tail(stream[c]) \in Seq(W)
    BY Zenon, <1>3, <1>4, <1>5, HeadTailProperties
  <2>2. QED
    BY ZenonT(60), <1>4, <1>5, <2>1
<1>8. \A o \in Client : ~Receiving(o) /\ (Receiving(o)' <=> o = c)
  BY Zenon, <1>2, <1>4 DEF Receiving
<1>9. ClientInv(c)'
  <2>1. PICK n \in 0 .. sent[c] : Received(c, n, 0)
    BY Zenon, <1>3, <1>8 DEF WholeInv, ClientInv
  <2>2. /\ n < sent[c] /\ Head(stream[c]) = send_mux(c, n + 1)[1] /\ Received(c, n, 1)'
    BY Zenon, <1>3, <1>4, <1>5, <1>6, <2>1, ReceivedFirst
  <2>3. Script[c] \in Seq([port : Served, method : Method]) /\ sent[c] <= Len(Script[c])
    BY Zenon, <1>3, ScriptAssumption DEF WholeInv
  <2>4. n + 1 \in 1 .. Len(Script[c])
    BY <1>3, <1>5, <2>2, <2>3, LenProperties
  <2>5. map_base' = [hi |-> Script[c][n + 1].port, msg |-> <<c, n + 1>>]
    BY ZenonT(60), <1>3, <1>4, <2>2, <2>4, MessageWords
  <2>6. n \in 0 .. sent'[c] /\ n < sent'[c] /\ Receiving(c)'
    BY Zenon, <1>3, <1>8, <2>2
  <2>7. QED
    BY ZenonT(60), <2>2, <2>5, <2>6 DEF ClientInv
<1>10. ASSUME NEW o \in Client, o # c PROVE ClientInv(o)'
  BY Zenon, <1>6, <1>8, <1>10, ClientStays DEF WholeInv
<1>11. CallsAreMessages'
  <2>1. \A o \in Client : sent[o] \in Nat /\ sent'[o] \in Nat /\ sent[o] <= sent'[o]
    BY <1>5
  <2>2. QED
    BY Zenon, <2>1, CallsStay DEF WholeInv
<1>12. QED
  BY ZenonT(60), <1>3, <1>4, <1>7, <1>9, <1>10, <1>11 DEF WholeInv, W

\* event_socket finds a readable connection, or only a backlog.
LEMMA WholeEvent ==
  ASSUME TableInv, WholeInv, event_socket, ends' = ends, ends \in Nat PROVE WholeInv'
<1> DEFINE W == [hi : Served \cup Method \cup {0}, msg : Client \X Nat]
<1>0. dpc = "poll" /\ UNCHANGED <<sent, calls>>
  BY Zenon DEF event_socket
<1>1. CASE Ready = {}
  BY Zenon, <1>0, <1>1, WholeRests DEF event_socket, WholeInv
<1>2. CASE Ready # {}
  <2>1. \E i \in Ready :
          \/ /\ stream[client_fd[i]] # <<>>
             /\ dpc' = "handler" /\ indication_index' = i
             /\ map_base' = Head(stream[client_fd[i]])
             /\ stream' = [stream EXCEPT ![client_fd[i]] = Tail(@)]
             /\ UNCHANGED <<link, client_fd, client_fd_number>>
          \/ ends' = ends + 1
          \/ /\ dpc' = "dead"
             /\ UNCHANGED <<link, stream, client_fd, client_fd_number>>
    BY Zenon, <1>2 DEF event_socket
  <2>2. ends' # ends + 1
    OBVIOUS
  <2>3. CASE dpc' = "dead" /\ UNCHANGED <<link, stream, client_fd, client_fd_number>>
    <3>1. dpc # "handler" /\ dpc' # "handler" /\ client_fd_number' = Len(client_fd')
      BY <1>0, <2>3 DEF WholeInv
    <3>2. link' \in [Client -> {"none", "up", "shut", "reset"}]
      BY Zenon, <2>3 DEF WholeInv
    <3>3. QED
      BY Zenon, <1>0, <2>3, <3>1, <3>2, WholeRests
  <2>4. CASE \E i \in Ready :
               /\ stream[client_fd[i]] # <<>>
               /\ dpc' = "handler" /\ indication_index' = i
               /\ map_base' = Head(stream[client_fd[i]])
               /\ stream' = [stream EXCEPT ![client_fd[i]] = Tail(@)]
               /\ UNCHANGED <<link, client_fd, client_fd_number>>
    BY Zenon, <1>0, <2>4, WholeReceived
  <2>5. QED
    BY Zenon, <2>1, <2>2, <2>3, <2>4
<1>3. QED
  BY Zenon, <1>1, <1>2

\* What portal_mux_handler does with the message that is being received: one call, and
\* the stream at the beginning of the next message.
LEMMA HandlerCalls ==
  ASSUME WholeInv, portal_mux_handler, NEW c \in Client, Receiving(c),
         NEW n \in 0 .. sent[c], n < sent[c], Received(c, n, 1),
         map_base = [hi |-> Script[c][n + 1].port, msg |-> <<c, n + 1>>]
  PROVE  /\ dpc' # "handler"
         /\ UNCHANGED <<link, sent, client_fd, client_fd_number, ends>>
         /\ stream' = [stream EXCEPT ![c] = Tail(Tail(@))]
         /\ calls' = Append(calls, [port |-> Script[c][n + 1].port,
                                    method |-> Script[c][n + 1].method, msg |-> <<c, n + 1>>])
<1> DEFINE W == [hi : Served \cup Method \cup {0}, msg : Client \X Nat]
<1>1. /\ sent \in [Client -> Nat] /\ sent[c] \in Nat /\ sent[c] <= Len(Script[c])
      /\ stream[c] \in Seq(W) /\ link[c] # "gone"
  BY Zenon DEF WholeInv
<1>2. n + 1 \in 1 .. Len(Script[c])
  <2>1. Script[c] \in Seq([port : Served, method : Method])
    BY ZenonT(60), ScriptAssumption
  <2>2. Len(Script[c]) \in Nat
    BY Zenon, <2>1, LenProperties
  <2>3. n \in Nat /\ sent[c] \in Nat /\ n < sent[c] /\ sent[c] <= Len(Script[c])
    BY <1>1
  <2>4. QED
    BY <2>2, <2>3
<1> HIDE DEF W
<1>3. PICK p, x, e, f :
        /\ p = Script[c][n + 1].port /\ x = Script[c][n + 1].method
        /\ e = [hi |-> x, msg |-> <<c, n + 1>>] /\ f = [hi |-> 0, msg |-> <<c, n + 1>>]
  BY ZenonT(60)
<1>4. /\ stream[c] # <<>> /\ Head(stream[c]) = e
      /\ Tail(stream[c]) # <<>> /\ Head(Tail(stream[c])) = f
      /\ p \in Served /\ x \in Method /\ map_base.hi = p
  <2>1. /\ p \in Served /\ x \in Method /\ send_mux(c, n + 1)[2] = e /\ send_mux(c, n + 1)[3] = f
    BY Zenon, <1>2, <1>3, MessageWords
  <2>2. /\ stream[c] # <<>> /\ Head(stream[c]) = send_mux(c, n + 1)[2]
        /\ Tail(stream[c]) # <<>> /\ Head(Tail(stream[c])) = send_mux(c, n + 1)[3]
    BY ZenonT(60), <1>1, ReceivedRest
  <2>3. QED
    BY Zenon, <1>3, <2>1, <2>2
<1>5. PICK b1, b2 :
        /\ b1 = portalRecvFd(inner[p], stream[c])
        /\ b2 = portalRecvFd(arg[p], Tail(stream[c]))
  BY Zenon
<1>6. b1.buffer = e /\ b1.words = Tail(stream[c]) /\ b2.buffer = f /\ b2.words = Tail(Tail(stream[c]))
  BY Zenon, <1>4, <1>5 DEF portalRecvFd
<1>7. e.hi = x /\ f.msg = <<c, n + 1>>
  BY Zenon, <1>3
<1>8. client_fd[indication_index] = c
  BY Zenon DEF Receiving
<1>9. /\ stream' = [stream EXCEPT ![c] = b2.words]
      /\ calls' = Append(calls, [port |-> p, method |-> b1.buffer.hi, msg |-> b2.buffer.msg])
      /\ dpc' # "handler"
      /\ UNCHANGED <<link, sent, client_fd, client_fd_number, ends>>
  <2>1. p \in Port
    BY Zenon, <1>4, ScriptAssumption
  <2>2. UNCHANGED <<sent, client_fd, client_fd_number, ends>>
    BY Zenon DEF portal_mux_handler, fdVars
  <2>3. /\ stream' = [stream EXCEPT ![c] = b2.words]
        /\ calls' = Append(calls, [port |-> p, method |-> b1.buffer.hi, msg |-> b2.buffer.msg])
        /\ dpc' = "reply" \/ dpc' = "accept"
        /\ link' = IF link[c] = "reset" /\ b1.words = <<>> THEN [link EXCEPT ![c] = "shut"] ELSE link
    BY ZenonT(60), <1>1, <1>4, <1>5, <1>6, <1>7, <1>8, <2>1 DEF portal_mux_handler
  <2>4. dpc' # "handler" /\ link' = link
    BY <1>4, <1>6, <2>3
  <2>5. QED
    BY Zenon, <2>2, <2>3, <2>4
<1>10. QED
  BY Zenon, <1>3, <1>6, <1>7, <1>9

\* The call is for the message, and for none that was handled before.
LEMMA CallAppended ==
  ASSUME CallsAreMessages, NEW R, calls \in Seq(R), NEW c \in Client, NEW n \in Nat,
         UNCHANGED <<sent, ends>>, sent[c] \in Nat, n < sent[c],
         \A i \in DOMAIN calls : calls[i].msg[1] = c => calls[i].msg[2] <= n,
         \A l \in 1 .. n : \E i \in DOMAIN calls : calls[i].msg = <<c, l>>,
         \A i \in DOMAIN calls : calls[i].msg[1] = c => calls[i].msg[2] \in Nat,
         NEW a \in R,
         a = [port |-> Script[c][n + 1].port,
              method |-> Script[c][n + 1].method, msg |-> <<c, n + 1>>],
         calls' = Append(calls, a)
  PROVE  CallsAreMessages'
<1>1. PICK k : k = Len(calls)
  BY ZenonT(60)
<1>2. /\ k \in Nat /\ DOMAIN calls = 1 .. k /\ DOMAIN calls' = 1 .. k + 1
      /\ calls'[k + 1] = a /\ \A i \in 1 .. k : calls'[i] = calls[i]
  <2>1. k \in Nat /\ DOMAIN calls = 1 .. k
    BY Zenon, <1>1, LenProperties
  <2>2. /\ Len(calls') = Len(calls) + 1 /\ calls'[Len(calls) + 1] = a
        /\ \A i \in 1 .. Len(calls) : calls'[i] = calls[i]
        /\ calls' \in Seq(R)
    BY AppendProperties
  <2>3. DOMAIN calls' = 1 .. Len(calls')
    BY Zenon, <2>2, LenProperties
  <2>4. QED
    BY Zenon, <1>1, <2>1, <2>2, <2>3
<1> SUFFICES ASSUME ends = 0, NEW i \in 1 .. k + 1
             PROVE  \E o \in Client : \E l \in 1 .. sent[o] : IsCallFor(i, o, l)'
  BY Zenon, <1>2 DEF CallsAreMessages
<1>3. CASE i \in 1 .. k
  <2>1. PICK o \in Client : \E l \in 1 .. sent[o] : IsCallFor(i, o, l)
    BY ZenonT(60), <1>2, <1>3 DEF CallsAreMessages
  <2>2. PICK l \in 1 .. sent[o] : IsCallFor(i, o, l)
    BY Zenon, <2>1
  <2>3. 1 .. i - 1 \subseteq 1 .. k
    BY <1>2, <1>3
  <2>4. \A j \in 1 .. i - 1 : calls'[j] = calls[j]
    BY Zenon, <1>2, <2>3
  <2>5. IsCallFor(i, o, l)'
    BY ZenonT(60), <1>2, <1>3, <2>2, <2>4 DEF IsCallFor
  <2>6. QED
    BY Zenon, <2>5
<1>4. CASE i = k + 1
  <2>0. 1 .. i - 1 = 1 .. k
    BY <1>2, <1>4
  <2>1. \A j \in 1 .. i - 1 : calls'[j].msg[1] = c => calls'[j].msg[2] < n + 1
    <3> SUFFICES ASSUME NEW j \in 1 .. k, calls[j].msg[1] = c PROVE calls[j].msg[2] < n + 1
      BY Zenon, <1>2, <2>0
    <3>1. calls[j].msg[2] <= n /\ calls[j].msg[2] \in Nat
      BY Zenon, <1>2
    <3>2. QED
      BY <3>1
  <2>2. \A l \in 1 .. (n + 1) - 1 : \E j \in 1 .. i - 1 : calls'[j].msg = <<c, l>>
    <3>1. 1 .. (n + 1) - 1 = 1 .. n
      OBVIOUS
    <3>2. QED
      BY ZenonT(60), <1>2, <2>0, <3>1
  <2>3. IsCallFor(i, c, n + 1)'
    BY ZenonT(60), <1>2, <1>4, <2>1, <2>2 DEF IsCallFor
  <2>4. n + 1 \in 1 .. sent[c]
    OBVIOUS
  <2>5. QED
    BY Zenon, <2>3, <2>4
<1>5. i \in 1 .. k \/ i = k + 1
  BY <1>2
<1>6. QED
  BY ZenonT(60), <1>3, <1>4, <1>5

\* The client whose message was handled has received one more.
LEMMA ReceivedCall ==
  ASSUME NEW W, NEW c \in Client, stream[c] \in Seq(W), NEW R, calls \in Seq(R),
         sent[c] \in Nat, NEW n \in 0 .. sent[c], n < sent[c], Received(c, n, 1),
         \A i \in DOMAIN calls : calls[i].msg[1] = c => calls[i].msg[2] \in Nat,
         NEW a \in R, a.msg = <<c, n + 1>>, calls' = Append(calls, a),
         stream'[c] = Tail(Tail(stream[c])), sent'[c] = sent[c]
  PROVE  Received(c, n + 1, 0)'
<1>1. PICK k, s, q : k = Len(calls) /\ s = Tail(Tail(stream[c])) /\ q = sent[c]
  BY ZenonT(60)
<1>2. /\ k \in Nat /\ DOMAIN calls = 1 .. k /\ DOMAIN calls' = 1 .. k + 1
      /\ calls'[k + 1] = a /\ \A i \in 1 .. k : calls'[i] = calls[i]
  <2>1. k \in Nat /\ DOMAIN calls = 1 .. k
    BY Zenon, <1>1, LenProperties
  <2>2. /\ Len(calls') = Len(calls) + 1 /\ calls'[Len(calls) + 1] = a
        /\ \A i \in 1 .. Len(calls) : calls'[i] = calls[i]
        /\ calls' \in Seq(R)
    BY AppendProperties
  <2>3. DOMAIN calls' = 1 .. Len(calls')
    BY Zenon, <2>2, LenProperties
  <2>4. QED
    BY Zenon, <1>1, <2>1, <2>2, <2>3
<1>3. \A i \in DOMAIN calls' : calls'[i].msg[1] = c => calls'[i].msg[2] <= n + 1
  <2> SUFFICES ASSUME NEW i \in 1 .. k + 1, calls'[i].msg[1] = c
               PROVE  calls'[i].msg[2] <= n + 1
    BY Zenon, <1>2
  <2>1. CASE i \in 1 .. k
    <3>1. calls[i].msg[2] \in Nat /\ calls[i].msg[2] <= n
      BY Zenon, <1>2, <2>1 DEF Received
    <3>2. calls'[i] = calls[i]
      BY Zenon, <1>2, <2>1
    <3>3. QED
      BY <3>1, <3>2
  <2>2. CASE i = k + 1
    <3>1. calls'[i].msg[2] = n + 1
      BY <1>2, <2>2
    <3>2. QED
      BY <3>1
  <2>3. QED
    BY <1>2, <2>1, <2>2
<1>4. \A l \in 1 .. n + 1 : \E i \in DOMAIN calls' : calls'[i].msg = <<c, l>>
  <2> SUFFICES ASSUME NEW l \in 1 .. n + 1 PROVE \E i \in 1 .. k + 1 : calls'[i].msg = <<c, l>>
    BY Zenon, <1>2
  <2>1. CASE l \in 1 .. n
    <3>1. PICK i \in 1 .. k : calls[i].msg = <<c, l>>
      BY Zenon, <1>2, <2>1 DEF Received
    <3>2. i \in 1 .. k + 1
      BY <1>2
    <3>3. QED
      BY Zenon, <1>2, <3>1, <3>2
  <2>2. CASE l = n + 1
    <3>1. k + 1 \in 1 .. k + 1
      BY <1>2
    <3>2. QED
      BY Zenon, <1>2, <2>2, <3>1
  <2>3. n \in Nat
    OBVIOUS
  <2>4. l \in 1 .. n \/ l = n + 1
    BY <2>3
  <2>5. QED
    BY Zenon, <2>1, <2>2, <2>4
<1>5. /\ Len(s) = 3 * (q - (n + 1))
      /\ \A m \in n + 2 .. q : \A j \in 1 .. 3 :
           s[3 * (m - (n + 1) - 1) + j] = send_mux(c, m)[j]
  BY ZenonT(60), <1>1, ReceivedRest
<1>6. Len(s) = 3 * (q - (n + 1)) - 0
  <2>1. q \in Nat /\ n \in Nat
    BY <1>1
  <2>2. 3 * (q - (n + 1)) - 0 = 3 * (q - (n + 1))
    BY <2>1
  <2>3. QED
    BY Zenon, <1>5, <2>2
<1>7. \A m \in (n + 1) + 1 .. q : \A j \in 1 .. 3 :
        3 * (m - (n + 1) - 1) + j > 0 =>
          s[3 * (m - (n + 1) - 1) + j - 0] = send_mux(c, m)[j]
  <2> SUFFICES ASSUME NEW m \in (n + 1) + 1 .. q, NEW j \in 1 .. 3
               PROVE  s[3 * (m - (n + 1) - 1) + j - 0] = send_mux(c, m)[j]
    BY Zenon
  <2>1. m \in n + 2 .. q
    BY <1>1
  <2>2. s[3 * (m - (n + 1) - 1) + j] = send_mux(c, m)[j]
    BY ZenonT(60), <1>5, <2>1
  <2>3. 3 * (m - (n + 1) - 1) + j - 0 = 3 * (m - (n + 1) - 1) + j
    BY <1>1
  <2>4. QED
    BY Zenon, <2>2, <2>3
<1>8. stream'[c] = s /\ sent'[c] = q
  BY Zenon, <1>1
<1>9. QED
  BY ZenonT(60), <1>3, <1>4, <1>6, <1>7, <1>8 DEF Received, send_mux

\* The other clients have received what they had.
LEMMA ReceivedOther ==
  ASSUME NEW c \in Client, NEW o \in Client, o # c, NEW R, calls \in Seq(R), NEW n, NEW l,
         NEW a \in R, a.msg = <<c, n>>, calls' = Append(calls, a),
         stream'[o] = stream[o], sent'[o] = sent[o], Received(o, l, 0)
  PROVE  Received(o, l, 0)'
<1>1. PICK k : k = Len(calls)
  BY Zenon
<1>2. /\ k \in Nat /\ DOMAIN calls = 1 .. k /\ DOMAIN calls' = 1 .. k + 1
      /\ calls'[k + 1] = a /\ \A i \in 1 .. k : calls'[i] = calls[i]
  <2>1. k \in Nat /\ DOMAIN calls = 1 .. k
    BY Zenon, <1>1, LenProperties
  <2>2. /\ Len(calls') = Len(calls) + 1 /\ calls'[Len(calls) + 1] = a
        /\ \A i \in 1 .. Len(calls) : calls'[i] = calls[i]
        /\ calls' \in Seq(R)
    BY AppendProperties
  <2>3. DOMAIN calls' = 1 .. Len(calls')
    BY Zenon, <2>2, LenProperties
  <2>4. QED
    BY Zenon, <1>1, <2>1, <2>2, <2>3
<1>3. \A i \in 1 .. k + 1 : i \in 1 .. k \/ i = k + 1
  BY <1>2
<1>4. calls'[k + 1].msg[1] # o
  BY <1>2
<1>5. \A i \in DOMAIN calls' : calls'[i].msg[1] = o => calls'[i].msg[2] <= l
  <2> SUFFICES ASSUME NEW i \in 1 .. k + 1, calls'[i].msg[1] = o PROVE calls'[i].msg[2] <= l
    BY Zenon, <1>2
  <2>1. i \in 1 .. k
    BY Zenon, <1>3, <1>4
  <2>2. calls[i].msg[1] = o => calls[i].msg[2] <= l
    BY Zenon, <1>2, <2>1 DEF Received
  <2>3. QED
    BY Zenon, <1>2, <2>1, <2>2
<1>6. ASSUME NEW g \in 1 .. l PROVE \E i \in DOMAIN calls' : calls'[i].msg = <<o, g>>
  <2>1. PICK i \in 1 .. k : calls[i].msg = <<o, g>>
    BY Zenon, <1>2 DEF Received
  <2>2. i \in 1 .. k + 1
    BY <1>2
  <2>3. QED
    BY Zenon, <1>2, <2>1, <2>2
<1>7. QED
  BY ZenonT(60), <1>5, <1>6 DEF Received, send_mux

\* portal_mux_handler, of a message.
LEMMA WholeHandled ==
  ASSUME TableInv, WholeInv, portal_mux_handler PROVE WholeInv'
<1> DEFINE W == [hi : Served \cup Method \cup {0}, msg : Client \X Nat]
           R == [port : Served, method : Method, msg : Client \X Nat]
<1>1. PICK c \in Client : Receiving(c)
  <2>1. dpc = "handler" /\ indication_index \in 1 .. client_fd_number
    BY Zenon DEF WholeInv, portal_mux_handler
  <2>2. client_fd[indication_index] \in Client
    BY <2>1 DEF TableInv
  <2>3. QED
    BY Zenon, <2>1, <2>2 DEF Receiving
<1>2. PICK n \in 0 .. sent[c] :
        /\ n < sent[c] /\ Received(c, n, 1)
        /\ map_base = [hi |-> Script[c][n + 1].port, msg |-> <<c, n + 1>>]
  BY ZenonT(60), <1>1 DEF WholeInv, ClientInv
<1>3. PICK a : a = [port |-> Script[c][n + 1].port,
                    method |-> Script[c][n + 1].method, msg |-> <<c, n + 1>>]
  BY Zenon
<1>4. /\ dpc' # "handler"
      /\ UNCHANGED <<link, sent, client_fd, client_fd_number, ends>>
      /\ stream' = [stream EXCEPT ![c] = Tail(Tail(@))]
      /\ calls' = Append(calls, a)
  BY Zenon, <1>1, <1>2, <1>3, HandlerCalls
<1>5. /\ sent \in [Client -> Nat] /\ sent[c] \in Nat /\ n \in Nat /\ sent[c] <= Len(Script[c])
      /\ stream \in [Client -> Seq(W)] /\ stream[c] \in Seq(W) /\ calls \in Seq(R)
  <2>1. sent \in [Client -> Nat] /\ sent[c] <= Len(Script[c]) /\ stream \in [Client -> Seq(W)]
    BY ZenonT(60) DEF WholeInv
  <2>2. calls \in Seq(R)
    BY Zenon DEF WholeInv
  <2>3. sent[c] \in Nat
    BY Zenon, <2>1
  <2>4. n \in Nat
    BY <2>3
  <2>5. stream[c] \in Seq(W)
    BY ZenonT(60), <2>1
  <2>6. QED
    BY Zenon, <2>1, <2>2, <2>3, <2>4, <2>5
<1>6. a \in R
  <2>1. Script[c] \in Seq([port : Served, method : Method])
    BY ZenonT(60), ScriptAssumption
  <2>2. Len(Script[c]) \in Nat
    BY Zenon, <2>1, LenProperties
  <2>0. n \in Nat /\ sent[c] \in Nat /\ n < sent[c] /\ sent[c] <= Len(Script[c])
    BY Zenon, <1>2, <1>5
  <2>3. n + 1 \in 1 .. Len(Script[c]) /\ n + 1 \in Nat
    BY <2>0, <2>2
  <2>4. Script[c][n + 1].port \in Served /\ Script[c][n + 1].method \in Method
    BY ZenonT(60), <2>3, MessageWords
  <2>5. QED
    BY Zenon, <1>3, <2>3, <2>4
<1>7. ASSUME NEW i \in DOMAIN calls PROVE calls[i].msg[1] \in Client /\ calls[i].msg[2] \in Nat
  <2>0. ASSUME NEW S, NEW s \in Seq(S), NEW j \in DOMAIN s PROVE s[j] \in S
    BY Zenon, <2>0, LenProperties, ElementOfSeq
  <2>1. calls[i] \in R
    BY Zenon, <1>5, <2>0
  <2>2. QED
    BY Zenon, <2>1
<1> HIDE DEF W, R
<1>8. a.msg = <<c, n + 1>>
  BY Zenon, <1>3
<1>9. /\ stream'[c] = Tail(Tail(stream[c])) /\ \A o \in Client : o # c => stream'[o] = stream[o]
      /\ stream' \in [Client -> Seq(W)]
  <2>1. Tail(Tail(stream[c])) \in Seq(W)
    BY ZenonT(60), <1>2, <1>5, ReceivedRest
  <2>2. QED
    BY Zenon, <1>4, <1>5, <2>1
<1>10. calls' \in Seq(R)
  BY Zenon, <1>4, <1>5, <1>6, AppendProperties
<1>11. CallsAreMessages'
  <2>1. /\ \A i \in DOMAIN calls : calls[i].msg[1] = c => calls[i].msg[2] <= n
        /\ \A l \in 1 .. n : \E i \in DOMAIN calls : calls[i].msg = <<c, l>>
    BY ZenonT(60), <1>2 DEF Received
  <2>2. CallsAreMessages
    BY Zenon DEF WholeInv
  <2>3. QED
    <3>1. \A i \in DOMAIN calls : calls[i].msg[1] = c => calls[i].msg[2] \in Nat
      BY Zenon, <1>7
    <3>2. UNCHANGED <<sent, ends>> /\ calls' = Append(calls, a) /\ n < sent[c]
      BY Zenon, <1>2, <1>4
    <3>3. QED
      BY ZenonT(60), <1>3, <1>5, <1>6, <2>1, <2>2, <3>1, <3>2, CallAppended
<1>12. \A o \in Client : ~Receiving(o)'
  BY ZenonT(60), <1>4 DEF Receiving
<1>13. ClientInv(c)'
  <2>0. n \in Nat /\ sent[c] \in Nat /\ n < sent[c] /\ sent'[c] = sent[c]
    BY Zenon, <1>2, <1>4, <1>5
  <2>1. Received(c, n + 1, 0)'
    BY ZenonT(60), <1>2, <1>4, <1>5, <1>6, <1>7, <1>8, <1>9, ReceivedCall
  <2>2. n + 1 \in 0 .. sent'[c]
    BY <2>0
  <2>3. QED
    BY Zenon, <1>12, <2>1, <2>2 DEF ClientInv
<1>14. ASSUME NEW o \in Client, o # c PROVE ClientInv(o)'
  <2>1. ~Receiving(o)
    BY Zenon, <1>1, <1>14 DEF Receiving
  <2>2. PICK l \in 0 .. sent[o] : Received(o, l, 0)
    BY Zenon, <2>1 DEF WholeInv, ClientInv
  <2>3. Received(o, l, 0)'
    BY ZenonT(60), <1>4, <1>5, <1>6, <1>8, <1>9, <1>14, <2>2, ReceivedOther
  <2>4. QED
    BY Zenon, <1>4, <1>12, <2>2, <2>3 DEF ClientInv
<1>15. QED
  BY ZenonT(60), <1>4, <1>9, <1>10, <1>11, <1>13, <1>14 DEF WholeInv, W, R

LEMMA WholeStep ==
  ASSUME SocketInv, [SocketNext]_socketVars, ends' = 0 PROVE WholeInv'
<1>0. ends \in Nat /\ TableInv
  BY Zenon DEF SocketInv
<1>1. CASE UNCHANGED socketVars
  <2>1. WholeInv
    BY Zenon, <1>1 DEF SocketInv, socketVars, endVars
  <2>2. UNCHANGED <<sent, stream, calls, ends, link, dpc, client_fd, client_fd_number,
                    indication_index, map_base>>
    BY Zenon, <1>1 DEF socketVars, clientVars, fdVars, bufferVars, endVars
  <2>3. QED
    BY Zenon, <2>1, <2>2, WholeRests DEF WholeInv
<1>2. ASSUME NEW c \in Client, init_connecting(c) \/ Leave(c) PROVE WholeInv'
  <2>1. WholeInv
    BY Zenon, <1>2 DEF SocketInv, init_connecting, Leave, endVars
  <2>2. link' \in [Client -> {"none", "up", "shut", "reset"}]
    BY Zenon, <1>2, <2>1 DEF init_connecting, Leave, WholeInv
  <2>3. UNCHANGED <<sent, stream, calls, ends, dpc, client_fd, client_fd_number,
                    indication_index, map_base>>
    BY Zenon, <1>2 DEF init_connecting, Leave, fdVars, bufferVars, endVars
  <2>4. QED
    BY Zenon, <2>1, <2>2, <2>3, WholeRests DEF WholeInv
<1>3. ASSUME NEW c \in Client, Send(c) PROVE WholeInv'
  BY ZenonT(60), <1>3, WholeSent DEF SocketInv, Send, endVars
<1>4. CASE event_socket
  <2>1. ends' = ends \/ ends' = ends + 1
    BY Zenon, <1>4 DEF event_socket
  <2>2. ends' = ends
    BY <1>0, <2>1
  <2>3. QED
    BY Zenon, <1>0, <1>4, <2>2, WholeEvent DEF SocketInv
<1>5. CASE portal_mux_handler
  BY ZenonT(60), <1>0, <1>5, WholeHandled DEF SocketInv, portal_mux_handler
<1>6. CASE send_socket \/ accept_socket
  <2>1. /\ dpc # "handler" /\ dpc' # "handler"
        /\ UNCHANGED <<link, sent, stream, calls, ends>>
        /\ \/ UNCHANGED fdVars
           \/ backlog # <<>> /\ AcceptFirst
    BY Zenon, <1>6 DEF send_socket, accept_socket, endVars
  <2>2. WholeInv
    BY Zenon, <2>1 DEF SocketInv
  <2>3. client_fd_number' = Len(client_fd')
    <3>1. client_fd_number = Len(client_fd)
      BY Zenon, <2>2 DEF WholeInv
    <3>2. CASE UNCHANGED fdVars
      BY Zenon, <3>1, <3>2 DEF fdVars
    <3>3. CASE backlog # <<>> /\ AcceptFirst
      BY Zenon, <1>0, <3>1, <3>3, Accepted
    <3>4. QED
      BY Zenon, <2>1, <3>2, <3>3
  <2>4. QED
    BY ZenonT(60), <2>1, <2>2, <2>3, WholeRests DEF WholeInv
<1>7. QED
  BY Zenon, <1>1, <1>2, <1>3, <1>4, <1>5, <1>6 DEF SocketNext, Daemon

LEMMA SocketStarts == SocketInit => SocketInv
<1> SUFFICES ASSUME SocketInit PROVE SocketInv
  BY Zenon
<1> USE DEF SocketInit
<1>1. TableInv
  BY DEF TableInv, TablePolled
<1>2. ASSUME NEW c \in Client PROVE ClientInv(c)
  <2>1. Received(c, 0, 0) /\ ~Receiving(c)
    BY DEF Received, Receiving
  <2>2. 0 \in 0 .. sent[c]
    OBVIOUS
  <2>3. QED
    BY Zenon, <2>1, <2>2 DEF ClientInv
<1>3. CallsAreMessages
  BY DEF CallsAreMessages
<1>4. \A c \in Client : sent[c] <= Len(Script[c])
  <2>1. \A c \in Client : Script[c] \in Seq([port : Served, method : Method])
    BY ZenonT(60), ScriptAssumption
  <2>2. \A c \in Client : Len(Script[c]) \in Nat
    BY Zenon, <2>1, LenProperties
  <2>3. QED
    BY <2>2
<1>5. QED
  BY <1>1, <1>2, <1>3, <1>4 DEF SocketInv, WholeInv

LEMMA SocketKept == SocketSpec => []SocketInv
<1>1. ASSUME SocketInv, [SocketNext]_socketVars PROVE SocketInv'
  <2>1. TableInv'
    BY Zenon, <1>1, TableStep DEF SocketInv
  <2>2. ends' = 0 => WholeInv'
    BY Zenon, <1>1, WholeStep
  <2>3. ends' \in Nat
    <3>1. ends' = ends \/ ends' = ends + 1
      BY ZenonT(60), <1>1 DEF SocketNext, socketVars, Daemon, init_connecting, Send, Leave,
                  event_socket, portal_mux_handler, send_socket, accept_socket, endVars
    <3>2. QED
      BY <1>1, <3>1 DEF SocketInv
  <2>4. QED
    BY Zenon, <2>1, <2>2, <2>3 DEF SocketInv
<1>2. QED
  BY SocketStarts, <1>1, PTL DEF SocketSpec

\* For any clients, portals and scripts, in any order of sending, leaving, receiving
\* and accepting: until the daemon meets its first end of file, the calls event_socket
\* and portal_mux_handler make are the clients' messages, whole, in order and once.
THEOREM CallsAreOfMessages == SocketSpec => []CallsAreMessages
<1>1. SocketInv => CallsAreMessages
  BY Zenon DEF SocketInv, WholeInv, CallsAreMessages
<1>2. QED
  BY SocketKept, <1>1, PTL

\* And whatever was closed and accepted in between, the poller waits for every
\* connection in the daemon's table (addFdToPoller).
THEOREM TableIsPolled == SocketSpec => []TablePolled
<1>1. SocketInv => TablePolled
  BY Zenon DEF SocketInv, TableInv
<1>2. QED
  BY SocketKept, <1>1, PTL

-----------------------------------------------------------------------------
\* The link to the simulator.

\* A thread in the loop of read_portal_bsim, and where the request or the answer it
\* waits for can be.
Reading(p, t) == step[p][t] \in {"reg", "status", "take"}
Asked(p) == {i \in DOMAIN requests[p] : ~requests[p][i].write}
AtHead(p) == head.valid /\ head.proc = p /\ ~head.req.write
Answers(p) == {i \in DOMAIN responses[p] : responses[p][i].kind = "answer"}

Register == {"reg", "status", "fifo", "enable"}
RequestType == [by : Thread, write : BOOLEAN, reg : Register]
MessageType == [kind : {"interrupt", "answer"}, by : Thread \cup {"none"}, value : Int]

Place == {"start", "ready", "reg", "check", "status", "handler", "take", "enableint"}

LinkTypes ==
  /\ requests \in [Proc -> Seq(RequestType)]
  /\ responses \in [Proc -> Seq(MessageType)]
  /\ mutex \in [Proc -> Thread \cup {"none"}]
  /\ step \in [Proc -> [Thread -> Place]]
  /\ shared_response \in [Proc -> MessageType \cup {NoAnswer}]
  /\ shared_response_valid \in [Proc -> BOOLEAN]
  /\ fd_array \in Seq(Proc)
  /\ head \in [valid : BOOLEAN, inflight : BOOLEAN, proc : Proc,
               req : RequestType \cup {NoRequest}]
  /\ pending \in [Proc -> Int]

\* Only the owner of socket_mutex is in the loop.
LockInv(p) == \A t \in Thread : Reading(p, t) <=> mutex[p] = t

\* What it waits for is its own,
OwnInv(p) ==
  /\ \A i \in Asked(p) : requests[p][i].by = mutex[p]
  /\ AtHead(p) => mutex[p] \in Thread /\ head.req.by = mutex[p]
  /\ \A i \in Answers(p) : mutex[p] \in Thread /\ responses[p][i].by = mutex[p]
  /\ shared_response_valid[p] => mutex[p] \in Thread /\ shared_response[p].by = mutex[p]

\* and is in one place.
OnceInv(p) ==
  /\ \A i, j \in Asked(p) : i = j
  /\ \A i, j \in Answers(p) : i = j
  /\ AtHead(p) => Asked(p) = {}
  /\ Answers(p) # {} => Asked(p) = {} /\ ~AtHead(p)
  /\ shared_response_valid[p] => Asked(p) = {} /\ ~AtHead(p) /\ Answers(p) = {}

LinkInv ==
  /\ LinkTypes
  /\ head.valid /\ ~head.inflight => ~head.req.write
  /\ \A p \in Proc : LockInv(p) /\ OwnInv(p) /\ OnceInv(p)

-----------------------------------------------------------------------------
\* The indices of a sequence that grew by an element.
LEMMA Grown ==
  ASSUME NEW S, NEW s \in Seq(S), NEW e \in S
  PROVE  /\ Append(s, e) \in Seq(S)
         /\ Len(s) + 1 \notin DOMAIN s
         /\ DOMAIN Append(s, e) = DOMAIN s \cup {Len(s) + 1}
         /\ \A i \in DOMAIN s : Append(s, e)[i] = s[i]
         /\ Append(s, e)[Len(s) + 1] = e
<1>1. Append(s, e) \in Seq(S) /\ Len(Append(s, e)) = Len(s) + 1 /\ Len(s) \in Nat
  BY AppendProperties
<1>2. DOMAIN s = 1 .. Len(s) /\ DOMAIN Append(s, e) = 1 .. Len(s) + 1
  BY <1>1
<1>3. QED
  BY <1>1, <1>2, AppendProperties

\* And of one that lost its first.
LEMMA Shrunk ==
  ASSUME NEW S, NEW s \in Seq(S), s # <<>>
  PROVE  /\ Tail(s) \in Seq(S) /\ Head(s) \in S
         /\ 1 \in DOMAIN s /\ s[1] = Head(s)
         /\ \A i \in DOMAIN Tail(s) : i \in Nat /\ i + 1 \in DOMAIN s /\ i + 1 # 1 /\ Tail(s)[i] = s[i + 1]
<1>1. Tail(s) \in Seq(S) /\ Head(s) \in S /\ Len(Tail(s)) = Len(s) - 1 /\ Len(s) \in Nat
  BY HeadTailProperties
<1>2. DOMAIN s = 1 .. Len(s) /\ DOMAIN Tail(s) = 1 .. Len(s) - 1 /\ Len(s) # 0
  BY <1>1
<1>3. QED
  BY <1>1, <1>2, HeadTailProperties

\* checkForRequest takes the request of a connected program that has one.
LEMMA FirstWaiting ==
  ASSUME LinkTypes, Waiting # {}
  PROVE  LET p == fd_array[CHOOSE i \in Waiting : \A j \in Waiting : i <= j]
         IN  p \in Proc /\ p \in Range(fd_array) /\ requests[p] # <<>>
<1>1. Waiting \subseteq DOMAIN fd_array /\ DOMAIN fd_array \subseteq Nat
  <2>1. Waiting \subseteq DOMAIN fd_array
    BY Zenon DEF Waiting
  <2>2. fd_array \in Seq(Proc)
    BY Zenon DEF LinkTypes
  <2>3. DOMAIN fd_array \subseteq Nat
    BY <2>2
  <2>4. QED
    BY Zenon, <2>1, <2>3
<1>2. PICK R : R = {ss \in Nat \X Nat : ss[1] < ss[2]} /\ IsWellFoundedOn(R, Nat)
  BY NatLessThanWellFounded, Zenon DEF OpToRel
<1>3. PICK i \in Waiting : \A j \in Waiting : i <= j
  <2>1. PICK i \in Waiting : \A j \in Waiting : ~(<<j, i>> \in R)
    BY Zenon, <1>1, <1>2, WFMin
  <2>2. \A j \in Waiting : <<j, i>> \in R <=> j < i
    BY Zenon, <1>1, <1>2
  <2>3. i \in Nat /\ \A j \in Waiting : j \in Nat /\ ~(j < i)
    BY Zenon, <1>1, <2>1, <2>2
  <2>4. \A j \in Waiting : i <= j
    BY <2>3
  <2>5. QED
    BY Zenon, <2>4
<1>4. (CHOOSE k \in Waiting : \A j \in Waiting : k <= j) \in Waiting
  BY Zenon, <1>3
<1>5. \A k \in DOMAIN fd_array : fd_array[k] \in Range(fd_array)
  BY Zenon DEF Range
<1>6. QED
  BY <1>1, <1>4, <1>5 DEF Waiting, LinkTypes

-----------------------------------------------------------------------------
ProgramInv(p) == LockInv(p) /\ OwnInv(p) /\ OnceInv(p)

\* A step that leaves a program and what is its alone.
LEMMA Untouched ==
  ASSUME NEW p \in Proc, ProgramInv(p),
         requests'[p] = requests[p], responses'[p] = responses[p],
         AtHead(p)' <=> AtHead(p), AtHead(p) => head'.req = head.req,
         mutex'[p] = mutex[p], step'[p] = step[p],
         shared_response'[p] = shared_response[p],
         shared_response_valid'[p] = shared_response_valid[p]
  PROVE  ProgramInv(p)'
BY DEF ProgramInv, LockInv, OwnInv, OnceInv, Reading, Asked, Answers

LEMMA InitLink == ASSUME Proc # {}, SimInit PROVE LinkInv
<1>1. LinkTypes
  BY DEF SimInit, LinkTypes, NoAnswer, NoRequest, Place
<1>2. \A p \in Proc : ProgramInv(p)
  BY DEF SimInit, ProgramInv, LockInv, OwnInv, OnceInv, Reading, Asked, Answers, AtHead, Thread
<1>3. QED
  BY Zenon, <1>1, <1>2 DEF LinkInv, ProgramInv, SimInit

-----------------------------------------------------------------------------
\* A request joins those on the way.
LEMMA RequestSent ==
  ASSUME LinkInv, NEW p \in Proc, NEW t \in Thread, NEW w \in BOOLEAN, NEW r \in Register,
         Request(p, t, w, r)
  PROVE  /\ requests' \in [Proc -> Seq(RequestType)]
         /\ \A o \in Proc : o # p => requests'[o] = requests[o]
         /\ \A i \in Asked(p) : requests'[p][i] = requests[p][i]
         /\ w => Asked(p)' = Asked(p)
         /\ ~w => \E n : Asked(p)' = Asked(p) \cup {n} /\ requests'[p][n].by = t
<1> DEFINE e == [by |-> t, write |-> w, reg |-> r]
<1>1. e \in RequestType /\ requests \in [Proc -> Seq(RequestType)]
  BY Zenon DEF RequestType, LinkInv, LinkTypes
<1>2. requests' = [requests EXCEPT ![p] = Append(requests[p], e)]
  BY Zenon DEF Request
<1>3. requests'[p] = Append(requests[p], e) /\ requests[p] \in Seq(RequestType)
  BY Zenon, <1>1, <1>2
<1> HIDE DEF e
<1>4. /\ requests'[p] \in Seq(RequestType)
      /\ Len(requests[p]) + 1 \notin DOMAIN requests[p]
      /\ DOMAIN requests'[p] = DOMAIN requests[p] \cup {Len(requests[p]) + 1}
      /\ \A i \in DOMAIN requests[p] : requests'[p][i] = requests[p][i]
      /\ requests'[p][Len(requests[p]) + 1] = e
  BY <1>1, <1>3, Grown
<1>5. e.write = w /\ e.by = t
  BY Zenon DEF e
<1>6. requests' \in [Proc -> Seq(RequestType)] /\ \A o \in Proc : o # p => requests'[o] = requests[o]
  BY Zenon, <1>1, <1>2, <1>3, <1>4
<1>7. Asked(p)' = {i \in DOMAIN requests'[p] : ~requests'[p][i].write}
  BY Zenon DEF Asked
<1>8. w => Asked(p)' = Asked(p)
  BY Zenon, <1>4, <1>5, <1>7 DEF Asked
<1>9. ~w => Asked(p)' = Asked(p) \cup {Len(requests[p]) + 1}
  BY Zenon, <1>4, <1>5, <1>7 DEF Asked
<1>10. QED
  BY Zenon, <1>4, <1>5, <1>6, <1>8, <1>9 DEF Asked

\* A thread that begins a read owns socket_mutex and nothing is outstanding yet.
LEMMA ReadBegins ==
  ASSUME LinkInv, NEW p \in Proc, NEW t \in Thread, NEW r \in Register,
         NEW next \in {"reg", "status", "take"},
         read_portal_bsim(p, t, r, next), UNCHANGED <<simVars, readVars>>, pending' = pending
  PROVE  LinkInv'
<1> USE DEF read_portal_bsim, simVars, readVars
<1>1. /\ requests' \in [Proc -> Seq(RequestType)]
      /\ \A o \in Proc : o # p => requests'[o] = requests[o]
  BY Zenon, RequestSent
<1>2. LinkTypes'
  BY Zenon, <1>1 DEF LinkInv, LinkTypes, Place
<1>3. ASSUME NEW o \in Proc, o # p PROVE ProgramInv(o)'
  BY Zenon, <1>1, <1>3, Untouched DEF LinkInv, LinkTypes, ProgramInv, AtHead
<1>4. ProgramInv(p)'
  <2>1. PICK n : Asked(p)' = Asked(p) \cup {n} /\ requests'[p][n].by = t
    BY Zenon, RequestSent
  <2>2. Asked(p) = {} /\ Answers(p) = {} /\ ~AtHead(p) /\ ~shared_response_valid[p]
    <3>1. mutex[p] \notin Thread /\ OwnInv(p)
      BY Zenon DEF Thread, LinkInv
    <3>2. \A i \in Asked(p) : requests[p][i] \in RequestType
      BY DEF LinkInv, LinkTypes, Asked
    <3>3. QED
      BY Zenon, <3>1, <3>2 DEF OwnInv, RequestType
  <2>3. \A u \in Thread : ~Reading(p, u)
    BY Zenon DEF LinkInv, LockInv, Thread
  <2>4. mutex'[p] = t /\ step'[p] = [step[p] EXCEPT ![t] = next] /\ step[p] \in [Thread -> Place]
    BY Zenon DEF LinkInv, LinkTypes
  <2>5. Answers(p)' = {} /\ ~AtHead(p)' /\ ~shared_response_valid'[p]
    BY Zenon, <2>2 DEF Answers, AtHead
  <2>6. LockInv(p)'
    BY <2>3, <2>4 DEF LockInv, Reading
  <2>7. QED
    BY Zenon, <2>1, <2>2, <2>4, <2>5, <2>6 DEF ProgramInv, OwnInv, OnceInv
<1>5. QED
  BY Zenon, <1>2, <1>3, <1>4 DEF LinkInv, ProgramInv

\* A write is no read: it changes nothing about them.
LEMMA WriteSent ==
  ASSUME LinkInv, NEW p \in Proc, NEW t \in Thread, NEW next \in {"ready", "start"},
         ~Reading(p, t), write_portal_bsim(p, t, next), UNCHANGED <<simVars, readVars>>, pending' = pending
  PROVE  LinkInv'
<1> USE DEF write_portal_bsim, simVars, readVars
<1>1. /\ requests' \in [Proc -> Seq(RequestType)]
      /\ \A o \in Proc : o # p => requests'[o] = requests[o]
      /\ \A i \in Asked(p) : requests'[p][i] = requests[p][i]
      /\ Asked(p)' = Asked(p)
  BY Zenon, RequestSent DEF Register
<1>2. LinkTypes'
  BY Zenon, <1>1 DEF LinkInv, LinkTypes, Place
<1>3. ASSUME NEW o \in Proc, o # p PROVE ProgramInv(o)'
  BY Zenon, <1>1, <1>3, Untouched DEF LinkInv, LinkTypes, ProgramInv, AtHead
<1>4. ProgramInv(p)'
  <2>1. step'[p] = [step[p] EXCEPT ![t] = next] /\ step[p] \in [Thread -> Place]
    BY Zenon DEF LinkInv, LinkTypes
  <2>2. LockInv(p)'
    BY <2>1 DEF LinkInv, LockInv, Reading
  <2>3. Answers(p)' = Answers(p) /\ (AtHead(p)' <=> AtHead(p))
    BY Zenon DEF Answers, AtHead
  <2>4. QED
    BY <1>1, <2>2, <2>3 DEF LinkInv, ProgramInv, OwnInv, OnceInv
<1>5. QED
  BY Zenon, <1>2, <1>3, <1>4 DEF LinkInv, ProgramInv

\* Whoever receives the next message: an answer found is the one waited for.
LEMMA MessageReceived ==
  ASSUME LinkInv, NEW p \in Proc, poll_response(p), NEW t \in Thread,
         \/ step' = step
         \/ ~Reading(p, t) /\ \E next \in {"check", "enableint"} : step' = [step EXCEPT ![p][t] = next],
         UNCHANGED <<requests, fd_array, head, mutex, pending>>
  PROVE  LinkInv'
<1> USE DEF poll_response
<1> DEFINE a == Head(responses[p])
<1>1. /\ responses \in [Proc -> Seq(MessageType)] /\ responses[p] \in Seq(MessageType)
      /\ responses'[p] = Tail(responses[p])
  BY Zenon DEF LinkInv, LinkTypes
<1>2. /\ responses'[p] \in Seq(MessageType) /\ a \in MessageType
      /\ 1 \in DOMAIN responses[p] /\ responses[p][1] = a
      /\ \A i \in DOMAIN responses'[p] :
           /\ i \in Nat /\ i + 1 \in DOMAIN responses[p] /\ i + 1 # 1
           /\ responses'[p][i] = responses[p][i + 1]
  BY <1>1, Shrunk
<1>3. \A i \in Answers(p)' : i \in Nat /\ i + 1 \in Answers(p) /\ i + 1 # 1 /\ responses'[p][i] = responses[p][i + 1]
  BY Zenon, <1>2 DEF Answers
<1>4. LinkTypes'
  <2>1. responses' \in [Proc -> Seq(MessageType)]
    BY Zenon, <1>1, <1>2
  <2>2. step' \in [Proc -> [Thread -> Place]]
    <3>1. step \in [Proc -> [Thread -> Place]]
      BY Zenon DEF LinkInv, LinkTypes
    <3>2. ASSUME NEW next \in {"check", "enableint"}, step' = [step EXCEPT ![p][t] = next]
          PROVE  step' \in [Proc -> [Thread -> Place]]
      BY Zenon, <3>1, <3>2 DEF Place
    <3>3. QED
      BY Zenon, <3>1, <3>2
  <2>3. /\ shared_response' \in [Proc -> MessageType \cup {NoAnswer}]
        /\ shared_response_valid' \in [Proc -> BOOLEAN]
    BY ZenonT(60), <1>2 DEF LinkInv, LinkTypes
  <2>4. QED
    BY Zenon, <2>1, <2>2, <2>3 DEF LinkInv, LinkTypes
<1>5. ASSUME NEW o \in Proc, o # p PROVE ProgramInv(o)'
  <2>1. responses'[o] = responses[o] /\ step'[o] = step[o] /\ shared_response'[o] = shared_response[o]
        /\ shared_response_valid'[o] = shared_response_valid[o]
    BY <1>5 DEF LinkInv, LinkTypes
  <2>2. QED
    BY Zenon, <2>1, Untouched DEF LinkInv, ProgramInv, AtHead
<1>6. ProgramInv(p)'
  <2>1. LockInv(p) /\ OwnInv(p) /\ OnceInv(p)
    BY Zenon DEF LinkInv
  <2>2. LockInv(p)'
    <3>1. CASE step' = step
      BY Zenon, <2>1, <3>1 DEF LockInv, Reading
    <3>2. ASSUME ~Reading(p, t), NEW next \in {"check", "enableint"}, step' = [step EXCEPT ![p][t] = next]
          PROVE  LockInv(p)'
      <4>1. step'[p] = [step[p] EXCEPT ![t] = next] /\ step[p] \in [Thread -> Place]
        BY Zenon, <3>2 DEF LinkInv, LinkTypes
      <4>2. QED
        BY <2>1, <3>2, <4>1 DEF LockInv, Reading
    <3>3. QED
      BY Zenon, <3>1, <3>2
  <2>3. Asked(p)' = Asked(p) /\ (AtHead(p)' <=> AtHead(p)) /\ requests' = requests /\ head' = head
    BY Zenon DEF Asked, AtHead
  <2>4. CASE a.kind = "interrupt"
    <3>1. shared_response_valid' = shared_response_valid /\ shared_response' = shared_response
      BY Zenon, <2>4
    <3>2. OwnInv(p)'
      BY ZenonT(60), <1>3, <2>1, <2>3, <3>1 DEF OwnInv
    <3>3. \A i, j \in Answers(p)' : i = j
      BY <1>3, <2>1 DEF OnceInv
    <3>4. Answers(p)' # {} => Answers(p) # {}
      BY Zenon, <1>3
    <3>5. QED
      BY Zenon, <2>1, <2>2, <2>3, <3>1, <3>2, <3>3, <3>4 DEF ProgramInv, OnceInv
  <2>5. CASE a.kind # "interrupt"
    <3>1. 1 \in Answers(p) /\ responses[p][1] = a
      BY Zenon, <1>2, <2>5 DEF Answers, MessageType
    <3>2. Answers(p)' = {}
      BY Zenon, <1>3, <2>1, <3>1 DEF OnceInv
    <3>3. shared_response'[p] = a /\ mutex[p] \in Thread /\ a.by = mutex[p]
      BY <2>1, <2>5, <3>1 DEF LinkInv, LinkTypes, OwnInv
    <3>4. Asked(p) = {} /\ ~AtHead(p)
      BY Zenon, <2>1, <3>1 DEF OnceInv
    <3>5. QED
      BY Zenon, <2>2, <2>3, <3>2, <3>3, <3>4 DEF ProgramInv, OwnInv, OnceInv
  <2>6. QED
    BY Zenon, <2>4, <2>5
<1>7. QED
  BY Zenon, <1>4, <1>5, <1>6 DEF LinkInv, ProgramInv

\* The end of a read leaves nothing outstanding.
LEMMA ReadEnds ==
  ASSUME LinkInv, NEW p \in Proc, NEW t \in Thread, read_end(p, t)
  PROVE  LinkInv'
<1> USE DEF read_end, linkVars, portalVars
<1> DEFINE next == CASE step[p][t] = "reg" -> "ready"
                     [] step[p][t] = "status" /\ shared_response[p].value # 0 -> "handler"
                     [] step[p][t] = "status" /\ shared_response[p].value = 0 -> "enableint"
                     [] step[p][t] = "take" -> "check"
<1>1. next \in {"ready", "handler", "enableint", "check"}
  BY Zenon
<1>2. step' = [step EXCEPT ![p][t] = next]
  BY Zenon DEF LinkInv, LinkTypes
<1> HIDE DEF next
<1>3. LinkTypes'
  BY <1>1, <1>2 DEF LinkInv, LinkTypes, Place
<1>4. ASSUME NEW o \in Proc, o # p PROVE ProgramInv(o)'
  BY Zenon, <1>2, <1>4, Untouched DEF LinkInv, LinkTypes, ProgramInv, AtHead
<1>5. ProgramInv(p)'
  <2>1. LockInv(p) /\ OwnInv(p) /\ OnceInv(p)
    BY Zenon DEF LinkInv
  <2>2. /\ step'[p] = [step[p] EXCEPT ![t] = next] /\ step[p] \in [Thread -> Place]
        /\ mutex'[p] = "none" /\ ~shared_response_valid'[p]
    BY Zenon, <1>2 DEF LinkInv, LinkTypes
  <2>3. LockInv(p)'
    BY <1>1, <2>1, <2>2 DEF LockInv, Reading, Thread
  <2>4. Asked(p)' = {} /\ Answers(p)' = {} /\ ~AtHead(p)'
    BY Zenon, <2>1 DEF OnceInv, Asked, Answers, AtHead
  <2>5. QED
    BY Zenon, <2>2, <2>3, <2>4 DEF ProgramInv, OwnInv, OnceInv
<1>6. QED
  BY Zenon, <1>3, <1>4, <1>5 DEF LinkInv, ProgramInv

-----------------------------------------------------------------------------
\* The interrupt level is no answer.
LEMMA LevelSent ==
  ASSUME LinkInv, interruptLevel PROVE LinkInv'
<1> USE DEF interruptLevel, portalVars, progVars
<1> DEFINE e == [kind |-> "interrupt", by |-> "none", value |-> Line]
<1>0. e \in MessageType /\ e.kind = "interrupt"
  BY DEF MessageType, Line
<1>1. \A p \in Proc : responses[p] \in Seq(MessageType)
  BY Zenon DEF LinkInv, LinkTypes
<1>2. \A p \in Proc : responses'[p] = responses[p] \/ responses'[p] = Append(responses[p], e)
  BY Zenon
<1> HIDE DEF e
<1>3. ASSUME NEW p \in Proc
      PROVE  /\ responses'[p] \in Seq(MessageType) /\ Answers(p)' = Answers(p)
             /\ \A i \in Answers(p) : responses'[p][i] = responses[p][i]
  <2>1. CASE responses'[p] = responses[p]
    BY Zenon, <1>1, <2>1 DEF Answers
  <2>2. CASE responses'[p] = Append(responses[p], e)
    <3>1. /\ responses'[p] \in Seq(MessageType)
          /\ DOMAIN responses'[p] = DOMAIN responses[p] \cup {Len(responses[p]) + 1}
          /\ \A i \in DOMAIN responses[p] : responses'[p][i] = responses[p][i]
          /\ responses'[p][Len(responses[p]) + 1] = e
      BY <1>0, <1>1, <2>2, Grown
    <3>2. Answers(p)' = {i \in DOMAIN responses'[p] : responses'[p][i].kind = "answer"}
      BY Zenon DEF Answers
    <3>3. QED
      BY Zenon, <1>0, <3>1, <3>2 DEF Answers
  <2>3. QED
    BY Zenon, <1>2, <2>1, <2>2
<1>4. LinkTypes'
  <2>1. responses' \in [Proc -> Seq(MessageType)]
    BY Zenon, <1>3
  <2>2. QED
    BY Zenon, <2>1 DEF LinkInv, LinkTypes
<1>5. ASSUME NEW p \in Proc PROVE ProgramInv(p)'
  <2>1. Asked(p)' = Asked(p) /\ (AtHead(p)' <=> AtHead(p)) /\ (LockInv(p)' <=> LockInv(p))
    BY Zenon DEF Asked, AtHead, LockInv, Reading
  <2>2. UNCHANGED <<requests, head, mutex, shared_response, shared_response_valid>>
    BY Zenon
  <2>3. LockInv(p) /\ OwnInv(p) /\ OnceInv(p)
    BY Zenon DEF LinkInv
  <2>4. OwnInv(p)'
    BY Zenon, <1>3, <2>1, <2>2, <2>3 DEF OwnInv
  <2>5. OnceInv(p)'
    BY Zenon, <1>3, <2>1, <2>2, <2>3 DEF OnceInv
  <2>6. QED
    BY Zenon, <2>1, <2>3, <2>4, <2>5 DEF ProgramInv
<1>6. QED
  BY Zenon, <1>4, <1>5 DEF LinkInv, ProgramInv

\* A request moves to the simulator.
LEMMA RequestTaken ==
  ASSUME LinkInv, checkForRequest PROVE LinkInv'
<1> USE DEF checkForRequest, portalVars, progVars
<1>1. LinkTypes /\ Waiting # {}
  BY Zenon DEF LinkInv
<1>2. PICK p \in Proc :
        /\ requests[p] # <<>>
        /\ head' = [valid |-> TRUE, inflight |-> TRUE, proc |-> p, req |-> Head(requests[p])]
        /\ requests' = [requests EXCEPT ![p] = Tail(requests[p])]
  BY Zenon, <1>1, FirstWaiting
<1> HIDE DEF checkForRequest
<1>0. /\ UNCHANGED <<responses, mutex, step, shared_response, shared_response_valid, fd_array, pending>>
      /\ ~head.valid
  BY Zenon DEF checkForRequest
<1>3. /\ requests \in [Proc -> Seq(RequestType)] /\ requests[p] \in Seq(RequestType)
      /\ requests'[p] = Tail(requests[p])
  BY Zenon, <1>2 DEF LinkInv, LinkTypes
<1>4. /\ requests'[p] \in Seq(RequestType) /\ Head(requests[p]) \in RequestType
      /\ 1 \in DOMAIN requests[p] /\ requests[p][1] = Head(requests[p])
      /\ \A i \in DOMAIN requests'[p] :
           /\ i \in Nat /\ i + 1 \in DOMAIN requests[p] /\ i + 1 # 1
           /\ requests'[p][i] = requests[p][i + 1]
  BY Zenon, <1>2, <1>3, Shrunk
<1>5. \A i \in Asked(p)' : i \in Nat /\ i + 1 \in Asked(p) /\ i + 1 # 1 /\ requests'[p][i] = requests[p][i + 1]
  BY Zenon, <1>4 DEF Asked
<1>6. LinkTypes'
  <2>1. requests' \in [Proc -> Seq(RequestType)]
    BY Zenon, <1>2, <1>3, <1>4
  <2>2. head' \in [valid : BOOLEAN, inflight : BOOLEAN, proc : Proc, req : RequestType \cup {NoRequest}]
    BY Zenon, <1>2, <1>4
  <2>3. QED
    BY Zenon, <1>0, <2>1, <2>2 DEF LinkInv, LinkTypes
<1>7. ASSUME NEW o \in Proc, o # p PROVE ProgramInv(o)'
  <2>1. requests'[o] = requests[o] /\ ~AtHead(o)' /\ ~AtHead(o)
    BY Zenon, <1>0, <1>2, <1>3, <1>7 DEF AtHead
  <2>2. QED
    BY Zenon, <1>0, <2>1, Untouched DEF LinkInv, ProgramInv
<1>8. ProgramInv(p)'
  <2>1. LockInv(p) /\ OwnInv(p) /\ OnceInv(p)
    BY Zenon DEF LinkInv
  <2>2. LockInv(p)' /\ Answers(p)' = Answers(p)
    BY Zenon, <1>0, <2>1 DEF LockInv, Reading, Answers
  <2>3. \A i, j \in Asked(p)' : i = j
    BY <1>5, <2>1 DEF OnceInv
  <2>4. Asked(p)' # {} => Asked(p) # {}
    BY Zenon, <1>5
  <2>5. AtHead(p)' => 1 \in Asked(p)
    BY Zenon, <1>2, <1>4 DEF AtHead, Asked
  <2>6. AtHead(p)' => Asked(p)' = {}
    BY Zenon, <1>5, <2>1, <2>5 DEF OnceInv
  <2>7. AtHead(p)' => head'.req.by = mutex[p] /\ mutex[p] \in Thread
    BY Zenon, <1>2, <1>4, <2>1, <2>5 DEF OwnInv, RequestType
  <2>8. OwnInv(p)'
    BY Zenon, <1>0, <1>5, <2>1, <2>2, <2>7 DEF OwnInv
  <2>9. OnceInv(p)'
    BY Zenon, <1>0, <2>1, <2>2, <2>3, <2>4, <2>5, <2>6 DEF OnceInv
  <2>10. QED
    BY Zenon, <2>2, <2>8, <2>9 DEF ProgramInv
<1>9. head'.inflight
  BY Zenon, <1>2
<1>10. QED
  BY Zenon, <1>6, <1>7, <1>8, <1>9 DEF LinkInv, ProgramInv

\* The hardware is handed the request: a write is done with, a read stays at the head.
LEMMA RequestGiven ==
  ASSUME LinkInv, getRequest32 PROVE LinkInv'
<1> USE DEF getRequest32, progVars
<1>1. head \in [valid : BOOLEAN, inflight : BOOLEAN, proc : Proc, req : RequestType \cup {NoRequest}]
  BY Zenon DEF LinkInv, LinkTypes
<1>2. head.req.write \in BOOLEAN
  <2>1. head.req \in RequestType \cup {NoRequest}
    BY Zenon, <1>1
  <2>2. \A r \in RequestType : r.write \in BOOLEAN
    BY Zenon DEF RequestType
  <2>3. NoRequest.write = FALSE
    BY Zenon DEF NoRequest
  <2>4. QED
    BY <2>1, <2>2, <2>3, Zenon
<1>3. /\ head' = [head EXCEPT !.valid = ~head.req.write, !.inflight = FALSE]
      /\ head'.valid = ~head.req.write /\ ~head'.inflight
      /\ head'.proc = head.proc /\ head'.req = head.req
  BY Zenon, <1>1
<1>4. LinkTypes'
  <2>1. head' \in [valid : BOOLEAN, inflight : BOOLEAN, proc : Proc, req : RequestType \cup {NoRequest}]
    BY Zenon, <1>1, <1>2, <1>3
  <2>2. QED
    BY Zenon, <2>1 DEF LinkInv, LinkTypes
<1>5. ASSUME NEW p \in Proc PROVE ProgramInv(p)'
  <2>1. AtHead(p)' <=> AtHead(p)
    BY Zenon, <1>2, <1>3 DEF AtHead
  <2>2. QED
    BY Zenon, <1>3, <2>1, Untouched DEF LinkInv, ProgramInv
<1>6. QED
  BY Zenon, <1>2, <1>3, <1>4, <1>5 DEF LinkInv, ProgramInv

\* The answer goes back to where the request came from.
LEMMA AnswerSent ==
  ASSUME LinkInv, readResponse32 PROVE LinkInv'
<1> USE DEF readResponse32, progVars
<1>1. /\ head \in [valid : BOOLEAN, inflight : BOOLEAN, proc : Proc, req : RequestType \cup {NoRequest}]
      /\ responses \in [Proc -> Seq(MessageType)] /\ pending \in [Proc -> Int]
  BY Zenon DEF LinkInv, LinkTypes
<1>2. PICK p \in Proc : p = head.proc
  BY Zenon, <1>1
<1>3. head.req.by \in Thread \cup {"none"}
  BY <1>1 DEF RequestType, NoRequest
<1> DEFINE e == [kind |-> "answer", by |-> head.req.by, value |-> pending[p]]
<1>4. PICK a \in MessageType :
        /\ a.kind = "answer" /\ a.by = head.req.by
        /\ responses' = [responses EXCEPT ![p] = Append(responses[p], a)]
  <2>1. e \in MessageType /\ e.kind = "answer" /\ e.by = head.req.by
    BY Zenon, <1>1, <1>3 DEF MessageType
  <2>2. responses' = [responses EXCEPT ![p] = Append(responses[p], e)]
    BY Zenon, <1>2
  <2>3. QED
    BY Zenon, <2>1, <2>2
<1>5. /\ head' = [head EXCEPT !.valid = FALSE] /\ ~head'.valid
      /\ head.valid /\ ~head.req.write
      /\ UNCHANGED <<requests, fd_array, mutex, step, shared_response, shared_response_valid>>
  BY Zenon, <1>1 DEF LinkInv
<1>6. pending' \in [Proc -> Int]
  BY <1>1, <1>2
<1> HIDE DEF readResponse32
<1>7. /\ responses'[p] \in Seq(MessageType)
      /\ Len(responses[p]) + 1 \notin DOMAIN responses[p]
      /\ DOMAIN responses'[p] = DOMAIN responses[p] \cup {Len(responses[p]) + 1}
      /\ \A i \in DOMAIN responses[p] : responses'[p][i] = responses[p][i]
      /\ responses'[p][Len(responses[p]) + 1] = a
  BY <1>1, <1>4, Grown
<1>8. LinkTypes'
  <2>1. responses' \in [Proc -> Seq(MessageType)]
    BY Zenon, <1>1, <1>4, <1>7
  <2>2. head' \in [valid : BOOLEAN, inflight : BOOLEAN, proc : Proc, req : RequestType \cup {NoRequest}]
    BY Zenon, <1>1, <1>5
  <2>3. QED
    BY Zenon, <1>5, <1>6, <2>1, <2>2 DEF LinkInv, LinkTypes
<1>9. ASSUME NEW o \in Proc, o # p PROVE ProgramInv(o)'
  <2>1. responses'[o] = responses[o] /\ ~AtHead(o)' /\ ~AtHead(o)
    BY Zenon, <1>1, <1>2, <1>4, <1>5, <1>9 DEF AtHead
  <2>2. QED
    BY Zenon, <1>5, <2>1, Untouched DEF LinkInv, ProgramInv
<1>10. ProgramInv(p)'
  <2>1. LockInv(p) /\ OwnInv(p) /\ OnceInv(p) /\ AtHead(p) /\ ~AtHead(p)'
    BY Zenon, <1>2, <1>5 DEF LinkInv, AtHead
  <2>2. Answers(p) = {} /\ Asked(p) = {} /\ ~shared_response_valid[p]
    BY Zenon, <2>1 DEF OnceInv
  <2>3. a.by = mutex[p] /\ mutex[p] \in Thread
    BY Zenon, <1>4, <2>1 DEF OwnInv
  <2>4. LockInv(p)' /\ Asked(p)' = {}
    BY Zenon, <1>5, <2>1, <2>2 DEF LockInv, Reading, Asked
  <2>5. Answers(p)' = {Len(responses[p]) + 1}
    BY <1>4, <1>7, <2>2 DEF Answers
  <2>6. OwnInv(p)'
    BY Zenon, <1>5, <1>7, <2>1, <2>2, <2>3, <2>4, <2>5 DEF OwnInv
  <2>7. OnceInv(p)'
    BY Zenon, <1>5, <2>1, <2>2, <2>4, <2>5 DEF OnceInv
  <2>8. QED
    BY Zenon, <2>4, <2>6, <2>7 DEF ProgramInv
<1>11. QED
  BY Zenon, <1>5, <1>8, <1>9, <1>10 DEF LinkInv, ProgramInv

\* A step that touches none of this.
LEMMA NothingAsked ==
  ASSUME LinkInv, fd_array' \in Seq(Proc), pending' \in [Proc -> Int],
         UNCHANGED <<requests, responses, head, mutex, step, shared_response, shared_response_valid>>
  PROVE  LinkInv'
<1>1. LinkTypes'
  BY Zenon DEF LinkInv, LinkTypes
<1>2. ASSUME NEW p \in Proc PROVE ProgramInv(p)'
  BY Zenon, Untouched DEF LinkInv, ProgramInv, AtHead
<1>3. QED
  BY Zenon, <1>1, <1>2 DEF LinkInv, ProgramInv

-----------------------------------------------------------------------------
\* What the threads of a program do.
LEMMA ThreadLink ==
  ASSUME LinkInv, NEW p \in Proc, NEW t \in Thread, ThreadStep(p, t)
  PROVE  LinkInv'
<1>0. "main" \in Thread /\ "poller" \in Thread /\ fd_array \in Seq(Proc) /\ pending \in [Proc -> Int]
  BY Zenon DEF Thread, LinkInv, LinkTypes
<1>1. CASE poll_for_answer(p, t)
  BY Zenon, <1>1, MessageReceived DEF poll_for_answer, portalVars
<1>2. CASE read_end(p, t)
  BY Zenon, <1>2, ReadEnds
<1>3. CASE bsim_poll_interrupt(p)
  <2>1. ~Reading(p, "poller")
    BY Zenon, <1>3 DEF bsim_poll_interrupt, Reading
  <2>2. PICK next \in {"check", "enableint"} : step' = [step EXCEPT ![p]["poller"] = next]
    BY Zenon, <1>3 DEF bsim_poll_interrupt
  <2>3. CASE poll_response(p)
    BY Zenon, <1>0, <1>3, <2>1, <2>2, <2>3, MessageReceived DEF bsim_poll_interrupt, portalVars
  <2>4. CASE UNCHANGED <<responses, shared_response, shared_response_valid>>
    <3>1. UNCHANGED <<requests, responses, head, mutex, shared_response, shared_response_valid, fd_array, pending>>
      BY Zenon, <1>3, <2>4 DEF bsim_poll_interrupt, portalVars
    <3>2. /\ step \in [Proc -> [Thread -> Place]] /\ step' \in [Proc -> [Thread -> Place]]
          /\ \A o \in Proc : o # p => step'[o] = step[o]
          /\ step'[p] = [step[p] EXCEPT !["poller"] = next]
      BY ZenonT(60), <2>2 DEF LinkInv, LinkTypes, Place
    <3>3. LinkTypes'
      BY Zenon, <3>1, <3>2 DEF LinkInv, LinkTypes
    <3>4. ASSUME NEW o \in Proc, o # p PROVE ProgramInv(o)'
      BY Zenon, <3>1, <3>2, <3>4, Untouched DEF LinkInv, ProgramInv, AtHead
    <3>5. ProgramInv(p)'
      <4>1. LockInv(p) /\ OwnInv(p) /\ OnceInv(p)
        BY Zenon DEF LinkInv
      <4>2. LockInv(p)'
        BY <2>1, <3>1, <3>2, <4>1 DEF LockInv, Reading
      <4>3. Asked(p)' = Asked(p) /\ Answers(p)' = Answers(p) /\ (AtHead(p)' <=> AtHead(p))
        BY Zenon, <3>1 DEF Asked, Answers, AtHead
      <4>4. QED
        BY Zenon, <3>1, <4>1, <4>2, <4>3 DEF ProgramInv, OwnInv, OnceInv
    <3>6. QED
      BY Zenon, <3>1, <3>3, <3>4, <3>5 DEF LinkInv, ProgramInv
  <2>5. QED
    BY Zenon, <1>3, <2>3, <2>4 DEF bsim_poll_interrupt
<1>4. CASE poller_access(p)
  <2>1. UNCHANGED <<simVars, readVars>> /\ pending' = pending
    BY Zenon, <1>4 DEF poller_access, portalVars
  <2>2. CASE step[p]["poller"] = "check" /\ read_portal_bsim(p, "poller", "status", "status")
    BY Zenon, <1>0, <2>1, <2>2, ReadBegins DEF Register
  <2>3. CASE step[p]["poller"] = "handler" /\ read_portal_bsim(p, "poller", "fifo", "take")
    BY Zenon, <1>0, <2>1, <2>3, ReadBegins DEF Register
  <2>4. CASE step[p]["poller"] = "enableint" /\ write_portal_bsim(p, "poller", "start")
    BY Zenon, <1>0, <2>1, <2>4, WriteSent DEF Reading
  <2>5. QED
    BY Zenon, <1>4, <2>2, <2>3, <2>4 DEF poller_access
<1>5. CASE init_bsim(p)
  BY Zenon, <1>0, <1>5, WriteSent DEF init_bsim, Reading, portalVars
<1>6. QED
  BY Zenon, <1>1, <1>2, <1>3, <1>4, <1>5 DEF ThreadStep

\* LinkInv is an invariant, for every number of programs.
THEOREM LinkKept == ASSUME Proc # {} PROVE SimSpec => []LinkInv
<1>1. LinkInv /\ [SimNext]_allSimVars => LinkInv'
  <2> SUFFICES ASSUME LinkInv, [SimNext]_allSimVars PROVE LinkInv'
    BY Zenon
  <2>0. "main" \in Thread /\ fd_array \in Seq(Proc) /\ pending \in [Proc -> Int]
    BY Zenon DEF Thread, LinkInv, LinkTypes
  <2>1. CASE Simulator
    <3>1. CASE write_enable
      BY Zenon, <2>0, <3>1, NothingAsked DEF write_enable, linkVars, progVars
    <3>2. QED
      BY Zenon, <2>1, <3>1, LevelSent, RequestTaken, RequestGiven, AnswerSent DEF Simulator
  <2>2. ASSUME NEW p \in Proc,
               connect_to_bsim(p) \/ pthread_worker(p) \/ main_access(p) \/ ind_enq(p)
        PROVE  LinkInv'
    <3>1. CASE connect_to_bsim(p)
      BY Zenon, <2>0, <3>1, NothingAsked DEF connect_to_bsim, portalVars, progVars
    <3>2. CASE pthread_worker(p)
      <4>1. fd_array' \in Seq(Proc)
        BY Zenon, <2>0, <3>2, AppendProperties DEF pthread_worker
      <4>2. QED
        BY Zenon, <2>0, <3>2, <4>1, NothingAsked DEF pthread_worker, portalVars, progVars
    <3>3. CASE main_access(p)
      <4>1. CASE read_portal_bsim(p, "main", "reg", "reg")
        BY Zenon, <2>0, <3>3, <4>1, ReadBegins DEF main_access, portalVars, Register
      <4>2. CASE write_portal_bsim(p, "main", "ready")
        BY Zenon, <2>0, <3>3, <4>2, WriteSent DEF main_access, portalVars, Reading
      <4>3. QED
        BY Zenon, <3>3, <4>1, <4>2 DEF main_access
    <3>4. CASE ind_enq(p)
      BY <2>0, <3>4, NothingAsked DEF ind_enq, linkVars, progVars
    <3>5. QED
      BY Zenon, <2>2, <3>1, <3>2, <3>3, <3>4
  <2>3. CASE UNCHANGED allSimVars
    BY Zenon, <2>0, <2>3, NothingAsked DEF allSimVars, linkVars, portalVars, progVars
  <2>4. QED
    BY Zenon, <2>1, <2>2, <2>3, ThreadLink DEF SimNext
<1>2. QED
  BY <1>1, InitLink, PTL DEF SimSpec

\* read_portal_bsim returns the answer to its own request, and an answer is held only
\* for a thread that waits for it: poll_response may ignore the tags.
THEOREM AnswersAreOwn == ASSUME Proc # {} PROVE SimSpec => []OwnAnswer
<1>1. LinkInv => OwnAnswer
  BY Zenon DEF LinkInv, LockInv, OwnInv, OwnAnswer, Reading
<1>2. QED
  BY <1>1, LinkKept, PTL

-----------------------------------------------------------------------------
\* The interrupt level.

\* A connected program knows the level; one that is not yet accepted has been sent
\* nothing and takes the line to be low, and only an accepted one is asked or late.
LevelInv ==
  /\ level \in {0, 1}
  /\ sock \in [Proc -> {"absent", "none", "backlog", "accepted"}]
  /\ interrupt_value \in [Proc -> Int]
  /\ \A p \in Proc : p \in Range(fd_array) <=> sock[p] = "accepted"
  /\ late \subseteq Range(fd_array)
  /\ head.valid => sock[head.proc] = "accepted"
  /\ \A p \in Proc : sock[p] # "accepted" => responses[p] = <<>> /\ interrupt_value[p] = 0
  /\ LevelKnown

\* The indices of the interrupt levels on the way to a program.
Levels(p) == {i \in DOMAIN responses[p] : responses[p][i].kind = "interrupt"}

\* An answer on its way says nothing of the level.
LEMMA AnswerTellsNothing ==
  ASSUME LinkTypes, NEW p \in Proc, NEW e \in MessageType, e.kind = "answer",
         responses'[p] = Append(responses[p], e), interrupt_value'[p] = interrupt_value[p]
  PROVE  \A l : Knows(p, l) => Knows(p, l)'
<1>1. /\ DOMAIN responses'[p] = DOMAIN responses[p] \cup {Len(responses[p]) + 1}
      /\ \A i \in DOMAIN responses[p] : responses'[p][i] = responses[p][i]
      /\ responses'[p][Len(responses[p]) + 1] = e
  <2>1. responses[p] \in Seq(MessageType)
    BY Zenon DEF LinkTypes
  <2>2. QED
    BY <2>1, Grown
<1>2. /\ Levels(p)' = Levels(p)
      /\ \A i \in Levels(p) : responses'[p][i] = responses[p][i]
  BY Zenon, <1>1 DEF Levels
<1>3. QED
  BY Zenon, <1>2 DEF Knows, Levels

\* A level on its way tells a program that level.
LEMMA LevelTells ==
  ASSUME LinkTypes, NEW p \in Proc, NEW e \in MessageType, e.kind = "interrupt",
         responses'[p] = Append(responses[p], e)
  PROVE  Knows(p, e.value)'
<1>1. /\ DOMAIN responses'[p] = DOMAIN responses[p] \cup {Len(responses[p]) + 1}
      /\ responses'[p][Len(responses[p]) + 1] = e
  <2>1. responses[p] \in Seq(MessageType)
    BY Zenon DEF LinkTypes
  <2>2. QED
    BY <2>1, Grown
<1>2. DOMAIN responses[p] = 1 .. Len(responses[p]) /\ Len(responses[p]) \in Nat
  BY DEF LinkTypes
<1>3. /\ Len(responses[p]) + 1 \in Levels(p)'
      /\ \A j \in Levels(p)' : j <= Len(responses[p]) + 1
  BY <1>1, <1>2 DEF Levels
<1>4. QED
  BY Zenon, <1>1, <1>3 DEF Knows, Levels

\* A program that receives a message knows what it did.
LEMMA ReceiptTellsNothing ==
  ASSUME LinkTypes, interrupt_value \in [Proc -> Int], NEW p \in Proc, poll_response(p)
  PROVE  \A l : Knows(p, l) => Knows(p, l)'
<1> DEFINE s == responses[p]
           r == responses'[p]
<1>1. s \in Seq(MessageType) /\ s # <<>> /\ r = Tail(s)
  BY Zenon DEF LinkTypes, poll_response
<1>2. /\ 1 \in DOMAIN s /\ s[1] = Head(s)
      /\ \A i \in DOMAIN r : i \in Nat /\ i + 1 \in DOMAIN s /\ i + 1 # 1 /\ r[i] = s[i + 1]
  BY <1>1, Shrunk
<1>3. \A i \in DOMAIN s : i \in Nat /\ (i = 1 \/ i - 1 \in DOMAIN r)
  <2>1. Len(r) = Len(s) - 1 /\ Len(s) \in Nat /\ r \in Seq(MessageType)
    BY <1>1, HeadTailProperties
  <2>2. DOMAIN s = 1 .. Len(s) /\ DOMAIN r = 1 .. Len(s) - 1
    BY <1>1, <2>1
  <2>3. QED
    BY <2>2, <2>1
<1>4. \A i : i \in Levels(p)' => i \in Nat /\ i + 1 \in Levels(p) /\ r[i] = s[i + 1]
  BY Zenon, <1>2 DEF Levels
<1>5. \A i \in Levels(p) : i \in Nat /\ (i = 1 \/ i - 1 \in Levels(p)')
  <2> SUFFICES ASSUME NEW i \in Levels(p), i # 1 PROVE i - 1 \in Levels(p)'
    BY Zenon, <1>3 DEF Levels
  <2>1. i \in Nat /\ i - 1 \in DOMAIN r /\ i - 1 + 1 = i
    BY <1>3 DEF Levels
  <2>2. r[i - 1] = s[i]
    BY Zenon, <1>2, <2>1
  <2>3. QED
    BY Zenon, <2>1, <2>2 DEF Levels
<1> HIDE DEF s, r
<1>6. SUFFICES ASSUME NEW l, Knows(p, l) PROVE Knows(p, l)'
  BY Zenon
<1>7. Levels(p) # {}
      => \E i \in Levels(p) : (\A j \in Levels(p) : j <= i) /\ s[i].value = l
  BY Zenon, <1>6 DEF Knows, Levels, s
<1>8. Levels(p) = {} => interrupt_value[p] = l
  BY Zenon, <1>6 DEF Knows, Levels
<1>9. CASE Levels(p)' = {}
  <2>1. CASE Levels(p) = {}
    <3>1. Head(s).kind # "interrupt"
      BY Zenon, <1>2, <2>1 DEF Levels, s
    <3>2. interrupt_value'[p] = interrupt_value[p]
      BY Zenon, <3>1 DEF poll_response, s
    <3>3. QED
      BY Zenon, <1>8, <1>9, <2>1, <3>2 DEF Knows, Levels
  <2>2. CASE Levels(p) # {}
    <3>1. \A i \in Levels(p) : i = 1
      BY Zenon, <1>5, <1>9
    <3>2. Head(s).kind = "interrupt" /\ Head(s).value = l
      BY Zenon, <1>2, <1>7, <2>2, <3>1 DEF Levels, s
    <3>3. interrupt_value'[p] = l
      BY Zenon, <3>2 DEF poll_response, s
    <3>4. QED
      BY Zenon, <1>9, <3>3 DEF Knows, Levels
  <2>3. QED
    BY Zenon, <2>1, <2>2
<1>10. CASE Levels(p)' # {}
  <2>1. PICK k \in Levels(p)' : TRUE
    BY Zenon, <1>10
  <2>2. k \in Nat /\ k + 1 \in Levels(p) /\ Levels(p) # {}
    BY Zenon, <1>4, <2>1
  <2>3. PICK i \in Levels(p) : (\A j \in Levels(p) : j <= i) /\ s[i].value = l
    BY Zenon, <1>7, <2>2
  <2>4. i \in Nat /\ i # 1 /\ i - 1 \in Levels(p)' /\ i - 1 + 1 = i
    <3>1. i \in Nat /\ k + 1 <= i
      BY Zenon, <1>5, <2>2, <2>3
    <3>2. k # 0
      BY <2>1, <1>2 DEF Levels, s, r, LinkTypes
    <3>3. QED
      BY <1>5, <2>2, <3>1, <3>2
  <2>5. \A j \in Levels(p)' : j <= i - 1
    BY <1>4, <2>3, <2>4
  <2>6. r[i - 1].value = l
    BY Zenon, <1>4, <2>3, <2>4
  <2>7. QED
    BY Zenon, <1>10, <2>4, <2>5, <2>6 DEF Knows, Levels, r
<1>11. QED
  BY Zenon, <1>9, <1>10

\* A step that neither sends nor receives anything, nor connects a program.
LEMMA LevelRests ==
  ASSUME LevelInv, UNCHANGED <<level, sock, late, fd_array, responses, interrupt_value>>,
         head'.valid => sock[head'.proc] = "accepted"
  PROVE  LevelInv'
<1>1. \A p, l : Knows(p, l)' <=> Knows(p, l)
  BY Zenon DEF Knows
<1>2. LevelKnown'
  BY Zenon, <1>1 DEF LevelInv, LevelKnown
<1>3. QED
  BY Zenon, <1>2 DEF LevelInv

\* interruptLevel tells every connected program.
LEMMA LevelToAll == ASSUME LinkInv, LevelInv, interruptLevel PROVE LevelInv'
<1>0. PICK v : v = Line
  BY Zenon
<1> DEFINE e == [kind |-> "interrupt", by |-> "none", value |-> v]
<1>1. e \in MessageType /\ e.kind = "interrupt" /\ e.value = v /\ v \in {0, 1}
  BY <1>0 DEF MessageType, Line
<1>2. ASSUME NEW p \in Range(fd_array)' PROVE Knows(p, IF p \in late THEN 0 ELSE level)'
  <2>1. p \in Proc /\ responses'[p] = Append(responses[p], e) /\ LinkTypes
    <3>1. LinkTypes
      BY Zenon DEF LinkInv
    <3>2. fd_array' = fd_array
      BY Zenon DEF interruptLevel
    <3>3. p \in Range(fd_array)
      BY Zenon, <3>2 DEF Range
    <3>4. p \in Proc
      BY <3>1, <3>3 DEF LinkTypes, Range
    <3>5. QED
      BY Zenon, <1>0, <3>1, <3>3, <3>4 DEF interruptLevel
  <2>2. Knows(p, v)'
    <3> HIDE DEF e
    <3>1. Knows(p, e.value)'
      BY Zenon, <1>1, <2>1, LevelTells
    <3>2. QED
      BY Zenon, <1>1, <3>1
  <2>3. (IF p \in late THEN 0 ELSE level)' = v
    BY Zenon, <1>0, <1>1 DEF interruptLevel
  <2>4. QED
    BY Zenon, <2>2, <2>3 DEF Knows
<1>3. LevelKnown'
  BY Zenon, <1>2 DEF LevelKnown
<1>4. \A p \in Proc : sock[p] # "accepted" => responses'[p] = responses[p]
  BY ZenonT(60) DEF LevelInv, interruptLevel
<1>5. QED
  BY Zenon, <1>0, <1>1, <1>3, <1>4 DEF LevelInv, interruptLevel, progVars

\* readResponse32 answers a connected program.
LEMMA AnswerToOne == ASSUME LinkInv, LevelInv, readResponse32 PROVE LevelInv'
<1> DEFINE e == [kind |-> "answer", by |-> head.req.by, value |-> pending[head.proc]]
<1>1. LinkTypes /\ head.proc \in Proc /\ sock[head.proc] = "accepted"
  BY Zenon DEF readResponse32, LinkInv, LinkTypes, LevelInv
<1>2. e \in MessageType /\ e.kind = "answer"
  <2>1. head.req.by \in Thread \cup {"none"} /\ pending[head.proc] \in Int
    BY <1>1 DEF LinkTypes, RequestType, NoRequest
  <2>2. QED
    BY Zenon, <2>1 DEF MessageType
<1>3. /\ responses'[head.proc] = Append(responses[head.proc], e)
      /\ \A p \in Proc : p # head.proc => responses'[p] = responses[p]
      /\ UNCHANGED <<interrupt_value, fd_array, level, late, sock>> /\ ~head'.valid
  BY Zenon, <1>1 DEF readResponse32, LinkTypes, progVars
<1>4. ASSUME NEW p \in Proc PROVE \A l : Knows(p, l) => Knows(p, l)'
  <2>1. CASE p = head.proc
    BY Zenon, <1>1, <1>2, <1>3, <2>1, AnswerTellsNothing
  <2>2. CASE p # head.proc
    BY Zenon, <1>3, <2>2 DEF Knows
  <2>3. QED
    BY Zenon, <2>1, <2>2
<1>5. \A p \in Range(fd_array) : p \in Proc
  BY <1>1 DEF LinkTypes, Range
<1>6. LevelKnown'
  BY Zenon, <1>3, <1>4, <1>5 DEF LevelInv, LevelKnown
<1>7. \A p \in Proc : sock[p] # "accepted" => responses'[p] = responses[p]
  BY Zenon, <1>1, <1>3
<1>8. QED
  BY ZenonT(60), <1>3, <1>6, <1>7 DEF LevelInv

\* A program receives a message.
LEMMA LevelReceived ==
  ASSUME LinkInv, LevelInv, NEW p \in Proc, poll_response(p),
         UNCHANGED <<level, sock, late, fd_array, head>>
  PROVE  LevelInv'
<1>1. LinkTypes /\ interrupt_value \in [Proc -> Int] /\ sock[p] = "accepted"
  BY Zenon DEF LinkInv, LevelInv, poll_response
<1>2. interrupt_value' \in [Proc -> Int] /\ \A o \in Proc : o # p => interrupt_value'[o] = interrupt_value[o]
  <2>1. Head(responses[p]) \in MessageType
    BY Zenon, <1>1, Shrunk DEF poll_response, LinkTypes
  <2>2. Head(responses[p]).value \in Int
    BY Zenon, <2>1 DEF MessageType
  <2>3. QED
    BY Zenon, <1>1, <2>2 DEF poll_response
<1>3. \A o \in Proc : o # p => responses'[o] = responses[o]
  BY Zenon, <1>1 DEF poll_response, LinkTypes
<1>4. ASSUME NEW o \in Proc PROVE \A l : Knows(o, l) => Knows(o, l)'
  <2>1. CASE o = p
    BY Zenon, <1>1, <2>1, ReceiptTellsNothing
  <2>2. CASE o # p
    BY Zenon, <1>2, <1>3, <2>2 DEF Knows
  <2>3. QED
    BY Zenon, <2>1, <2>2
<1>5. \A o \in Range(fd_array) : o \in Proc
  BY <1>1 DEF LinkTypes, Range
<1>6. LevelKnown'
  BY Zenon, <1>4, <1>5 DEF LevelInv, LevelKnown
<1>7. QED
  BY Zenon, <1>1, <1>2, <1>3, <1>6 DEF LevelInv

\* The simulator accepts a program: it takes the line to be low.
LEMMA LevelAccepted ==
  ASSUME LinkInv, LevelInv, NEW p \in Proc, pthread_worker(p) PROVE LevelInv'
<1>1. LinkTypes /\ fd_array \in Seq(Proc) /\ sock[p] = "backlog" /\ p \notin Range(fd_array)
  BY Zenon DEF LinkInv, LinkTypes, LevelInv, pthread_worker
<1>2. Range(fd_array)' = Range(fd_array) \cup {p}
  BY <1>1, Grown DEF pthread_worker, Range
<1>3. UNCHANGED <<responses, interrupt_value, level, head>>
  BY Zenon DEF pthread_worker, progVars
<1>4. \A o, l : Knows(o, l)' <=> Knows(o, l)
  BY Zenon, <1>3 DEF Knows
<1>5. Knows(p, 0)
  BY <1>1 DEF LevelInv, Knows
<1>6. p \notin late /\ (p \in late' <=> level = 1) /\ \A o : o # p => (o \in late' <=> o \in late)
  BY Zenon, <1>1 DEF LevelInv, pthread_worker
<1>7. (IF p \in late THEN 0 ELSE level)' = 0
  BY Zenon, <1>3, <1>6 DEF LevelInv
<1>8. ASSUME NEW o \in Range(fd_array)' PROVE Knows(o, IF o \in late THEN 0 ELSE level)'
  <2>1. CASE o = p
    BY Zenon, <1>4, <1>5, <1>7, <2>1
  <2>2. CASE o # p
    BY Zenon, <1>2, <1>3, <1>4, <1>6, <2>2 DEF LevelInv, LevelKnown
  <2>3. QED
    BY Zenon, <2>1, <2>2
<1>9. LevelKnown'
  BY Zenon, <1>8 DEF LevelKnown
<1>10. /\ sock' \in [Proc -> {"absent", "none", "backlog", "accepted"}]
       /\ sock'[p] = "accepted" /\ \A o \in Proc : o # p => sock'[o] = sock[o]
  BY Zenon DEF LevelInv, pthread_worker
<1>11. late' \subseteq Range(fd_array)'
  BY Zenon, <1>2, <1>6 DEF LevelInv
<1>12. head.proc \in Proc
  BY Zenon, <1>1 DEF LinkTypes
<1>13. QED
  BY Zenon, <1>2, <1>3, <1>9, <1>10, <1>11, <1>12 DEF LevelInv

\* The steps of the simulator and of the threads.
LEMMA LevelSimulator == ASSUME LinkInv, LevelInv, Simulator PROVE LevelInv'
<1>1. CASE checkForRequest
  <2>1. LinkTypes /\ Waiting # {}
    BY Zenon, <1>1 DEF LinkInv, checkForRequest
  <2>2. PICK p : p = fd_array[CHOOSE i \in Waiting : \A j \in Waiting : i <= j]
    BY Zenon
  <2>3. p \in Proc /\ p \in Range(fd_array)
    BY Zenon, <2>1, <2>2, FirstWaiting
  <2>4. head'.proc = p /\ UNCHANGED <<level, sock, late, fd_array, responses, interrupt_value>>
    BY Zenon, <1>1, <2>2 DEF checkForRequest, progVars
  <2>5. sock[p] = "accepted"
    BY Zenon, <2>3 DEF LevelInv
  <2>6. QED
    BY Zenon, <2>4, <2>5, LevelRests
<1>2. CASE getRequest32
  <2>1. head.valid /\ head'.proc = head.proc
    BY Zenon, <1>2 DEF getRequest32, LinkInv, LinkTypes
  <2>2. QED
    BY Zenon, <1>2, <2>1, LevelRests DEF getRequest32, LevelInv, progVars
<1>3. CASE write_enable
  BY Zenon, <1>3, LevelRests DEF write_enable, linkVars, progVars, LevelInv
<1>4. QED
  BY Zenon, <1>1, <1>2, <1>3, LevelToAll, AnswerToOne DEF Simulator

LEMMA LevelThread ==
  ASSUME LinkInv, LevelInv, NEW p \in Proc, NEW t \in Thread, ThreadStep(p, t)
  PROVE  LevelInv'
<1>0. head' = head => (head'.valid => sock[head'.proc] = "accepted")
  BY Zenon DEF LevelInv
<1>1. CASE poll_for_answer(p, t)
  BY Zenon, <1>1, LevelReceived DEF poll_for_answer
<1>2. CASE read_end(p, t)
  BY Zenon, <1>0, <1>2, LevelRests DEF read_end, linkVars
<1>3. CASE bsim_poll_interrupt(p)
  <2>1. CASE poll_response(p)
    BY Zenon, <1>3, <2>1, LevelReceived DEF bsim_poll_interrupt
  <2>2. CASE UNCHANGED <<responses, interrupt_value>>
    BY Zenon, <1>0, <1>3, <2>2, LevelRests DEF bsim_poll_interrupt
  <2>3. QED
    BY Zenon, <1>3, <2>1, <2>2 DEF bsim_poll_interrupt
<1>4. CASE poller_access(p)
  BY Zenon, <1>0, <1>4, LevelRests DEF poller_access, simVars, readVars
<1>5. CASE init_bsim(p)
  BY Zenon, <1>0, <1>5, LevelRests DEF init_bsim, simVars, readVars
<1>6. QED
  BY Zenon, <1>1, <1>2, <1>3, <1>4, <1>5 DEF ThreadStep

\* A connected program knows the level of the interrupt line as interruptLevel last sent
\* it, or will once it has received what is on the way; one accepted while the line was
\* high takes it to be low until it falls.
THEOREM LevelIsKnown == ASSUME Proc # {} PROVE SimSpec => []LevelKnown
<1>1. SimInit => LevelInv
  BY DEF SimInit, LevelInv, LevelKnown, Range
<1>2. LinkInv /\ LevelInv /\ [SimNext]_allSimVars => LevelInv'
  <2> SUFFICES ASSUME LinkInv, LevelInv, [SimNext]_allSimVars PROVE LevelInv'
    BY Zenon
  <2>0. head' = head => (head'.valid => sock[head'.proc] = "accepted")
    BY Zenon DEF LevelInv
  <2>1. ASSUME NEW p \in Proc, connect_to_bsim(p) PROVE LevelInv'
    <3>1. /\ UNCHANGED <<level, late, fd_array, responses, interrupt_value, head>>
          /\ sock[p] = "none" /\ sock' = [sock EXCEPT ![p] = "backlog"]
      BY Zenon, <2>1 DEF connect_to_bsim, progVars
    <3>2. LevelKnown'
      <4>1. \A o, l : Knows(o, l)' <=> Knows(o, l)
        BY Zenon, <3>1 DEF Knows
      <4>2. QED
        BY Zenon, <3>1, <4>1 DEF LevelInv, LevelKnown
    <3>3. head.proc \in Proc
      BY Zenon DEF LinkInv, LinkTypes
    <3>4. QED
      BY Zenon, <3>1, <3>2, <3>3 DEF LevelInv
  <2>2. ASSUME NEW p \in Proc, main_access(p) PROVE LevelInv'
    BY ZenonT(60), <2>0, <2>2, LevelRests DEF main_access, simVars, readVars
  <2>3. ASSUME NEW p \in Proc, ind_enq(p) PROVE LevelInv'
    BY ZenonT(60), <2>0, <2>3, LevelRests DEF ind_enq, linkVars, progVars
  <2>4. CASE UNCHANGED allSimVars
    BY ZenonT(60), <2>0, <2>4, LevelRests DEF allSimVars, linkVars, progVars
  <2>5. QED
    BY Zenon, <2>1, <2>2, <2>3, <2>4, LevelSimulator, LevelAccepted, LevelThread DEF SimNext
<1>3. LevelInv => LevelKnown
  BY Zenon DEF LevelInv
<1>4. QED
  BY <1>1, <1>2, <1>3, LinkKept, PTL DEF SimSpec

=============================================================================
