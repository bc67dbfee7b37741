------------------------ MODULE EventServers_proofs ------------------------
(***************************************************************************)
(* Theorems about the event-driven servers, for any sets of clients, any   *)
(* number of pieces and events, and any size of the table.                 *)
(***************************************************************************)
EXTENDS EventServers, SequenceTheorems, WellFoundedInduction, TLAPS

-----------------------------------------------------------------------------
(* Lists.                                                                  *)

\* Induction over the natural numbers, for a set of them.
LEMMA SetInduction ==
  ASSUME NEW T, 0 \in T, \A n \in Nat : n \in T => n + 1 \in T
  PROVE  \A n \in Nat : n \in T
<1> SUFFICES ASSUME Nat \ T # {} PROVE FALSE
  OBVIOUS
<1>1. PICK n \in Nat \ T : \A m \in Nat \ T : ~ (<<m, n>> \in OpToRel(<, Nat))
  BY NatLessThanWellFounded, WFMin
<1>2. n # 0 /\ n - 1 \in Nat
  OBVIOUS
<1>3. <<n - 1, n>> \in OpToRel(<, Nat)
  <2> DEFINE m == n - 1
  <2>1. m \in Nat /\ n \in Nat /\ m < n
    BY <1>2
  <2> HIDE DEF m
  <2>2. <<m, n>> \in Nat \X Nat /\ <<m, n>>[1] < <<m, n>>[2]
    BY <2>1
  <2>3. <<m, n>> \in OpToRel(<, Nat)
    BY ONLY <2>2, Zenon DEF OpToRel
  <2> QED  BY <2>3 DEF m
<1>4. n - 1 \in T
  BY <1>1, <1>2, <1>3
<1> QED  BY <1>2, <1>4

\* The function that Only reads its result from is there.
LEMMA OnlyUnfolds ==
  ASSUME NEW S, NEW list, Len(list) \in Nat
  PROVE  \E f : /\ f[0] = <<>>
                /\ \A k \in 1 .. Len(list) :
                     f[k] = IF list[k] \in S THEN Append(f[k - 1], list[k])
                                             ELSE f[k - 1]
                /\ Echo!Only(S, list) = f[Len(list)]
<1> DEFINE Step(f, k) ==
             IF k = 0 THEN <<>>
             ELSE IF list[k] \in S THEN Append(f[k - 1], list[k]) ELSE f[k - 1]
           Good == {n \in Nat : \E f : f = [k \in 0 .. n |-> Step(f, k)]}
<1>1. 0 \in Good
  <2>1. [k \in 0 .. 0 |-> <<>>] = [k \in 0 .. 0 |-> Step([j \in 0 .. 0 |-> <<>>], k)]
    OBVIOUS
  <2> QED  BY <2>1
<1>2. ASSUME NEW n \in Nat, n \in Good PROVE n + 1 \in Good
  <2>1. PICK f : f = [k \in 0 .. n |-> Step(f, k)]
    BY <1>2
  <2> DEFINE g == [k \in 0 .. n + 1 |->
                     IF k = n + 1
                     THEN IF list[k] \in S THEN Append(f[k - 1], list[k]) ELSE f[k - 1]
                     ELSE f[k]]
  <2>2. ASSUME NEW k \in 0 .. n + 1 PROVE g[k] = Step(g, k)
    <3>1. CASE k = n + 1
      BY <3>1
    <3>2. CASE k # n + 1
      <4>1. k \in 0 .. n /\ g[k] = f[k] /\ (k # 0 => g[k - 1] = f[k - 1])
        BY <3>2
      <4>2. f[k] = Step(f, k)
        BY <2>1, <4>1
      <4> QED  BY <4>1, <4>2
    <3> QED  BY <3>1, <3>2
  <2>3. g = [k \in 0 .. n + 1 |-> Step(g, k)]
    BY <2>2
  <2>4. \E h : h = [k \in 0 .. n + 1 |-> Step(h, k)]
    BY <2>3
  <2> QED  BY <2>4
<1>3. Len(list) \in Good
  <2> HIDE DEF Good
  <2>1. \A n \in Nat : n \in Good
    BY <1>1, <1>2, SetInduction
  <2> QED  BY <2>1
<1>4. \E f : f = [k \in 0 .. Len(list) |-> Step(f, k)]
  BY <1>3
<1>5. PICK f : /\ f = [k \in 0 .. Len(list) |-> Step(f, k)]
               /\ Echo!Only(S, list) = f[Len(list)]
  BY <1>4 DEF Echo!Only
<1>6. \A k \in 0 .. Len(list) : f[k] = Step(f, k)
  <2> HIDE DEF Step
  <2> QED  BY <1>5
<1>7. f[0] = <<>>
  BY <1>6
<1>8. ASSUME NEW k \in 1 .. Len(list)
      PROVE  f[k] = IF list[k] \in S THEN Append(f[k - 1], list[k]) ELSE f[k - 1]
  BY <1>6
<1> QED  BY <1>5, <1>7, <1>8

\* What is on a list after it grew.
LEMMA OnAppend ==
  ASSUME NEW F, NEW list \in Seq(F), NEW y \in F
  PROVE  /\ Append(list, y) \in Seq(F)
         /\ \A x : Echo!OnList(x, Append(list, y)) <=> Echo!OnList(x, list) \/ x = y
<1>1. /\ Append(list, y) \in Seq(F) /\ Len(list) \in Nat
      /\ Len(Append(list, y)) = Len(list) + 1
      /\ \A k \in 1 .. Len(list) : Append(list, y)[k] = list[k]
      /\ Append(list, y)[Len(list) + 1] = y
  BY AppendProperties, LenProperties
<1> QED  BY <1>1 DEF Echo!OnList

\* Only returns a list, of what is on the list and in the set.
LEMMA OnlyFacts ==
  ASSUME NEW F, NEW S, NEW list \in Seq(F)
  PROVE  /\ Echo!Only(S, list) \in Seq(F)
         /\ \A x : Echo!OnList(x, Echo!Only(S, list)) <=> Echo!OnList(x, list) /\ x \in S
<1>0. PICK L \in Nat : L = Len(list) /\ \A k \in 1 .. L : list[k] \in F
  BY LenProperties, ElementOfSeq
<1>1. PICK f : /\ f[0] = <<>>
               /\ \A k \in 1 .. L :
                    f[k] = IF list[k] \in S THEN Append(f[k - 1], list[k])
                                            ELSE f[k - 1]
               /\ Echo!Only(S, list) = f[L]
  BY <1>0, OnlyUnfolds
<1>2. f[0] = <<>>
  BY <1>1
<1>3. ASSUME NEW n \in 1 .. L
      PROVE  f[n] = IF list[n] \in S THEN Append(f[n - 1], list[n]) ELSE f[n - 1]
  BY <1>1
<1> DEFINE Before(n, x) == \E k \in 1 .. n : list[k] = x /\ x \in S
           Fine(n) == /\ f[n] \in Seq(F)
                      /\ \A x : Echo!OnList(x, f[n]) <=> Before(n, x)
           Good == {n \in Nat : n <= L => Fine(n)}
<1>4. Fine(0)
  BY <1>2, EmptySeq DEF Echo!OnList
<1>5. ASSUME NEW n \in Nat, n + 1 <= L, Fine(n) PROVE Fine(n + 1)
  <2>1. n + 1 \in 1 .. L /\ list[n + 1] \in F /\ (n + 1) - 1 = n
    BY <1>0, <1>5
  <2>2. f[n + 1] = IF list[n + 1] \in S THEN Append(f[n], list[n + 1]) ELSE f[n]
    BY <1>3, <2>1
  <2>3. \A x : Before(n + 1, x) <=> Before(n, x) \/ (x = list[n + 1] /\ x \in S)
    OBVIOUS
  <2> HIDE DEF Before
  <2>4. CASE list[n + 1] \notin S
    BY <1>5, <2>2, <2>3, <2>4
  <2>5. CASE list[n + 1] \in S
    BY <1>5, <2>1, <2>2, <2>3, <2>5, OnAppend
  <2> QED  BY <2>4, <2>5
<1>6. L \in Good
  <2> HIDE DEF Fine
  <2>1. 0 \in Good /\ \A n \in Nat : n \in Good => n + 1 \in Good
    BY <1>4, <1>5
  <2> HIDE DEF Good
  <2>2. \A n \in Nat : n \in Good
    BY <2>1, SetInduction
  <2> QED  BY <2>2
<1> QED  BY <1>0, <1>1, <1>6 DEF Echo!OnList

\* What is on a list that lost its head, was cut or joined.
LEMMA OnTail ==
  ASSUME NEW F, NEW list \in Seq(F), list # <<>>
  PROVE  /\ Head(list) \in F /\ Tail(list) \in Seq(F)
         /\ \A x : Echo!OnList(x, list) <=> Echo!OnList(x, Tail(list)) \/ x = Head(list)
<1>1. /\ Head(list) \in F /\ Tail(list) \in Seq(F)
      /\ Len(list) \in Nat \ {0} /\ Len(Tail(list)) = Len(list) - 1
      /\ \A k \in 1 .. Len(Tail(list)) : Tail(list)[k] = list[k + 1]
      /\ Head(list) = list[1]
  BY HeadTailProperties, LenProperties, EmptySeq
<1>2. ASSUME NEW x, Echo!OnList(x, list), x # Head(list)
      PROVE  Echo!OnList(x, Tail(list))
  <2>1. PICK k \in 1 .. Len(list) : list[k] = x
    BY <1>2 DEF Echo!OnList
  <2>2. k - 1 \in 1 .. Len(Tail(list)) /\ Tail(list)[k - 1] = x
    BY <1>1, <1>2, <2>1
  <2> QED  BY <2>2 DEF Echo!OnList
<1> QED  BY <1>1, <1>2 DEF Echo!OnList

LEMMA OnConcat ==
  ASSUME NEW F, NEW s \in Seq(F), NEW t \in Seq(F)
  PROVE  /\ s \o t \in Seq(F)
         /\ \A x : Echo!OnList(x, s \o t) <=> Echo!OnList(x, s) \/ Echo!OnList(x, t)
<1>1. /\ s \o t \in Seq(F) /\ Len(s) \in Nat /\ Len(t) \in Nat
      /\ Len(s \o t) = Len(s) + Len(t)
      /\ \A k \in 1 .. Len(s) + Len(t) :
           (s \o t)[k] = IF k <= Len(s) THEN s[k] ELSE t[k - Len(s)]
  BY ConcatProperties, LenProperties
<1>2. ASSUME NEW x, Echo!OnList(x, t) PROVE Echo!OnList(x, s \o t)
  <2>1. PICK k \in 1 .. Len(t) : t[k] = x
    BY <1>2 DEF Echo!OnList
  <2>2. k + Len(s) \in 1 .. Len(s \o t) /\ (s \o t)[k + Len(s)] = x
    BY <1>1, <2>1
  <2> QED  BY <2>2 DEF Echo!OnList
<1>3. ASSUME NEW x, Echo!OnList(x, s) PROVE Echo!OnList(x, s \o t)
  BY <1>1, <1>3 DEF Echo!OnList
<1>4. ASSUME NEW x, Echo!OnList(x, s \o t) PROVE Echo!OnList(x, s) \/ Echo!OnList(x, t)
  <2>1. PICK k \in 1 .. Len(s) + Len(t) : (s \o t)[k] = x
    BY <1>1, <1>4 DEF Echo!OnList
  <2>2. CASE k <= Len(s)
    BY <1>1, <2>1, <2>2 DEF Echo!OnList
  <2>3. CASE ~(k <= Len(s))
    <3>1. k - Len(s) \in 1 .. Len(t) /\ t[k - Len(s)] = x
      BY <1>1, <2>1, <2>3
    <3> QED  BY <3>1 DEF Echo!OnList
  <2> QED  BY <2>2, <2>3
<1> QED  BY <1>1, <1>2, <1>3, <1>4

LEMMA OnCut ==
  ASSUME NEW F, NEW list \in Seq(F), NEW n \in 0 .. Len(list)
  PROVE  /\ SubSeq(list, 1, n) \in Seq(F) /\ SubSeq(list, n + 1, Len(list)) \in Seq(F)
         /\ \A x : Echo!OnList(x, list) <=>
              \/ Echo!OnList(x, SubSeq(list, 1, n))
              \/ Echo!OnList(x, SubSeq(list, n + 1, Len(list)))
<1> DEFINE s == SubSeq(list, 1, n)  t == SubSeq(list, n + 1, Len(list))
<1>0. Len(list) \in Nat /\ \A k \in 1 .. Len(list) : list[k] \in F
  BY LenProperties, ElementOfSeq
<1>1. /\ s \in Seq(F) /\ Len(s) = n /\ \A k \in 1 .. n : s[k] = list[k]
  BY <1>0, SubSeqProperties
<1>2. /\ t \in Seq(F) /\ Len(t) = Len(list) - n
      /\ \A k \in 1 .. Len(list) - n : t[k] = list[n + k]
  BY <1>0, SubSeqProperties
<1> HIDE DEF s, t
<1>3. ASSUME NEW x, Echo!OnList(x, list) PROVE Echo!OnList(x, s) \/ Echo!OnList(x, t)
  <2>1. PICK k \in 1 .. Len(list) : list[k] = x
    BY <1>3 DEF Echo!OnList
  <2>2. CASE k <= n
    BY <1>0, <1>1, <2>1, <2>2 DEF Echo!OnList
  <2>3. CASE ~(k <= n)
    <3>1. k - n \in 1 .. Len(t) /\ t[k - n] = x
      BY <1>0, <1>2, <2>1, <2>3
    <3> QED  BY <3>1 DEF Echo!OnList
  <2> QED  BY <2>2, <2>3
<1>4. ASSUME NEW x, Echo!OnList(x, s) PROVE Echo!OnList(x, list)
  BY <1>0, <1>1, <1>4 DEF Echo!OnList
<1>5. ASSUME NEW x, Echo!OnList(x, t) PROVE Echo!OnList(x, list)
  <2>1. PICK k \in 1 .. Len(t) : t[k] = x
    BY <1>5 DEF Echo!OnList
  <2>2. n + k \in 1 .. Len(list) /\ list[n + k] = x
    BY <1>0, <1>2, <2>1
  <2> QED  BY <2>2 DEF Echo!OnList
<1> QED  BY <1>1, <1>2, <1>3, <1>4, <1>5 DEF s, t
-----------------------------------------------------------------------------
(* Sockets: the listen queue holds each queued connection once, and no     *)
(* more is to be read of a connection than was sent.                       *)
Sock(Clients, Pieces) == INSTANCE Sockets

SockInv(D, P) ==
  /\ Sock(D, P)!SocketTypeOK
  /\ \A c \in D : input[c] <= sent[c]
  /\ \A k \in 1 .. Len(queue) : client[queue[k]] = "queued"
  /\ \A j, k \in 1 .. Len(queue) : queue[j] = queue[k] => j = k

\* News of a connection stays until it is read.
KeepsNews(D) ==
  \A c \in D :
    /\ input[c] > 0 => input'[c] > 0
    /\ peer[c] # "there" => peer'[c] # "there"

LEMMA SockInit ==
  ASSUME NEW D, NEW P \in Nat, Sock(D, P)!SocketInit
  PROVE  SockInv(D, P)
BY EmptySeq DEF Sock!SocketInit, SockInv, Sock!SocketTypeOK

LEMMA SockSame ==
  ASSUME NEW D, NEW P, SockInv(D, P), UNCHANGED <<queue, client, sent, input, peer>>,
         server' \in {"up", "exited", "killed", "undefined"}
  PROVE  SockInv(D, P)'
BY DEF SockInv, Sock!SocketTypeOK

LEMMA SockConnect ==
  ASSUME NEW D, NEW P \in Nat, SockInv(D, P), NEW c \in D, Sock(D, P)!Connect(c),
         server' = server
  PROVE  SockInv(D, P)'
<1> USE DEF SockInv, Sock!SocketTypeOK
<1>1. /\ client[c] = "none" /\ client' = [client EXCEPT ![c] = "queued"]
      /\ queue' = Append(queue, c) /\ UNCHANGED <<sent, input, peer>>
  BY DEF Sock!Connect
<1>2. /\ queue' \in Seq(D) /\ Len(queue) \in Nat /\ Len(queue') = Len(queue) + 1
      /\ \A k \in 1 .. Len(queue) : queue'[k] = queue[k] /\ queue[k] \in D
      /\ queue'[Len(queue) + 1] = c
  BY <1>1, AppendProperties, LenProperties, ElementOfSeq
<1>3. Sock(D, P)!SocketTypeOK'
  BY <1>1, <1>2
<1>4. \A k \in 1 .. Len(queue) : queue[k] # c
  BY <1>1, <1>2
<1>5. \A k \in 1 .. Len(queue') : client'[queue'[k]] = "queued"
  BY <1>1, <1>2, <1>4
<1>6. ASSUME NEW j \in 1 .. Len(queue'), NEW k \in 1 .. Len(queue'),
             queue'[j] = queue'[k]
      PROVE  j = k
  <2>1. CASE j \in 1 .. Len(queue) /\ k \in 1 .. Len(queue)
    BY <1>2, <1>6, <2>1
  <2>2. \A l \in 1 .. Len(queue') : l \in 1 .. Len(queue) \/ l = Len(queue) + 1
    BY <1>2
  <2>3. \A l \in 1 .. Len(queue) : queue'[l] # c
    BY <1>2, <1>4
  <2>4. queue'[Len(queue) + 1] = c
    BY <1>2
  <2> QED  BY <1>6, <2>1, <2>2, <2>3, <2>4
<1> QED  BY <1>1, <1>3, <1>5, <1>6

LEMMA SockArrival ==
  ASSUME NEW D, NEW P \in Nat, SockInv(D, P), NEW c \in D,
         Sock(D, P)!Connect(c) \/ Sock(D, P)!Send(c) \/ Sock(D, P)!Leave(c),
         server' = server
  PROVE  SockInv(D, P)' /\ KeepsNews(D)
<1> USE DEF SockInv, Sock!SocketTypeOK, KeepsNews
<1>1. CASE Sock(D, P)!Connect(c)
  BY <1>1, SockConnect DEF Sock!Connect
<1>2. CASE Sock(D, P)!Send(c)
  BY <1>2 DEF Sock!Send
<1>3. CASE Sock(D, P)!Leave(c)
  BY <1>3 DEF Sock!Leave
<1> QED  BY <1>1, <1>2, <1>3

\* accept takes the head of the queue, and opens it.
LEMMA SockTake ==
  ASSUME NEW D, NEW P \in Nat, SockInv(D, P), Sock(D, P)!TakeConnection, queue # <<>>,
         UNCHANGED <<sent, input, peer>>,
         server' \in {"up", "exited", "killed", "undefined"}
  PROVE  /\ SockInv(D, P)'
         /\ Head(queue) \in D /\ client[Head(queue)] = "queued"
         /\ client' = [client EXCEPT ![Head(queue)] = "open"]
         /\ queue' = Tail(queue)
<1> USE DEF SockInv, Sock!SocketTypeOK
<1>1. /\ client' = [client EXCEPT ![Head(queue)] = "open"] /\ queue' = Tail(queue)
  BY DEF Sock!TakeConnection
<1>2. /\ Head(queue) = queue[1] /\ Head(queue) \in D /\ queue' \in Seq(D)
      /\ Len(queue) \in Nat \ {0} /\ Len(queue') = Len(queue) - 1
      /\ \A k \in 1 .. Len(queue') : queue'[k] = queue[k + 1]
      /\ \A k \in 1 .. Len(queue) : queue[k] \in D
  BY <1>1, HeadTailProperties, LenProperties, EmptySeq, ElementOfSeq
<1>3. client[Head(queue)] = "queued"
  BY <1>2
<1>4. ASSUME NEW k \in 1 .. Len(queue') PROVE queue'[k] # Head(queue)
  <2>1. k + 1 \in 1 .. Len(queue) /\ 1 \in 1 .. Len(queue) /\ k + 1 # 1
    BY <1>2
  <2>2. queue[k + 1] # queue[1]
    BY <2>1
  <2> QED  BY <1>2, <2>2
<1>5. \A k \in 1 .. Len(queue') : client'[queue'[k]] = "queued"
  BY <1>1, <1>2, <1>4
<1>6. ASSUME NEW j \in 1 .. Len(queue'), NEW k \in 1 .. Len(queue'),
             queue'[j] = queue'[k]
      PROVE  j = k
  <2>1. j + 1 \in 1 .. Len(queue) /\ k + 1 \in 1 .. Len(queue)
    BY <1>2
  <2>2. queue[j + 1] = queue[k + 1]
    BY <1>2, <1>6
  <2>3. j + 1 = k + 1
    BY <2>1, <2>2
  <2> QED  BY <1>2, <2>3
<1>7. Sock(D, P)!SocketTypeOK'
  BY <1>1, <1>2
<1> QED  BY <1>1, <1>2, <1>3, <1>5, <1>6, <1>7

\* A server that reads, or closes what is not queued.
LEMMA SockServe ==
  ASSUME NEW D, NEW P \in Nat, SockInv(D, P), NEW c \in D, client[c] # "queued",
         UNCHANGED <<queue, sent>>,
         client' \in {client, [client EXCEPT ![c] = "closed"]},
         \/ input' = input
         \/ \E n \in 1 .. input[c] : input' = [input EXCEPT ![c] = @ - n],
         peer' \in {peer, [peer EXCEPT ![c] = "gone"]},
         server' \in {"up", "exited", "killed", "undefined"}
  PROVE  SockInv(D, P)'
<1> USE DEF SockInv, Sock!SocketTypeOK
<1>1. input' \in [D -> 0 .. P] /\ \A d \in D : input'[d] <= sent[d]
  <2>1. CASE input' = input
    BY <2>1
  <2>2. ASSUME NEW n \in 1 .. input[c], input' = [input EXCEPT ![c] = @ - n]
        PROVE  input' \in [D -> 0 .. P] /\ \A d \in D : input'[d] <= sent[d]
    BY <2>2
  <2> QED  BY <2>1, <2>2
<1>2. \A k \in 1 .. Len(queue) : client'[queue[k]] = "queued"
  BY ElementOfSeq
<1>3. /\ client' \in [D -> {"none", "queued", "open", "closed"}]
      /\ peer' \in [D -> {"there", "ended", "reset", "gone"}]
  OBVIOUS
<1> QED  BY <1>1, <1>2, <1>3
-----------------------------------------------------------------------------
(* epoll.  What is on the kernel's list is open, and the events in the     *)
(* server's hands are of connections that are open, or that it has closed  *)
(* itself; level-triggered, such an event is on the kernel's list as well. *)
EpollLists ==
  /\ et \in BOOLEAN /\ ready \in Seq(Echo!Fds) /\ batch \in Seq(Echo!Fds)
  /\ \A c \in EchoClients :
       /\ Echo!OnList(c, ready) => client[c] = "open"
       /\ Echo!OnList(c, batch) => client[c] \in {"open", "closed"}
       /\ ~et /\ Echo!OnList(c, batch) /\ client[c] = "open" => Echo!OnList(c, ready)

EpollInv == SockInv(EchoClients, EchoPieces) /\ EpollLists

Listed(c) == Echo!OnList(c, ready) \/ Echo!OnList(c, batch)

LEMMA EpollConstants ==
  /\ EchoPieces \in Nat /\ MAX_EVENT_NUM \in Nat \ {0}
  /\ LISTEN \notin EchoClients
BY EventAssumption DEF Echo!EpollAssumption, Echo!SocketAssumption

LEMMA EpollStarts ==
  ASSUME Sock(EchoClients, EchoPieces)!SocketInit, et \in BOOLEAN,
         ready = <<>>, batch = <<>>
  PROVE  EpollInv
<1>1. SockInv(EchoClients, EchoPieces)
  BY SockInit, EpollConstants
<1> QED  BY <1>1, EmptySeq DEF EpollInv, EpollLists, Echo!OnList

\* News of an open connection puts it on the kernel's list.
LEMMA EpollArrival ==
  ASSUME EpollInv, Echo!Arrival
  PROVE  /\ EpollInv' /\ KeepsNews(EchoClients)
         /\ UNCHANGED <<server, et>>
         /\ \A c \in EchoClients :
              /\ client'[c] = "open" => client[c] = "open"
              /\ Listed(c) => Listed(c)'
              /\ /\ client'[c] = "open"
                 /\ input'[c] # input[c] \/ peer'[c] # peer[c]
                 => Listed(c)'
<1>1. PICK c \in EchoClients : \/ Echo!Connect(c) /\ Echo!Raise(LISTEN)
                               \/ (Echo!Send(c) \/ Echo!Leave(c)) /\ Echo!Raise(c)
  BY DEF Echo!Arrival
<1>2. UNCHANGED <<server, et, batch>>
  BY DEF Echo!Arrival
<1>3. SockInv(EchoClients, EchoPieces)' /\ KeepsNews(EchoClients)
  <2>1. \/ Sock(EchoClients, EchoPieces)!Connect(c)
        \/ Sock(EchoClients, EchoPieces)!Send(c)
        \/ Sock(EchoClients, EchoPieces)!Leave(c)
    BY <1>1 DEF Sock!Connect, Sock!Send, Sock!Leave, Echo!Connect, Echo!Send, Echo!Leave
  <2> QED
    BY <1>2, <2>1, SockArrival, EpollConstants DEF EpollInv
<1>4. /\ client \in [EchoClients -> {"none", "queued", "open", "closed"}]
      /\ input \in [EchoClients -> 0 .. EchoPieces]
      /\ peer \in [EchoClients -> {"there", "ended", "reset", "gone"}]
  BY DEF EpollInv, SockInv, Sock!SocketTypeOK
<1>5. \A d \in EchoClients :
        /\ client'[d] \in {"open", "closed"} <=> client[d] \in {"open", "closed"}
        /\ client'[d] = "open" <=> client[d] = "open"
        /\ d # c => input'[d] = input[d] /\ peer'[d] = peer[d]
  BY <1>1, <1>4 DEF Echo!Connect, Echo!Send, Echo!Leave
<1>6. CASE Echo!Connect(c) /\ Echo!Raise(LISTEN)
  <2>1. LISTEN \in Echo!Fds /\ ready \in Seq(Echo!Fds)
    BY DEF Echo!Fds, EpollInv, EpollLists
  <2>2. /\ ready' \in Seq(Echo!Fds)
        /\ \A d : Echo!OnList(d, ready') <=>
             Echo!OnList(d, ready) \/ (d = LISTEN /\ Echo!OnList(d, ready'))
    BY <1>6, <2>1, OnAppend DEF Echo!Raise
  <2>3. UNCHANGED <<input, peer>>
    BY <1>6 DEF Echo!Connect
  <2> QED
    BY <1>2, <1>3, <1>5, <2>2, <2>3, EpollConstants DEF EpollInv, EpollLists, Listed
<1>7. CASE (Echo!Send(c) \/ Echo!Leave(c)) /\ Echo!Raise(c)
  <2>1. c \in Echo!Fds /\ ready \in Seq(Echo!Fds) /\ c # LISTEN
    BY EpollConstants DEF Echo!Fds, EpollInv, EpollLists
  <2>2. /\ ready' \in Seq(Echo!Fds)
        /\ \A d : Echo!OnList(d, ready') <=>
             Echo!OnList(d, ready) \/ (d = c /\ client[c] = "open")
    <3>1. CASE client[c] = "open" /\ ~Echo!OnList(c, ready)
      BY <1>7, <2>1, <3>1, OnAppend DEF Echo!Raise
    <3>2. CASE ~(client[c] = "open" /\ ~Echo!OnList(c, ready))
      <4>1. ready' = ready
        BY <1>7, <2>1, <3>2 DEF Echo!Raise
      <4> QED  BY <2>1, <3>2, <4>1
    <3> QED  BY <3>1, <3>2
  <2> QED
    BY <1>2, <1>3, <1>5, <2>2 DEF EpollInv, EpollLists, Listed
<1> QED  BY <1>1, <1>6, <1>7

\* epoll_wait: what is readable is told, or stays on the list.
LEMMA EpollWait ==
  ASSUME EpollInv, Echo!Wait
  PROVE  /\ EpollInv' /\ UNCHANGED <<queue, client, sent, input, peer, server, et>>
         /\ \A c \in EchoClients : Listed(c) /\ Echo!Readable(c) => Listed(c)'
<1> DEFINE S == {fd \in Echo!Fds : Echo!Readable(fd)}
           news == Echo!Only(S, ready)
           n == IF Len(news) < MAX_EVENT_NUM THEN Len(news) ELSE MAX_EVENT_NUM
           told == SubSeq(news, 1, n)
           rest == SubSeq(news, n + 1, Len(news))
           back == IF et THEN <<>> ELSE Echo!Only(EchoClients, told)
<1>1. batch = <<>> /\ batch' = told /\ ready' = rest \o back
  BY DEF Echo!Wait
<1>2. UNCHANGED <<queue, client, sent, input, peer, server, et>>
  BY DEF Echo!Wait, Echo!connection
<1>3. ready \in Seq(Echo!Fds) /\ et \in BOOLEAN
  BY DEF EpollInv, EpollLists
<1>4. /\ news \in Seq(Echo!Fds)
      /\ \A x : Echo!OnList(x, news) <=> Echo!OnList(x, ready) /\ x \in S
  BY <1>3, OnlyFacts
<1>5. n \in 0 .. Len(news)
  <2>1. Len(news) \in Nat
    BY <1>4, LenProperties
  <2> HIDE DEF news
  <2> QED  BY <2>1, EpollConstants
<1>6. /\ told \in Seq(Echo!Fds) /\ rest \in Seq(Echo!Fds)
      /\ \A x : Echo!OnList(x, news) <=> Echo!OnList(x, told) \/ Echo!OnList(x, rest)
  <2> HIDE DEF news, n
  <2> QED  BY <1>4, <1>5, OnCut
<1>7. /\ back \in Seq(Echo!Fds)
      /\ \A x : Echo!OnList(x, back) <=> ~et /\ Echo!OnList(x, told) /\ x \in EchoClients
  <2> HIDE DEF told
  <2>1. CASE et
    BY <2>1, EmptySeq DEF Echo!OnList
  <2>2. CASE ~et
    BY <1>6, <2>2, OnlyFacts
  <2> QED  BY <2>1, <2>2
<1>8. /\ ready' \in Seq(Echo!Fds)
      /\ \A x : Echo!OnList(x, ready') <=> Echo!OnList(x, rest) \/ Echo!OnList(x, back)
  <2> HIDE DEF rest, back
  <2> QED  BY <1>1, <1>6, <1>7, OnConcat
<1> HIDE DEF S, news, told, rest, back
<1>9. \A x : /\ ~Echo!OnList(x, batch)
             /\ Echo!OnList(x, batch') <=> Echo!OnList(x, told)
  BY <1>1, EmptySeq DEF Echo!OnList
<1>10. EpollLists'
  <2>1. et' \in BOOLEAN /\ ready' \in Seq(Echo!Fds) /\ batch' \in Seq(Echo!Fds)
    BY <1>1, <1>2, <1>3, <1>6, <1>8
  <2>2. ASSUME NEW c \in EchoClients
        PROVE  /\ Echo!OnList(c, ready') => client'[c] = "open"
               /\ Echo!OnList(c, batch') => client'[c] \in {"open", "closed"}
               /\ ~et' /\ Echo!OnList(c, batch') => Echo!OnList(c, ready')
    <3>1. Echo!OnList(c, ready') \/ Echo!OnList(c, batch') => Echo!OnList(c, ready)
      BY <1>4, <1>6, <1>7, <1>8, <1>9
    <3> QED
      BY <1>2, <1>7, <1>8, <1>9, <3>1 DEF EpollInv, EpollLists
  <2> QED  BY <2>1, <2>2 DEF EpollLists
<1>11. SockInv(EchoClients, EchoPieces)'
  BY <1>2, SockSame DEF EpollInv, SockInv, Sock!SocketTypeOK
<1>12. ASSUME NEW c \in EchoClients, Listed(c), Echo!Readable(c) PROVE Listed(c)'
  <2>1. c \in S
    BY <1>12 DEF S, Echo!Fds
  <2>2. Echo!OnList(c, ready)
    BY <1>9, <1>12 DEF Listed
  <2> QED  BY <1>4, <1>6, <1>8, <1>9, <2>1, <2>2 DEF Listed
<1> QED  BY <1>2, <1>10, <1>11, <1>12 DEF EpollInv

\* accept: a connection that has something to read is on the list at once.
LEMMA EpollAccept ==
  ASSUME EpollInv, Echo!Accept
  PROVE  /\ EpollInv' /\ UNCHANGED <<sent, input, peer, server, et>>
         /\ queue # <<>> /\ Sock(EchoClients, EchoPieces)!TakeConnection
         /\ \A c \in EchoClients :
              /\ Listed(c) => Listed(c)'
              /\ client'[c] # client[c] => client'[c] = "open"
                                           /\ (Echo!Readable(c) => Listed(c)')
<1>1. /\ batch # <<>> /\ Head(batch) = LISTEN /\ queue # <<>>
      /\ batch' = Tail(batch) /\ UNCHANGED <<sent, input, peer, server, et>>
      /\ ready' = IF Echo!Readable(Head(queue)) THEN Append(ready, Head(queue))
                                                ELSE ready
  BY DEF Echo!Accept
<1>2. Sock(EchoClients, EchoPieces)!TakeConnection
  BY DEF Echo!Accept, Echo!TakeConnection, Sock!TakeConnection
<1>3. server \in {"up", "exited", "killed", "undefined"}
      /\ client \in [EchoClients -> {"none", "queued", "open", "closed"}]
  BY DEF EpollInv, SockInv, Sock!SocketTypeOK
<1>4. /\ SockInv(EchoClients, EchoPieces)'
      /\ Head(queue) \in EchoClients /\ client[Head(queue)] = "queued"
      /\ client' = [client EXCEPT ![Head(queue)] = "open"]
  BY <1>1, <1>2, <1>3, SockTake, EpollConstants DEF EpollInv
<1> DEFINE h == Head(queue)
<1> HIDE DEF h
<1>5. ready \in Seq(Echo!Fds) /\ batch \in Seq(Echo!Fds) /\ h \in Echo!Fds
  BY <1>4 DEF EpollInv, EpollLists, Echo!Fds, h
<1>6. /\ ready' \in Seq(Echo!Fds)
      /\ \A x : Echo!OnList(x, ready') <=>
           Echo!OnList(x, ready) \/ (x = h /\ Echo!Readable(h))
  BY <1>1, <1>5, OnAppend DEF h
<1>7. /\ batch' \in Seq(Echo!Fds)
      /\ \A x : Echo!OnList(x, batch) <=> Echo!OnList(x, batch') \/ x = LISTEN
  BY <1>1, <1>5, OnTail
<1>8. h \in EchoClients /\ client[h] = "queued" /\ client' = [client EXCEPT ![h] = "open"]
  BY <1>4 DEF h
<1>9. \A c \in EchoClients : Echo!OnList(c, batch') <=> Echo!OnList(c, batch)
  BY <1>7, EpollConstants
<1>10. EpollLists'
  <2>1. ASSUME NEW c \in EchoClients
        PROVE  /\ Echo!OnList(c, ready') => client'[c] = "open"
               /\ Echo!OnList(c, batch') => client'[c] \in {"open", "closed"}
               /\ ~et' /\ Echo!OnList(c, batch') /\ client'[c] = "open"
                    => Echo!OnList(c, ready')
    BY <1>1, <1>3, <1>6, <1>8, <1>9 DEF EpollInv, EpollLists
  <2> QED
    BY <1>1, <1>6, <1>7, <2>1 DEF EpollInv, EpollLists
<1>11. ASSUME NEW c \in EchoClients
       PROVE  /\ Listed(c) => Listed(c)'
              /\ client'[c] # client[c] => client'[c] = "open"
                                           /\ (Echo!Readable(c) => Listed(c)')
  BY <1>3, <1>6, <1>8, <1>9 DEF Listed
<1> QED  BY <1>1, <1>2, <1>4, <1>10, <1>11 DEF EpollInv

\* A step that serves the connection of the first event, which it may close,
\* and may be done with.
LEMMA EpollServe ==
  ASSUME EpollInv, NEW c \in EchoClients, Echo!At(c),
         \/ client' = client /\ ready' = ready
         \/ /\ client' = [client EXCEPT ![c] = "closed"]
            /\ ready' = Echo!Only(Echo!Fds \ {c}, ready),
         batch' \in {batch, Tail(batch)}, et' = et
  PROVE  /\ EpollLists' /\ client[c] \in {"open", "closed"}
         /\ \A d \in EchoClients : d # c /\ Listed(d) => Listed(d)'
         /\ client' = client /\ Echo!OnList(c, ready) => Listed(c)'
<1>1. /\ batch # <<>> /\ Head(batch) = c /\ c # LISTEN
      /\ ready \in Seq(Echo!Fds) /\ batch \in Seq(Echo!Fds)
      /\ client \in [EchoClients -> {"none", "queued", "open", "closed"}]
  BY EpollConstants DEF Echo!At, EpollInv, EpollLists, SockInv, Sock!SocketTypeOK
<1>2. /\ Tail(batch) \in Seq(Echo!Fds)
      /\ \A x : Echo!OnList(x, batch) <=> Echo!OnList(x, Tail(batch)) \/ x = c
  BY <1>1, OnTail
<1>3. client[c] \in {"open", "closed"}
  BY <1>2 DEF EpollInv, EpollLists
<1>4. /\ batch' \in Seq(Echo!Fds)
      /\ \A x : Echo!OnList(x, batch') => Echo!OnList(x, batch)
      /\ \A x : x # c => (Echo!OnList(x, batch') <=> Echo!OnList(x, batch))
  BY <1>1, <1>2
<1>5. CASE client' = client /\ ready' = ready
  BY <1>1, <1>3, <1>4, <1>5 DEF EpollInv, EpollLists, Listed
<1>6. CASE /\ client' = [client EXCEPT ![c] = "closed"]
           /\ ready' = Echo!Only(Echo!Fds \ {c}, ready)
  <2>1. /\ ready' \in Seq(Echo!Fds)
        /\ \A x : Echo!OnList(x, ready') <=> Echo!OnList(x, ready) /\ x \in Echo!Fds \ {c}
    BY <1>1, <1>6, OnlyFacts
  <2>2. \A d \in EchoClients : Echo!OnList(d, ready') <=> Echo!OnList(d, ready) /\ d # c
    BY <2>1 DEF Echo!Fds
  <2>3. \A d \in EchoClients : client'[d] = IF d = c THEN "closed" ELSE client[d]
    BY <1>1, <1>6
  <2>4. EpollLists'
    BY <1>1, <1>4, <2>1, <2>2, <2>3 DEF EpollInv, EpollLists
  <2>5. client' = client => client[c] = "closed"
    BY <2>3
  <2> QED
    BY <1>3, <1>4, <2>2, <2>4, <2>5 DEF Listed, EpollInv, EpollLists
<1> QED  BY <1>5, <1>6

LEMMA EpollReadable ==
  ASSUME NEW c \in EchoClients
  PROVE  /\ Echo!Readable(c) <=> input[c] > 0 \/ peer[c] # "there"
         /\ Echo!Readable(c)' <=> input'[c] > 0 \/ peer'[c] # "there"
BY EpollConstants DEF Echo!Readable

\* What the calls of a server do to the connection, whatever they return.
LEMMA EchoCalls ==
  ASSUME NEW c \in EchoClients, EpollInv,
         \/ Echo!Echo(c) /\ Echo!ReadResult(c) = "data"
         \/ Echo!Close(c)
         \/ UNCHANGED <<queue, client, sent, input, peer>>
            /\ server' \in {server, "exited"}
  PROVE  /\ UNCHANGED <<queue, sent>>
         /\ client' \in {client, [client EXCEPT ![c] = "closed"]}
         /\ \/ input' = input
            \/ \E n \in 1 .. input[c] : input' = [input EXCEPT ![c] = @ - n]
         /\ peer' \in {peer, [peer EXCEPT ![c] = "gone"]}
         /\ server' \in {"up", "exited", "killed", "undefined"}
         /\ \A d \in EchoClients : d # c => input'[d] = input[d] /\ peer'[d] = peer[d]
<1>0. /\ server \in {"up", "exited", "killed", "undefined"}
      /\ input \in [EchoClients -> 0 .. EchoPieces] /\ EchoPieces \in Nat
      /\ peer \in [EchoClients -> {"there", "ended", "reset", "gone"}]
  BY EpollConstants DEF EpollInv, SockInv, Sock!SocketTypeOK
<1>1. CASE Echo!Echo(c) /\ Echo!ReadResult(c) = "data"
  <2>1. input[c] > 0
    BY <1>1 DEF Echo!ReadResult
  <2>2. /\ input' = [input EXCEPT ![c] = @ - 1] /\ UNCHANGED <<queue, client, sent>>
        /\ peer' \in {peer, [peer EXCEPT ![c] = "gone"]}
        /\ server' \in {server, "killed"}
    BY <1>1 DEF Echo!Echo, Echo!Write, Echo!ResetReported
  <2>3. 1 \in 1 .. input[c]
    BY <1>0, <2>1
  <2> QED  BY <1>0, <2>2, <2>3
<1>2. CASE Echo!Close(c)
  BY <1>0, <1>2 DEF Echo!Close
<1>3. CASE UNCHANGED <<queue, client, sent, input, peer>> /\ server' \in {server, "exited"}
  BY <1>0, <1>3
<1> QED  BY <1>1, <1>2, <1>3

\* What a read returns when it returns no data.
LEMMA NoDataRead ==
  ASSUME NEW c \in EchoClients, EpollInv, Echo!ReadResult(c) = "none"
  PROVE  ~Echo!Readable(c)
BY EpollReadable DEF Echo!ReadResult, EpollInv, SockInv, Sock!SocketTypeOK

\* The steps of the echo server that serve a connection.
LEMMA EchoServes ==
  ASSUME EpollInv, Echo!NewsReported, server = "up", NEW c \in EchoClients,
         \/ Echo!L_Read(c) \/ Echo!E_Data(c) \/ Echo!E_End(c)
         \/ Echo!E_EndLeaves(c) \/ Echo!E_Later(c) \/ Echo!E_Error(c)
  PROVE  EpollInv' /\ Echo!NewsReported'
<1> USE DEF Echo!L_Read, Echo!E_Data, Echo!E_End, Echo!E_EndLeaves, Echo!E_Later,
        Echo!E_Error, Echo!Done, Echo!epoll, Echo!connection
<1>1. /\ Echo!At(c) /\ batch' \in {batch, Tail(batch)} /\ et' = et
  OBVIOUS
<1>2. \/ Echo!Echo(c) /\ Echo!ReadResult(c) = "data"
      \/ Echo!Close(c)
      \/ UNCHANGED <<queue, client, sent, input, peer>> /\ server' \in {server, "exited"}
  OBVIOUS
<1>3. \/ client' = client /\ ready' = ready
      \/ /\ client' = [client EXCEPT ![c] = "closed"]
         /\ ready' = Echo!Only(Echo!Fds \ {c}, ready)
  BY DEF Echo!Echo, Echo!Close, Echo!Forget
<1> HIDE DEF Echo!L_Read, Echo!E_Data, Echo!E_End, Echo!E_EndLeaves, Echo!E_Later,
        Echo!E_Error
<1>4. /\ EpollLists' /\ client[c] \in {"open", "closed"}
      /\ \A d \in EchoClients : d # c /\ Listed(d) => Listed(d)'
      /\ client' = client /\ Echo!OnList(c, ready) => Listed(c)'
  BY <1>1, <1>3, EpollServe
<1>5. /\ UNCHANGED <<queue, sent>>
      /\ client' \in {client, [client EXCEPT ![c] = "closed"]}
      /\ \/ input' = input
         \/ \E n \in 1 .. input[c] : input' = [input EXCEPT ![c] = @ - n]
      /\ peer' \in {peer, [peer EXCEPT ![c] = "gone"]}
      /\ server' \in {"up", "exited", "killed", "undefined"}
      /\ \A d \in EchoClients : d # c => input'[d] = input[d] /\ peer'[d] = peer[d]
  BY <1>2, EchoCalls
<1>6. SockInv(EchoClients, EchoPieces)'
  BY <1>4, <1>5, SockServe, EpollConstants DEF EpollInv
<1>7. ASSUME NEW d \in EchoClients, client'[d] = "open", Echo!Readable(d)',
             server' = "up"
      PROVE  Listed(d)'
  <2>1. client \in [EchoClients -> {"none", "queued", "open", "closed"}]
    BY DEF EpollInv, SockInv, Sock!SocketTypeOK
  <2>2. CASE d # c
    <3>1. client[d] = "open" /\ Echo!Readable(d)
      BY <1>5, <1>7, <2>1, <2>2, EpollReadable
    <3>2. Listed(d)
      BY <3>1 DEF Echo!NewsReported, Listed
    <3> QED  BY <1>4, <2>2, <3>2
  <2>3. CASE d = c
    <3>1. client' = client /\ client[c] = "open"
      BY <1>5, <1>7, <2>1, <2>3
    <3>2. CASE Echo!L_Read(c)
      <4>1. ~et /\ Echo!OnList(c, batch)
        BY <1>1, <3>2, OnTail DEF Echo!L_Read, Echo!At, EpollInv, EpollLists
      <4> QED  BY <1>4, <2>3, <3>1, <4>1 DEF EpollInv, EpollLists
    <3>3. CASE Echo!E_Data(c)
      <4>1. Echo!OnList(c, batch) /\ batch' = batch
        BY <1>1, <3>3, OnTail DEF Echo!E_Data, Echo!At, EpollInv, EpollLists
      <4> QED  BY <2>3, <4>1 DEF Listed
    <3>4. CASE Echo!E_Later(c)
      <4>1. ~Echo!Readable(c) /\ UNCHANGED <<input, peer>>
        BY <3>4, NoDataRead DEF Echo!E_Later
      <4> QED  BY <1>7, <2>3, <4>1, EpollReadable
    <3>5. CASE Echo!E_End(c) \/ Echo!E_EndLeaves(c) \/ Echo!E_Error(c)
      <4>1. client' = [client EXCEPT ![c] = "closed"]
        BY <3>5 DEF Echo!E_End, Echo!E_EndLeaves, Echo!E_Error, Echo!Close
      <4> QED  BY <2>1, <3>1, <4>1
    <3> QED  BY <3>2, <3>3, <3>4, <3>5
  <2> QED  BY <2>2, <2>3
<1> QED  BY <1>4, <1>6, <1>7 DEF EpollInv, Echo!NewsReported, Listed

LEMMA EchoServerNext ==
  ASSUME EpollInv, Echo!NewsReported,
         Echo!ServerStep \/ Echo!Arrival
         \/ UNCHANGED <<queue, client, sent, input, peer, server, et, ready, batch>>
  PROVE  EpollInv' /\ Echo!NewsReported'
<1>1. CASE Echo!Arrival
  <2>1. /\ EpollInv' /\ UNCHANGED <<server, et>>
        /\ \A c \in EchoClients :
             /\ client'[c] = "open" => client[c] = "open"
             /\ Listed(c) => Listed(c)'
             /\ client'[c] = "open" /\ (input'[c] # input[c] \/ peer'[c] # peer[c])
                  => Listed(c)'
    BY <1>1, EpollArrival
  <2>2. ASSUME NEW c \in EchoClients, server' = "up", client'[c] = "open",
               Echo!Readable(c)'
        PROVE  Listed(c)'
    BY <2>1, <2>2, EpollReadable DEF Echo!NewsReported, Listed
  <2> QED  BY <2>1, <2>2 DEF Echo!NewsReported, Listed
<1>2. CASE server = "up" /\ Echo!Wait
  <2>1. /\ EpollInv' /\ UNCHANGED <<queue, client, sent, input, peer, server, et>>
        /\ \A c \in EchoClients : Listed(c) /\ Echo!Readable(c) => Listed(c)'
    BY <1>2, EpollWait
  <2>2. ASSUME NEW c \in EchoClients, server' = "up", client'[c] = "open",
               Echo!Readable(c)'
        PROVE  Listed(c)'
    BY <2>1, <2>2, EpollReadable DEF Echo!NewsReported, Listed
  <2> QED  BY <2>1, <2>2 DEF Echo!NewsReported, Listed
<1>3. CASE server = "up" /\ Echo!Accept
  <2>1. /\ EpollInv' /\ UNCHANGED <<sent, input, peer, server, et>>
        /\ \A c \in EchoClients :
             /\ Listed(c) => Listed(c)'
             /\ client'[c] # client[c] => client'[c] = "open"
                                          /\ (Echo!Readable(c) => Listed(c)')
    BY <1>3, EpollAccept
  <2>2. ASSUME NEW c \in EchoClients, server' = "up", client'[c] = "open",
               Echo!Readable(c)'
        PROVE  Listed(c)'
    BY <2>1, <2>2, EpollReadable DEF Echo!NewsReported, Listed
  <2> QED  BY <2>1, <2>2 DEF Echo!NewsReported, Listed
<1>4. ASSUME NEW c \in EchoClients, server = "up",
             \/ Echo!L_Read(c) \/ Echo!E_Data(c) \/ Echo!E_End(c)
             \/ Echo!E_EndLeaves(c) \/ Echo!E_Later(c) \/ Echo!E_Error(c)
      PROVE  EpollInv' /\ Echo!NewsReported'
  BY <1>4, EchoServes
<1>5. CASE UNCHANGED <<queue, client, sent, input, peer, server, et, ready, batch>>
  <2>1. SockInv(EchoClients, EchoPieces)'
    BY <1>5, SockSame DEF EpollInv, SockInv, Sock!SocketTypeOK
  <2>2. \A c \in EchoClients : Echo!Readable(c)' <=> Echo!Readable(c)
    BY <1>5, EpollReadable
  <2> QED
    BY <1>5, <2>1, <2>2 DEF EpollInv, EpollLists, Echo!NewsReported, Echo!OnList
<1> QED  BY <1>1, <1>2, <1>3, <1>4, <1>5 DEF Echo!ServerStep
-----------------------------------------------------------------------------
(* The http server on epoll is edge-triggered, and has the same waits.     *)
HttpInv == /\ EpollInv /\ et = TRUE
           /\ line \in 0 .. EchoPieces
           /\ Http!InputReported

LEMMA SameEpoll ==
  /\ Http!Arrival <=> Echo!Arrival
  /\ Http!Wait <=> Echo!Wait
  /\ Http!Accept <=> Echo!Accept
<1> USE DEF Http!Readable, Echo!Readable, Http!OnList, Echo!OnList,
        Http!Fds, Echo!Fds, Http!Only, Echo!Only, Http!connection, Echo!connection
<1>1. Http!Arrival <=> Echo!Arrival
  BY DEF Http!Arrival, Echo!Arrival, Http!Connect, Echo!Connect, Http!Send, Echo!Send,
     Http!Leave, Echo!Leave, Http!Raise, Echo!Raise
<1>2. Http!Wait <=> Echo!Wait
  BY DEF Http!Wait, Echo!Wait
<1>3. Http!Accept <=> Echo!Accept
  BY DEF Http!Accept, Echo!Accept, Http!TakeConnection, Echo!TakeConnection
<1> QED  BY <1>1, <1>2, <1>3

\* The steps of the http server that serve a connection.
LEMMA HttpServes ==
  ASSUME HttpInv, server = "up", NEW c \in EchoClients,
         Http!R_Line(c) \/ Http!R_Reply(c) \/ Http!R_Drop(c)
  PROVE  HttpInv'
<1>0. /\ server \in {"up", "exited", "killed", "undefined"} /\ EchoPieces \in Nat
      /\ input \in [EchoClients -> 0 .. EchoPieces]
      /\ sent \in [EchoClients -> 0 .. EchoPieces]
      /\ \A d \in EchoClients : input[d] <= sent[d]
      /\ client \in [EchoClients -> {"none", "queued", "open", "closed"}]
      /\ peer \in [EchoClients -> {"there", "ended", "reset", "gone"}]
      /\ et = TRUE /\ line \in 0 .. EchoPieces /\ EpollInv
  BY EpollConstants DEF HttpInv, EpollInv, SockInv, Sock!SocketTypeOK
<1>1. /\ Echo!At(c) /\ batch' \in {batch, Tail(batch)} /\ et' = et
      /\ UNCHANGED <<queue, sent>>
  BY DEF Http!R_Line, Http!R_Reply, Http!R_Drop, Http!At, Echo!At, Http!epoll
<1>2. \/ client' = client /\ ready' = ready
      \/ /\ client' = [client EXCEPT ![c] = "closed"]
         /\ ready' = Echo!Only(Echo!Fds \ {c}, ready)
  BY DEF Http!R_Line, Http!R_Reply, Http!R_Drop, Http!epoll,
         Http!Only, Echo!Only, Http!Fds, Echo!Fds
<1>3. /\ EpollLists' /\ client[c] \in {"open", "closed"}
      /\ \A d \in EchoClients : d # c /\ Listed(d) => Listed(d)'
  BY <1>0, <1>1, <1>2, EpollServe
<1>4. /\ \/ input' = input
         \/ \E n \in 1 .. input[c] : input' = [input EXCEPT ![c] = @ - n]
      /\ peer' \in {peer, [peer EXCEPT ![c] = "gone"]}
      /\ server' \in {"up", "exited", "killed", "undefined"}
      /\ \A d \in EchoClients : d # c => input'[d] = input[d]
      /\ line' \in 0 .. EchoPieces
  <2>1. CASE Http!R_Line(c)
    <3>1. input[c] > 0
      BY <2>1 DEF Http!R_Line, Http!ReadResult
    <3>2. input' = [input EXCEPT ![c] = @ - 1] /\ 1 \in 1 .. input[c]
      BY <1>0, <2>1, <3>1 DEF Http!R_Line
    <3>3. sent[c] - input[c] + 1 \in 0 .. EchoPieces
      BY <1>0, <3>1
    <3>4. line' \in 0 .. EchoPieces
      BY <1>0, <2>1, <3>3 DEF Http!R_Line, Http!NextPiece
    <3>5. UNCHANGED <<peer, server>>
      BY <2>1 DEF Http!R_Line
    <3> QED  BY <1>0, <3>2, <3>4, <3>5
  <2>2. CASE Http!R_Reply(c)
    BY <1>0, <2>2 DEF Http!R_Reply, Http!Write, Http!ResetReported
  <2>3. CASE Http!R_Drop(c)
    BY <1>0, <2>3 DEF Http!R_Drop, Http!ResetReported
  <2> QED  BY <2>1, <2>2, <2>3
<1>5. SockInv(EchoClients, EchoPieces)'
  BY <1>0, <1>1, <1>2, <1>3, <1>4, SockServe DEF EpollInv
<1>6. ASSUME NEW d \in EchoClients, client'[d] = "open", input'[d] > 0 PROVE Listed(d)'
  <2>1. CASE d # c
    <3>1. client[d] = "open" /\ input[d] > 0
      BY <1>0, <1>2, <1>4, <1>6, <2>1
    <3>2. Listed(d)
      BY <3>1, server = "up" DEF HttpInv, Http!InputReported, Http!OnList, Listed, Echo!OnList
    <3> QED  BY <1>3, <2>1, <3>2
  <2>2. CASE d = c
    <3>1. CASE Http!R_Line(c)
      <4>1. Echo!OnList(c, batch) /\ batch' = batch
        BY <1>1, <3>1, OnTail DEF Http!R_Line, Http!epoll, Echo!At, HttpInv, EpollInv, EpollLists
      <4> QED  BY <2>2, <4>1 DEF Listed
    <3>2. CASE Http!R_Reply(c)
      BY <1>0, <1>6, <2>2, <3>2 DEF Http!R_Reply
    <3>3. CASE Http!R_Drop(c)
      <4>1. \/ input[c] = 0 /\ input' = input
            \/ client[c] = "closed" /\ client' = client
        BY <1>0, <3>3 DEF Http!R_Drop, Http!NoMore, Http!ReadResult
      <4> QED  BY <1>6, <2>2, <4>1
    <3> QED  BY <3>1, <3>2, <3>3
  <2> QED  BY <2>1, <2>2
<1>7. Http!InputReported'
  BY <1>6 DEF Http!InputReported, Http!OnList, Listed, Echo!OnList
<1> QED  BY <1>0, <1>1, <1>3, <1>4, <1>5, <1>7 DEF HttpInv, EpollInv

LEMMA HttpNext ==
  ASSUME HttpInv,
         Http!ServerStep \/ (Http!Arrival /\ line' = line)
         \/ UNCHANGED <<queue, client, sent, input, peer, server, et, ready, batch, line>>
  PROVE  HttpInv'
<1>0. EpollInv /\ et = TRUE /\ line \in 0 .. EchoPieces
      /\ input \in [EchoClients -> 0 .. EchoPieces]
      /\ \A c \in EchoClients : server = "up" /\ client[c] = "open" /\ input[c] > 0
           => Listed(c)
  BY DEF HttpInv, EpollInv, SockInv, Sock!SocketTypeOK, Http!InputReported, Http!OnList,
         Listed, Echo!OnList
<1>1. ASSUME EpollInv', et' = et, line' = line,
             \A c \in EchoClients : server' = "up" /\ client'[c] = "open" /\ input'[c] > 0
               => Listed(c)'
      PROVE  HttpInv'
  BY <1>0, <1>1 DEF HttpInv, Http!InputReported, Http!OnList, Listed, Echo!OnList
<1>2. CASE Http!Arrival /\ line' = line
  <2>1. /\ EpollInv' /\ UNCHANGED <<server, et>>
        /\ \A c \in EchoClients :
             /\ client'[c] = "open" => client[c] = "open"
             /\ Listed(c) => Listed(c)'
             /\ client'[c] = "open" /\ (input'[c] # input[c] \/ peer'[c] # peer[c])
                  => Listed(c)'
    BY <1>0, <1>2, EpollArrival, SameEpoll
  <2> QED  BY <1>0, <1>1, <1>2, <2>1
<1>3. CASE server = "up" /\ Http!Wait /\ line' = line
  <2>1. /\ EpollInv' /\ UNCHANGED <<queue, client, sent, input, peer, server, et>>
        /\ \A c \in EchoClients : Listed(c) /\ Echo!Readable(c) => Listed(c)'
    BY <1>0, <1>3, EpollWait, SameEpoll
  <2> QED  BY <1>0, <1>1, <1>3, <2>1, EpollReadable
<1>4. CASE server = "up" /\ Http!Accept /\ line' = line
  <2>1. /\ EpollInv' /\ UNCHANGED <<sent, input, peer, server, et>>
        /\ \A c \in EchoClients :
             /\ Listed(c) => Listed(c)'
             /\ client'[c] # client[c] => client'[c] = "open"
                                          /\ (Echo!Readable(c) => Listed(c)')
    BY <1>0, <1>4, EpollAccept, SameEpoll
  <2> QED  BY <1>0, <1>1, <1>4, <2>1, EpollReadable
<1>5. ASSUME NEW c \in EchoClients, server = "up",
             Http!R_Line(c) \/ Http!R_Reply(c) \/ Http!R_Drop(c)
      PROVE  HttpInv'
  BY <1>5, HttpServes
<1>6. CASE UNCHANGED <<queue, client, sent, input, peer, server, et, ready, batch, line>>
  <2>1. SockInv(EchoClients, EchoPieces)'
    BY <1>6, SockSame DEF HttpInv, EpollInv, SockInv, Sock!SocketTypeOK
  <2> QED
    BY <1>0, <1>1, <1>6, <2>1 DEF EpollInv, EpollLists, Echo!OnList, Listed
<1> QED  BY <1>2, <1>3, <1>4, <1>5, <1>6 DEF Http!ServerStep

\* The request line is kept while its connection is being read, and was sent.
LineInv == line # 0 => /\ batch # <<>> /\ Head(batch) \in EchoClients
                       /\ line <= sent[Head(batch)]

LEMMA LineNext ==
  ASSUME HttpInv, LineInv,
         Http!ServerStep \/ (Http!Arrival /\ line' = line)
         \/ UNCHANGED <<queue, client, sent, input, peer, server, et, ready, batch, line>>
  PROVE  LineInv'
<1>1. /\ sent \in [EchoClients -> 0 .. EchoPieces] /\ input \in [EchoClients -> 0 .. EchoPieces]
      /\ EchoPieces \in Nat /\ line \in 0 .. EchoPieces /\ LISTEN \notin EchoClients
  BY EpollConstants DEF HttpInv, EpollInv, SockInv, Sock!SocketTypeOK
<1>2. CASE Http!Arrival /\ line' = line
  <2>1. batch' = batch /\ \A c \in EchoClients : sent'[c] \in Nat /\ sent[c] <= sent'[c]
    <3>1. PICK c \in EchoClients : Http!Connect(c) \/ Http!Send(c) \/ Http!Leave(c)
      BY <1>2 DEF Http!Arrival
    <3>2. sent' = sent \/ sent' = [sent EXCEPT ![c] = @ + 1]
      BY <3>1 DEF Http!Connect, Http!Send, Http!Leave
    <3> QED  BY <1>1, <1>2, <3>2 DEF Http!Arrival
  <2>2. CASE line = 0
    BY <1>2, <2>2 DEF LineInv
  <2>3. CASE line # 0
    <3>1. PICK c \in EchoClients : batch # <<>> /\ Head(batch) = c /\ line <= sent[c]
      BY <2>3 DEF LineInv
    <3>2. line <= sent'[c]
      BY <1>1, <2>1, <3>1
    <3> QED  BY <1>2, <2>1, <3>1, <3>2 DEF LineInv
  <2> QED  BY <2>2, <2>3
<1>3. CASE (Http!Wait \/ Http!Accept) /\ line' = line
  <2>1. batch = <<>> \/ Head(batch) = LISTEN
    BY <1>3 DEF Http!Wait, Http!Accept
  <2> QED  BY <1>1, <1>3, <2>1 DEF LineInv
<1>4. ASSUME NEW c \in EchoClients, Http!R_Line(c) PROVE LineInv'
  <2>1. /\ batch # <<>> /\ Head(batch) = c /\ batch' = batch /\ sent' = sent
        /\ input[c] > 0 /\ line' = IF line = 0 THEN sent[c] - input[c] + 1 ELSE line
    BY <1>4 DEF Http!R_Line, Http!At, Http!NextPiece, Http!ReadResult, Http!epoll
  <2>2. line' <= sent[c]
    BY <1>1, <2>1 DEF LineInv
  <2> QED  BY <2>1, <2>2 DEF LineInv
<1>5. ASSUME NEW c \in EchoClients, Http!R_Reply(c) \/ Http!R_Drop(c) PROVE LineInv'
  BY <1>5 DEF Http!R_Reply, Http!R_Drop, LineInv
<1>6. CASE UNCHANGED <<sent, batch, line>>
  BY <1>6 DEF LineInv
<1> QED  BY <1>2, <1>3, <1>4, <1>5, <1>6 DEF Http!ServerStep
-----------------------------------------------------------------------------
(* poll and select.                                                        *)
\* Every open connection has one entry, at most max_fd.
PollTable ==
  /\ \A c \in PollClients : client[c] = "open" => \E e \in Poll!Entries : table[e] = c
  /\ \A e \in Poll!Entries : table[e] # NONE => client[table[e]] = "open" /\ e <= max_fd
  /\ \A e, f \in Poll!Entries : table[e] = table[f] /\ table[e] # NONE => e = f

\* An entry that is reported can be read, but for the one that was just
\* accepted: its revents are what was on the stack, with poll.
PollReports ==
  /\ pc = "accept" /\ connect => queue # <<>>
  /\ pc = "read" => i # 0
  /\ how = "select" => \A e \in Poll!Entries : e > max_fd => ~revents[e]
  /\ pc = "accept" =>
       \A e \in Poll!Entries : e <= max_fd /\ revents[e] =>
         table[e] # NONE /\ Poll!Readable(table[e])
  /\ pc = "read" =>
       \A e \in Poll!Entries : i <= e /\ e <= max_fd /\ revents[e] /\ table[e] # NONE =>
         Poll!Readable(table[e]) \/ (how = "poll" /\ connect /\ e = max_fd)

PollInv ==
  /\ SockInv(PollClients, PollPieces) /\ Poll!TypeOK
  /\ server = "up" => PollTable /\ PollReports

LEMMA PollConstants ==
  /\ PollPieces \in Nat /\ TableSize \in Nat \ {0}
  /\ LISTEN \notin PollClients /\ NONE \notin PollClients
BY EventAssumption DEF Poll!TableAssumption, Poll!SocketAssumption

LEMMA PollReadable ==
  ASSUME NEW c \in PollClients
  PROVE  /\ Poll!Readable(c) <=> input[c] > 0 \/ peer[c] # "there"
         /\ Poll!Readable(c)' <=> input'[c] > 0 \/ peer'[c] # "there"
BY PollConstants DEF Poll!Readable

\* The types of the sockets are those of Poll.
LEMMA PollSockets ==
  Poll!SocketTypeOK <=> Sock(PollClients, PollPieces)!SocketTypeOK
BY DEF Poll!SocketTypeOK, Sock!SocketTypeOK

\* What PollInv says of the types.
LEMMA PollTypes ==
  ASSUME PollInv
  PROVE  /\ input \in [PollClients -> 0 .. PollPieces]
         /\ sent \in [PollClients -> 0 .. PollPieces]
         /\ client \in [PollClients -> {"none", "queued", "open", "closed"}]
         /\ peer \in [PollClients -> {"there", "ended", "reset", "gone"}]
         /\ server \in {"up", "exited", "killed", "undefined"}
         /\ SockInv(PollClients, PollPieces)
         /\ Poll!TypeOK
         /\ table \in [Poll!Entries -> PollClients \cup {NONE}]
         /\ revents \in [Poll!Entries -> BOOLEAN]
         /\ max_fd \in 0 .. TableSize /\ i \in 0 .. TableSize + 1
         /\ \A e \in Poll!Entries : e \in 1 .. TableSize
         /\ TableSize \in Nat
BY PollConstants DEF PollInv, SockInv, Sock!SocketTypeOK, Poll!TypeOK, Poll!Entries

LEMMA PollArrival ==
  ASSUME PollInv, Poll!Arrival
  PROVE  PollInv'
<1>1. PICK c \in PollClients : Poll!Connect(c) \/ Poll!Send(c) \/ Poll!Leave(c)
  BY DEF Poll!Arrival
<1>2. server' = server /\ UNCHANGED <<how, table, revents, connect, max_fd, i, pc>>
  BY DEF Poll!Arrival, Poll!poller
<1>3. SockInv(PollClients, PollPieces)' /\ KeepsNews(PollClients)
  <2>1. \/ Sock(PollClients, PollPieces)!Connect(c)
        \/ Sock(PollClients, PollPieces)!Send(c)
        \/ Sock(PollClients, PollPieces)!Leave(c)
    BY <1>1 DEF Sock!Connect, Sock!Send, Sock!Leave, Poll!Connect, Poll!Send, Poll!Leave
  <2> QED  BY <1>2, <2>1, SockArrival, PollConstants, PollTypes
<1>4. Poll!TypeOK'
  <2>1. Poll!SocketTypeOK'
    BY <1>3 DEF SockInv, Sock!SocketTypeOK, Poll!SocketTypeOK
  <2> QED  BY <1>2, <2>1, PollTypes DEF Poll!TypeOK, Poll!Entries
<1>5. \A d \in PollClients : client'[d] = "open" <=> client[d] = "open"
  BY <1>1, PollTypes DEF Poll!Connect, Poll!Send, Poll!Leave
<1>6. queue # <<>> => queue' # <<>>
  <2>1. queue \in Seq(PollClients)
    BY PollTypes DEF SockInv, Sock!SocketTypeOK
  <2>2. CASE queue' = Append(queue, c)
    BY <2>1, <2>2, AppendProperties
  <2> QED  BY <1>1, <2>2 DEF Poll!Connect, Poll!Send, Poll!Leave
<1>7. ASSUME NEW e \in Poll!Entries, table[e] # NONE, Poll!Readable(table[e])
      PROVE  Poll!Readable(table[e])'
  <2>1. PICK d \in PollClients : d = table[e]
    BY <1>7, PollTypes
  <2>2. Poll!Readable(d) => Poll!Readable(d)'
    BY <1>3, PollReadable, PollTypes DEF KeepsNews
  <2>3. Poll!Readable(d)' => Poll!Readable(table[e])'
    BY <1>2, <2>1 DEF Poll!Readable
  <2> QED  BY <1>7, <2>1, <2>2, <2>3
<1>8. PollTable => PollTable'
  <2>1. \A e \in Poll!Entries : table[e] # NONE => table[e] \in PollClients
    BY PollTypes
  <2> QED  BY <1>2, <1>5, <2>1 DEF PollTable, Poll!Entries
<1>9. PollReports => PollReports'
  BY <1>2, <1>6, <1>7 DEF PollReports, Poll!Entries
<1> QED  BY <1>2, <1>3, <1>4, <1>8, <1>9 DEF PollInv

LEMMA PollPoll ==
  ASSUME PollInv, server = "up", Poll!Poll
  PROVE  PollInv'
<1>1. /\ connect' = Poll!Readable(LISTEN) /\ revents' = Poll!PollRevents /\ pc' = "accept"
      /\ UNCHANGED <<queue, client, sent, input, peer, server, how, table, max_fd, i>>
  BY DEF Poll!Poll, Poll!connection
<1>2. SockInv(PollClients, PollPieces)'
  BY <1>1, SockSame, PollTypes
<1>3. connect' \in BOOLEAN /\ (connect' => queue' # <<>>)
  BY <1>1 DEF Poll!Readable
<1>4. \A e \in Poll!Entries : revents'[e] = IF e <= max_fd THEN Poll!Reported(e) ELSE revents[e]
  BY <1>1 DEF Poll!PollRevents
<1>5. \A e \in Poll!Entries : Poll!Reported(e) \in BOOLEAN
  BY DEF Poll!Reported, Poll!Readable
<1>6. revents' \in [Poll!Entries -> BOOLEAN]
  BY <1>1, <1>5, PollTypes DEF Poll!PollRevents
<1>7. Poll!TypeOK'
  <2>1. Poll!SocketTypeOK'
    BY <1>2 DEF SockInv, Sock!SocketTypeOK, Poll!SocketTypeOK
  <2> QED  BY <1>1, <1>3, <1>6, <2>1, PollTypes DEF Poll!TypeOK, Poll!Entries
<1>8. PollTable'
  BY <1>1 DEF PollInv, PollTable, Poll!Entries
<1>9. \A e \in Poll!Entries : Poll!Readable(table[e]) => Poll!Readable(table[e])'
  BY <1>1 DEF Poll!Readable
<1>10. ASSUME NEW e \in Poll!Entries, e <= max_fd, revents'[e]
       PROVE  table'[e] # NONE /\ Poll!Readable(table[e])'
  BY <1>1, <1>4, <1>9, <1>10 DEF Poll!Reported
<1>11. \A e \in Poll!Entries : how = "select" /\ e > max_fd => ~revents'[e]
  BY <1>4, PollTypes DEF PollInv, PollReports
<1>12. PollReports'
  BY <1>1, <1>3, <1>10, <1>11 DEF PollReports, Poll!Entries
<1> QED  BY <1>1, <1>2, <1>7, <1>8, <1>12 DEF PollInv

LEMMA PollAccept ==
  ASSUME PollInv, server = "up",
         Poll!AcceptOne \/ Poll!Overrun \/ Poll!AcceptNone
  PROVE  PollInv'
<1>1. CASE Poll!AcceptOne
  <2>1. /\ pc = "accept" /\ connect /\ Poll!TakeConnection /\ i' = 1 /\ pc' = "read"
        /\ UNCHANGED <<sent, input, peer, server, how, revents, connect>>
    BY <1>1 DEF Poll!AcceptOne
  <2>2. PICK n \in Poll!Entries :
          /\ table[n] = NONE
          /\ table' = [table EXCEPT ![n] = Head(queue)]
          /\ max_fd' = IF n > max_fd THEN n ELSE max_fd
    BY <1>1 DEF Poll!AcceptOne, Poll!Free, Poll!MaxAfter
  <2>3. queue # <<>> /\ PollTable /\ PollReports
    BY <2>1 DEF PollInv, PollReports
  <2>4. Sock(PollClients, PollPieces)!TakeConnection
    BY <2>1 DEF Poll!TakeConnection, Sock!TakeConnection
  <2>5. /\ SockInv(PollClients, PollPieces)'
        /\ Head(queue) \in PollClients /\ client[Head(queue)] = "queued"
        /\ client' = [client EXCEPT ![Head(queue)] = "open"]
    BY <2>1, <2>3, <2>4, SockTake, PollConstants, PollTypes
  <2>6. PICK c \in PollClients : c = Head(queue)
    BY <2>5
  <2>7. /\ client[c] = "queued" /\ client' = [client EXCEPT ![c] = "open"] /\ c # NONE
        /\ table' = [table EXCEPT ![n] = c]
    BY <2>2, <2>5, <2>6, PollConstants
  <2>8. /\ \A e \in Poll!Entries : table'[e] = IF e = n THEN c ELSE table[e]
        /\ \A e \in Poll!Entries : table[e] # c
        /\ \A d \in PollClients : client'[d] = IF d = c THEN "open" ELSE client[d]
        /\ n \in 1 .. TableSize /\ max_fd' \in 0 .. TableSize
        /\ n <= max_fd' /\ max_fd <= max_fd' /\ (n > max_fd => max_fd' = n)
        /\ table' \in [Poll!Entries -> PollClients \cup {NONE}]
    BY <2>2, <2>3, <2>7, PollTypes DEF PollTable
  <2>9. Poll!TypeOK'
    <3>1. Poll!SocketTypeOK'
      BY <2>5 DEF SockInv, Sock!SocketTypeOK, Poll!SocketTypeOK
    <3>2. i' \in 0 .. TableSize + 1
      BY <2>1, PollTypes
    <3> QED  BY <2>1, <2>8, <3>1, <3>2 DEF PollInv, Poll!TypeOK, Poll!Entries
  <2>10. PollTable'
    <3>1. ASSUME NEW d \in PollClients, client'[d] = "open"
          PROVE  \E e \in Poll!Entries : table'[e] = d
      BY <2>2, <2>3, <2>8, <3>1, PollConstants DEF PollTable
    <3>2. ASSUME NEW e \in Poll!Entries, table'[e] # NONE
          PROVE  client'[table'[e]] = "open" /\ e <= max_fd'
      <4>1. CASE e = n
        BY <2>8, <4>1
      <4>2. CASE e # n
        <5>1. /\ table'[e] = table[e] /\ client[table[e]] = "open" /\ e <= max_fd
              /\ table[e] \in PollClients
          BY <2>3, <2>8, <3>2, <4>2, PollTypes DEF PollTable
        <5>2. e <= max_fd'
          <6>1. TableSize \in Nat /\ e \in 1 .. TableSize /\ max_fd \in 0 .. TableSize
            BY PollTypes, PollConstants DEF Poll!Entries
          <6>2. max_fd' \in 0 .. TableSize /\ max_fd <= max_fd'
            BY <2>8
          <6> QED  BY <5>1, <6>1, <6>2
        <5> QED  BY <2>8, <5>1, <5>2
      <4> QED  BY <4>1, <4>2
    <3>3. ASSUME NEW e \in Poll!Entries, NEW f \in Poll!Entries,
                 table'[e] = table'[f], table'[e] # NONE
          PROVE  e = f
      BY <2>3, <2>8, <3>3 DEF PollTable
    <3> QED  BY <3>1, <3>2, <3>3 DEF PollTable, Poll!Entries
  <2>11. PollReports'
    <3>1. ASSUME how' = "select", NEW e \in Poll!Entries, e > max_fd'
          PROVE  ~revents'[e]
      <4>1. how = "select" /\ e > max_fd /\ revents' = revents
        BY <2>1, <2>8, <3>1, PollTypes
      <4> QED  BY <2>3, <4>1 DEF PollReports
    <3>2. ASSUME NEW e \in Poll!Entries, e <= max_fd', revents'[e], table'[e] # NONE
          PROVE  Poll!Readable(table[e])' \/ (how' = "poll" /\ connect' /\ e = max_fd')
      <4>1. CASE e # n
        <5>1. table'[e] = table[e] /\ e <= max_fd /\ revents[e]
          BY <2>1, <2>3, <2>8, <3>2, <4>1 DEF PollTable
        <5>2. Poll!Readable(table[e]) /\ table[e] # LISTEN
          BY <2>1, <2>3, <5>1, <3>2, PollTypes, PollConstants DEF PollReports, Poll!TableAssumption
        <5>3. Poll!Readable(table[e])'
          BY <2>1, <5>1, <5>2 DEF Poll!Readable
        <5> QED  BY <5>3
      <4>2. CASE e = n
        <5>1. ~(n <= max_fd)
          BY <2>1, <2>2, <2>3, <3>2, <4>2 DEF PollReports
        <5>2. n > max_fd /\ max_fd' = n
          BY <2>8, <5>1, PollTypes
        <5>3. how # "select"
          BY <2>1, <2>3, <3>2, <4>2, <5>2 DEF PollReports
        <5>4. how \in {"poll", "select"}
          BY PollTypes DEF Poll!TypeOK
        <5> QED  BY <2>1, <4>2, <5>2, <5>3, <5>4
      <4> QED  BY <4>1, <4>2
    <3> QED  BY <2>1, <3>1, <3>2 DEF PollReports, Poll!Entries
  <2> QED  BY <2>5, <2>9, <2>10, <2>11 DEF PollInv
<1>2. CASE Poll!Overrun
  <2>1. /\ pc = "accept" /\ connect /\ Poll!TakeConnection /\ server' = "undefined"
        /\ UNCHANGED <<sent, input, peer, how, table, revents, connect, max_fd, i, pc>>
    BY <1>2 DEF Poll!Overrun, Poll!poller
  <2>2. queue # <<>> /\ Sock(PollClients, PollPieces)!TakeConnection
    BY <2>1 DEF PollInv, PollReports, Poll!TakeConnection, Sock!TakeConnection
  <2>3. SockInv(PollClients, PollPieces)'
    BY <2>1, <2>2, SockTake, PollConstants, PollTypes
  <2>4. Poll!TypeOK'
    <3>1. Poll!SocketTypeOK'
      BY <2>3 DEF SockInv, Sock!SocketTypeOK, Poll!SocketTypeOK
    <3> QED  BY <2>1, <3>1 DEF PollInv, Poll!TypeOK, Poll!Entries
  <2> QED  BY <2>1, <2>3, <2>4 DEF PollInv
<1>3. CASE Poll!AcceptNone
  <2>1. /\ pc = "accept" /\ ~connect /\ i' = 1 /\ pc' = "read"
        /\ UNCHANGED <<queue, client, sent, input, peer, server,
                       how, table, revents, connect, max_fd>>
    BY <1>3 DEF Poll!AcceptNone, Poll!connection
  <2>2. SockInv(PollClients, PollPieces)'
    BY <2>1, SockSame, PollTypes
  <2>3. Poll!TypeOK'
    <3>1. Poll!SocketTypeOK'
      BY <2>2 DEF SockInv, Sock!SocketTypeOK, Poll!SocketTypeOK
    <3>2. i' \in 0 .. TableSize + 1
      BY <2>1, PollTypes
    <3> QED  BY <2>1, <3>1, <3>2 DEF PollInv, Poll!TypeOK, Poll!Entries
  <2>4. \A e \in Poll!Entries : Poll!Readable(table[e]) => Poll!Readable(table[e])'
    BY <2>1 DEF Poll!Readable
  <2>5. PollTable' /\ PollReports'
    BY <2>1, <2>4 DEF PollInv, PollTable, PollReports, Poll!Entries
  <2> QED  BY <2>2, <2>3, <2>5 DEF PollInv
<1> QED  BY <1>1, <1>2, <1>3

\* The steps of the loop that leave the sockets alone, or all but peer.
LEMMA PollLoop ==
  ASSUME PollInv, server = "up",
         Poll!Skip \/ Poll!ReadData \/ Poll!ReadEnd \/ Poll!ReadError \/ Poll!EndOfRound
  PROVE  PollInv'
<1>0. PollTable /\ PollReports
  BY DEF PollInv
<1>1. CASE Poll!Skip \/ Poll!EndOfRound
  <2>1. /\ UNCHANGED <<queue, client, sent, input, peer, server,
                       how, table, revents, connect, max_fd>>
        /\ \/ i' = i /\ pc' = "poll"
           \/ i <= max_fd /\ i' = i + 1 /\ pc' = "read" /\ pc = "read"
    BY <1>1 DEF Poll!Skip, Poll!EndOfRound, Poll!InLoop, Poll!connection
  <2>2. SockInv(PollClients, PollPieces)'
    BY <2>1, SockSame, PollTypes
  <2>3. i' \in 0 .. TableSize + 1 /\ i <= i' /\ (pc' = "read" => i' # 0)
    BY <2>1, PollTypes
  <2>4. Poll!TypeOK'
    <3>1. Poll!SocketTypeOK'
      BY <2>2 DEF SockInv, Sock!SocketTypeOK, Poll!SocketTypeOK
    <3> QED  BY <2>1, <2>3, <3>1 DEF PollInv, Poll!TypeOK, Poll!Entries
  <2>5. \A e \in Poll!Entries : Poll!Readable(table[e]) => Poll!Readable(table[e])'
    BY <2>1 DEF Poll!Readable
  <2>6. \A e \in Poll!Entries : i' <= e => i <= e
    BY <2>3, PollTypes
  <2>7. PollTable' /\ PollReports'
    BY <1>0, <2>1, <2>3, <2>5, <2>6 DEF PollTable, PollReports, Poll!Entries
  <2> QED  BY <2>2, <2>4, <2>7 DEF PollInv
<1>2. CASE Poll!ReadData \/ Poll!ReadEnd
  <2>1. /\ pc = "read" /\ pc' = "read" /\ i <= max_fd /\ table[i] # NONE /\ i' = i + 1
        /\ UNCHANGED <<how, revents, connect, max_fd>>
    BY <1>2 DEF Poll!ReadData, Poll!ReadEnd, Poll!InLoop
  <2>2. i \in Poll!Entries /\ i' \in 0 .. TableSize + 1
        /\ \A e \in Poll!Entries : i' <= e => i <= e /\ e # i
    <3>1. i # 0
      BY <1>0, <2>1 DEF PollReports
    <3> QED  BY <2>1, <3>1, PollTypes DEF Poll!Entries
  <2>3. PICK c \in PollClients : c = table[i]
    BY <2>1, <2>2, PollTypes
  <2>4. client[c] = "open" /\ \A e \in Poll!Entries : e # i => table[e] # c
    BY <1>0, <2>1, <2>2, <2>3 DEF PollTable
  <2>5. /\ UNCHANGED <<queue, sent>>
        /\ client' \in {client, [client EXCEPT ![c] = "closed"]}
        /\ \/ input' = input
           \/ \E n \in 1 .. input[c] : input' = [input EXCEPT ![c] = @ - n]
        /\ peer' \in {peer, [peer EXCEPT ![c] = "gone"]}
        /\ server' \in {"up", "exited", "killed", "undefined"}
    <3>1. CASE Poll!ReadData
      <4>1. input[c] > 0 /\ input[c] \in Nat
        BY <2>3, <3>1, PollTypes DEF Poll!ReadData, Poll!ReadResult
      <4>2. 1 \in 1 .. input[c] /\ input' = [input EXCEPT ![c] = @ - 1]
        BY <2>3, <3>1, <4>1 DEF Poll!ReadData, Poll!Echo
      <4>3. UNCHANGED <<queue, client, sent>> /\ server' \in {server, "killed"}
            /\ peer' \in {peer, [peer EXCEPT ![c] = "gone"]}
        BY <2>3, <3>1 DEF Poll!ReadData, Poll!Echo, Poll!Write, Poll!ResetReported
      <4> QED  BY <4>2, <4>3, server = "up"
    <3>2. CASE Poll!ReadEnd
      BY <2>3, <3>2, server = "up" DEF Poll!ReadEnd, Poll!Close
    <3> QED  BY <1>2, <3>1, <3>2
  <2>6. SockInv(PollClients, PollPieces)'
    BY <2>4, <2>5, SockServe, PollConstants, PollTypes
  <2>7. \/ client' = client /\ table' = table
        \/ client' = [client EXCEPT ![c] = "closed"] /\ table' = [table EXCEPT ![i] = NONE]
    BY <1>2, <2>3 DEF Poll!ReadData, Poll!Echo, Poll!ReadEnd, Poll!Close
  <2>8. Poll!TypeOK'
    <3>1. Poll!SocketTypeOK'
      BY <2>6 DEF SockInv, Sock!SocketTypeOK, Poll!SocketTypeOK
    <3>2. table' \in [Poll!Entries -> PollClients \cup {NONE}]
      BY <2>7, PollTypes
    <3> QED  BY <2>1, <2>2, <3>1, <3>2 DEF PollInv, Poll!TypeOK, Poll!Entries
  <2>9. PollTable'
    <3>1. CASE client' = client /\ table' = table
      BY <1>0, <2>1, <3>1 DEF PollTable, Poll!Entries
    <3>2. CASE client' = [client EXCEPT ![c] = "closed"] /\ table' = [table EXCEPT ![i] = NONE]
      <4>1. /\ \A d \in PollClients : client'[d] = IF d = c THEN "closed" ELSE client[d]
            /\ \A e \in Poll!Entries : table'[e] = IF e = i THEN NONE ELSE table[e]
        BY <3>2, PollTypes
      <4>2. ASSUME NEW d \in PollClients, client'[d] = "open"
            PROVE  \E e \in Poll!Entries : table'[e] = d
        BY <1>0, <2>3, <4>1, <4>2 DEF PollTable
      <4>3. ASSUME NEW e \in Poll!Entries, table'[e] # NONE
            PROVE  client'[table'[e]] = "open" /\ e <= max_fd'
        <5>1. e # i /\ table'[e] = table[e] /\ table[e] \in PollClients
          BY <4>1, <4>3, PollTypes
        <5> QED  BY <1>0, <2>1, <2>4, <4>1, <4>3, <5>1 DEF PollTable
      <4>4. ASSUME NEW e \in Poll!Entries, NEW f \in Poll!Entries,
                   table'[e] = table'[f], table'[e] # NONE
            PROVE  e = f
        BY <1>0, <4>1, <4>4 DEF PollTable
      <4> QED  BY <4>2, <4>3, <4>4 DEF PollTable, Poll!Entries
    <3> QED  BY <2>7, <3>1, <3>2
  <2>10. ASSUME NEW e \in Poll!Entries, i' <= e, table'[e] # NONE, Poll!Readable(table[e])
         PROVE  Poll!Readable(table[e])'
    <3>1. table'[e] = table[e] /\ e # i
      BY <2>2, <2>7, <2>10, PollTypes
    <3>2. PICK d \in PollClients : d = table[e]
      BY <2>10, <3>1, PollTypes
    <3>3. d # c /\ d # LISTEN /\ Poll!Readable(d)
      BY <2>4, <2>10, <3>1, <3>2, PollConstants
    <3>4. input'[d] = input[d] /\ peer'[d] = peer[d]
      BY <2>5, <3>2, <3>3, PollTypes
    <3>5. Poll!Readable(d)'
      BY <3>2, <3>3, <3>4, PollReadable
    <3> QED  BY <3>1, <3>2, <3>5 DEF Poll!Readable
  <2>11. \A e \in Poll!Entries : table'[e] # NONE => table[e] # NONE
    BY <2>2, <2>7, PollTypes
  <2>12. PollReports'
    BY <1>0, <2>1, <2>2, <2>10, <2>11 DEF PollReports, Poll!Entries
  <2> QED  BY <2>6, <2>8, <2>9, <2>12 DEF PollInv
<1>3. CASE Poll!ReadError
  <2>1. /\ pc = "read" /\ pc' = "poll" /\ i <= max_fd /\ table[i] # NONE
        /\ UNCHANGED <<queue, client, sent, input, server,
                       how, table, revents, connect, max_fd, i>>
        /\ peer' = [peer EXCEPT ![table[i]] = "gone"]
    BY <1>3 DEF Poll!ReadError, Poll!InLoop, Poll!ResetReported
  <2>2. i \in Poll!Entries
    <3>1. i # 0
      BY <1>0, <2>1 DEF PollReports
    <3> QED  BY <2>1, <3>1, PollTypes DEF Poll!Entries
  <2>3. PICK c \in PollClients : c = table[i]
    BY <2>1, <2>2, PollTypes
  <2>4. client[c] = "open"
    BY <1>0, <2>1, <2>2, <2>3 DEF PollTable
  <2>5. SockInv(PollClients, PollPieces)'
    BY <2>1, <2>3, <2>4, SockServe, PollConstants, PollTypes
  <2>6. Poll!TypeOK'
    <3>1. Poll!SocketTypeOK'
      BY <2>5 DEF SockInv, Sock!SocketTypeOK, Poll!SocketTypeOK
    <3> QED  BY <2>1, <3>1 DEF PollInv, Poll!TypeOK, Poll!Entries
  <2>7. PollTable' /\ PollReports'
    BY <1>0, <2>1 DEF PollTable, PollReports, Poll!Entries
  <2> QED  BY <2>5, <2>6, <2>7 DEF PollInv
<1> QED  BY <1>1, <1>2, <1>3

LEMMA PollNext ==
  ASSUME PollInv,
         Poll!ServerStep \/ Poll!Arrival
         \/ UNCHANGED <<queue, client, sent, input, peer, server,
                        how, table, revents, connect, max_fd, i, pc>>
  PROVE  PollInv'
<1>1. CASE Poll!ServerStep
  BY <1>1, PollPoll, PollAccept, PollLoop DEF Poll!ServerStep
<1>2. CASE Poll!Arrival
  BY <1>2, PollArrival
<1>3. CASE UNCHANGED <<queue, client, sent, input, peer, server,
                       how, table, revents, connect, max_fd, i, pc>>
  <2>1. SockInv(PollClients, PollPieces)'
    BY <1>3, SockSame, PollTypes
  <2>2. Poll!TypeOK'
    <3>1. Poll!SocketTypeOK'
      BY <2>1 DEF SockInv, Sock!SocketTypeOK, Poll!SocketTypeOK
    <3> QED  BY <1>3, <3>1 DEF PollInv, Poll!TypeOK, Poll!Entries
  <2>3. \A e \in Poll!Entries : Poll!Readable(table[e]) => Poll!Readable(table[e])'
    BY <1>3 DEF Poll!Readable
  <2>4. server = "up" => PollTable' /\ PollReports'
    BY <1>3, <2>3 DEF PollInv, PollTable, PollReports, Poll!Entries
  <2> QED  BY <1>3, <2>1, <2>2, <2>4 DEF PollInv
<1> QED  BY <1>1, <1>2, <1>3

LEMMA PollStarts ==
  ASSUME Poll!Init
  PROVE  PollInv
<1>1. /\ Sock(PollClients, PollPieces)!SocketInit
      /\ how \in {"poll", "select"} /\ table = [e \in Poll!Entries |-> NONE]
      /\ revents \in [Poll!Entries -> BOOLEAN]
      /\ how = "select" => \A e \in Poll!Entries : ~revents[e]
      /\ connect = FALSE /\ max_fd = 0 /\ i = 0 /\ pc = "poll"
  BY DEF Poll!Init, Poll!SocketInit, Sock!SocketInit
<1>2. SockInv(PollClients, PollPieces)
  BY <1>1, SockInit, PollConstants
<1>3. Poll!SocketTypeOK
  BY <1>2 DEF SockInv, Sock!SocketTypeOK, Poll!SocketTypeOK
<1>4. 0 \in 0 .. TableSize /\ 0 \in 0 .. TableSize + 1
  BY PollConstants
<1>5. Poll!TypeOK
  BY <1>1, <1>3, <1>4 DEF Poll!TypeOK
<1>6. \A c \in PollClients : client[c] = "none"
  BY <1>1 DEF Sock!SocketInit
<1>7. PollTable /\ PollReports
  BY <1>1, <1>6 DEF PollTable, PollReports
<1> QED  BY <1>2, <1>5, <1>7 DEF PollInv

\* What the two properties of poll and select follow from.
LEMMA PollPromises ==
  ASSUME PollInv
  PROVE  Poll!TableIsOpen /\ Poll!OnlyFreshEntryBlocks
<1>1. Poll!TableIsOpen
  <2> SUFFICES ASSUME server = "up", NEW c \in PollClients, client[c] = "open"
               PROVE  \E e \in Poll!Entries :
                        /\ table[e] = c /\ e <= max_fd
                        /\ \A f \in Poll!Entries \ {e} : table[f] # c
    BY DEF PollInv, PollTable, Poll!TableIsOpen
  <2>1. c # NONE /\ PollTable
    BY PollConstants DEF PollInv
  <2>2. PICK e \in Poll!Entries : table[e] = c
    BY <2>1 DEF PollTable
  <2> QED  BY <2>1, <2>2 DEF PollTable
<1>2. Poll!OnlyFreshEntryBlocks
  <2> SUFFICES ASSUME Poll!Blocked
               PROVE  how = "poll" /\ connect /\ i = max_fd
    BY DEF Poll!OnlyFreshEntryBlocks
  <2>1. /\ server = "up" /\ pc = "read" /\ i <= max_fd /\ table[i] # NONE /\ revents[i]
        /\ Poll!ReadResult(table[i]) = "none" /\ PollTable /\ PollReports
    BY DEF Poll!Blocked, Poll!InLoop, PollInv
  <2>2. i \in Poll!Entries /\ i <= i
    BY <2>1, PollTypes DEF PollReports, Poll!Entries
  <2>3. PICK c \in PollClients : c = table[i]
    BY <2>1, <2>2, PollTypes
  <2>4. input[c] \in Nat /\ peer[c] \in {"there", "ended", "reset", "gone"}
        /\ client[c] = "open"
    BY <2>1, <2>2, <2>3, PollTypes DEF PollTable
  <2>5. ~Poll!Readable(c)
    BY <2>1, <2>3, <2>4, PollReadable DEF Poll!ReadResult
  <2> QED  BY <2>1, <2>2, <2>3, <2>5 DEF PollReports
<1> QED  BY <1>1, <1>2
-----------------------------------------------------------------------------
(* libevent.  What was read, is in the two buffers, or was written, was    *)
(* sent before; the events of the round are of connections that are open,  *)
(* and of the listening fd while somebody waits.                           *)
LibInv ==
  /\ SockInv(EchoClients, EchoPieces) /\ Libevent!TypeOK
  /\ \A c \in EchoClients :
       /\ input[c] + inbuf[c] + outbuf[c] + written[c] <= sent[c]
       /\ \A kind \in {"read", "write"} : <<c, kind>> \in active => client[c] = "open"
  /\ <<LISTEN, "read">> \in active => queue # <<>>
  /\ <<LISTEN, "write">> \notin active

\* What LibInv says of the types.
LEMMA LibTypes ==
  ASSUME LibInv
  PROVE  /\ input \in [EchoClients -> 0 .. EchoPieces]
         /\ sent \in [EchoClients -> 0 .. EchoPieces]
         /\ inbuf \in [EchoClients -> 0 .. EchoPieces]
         /\ outbuf \in [EchoClients -> 0 .. EchoPieces]
         /\ written \in [EchoClients -> 0 .. EchoPieces]
         /\ client \in [EchoClients -> {"none", "queued", "open", "closed"}]
         /\ peer \in [EchoClients -> {"there", "ended", "reset", "gone"}]
         /\ server \in {"up", "exited", "killed", "undefined"}
         /\ serves \in {"http", "echo"}
         /\ active \subseteq (EchoClients \cup {LISTEN}) \X {"read", "write"}
         /\ SockInv(EchoClients, EchoPieces)
         /\ EchoPieces \in Nat /\ BufPieces \in Nat \ {0}
         /\ LISTEN \notin EchoClients
<1>1. BufPieces \in Nat \ {0}
  BY EventAssumption DEF Libevent!LibeventAssumption
<1> QED
  BY <1>1, EpollConstants DEF LibInv, SockInv, Sock!SocketTypeOK, Libevent!TypeOK

\* The types of libevent's own state, and those of the sockets.
LEMMA LibTypeOK ==
  ASSUME SockInv(EchoClients, EchoPieces),
         serves \in {"http", "echo"},
         inbuf \in [EchoClients -> 0 .. EchoPieces],
         outbuf \in [EchoClients -> 0 .. EchoPieces],
         written \in [EchoClients -> 0 .. EchoPieces],
         active \subseteq (EchoClients \cup {LISTEN}) \X {"read", "write"}
  PROVE  Libevent!TypeOK
BY DEF SockInv, Sock!SocketTypeOK, Libevent!TypeOK, Libevent!SocketTypeOK

LEMMA LibStarts ==
  ASSUME Libevent!Init
  PROVE  LibInv
<1>1. /\ Sock(EchoClients, EchoPieces)!SocketInit /\ serves \in {"http", "echo"}
      /\ inbuf = [c \in EchoClients |-> 0] /\ outbuf = [c \in EchoClients |-> 0]
      /\ written = [c \in EchoClients |-> 0] /\ active = {}
  BY DEF Libevent!Init, Libevent!SocketInit, Sock!SocketInit
<1>2. SockInv(EchoClients, EchoPieces)
  BY <1>1, SockInit, EpollConstants
<1>3. 0 \in 0 .. EchoPieces
  BY EpollConstants
<1>4. Libevent!TypeOK
  BY <1>1, <1>2, <1>3, LibTypeOK
<1>5. \A c \in EchoClients : input[c] + inbuf[c] + outbuf[c] + written[c] <= sent[c]
  <2> TAKE c \in EchoClients
  <2>1. input[c] = 0 /\ sent[c] = 0 /\ inbuf[c] = 0 /\ outbuf[c] = 0 /\ written[c] = 0
    BY <1>1 DEF Sock!SocketInit
  <2> QED  BY <2>1
<1> QED  BY <1>1, <1>2, <1>4, <1>5 DEF LibInv

LEMMA LibArrival ==
  ASSUME LibInv, Libevent!Arrival
  PROVE  LibInv'
<1>1. PICK c \in EchoClients :
        Libevent!Connect(c) \/ Libevent!Send(c) \/ Libevent!Leave(c)
  BY DEF Libevent!Arrival
<1>2. server' = server /\ UNCHANGED <<serves, inbuf, outbuf, written, active>>
  BY DEF Libevent!Arrival, Libevent!library, Libevent!buffers
<1>3. SockInv(EchoClients, EchoPieces)'
  <2>1. \/ Sock(EchoClients, EchoPieces)!Connect(c)
        \/ Sock(EchoClients, EchoPieces)!Send(c)
        \/ Sock(EchoClients, EchoPieces)!Leave(c)
    BY <1>1 DEF Sock!Connect, Sock!Send, Sock!Leave,
                Libevent!Connect, Libevent!Send, Libevent!Leave
  <2> QED  BY <1>2, <2>1, SockArrival, EpollConstants, LibTypes
<1>4. Libevent!TypeOK'
  <2>1. Libevent!SocketTypeOK'
    BY <1>3 DEF SockInv, Sock!SocketTypeOK, Libevent!SocketTypeOK
  <2> QED  BY <1>2, <2>1, LibTypes DEF Libevent!TypeOK
<1>5. \A d \in EchoClients : client'[d] = "open" <=> client[d] = "open"
  BY <1>1, LibTypes DEF Libevent!Connect, Libevent!Send, Libevent!Leave
<1>6. queue # <<>> => queue' # <<>>
  <2>1. queue \in Seq(EchoClients)
    BY LibTypes DEF SockInv, Sock!SocketTypeOK
  <2>2. CASE queue' = Append(queue, c)
    BY <2>1, <2>2, AppendProperties
  <2> QED  BY <1>1, <2>2 DEF Libevent!Connect, Libevent!Send, Libevent!Leave
<1>7. ASSUME NEW d \in EchoClients
      PROVE  input'[d] + inbuf'[d] + outbuf'[d] + written'[d] <= sent'[d]
  <2>1. input[d] + inbuf[d] + outbuf[d] + written[d] <= sent[d]
    BY DEF LibInv
  <2>2. \/ input'[d] = input[d] /\ sent'[d] = sent[d]
        \/ input'[d] = input[d] + 1 /\ sent'[d] = sent[d] + 1
    BY <1>1, LibTypes DEF Libevent!Connect, Libevent!Send, Libevent!Leave
  <2> QED  BY <1>2, <2>1, <2>2, LibTypes
<1> QED  BY <1>2, <1>3, <1>4, <1>5, <1>6, <1>7 DEF LibInv

LEMMA LibDispatch ==
  ASSUME LibInv, Libevent!Dispatch
  PROVE  LibInv'
<1>1. /\ active' = Libevent!News
      /\ UNCHANGED <<queue, client, sent, input, peer, server, serves,
                     inbuf, outbuf, written>>
  BY DEF Libevent!Dispatch, Libevent!connection, Libevent!buffers
<1>2. SockInv(EchoClients, EchoPieces)'
  BY <1>1, SockSame, LibTypes
<1>3. /\ active' \subseteq (EchoClients \cup {LISTEN}) \X {"read", "write"}
      /\ \A c \in EchoClients : \A kind \in {"read", "write"} :
           <<c, kind>> \in active' => client[c] = "open"
      /\ <<LISTEN, "write">> \notin active'
  BY <1>1, LibTypes DEF Libevent!News, Libevent!Open
<1>4. <<LISTEN, "read">> \in active' => queue # <<>>
  BY <1>1 DEF Libevent!News, Libevent!Open, Libevent!Readable
<1>5. Libevent!TypeOK'
  <2>1. Libevent!SocketTypeOK'
    BY <1>2 DEF SockInv, Sock!SocketTypeOK, Libevent!SocketTypeOK
  <2> QED  BY <1>1, <1>3, <2>1, LibTypes DEF Libevent!TypeOK
<1> QED  BY <1>1, <1>2, <1>3, <1>4, <1>5 DEF LibInv

LEMMA LibListener ==
  ASSUME LibInv, Libevent!CbListener
  PROVE  LibInv'
<1>1. /\ <<LISTEN, "read">> \in active /\ Libevent!TakeConnection
      /\ active' = IF Len(queue) > 1 THEN active ELSE active \ {<<LISTEN, "read">>}
      /\ UNCHANGED <<sent, input, peer, server, serves, inbuf, outbuf, written>>
  BY DEF Libevent!CbListener, Libevent!buffers
<1>2. queue # <<>> /\ Sock(EchoClients, EchoPieces)!TakeConnection
  BY <1>1 DEF LibInv, Sock!TakeConnection, Libevent!TakeConnection
<1>3. /\ SockInv(EchoClients, EchoPieces)'
      /\ Head(queue) \in EchoClients
      /\ client' = [client EXCEPT ![Head(queue)] = "open"] /\ queue' = Tail(queue)
  BY <1>1, <1>2, SockTake, EpollConstants, LibTypes
<1>4. \A c \in EchoClients : client[c] = "open" => client'[c] = "open"
  BY <1>3, LibTypes
<1>5. Len(queue) > 1 => queue' # <<>>
  <2>1. queue \in Seq(EchoClients)
    BY LibTypes DEF SockInv, Sock!SocketTypeOK
  <2>2. /\ Len(queue) \in Nat /\ queue' \in Seq(EchoClients)
        /\ Len(queue') = Len(queue) - 1
    BY <1>2, <1>3, <2>1, HeadTailProperties, LenProperties
  <2>3. queue' = <<>> => Len(queue') = 0
    BY <2>2, EmptySeq
  <2> QED  BY <2>2, <2>3
<1>6. Libevent!TypeOK'
  <2>1. Libevent!SocketTypeOK'
    BY <1>3 DEF SockInv, Sock!SocketTypeOK, Libevent!SocketTypeOK
  <2> QED  BY <1>1, <2>1, LibTypes DEF Libevent!TypeOK
<1> QED  BY <1>1, <1>3, <1>4, <1>5, <1>6 DEF LibInv

\* A bufferevent is freed.
LEMMA LibFree ==
  ASSUME LibInv, NEW c \in EchoClients, client[c] = "open",
         Libevent!FreeBufferevent(c),
         UNCHANGED <<queue, sent, input, peer, server, serves, written>>
  PROVE  LibInv'
<1>1. /\ client' = [client EXCEPT ![c] = "closed"]
      /\ inbuf' = [inbuf EXCEPT ![c] = 0] /\ outbuf' = [outbuf EXCEPT ![c] = 0]
      /\ active' = active \ ({c} \X {"read", "write"})
  BY DEF Libevent!FreeBufferevent
<1>2. SockInv(EchoClients, EchoPieces)'
  BY <1>1, SockServe, LibTypes
<1>3. /\ inbuf' \in [EchoClients -> 0 .. EchoPieces]
      /\ outbuf' \in [EchoClients -> 0 .. EchoPieces]
      /\ \A d \in EchoClients : inbuf'[d] <= inbuf[d] /\ outbuf'[d] <= outbuf[d]
  BY <1>1, LibTypes
<1>4. Libevent!TypeOK'
  <2>1. Libevent!SocketTypeOK'
    BY <1>2 DEF SockInv, Sock!SocketTypeOK, Libevent!SocketTypeOK
  <2> QED  BY <1>1, <1>3, <2>1, LibTypes DEF Libevent!TypeOK
<1>5. ASSUME NEW d \in EchoClients
      PROVE  input'[d] + inbuf'[d] + outbuf'[d] + written'[d] <= sent'[d]
  <2>1. input[d] + inbuf[d] + outbuf[d] + written[d] <= sent[d]
    BY DEF LibInv
  <2> QED  BY <1>3, <2>1, LibTypes
<1>6. ASSUME NEW d \in EchoClients, NEW kind \in {"read", "write"}, <<d, kind>> \in active'
      PROVE  client'[d] = "open"
  <2>1. d # c /\ <<d, kind>> \in active
    BY <1>1, <1>6
  <2> QED  BY <1>1, <2>1, LibTypes DEF LibInv
<1>7. LISTEN # c
  BY EpollConstants
<1> QED  BY <1>1, <1>2, <1>4, <1>5, <1>6 DEF LibInv

\* A piece is taken for a GET or not, and only of those who may ask.
LEMMA MethodAnswers ==
  ASSUME NEW c, NEW first \in Nat \ {0}
  PROVE  /\ Libevent!MethodIsGet(c, first) \subseteq BOOLEAN
         /\ TRUE \in Libevent!MethodIsGet(c, first) => c \in Getters \cup Blank
<1>1. CASE first = 1
  <2>1. Libevent!MethodIsGet(c, first) = {c \in Getters}
    BY <1>1 DEF Libevent!MethodIsGet
  <2> QED  BY <2>1
<1>2. CASE first # 1
  <2>1. first > 1
    BY <1>2
  <2>2. Libevent!MethodIsGet(c, first) = IF c \in Blank THEN BOOLEAN ELSE {FALSE}
    BY <1>2, <2>1 DEF Libevent!MethodIsGet
  <2> QED  BY <2>2
<1> QED  BY <1>1, <1>2

\* cb_read takes what it reads out of the input, and leaves some of it in
\* the buffer, some of it in the echo; of a request there is one answer.
LEMMA LibRead ==
  ASSUME LibInv, NEW c \in EchoClients, Libevent!CbRead(c), server = "up"
  PROVE  LibInv'
<1>1. /\ <<c, "read">> \in active /\ active' = active \ {<<c, "read">>}
      /\ UNCHANGED <<queue, client, sent, peer, server, serves, written>>
      /\ client[c] = "open"
  BY DEF Libevent!CbRead, LibInv
<1>2. PICK n \in 1 .. input[c] :
        LET have  == inbuf[c] + n
            taken == IF have < BufPieces THEN have ELSE BufPieces
            first == sent[c] - input[c] - inbuf[c] + 1
        IN /\ input' = [input EXCEPT ![c] = @ - n]
           /\ inbuf' = [inbuf EXCEPT ![c] = have - taken]
           /\ \/ serves = "echo" /\ Libevent!EchoTaken(c, taken)
              \/ /\ serves = "http"
                 /\ \E get \in Libevent!MethodIsGet(c, first) :
                      IF get THEN Libevent!http_response(c) ELSE outbuf' = outbuf
  BY DEF Libevent!CbRead
<1> DEFINE have  == inbuf[c] + n
           taken == IF have < BufPieces THEN have ELSE BufPieces
           first == sent[c] - input[c] - inbuf[c] + 1
<1>3. /\ input' = [input EXCEPT ![c] = @ - n]
      /\ inbuf' = [inbuf EXCEPT ![c] = have - taken]
  BY <1>2
<1>4. /\ n \in Nat \ {0} /\ n <= input[c]
      /\ have \in Nat \ {0} /\ taken \in Nat \ {0} /\ taken <= have
      /\ input[c] \in Nat /\ inbuf[c] \in Nat /\ outbuf[c] \in Nat
      /\ written[c] \in Nat /\ sent[c] \in Nat /\ sent[c] <= EchoPieces
      /\ EchoPieces \in Nat
      /\ input[c] + inbuf[c] + outbuf[c] + written[c] <= sent[c]
  <2>1. /\ input[c] \in 0 .. EchoPieces /\ inbuf[c] \in 0 .. EchoPieces
        /\ outbuf[c] \in 0 .. EchoPieces /\ written[c] \in 0 .. EchoPieces
        /\ sent[c] \in 0 .. EchoPieces
        /\ EchoPieces \in Nat /\ BufPieces \in Nat \ {0}
    BY LibTypes
  <2>2. input[c] + inbuf[c] + outbuf[c] + written[c] <= sent[c]
    BY DEF LibInv
  <2> QED  BY <2>1, <2>2
<1>5. first \in Nat \ {0}
  <2> HIDE DEF taken, have
  <2> QED  BY <1>4
<1>6. Libevent!MethodIsGet(c, first) \subseteq BOOLEAN
  <2> HIDE DEF first
  <2> QED  BY <1>5, MethodAnswers
<1>7. \/ outbuf' = [outbuf EXCEPT ![c] = @ + taken]
      \/ outbuf' = [outbuf EXCEPT ![c] = @ + 1]
      \/ outbuf' = outbuf
  <2>1. \/ Libevent!EchoTaken(c, taken)
        \/ \E get \in Libevent!MethodIsGet(c, first) :
             IF get THEN Libevent!http_response(c) ELSE outbuf' = outbuf
    BY <1>2
  <2> HIDE DEF first, taken
  <2> QED  BY <1>6, <2>1 DEF Libevent!EchoTaken, Libevent!http_response
<1> HIDE DEF first
<1>8. PICK m \in 0 .. taken : outbuf' = [outbuf EXCEPT ![c] = @ + m]
  <2>1. 0 \in 0 .. taken /\ 1 \in 0 .. taken /\ taken \in 0 .. taken
    <3> HIDE DEF taken, have
    <3> QED  BY <1>4
  <2>2. outbuf[c] = outbuf[c] + 0 /\ outbuf = [outbuf EXCEPT ![c] = outbuf[c]]
    BY LibTypes
  <2>3. outbuf' = outbuf => outbuf' = [outbuf EXCEPT ![c] = @ + 0]
    BY <2>2
  <2> HIDE DEF taken
  <2> QED  BY <1>7, <2>1, <2>3
<1> HIDE DEF taken, have
<1>9. /\ have = inbuf[c] + n /\ m \in Nat /\ m <= taken
  BY <1>4 DEF have
<1>10. /\ input' \in [EchoClients -> 0 .. EchoPieces]
       /\ input'[c] = input[c] - n /\ inbuf'[c] = have - taken /\ outbuf'[c] = outbuf[c] + m
       /\ \A d \in EchoClients : d # c =>
            input'[d] = input[d] /\ inbuf'[d] = inbuf[d] /\ outbuf'[d] = outbuf[d]
  BY <1>3, <1>4, <1>8, LibTypes
<1>11. /\ have - taken \in 0 .. EchoPieces /\ outbuf[c] + m \in 0 .. EchoPieces
       /\ (input[c] - n) + (have - taken) + (outbuf[c] + m) + written[c] <= sent[c]
  BY <1>4, <1>9
<1>12. inbuf' \in [EchoClients -> 0 .. EchoPieces] /\ outbuf' \in [EchoClients -> 0 .. EchoPieces]
  BY <1>3, <1>8, <1>11, LibTypes
<1>13. SockInv(EchoClients, EchoPieces)'
  BY <1>1, <1>3, SockServe, LibTypes
<1>14. Libevent!TypeOK'
  <2>1. Libevent!SocketTypeOK'
    BY <1>13 DEF SockInv, Sock!SocketTypeOK, Libevent!SocketTypeOK
  <2> QED  BY <1>1, <1>12, <2>1, LibTypes DEF Libevent!TypeOK
<1>15. ASSUME NEW d \in EchoClients
       PROVE  input'[d] + inbuf'[d] + outbuf'[d] + written'[d] <= sent'[d]
  <2>1. CASE d = c
    BY <1>1, <1>10, <1>11, <2>1
  <2>2. CASE d # c
    <3>1. input[d] + inbuf[d] + outbuf[d] + written[d] <= sent[d]
      BY DEF LibInv
    <3> QED  BY <1>1, <1>10, <2>2, <3>1
  <2> QED  BY <2>1, <2>2
<1> QED  BY <1>1, <1>13, <1>14, <1>15 DEF LibInv

LEMMA LibWrite ==
  ASSUME LibInv, NEW c \in EchoClients, Libevent!CbWrite(c), server = "up"
  PROVE  LibInv'
<1>1. /\ <<c, "write">> \in active /\ client[c] = "open"
      /\ UNCHANGED <<queue, sent, input, peer, serves>>
  BY DEF Libevent!CbWrite, LibInv
<1>2. ASSUME NEW n \in 1 .. outbuf[c],
             outbuf' = [outbuf EXCEPT ![c] = @ - n],
             written' = [written EXCEPT ![c] = @ + n],
             active' = active \ {<<c, "write">>},
             UNCHANGED <<client, inbuf, server>>
      PROVE  LibInv'
  <2>1. SockInv(EchoClients, EchoPieces)'
    BY <1>1, <1>2, SockSame, LibTypes
  <2>2. /\ n \in Nat /\ n <= outbuf[c] /\ outbuf[c] \in Nat /\ written[c] \in Nat
        /\ inbuf[c] \in Nat /\ input[c] \in Nat /\ sent[c] \in 0 .. EchoPieces
        /\ input[c] + inbuf[c] + outbuf[c] + written[c] <= sent[c]
    <3>1. /\ input[c] \in 0 .. EchoPieces /\ inbuf[c] \in 0 .. EchoPieces
          /\ outbuf[c] \in 0 .. EchoPieces /\ written[c] \in 0 .. EchoPieces
          /\ sent[c] \in 0 .. EchoPieces /\ EchoPieces \in Nat
      BY LibTypes
    <3>2. input[c] + inbuf[c] + outbuf[c] + written[c] <= sent[c]
      BY DEF LibInv
    <3> QED  BY <3>1, <3>2
  <2>3. outbuf[c] - n \in 0 .. EchoPieces /\ written[c] + n \in 0 .. EchoPieces
        /\ input[c] + inbuf[c] + (outbuf[c] - n) + (written[c] + n) <= sent[c]
    BY <2>2, LibTypes
  <2>4. /\ outbuf' \in [EchoClients -> 0 .. EchoPieces]
        /\ written' \in [EchoClients -> 0 .. EchoPieces]
        /\ outbuf'[c] = outbuf[c] - n /\ written'[c] = written[c] + n
        /\ \A d \in EchoClients : d # c => outbuf'[d] = outbuf[d] /\ written'[d] = written[d]
    BY <1>2, <2>3, LibTypes
  <2>5. Libevent!TypeOK'
    <3>1. Libevent!SocketTypeOK'
      BY <2>1 DEF SockInv, Sock!SocketTypeOK, Libevent!SocketTypeOK
    <3> QED  BY <1>1, <1>2, <2>4, <3>1, LibTypes DEF Libevent!TypeOK
  <2>6. ASSUME NEW d \in EchoClients
        PROVE  input'[d] + inbuf'[d] + outbuf'[d] + written'[d] <= sent'[d]
    <3>1. CASE d = c
      BY <1>1, <1>2, <2>3, <2>4, <3>1
    <3>2. CASE d # c
      <4>1. input[d] + inbuf[d] + outbuf[d] + written[d] <= sent[d]
        BY DEF LibInv
      <4> QED  BY <1>1, <1>2, <2>4, <3>2, <4>1
    <3> QED  BY <3>1, <3>2
  <2> QED  BY <1>1, <1>2, <2>1, <2>5, <2>6 DEF LibInv
<1>3. CASE Libevent!FreeBufferevent(c) /\ UNCHANGED <<written, server>>
  BY <1>1, <1>3, LibFree
<1>4. CASE server' = "killed" /\ UNCHANGED <<client, inbuf, outbuf, written, active>>
  <2>1. SockInv(EchoClients, EchoPieces)'
    BY <1>1, <1>4, SockSame, LibTypes
  <2>2. Libevent!TypeOK'
    <3>1. Libevent!SocketTypeOK'
      BY <2>1 DEF SockInv, Sock!SocketTypeOK, Libevent!SocketTypeOK
    <3> QED  BY <1>1, <1>4, <3>1, LibTypes DEF Libevent!TypeOK
  <2> QED  BY <1>1, <1>4, <2>1, <2>2 DEF LibInv
<1> QED  BY <1>2, <1>3, <1>4 DEF Libevent!CbWrite, Libevent!buffers

LEMMA LibNext ==
  ASSUME LibInv,
         Libevent!ServerStep \/ Libevent!Arrival \/ (server = "up" /\ Libevent!CbSignal)
         \/ UNCHANGED <<queue, client, sent, input, peer, server,
                        serves, inbuf, outbuf, written, active>>
  PROVE  LibInv'
<1>1. CASE Libevent!ServerStep
  <2>1. ASSUME server = "up", NEW c \in EchoClients, Libevent!CbEvent(c) PROVE LibInv'
    <3>1. /\ client[c] = "open" /\ Libevent!FreeBufferevent(c)
          /\ UNCHANGED <<queue, sent, input, peer, server, serves, written>>
      BY <2>1 DEF Libevent!CbEvent, LibInv
    <3> QED  BY <3>1, LibFree
  <2> QED  BY <1>1, <2>1, LibDispatch, LibListener, LibRead, LibWrite DEF Libevent!ServerStep
<1>2. CASE Libevent!Arrival
  BY <1>2, LibArrival
<1>3. CASE \/ server = "up" /\ Libevent!CbSignal
           \/ UNCHANGED <<queue, client, sent, input, peer, server,
                          serves, inbuf, outbuf, written, active>>
  <2>1. /\ UNCHANGED <<queue, client, sent, input, peer,
                       serves, inbuf, outbuf, written, active>>
        /\ server' \in {server, "exited"}
    BY <1>3 DEF Libevent!CbSignal, Libevent!connection, Libevent!library, Libevent!buffers
  <2>2. SockInv(EchoClients, EchoPieces)'
    BY <2>1, SockSame, LibTypes
  <2>3. Libevent!TypeOK'
    <3>1. Libevent!SocketTypeOK'
      BY <2>2 DEF SockInv, Sock!SocketTypeOK, Libevent!SocketTypeOK
    <3> QED  BY <2>1, <3>1, LibTypes DEF Libevent!TypeOK
  <2> QED  BY <2>1, <2>2, <2>3 DEF LibInv
<1> QED  BY <1>1, <1>2, <1>3

\* The http server on libevent has answers for those who may have asked.
AskInv == serves = "http" =>
  \A c \in EchoClients : outbuf[c] + written[c] > 0 => c \in Getters \cup Blank

LEMMA AskNext ==
  ASSUME LibInv, AskInv,
         Libevent!ServerStep \/ Libevent!Arrival \/ (server = "up" /\ Libevent!CbSignal)
         \/ UNCHANGED <<queue, client, sent, input, peer, server,
                        serves, inbuf, outbuf, written, active>>
  PROVE  AskInv'
<1>1. /\ outbuf \in [EchoClients -> 0 .. EchoPieces] /\ EchoPieces \in Nat
      /\ written \in [EchoClients -> 0 .. EchoPieces]
  BY LibTypes
<1>2. CASE UNCHANGED <<serves, outbuf, written>>
  BY <1>2 DEF AskInv
<1>3. ASSUME NEW c \in EchoClients, Libevent!FreeBufferevent(c), UNCHANGED <<serves, written>>
      PROVE  AskInv'
  <2>1. outbuf' = [outbuf EXCEPT ![c] = 0]
    BY <1>3 DEF Libevent!FreeBufferevent
  <2>2. \A d \in EchoClients : outbuf'[d] + written[d] > 0 => outbuf[d] + written[d] > 0
    BY <1>1, <2>1
  <2> QED  BY <1>3, <2>2 DEF AskInv
<1>4. ASSUME NEW c \in EchoClients, Libevent!CbWrite(c) PROVE AskInv'
  <2>1. ASSUME NEW n \in 1 .. outbuf[c], serves' = serves,
               outbuf' = [outbuf EXCEPT ![c] = @ - n],
               written' = [written EXCEPT ![c] = @ + n]
        PROVE  AskInv'
    <3>1. \A d \in EchoClients : outbuf'[d] + written'[d] = outbuf[d] + written[d]
      BY <1>1, <2>1
    <3> QED  BY <2>1, <3>1 DEF AskInv
  <2> QED  BY <1>2, <1>3, <1>4, <2>1 DEF Libevent!CbWrite, Libevent!buffers
<1>5. ASSUME NEW c \in EchoClients, Libevent!CbRead(c), serves = "http" PROVE AskInv'
  <2>1. PICK first \in Nat \ {0} :
          \E get \in Libevent!MethodIsGet(c, first) :
            IF get THEN Libevent!http_response(c) ELSE outbuf' = outbuf
    <3>1. sent[c] - input[c] - inbuf[c] + 1 \in Nat \ {0}
      <4>1. /\ input[c] \in Nat /\ inbuf[c] \in Nat /\ outbuf[c] \in Nat
            /\ written[c] \in Nat /\ sent[c] \in Nat
        BY LibTypes
      <4>2. input[c] + inbuf[c] + outbuf[c] + written[c] <= sent[c]
        BY DEF LibInv
      <4> QED  BY <4>1, <4>2
    <3> QED  BY <1>5, <3>1 DEF Libevent!CbRead
  <2>2. serves' = serves /\ written' = written
    BY <1>5 DEF Libevent!CbRead
  <2>3. CASE outbuf' = outbuf
    BY <1>2, <2>2, <2>3
  <2>4. CASE outbuf' # outbuf
    <3>1. TRUE \in Libevent!MethodIsGet(c, first) /\ outbuf' = [outbuf EXCEPT ![c] = @ + 1]
      <4>1. PICK get \in Libevent!MethodIsGet(c, first) :
              IF get THEN Libevent!http_response(c) ELSE outbuf' = outbuf
        BY <2>1
      <4>2. get \in BOOLEAN
        BY <4>1, MethodAnswers
      <4>3. get = TRUE
        BY <2>4, <4>1, <4>2
      <4> QED  BY <4>1, <4>3 DEF Libevent!http_response
    <3>2. c \in Getters \cup Blank
      BY <3>1, MethodAnswers
    <3>3. \A d \in EchoClients : d # c => outbuf'[d] = outbuf[d]
      BY <1>1, <3>1
    <3> QED  BY <2>2, <3>2, <3>3 DEF AskInv
  <2> QED  BY <2>3, <2>4
<1>6. ASSUME NEW c \in EchoClients, Libevent!CbRead(c), serves # "http" PROVE AskInv'
  BY <1>6 DEF Libevent!CbRead, AskInv
<1> QED
  BY <1>2, <1>3, <1>4, <1>5, <1>6 DEF Libevent!ServerStep, Libevent!Arrival, Libevent!Dispatch,
     Libevent!CbListener, Libevent!CbEvent, Libevent!CbSignal, Libevent!library, Libevent!buffers
-----------------------------------------------------------------------------
(* One of the programs runs: its invariant holds.                          *)
Inv ==
  /\ program \in {"epoll", "http", "poll", "libevent"}
  /\ program = "epoll" => EpollInv /\ Echo!NewsReported
  /\ program = "http" => HttpInv /\ LineInv
  /\ program = "poll" => PollInv
  /\ program = "libevent" => LibInv /\ AskInv

LEMMA InitInv == Init => Inv
<1> SUFFICES ASSUME Init PROVE Inv
  OBVIOUS
<1>1. CASE program = "epoll" /\ Echo!Init
  <2>1. EpollInv
    BY <1>1, EpollStarts DEF Echo!Init, Echo!SocketInit, Sock!SocketInit, Echo!EpollInit
  <2>2. Echo!NewsReported
    BY <1>1 DEF Echo!Init, Echo!SocketInit, Echo!NewsReported
  <2> QED  BY <1>1, <2>1, <2>2 DEF Inv
<1>2. CASE program = "http" /\ Http!Init
  <2>1. EpollInv /\ et = TRUE /\ line = 0
    BY <1>2, EpollStarts DEF Http!Init, Http!SocketInit, Sock!SocketInit, Http!EpollInit
  <2>2. Http!InputReported
    BY <1>2 DEF Http!Init, Http!SocketInit, Http!InputReported
  <2>3. 0 \in 0 .. EchoPieces
    BY EpollConstants
  <2> QED  BY <1>2, <2>1, <2>2, <2>3 DEF Inv, HttpInv, LineInv
<1>3. CASE program = "poll" /\ Poll!Init
  BY <1>3, PollStarts DEF Inv
<1>4. CASE program = "libevent" /\ Libevent!Init
  <2>1. \A c \in EchoClients : outbuf[c] = 0 /\ written[c] = 0
    BY <1>4 DEF Libevent!Init
  <2>2. AskInv
    BY <2>1 DEF AskInv
  <2> QED  BY <1>4, <2>2, LibStarts DEF Inv
<1> QED  BY <1>1, <1>2, <1>3, <1>4 DEF Init

LEMMA NextInv == Inv /\ [Next]_vars => Inv'
<1> SUFFICES ASSUME Inv, [Next]_vars PROVE Inv'
  OBVIOUS
<1> USE DEF Inv
<1>1. ASSUME program = "epoll", program' = program,
             Echo!ServerStep \/ Echo!Arrival
             \/ UNCHANGED <<queue, client, sent, input, peer, server, et, ready, batch>>
      PROVE  Inv'
  <2>1. EpollInv' /\ Echo!NewsReported'
    BY <1>1, EchoServerNext
  <2> QED  BY <1>1, <2>1
<1>2. ASSUME program = "http", program' = program,
             Http!ServerStep \/ (Http!Arrival /\ line' = line)
             \/ UNCHANGED <<queue, client, sent, input, peer, server, et, ready, batch, line>>
      PROVE  Inv'
  <2>1. HttpInv' /\ LineInv'
    BY <1>2, HttpNext, LineNext
  <2> QED  BY <1>2, <2>1
<1>3. ASSUME program = "poll", program' = program,
             Poll!ServerStep \/ Poll!Arrival
             \/ UNCHANGED <<queue, client, sent, input, peer, server,
                            how, table, revents, connect, max_fd, i, pc>>
      PROVE  Inv'
  <2>1. PollInv'
    BY <1>3, PollNext
  <2> QED  BY <1>3, <2>1
<1>4. ASSUME program = "libevent", program' = program,
             Libevent!ServerStep \/ Libevent!Arrival \/ (server = "up" /\ Libevent!CbSignal)
             \/ UNCHANGED <<queue, client, sent, input, peer, server,
                            serves, inbuf, outbuf, written, active>>
      PROVE  Inv'
  <2>1. LibInv' /\ AskInv'
    BY <1>4, LibNext, AskNext
  <2> QED  BY <1>4, <2>1
<1> HIDE DEF Inv
<1>5. CASE ServerStep
  BY <1>1, <1>2, <1>3, <1>4, <1>5 DEF ServerStep, Epolls, Https, Polls, Libevents
<1>6. CASE Arrival
  BY <1>1, <1>2, <1>3, <1>4, <1>6 DEF Arrival, Epolls, Https, Polls, Libevents
<1>7. CASE Signal
  BY <1>4, <1>7 DEF Signal, Libevents
<1>8. CASE UNCHANGED vars
  BY <1>1, <1>2, <1>3, <1>4, <1>8 DEF Inv, vars, epoll, poller, library
<1> QED  BY <1>5, <1>6, <1>7, <1>8 DEF Next

LEMMA InvAlways == Spec => []Inv
BY InitInv, NextInv, PTL DEF Spec

(* The variables of the program that runs have their types: the queue and  *)
(* the kernel's list hold what they may, max_fd and i stay in the table,   *)
(* or one past it, and each buffer of libevent holds at most what a client *)
(* may send.                                                               *)
THEOREM TypeCorrect == Spec => []TypeOK
<1>1. Inv => TypeOK
  <2> SUFFICES ASSUME Inv PROVE TypeOK
    OBVIOUS
  <2>1. EpollInv => Echo!EpollTypeOK /\ Http!EpollTypeOK
    BY DEF EpollInv, EpollLists, SockInv, Sock!SocketTypeOK,
           Echo!EpollTypeOK, Echo!SocketTypeOK, Http!EpollTypeOK, Http!SocketTypeOK,
           Echo!Fds, Http!Fds
  <2> QED  BY <2>1 DEF Inv, TypeOK, HttpInv, PollInv, LibInv
<1> QED  BY InvAlways, <1>1, PTL

(* No news is lost between two events, for any number of connections and   *)
(* of events per wait, in both modes of epoll (epoll_server.c:138-168,     *)
(* epoll_server2.c:138-170, mtlt.cpp:90-114, http_epoll.c:86-99).          *)
THEOREM NewsKept == Spec => []NewsReported
<1>1. Inv => NewsReported
  BY DEF Inv, NewsReported, HttpInv
<1> QED  BY InvAlways, <1>1, PTL

(* The table of poll and select holds exactly the open connections, each   *)
(* once, whatever its size (poll_server.c:73-85, 109-114,                  *)
(* select_server.c:66-67, 88-93).                                          *)
THEOREM TableHoldsOpen == Spec => []TableIsOpen
<1>1. Inv => TableIsOpen
  BY PollPromises DEF Inv, TableIsOpen
<1> QED  BY InvAlways, <1>1, PTL

(* The server on poll blocks in a read only at the entry it has just      *)
(* filled, and the one on select never (poll_server.c:63-98,               *)
(* select_server.c:56-77).                                                 *)
THEOREM OnlyFreshBlocks == Spec => []OnlyFreshEntryBlocks
<1>1. Inv => OnlyFreshEntryBlocks
  BY PollPromises DEF Inv, OnlyFreshEntryBlocks
<1> QED  BY InvAlways, <1>1, PTL
-----------------------------------------------------------------------------
(* The service that the servers implement: the values its variables have   *)
(* in a state of the servers.                                              *)
mQueue    == queue
mClient   == [c \in All |-> Of(c, client[c], "none")]
mSent     == [c \in All |-> Of(c, sent[c], 0)]
mAnswered   == [c \in All |-> Of(c, AnsweredBy(c), 0)]
mLeft     == [c \in All |-> Of(c, peer[c] # "there", FALSE)]
mUp       == server = "up"
mManner   == Manner
mAsking   == Asking

\* A step of a server whose connections are those of D.
Running(D, P) ==
  /\ D \subseteq All /\ P \in Nat /\ program' = program /\ serves' = serves
  /\ SockInv(D, P) /\ SockInv(D, P)'

LEMMA Mapped ==
  ASSUME NEW D, NEW P, Running(D, P)
  PROVE  /\ mQueue = queue /\ mQueue' = queue'
         /\ mClient  = [c \in All |-> IF c \in D THEN client[c] ELSE "none"]
         /\ mClient' = [c \in All |-> IF c \in D THEN client'[c] ELSE "none"]
         /\ mSent  = [c \in All |-> IF c \in D THEN sent[c] ELSE 0]
         /\ mSent' = [c \in All |-> IF c \in D THEN sent'[c] ELSE 0]
         /\ mLeft  = [c \in All |-> IF c \in D THEN peer[c] # "there" ELSE FALSE]
         /\ mLeft' = [c \in All |-> IF c \in D THEN peer'[c] # "there" ELSE FALSE]
         /\ mUp <=> server = "up"
         /\ mUp' <=> server' = "up"
         /\ mManner' = mManner /\ mAsking' = mAsking
<1>1. /\ DOMAIN client = D /\ DOMAIN client' = D /\ program' = program /\ serves' = serves
  BY DEF Running, SockInv, Sock!SocketTypeOK
<1>2. \A c, v, none : Of(c, v, none) = IF c \in D THEN v ELSE none
  BY <1>1 DEF Of
<1>3. \A c : /\ Of(c, client[c], "none")' = IF c \in D THEN client'[c] ELSE "none"
             /\ Of(c, sent[c], 0)' = IF c \in D THEN sent'[c] ELSE 0
             /\ Of(c, peer[c] # "there", FALSE)'
                  = IF c \in D THEN peer'[c] # "there" ELSE FALSE
  BY <1>1 DEF Of
<1>4. Manner' = Manner /\ Asking' = Asking
  BY <1>1 DEF Manner, Asking, All
<1> QED
  BY <1>1, <1>2, <1>3, <1>4, Zenon DEF mQueue, mClient, mSent, mLeft, mUp, mManner, mAsking,
     All

\* What was answered, of the servers on epoll, poll and select ...
LEMMA MappedRead ==
  ASSUME NEW D, NEW P, Running(D, P), program \in {"epoll", "poll"}
  PROVE  /\ mAnswered  = [c \in All |-> IF c \in D THEN sent[c] - input[c] ELSE 0]
         /\ mAnswered' = [c \in All |-> IF c \in D THEN sent'[c] - input'[c] ELSE 0]
<1>1. /\ DOMAIN client = D /\ DOMAIN client' = D /\ program' = program /\ serves' = serves
  BY DEF Running, SockInv, Sock!SocketTypeOK
<1>2. \A c : /\ Of(c, AnsweredBy(c), 0) = IF c \in D THEN sent[c] - input[c] ELSE 0
             /\ Of(c, AnsweredBy(c), 0)' = IF c \in D THEN sent'[c] - input'[c] ELSE 0
  BY <1>1 DEF Of, AnsweredBy
<1> QED  BY <1>2 DEF mAnswered, All

\* ... of those on libevent ...
LEMMA MappedWritten ==
  ASSUME NEW D, NEW P, Running(D, P), program = "libevent"
  PROVE  /\ mAnswered  = [c \in All |-> IF c \in D THEN written[c] ELSE 0]
         /\ mAnswered' = [c \in All |-> IF c \in D THEN written'[c] ELSE 0]
<1>1. /\ DOMAIN client = D /\ DOMAIN client' = D /\ program' = program /\ serves' = serves
  BY DEF Running, SockInv, Sock!SocketTypeOK
<1>2. \A c : /\ Of(c, AnsweredBy(c), 0) = IF c \in D THEN written[c] ELSE 0
             /\ Of(c, AnsweredBy(c), 0)' = IF c \in D THEN written'[c] ELSE 0
  BY <1>1 DEF Of, AnsweredBy
<1> QED  BY <1>2 DEF mAnswered, All

\* ... and of the http server on epoll.
LEMMA MappedOnce ==
  ASSUME NEW D, NEW P, Running(D, P), program = "http"
  PROVE  /\ mAnswered  = [c \in All |-> IF c \in D /\ client[c] = "closed" THEN 1 ELSE 0]
         /\ mAnswered' = [c \in All |-> IF c \in D /\ client'[c] = "closed" THEN 1 ELSE 0]
<1>1. /\ DOMAIN client = D /\ DOMAIN client' = D /\ program' = program
  BY DEF Running, SockInv, Sock!SocketTypeOK
<1>2. \A c : /\ Of(c, AnsweredBy(c), 0) = IF c \in D /\ client[c] = "closed" THEN 1 ELSE 0
             /\ Of(c, AnsweredBy(c), 0)' = IF c \in D /\ client'[c] = "closed" THEN 1 ELSE 0
  BY <1>1 DEF Of, AnsweredBy
<1> QED  BY <1>2 DEF mAnswered, All

\* The actions of the service on these values.
LEMMA ServiceSteps ==
  ASSUME NEW c
  PROVE  /\ Service!Connect(c) <=>
              /\ mClient[c] = "none"
              /\ mClient' = [mClient EXCEPT ![c] = "queued"]
              /\ mQueue' = Append(mQueue, c) /\ UNCHANGED <<mSent, mAnswered, mLeft>>
         /\ Service!Send(c) <=>
              /\ mClient[c] \in {"queued", "open"} /\ ~mLeft[c]
              /\ mSent' = [mSent EXCEPT ![c] = @ + 1]
              /\ UNCHANGED <<mQueue, mClient, mAnswered, mLeft>>
         /\ Service!Leave(c) <=>
              /\ mClient[c] \in {"queued", "open"}
              /\ mLeft' = [mLeft EXCEPT ![c] = TRUE]
              /\ UNCHANGED <<mQueue, mClient, mSent, mAnswered>>
         /\ Service!Accept <=>
              /\ mQueue # <<>>
              /\ mClient' = [mClient EXCEPT ![Head(mQueue)] = "open"]
              /\ mQueue' = Tail(mQueue) /\ UNCHANGED <<mSent, mAnswered, mLeft>>
         /\ Service!Answer(c) <=>
              /\ mClient[c] = "open" /\ c \in mAsking /\ mManner # "once"
              /\ \E n \in mAnswered[c] + 1 .. mSent[c] : mAnswered' = [mAnswered EXCEPT ![c] = n]
              /\ UNCHANGED <<mQueue, mClient, mSent, mLeft>>
         /\ Service!AnswerAndClose(c) <=>
              /\ mClient[c] = "open" /\ c \in mAsking /\ mManner = "once"
              /\ mSent[c] > 0 /\ mAnswered[c] = 0
              /\ mAnswered' = [mAnswered EXCEPT ![c] = 1]
              /\ mClient' = [mClient EXCEPT ![c] = "closed"]
              /\ UNCHANGED <<mQueue, mSent, mLeft>>
         /\ Service!Close(c) <=>
              /\ mClient[c] = "open" /\ mLeft[c] /\ mManner # "once"
              /\ mManner = "complete" => mAnswered[c] = mSent[c]
              /\ mClient' = [mClient EXCEPT ![c] = "closed"]
              /\ UNCHANGED <<mQueue, mSent, mAnswered, mLeft>>
         /\ Service!BreakDown <=>
              UNCHANGED <<mQueue, mClient, mSent, mAnswered, mLeft>> /\ ~mUp'
<1> USE DEF mQueue, mClient, mSent, mAnswered, mLeft, mUp, mManner, mAsking
<1>1. Service!Connect(c) <=>
              /\ mClient[c] = "none"
              /\ mClient' = [mClient EXCEPT ![c] = "queued"]
              /\ mQueue' = Append(mQueue, c) /\ UNCHANGED <<mSent, mAnswered, mLeft>>
  BY DEF Service!Connect
<1>2. Service!Send(c) <=>
              /\ mClient[c] \in {"queued", "open"} /\ ~mLeft[c]
              /\ mSent' = [mSent EXCEPT ![c] = @ + 1]
              /\ UNCHANGED <<mQueue, mClient, mAnswered, mLeft>>
  BY DEF Service!Send
<1>3. Service!Leave(c) <=>
              /\ mClient[c] \in {"queued", "open"}
              /\ mLeft' = [mLeft EXCEPT ![c] = TRUE]
              /\ UNCHANGED <<mQueue, mClient, mSent, mAnswered>>
  BY DEF Service!Leave
<1>4. Service!Accept <=>
              /\ mQueue # <<>>
              /\ mClient' = [mClient EXCEPT ![Head(mQueue)] = "open"]
              /\ mQueue' = Tail(mQueue) /\ UNCHANGED <<mSent, mAnswered, mLeft>>
  BY DEF Service!Accept
<1>5. Service!Answer(c) <=>
              /\ mClient[c] = "open" /\ c \in mAsking /\ mManner # "once"
              /\ \E n \in mAnswered[c] + 1 .. mSent[c] : mAnswered' = [mAnswered EXCEPT ![c] = n]
              /\ UNCHANGED <<mQueue, mClient, mSent, mLeft>>
  BY DEF Service!Answer
<1>8. Service!AnswerAndClose(c) <=>
              /\ mClient[c] = "open" /\ c \in mAsking /\ mManner = "once"
              /\ mSent[c] > 0 /\ mAnswered[c] = 0
              /\ mAnswered' = [mAnswered EXCEPT ![c] = 1]
              /\ mClient' = [mClient EXCEPT ![c] = "closed"]
              /\ UNCHANGED <<mQueue, mSent, mLeft>>
  BY DEF Service!AnswerAndClose
<1>6. Service!Close(c) <=>
              /\ mClient[c] = "open" /\ mLeft[c] /\ mManner # "once"
              /\ mManner = "complete" => mAnswered[c] = mSent[c]
              /\ mClient' = [mClient EXCEPT ![c] = "closed"]
              /\ UNCHANGED <<mQueue, mSent, mAnswered, mLeft>>
  BY DEF Service!Close
<1>7. Service!BreakDown <=>
              UNCHANGED <<mQueue, mClient, mSent, mAnswered, mLeft>> /\ ~mUp'
  BY DEF Service!BreakDown
<1> QED  BY <1>1, <1>2, <1>3, <1>4, <1>5, <1>6, <1>7, <1>8

\* A step of the service, which its server may not survive, or of a client.
LEMMA ServiceNext ==
  ASSUME mManner' = mManner, mAsking' = mAsking, NEW c \in All
  PROVE  /\ (Service!Connect(c) \/ Service!Send(c) \/ Service!Leave(c)) /\ (mUp' <=> mUp)
              => [Service!Next]_(Service!vars)
         /\ (\/ Service!Accept \/ Service!BreakDown
             \/ Service!Answer(c) \/ Service!AnswerAndClose(c) \/ Service!Close(c)) /\ mUp
              => [Service!Next]_(Service!vars)
         /\ UNCHANGED <<mQueue, mClient, mSent, mAnswered, mLeft>> /\ (mUp' <=> mUp)
              => [Service!Next]_(Service!vars)
<1> USE DEF mUp, mManner, mAsking
<1>1. mUp \in BOOLEAN /\ mUp' \in BOOLEAN /\ ((mUp' <=> mUp) => mUp' = mUp)
  OBVIOUS
<1>2. (Service!Connect(c) \/ Service!Send(c) \/ Service!Leave(c)) /\ (mUp' <=> mUp)
        => Service!Next
  BY <1>1 DEF Service!Next, Service!ClientStep
<1>3. (\/ Service!Accept \/ Service!BreakDown
       \/ Service!Answer(c) \/ Service!AnswerAndClose(c) \/ Service!Close(c)) /\ mUp
        => Service!Next
  BY <1>1 DEF Service!Next, Service!ServerStep
<1>4. UNCHANGED <<mQueue, mClient, mSent, mAnswered, mLeft>> /\ (mUp' <=> mUp)
        => UNCHANGED Service!vars
  BY <1>1 DEF Service!vars, mQueue, mClient, mSent, mAnswered, mLeft
<1> QED  BY <1>2, <1>3, <1>4

\* The mapping at one client of the server.
LEMMA MappedAt ==
  ASSUME NEW D, NEW P, Running(D, P), NEW c \in D
  PROVE  /\ c \in All /\ mClient[c] = client[c] /\ mSent[c] = sent[c]
         /\ mLeft[c] <=> peer[c] # "there"
<1>1. c \in All
  BY DEF Running
<1>2. mClient[c] = client[c]
  <2>1. mClient = [d \in All |-> IF d \in D THEN client[d] ELSE "none"]
    BY Mapped
  <2> QED  BY <1>1, <2>1
<1>3. mSent[c] = sent[c]
  <2>1. mSent = [d \in All |-> IF d \in D THEN sent[d] ELSE 0]
    BY Mapped
  <2> QED  BY <1>1, <2>1
<1>4. mLeft[c] <=> peer[c] # "there"
  <2>1. mLeft = [d \in All |-> IF d \in D THEN peer[d] # "there" ELSE FALSE]
    BY Mapped
  <2> QED  BY <1>1, <2>1
<1> QED  BY <1>1, <1>2, <1>3, <1>4

\* What a client does, the service knows as the same.
LEMMA MapsClient ==
  ASSUME NEW D, NEW P, Running(D, P), NEW c \in D,
         Sock(D, P)!Connect(c) \/ Sock(D, P)!Send(c) \/ Sock(D, P)!Leave(c),
         server' = server, mAnswered' = mAnswered
  PROVE  [Service!Next]_(Service!vars)
<1>1. /\ c \in All /\ (mUp' <=> mUp) /\ mManner' = mManner /\ mAsking' = mAsking
      /\ client \in [D -> {"none", "queued", "open", "closed"}]
      /\ sent \in [D -> 0 .. P]
      /\ peer \in [D -> {"there", "ended", "reset", "gone"}]
      /\ D \subseteq All
  BY Mapped DEF Running, SockInv, Sock!SocketTypeOK
<1>2. CASE Sock(D, P)!Connect(c)
  <2>1. /\ client[c] = "none" /\ client' = [client EXCEPT ![c] = "queued"]
        /\ queue' = Append(queue, c) /\ sent' = sent /\ peer' = peer
    BY <1>2 DEF Sock!Connect
  <2>2. mClient[c] = "none" /\ mClient' = [mClient EXCEPT ![c] = "queued"]
    <3>1. /\ mClient  = [d \in All |-> IF d \in D THEN client[d] ELSE "none"]
          /\ mClient' = [d \in All |-> IF d \in D THEN client'[d] ELSE "none"]
      BY Mapped
    <3> QED  BY <1>1, <2>1, <3>1
  <2>3. mQueue' = Append(mQueue, c) /\ mSent' = mSent /\ mLeft' = mLeft
    BY <2>1, Mapped
  <2>4. Service!Connect(c)
    BY <2>2, <2>3, ServiceSteps
  <2> QED  BY <1>1, <2>4, ServiceNext
<1>3. CASE Sock(D, P)!Send(c)
  <2>1. /\ client[c] \in {"queued", "open"} /\ peer[c] = "there"
        /\ sent' = [sent EXCEPT ![c] = @ + 1]
        /\ queue' = queue /\ client' = client /\ peer' = peer
    BY <1>3 DEF Sock!Send
  <2>2. mClient[c] \in {"queued", "open"} /\ ~mLeft[c]
    BY <2>1, MappedAt
  <2>3. mSent' = [mSent EXCEPT ![c] = @ + 1]
    <3>1. /\ mSent  = [d \in All |-> IF d \in D THEN sent[d] ELSE 0]
          /\ mSent' = [d \in All |-> IF d \in D THEN sent'[d] ELSE 0]
      BY Mapped
    <3> QED  BY <1>1, <2>1, <3>1
  <2>4. mQueue' = mQueue /\ mClient' = mClient /\ mLeft' = mLeft
    BY <2>1, Mapped
  <2>5. Service!Send(c)
    BY <2>2, <2>3, <2>4, ServiceSteps
  <2> QED  BY <1>1, <2>5, ServiceNext
<1>4. CASE Sock(D, P)!Leave(c)
  <2>1. /\ client[c] \in {"queued", "open"}
        /\ peer'[c] # "there" /\ \A d \in D \ {c} : peer'[d] = peer[d]
        /\ queue' = queue /\ client' = client /\ sent' = sent
    BY <1>1, <1>4 DEF Sock!Leave
  <2>2. mClient[c] \in {"queued", "open"}
    BY <2>1, MappedAt
  <2>3. mLeft' = [mLeft EXCEPT ![c] = TRUE]
    <3>1. mLeft  = [d \in All |-> IF d \in D THEN peer[d] # "there" ELSE FALSE]
          /\ mLeft' = [d \in All |-> IF d \in D THEN peer'[d] # "there" ELSE FALSE]
      BY Mapped
    <3> QED  BY <1>1, <2>1, <3>1
  <2>4. mQueue' = mQueue /\ mClient' = mClient /\ mSent' = mSent
    BY <2>1, Mapped
  <2>5. Service!Leave(c)
    BY <2>2, <2>3, <2>4, ServiceSteps
  <2> QED  BY <1>1, <2>5, ServiceNext
<1> QED  BY <1>2, <1>3, <1>4

\* A connection is accepted.
LEMMA MapsAccept ==
  ASSUME NEW D, NEW P, Running(D, P), server = "up",
         queue # <<>>, Head(queue) \in D,
         client' = [client EXCEPT ![Head(queue)] = "open"], queue' = Tail(queue),
         UNCHANGED <<sent, peer>>, mAnswered' = mAnswered
  PROVE  [Service!Next]_(Service!vars)
<1>1. /\ client \in [D -> {"none", "queued", "open", "closed"}] /\ D \subseteq All
      /\ mUp /\ mManner' = mManner /\ mAsking' = mAsking
  BY Mapped DEF Running, SockInv, Sock!SocketTypeOK
<1>2. PICK c \in D : c = Head(queue)
  OBVIOUS
<1>3. mClient' = [mClient EXCEPT ![c] = "open"]
  <2>1. /\ mClient  = [d \in All |-> IF d \in D THEN client[d] ELSE "none"]
        /\ mClient' = [d \in All |-> IF d \in D THEN client'[d] ELSE "none"]
    BY Mapped
  <2> QED  BY <1>1, <1>2, <2>1
<1>4. mQueue # <<>> /\ mQueue' = Tail(mQueue) /\ c = Head(mQueue)
  BY <1>2, Mapped
<1>5. mSent' = mSent /\ mLeft' = mLeft
  BY Mapped
<1>6. Service!Accept
  BY <1>3, <1>4, <1>5, ServiceSteps
<1> QED  BY <1>1, <1>6, ServiceNext

\* Who has left is the same while no peer is lost.
LEMMA MapsLeft ==
  ASSUME NEW D, NEW P, Running(D, P),
         \A d \in D : peer'[d] # "there" <=> peer[d] # "there"
  PROVE  mLeft' = mLeft
<1>1. /\ mLeft  = [d \in All |-> IF d \in D THEN peer[d] # "there" ELSE FALSE]
      /\ mLeft' = [d \in All |-> IF d \in D THEN peer'[d] # "there" ELSE FALSE]
  BY Mapped
<1>2. \A d \in All : (IF d \in D THEN peer'[d] # "there" ELSE FALSE)
                     <=> (IF d \in D THEN peer[d] # "there" ELSE FALSE)
  OBVIOUS
<1> QED  BY <1>1, <1>2

\* Something is answered, ...
LEMMA MapsAnswer ==
  ASSUME NEW D, NEW P, Running(D, P), server = "up", NEW c \in D, client[c] = "open",
         UNCHANGED <<queue, client, sent>>,
         \A d \in D : peer'[d] # "there" <=> peer[d] # "there",
         NEW n \in mAnswered[c] + 1 .. sent[c], mAnswered' = [mAnswered EXCEPT ![c] = n],
         c \in mAsking, mManner # "once"
  PROVE  [Service!Next]_(Service!vars)
<1>1. /\ c \in All /\ mUp /\ mManner' = mManner /\ mAsking' = mAsking
      /\ mClient[c] = "open" /\ mSent[c] = sent[c]
      /\ mQueue' = mQueue /\ mClient' = mClient /\ mSent' = mSent
  <2>1. mUp /\ mManner' = mManner /\ mAsking' = mAsking /\ mQueue' = mQueue
    BY Mapped
  <2>2. mClient' = mClient /\ mSent' = mSent
    BY Mapped
  <2> QED  BY <2>1, <2>2, MappedAt
<1>2. mLeft' = mLeft
  BY MapsLeft
<1>3. Service!Answer(c)
  BY <1>1, <1>2, ServiceSteps
<1> QED  BY <1>1, <1>3, ServiceNext

\* ... a connection is closed whose client has left, ...
LEMMA MapsClose ==
  ASSUME NEW D, NEW P, Running(D, P), server = "up", NEW c \in D, client[c] = "open",
         client' = [client EXCEPT ![c] = "closed"], peer[c] # "there",
         UNCHANGED <<queue, sent, peer>>, mAnswered' = mAnswered, mManner # "once",
         mManner = "complete" => mAnswered[c] = sent[c]
  PROVE  [Service!Next]_(Service!vars)
<1>1. /\ c \in All /\ mUp /\ mManner' = mManner /\ mAsking' = mAsking
      /\ client \in [D -> {"none", "queued", "open", "closed"}] /\ D \subseteq All
      /\ mClient[c] = "open" /\ mLeft[c] /\ mSent[c] = sent[c]
      /\ mQueue' = mQueue /\ mSent' = mSent /\ mLeft' = mLeft
  <2>1. /\ c \in All /\ D \subseteq All
        /\ client \in [D -> {"none", "queued", "open", "closed"}]
    BY DEF Running, SockInv, Sock!SocketTypeOK
  <2>2. mUp /\ mManner' = mManner /\ mAsking' = mAsking /\ mQueue' = mQueue /\ mSent' = mSent
    BY Mapped
  <2>3. mClient[c] = "open" /\ mSent[c] = sent[c] /\ mLeft[c]
    BY MappedAt
  <2>4. mLeft' = mLeft
    BY Mapped
  <2> QED  BY <2>1, <2>2, <2>3, <2>4
<1>2. mClient' = [mClient EXCEPT ![c] = "closed"]
  <2>1. /\ mClient  = [d \in All |-> IF d \in D THEN client[d] ELSE "none"]
        /\ mClient' = [d \in All |-> IF d \in D THEN client'[d] ELSE "none"]
    BY Mapped
  <2> QED  BY <1>1, <2>1
<1>3. Service!Close(c)
  BY <1>1, <1>2, ServiceSteps
<1> QED  BY <1>1, <1>3, ServiceNext

\* ... or with the one answer that it gets, ...
LEMMA MapsReply ==
  ASSUME NEW D, NEW P, Running(D, P), server = "up", NEW c \in D, client[c] = "open",
         client' = [client EXCEPT ![c] = "closed"], UNCHANGED <<queue, sent>>,
         \A d \in D : peer'[d] # "there" <=> peer[d] # "there",
         sent[c] > 0, mAnswered[c] = 0, mAnswered' = [mAnswered EXCEPT ![c] = 1],
         c \in mAsking, mManner = "once"
  PROVE  [Service!Next]_(Service!vars)
<1>1. /\ c \in All /\ D \subseteq All
      /\ client \in [D -> {"none", "queued", "open", "closed"}]
  BY DEF Running, SockInv, Sock!SocketTypeOK
<1>2. mUp /\ mManner' = mManner /\ mAsking' = mAsking /\ mQueue' = mQueue /\ mSent' = mSent
  BY Mapped
<1>3. mClient[c] = "open" /\ mSent[c] = sent[c]
  BY MappedAt
<1>4. mClient' = [mClient EXCEPT ![c] = "closed"]
  <2>1. /\ mClient  = [d \in All |-> IF d \in D THEN client[d] ELSE "none"]
        /\ mClient' = [d \in All |-> IF d \in D THEN client'[d] ELSE "none"]
    BY Mapped
  <2> QED  BY <1>1, <2>1
<1>5. mLeft' = mLeft
  BY MapsLeft
<1>6. Service!AnswerAndClose(c)
  BY <1>2, <1>3, <1>4, <1>5, ServiceSteps
<1> QED  BY <1>1, <1>2, <1>6, ServiceNext

\* ... or the server does nothing the service knows of, but may end.
LEMMA MapsNothing ==
  ASSUME NEW D, NEW P, Running(D, P), UNCHANGED <<queue, client, sent>>,
         \A d \in D : peer'[d] # "there" <=> peer[d] # "there", mAnswered' = mAnswered,
         server' = server \/ (server = "up" /\ server' # "up")
  PROVE  [Service!Next]_(Service!vars)
<1>1. /\ mManner' = mManner /\ mAsking' = mAsking
      /\ mQueue' = mQueue /\ mClient' = mClient /\ mSent' = mSent
      /\ (mUp' <=> mUp) \/ (mUp /\ ~mUp')
  <2>1. mManner' = mManner /\ mAsking' = mAsking /\ (mUp <=> server = "up") /\ (mUp' <=> server' = "up")
    BY Mapped
  <2>2. mQueue' = mQueue /\ mClient' = mClient /\ mSent' = mSent
    BY Mapped
  <2> QED  BY <2>1, <2>2
<1>2. mLeft' = mLeft
  BY MapsLeft
<1>3. mUp /\ ~mUp' => Service!BreakDown
  BY <1>1, <1>2, ServiceSteps
<1>4. CASE mUp /\ ~mUp'
  <2>1. mUp' \in BOOLEAN /\ mUp
    BY <1>4 DEF mUp
  <2>2. Service!ServerStep
    BY <1>1, <1>3, <1>4, <2>1 DEF Service!ServerStep, mUp, mManner, mAsking
  <2> QED  BY <2>2 DEF Service!Next
<1>5. CASE mUp' <=> mUp
  <2>1. UNCHANGED Service!vars
    BY <1>1, <1>2, <1>5 DEF Service!vars, mQueue, mClient, mSent, mAnswered, mLeft, mUp, mManner, mAsking
  <2> QED  BY <2>1
<1> QED  BY <1>1, <1>4, <1>5

\* The servers on epoll, poll and select echo what they read at once.
LEMMA ReadSteps ==
  ASSUME NEW D, NEW P, Running(D, P), program \in {"epoll", "poll"}
  PROVE  /\ \A c \in D : input[c] \in Nat /\ sent[c] \in Nat /\ input[c] <= sent[c]
                         /\ mAnswered[c] = sent[c] - input[c]
         /\ UNCHANGED <<sent, input>> => mAnswered' = mAnswered
         /\ mManner = "complete" /\ mAsking = All
<1>1. D \subseteq All /\ sent \in [D -> 0 .. P] /\ input \in [D -> 0 .. P] /\ P \in Nat
      /\ \A c \in D : input[c] <= sent[c]
  BY DEF Running, SockInv, Sock!SocketTypeOK
<1>2. /\ mAnswered  = [c \in All |-> IF c \in D THEN sent[c] - input[c] ELSE 0]
      /\ mAnswered' = [c \in All |-> IF c \in D THEN sent'[c] - input'[c] ELSE 0]
  BY MappedRead
<1>3. \A c \in D : input[c] \in Nat /\ sent[c] \in Nat /\ input[c] <= sent[c]
                   /\ mAnswered[c] = sent[c] - input[c]
  BY <1>1, <1>2
<1>4. UNCHANGED <<sent, input>> => mAnswered' = mAnswered
  BY <1>2
<1>5. mManner = "complete" /\ mAsking = All
  BY DEF mManner, mAsking, Manner, Asking
<1> QED  BY <1>3, <1>4, <1>5

LEMMA ReadArrival ==
  ASSUME NEW D, NEW P, Running(D, P), program \in {"epoll", "poll"}, NEW c \in D,
         Sock(D, P)!Connect(c) \/ Sock(D, P)!Send(c) \/ Sock(D, P)!Leave(c),
         server' = server
  PROVE  [Service!Next]_(Service!vars)
<1>1. /\ sent \in [D -> 0 .. P] /\ input \in [D -> 0 .. P] /\ P \in Nat
  BY DEF Running, SockInv, Sock!SocketTypeOK
<1>2. ASSUME NEW d \in D
      PROVE  sent'[d] - input'[d] = sent[d] - input[d]
  <2>1. sent[d] \in Int /\ input[d] \in Int
    BY <1>1
  <2>2. CASE UNCHANGED <<sent, input>>
    BY <2>2
  <2>3. CASE Sock(D, P)!Send(c)
    <3>1. /\ sent'[d]  = IF d = c THEN sent[d] + 1 ELSE sent[d]
          /\ input'[d] = IF d = c THEN input[d] + 1 ELSE input[d]
      BY <1>1, <2>3 DEF Sock!Send
    <3> QED  BY <2>1, <3>1
  <2> QED  BY <2>2, <2>3 DEF Sock!Connect, Sock!Leave
<1>3. mAnswered' = mAnswered
  <2>1. /\ mAnswered  = [d \in All |-> IF d \in D THEN sent[d] - input[d] ELSE 0]
        /\ mAnswered' = [d \in All |-> IF d \in D THEN sent'[d] - input'[d] ELSE 0]
    BY MappedRead
  <2> QED  BY <1>2, <2>1
<1> QED  BY <1>3, MapsClient

LEMMA ReadEcho ==
  ASSUME NEW D, NEW P, Running(D, P), program \in {"epoll", "poll"}, server = "up", NEW c \in D,
         client[c] = "open", input[c] > 0, input' = [input EXCEPT ![c] = @ - 1],
         UNCHANGED <<queue, client, sent>>,
         \A d \in D : peer'[d] # "there" <=> peer[d] # "there"
  PROVE  [Service!Next]_(Service!vars)
<1>1. D \subseteq All /\ sent \in [D -> 0 .. P] /\ input \in [D -> 0 .. P] /\ P \in Nat
      /\ input[c] <= sent[c]
  BY DEF Running, SockInv, Sock!SocketTypeOK
<1>2. /\ mAnswered  = [d \in All |-> IF d \in D THEN sent[d] - input[d] ELSE 0]
      /\ mAnswered' = [d \in All |-> IF d \in D THEN sent'[d] - input'[d] ELSE 0]
  BY MappedRead
<1> DEFINE n == sent[c] - input[c] + 1
<1>3. n \in mAnswered[c] + 1 .. sent[c]
  <2>1. mAnswered[c] = sent[c] - input[c] /\ sent[c] \in Nat /\ input[c] \in Nat
    BY <1>1, <1>2
  <2> QED  BY <1>1, <2>1
<1>4. mAnswered' = [mAnswered EXCEPT ![c] = n]
  <2>1. \A d \in D : sent'[d] - input'[d] = IF d = c THEN n ELSE sent[d] - input[d]
    BY <1>1
  <2> HIDE DEF n
  <2> QED  BY <1>1, <1>2, <2>1
<1> HIDE DEF n
<1>5. mManner # "once" /\ c \in mAsking
  BY <1>1, ReadSteps
<1> QED  BY <1>3, <1>4, <1>5, MapsAnswer

\* Each step of the echo server on epoll is one of the service, or none.
LEMMA EpollRefines ==
  ASSUME program = "epoll", UNCHANGED <<program, serves>>, EpollInv, EpollInv',
         Echo!ServerStep \/ Echo!Arrival
  PROVE  [Service!Next]_(Service!vars)
<1> DEFINE D == EchoClients  P == EchoPieces
<1>1. Running(D, P) /\ program \in {"epoll", "poll"}
  BY EpollConstants DEF Running, EpollInv, All
<1>2. /\ client \in [D -> {"none", "queued", "open", "closed"}]
      /\ peer \in [D -> {"there", "ended", "reset", "gone"}]
      /\ input \in [D -> 0 .. P]
      /\ server \in {"up", "exited", "killed", "undefined"}
  BY DEF EpollInv, SockInv, Sock!SocketTypeOK
<1> HIDE DEF D, P
<1>3. CASE Echo!Arrival
  <2>1. PICK c \in D : Echo!Connect(c) \/ Echo!Send(c) \/ Echo!Leave(c)
    BY <1>3 DEF Echo!Arrival, D
  <2>2. Sock(D, P)!Connect(c) \/ Sock(D, P)!Send(c) \/ Sock(D, P)!Leave(c)
    BY <2>1 DEF Sock!Connect, Sock!Send, Sock!Leave, Echo!Connect, Echo!Send, Echo!Leave,
                D, P
  <2>3. server' = server
    BY <1>3 DEF Echo!Arrival
  <2> QED  BY <1>1, <2>2, <2>3, ReadArrival
<1>4. CASE Echo!Wait
  <2>1. UNCHANGED <<queue, client, sent, input, peer, server>>
    BY <1>4 DEF Echo!Wait, Echo!connection
  <2>2. mAnswered' = mAnswered
    BY <1>1, <2>1, ReadSteps
  <2> QED  BY <1>1, <2>1, <2>2, MapsNothing
<1>5. CASE server = "up" /\ Echo!Accept
  <2>1. /\ queue # <<>> /\ UNCHANGED <<sent, input, peer, server>>
        /\ client' = [client EXCEPT ![Head(queue)] = "open"] /\ queue' = Tail(queue)
    BY <1>5 DEF Echo!Accept, Echo!TakeConnection
  <2>2. Head(queue) \in D
    BY <2>1, HeadTailProperties DEF EpollInv, SockInv, Sock!SocketTypeOK, D
  <2>3. mAnswered' = mAnswered
    BY <1>1, <2>1, ReadSteps
  <2> QED  BY <1>1, <1>5, <2>1, <2>2, <2>3, MapsAccept
<1>6. ASSUME server = "up", NEW c \in D,
             \/ Echo!L_Read(c) \/ Echo!E_Data(c) \/ Echo!E_End(c)
             \/ Echo!E_EndLeaves(c) \/ Echo!E_Later(c) \/ Echo!E_Error(c)
      PROVE  [Service!Next]_(Service!vars)
  <2>1. client[c] \in {"open", "closed"}
    <3>1. Echo!OnList(c, batch)
      BY <1>6, OnTail DEF Echo!L_Read, Echo!E_Data, Echo!E_End, Echo!E_EndLeaves,
         Echo!E_Later, Echo!E_Error, Echo!At, EpollInv, EpollLists
    <3> QED  BY <3>1 DEF EpollInv, EpollLists, D
  <2>2. CASE Echo!Echo(c) /\ Echo!ReadResult(c) = "data"
    <3>1. client[c] = "open" /\ input[c] > 0
      BY <2>1, <2>2 DEF Echo!ReadResult
    <3>2. /\ input' = [input EXCEPT ![c] = @ - 1] /\ UNCHANGED <<queue, client, sent>>
          /\ peer' = peer \/ (peer[c] = "reset" /\ peer' = [peer EXCEPT ![c] = "gone"])
      BY <2>2 DEF Echo!Echo, Echo!Write, Echo!ResetReported
    <3>3. \A d \in D : peer'[d] # "there" <=> peer[d] # "there"
      BY <1>2, <3>2
    <3> QED  BY <1>1, <1>6, <3>1, <3>2, <3>3, ReadEcho
  <2>3. CASE /\ Echo!Close(c) /\ client[c] = "open"
             /\ Echo!ReadResult(c) \in {"end", "error"}
    <3>1. input[c] = 0 /\ peer[c] # "there"
      BY <1>2, <2>3 DEF Echo!ReadResult
    <3>2. /\ client' = [client EXCEPT ![c] = "closed"]
          /\ UNCHANGED <<queue, sent, input, peer, server>>
      BY <2>3 DEF Echo!Close
    <3>3. mAnswered' = mAnswered /\ mAnswered[c] = sent[c] /\ mManner # "once"
      BY <1>1, <3>1, <3>2, ReadSteps
    <3> QED  BY <1>1, <1>6, <2>3, <3>1, <3>2, <3>3, MapsClose
  <2>4. CASE Echo!Close(c) /\ client[c] = "closed"
    <3>1. UNCHANGED <<queue, client, sent, input, peer, server>>
      BY <1>2, <2>4 DEF Echo!Close
    <3>2. mAnswered' = mAnswered
      BY <1>1, <3>1, ReadSteps
    <3> QED  BY <1>1, <3>1, <3>2, MapsNothing
  <2>5. CASE /\ UNCHANGED <<queue, client, sent, input, peer>>
             /\ server' \in {server, "exited"}
    <3>1. mAnswered' = mAnswered
      BY <1>1, <2>5, ReadSteps
    <3> QED  BY <1>1, <1>6, <2>5, <3>1, MapsNothing
  <2>6. ASSUME client[c] = "open"
        PROVE  Echo!ReadResult(c) # "bad_fd"
    BY <2>6 DEF Echo!ReadResult
  <2> USE DEF Echo!connection, Echo!epoll
  <2>7. CASE Echo!L_Read(c)
    BY <2>1, <2>2, <2>3, <2>4, <2>5, <2>7 DEF Echo!L_Read
  <2>8. CASE Echo!E_Data(c)
    BY <2>2, <2>8 DEF Echo!E_Data
  <2>9. CASE Echo!E_End(c) \/ Echo!E_EndLeaves(c)
    BY <2>1, <2>3, <2>4, <2>9 DEF Echo!E_End, Echo!E_EndLeaves
  <2>10. CASE Echo!E_Later(c)
    BY <2>5, <2>10 DEF Echo!E_Later
  <2>11. CASE Echo!E_Error(c)
    BY <2>1, <2>3, <2>4, <2>6, <2>11 DEF Echo!E_Error
  <2> QED  BY <1>6, <2>7, <2>8, <2>9, <2>10, <2>11
<1> QED  BY <1>3, <1>4, <1>5, <1>6 DEF Echo!ServerStep, D

LEMMA PollRefines ==
  ASSUME program = "poll", UNCHANGED <<program, serves>>, PollInv, PollInv',
         Poll!ServerStep \/ Poll!Arrival
  PROVE  [Service!Next]_(Service!vars)
<1> DEFINE D == PollClients  P == PollPieces
<1>1. Running(D, P) /\ program \in {"epoll", "poll"}
  BY PollConstants DEF Running, PollInv, All
<1>2. /\ client \in [D -> {"none", "queued", "open", "closed"}]
      /\ peer \in [D -> {"there", "ended", "reset", "gone"}]
      /\ input \in [D -> 0 .. P]
      /\ server \in {"up", "exited", "killed", "undefined"}
  BY PollTypes
<1> HIDE DEF D, P
<1>3. CASE Poll!Arrival
  <2>1. PICK c \in D : Poll!Connect(c) \/ Poll!Send(c) \/ Poll!Leave(c)
    BY <1>3 DEF Poll!Arrival, D
  <2>2. Sock(D, P)!Connect(c) \/ Sock(D, P)!Send(c) \/ Sock(D, P)!Leave(c)
    BY <2>1 DEF Sock!Connect, Sock!Send, Sock!Leave, Poll!Connect, Poll!Send, Poll!Leave,
                D, P
  <2>3. server' = server
    BY <1>3 DEF Poll!Arrival
  <2> QED  BY <1>1, <2>2, <2>3, ReadArrival
<1>4. CASE Poll!Poll \/ Poll!AcceptNone \/ Poll!Skip \/ Poll!EndOfRound
  <2>1. UNCHANGED <<queue, client, sent, input, peer, server>>
    BY <1>4 DEF Poll!Poll, Poll!AcceptNone, Poll!Skip, Poll!EndOfRound, Poll!connection
  <2>2. mAnswered' = mAnswered
    BY <1>1, <2>1, ReadSteps
  <2> QED  BY <1>1, <2>1, <2>2, MapsNothing
<1>5. CASE server = "up" /\ (Poll!AcceptOne \/ Poll!Overrun)
  <2>1. /\ pc = "accept" /\ connect /\ UNCHANGED <<sent, input, peer>>
        /\ client' = [client EXCEPT ![Head(queue)] = "open"] /\ queue' = Tail(queue)
    BY <1>5 DEF Poll!AcceptOne, Poll!Overrun, Poll!TakeConnection
  <2>2. queue # <<>>
    BY <1>5, <2>1 DEF PollInv, PollReports
  <2>3. Head(queue) \in D
    BY <2>2, HeadTailProperties DEF PollInv, SockInv, Sock!SocketTypeOK, D
  <2>4. mAnswered' = mAnswered
    BY <1>1, <2>1, ReadSteps
  <2> QED  BY <1>1, <1>5, <2>1, <2>2, <2>3, <2>4, MapsAccept
<1>6. CASE server = "up" /\ (Poll!ReadData \/ Poll!ReadEnd \/ Poll!ReadError)
  <2>1. pc = "read" /\ i <= max_fd /\ table[i] # NONE
    BY <1>6 DEF Poll!ReadData, Poll!ReadEnd, Poll!ReadError, Poll!InLoop
  <2>2. PollTable /\ i \in Poll!Entries
    BY <1>6, <2>1, PollTypes DEF PollInv, PollReports, Poll!Entries
  <2>3. PICK c \in D : c = table[i]
    BY <2>1, <2>2, PollTypes DEF D
  <2>4. client[c] = "open"
    BY <2>1, <2>2, <2>3 DEF PollTable
  <2>5. CASE Poll!ReadData
    <3>1. input[c] > 0
      BY <2>3, <2>5 DEF Poll!ReadData, Poll!ReadResult
    <3>2. /\ input' = [input EXCEPT ![c] = @ - 1] /\ UNCHANGED <<queue, client, sent>>
          /\ peer' = peer \/ (peer[c] = "reset" /\ peer' = [peer EXCEPT ![c] = "gone"])
      BY <2>3, <2>5 DEF Poll!ReadData, Poll!Echo, Poll!Write, Poll!ResetReported
    <3>3. \A d \in D : peer'[d] # "there" <=> peer[d] # "there"
      BY <1>2, <3>2
    <3> QED  BY <1>1, <1>6, <2>4, <3>1, <3>2, <3>3, ReadEcho
  <2>6. CASE Poll!ReadEnd
    <3>1. input[c] = 0 /\ peer[c] # "there"
      BY <1>2, <2>3, <2>6 DEF Poll!ReadEnd, Poll!ReadResult
    <3>2. /\ client' = [client EXCEPT ![c] = "closed"]
          /\ UNCHANGED <<queue, sent, input, peer, server>>
      BY <2>3, <2>6 DEF Poll!ReadEnd, Poll!Close
    <3>3. mAnswered' = mAnswered /\ mAnswered[c] = sent[c] /\ mManner # "once"
      BY <1>1, <3>1, <3>2, ReadSteps
    <3> QED  BY <1>1, <1>6, <2>4, <3>1, <3>2, <3>3, MapsClose
  <2>7. CASE Poll!ReadError
    <3>1. peer[c] = "reset"
      BY <2>3, <2>7 DEF Poll!ReadError, Poll!ReadResult
    <3>2. /\ peer' = [peer EXCEPT ![c] = "gone"]
          /\ UNCHANGED <<queue, client, sent, input, server>>
      BY <2>3, <2>7 DEF Poll!ReadError, Poll!ResetReported
    <3>3. \A d \in D : peer'[d] # "there" <=> peer[d] # "there"
      BY <1>2, <3>1, <3>2
    <3>4. mAnswered' = mAnswered
      BY <1>1, <3>2, ReadSteps
    <3> QED  BY <1>1, <3>2, <3>3, <3>4, MapsNothing
  <2> QED  BY <1>6, <2>5, <2>6, <2>7
<1> QED  BY <1>3, <1>4, <1>5, <1>6 DEF Poll!ServerStep

\* The servers on libevent answer what they write, and drop the rest.
LEMMA LibRefines ==
  ASSUME program = "libevent", UNCHANGED <<program, serves>>, LibInv, LibInv', AskInv,
         \/ Libevent!ServerStep \/ Libevent!Arrival
         \/ server = "up" /\ Libevent!CbSignal
  PROVE  [Service!Next]_(Service!vars)
<1> DEFINE D == EchoClients  P == EchoPieces
<1>1. Running(D, P) /\ mManner = "lossy"
  BY LibTypes DEF Running, LibInv, All, mManner, Manner
<1>2. /\ client \in [D -> {"none", "queued", "open", "closed"}]
      /\ peer \in [D -> {"there", "ended", "reset", "gone"}]
      /\ input \in [D -> 0 .. P] /\ inbuf \in [D -> 0 .. P] /\ outbuf \in [D -> 0 .. P]
      /\ written \in [D -> 0 .. P] /\ sent \in [D -> 0 .. P]
      /\ server \in {"up", "exited", "killed", "undefined"}
  BY LibTypes
<1>3. \A c \in D : input[c] + inbuf[c] + outbuf[c] + written[c] <= sent[c]
  BY DEF LibInv
<1> HIDE DEF D, P
<1>4. D \subseteq All
  BY <1>1 DEF Running
<1>5. /\ mAnswered  = [c \in All |-> IF c \in D THEN written[c] ELSE 0]
      /\ mAnswered' = [c \in All |-> IF c \in D THEN written'[c] ELSE 0]
  BY <1>1, MappedWritten
<1>6. written' = written => mAnswered' = mAnswered
  BY <1>5
<1>7. CASE Libevent!Arrival
  <2>1. PICK c \in D : Libevent!Connect(c) \/ Libevent!Send(c) \/ Libevent!Leave(c)
    BY <1>7 DEF Libevent!Arrival, D
  <2>2. Sock(D, P)!Connect(c) \/ Sock(D, P)!Send(c) \/ Sock(D, P)!Leave(c)
    BY <2>1 DEF Sock!Connect, Sock!Send, Sock!Leave,
                Libevent!Connect, Libevent!Send, Libevent!Leave, D, P
  <2>3. server' = server /\ mAnswered' = mAnswered
    BY <1>6, <1>7 DEF Libevent!Arrival, Libevent!library, Libevent!buffers
  <2> QED  BY <1>1, <2>2, <2>3, MapsClient
<1>8. ASSUME UNCHANGED <<queue, client, sent, peer, server, written>>
      PROVE  [Service!Next]_(Service!vars)
  BY <1>1, <1>6, <1>8, MapsNothing
<1>9. CASE Libevent!Dispatch
  BY <1>8, <1>9 DEF Libevent!Dispatch, Libevent!connection, Libevent!buffers
<1>10. CASE server = "up" /\ Libevent!CbListener
  <2>1. /\ <<LISTEN, "read">> \in active
        /\ client' = [client EXCEPT ![Head(queue)] = "open"] /\ queue' = Tail(queue)
        /\ UNCHANGED <<sent, peer, server, written>>
    BY <1>10 DEF Libevent!CbListener, Libevent!TakeConnection, Libevent!buffers
  <2>2. queue # <<>>
    BY <2>1 DEF LibInv
  <2>3. Head(queue) \in D
    BY <2>2, HeadTailProperties DEF LibInv, SockInv, Sock!SocketTypeOK, D
  <2> QED  BY <1>1, <1>6, <1>10, <2>1, <2>2, <2>3, MapsAccept
<1>11. ASSUME server = "up", NEW c \in D, client[c] = "open", peer[c] # "there",
              Libevent!FreeBufferevent(c),
              UNCHANGED <<queue, sent, peer, server, written>>
       PROVE  [Service!Next]_(Service!vars)
  <2>1. client' = [client EXCEPT ![c] = "closed"]
    BY <1>11 DEF Libevent!FreeBufferevent
  <2> QED  BY <1>1, <1>6, <1>11, <2>1, MapsClose
<1>12. ASSUME server = "up", NEW c \in D, Libevent!CbRead(c)
       PROVE  [Service!Next]_(Service!vars)
  BY <1>8, <1>12 DEF Libevent!CbRead
<1>13. ASSUME server = "up", NEW c \in D, Libevent!CbEvent(c)
       PROVE  [Service!Next]_(Service!vars)
  <2>1. client[c] = "open"
    BY <1>13 DEF Libevent!CbEvent, LibInv, D
  <2>2. peer[c] # "there"
    BY <1>2, <1>13 DEF Libevent!CbEvent, Libevent!ReadResult
  <2> QED  BY <1>11, <1>13, <2>1, <2>2 DEF Libevent!CbEvent
<1>14. ASSUME server = "up", NEW c \in D, Libevent!CbWrite(c)
       PROVE  [Service!Next]_(Service!vars)
  <2>1. client[c] = "open" /\ UNCHANGED <<queue, sent, input, peer, serves>>
    BY <1>14 DEF Libevent!CbWrite, LibInv, D
  <2>2. ASSUME NEW n \in 1 .. outbuf[c], written' = [written EXCEPT ![c] = @ + n],
               client' = client, server' = server
        PROVE  [Service!Next]_(Service!vars)
    <3> DEFINE m == written[c] + n
    <3>1. mAnswered[c] = written[c] /\ written[c] + n \in written[c] + 1 .. sent[c]
      <4>1. /\ written[c] \in Nat /\ outbuf[c] \in Nat /\ inbuf[c] \in Nat
            /\ input[c] \in Nat /\ sent[c] \in Nat
            /\ input[c] + inbuf[c] + outbuf[c] + written[c] <= sent[c]
        BY <1>2, <1>3
      <4>2. mAnswered[c] = written[c]
        BY <1>4, <1>5
      <4> QED  BY <4>1, <4>2
    <3>2. m \in mAnswered[c] + 1 .. sent[c]
      BY <3>1
    <3> HIDE DEF m
    <3>3. \A d \in D : written'[d] = IF d = c THEN m ELSE written[d]
      BY <1>2, <2>2 DEF m
    <3>4. mAnswered' = [mAnswered EXCEPT ![c] = m]
      BY <1>4, <1>5, <3>3
    <3>5. c \in mAsking
      <4>1. written[c] + outbuf[c] > 0
        BY <1>2
      <4>2. serves = "http" => c \in Getters \cup Blank
        BY <1>2, <4>1 DEF AskInv, D
      <4> QED  BY <1>4, <4>2 DEF mAsking, Asking
    <3> QED  BY <1>1, <1>14, <2>1, <2>2, <3>2, <3>4, <3>5, MapsAnswer
  <2>3. CASE peer[c] = "reset" /\ Libevent!FreeBufferevent(c) /\ UNCHANGED <<written, server>>
    BY <1>11, <1>14, <2>1, <2>3
  <2>4. CASE server' = "killed" /\ UNCHANGED <<client, written>>
    BY <1>1, <1>6, <1>14, <2>1, <2>4, MapsNothing
  <2> QED  BY <1>14, <2>2, <2>3, <2>4 DEF Libevent!CbWrite, Libevent!buffers
<1>15. CASE server = "up" /\ Libevent!CbSignal
  <2>1. UNCHANGED <<queue, client, sent, input, peer, written>> /\ server' = "exited"
    BY <1>15 DEF Libevent!CbSignal, Libevent!connection, Libevent!library, Libevent!buffers
  <2> QED  BY <1>1, <1>6, <1>15, <2>1, MapsNothing
<1> QED
  BY <1>7, <1>9, <1>10, <1>12, <1>13, <1>14, <1>15 DEF Libevent!ServerStep, D

\* The http server on epoll answers a connection when it closes it, and
\* only then.
LEMMA HttpRefines ==
  ASSUME program = "http", UNCHANGED <<program, serves>>, HttpInv, HttpInv', LineInv,
         Http!ServerStep \/ Http!Arrival
  PROVE  [Service!Next]_(Service!vars)
<1> DEFINE D == EchoClients  P == EchoPieces
<1>1. Running(D, P) /\ mManner = "once" /\ mAsking = Getters
  BY EpollConstants DEF Running, HttpInv, EpollInv, All, mManner, Manner, mAsking, Asking
<1>2. /\ client \in [D -> {"none", "queued", "open", "closed"}]
      /\ peer \in [D -> {"there", "ended", "reset", "gone"}]
      /\ sent \in [D -> 0 .. P] /\ queue \in Seq(D)
      /\ server \in {"up", "exited", "killed", "undefined"} /\ LISTEN \notin D
  BY EpollConstants DEF HttpInv, EpollInv, SockInv, Sock!SocketTypeOK
<1>3. \A c \in D : Echo!OnList(c, batch) => client[c] \in {"open", "closed"}
  BY DEF HttpInv, EpollInv, EpollLists
<1>4. batch \in Seq(Echo!Fds)
  BY DEF HttpInv, EpollInv, EpollLists
<1> HIDE DEF D, P
<1>5. /\ D \subseteq All
      /\ mAnswered  = [c \in All |-> IF c \in D /\ client[c] = "closed" THEN 1 ELSE 0]
      /\ mAnswered' = [c \in All |-> IF c \in D /\ client'[c] = "closed" THEN 1 ELSE 0]
  BY <1>1, MappedOnce DEF Running
<1>6. (\A c \in D : client'[c] = "closed" <=> client[c] = "closed") => mAnswered' = mAnswered
  BY <1>5
<1>7. CASE Http!Arrival
  <2>1. PICK c \in D : Http!Connect(c) \/ Http!Send(c) \/ Http!Leave(c)
    BY <1>7 DEF Http!Arrival, D
  <2>2. Sock(D, P)!Connect(c) \/ Sock(D, P)!Send(c) \/ Sock(D, P)!Leave(c)
    BY <2>1 DEF Sock!Connect, Sock!Send, Sock!Leave, Http!Connect, Http!Send, Http!Leave,
                D, P
  <2>3. \A d \in D : client'[d] = "closed" <=> client[d] = "closed"
    BY <1>2, <2>1 DEF Http!Connect, Http!Send, Http!Leave
  <2>4. server' = server /\ mAnswered' = mAnswered
    BY <1>6, <1>7, <2>3 DEF Http!Arrival
  <2> QED  BY <1>1, <2>2, <2>4, MapsClient
<1>8. ASSUME UNCHANGED <<queue, client, sent, server>>,
             \A d \in D : peer'[d] # "there" <=> peer[d] # "there"
      PROVE  [Service!Next]_(Service!vars)
  <2>1. mAnswered' = mAnswered
    BY <1>6, <1>8
  <2> QED  BY <1>1, <1>8, <2>1, MapsNothing
<1>9. CASE Http!Wait
  BY <1>8, <1>9 DEF Http!Wait, Http!connection
<1>10. CASE server = "up" /\ Http!Accept
  <2>1. /\ queue # <<>> /\ UNCHANGED <<sent, peer, server>>
        /\ client' = [client EXCEPT ![Head(queue)] = "open"] /\ queue' = Tail(queue)
    BY <1>10 DEF Http!Accept, Http!TakeConnection
  <2>2. Head(queue) \in D /\ client[Head(queue)] = "queued"
    <3>1. Head(queue) = queue[1] /\ 1 \in 1 .. Len(queue) /\ Head(queue) \in D
      BY <1>2, <2>1, HeadTailProperties, LenProperties, EmptySeq
    <3> QED  BY <1>1, <3>1 DEF Running, SockInv
  <2>3. \A d \in D : client'[d] = "closed" <=> client[d] = "closed"
    BY <1>2, <2>1, <2>2
  <2> QED  BY <1>1, <1>6, <1>10, <2>1, <2>2, <2>3, MapsAccept
<1>11. ASSUME NEW c \in D, Http!R_Line(c) PROVE [Service!Next]_(Service!vars)
  BY <1>8, <1>11 DEF Http!R_Line
<1>12. ASSUME NEW c \in D, Http!R_Drop(c) PROVE [Service!Next]_(Service!vars)
  <2>1. /\ UNCHANGED <<queue, client, sent, server>>
        /\ peer' = peer \/ (peer[c] = "reset" /\ peer' = [peer EXCEPT ![c] = "gone"])
    BY <1>12 DEF Http!R_Drop, Http!ResetReported
  <2>2. \A d \in D : peer'[d] # "there" <=> peer[d] # "there"
    BY <1>2, <2>1
  <2> QED  BY <1>8, <2>1, <2>2
<1>13. ASSUME server = "up", NEW c \in D, Http!R_Reply(c)
       PROVE  [Service!Next]_(Service!vars)
  <2>1. batch # <<>> /\ Head(batch) = c /\ line = 1 /\ c \in Getters
    BY <1>13 DEF Http!R_Reply, Http!At, Http!IsGet
  <2>2. client[c] = "open"
    <3>1. Echo!OnList(c, batch)
      BY <1>4, <2>1, OnTail
    <3>2. client[c] # "closed"
      BY <1>13 DEF Http!R_Reply, Http!NoMore, Http!ReadResult
    <3> QED  BY <1>3, <3>1, <3>2
  <2>3. sent[c] > 0
    BY <1>2, <2>1 DEF LineInv
  <2>4. /\ client' = [client EXCEPT ![c] = "closed"] /\ UNCHANGED <<queue, sent>>
        /\ peer' = peer \/ (peer[c] = "reset" /\ peer' = [peer EXCEPT ![c] = "gone"])
    BY <1>13 DEF Http!R_Reply, Http!Write, Http!ResetReported
  <2>5. \A d \in D : peer'[d] # "there" <=> peer[d] # "there"
    BY <1>2, <2>4
  <2>6. mAnswered[c] = 0 /\ mAnswered' = [mAnswered EXCEPT ![c] = 1]
    BY <1>2, <1>5, <2>2, <2>4
  <2> QED  BY <1>1, <1>13, <2>1, <2>2, <2>3, <2>4, <2>5, <2>6, MapsReply
<1> QED  BY <1>7, <1>9, <1>10, <1>11, <1>12, <1>13 DEF Http!ServerStep, D

LEMMA StepRefines ==
  Inv /\ Inv' /\ [Next]_vars => [Service!Next]_(Service!vars)
<1> SUFFICES ASSUME Inv, Inv', [Next]_vars PROVE [Service!Next]_(Service!vars)
  OBVIOUS
<1>1. CASE UNCHANGED vars
  <2>1. UNCHANGED Service!vars
    BY <1>1 DEF vars, epoll, poller, library, Service!vars, Of, AnsweredBy, Manner, Asking
  <2> QED  BY <2>1
<1>2. CASE Epolls /\ (Echo!ServerStep \/ Echo!Arrival)
  <2>1. program = "epoll" /\ UNCHANGED <<program, serves>>
    BY <1>2 DEF Epolls, library
  <2> QED  BY <1>2, <2>1, EpollRefines DEF Inv
<1>3. CASE Https /\ (Http!ServerStep \/ Http!Arrival)
  <2>1. program = "http" /\ UNCHANGED <<program, serves>>
    BY <1>3 DEF Https, library
  <2> QED  BY <1>3, <2>1, HttpRefines DEF Inv
<1>4. CASE Polls /\ (Poll!ServerStep \/ Poll!Arrival)
  <2>1. program = "poll" /\ UNCHANGED <<program, serves>>
    BY <1>4 DEF Polls, library
  <2> QED  BY <1>4, <2>1, PollRefines DEF Inv
<1>5. CASE /\ Libevents
           /\ \/ Libevent!ServerStep \/ Libevent!Arrival
              \/ server = "up" /\ Libevent!CbSignal
  <2>1. program = "libevent" /\ program' = program
    BY <1>5 DEF Libevents
  <2>2. serves' = serves
    BY <1>5 DEF Libevent!ServerStep, Libevent!Arrival, Libevent!CbSignal,
       Libevent!Dispatch, Libevent!CbListener, Libevent!CbRead, Libevent!CbEvent,
       Libevent!CbWrite, Libevent!library
  <2> QED  BY <1>5, <2>1, <2>2, LibRefines DEF Inv
<1> QED
  BY <1>1, <1>2, <1>3, <1>4, <1>5 DEF Next, ServerStep, Arrival, Signal

LEMMA InitRefines == Init => Service!Init
<1> SUFFICES ASSUME Init PROVE Service!Init
  OBVIOUS
<1>1. PICK D : D \in {EchoClients, PollClients} /\ \E P : Sock(D, P)!SocketInit
  BY DEF Init, Echo!Init, Http!Init, Poll!Init, Libevent!Init, Sock!SocketInit,
     Echo!SocketInit, Http!SocketInit, Poll!SocketInit, Libevent!SocketInit
<1>2. /\ queue = <<>> /\ server = "up" /\ DOMAIN client = D
      /\ \A c \in D : client[c] = "none" /\ sent[c] = 0 /\ input[c] = 0 /\ peer[c] = "there"
  BY <1>1 DEF Sock!SocketInit
<1>3. program = "libevent" => \A c \in D : written[c] = 0
  <2>1. CASE program = "libevent"
    <3>1. Libevent!Init
      BY <2>1 DEF Init
    <3>2. DOMAIN client = EchoClients /\ written = [c \in EchoClients |-> 0]
      BY <3>1 DEF Libevent!Init, Libevent!SocketInit
    <3> QED  BY <1>2, <3>2
  <2> QED  BY <2>1
<1>4. mQueue = <<>> /\ mUp = TRUE
  BY <1>2 DEF mQueue, mUp
<1>5. \A c : c \in DOMAIN client => AnsweredBy(c) = 0
  <2>1. 0 - 0 = 0
    OBVIOUS
  <2>2. program \in {"epoll", "http", "poll", "libevent"}
    BY DEF Init
  <2> QED  BY <1>2, <1>3, <2>1, <2>2 DEF AnsweredBy
<1>6. /\ mClient = [c \in All |-> "none"] /\ mSent = [c \in All |-> 0]
      /\ mAnswered = [c \in All |-> 0] /\ mLeft = [c \in All |-> FALSE]
  <2>1. \A c : /\ Of(c, client[c], "none") = "none" /\ Of(c, sent[c], 0) = 0
               /\ Of(c, AnsweredBy(c), 0) = 0
    BY <1>2, <1>5 DEF Of
  <2>2. \A c : Of(c, peer[c] # "there", FALSE) = FALSE
    BY <1>2 DEF Of
  <2>3. mClient = [c \in All |-> "none"] /\ mSent = [c \in All |-> 0]
    BY <2>1 DEF mClient, mSent
  <2>4. mAnswered = [c \in All |-> 0]
    BY <2>1 DEF mAnswered
  <2>5. mLeft = [c \in All |-> FALSE]
    BY <2>2 DEF mLeft
  <2> QED  BY <2>3, <2>4, <2>5
<1>7. mManner \in {"complete", "lossy", "once"} /\ mAsking \in SUBSET All
  <2>1. program \in {"epoll", "http", "poll", "libevent"}
    BY DEF Init
  <2> QED  BY <2>1, EventAssumption DEF mManner, Manner, mAsking, Asking, All,
             Libevent!LibeventAssumption
<1> QED
  BY <1>4, <1>6, <1>7 DEF Service!Init, mQueue, mClient, mSent, mAnswered, mLeft, mUp, mManner, mAsking

(* The event-driven servers implement the service that EventService        *)
(* describes: the connections are accepted in the order they were made,    *)
(* what a client sent is answered once at most, and never where nothing    *)
(* was asked for; an echo server closes a connection only when its client  *)
(* has left, and but for the one on libevent after everything was echoed;  *)
(* the http server on epoll closes it with its one answer                  *)
(* (epoll_server.c:66-103, 122-173, poll_server.c:73-118,                  *)
(* select_server.c:56-99, http_epoll.c:86-107, event_server.c:14-63,       *)
(* libevent_http.c:36-103).                                                *)
THEOREM ServiceImplemented == Spec => ImplementsService
BY InvAlways, InitRefines, StepRefines, PTL DEF Spec, ImplementsService, Service!Spec
=============================================================================
