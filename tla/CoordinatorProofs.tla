------------------------- MODULE CoordinatorProofs -------------------------
(***************************************************************************)
(* What the coordinator may rely on, for every set of clients, sources,    *)
(* domains and messages and every number of requests and restarts          *)
(* (Coordinator.tla).                                                      *)
(*                                                                         *)
(* The invariant comes in three parts: the types, with the queue of        *)
(* connections; the log, with the copies of it that are in a file or on    *)
(* their way to one; and the numbers of the requests.                      *)
(***************************************************************************)
EXTENDS Coordinator, TLAPS

Operation == Mutation \cup {"source", "query", "snapshot", "shutdown"}

Request ==
    [op : {"source"}, source : Source, generation : {0}, domain : Scope, content : {0},
     boot : Nat, epoch : {0, Epoch}, id : 1 .. MaxRequests]
    \cup [op : {"profile"}, source : Source, generation : Generation, domain : Domain,
          content : Content, boot : Nat, epoch : {0, Epoch}, id : 1 .. MaxRequests]
    \cup [op : Mutation \ {"profile"}, source : Source, generation : {0},
          domain : {0}, content : {0}, boot : Nat, epoch : {0, Epoch},
          id : 1 .. MaxRequests]
    \cup [op : {"query", "snapshot", "shutdown"}, source : {0}, generation : {0},
          domain : {0}, content : {0}, boot : Nat, epoch : {0, Epoch},
          id : 1 .. MaxRequests]

Response ==
    {r \in [op : Operation, source : Source \cup {0}, id : 1 .. MaxRequests, ok : BOOLEAN,
            boot : Nat, snapshot : Seq(Applied)] : r.op = "source" => r.source \in Source}

\* The sockets and what is in them.
Sockets ==
    /\ up \in {"running", "stopping", "down"}
    /\ serving \subseteq Client /\ waiting \subseteq Client
    /\ backlog \in Seq(Client \ serving)
    /\ link \in [Client -> {"closed", "open", "half"}]
    /\ inbox \in [Client -> {<<>>} \cup {<<m>> : m \in Request}]
    /\ reply \in [Client -> {<<>>} \cup {<<r>> : r \in Response}]

\* A client waits in the queue once, and only with a connection.
Queue ==
    /\ \A i, j \in DOMAIN backlog : backlog[i] = backlog[j] => i = j
    /\ \A i \in DOMAIN backlog : link[backlog[i]] # "closed"
    /\ \A c \in serving : link[c] # "closed"

Registry ==
    /\ granted \in Seq(Scope)
    /\ DOMAIN sources \subseteq Source
    /\ \A s \in DOMAIN sources : sources[s] \in SourceInfo
    /\ log \in Seq(Applied)

Clients ==
    /\ creds \in [Client -> [Source -> Nat]]
    /\ epoch \in [Client -> {0, Epoch}]
    /\ file \in Seq(Applied)
    /\ requests \in 0 .. MaxRequests

TypeInv == Sockets /\ Queue /\ Registry /\ Clients

LEMMA TypeInvIsTypeOK == TypeInv => TypeOK
BY DEF TypeInv, Sockets, Registry, Clients, TypeOK

-----------------------------------------------------------------------------
(* What the sockets hold.                                                  *)

LEMMA InboxFacts ==
    ASSUME Sockets, NEW c \in Client, inbox[c] # <<>>
    PROVE  inbox[c] = <<inbox[c][1]>> /\ inbox[c][1] \in Request
<1>1. PICK m \in Request : inbox[c] = <<m>>
  BY DEF Sockets
<1>. QED  BY <1>1

LEMMA ReplyFacts ==
    ASSUME Sockets, NEW c \in Client, reply[c] # <<>>
    PROVE  reply[c] = <<reply[c][1]>> /\ reply[c][1] \in Response
<1>1. PICK r \in Response : reply[c] = <<r>>
  BY DEF Sockets
<1>. QED  BY <1>1

\* Appending to a sequence and taking its head.
LEMMA AppendFacts ==
    ASSUME NEW S, NEW s \in Seq(S), NEW e \in S
    PROVE  /\ Append(s, e) \in Seq(S)
           /\ Len(Append(s, e)) = Len(s) + 1 /\ Len(s) \in Nat
           /\ DOMAIN s = 1 .. Len(s)
           /\ DOMAIN Append(s, e) = 1 .. Len(s) + 1
           /\ \A i \in 1 .. Len(s) : Append(s, e)[i] = s[i]
           /\ Append(s, e)[Len(s) + 1] = e
OBVIOUS

LEMMA TailFacts ==
    ASSUME NEW S, NEW s \in Seq(S), s # <<>>
    PROVE  /\ Head(s) = s[1] /\ Head(s) \in S
           /\ 1 \in DOMAIN s
           /\ Tail(s) \in Seq(S)
           /\ DOMAIN s = 1 .. Len(s) /\ Len(s) \in Nat \ {0}
           /\ DOMAIN Tail(s) = 1 .. Len(s) - 1
           /\ \A i \in DOMAIN Tail(s) : i + 1 \in DOMAIN s /\ Tail(s)[i] = s[i + 1]
OBVIOUS

LEMMA EmptySeqFacts ==
    ASSUME NEW S PROVE <<>> \in Seq(S) /\ DOMAIN <<>> = {}
OBVIOUS

-----------------------------------------------------------------------------
(* Types.                                                                  *)

LEMMA TypeInit == Init => TypeInv
<1> SUFFICES ASSUME Init PROVE TypeInv
  OBVIOUS
<1>1. Sockets
  BY EmptySeqFacts DEF Init, Sockets
<1>2. Queue
  BY DEF Init, Queue
<1>3. Registry
  BY EmptySeqFacts DEF Init, Registry, NoSources
<1>4. Clients
  BY EmptySeqFacts, CoordinatorAssumption DEF Init, Clients, Nobody
<1>. QED  BY <1>1, <1>2, <1>3, <1>4 DEF TypeInv

\* Connections are dropped; the queue goes with them.
LEMMA KeepOnlyTyped ==
    ASSUME TypeInv, NEW S \in SUBSET serving, KeepOnly(S),
           up' \in {"running", "stopping", "down"},
           reply' \in [Client -> {<<>>} \cup {<<r>> : r \in Response}]
    PROVE  Sockets' /\ Queue'
<1>1. S \in SUBSET Client
  BY DEF TypeInv, Sockets
<1>2. backlog' \in Seq(Client \ serving')
  BY EmptySeqFacts DEF KeepOnly
<1>3. Sockets'
  BY <1>1, <1>2 DEF TypeInv, Sockets, KeepOnly
<1>4. Queue'
  BY <1>1, EmptySeqFacts DEF TypeInv, Sockets, Queue, KeepOnly
<1>. QED  BY <1>3, <1>4

LEMMA RespondTyped ==
    ASSUME TypeInv, NEW c \in Client, NEW isOk \in BOOLEAN, NEW boot \in Nat,
           Respond(c, isOk, boot)
    PROVE  Sockets' /\ Queue' /\ Clients'
<1> DEFINE m == inbox[c][1]
           r == [op |-> m.op, source |-> m.source, id |-> m.id, ok |-> isOk, boot |-> boot,
                 snapshot |-> IF m.op = "snapshot" THEN log ELSE <<>>]
<1>1. m \in Request
  BY InboxFacts DEF Respond, TypeInv
<1>2. r \in Response
  <2>1. m.op \in Operation /\ m.source \in Source \cup {0} /\ m.id \in 1 .. MaxRequests
    BY <1>1 DEF Request, Operation, Mutation
  <2>2. m.op = "source" => m.source \in Source
    BY <1>1 DEF Request, Mutation
  <2>3. r.snapshot \in Seq(Applied)
    BY EmptySeqFacts DEF TypeInv, Registry
  <2>. QED  BY <2>1, <2>2, <2>3 DEF Response
<1>3. reply' \in [Client -> {<<>>} \cup {<<x>> : x \in Response}]
  BY <1>2 DEF Respond, TypeInv, Sockets
<1>4. CASE up = "stopping" \/ m.op = "shutdown"
  <2>1. up' = "down" /\ KeepOnly({})
    BY <1>4 DEF Respond, Ends
  <2>. QED  BY <1>3, <2>1, KeepOnlyTyped DEF Respond, TypeInv, Clients, clientVars
<1>5. CASE ~(up = "stopping" \/ m.op = "shutdown")
  <2>1. /\ inbox' = [inbox EXCEPT ![c] = <<>>]
        /\ UNCHANGED <<up, backlog, serving, link, waiting>>
    BY <1>5 DEF Respond
  <2>. QED  BY <1>3, <2>1 DEF Respond, TypeInv, Sockets, Queue, Clients, clientVars
<1>. QED  BY <1>4, <1>5

\* The clients.
LEMMA ConnectTyped ==
    ASSUME TypeInv, NEW c \in Client, Connect(c) PROVE TypeInv'
<1>1. c \notin serving /\ \A i \in DOMAIN backlog : backlog[i] # c
  BY DEF TypeInv, Queue, Connect
<1>2. backlog' = Append(backlog, c) /\ c \in Client \ serving
  BY <1>1 DEF Connect
<1>3. backlog \in Seq(Client \ serving) /\ serving' = serving
  BY DEF TypeInv, Sockets, Connect
<1>4. /\ backlog' \in Seq(Client \ serving')
      /\ DOMAIN backlog = 1 .. Len(backlog) /\ Len(backlog) \in Nat
      /\ DOMAIN backlog' = 1 .. Len(backlog) + 1
      /\ \A i \in 1 .. Len(backlog) : backlog'[i] = backlog[i]
      /\ backlog'[Len(backlog) + 1] = c
  BY <1>2, <1>3, AppendFacts
<1>5. Sockets'
  BY <1>3, <1>4 DEF TypeInv, Sockets, Connect, serverVars
<1>6. \A i, j \in DOMAIN backlog' : backlog'[i] = backlog'[j] => i = j
  BY <1>1, <1>4 DEF TypeInv, Queue
<1>7. link' = [link EXCEPT ![c] = "open"] /\ link \in [Client -> {"closed", "open", "half"}]
  BY DEF Connect, TypeInv, Sockets
<1>8. \A i \in DOMAIN backlog' : link'[backlog'[i]] # "closed"
  <2> SUFFICES ASSUME NEW i \in DOMAIN backlog' PROVE link'[backlog'[i]] # "closed"
    OBVIOUS
  <2>1. CASE i = Len(backlog) + 1
    BY <1>4, <1>7, <2>1
  <2>2. CASE i # Len(backlog) + 1
    <3>1. i \in DOMAIN backlog /\ backlog'[i] = backlog[i]
      BY <1>4, <2>2
    <3>2. backlog[i] \in Client /\ link[backlog[i]] # "closed"
      BY <1>3, <3>1 DEF TypeInv, Queue
    <3>. QED  BY <1>7, <3>1, <3>2
  <2>. QED  BY <2>1, <2>2
<1>9. \A d \in serving' : link'[d] # "closed"
  BY <1>3, <1>7 DEF TypeInv, Queue, Sockets
<1>. QED  BY <1>5, <1>6, <1>8, <1>9 DEF TypeInv, Queue, Registry, Clients, Connect,
             serverVars, clientVars

LEMMA SendTyped ==
    ASSUME TypeInv, NEW c \in Client, NEW m \in Message, m.op \in MsgType, Send(c, m)
    PROVE  TypeInv'
<1> DEFINE r == [op |-> m.op, source |-> m.source, generation |-> m.generation,
                 domain |-> m.domain, content |-> m.content,
                 boot |-> IF m.source \in Source THEN creds[c][m.source] ELSE 0,
                 epoch |-> epoch[c], id |-> requests']
<1>1. requests' \in 1 .. MaxRequests
  BY CoordinatorAssumption DEF TypeInv, Clients, Send
<1>2. epoch[c] \in {0, Epoch}
  BY DEF TypeInv, Clients
<1>3. r.boot \in Nat
  BY DEF TypeInv, Clients
<1>4. r \in Request
  BY <1>1, <1>2, <1>3 DEF Message, Request
<1>5. inbox' = [inbox EXCEPT ![c] = <<r>>]
  BY DEF Send
<1>6. Sockets' /\ Queue'
  BY <1>4, <1>5 DEF TypeInv, Sockets, Queue, Send, serverVars
<1>7. Registry' /\ Clients'
  BY <1>1 DEF TypeInv, Registry, Clients, Send, serverVars, clientVars
<1>. QED  BY <1>6, <1>7 DEF TypeInv

LEMMA ReceiveTyped ==
    ASSUME TypeInv, NEW c \in Client, Receive(c) PROVE TypeInv'
<1> DEFINE r == reply[c][1]
<1>1. r \in Response
  BY ReplyFacts DEF TypeInv, Receive
<1>2. Sockets' /\ Queue'
  BY DEF TypeInv, Sockets, Queue, Receive, serverVars
<1>3. creds' \in [Client -> [Source -> Nat]] /\ epoch' \in [Client -> {0, Epoch}]
  <2>1. CASE r.op = "source"
    <3>1. r.source \in Source /\ r.boot \in Nat
      BY <1>1, <2>1 DEF Response
    <3>2. creds' = [creds EXCEPT ![c][r.source] = r.boot]
          /\ epoch' = [epoch EXCEPT ![c] = Epoch]
      BY <2>1 DEF Receive
    <3>. QED  BY <3>1, <3>2 DEF TypeInv, Clients
  <2>2. CASE r.op # "source"
    BY <2>2 DEF Receive, TypeInv, Clients
  <2>. QED  BY <2>1, <2>2
<1>4. file' \in Seq(Applied)
  BY <1>1 DEF Receive, TypeInv, Clients, Response
<1>. QED  BY <1>2, <1>3, <1>4 DEF TypeInv, Registry, Clients, Receive, serverVars

LEMMA LeaveTyped ==
    ASSUME TypeInv, NEW c \in Client, Leave(c)
    PROVE  Sockets' /\ Queue' /\ Registry' /\ UNCHANGED <<file, requests>>
<1>1. link' \in [Client -> {"closed", "open", "half"}]
      /\ \A d \in Client : link[d] # "closed" => link'[d] # "closed"
  BY DEF Leave, TypeInv, Sockets
<1>2. Sockets'
  BY <1>1 DEF Leave, TypeInv, Sockets, serverVars
<1>3. \A i \in DOMAIN backlog : backlog[i] \in Client
  BY DEF TypeInv, Sockets
<1>4. Queue'
  BY <1>1, <1>3 DEF Leave, TypeInv, Sockets, Queue
<1>. QED  BY <1>2, <1>4 DEF Leave, TypeInv, Registry, serverVars

LEMMA CloseTyped ==
    ASSUME TypeInv, NEW c \in Client, Close(c) PROVE TypeInv'
BY LeaveTyped DEF Close, TypeInv, Clients

LEMMA DieTyped ==
    ASSUME TypeInv, NEW c \in Client, Die(c) PROVE TypeInv'
<1>1. Leave(c) /\ creds' = [creds EXCEPT ![c] = Nobody] /\ epoch' = [epoch EXCEPT ![c] = 0]
  BY DEF Die
<1>2. creds' \in [Client -> [Source -> Nat]] /\ epoch' \in [Client -> {0, Epoch}]
  BY <1>1 DEF TypeInv, Clients, Nobody
<1>. QED  BY <1>1, <1>2, LeaveTyped DEF TypeInv, Clients

\* The server.
LEMMA AcceptTyped ==
    ASSUME TypeInv, Accept PROVE TypeInv'
<1>1. serving' = {Head(backlog)} /\ backlog' = Tail(backlog) /\ backlog # <<>> /\ serving = {}
  BY DEF Accept
<1>2. backlog \in Seq(Client)
  BY <1>1 DEF TypeInv, Sockets
<1>3. /\ Head(backlog) = backlog[1] /\ Head(backlog) \in Client
      /\ 1 \in DOMAIN backlog
      /\ Tail(backlog) \in Seq(Client)
      /\ DOMAIN backlog = 1 .. Len(backlog) /\ Len(backlog) \in Nat \ {0}
      /\ DOMAIN Tail(backlog) = 1 .. Len(backlog) - 1
      /\ \A i \in DOMAIN Tail(backlog) :
            i + 1 \in DOMAIN backlog /\ Tail(backlog)[i] = backlog[i + 1]
  BY <1>1, <1>2, TailFacts
<1>4. \A i \in DOMAIN Tail(backlog) : Tail(backlog)[i] \in Client \ {Head(backlog)}
  <2> SUFFICES ASSUME NEW i \in DOMAIN Tail(backlog)
               PROVE  Tail(backlog)[i] \in Client \ {Head(backlog)}
    OBVIOUS
  <2>1. i + 1 \in DOMAIN backlog /\ i + 1 # 1 /\ Tail(backlog)[i] = backlog[i + 1]
    BY <1>3
  <2>2. backlog[i + 1] # backlog[1]
    BY <1>3, <2>1 DEF TypeInv, Queue
  <2>. QED  BY <1>2, <1>3, <2>1, <2>2
<1>5. backlog' \in Seq(Client \ serving')
  <2>1. \A S, q : q \in Seq(Client) /\ (\A i \in DOMAIN q : q[i] \in S) => q \in Seq(S)
    OBVIOUS
  <2>2. Tail(backlog) \in Seq(Client \ {Head(backlog)})
    BY <1>3, <1>4, <2>1
  <2>. QED  BY <1>1, <2>2
<1>6. Sockets'
  BY <1>1, <1>3, <1>5 DEF TypeInv, Sockets, Accept, serverVars
<1>7. \A i, j \in DOMAIN backlog' : backlog'[i] = backlog'[j] => i = j
  BY <1>1, <1>3 DEF TypeInv, Queue
<1>8. /\ \A i \in DOMAIN backlog' : link'[backlog'[i]] # "closed"
      /\ \A d \in serving' : link'[d] # "closed"
  BY <1>1, <1>3 DEF TypeInv, Queue, Accept
<1>. QED  BY <1>6, <1>7, <1>8 DEF TypeInv, Queue, Registry, Clients, Accept, serverVars,
             clientVars

LEMMA HangupTyped ==
    ASSUME TypeInv, NEW c \in Client, Hangup(c) PROVE TypeInv'
<1>0. Registry' /\ Clients'
  BY DEF Hangup, Ends, TypeInv, Registry, Clients, clientVars
<1>1. CASE up = "stopping"
  <2>1. up' = "down" /\ KeepOnly({}) /\ reply' = reply
    BY <1>1 DEF Hangup, Ends
  <2>2. reply' \in [Client -> {<<>>} \cup {<<r>> : r \in Response}]
    BY <2>1 DEF TypeInv, Sockets
  <2>. QED  BY <1>0, <2>1, <2>2, KeepOnlyTyped DEF TypeInv
<1>2. CASE up # "stopping"
  <2>1. /\ serving' = {} /\ link' = [link EXCEPT ![c] = "closed"] /\ c \in serving
        /\ UNCHANGED <<up, backlog, inbox, waiting, reply>>
    BY <1>2 DEF Hangup
  <2>2. backlog \in Seq(Client \ serving) /\ backlog \in Seq(Client)
        /\ \A i \in DOMAIN backlog : backlog[i] \in Client \ serving
    BY DEF TypeInv, Sockets
  <2>3. Sockets'
    BY <2>1, <2>2 DEF TypeInv, Sockets
  <2>4. Queue'
    BY <2>1, <2>2 DEF TypeInv, Sockets, Queue
  <2>. QED  BY <1>0, <2>3, <2>4 DEF TypeInv
<1>. QED  BY <1>1, <1>2

LEMMA RegisterSourceTyped ==
    ASSUME TypeInv, NEW c \in Client, RegisterSource(c) PROVE TypeInv'
<1> DEFINE m == inbox[c][1]
<1>1. m \in Request /\ m.op = "source"
  BY InboxFacts DEF RegisterSource, Asks, TypeInv
<1>2. m.source \in Source /\ m.domain \in Scope
  BY <1>1 DEF Request, Mutation
<1>3. granted' = Append(granted, m.domain) /\ granted' \in Seq(Scope) /\ Len(granted') \in Nat
  BY <1>2 DEF RegisterSource, TypeInv, Registry
<1>4. Sockets' /\ Queue' /\ Clients'
  BY <1>3, RespondTyped DEF RegisterSource
<1>5. Registered(m) \in SourceInfo
  BY <1>2, <1>3 DEF Registered, SourceInfo
<1>6. sources' = [s \in DOMAIN sources \cup {m.source} |->
                     IF s = m.source THEN Registered(m) ELSE sources[s]]
  BY DEF RegisterSource
<1>7. Registry'
  BY <1>2, <1>3, <1>5, <1>6 DEF RegisterSource, TypeInv, Registry
<1>. QED  BY <1>4, <1>7 DEF TypeInv

\* A request to change the registry is one of a profile, or has no contents.
LEMMA MutationFacts ==
    ASSUME NEW m \in Request, m.op \in Mutation
    PROVE  /\ m.source \in Source /\ m.generation \in Nat /\ m.boot \in Nat
           /\ m.domain \in Domain \cup {0} /\ m.content \in Content \cup {0}
           /\ m.id \in 1 .. MaxRequests
<1>1. \/ m \in [op : {"profile"}, source : Source, generation : Generation,
                domain : Domain, content : Content, boot : Nat, epoch : {0, Epoch},
                id : 1 .. MaxRequests]
      \/ m \in [op : Mutation \ {"profile"}, source : Source, generation : {0},
                domain : {0}, content : {0}, boot : Nat, epoch : {0, Epoch},
                id : 1 .. MaxRequests]
  <2>1. m.op \notin {"source", "query", "snapshot", "shutdown"}
    BY DEF Mutation
  <2>. QED  BY <2>1 DEF Request
<1>2. Generation \subseteq Nat
  BY CoordinatorAssumption
<1>3. CASE m.op = "profile"
  BY <1>1, <1>2, <1>3
<1>4. CASE m.op # "profile"
  BY <1>1, <1>4
<1>. QED  BY <1>3, <1>4

\* What the registry is told is of the type of the log.
LEMMA ApplyTyped ==
    ASSUME TypeInv, NEW c \in Client, Asks(c, Mutation), Apply(inbox[c][1])
    PROVE  /\ inbox[c][1] \in Request /\ inbox[c][1].op \in Mutation
           /\ inbox[c][1].source \in Source /\ inbox[c][1].generation \in Nat
           /\ log' \in Seq(Applied)
<1> DEFINE m == inbox[c][1]
           e == [op |-> m.op, source |-> m.source, boot |-> m.boot,
                 generation |-> m.generation, domain |-> m.domain,
                 content |-> m.content, id |-> m.id]
<1>1. m \in Request /\ m.op \in Mutation
  BY InboxFacts DEF Asks, TypeInv
<1>2. /\ m.source \in Source /\ m.generation \in Nat /\ m.boot \in Nat
      /\ m.domain \in Domain \cup {0} /\ m.content \in Content \cup {0}
      /\ m.id \in 1 .. MaxRequests
  BY <1>1, MutationFacts
<1>3. e \in Applied
  BY <1>1, <1>2 DEF Applied
<1>4. log' = Append(log, e)
  BY DEF Apply
<1>. QED  BY <1>1, <1>2, <1>3, <1>4 DEF TypeInv, Registry

LEMMA RegisterProfileTyped ==
    ASSUME TypeInv, NEW c \in Client, RegisterProfile(c) PROVE TypeInv'
<1> DEFINE m == inbox[c][1]
<1>1. Asks(c, Mutation) /\ Apply(m) /\ Authentic(m)
  BY DEF RegisterProfile, Asks, Mutation
<1>2. log' \in Seq(Applied) /\ m.source \in Source /\ m.generation \in Nat
  BY <1>1, ApplyTyped, CoordinatorAssumption
<1>3. Sockets' /\ Queue' /\ Clients'
  BY RespondTyped DEF RegisterProfile
<1>4. sources' = [sources EXCEPT ![m.source].generation = m.generation]
      /\ m.source \in DOMAIN sources /\ granted' = granted
  BY <1>1 DEF RegisterProfile, Authentic
<1>5. Registry'
  BY <1>2, <1>4 DEF TypeInv, Registry, SourceInfo
<1>. QED  BY <1>3, <1>5 DEF TypeInv

LEMMA MutateTyped ==
    ASSUME TypeInv, NEW c \in Client, Mutate(c) PROVE TypeInv'
<1>1. Asks(c, Mutation) /\ Apply(inbox[c][1])
  BY DEF Mutate, Asks
<1>2. log' \in Seq(Applied)
  BY <1>1, ApplyTyped
<1>3. Sockets' /\ Queue' /\ Clients'
  BY RespondTyped DEF Mutate
<1>. QED  BY <1>2, <1>3 DEF Mutate, TypeInv, Registry

LEMMA RefuseTyped ==
    ASSUME TypeInv, NEW c \in Client, Refuse(c) PROVE TypeInv'
<1>1. Sockets' /\ Queue' /\ Clients'
  BY RespondTyped DEF Refuse
<1>. QED  BY <1>1 DEF Refuse, TypeInv, Registry

LEMMA ServeTyped ==
    ASSUME TypeInv, NEW c \in Client, Serve(c) PROVE TypeInv'
<1>1. Sockets' /\ Queue' /\ Clients'
  BY RespondTyped DEF Serve
<1>. QED  BY <1>1 DEF Serve, TypeInv, Registry

LEMMA StopTyped ==
    ASSUME TypeInv, Stop PROVE TypeInv'
<1>1. up' \in {"running", "stopping", "down"} /\ KeepOnly(serving) /\ reply' = reply
  BY DEF Stop
<1>2. reply' \in [Client -> {<<>>} \cup {<<r>> : r \in Response}]
  BY <1>1 DEF TypeInv, Sockets
<1>3. Sockets' /\ Queue'
  BY <1>1, <1>2, KeepOnlyTyped
<1>. QED  BY <1>3 DEF Stop, TypeInv, Registry, Clients, clientVars

LEMMA CrashTyped ==
    ASSUME TypeInv, Crash PROVE TypeInv'
<1>1. up' = "down" /\ KeepOnly({})
  BY DEF Crash, Ends
<1>2. reply' \in [Client -> {<<>>} \cup {<<r>> : r \in Response}]
  BY DEF Crash, TypeInv, Sockets
<1>3. Sockets' /\ Queue'
  BY <1>1, <1>2, KeepOnlyTyped
<1>. QED  BY <1>3 DEF Crash, TypeInv, Registry, Clients, clientVars

LEMMA RestartTyped ==
    ASSUME TypeInv, Restart PROVE TypeInv'
<1>1. log' \in Seq(Applied)
  BY EmptySeqFacts DEF Restart, TypeInv, Clients
<1>2. Registry'
  BY <1>1 DEF Restart, TypeInv, Registry, NoSources
<1>. QED  BY <1>2 DEF Restart, TypeInv, Sockets, Queue, Clients, clientVars

LEMMA StutterTyped ==
    ASSUME TypeInv, UNCHANGED coordinatorVars PROVE TypeInv'
BY DEF coordinatorVars, serverVars, clientVars, TypeInv, Sockets, Queue, Registry, Clients

\* Every step of clients and server keeps the types.
LEMMA TypeInvariant == Spec => []TypeInv
<1>1. TypeInv /\ [Next]_coordinatorVars => TypeInv'
  BY ConnectTyped, SendTyped, ReceiveTyped, CloseTyped, DieTyped, AcceptTyped, HangupTyped,
     RegisterSourceTyped, RegisterProfileTyped, MutateTyped, RefuseTyped, ServeTyped,
     StopTyped, CrashTyped, RestartTyped, StutterTyped
  DEF Next, ServerStep
<1>. QED  BY <1>1, TypeInit, PTL DEF Spec

\* The sockets, the queue and the registry of the coordinator stay well
\* formed: a connection waits at most once, and not while it is served.
THEOREM TypeCorrect == Spec => []TypeOK
BY TypeInvariant, TypeInvIsTypeOK, PTL

-----------------------------------------------------------------------------
(* The log and its copies.                                                 *)

\* What holds of a log when the boot ids in g have been handed out.
Sound(l, g) ==
    /\ \A i \in DOMAIN l : /\ l[i].boot \in 1 .. Len(g)
                           /\ l[i].op = "profile" => g[l[i].boot] \in {"*", l[i].domain}
    /\ \A i, j \in DOMAIN l : i < j /\ l[i].source = l[j].source =>
          /\ l[i].boot <= l[j].boot
          /\ l[i].boot = l[j].boot /\ l[i].op = "profile" /\ l[j].op = "profile"
                => l[i].generation <= l[j].generation

Copies == {log, file} \cup {reply[c][1].snapshot : c \in {d \in Client : reply[d] # <<>>}}

\* Nothing in the log is ahead of its source.
Behind ==
    \A s \in DOMAIN sources, i \in DOMAIN log :
        log[i].source = s =>
            /\ log[i].boot <= sources[s].boot
            /\ log[i].boot = sources[s].boot /\ log[i].op = "profile"
                  => log[i].generation <= sources[s].generation

\* A source has the scope it was granted with its boot id.
Granted == \A s \in DOMAIN sources : /\ sources[s].boot \in 1 .. Len(granted)
                                     /\ sources[s].scope = granted[sources[s].boot]

LogInv == (\A l \in Copies : Sound(l, granted)) /\ Behind /\ Granted

LEMMA LogInit == Init => LogInv
<1> SUFFICES ASSUME Init PROVE LogInv
  OBVIOUS
<1>1. Copies = {<<>>} /\ DOMAIN sources = {} /\ log = <<>>
  BY DEF Init, Copies, NoSources
<1>2. \A g : Sound(<<>>, g)
  BY DEF Sound
<1>. QED  BY <1>1, <1>2 DEF LogInv, Behind, Granted

\* Steps that leave the registry and the sources alone, and copy logs.
LEMMA CopyingKeepsLogInv ==
    ASSUME LogInv, UNCHANGED <<sources, log, granted>>, Copies' \subseteq Copies \cup {<<>>}
    PROVE  LogInv'
<1>1. \A g : Sound(<<>>, g)
  BY DEF Sound
<1>2. \A l \in Copies' : Sound(l, granted')
  BY <1>1 DEF LogInv
<1>3. Behind' /\ Granted'
  BY DEF LogInv, Behind, Granted
<1>. QED  BY <1>2, <1>3 DEF LogInv

LEMMA RespondCopies ==
    ASSUME Sockets, NEW c \in Client, NEW isOk, NEW boot, Respond(c, isOk, boot)
    PROVE  Copies' \subseteq Copies \cup {log', <<>>}
<1> DEFINE m == inbox[c][1]
           r == [op |-> m.op, source |-> m.source, id |-> m.id, ok |-> isOk, boot |-> boot,
                 snapshot |-> IF m.op = "snapshot" THEN log ELSE <<>>]
<1>1. reply' = [reply EXCEPT ![c] = IF link[c] = "half" THEN <<>> ELSE <<r>>]
  BY DEF Respond
<1>2. r.snapshot \in Copies \cup {<<>>}
  BY DEF Copies
<1>3. file' = file
  BY DEF Respond, clientVars
<1>4. \A d \in Client : reply'[d] # <<>> =>
         \/ d = c /\ reply'[d][1].snapshot = r.snapshot
         \/ reply[d] # <<>> /\ reply'[d][1].snapshot = reply[d][1].snapshot
  BY <1>1 DEF Sockets
<1>. QED  BY <1>2, <1>3, <1>4 DEF Copies

\* Steps of clients, and those of the server that end connections, forget
\* responses or write a snapshot they carry to a file.
LEMMA ForgettingCopies ==
    ASSUME log' = log, file' \in Copies,
           \A c \in Client : reply'[c] \in {<<>>, reply[c]}
    PROVE  Copies' \subseteq Copies \cup {<<>>}
BY DEF Copies

LEMMA ReceiveLogInv ==
    ASSUME TypeInv, LogInv, NEW c \in Client, Receive(c) PROVE LogInv'
<1>1. file' \in Copies
  BY DEF Receive, Copies
<1>2. \A d \in Client : reply'[d] \in {<<>>, reply[d]}
  BY DEF Receive, TypeInv, Sockets
<1>. QED  BY <1>1, <1>2, ForgettingCopies, CopyingKeepsLogInv DEF Receive, serverVars

LEMMA LeaveLogInv ==
    ASSUME TypeInv, LogInv, NEW c \in Client, Leave(c) PROVE LogInv'
<1>1. file' \in Copies /\ \A d \in Client : reply'[d] \in {<<>>, reply[d]}
  BY DEF Leave, TypeInv, Sockets, Copies
<1>. QED  BY <1>1, ForgettingCopies, CopyingKeepsLogInv DEF Leave, serverVars

LEMMA CrashLogInv ==
    ASSUME TypeInv, LogInv, Crash PROVE LogInv'
<1>1. file' \in Copies /\ \A d \in Client : reply'[d] \in {<<>>, reply[d]}
  BY DEF Crash, TypeInv, Sockets, Copies, clientVars
<1>. QED  BY <1>1, ForgettingCopies, CopyingKeepsLogInv DEF Crash

\* Steps that touch none of it.
LEMMA IdleLogInv ==
    ASSUME LogInv, UNCHANGED <<sources, log, granted, file, reply>> PROVE LogInv'
<1>1. Copies' = Copies
  BY DEF Copies
<1>. QED  BY <1>1, CopyingKeepsLogInv

LEMMA AnswerLogInv ==
    ASSUME TypeInv, LogInv, NEW c \in Client, Refuse(c) \/ Serve(c) PROVE LogInv'
<1>1. UNCHANGED <<sources, log, granted>>
  BY DEF Refuse, Serve
<1>2. Copies' \subseteq Copies \cup {log', <<>>}
  BY RespondCopies DEF Refuse, Serve, TypeInv
<1>3. log' \in Copies
  BY <1>1 DEF Copies
<1>. QED  BY <1>1, <1>2, <1>3, CopyingKeepsLogInv

LEMMA RestartLogInv ==
    ASSUME TypeInv, LogInv, Restart PROVE LogInv'
<1>1. /\ DOMAIN sources' = {} /\ granted' = granted /\ reply' = reply /\ file' = file
      /\ log' \in {<<>>, file}
  BY DEF Restart, clientVars, NoSources
<1>2. Copies' \subseteq Copies \cup {<<>>}
  BY <1>1 DEF Copies
<1>3. \A g : Sound(<<>>, g)
  BY DEF Sound
<1>. QED  BY <1>1, <1>2, <1>3 DEF LogInv, Behind, Granted

\* A boot id that is handed out is above all those of the log.
LEMMA RegisterSourceLogInv ==
    ASSUME TypeInv, LogInv, NEW c \in Client, RegisterSource(c) PROVE LogInv'
<1> DEFINE m == inbox[c][1]
<1>1. m \in Request /\ m.op = "source"
  BY InboxFacts DEF RegisterSource, Asks, TypeInv
<1>2. m.source \in Source /\ m.domain \in Scope
  BY <1>1 DEF Request, Mutation
<1>3. /\ granted' = Append(granted, m.domain) /\ granted \in Seq(Scope)
      /\ log' = log
  BY DEF RegisterSource, TypeInv, Registry
<1>4. /\ Len(granted) \in Nat /\ Len(granted') = Len(granted) + 1
      /\ \A i \in 1 .. Len(granted) : granted'[i] = granted[i]
      /\ granted'[Len(granted')] = m.domain
  BY <1>2, <1>3, AppendFacts
<1>5. Copies' \subseteq Copies \cup {<<>>}
  <2>1. Copies' \subseteq Copies \cup {log', <<>>}
    BY RespondCopies DEF RegisterSource, TypeInv
  <2>. QED  BY <1>3, <2>1 DEF Copies
<1>6. \A l : Sound(l, granted) => Sound(l, granted')
  BY <1>4 DEF Sound
<1>7. \A l \in Copies' : Sound(l, granted')
  <2>1. \A g : Sound(<<>>, g)
    BY DEF Sound
  <2>. QED  BY <1>5, <1>6, <2>1 DEF LogInv
<1>8. sources' = [s \in DOMAIN sources \cup {m.source} |->
                     IF s = m.source THEN Registered(m) ELSE sources[s]]
  BY DEF RegisterSource
<1>9. \A i \in DOMAIN log : log[i].boot \in 1 .. Len(granted)
  BY DEF LogInv, Sound, Copies
<1>10. Behind'
  <2> SUFFICES ASSUME NEW s \in DOMAIN sources', NEW i \in DOMAIN log', log'[i].source = s
               PROVE  /\ log'[i].boot <= sources'[s].boot
                      /\ log'[i].boot = sources'[s].boot /\ log'[i].op = "profile"
                            => log'[i].generation <= sources'[s].generation
    BY DEF Behind
  <2>1. CASE s = m.source
    BY <1>3, <1>4, <1>8, <1>9, <2>1 DEF Registered
  <2>2. CASE s # m.source
    BY <1>3, <1>8, <2>2 DEF LogInv, Behind
  <2>. QED  BY <2>1, <2>2
<1>11. Granted'
  <2> SUFFICES ASSUME NEW s \in DOMAIN sources'
               PROVE  /\ sources'[s].boot \in 1 .. Len(granted')
                      /\ sources'[s].scope = granted'[sources'[s].boot]
    BY DEF Granted
  <2>1. CASE s = m.source
    BY <1>4, <1>8, <2>1 DEF Registered
  <2>2. CASE s # m.source
    <3>1. /\ sources[s].boot \in 1 .. Len(granted)
          /\ sources[s].scope = granted[sources[s].boot]
      BY <1>8, <2>2 DEF LogInv, Granted
    <3>2. sources'[s] = sources[s]
      BY <1>8, <2>2
    <3>. QED  BY <1>4, <3>1, <3>2
  <2>. QED  BY <2>1, <2>2
<1>. QED  BY <1>7, <1>10, <1>11 DEF LogInv

\* A mutation that passes the tests of its epoch and boot id.
LEMMA ApplyLogInv ==
    ASSUME TypeInv, LogInv, NEW c \in Client, Asks(c, Mutation), Authentic(inbox[c][1]),
           Apply(inbox[c][1]), UNCHANGED <<granted, file>>,
           inbox[c][1].op = "profile" =>
               Publishable(inbox[c][1]),
           DOMAIN sources' = DOMAIN sources,
           \A s \in DOMAIN sources :
               /\ sources'[s].boot = sources[s].boot /\ sources'[s].scope = sources[s].scope
               /\ sources'[s].generation =
                     IF s = inbox[c][1].source /\ inbox[c][1].op = "profile"
                     THEN inbox[c][1].generation ELSE sources[s].generation,
           Copies' \subseteq Copies \cup {log', <<>>}
    PROVE  LogInv'
<1> DEFINE m == inbox[c][1]
           e == [op |-> m.op, source |-> m.source, boot |-> m.boot,
                 generation |-> m.generation, domain |-> m.domain,
                 content |-> m.content, id |-> m.id]
           n == Len(log)
<1>1. m \in Request /\ m.op \in Mutation /\ m.source \in Source /\ m.generation \in Nat
  BY ApplyTyped, CoordinatorAssumption
<1>2. e \in Applied
  BY <1>1 DEF Request, Mutation, Applied
<1>3. log' = Append(log, e) /\ log \in Seq(Applied)
  BY DEF Apply, TypeInv, Registry
<1>4. /\ n \in Nat /\ DOMAIN log = 1 .. n /\ DOMAIN log' = 1 .. n + 1
      /\ \A i \in 1 .. n : log'[i] = log[i]
      /\ log'[n + 1] = e
  BY <1>2, <1>3, AppendFacts
<1>5. m.source \in DOMAIN sources /\ m.boot = sources[m.source].boot
  BY DEF Authentic
<1>6. m.boot \in 1 .. Len(granted) /\ sources[m.source].scope = granted[m.boot]
  BY <1>5 DEF LogInv, Granted
<1>7. \A i \in DOMAIN log : /\ log[i].boot \in Nat /\ log[i].generation \in Nat
                            /\ log[i] \in Applied
  <2>1. \A i \in DOMAIN log : log[i] \in Applied
    BY <1>3
  <2>2. \A x \in Applied : x.boot \in Nat /\ x.generation \in Nat
    BY CoordinatorAssumption DEF Applied
  <2>. QED  BY <2>1, <2>2
<1>8. Sound(log, granted)
  BY DEF LogInv, Copies
<1>9. \A i \in DOMAIN log : log[i].source = m.source =>
         /\ log[i].boot <= m.boot
         /\ log[i].boot = m.boot /\ log[i].op = "profile"
               => log[i].generation <= sources[m.source].generation
  BY <1>5 DEF LogInv, Behind
<1>10. m.op = "profile" => /\ m.generation >= sources[m.source].generation
                           /\ granted[m.boot] \in {"*", m.domain}
  BY <1>6 DEF Publishable
<1>11. sources[m.source].generation \in Nat
  BY <1>5 DEF TypeInv, Registry, SourceInfo
<1>12. Sound(log', granted)
  <2>1. \A i \in DOMAIN log' :
           /\ log'[i].boot \in 1 .. Len(granted)
           /\ log'[i].op = "profile" => granted[log'[i].boot] \in {"*", log'[i].domain}
    <3> SUFFICES ASSUME NEW i \in DOMAIN log'
                 PROVE  /\ log'[i].boot \in 1 .. Len(granted)
                        /\ log'[i].op = "profile"
                              => granted[log'[i].boot] \in {"*", log'[i].domain}
      OBVIOUS
    <3>1. CASE i = n + 1
      BY <1>4, <1>6, <1>10, <3>1
    <3>2. CASE i \in 1 .. n
      BY <1>4, <1>8, <3>2 DEF Sound
    <3>. QED  BY <1>4, <3>1, <3>2
  <2>2. ASSUME NEW i \in DOMAIN log', NEW j \in DOMAIN log', i < j,
               log'[i].source = log'[j].source
        PROVE  /\ log'[i].boot <= log'[j].boot
               /\ /\ log'[i].boot = log'[j].boot
                  /\ log'[i].op = "profile" /\ log'[j].op = "profile"
                  => log'[i].generation <= log'[j].generation
    <3>1. CASE j = n + 1
      <4>1. i \in DOMAIN log /\ log'[i] = log[i] /\ log'[j] = e
        BY <1>4, <2>2, <3>1
      <4>. QED  BY <1>1, <1>7, <1>9, <1>10, <1>11, <2>2, <4>1
    <3>2. CASE j \in 1 .. n
      <4>1. i \in DOMAIN log /\ j \in DOMAIN log /\ log'[i] = log[i] /\ log'[j] = log[j]
        BY <1>4, <2>2, <3>2
      <4>. QED  BY <1>8, <2>2, <4>1 DEF Sound
    <3>. QED  BY <1>4, <3>1, <3>2
  <2>. QED  BY <2>1, <2>2 DEF Sound
<1>13. \A l \in Copies' : Sound(l, granted')
  <2>1. \A g : Sound(<<>>, g)
    BY DEF Sound
  <2>. QED  BY <1>12, <2>1 DEF LogInv
<1>14. Behind'
  <2> SUFFICES ASSUME NEW s \in DOMAIN sources, NEW i \in DOMAIN log', log'[i].source = s
               PROVE  /\ log'[i].boot <= sources'[s].boot
                      /\ log'[i].boot = sources'[s].boot /\ log'[i].op = "profile"
                            => log'[i].generation <= sources'[s].generation
    BY DEF Behind
  <2>0. sources[s].boot \in Nat /\ sources[s].generation \in Nat
    BY DEF TypeInv, Registry, SourceInfo
  <2>1. CASE i = n + 1
    BY <1>1, <1>4, <1>5, <2>0, <2>1
  <2>2. CASE i \in 1 .. n
    <3>1. i \in DOMAIN log /\ log'[i] = log[i]
      BY <1>4, <2>2
    <3>2. /\ log[i].boot <= sources[s].boot
          /\ log[i].boot = sources[s].boot /\ log[i].op = "profile"
                => log[i].generation <= sources[s].generation
      BY <3>1 DEF LogInv, Behind
    <3>3. sources'[s].generation >= sources[s].generation
      BY <1>1, <1>10, <2>0
    <3>4. sources'[s].generation \in Nat
      BY <1>1, <2>0
    <3>. QED  BY <1>7, <2>0, <3>1, <3>2, <3>3, <3>4
  <2>. QED  BY <1>4, <2>1, <2>2
<1>15. Granted'
  BY DEF LogInv, Granted
<1>. QED  BY <1>13, <1>14, <1>15 DEF LogInv

LEMMA RegisterProfileLogInv ==
    ASSUME TypeInv, LogInv, NEW c \in Client, RegisterProfile(c) PROVE LogInv'
<1> DEFINE m == inbox[c][1]
<1>1. /\ Asks(c, Mutation) /\ m.op = "profile" /\ Authentic(m) /\ Publishable(m) /\ Apply(m)
      /\ UNCHANGED <<granted, file>>
      /\ sources' = [sources EXCEPT ![m.source].generation = m.generation]
  BY DEF RegisterProfile, Asks, Mutation, Respond, clientVars
<1>2. Copies' \subseteq Copies \cup {log', <<>>}
  BY RespondCopies DEF RegisterProfile, TypeInv
<1>3. DOMAIN sources' = DOMAIN sources
  BY <1>1
<1>4. \A s \in DOMAIN sources :
         /\ sources'[s].boot = sources[s].boot /\ sources'[s].scope = sources[s].scope
         /\ sources'[s].generation = IF s = m.source /\ m.op = "profile"
                                     THEN m.generation ELSE sources[s].generation
  BY <1>1 DEF TypeInv, Registry, SourceInfo
<1>. QED  BY <1>1, <1>2, <1>3, <1>4, ApplyLogInv

LEMMA MutateLogInv ==
    ASSUME TypeInv, LogInv, NEW c \in Client, Mutate(c) PROVE LogInv'
<1> DEFINE m == inbox[c][1]
<1>1. /\ Asks(c, Mutation) /\ m.op # "profile" /\ Authentic(m) /\ Apply(m)
      /\ UNCHANGED <<granted, file, sources>>
  BY DEF Mutate, Asks, Mutation, Respond, clientVars
<1>2. Copies' \subseteq Copies \cup {log', <<>>}
  BY RespondCopies DEF Mutate, TypeInv
<1>. QED  BY <1>1, <1>2, ApplyLogInv

LEMMA LogInvariant == Spec => []LogInv
<1>1. TypeInv /\ LogInv /\ [Next]_coordinatorVars => LogInv'
  <2> SUFFICES ASSUME TypeInv, LogInv, [Next]_coordinatorVars PROVE LogInv'
    OBVIOUS
  <2>1. CASE \E c \in Client : \/ RegisterSource(c) \/ RegisterProfile(c) \/ Mutate(c)
                               \/ Refuse(c) \/ Serve(c) \/ Receive(c)
    BY <2>1, RegisterSourceLogInv, RegisterProfileLogInv, MutateLogInv, AnswerLogInv,
       ReceiveLogInv
  <2>2. CASE \E c \in Client : Close(c) \/ Die(c)
    BY <2>2, LeaveLogInv DEF Close, Die
  <2>3. CASE Crash \/ Restart
    BY <2>3, CrashLogInv, RestartLogInv
  <2>4. ASSUME \/ Accept \/ Stop \/ UNCHANGED coordinatorVars
               \/ \E c \in Client : Hangup(c) \/ Connect(c) \/ \E m \in Message : Send(c, m)
        PROVE  LogInv'
    <3>1. UNCHANGED <<sources, log, granted, file, reply>>
      BY <2>4 DEF Accept, Stop, Hangup, Ends, KeepOnly, Connect, Send, coordinatorVars,
                  serverVars, clientVars
    <3>. QED  BY <3>1, IdleLogInv
  <2>. QED  BY <2>1, <2>2, <2>3, <2>4 DEF Next, ServerStep
<1>. QED  BY <1>1, LogInit, TypeInvariant, PTL DEF Spec

\* A process whose source has registered again, and has changed the registry
\* since, changes it no more: not with what it had sent, and not after a
\* restart, although every restart begins with the same epoch.
THEOREM FormerProcessesStayFenced == Spec => []FormerProcessesFenced
<1>1. LogInv => FormerProcessesFenced
  BY DEF LogInv, Copies, Sound, FormerProcessesFenced
<1>. QED  BY <1>1, LogInvariant, PTL

\* The profiles one process of a source publishes come in the order of their
\* generations, in every log a restart may begin with.
THEOREM PublicationsAreOrdered == Spec => []PublishedInOrder
<1>1. LogInv => PublishedInOrder
  BY DEF LogInv, Copies, Sound, PublishedInOrder
<1>. QED  BY <1>1, LogInvariant, PTL

\* A source that has registered for one domain publishes in no other one with
\* the boot id it got for it.
THEOREM PublicationsAreInScope == Spec => []PublishedInScope
<1>1. LogInv => PublishedInScope
  BY DEF LogInv, Copies, Sound, PublishedInScope
<1>. QED  BY <1>1, LogInvariant, PTL

-----------------------------------------------------------------------------
(* The numbers of the requests.                                            *)

\* An answer says whether the request it names was carried out.
Truthful(a, carriedOut, sent) ==
    /\ a.id \in 1 .. sent /\ a.ok \in BOOLEAN
    /\ a.ok = TRUE => a.id \in carriedOut
    /\ a.ok = FALSE => a.id \notin carriedOut

\* A request that is still to be read was not carried out, and no answer and
\* no other request has its number.
Unread ==
    \A c \in Client : inbox[c] # <<>> =>
        LET id == inbox[c][1].id
        IN  /\ id \in 1 .. requests
            /\ id \notin applied
            /\ \A t \in told : t.id # id
            /\ \A d \in Client : /\ reply[d] # <<>> => reply[d][1].id # id
                                 /\ d # c /\ inbox[d] # <<>> => inbox[d][1].id # id

Replies == \A c \in Client : reply[c] # <<>> =>
               /\ reply[c][1].id \in 1 .. requests
               /\ reply[c][1].op \in Mutation => Truthful(reply[c][1], applied, requests)

NumberInv == /\ Unread /\ Replies
             /\ \A t \in told : Truthful(t, applied, requests)
             /\ applied \subseteq 1 .. requests

LEMMA NumberInit == Init => NumberInv
BY DEF Init, NumberInv, Unread, Replies

\* Steps that forget requests and answers.
LEMMA ForgettingKeepsNumbers ==
    ASSUME NumberInv, UNCHANGED <<applied, told, requests>>,
           \A c \in Client : inbox'[c] \in {<<>>, inbox[c]} /\ reply'[c] \in {<<>>, reply[c]}
    PROVE  NumberInv'
<1>1. \A a : Truthful(a, applied, requests) => Truthful(a, applied', requests')
  BY DEF Truthful
<1>2. \A c \in Client : /\ inbox'[c] # <<>> => inbox[c] # <<>> /\ inbox'[c] = inbox[c]
                        /\ reply'[c] # <<>> => reply[c] # <<>> /\ reply'[c] = reply[c]
  OBVIOUS
<1>3. Unread'
  BY <1>2 DEF NumberInv, Unread
<1>4. Replies'
  BY <1>2 DEF NumberInv, Replies, Truthful
<1>5. (\A t \in told : Truthful(t, applied, requests))'
  BY DEF NumberInv, Truthful
<1>. QED  BY <1>3, <1>4, <1>5 DEF NumberInv

LEMMA SendNumbers ==
    ASSUME TypeInv, NumberInv, NEW c \in Client, NEW m \in Message, Send(c, m)
    PROVE  NumberInv'
<1>1. requests \in Nat /\ requests' = requests + 1
  BY DEF TypeInv, Clients, Send
<1>2. /\ inbox'[c] # <<>> /\ inbox'[c][1].id = requests'
      /\ \A d \in Client : d # c => inbox'[d] = inbox[d]
      /\ UNCHANGED <<applied, told, reply>>
  BY DEF Send, TypeInv, Sockets, serverVars, clientVars
<1>3. 1 .. requests \subseteq 1 .. requests' /\ requests' \in 1 .. requests'
      /\ requests' \notin 1 .. requests
  BY <1>1
<1>4. \A t \in told : Truthful(t, applied', requests')
  BY <1>2, <1>3 DEF NumberInv, Truthful
<1>5. Replies'
  BY <1>2, <1>3 DEF NumberInv, Replies, Truthful
<1>6. \A t \in told : t.id # requests'
  BY <1>3 DEF NumberInv, Truthful
<1>7. Unread'
  BY <1>2, <1>3, <1>6 DEF NumberInv, Unread, Replies
<1>8. applied' \subseteq 1 .. requests'
  BY <1>2, <1>3 DEF NumberInv
<1>. QED  BY <1>2, <1>4, <1>5, <1>7, <1>8 DEF NumberInv

LEMMA ReceiveNumbers ==
    ASSUME TypeInv, NumberInv, NEW c \in Client, Receive(c) PROVE NumberInv'
<1> DEFINE r == reply[c][1]
           t0 == [id |-> r.id, ok |-> r.ok]
<1>1. /\ reply[c] # <<>> /\ reply' = [reply EXCEPT ![c] = <<>>]
      /\ UNCHANGED <<applied, inbox, requests>>
      /\ told' = IF r.op \in Mutation THEN told \cup {t0} ELSE told
  BY DEF Receive, serverVars
<1>2. \A d \in Client : reply'[d] # <<>> => reply[d] # <<>> /\ reply'[d] = reply[d]
  BY <1>1 DEF TypeInv, Sockets
<1>3. \A t \in told' : Truthful(t, applied', requests')
  <2>1. \A t \in told : Truthful(t, applied', requests')
    BY <1>1 DEF NumberInv, Truthful
  <2>2. r.op \in Mutation => Truthful(t0, applied', requests')
    BY <1>1 DEF NumberInv, Replies, Truthful
  <2>. QED  BY <1>1, <2>1, <2>2
<1>4. Unread'
  BY <1>1, <1>2 DEF NumberInv, Unread
<1>5. Replies'
  BY <1>1, <1>2 DEF NumberInv, Replies, Truthful
<1>. QED  BY <1>1, <1>3, <1>4, <1>5 DEF NumberInv

\* The request read is answered, with what was done.
LEMMA RespondNumbers ==
    ASSUME TypeInv, NumberInv, NEW c \in Client, NEW isOk \in BOOLEAN, NEW boot \in Nat,
           Respond(c, isOk, boot),
           \/ applied' = applied /\ (inbox[c][1].op \in Mutation => isOk = FALSE)
           \/ applied' = applied \cup {inbox[c][1].id} /\ isOk = TRUE
    PROVE  NumberInv'
<1> DEFINE m == inbox[c][1]
           r == [op |-> m.op, source |-> m.source, id |-> m.id, ok |-> isOk, boot |-> boot,
                 snapshot |-> IF m.op = "snapshot" THEN log ELSE <<>>]
<1>1. /\ inbox[c] # <<>> /\ UNCHANGED <<told, requests>>
      /\ reply' = [reply EXCEPT ![c] = IF link[c] = "half" THEN <<>> ELSE <<r>>]
  BY DEF Respond, clientVars
<1>2. /\ inbox'[c] = <<>>
      /\ \A d \in Client : inbox'[d] # <<>> => inbox[d] # <<>> /\ inbox'[d] = inbox[d]
  BY DEF Respond, Ends, KeepOnly, TypeInv, Sockets
<1>3. /\ m.id \in 1 .. requests /\ m.id \notin applied
      /\ \A t \in told : t.id # m.id
      /\ \A d \in Client : /\ reply[d] # <<>> => reply[d][1].id # m.id
                           /\ d # c /\ inbox[d] # <<>> => inbox[d][1].id # m.id
  BY <1>1 DEF NumberInv, Unread
<1>4. \A d \in Client : reply'[d] # <<>> =>
         \/ d = c /\ reply'[d][1] = r
         \/ reply[d] # <<>> /\ reply'[d] = reply[d]
  BY <1>1 DEF TypeInv, Sockets
<1>5. \A a : a.id # m.id /\ Truthful(a, applied, requests) => Truthful(a, applied', requests')
  BY <1>1 DEF Truthful
<1>6. r.op \in Mutation => Truthful(r, applied', requests')
  BY <1>1, <1>3 DEF Truthful
<1>7. \A t \in told' : Truthful(t, applied', requests')
  BY <1>1, <1>3, <1>5 DEF NumberInv
<1>8. Replies'
  <2> SUFFICES ASSUME NEW d \in Client, reply'[d] # <<>>
               PROVE  /\ reply'[d][1].id \in 1 .. requests'
                      /\ reply'[d][1].op \in Mutation => Truthful(reply'[d][1], applied', requests')
    BY DEF Replies
  <2>1. CASE d = c /\ reply'[d][1] = r
    BY <1>1, <1>3, <1>6, <2>1
  <2>2. CASE reply[d] # <<>> /\ reply'[d] = reply[d]
    BY <1>1, <1>3, <1>5, <2>2 DEF NumberInv, Replies
  <2>. QED  BY <1>4, <2>1, <2>2
<1>9. Unread'
  <2> SUFFICES ASSUME NEW d \in Client, inbox'[d] # <<>>
               PROVE  LET id == inbox'[d][1].id
                      IN  /\ id \in 1 .. requests'
                          /\ id \notin applied'
                          /\ \A t \in told' : t.id # id
                          /\ \A x \in Client :
                                /\ reply'[x] # <<>> => reply'[x][1].id # id
                                /\ x # d /\ inbox'[x] # <<>> => inbox'[x][1].id # id
    BY DEF Unread
  <2>1. d # c /\ inbox[d] # <<>> /\ inbox'[d] = inbox[d]
    BY <1>2
  <2>2. inbox[d][1].id # m.id
    BY <1>3, <2>1
  <2>. QED  BY <1>1, <1>2, <1>4, <2>1, <2>2 DEF NumberInv, Unread
<1>10. applied' \subseteq 1 .. requests'
  BY <1>1, <1>3 DEF NumberInv
<1>. QED  BY <1>7, <1>8, <1>9, <1>10 DEF NumberInv

LEMMA NumberInvariant == Spec => []NumberInv
<1>1. TypeInv /\ NumberInv /\ [Next]_coordinatorVars => NumberInv'
  <2> SUFFICES ASSUME TypeInv, NumberInv, [Next]_coordinatorVars PROVE NumberInv'
    OBVIOUS
  <2>1. ASSUME NEW c \in Client, RegisterProfile(c) \/ Mutate(c) PROVE NumberInv'
    BY <2>1, RespondNumbers DEF RegisterProfile, Mutate, Apply
  <2>2. ASSUME NEW c \in Client, Refuse(c) \/ Serve(c) PROVE NumberInv'
    BY <2>2, RespondNumbers DEF Refuse, Serve, Asks, Mutation
  <2>3. ASSUME NEW c \in Client, RegisterSource(c) PROVE NumberInv'
    <3>1. Len(granted') \in Nat
      <4>1. inbox[c][1] \in Request /\ inbox[c][1].op = "source"
        BY <2>3, InboxFacts DEF RegisterSource, Asks, TypeInv
      <4>2. inbox[c][1].domain \in Scope
        BY <4>1 DEF Request, Mutation
      <4>. QED  BY <2>3, <4>2 DEF RegisterSource, TypeInv, Registry
    <3>. QED  BY <2>3, <3>1, RespondNumbers DEF RegisterSource, Asks, Mutation
  <2>4. CASE \E c \in Client : Receive(c) \/ \E m \in Message : Send(c, m)
    BY <2>4, ReceiveNumbers, SendNumbers
  <2>5. ASSUME \/ Accept \/ Stop \/ Crash \/ Restart \/ UNCHANGED coordinatorVars
               \/ \E c \in Client : Hangup(c) \/ Connect(c) \/ Close(c) \/ Die(c)
        PROVE  NumberInv'
    <3>1. UNCHANGED <<applied, told, requests>>
      BY <2>5 DEF Accept, Stop, Crash, Restart, Hangup, Ends, KeepOnly, Connect, Close,
                  Die, Leave, coordinatorVars, serverVars, clientVars
    <3>2. \A d \in Client : inbox'[d] \in {<<>>, inbox[d]}
      BY <2>5 DEF Accept, Stop, Crash, Restart, Hangup, Ends, KeepOnly, Connect, Close,
                  Die, Leave, coordinatorVars
    <3>3. \A d \in Client : reply'[d] \in {<<>>, reply[d]}
      BY <2>5 DEF Accept, Stop, Crash, Restart, Hangup, Ends, KeepOnly, Connect, Close,
                  Die, Leave, coordinatorVars, TypeInv, Sockets
    <3>. QED  BY <3>1, <3>2, <3>3, ForgettingKeepsNumbers
  <2>. QED  BY <2>1, <2>2, <2>3, <2>4, <2>5 DEF Next, ServerStep
<1>. QED  BY <1>1, NumberInit, TypeInvariant, PTL DEF Spec

\* What was acknowledged was carried out, what was refused was not and will
\* not be, through crashes, lost answers and restarts.
THEOREM AnswersAreTrue == Spec => []AnswersTrue
<1>1. NumberInv => AnswersTrue
  BY DEF NumberInv, Truthful, AnswersTrue
<1>. QED  BY <1>1, NumberInvariant, PTL
=============================================================================
