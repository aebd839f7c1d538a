---------------------------- MODULE Coordinator ----------------------------
(***************************************************************************)
(* The coordinator process and the clients that publish to it over TCP:    *)
(* CoordinatorServer and RegistryClient (src/compat/net.cpp:158-484).      *)
(*                                                                         *)
(* The server accepts one connection at a time and answers its requests in *)
(* order until it ends; the others wait in the listen queue, where they    *)
(* can already send.  A source proves who it is with the boot id it was    *)
(* given when it registered, and orders what it publishes by a generation. *)
(*                                                                         *)
(* Boot ids, random in the code, are counted.  The registry is the log of  *)
(* the mutations it has carried out: a profile that arrives gets an        *)
(* identity of its own and no dependencies, so none is rejected.  A client *)
(* connects again when the server is done with its former connection.  A   *)
(* request carries a number that no message has, to tell requests apart.   *)
(* That a request arrives whole or not at all is shown by Frames.tla.      *)
(***************************************************************************)
EXTENDS Integers, Sequences

CONSTANTS Client,        \* RegistryClient objects, each in a process
          Source,        \* names of sources
          Domain,        \* the domains profiles are published in
          Scope,         \* the domains sources register for, or "*" for all
          Content,       \* the contents of profiles
          Generation,    \* the source generations clients send
          MsgType,       \* the types of requests clients send
          MaxRequests,   \* bound on the requests sent
          MaxRestarts    \* bound on the restarts of the coordinator

Mutation == {"profile", "rule", "evidence", "invalidate"}

ASSUME CoordinatorAssumption ==
    /\ MsgType \subseteq Mutation \cup {"source", "query", "snapshot", "shutdown"}
    /\ Generation \subseteq Nat /\ MaxRequests \in Nat /\ MaxRestarts \in Nat

VARIABLES up,        \* "running", "stopping" (running_ is false) or "down"
          sources,   \* sources_: a function on the names registered
          log,       \* what registry_ was told, in order
          granted,   \* the scopes of the boot ids handed out, in order
          backlog,   \* the connections that wait to be accepted, oldest first
          serving,   \* the connection in the inner loop of run(), if any
          link,      \* "closed", "open", or "half": the client has gone
          inbox,     \* the request of each connection not yet read
          reply,     \* the response to each client not yet received
          waiting,   \* the clients in RegistryClient::send
          creds,     \* the boot id each client holds for each source, or 0
          epoch,     \* epoch_ of each client
          file,      \* the last snapshot a client has written to a file
          requests, restarts,   \* counted up to their bounds
          applied,   \* the numbers of the requests carried out
          told       \* the answers to mutations that clients have received

serverVars == <<up, sources, log, granted, applied>>
clientVars == <<creds, epoch, file, told>>
coordinatorVars == <<serverVars, backlog, serving, link, inbox, reply, waiting,
                     clientVars, requests, restarts>>

Epoch == 1   \* epoch_ of the server: the same in every process

Nobody == [s \in Source |-> 0]

NoSources == [s \in {} |-> 0]

\* What a request carries besides the credentials of its sender.  Only the
\* generation of a profile is read.
Message ==
    [op : {"source"}, source : Source, generation : {0}, domain : Scope, content : {0}]
    \cup [op : {"profile"}, source : Source, generation : Generation, domain : Domain,
          content : Content]
    \cup [op : Mutation \ {"profile"}, source : Source, generation : {0}, domain : {0},
          content : {0}]
    \cup [op : {"query", "snapshot", "shutdown"}, source : {0}, generation : {0},
          domain : {0}, content : {0}]

-----------------------------------------------------------------------------

Init == /\ up = "running" /\ sources = NoSources /\ log = <<>> /\ granted = <<>>
        /\ backlog = <<>> /\ serving = {}
        /\ link = [c \in Client |-> "closed"]
        /\ inbox = [c \in Client |-> <<>>] /\ reply = [c \in Client |-> <<>>]
        /\ waiting = {}
        /\ creds = [c \in Client |-> Nobody] /\ epoch = [c \in Client |-> 0]
        /\ file = <<>> /\ requests = 0 /\ restarts = 0
        /\ applied = {} /\ told = {}

(* The clients.                                                            *)

Connect(c) ==
    /\ up = "running" /\ link[c] = "closed" /\ c \notin waiting
    /\ link' = [link EXCEPT ![c] = "open"]
    /\ backlog' = Append(backlog, c)
    /\ UNCHANGED <<serverVars, serving, inbox, reply, waiting, clientVars, requests, restarts>>

\* RegistryClient::send up to the response, which it waits for without limit.
Send(c, m) ==
    /\ link[c] = "open" /\ c \notin waiting /\ requests < MaxRequests
    /\ requests' = requests + 1
    /\ waiting' = waiting \cup {c}
    /\ inbox' = [inbox EXCEPT ![c] =
                    <<[op |-> m.op, source |-> m.source, generation |-> m.generation,
                       domain |-> m.domain, content |-> m.content,
                       boot |-> IF m.source \in Source THEN creds[c][m.source] ELSE 0,
                       epoch |-> epoch[c], id |-> requests']>>]
    /\ UNCHANGED <<serverVars, backlog, serving, link, reply, clientVars, restarts>>

\* The response arrives.  register_source learns the boot id and the epoch; a
\* client that asked for a snapshot writes it to a file.
Receive(c) ==
    LET r == reply[c][1]
    IN  /\ reply[c] # <<>>
        /\ reply' = [reply EXCEPT ![c] = <<>>]
        /\ waiting' = waiting \ {c}
        /\ IF r.op = "source"
           THEN /\ creds' = [creds EXCEPT ![c][r.source] = r.boot]
                /\ epoch' = [epoch EXCEPT ![c] = Epoch]
           ELSE UNCHANGED <<creds, epoch>>
        /\ file' = IF r.op = "snapshot" THEN r.snapshot ELSE file
        /\ told' = IF r.op \in Mutation THEN told \cup {[id |-> r.id, ok |-> r.ok]} ELSE told
        /\ UNCHANGED <<serverVars, backlog, serving, link, inbox, requests, restarts>>

\* The client's end of its connection, if it has one, is closed.
Leave(c) ==
    /\ link' = [link EXCEPT ![c] = IF @ = "open" THEN "half" ELSE @]
    /\ reply' = [reply EXCEPT ![c] = <<>>]
    /\ waiting' = waiting \ {c}
    /\ UNCHANGED <<serverVars, backlog, serving, inbox, file, told, requests, restarts>>

\* RegistryClient::close, between two requests.
Close(c) == /\ link[c] = "open" /\ c \notin waiting
            /\ Leave(c)
            /\ UNCHANGED <<creds, epoch>>

\* The process of the client ends, with what it knew; what it has sent stays
\* in the socket.
Die(c) == /\ Leave(c)
          /\ creds' = [creds EXCEPT ![c] = Nobody]
          /\ epoch' = [epoch EXCEPT ![c] = 0]

-----------------------------------------------------------------------------
(* The server: run() and handle_request().                                 *)

\* The connections to others than those in S are gone.  An answer a client
\* has not read yet reaches it all the same.
KeepOnly(S) ==
    /\ backlog' = <<>> /\ serving' = S
    /\ link' = [c \in Client |-> IF c \in S THEN link[c] ELSE "closed"]
    /\ inbox' = [c \in Client |-> IF c \in S THEN inbox[c] ELSE <<>>]
    /\ waiting' = {c \in waiting : c \in S \/ reply'[c] # <<>>}

\* run() returns, and every socket is closed.
Ends == up' = "down" /\ KeepOnly({})

Accept ==
    /\ up = "running" /\ serving = {} /\ backlog # <<>>
    /\ serving' = {Head(backlog)}
    /\ backlog' = Tail(backlog)
    /\ UNCHANGED <<serverVars, link, inbox, reply, waiting, clientVars, requests, restarts>>

\* recv_frame fails on a connection whose client has gone.
Hangup(c) ==
    /\ c \in serving /\ link[c] = "half" /\ inbox[c] = <<>>
    /\ UNCHANGED reply
    /\ IF up = "stopping" THEN Ends
       ELSE /\ serving' = {}
            /\ link' = [link EXCEPT ![c] = "closed"]
            /\ UNCHANGED <<up, backlog, inbox, waiting>>
    /\ UNCHANGED <<sources, log, granted, applied, clientVars, requests, restarts>>

\* The response to the request read; nobody gets it when the client has gone.
\* The loops end when running_ is false, as a request to shut down makes it.
Respond(c, isOk, boot) ==
    LET m == inbox[c][1]
    IN  /\ c \in serving /\ inbox[c] # <<>>
        /\ reply' = [reply EXCEPT ![c] =
                        IF link[c] = "half" THEN <<>>
                        ELSE <<[op |-> m.op, source |-> m.source, id |-> m.id,
                                ok |-> isOk, boot |-> boot,
                                snapshot |-> IF m.op = "snapshot" THEN log ELSE <<>>]>>]
        /\ IF up = "stopping" \/ m.op = "shutdown" THEN Ends
           ELSE /\ inbox' = [inbox EXCEPT ![c] = <<>>]
                /\ UNCHANGED <<up, backlog, serving, link, waiting>>
        /\ UNCHANGED <<clientVars, requests, restarts>>

Asks(c, ops) == inbox[c] # <<>> /\ inbox[c][1].op \in ops

\* Fault: a source that registers again keeps the scope it had.
RegisteredOnce(m) ==
    [boot |-> Len(granted'), generation |-> 1,
     scope |-> IF m.source \in DOMAIN sources THEN sources[m.source].scope ELSE m.domain]

\* The entry of a source in sources_ once it has registered.
Registered(m) == [boot |-> Len(granted'), generation |-> 1, scope |-> m.domain]

RegisterSource(c) ==
    LET m == inbox[c][1]
    IN  /\ Asks(c, {"source"})
        /\ granted' = Append(granted, m.domain)
        /\ sources' = [s \in DOMAIN sources \cup {m.source} |->
                          IF s = m.source THEN Registered(m) ELSE sources[s]]
        /\ Respond(c, TRUE, Len(granted'))
        /\ UNCHANGED <<log, applied>>

\* The tests every mutation makes, of the epoch and of the boot id.
Authentic(m) == /\ m.epoch = Epoch
                /\ m.source \in DOMAIN sources
                /\ m.boot = sources[m.source].boot

\* The tests of a profile, besides.
Publishable(m) == /\ m.generation >= sources[m.source].generation
                  /\ sources[m.source].scope \in {"*", m.domain}

\* The registry carries out the request m.  A profile gets an identity of
\* its own: that of the request.
Apply(m) == /\ log' = Append(log, [op |-> m.op, source |-> m.source, boot |-> m.boot,
                                   generation |-> m.generation, domain |-> m.domain,
                                   content |-> m.content, id |-> m.id])
            /\ applied' = applied \cup {m.id}

\* Fault: the generation of the source is not brought forward.
PublishKeepsGeneration(c) ==
    LET m == inbox[c][1]
    IN  /\ Asks(c, {"profile"})
        /\ Authentic(m) /\ Publishable(m)
        /\ Apply(m)
        /\ Respond(c, TRUE, 0)
        /\ UNCHANGED <<sources, granted>>

RegisterProfile(c) ==
    LET m == inbox[c][1]
    IN  /\ Asks(c, {"profile"})
        /\ Authentic(m) /\ Publishable(m)
        /\ Apply(m)
        /\ sources' = [sources EXCEPT ![m.source].generation = m.generation]
        /\ Respond(c, TRUE, 0)
        /\ UNCHANGED granted

\* Fault: the source must be registered, by whatever process.
MutateUnfenced(c) ==
    LET m == inbox[c][1]
    IN  /\ Asks(c, Mutation \ {"profile"})
        /\ m.epoch = Epoch /\ m.source \in DOMAIN sources
        /\ Apply(m)
        /\ Respond(c, TRUE, 0)
        /\ UNCHANGED <<sources, granted>>

\* RegisterRule, RegisterEvidence and Invalidate look neither at the
\* generation of the source nor at its scope.
Mutate(c) ==
    LET m == inbox[c][1]
    IN  /\ Asks(c, Mutation \ {"profile"})
        /\ Authentic(m)
        /\ Apply(m)
        /\ Respond(c, TRUE, 0)
        /\ UNCHANGED <<sources, granted>>

Refused(m) == ~(Authentic(m) /\ (m.op = "profile" => Publishable(m)))

\* Fault: the registry is called before the tests.
RefuseLate(c) ==
    /\ Asks(c, Mutation)
    /\ Refused(inbox[c][1])
    /\ Apply(inbox[c][1])
    /\ Respond(c, FALSE, 0)
    /\ UNCHANGED <<sources, granted>>

\* Fault: a request that is refused is not answered.
RefuseSilently(c) ==
    /\ c \in serving /\ Asks(c, Mutation)
    /\ Refused(inbox[c][1])
    /\ inbox' = [inbox EXCEPT ![c] = <<>>]
    /\ UNCHANGED <<serverVars, backlog, serving, link, reply, waiting, clientVars,
                   requests, restarts>>

Refuse(c) ==
    /\ Asks(c, Mutation)
    /\ Refused(inbox[c][1])
    /\ Respond(c, FALSE, 0)
    /\ UNCHANGED <<sources, granted, log, applied>>

\* QueryPair, QueryRequirement, Snapshot and Shutdown, for whoever asks.
\* (The cache of decisions is left to Registry.tla.)
Serve(c) ==
    /\ Asks(c, {"query", "snapshot", "shutdown"})
    /\ Respond(c, TRUE, 0)
    /\ UNCHANGED <<sources, granted, log, applied>>

\* stop(), from another thread: the listening socket is closed, and the
\* request being waited for is still served.
Stop ==
    /\ up = "running"
    /\ up' = IF serving = {} THEN "down" ELSE "stopping"
    /\ UNCHANGED reply /\ KeepOnly(serving)
    /\ UNCHANGED <<sources, log, granted, applied, clientVars, requests, restarts>>

\* The process is killed, or an exception leaves run(): an evaluation throws
\* when a constraint meets a value of a kind it cannot read.  An answer on
\* its way may be lost with it.
Crash ==
    /\ up # "down"
    /\ \E lost \in SUBSET {c \in Client : reply[c] # <<>>} :
          reply' = [c \in Client |-> IF c \in lost THEN <<>> ELSE reply[c]]
    /\ Ends
    /\ UNCHANGED <<sources, log, granted, applied, clientVars, requests, restarts>>

\* coordinator_main, with or without --recover.
Restart ==
    /\ up = "down" /\ restarts < MaxRestarts
    /\ restarts' = restarts + 1
    /\ up' = "running"
    /\ sources' = NoSources
    /\ log' \in {<<>>, file}
    /\ UNCHANGED <<granted, applied, backlog, serving, link, inbox, reply, waiting,
                   clientVars, requests>>

ServerStep == \/ Accept
              \/ \E c \in Client : \/ Hangup(c) \/ RegisterSource(c) \/ RegisterProfile(c)
                                   \/ Mutate(c) \/ Refuse(c) \/ Serve(c)

Next ==
    \/ ServerStep \/ Stop \/ Crash \/ Restart
    \/ \E c \in Client :
          \/ Connect(c) \/ Receive(c) \/ Close(c) \/ Die(c)
          \/ \E m \in Message : m.op \in MsgType /\ Send(c, m)

Spec == Init /\ [][Next]_coordinatorVars

\* The server runs on; a client reads what it is sent, and closes its
\* connection some time after its last request.
Fairness == /\ WF_coordinatorVars(ServerStep)
            /\ \A c \in Client : /\ WF_coordinatorVars(Receive(c))
                                 /\ WF_coordinatorVars(Close(c))

FairSpec == Spec /\ Fairness

-----------------------------------------------------------------------------
(* Properties.                                                             *)

SourceInfo == [boot : Nat, generation : Nat, scope : Scope]

Applied == [op : Mutation, source : Source, boot : Nat, generation : Nat,
            domain : Domain \cup {0}, content : Content \cup {0}, id : 1 .. MaxRequests]

TypeOK == /\ up \in {"running", "stopping", "down"}
          /\ granted \in Seq(Scope)
          /\ DOMAIN sources \subseteq Source
          /\ \A s \in DOMAIN sources : sources[s] \in SourceInfo
          /\ log \in Seq(Applied) /\ file \in Seq(Applied)
          /\ serving \subseteq Client /\ waiting \subseteq Client
          /\ backlog \in Seq(Client \ serving)
          /\ link \in [Client -> {"closed", "open", "half"}]
          /\ creds \in [Client -> [Source -> Nat]]

\* Once a source that has registered again has changed the registry, nothing
\* does so in the name of its former process: not what that process sent
\* before it ended, nor what another client of that name still sends, before
\* a restart of the coordinator or after one, although the epoch is the same.
FormerProcessesFenced ==
    \A i, j \in DOMAIN log :
        i < j /\ log[i].source = log[j].source => log[i].boot <= log[j].boot

\* What one process of a source publishes is of generations that do not go
\* back.
PublishedInOrder ==
    \A i, j \in DOMAIN log :
        /\ i < j /\ log[i].boot = log[j].boot /\ log[i].source = log[j].source
        /\ log[i].op = "profile" /\ log[j].op = "profile"
        => log[i].generation <= log[j].generation

\* A source publishes in the domains it has registered for last, whatever it
\* was authorised for before.
PublishedInScope ==
    \A i \in DOMAIN log :
        log[i].op = "profile" => granted[log[i].boot] \in {"*", log[i].domain}

\* An answer can be relied on: what was acknowledged was carried out, what
\* was refused was not, and will not be.
AnswersTrue ==
    \A t \in told : t.ok <=> t.id \in applied

\* A client that waits for a response gets one, or loses its connection,
\* although the server serves the others, one at a time, before it, and may
\* be stopped while it does.
EventuallyAnswered == \A c \in Client : c \in waiting ~> c \notin waiting

=============================================================================
