----------------------------- MODULE MCNetwork -----------------------------
(***************************************************************************)
(* What goes on eventually on the network, in one instance for TLC: the    *)
(* frames of one connection, and the coordinator with its queue of         *)
(* connections.  The modules describe the same calls at two grains and     *)
(* share no state: a behaviour moves the one that is its subject.          *)
(***************************************************************************)
EXTENDS Frames

CONSTANTS Client, Source, Domain, Scope, Content, Generation, MsgType,   \* of Coordinator
          MaxRequests, MaxRestarts

VARIABLES subject,                                   \* what the behaviour moves
          up, sources, log, granted, backlog,        \* of Coordinator
          serving, link, inbox, reply, waiting,
          creds, epoch, file, requests, restarts, told,
          carriedOut                                 \* applied of Coordinator

coordinatorVars == <<up, sources, log, granted, backlog, serving, link, inbox, reply,
                     waiting, creds, epoch, file, requests, restarts, told, carriedOut>>

Co == INSTANCE Coordinator WITH applied <- carriedOut

NetworkInit == subject \in {"coordinator", "connection"} /\ Init /\ Co!Init

NetworkNext ==
    /\ UNCHANGED subject
    /\ \/ subject = "coordinator" /\ Co!Next /\ UNCHANGED frameVars
       \/ subject = "connection" /\ Next /\ UNCHANGED coordinatorVars

\* The fairness of the two modules, whose steps the initial states do not
\* enable: only the subject of a behaviour owes any.
NetworkSpec == /\ NetworkInit
               /\ [][NetworkNext]_<<subject, frameVars, coordinatorVars>>
               /\ Fairness
               /\ Co!Fairness

\* A client that waits for the coordinator is not left waiting (net.cpp:179-202
\* and 325-361): the property of Coordinator.tla.
EventuallyAnswered == Co!EventuallyAnswered
=============================================================================
