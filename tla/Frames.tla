------------------------------- MODULE Frames -------------------------------
(***************************************************************************)
(* The frames of the wire protocol on one connection: frame_message,       *)
(* recv_frame, RegistryClient::send and the inner loop of run()            *)
(* (src/compat/net.cpp:42-136, 161-188 and 343-352).  What the requests    *)
(* do, and the queue of the other connections, is in Coordinator.tla.      *)
(*                                                                         *)
(* A frame is a header, which says how long the rest is, and the rest; a   *)
(* piece of it is what send takes, or recv returns, at once.  Both ends    *)
(* run the same code on it, and either may end, or its connection, between *)
(* any two pieces.  Bytes of the rest that are read as a header give any   *)
(* length, and are not the magic number by chance.                         *)
(***************************************************************************)
EXTENDS Integers, Sequences

CONSTANTS Size,       \* the lengths of messages, in pieces
          Limit,      \* the length of 64 MiB
          MaxCalls    \* bound on the calls of the client

ASSUME FramesAssumption == Size \subseteq Nat /\ Limit \in Nat /\ MaxCalls \in Nat

End == {"client", "server"}

Peer(e) == IF e = "client" THEN "server" ELSE "client"

VARIABLES open,      \* whether the end has its socket
          out,       \* what sock_send_all has yet to send
          pipe,      \* what is on its way to the end
          taken,     \* what recv_frame has received of a frame
          need,      \* how many pieces the header of that frame asks for
          outcome,   \* of each call: 0 while it waits, -1 when it has failed, else
                     \* the call whose answer was received
          applied,   \* the calls whose requests were given to handle_request
          inStep     \* the client has read whole frames only

frameVars == <<open, out, pipe, taken, need, outcome, applied, inStep>>

\* The messages of the i-th call, cut into pieces.
Frame(i, n) == [k \in 1 .. n + 1 |-> [call |-> i, part |-> k, size |-> n]]

Calling == outcome # <<>> /\ outcome[Len(outcome)] = 0

Nothing == [e \in End |-> <<>>]

Init == /\ open = [e \in End |-> FALSE]
        /\ out = Nothing /\ pipe = Nothing /\ taken = Nothing
        /\ need = [e \in End |-> 0]
        /\ outcome = <<>> /\ applied = <<>> /\ inStep = TRUE

\* The call ends with the outcome x.
Ends(x) == outcome' = IF Calling THEN [outcome EXCEPT ![Len(outcome)] = x] ELSE outcome

-----------------------------------------------------------------------------
(* Connections.                                                            *)

Connect == /\ \A e \in End : ~open[e]
           /\ open' = [e \in End |-> TRUE]
           /\ out' = Nothing /\ pipe' = Nothing /\ taken' = Nothing
           /\ need' = [e \in End |-> 0]
           /\ inStep' = TRUE
           /\ UNCHANGED <<outcome, applied>>

\* The socket of e is closed.
Shut(e) == /\ open' = [open EXCEPT ![e] = FALSE]
           /\ out' = [out EXCEPT ![e] = <<>>]
           /\ taken' = [taken EXCEPT ![e] = <<>>]

\* A client closes its connection, or the process at the end e ends.
Leave(e) == /\ open[e]
            /\ Shut(e)
            /\ IF e = "client" THEN Ends(-1) ELSE UNCHANGED outcome
            /\ UNCHANGED <<pipe, need, applied, inStep>>

\* What was on its way to e is lost with the connection.
Reset(e) == /\ open[e] /\ ~open[Peer(e)] /\ pipe[e] # <<>>
            /\ pipe' = [pipe EXCEPT ![e] = <<>>]
            /\ UNCHANGED <<open, out, taken, need, outcome, applied, inStep>>

\* After an error the server closes the connection; the client reports it,
\* and stays connected.
GiveUp(e) ==
    IF e = "server" THEN Shut(e) /\ UNCHANGED outcome
    ELSE /\ Ends(-1)
         /\ out' = [out EXCEPT ![e] = <<>>] /\ taken' = [taken EXCEPT ![e] = <<>>]
         /\ UNCHANGED open

-----------------------------------------------------------------------------
(* Sending.                                                                *)

\* RegistryClient::send, with a request of n pieces.
Call(n) == /\ open["client"] /\ ~Calling /\ Len(outcome) < MaxCalls
           /\ outcome' = Append(outcome, 0)
           /\ out' = [out EXCEPT !["client"] = Frame(Len(outcome'), n)]
           /\ UNCHANGED <<open, pipe, taken, need, applied, inStep>>

\* A turn of sock_send_all.
Push(e) == /\ out[e] # <<>> /\ open[Peer(e)]
           /\ pipe' = [pipe EXCEPT ![Peer(e)] = Append(@, Head(out[e]))]
           /\ out' = [out EXCEPT ![e] = Tail(@)]
           /\ UNCHANGED <<open, taken, need, outcome, applied, inStep>>

SendFails(e) == /\ out[e] # <<>> /\ ~open[Peer(e)]
                /\ GiveUp(e)
                /\ UNCHANGED <<pipe, need, applied, inStep>>

-----------------------------------------------------------------------------
(* Receiving.                                                              *)

Receives(e) == open[e] /\ out[e] = <<>> /\ (e = "client" => Calling)

\* The lengths a piece gives when it is read as a header.
LengthIn(piece) == IF piece.part = 1 THEN {piece.size} ELSE 1 .. Limit + 1

TooLarge(n) == n > Limit

\* recv_frame refuses what is too large before it looks at anything else.
\* What follows the header stays where it is.
TakeHeader(e) ==
    /\ Receives(e) /\ taken[e] = <<>> /\ pipe[e] # <<>>
    /\ pipe' = [pipe EXCEPT ![e] = Tail(@)]
    /\ \E n \in LengthIn(Head(pipe[e])) :
          IF TooLarge(n)
          THEN /\ GiveUp(e)
               /\ inStep' = (inStep /\ e = "server")
               /\ UNCHANGED need
          ELSE /\ taken' = [taken EXCEPT ![e] = <<Head(pipe[e])>>]
               /\ need' = [need EXCEPT ![e] = n + 1]
               /\ UNCHANGED <<open, out, outcome, inStep>>
    /\ UNCHANGED applied

TakeMore(e) ==
    /\ Receives(e) /\ taken[e] # <<>> /\ Len(taken[e]) < need[e] /\ pipe[e] # <<>>
    /\ taken' = [taken EXCEPT ![e] = Append(@, Head(pipe[e]))]
    /\ pipe' = [pipe EXCEPT ![e] = Tail(@)]
    /\ UNCHANGED <<open, out, need, outcome, applied, inStep>>

\* sock_recv_exact has received what it was to receive.
Complete(e) == taken[e] # <<>> /\ Len(taken[e]) = need[e]

\* unframe_message: the magic number is at the beginning, and the checksum of
\* what is between is at the end.
WellFormed(pieces) == pieces[1].part = 1

\* Fault: no answer comes back before the next request is read.
ServeSilently(n) ==
    /\ Receives("server") /\ Complete("server") /\ WellFormed(taken["server"])
    /\ applied' = Append(applied, taken["server"][1].call)
    /\ taken' = [taken EXCEPT !["server"] = <<>>]
    /\ UNCHANGED <<open, out, pipe, need, outcome, inStep>>

\* handle_request, and the frame of its response, of n pieces.
Serve(n) ==
    /\ Receives("server") /\ Complete("server") /\ WellFormed(taken["server"])
    /\ applied' = Append(applied, taken["server"][1].call)
    /\ out' = [out EXCEPT !["server"] = Frame(taken["server"][1].call, n)]
    /\ taken' = [taken EXCEPT !["server"] = <<>>]
    /\ UNCHANGED <<open, pipe, need, outcome, inStep>>

Answered ==
    /\ Receives("client") /\ Complete("client") /\ WellFormed(taken["client"])
    /\ Ends(taken["client"][1].call)
    /\ taken' = [taken EXCEPT !["client"] = <<>>]
    /\ UNCHANGED <<open, out, pipe, need, applied, inStep>>

Malformed(e) ==
    /\ Receives(e) /\ Complete(e) /\ ~WellFormed(taken[e])
    /\ GiveUp(e)
    /\ inStep' = (inStep /\ e = "server")
    /\ UNCHANGED <<pipe, need, applied>>

\* Fault: recv_frame gives up when nothing comes for a while.
EndOfPatience(e) ==
    /\ Receives(e) /\ ~Complete(e) /\ pipe[e] = <<>>
    /\ GiveUp(e)
    /\ UNCHANGED <<pipe, need, applied, inStep>>

\* recv returns nothing: the other end has closed.
EndOfStream(e) ==
    /\ Receives(e) /\ ~Complete(e) /\ pipe[e] = <<>> /\ ~open[Peer(e)]
    /\ GiveUp(e)
    /\ UNCHANGED <<pipe, need, applied, inStep>>

EndStep(e) == \/ Push(e) \/ SendFails(e)
              \/ TakeHeader(e) \/ TakeMore(e) \/ Malformed(e) \/ EndOfStream(e)

Step == \/ \E e \in End : EndStep(e)
        \/ Answered
        \/ \E n \in Size : Serve(n)

Next == \/ Step \/ Connect
        \/ \E e \in End : Leave(e) \/ Reset(e)
        \/ \E n \in Size : Call(n)

Spec == Init /\ [][Next]_frameVars

\* Both processes run, and the network delivers what it has taken as long as
\* both ends are open.
Fairness == WF_frameVars(Step)

FairSpec == Spec /\ Fairness

-----------------------------------------------------------------------------
(* Properties.                                                             *)

\* A client that keeps its connections in step has of its calls what it may
\* expect: no request is carried out in part, or twice, and no answer is that
\* of another call, wherever the connection broke.
Calls == INSTANCE Exchange WITH reliable <- inStep

CallsAreExchanges == Calls!Spec

\* A call ends, with an answer or an error, whatever becomes of the server: a
\* client that is in step never waits for bytes that nobody will send.
CallsEnd == Calling ~> (~Calling \/ ~inStep)
=============================================================================
