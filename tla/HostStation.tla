----------------------------- MODULE HostStation -----------------------------
(***************************************************************************)
(* A host and its station: the client of RelayClient.tla, with the session *)
(* of Session.tla in the place of the one line that stands for a station   *)
(* there.  Requests carry the handles the host was given by its open       *)
(* calls, so that what a call returned, or did not return in time, meets   *)
(* what the station really did.                                            *)
(*                                                                         *)
(* A frame the station cannot write, because the host has closed its end,  *)
(* makes no difference to the session (session.cpp:82): the requests that  *)
(* are already on their way are handled all the same until the station     *)
(* reads the end of the stream, which is StationLeaves here.               *)
(***************************************************************************)
EXTENDS RelayClient, Session

VARIABLES
  target,        \* the handle each request carries, 0 if none
  answered       \* history: what the station did on each: [reply, call], or Unanswered

\* The session may be sent any handle, and as many OPENs as the host has requests.
ASSUME HostStationAssumption ==
  /\ Handle \subseteq HandleFields
  /\ MaxRequests =< MaxHandle

Unanswered == << >>

hostStationVars == <<relayVars, vars, target, answered>>

HostStationInit == ClientInit /\ SessionInit /\ target = << >> /\ answered = << >>

-----------------------------------------------------------------------------
(* The host. *)

\* The handles open calls have returned, by call.
OpenCalls == {n \in DOMAIN asked : asked[n] = "open" /\ outcome[n] = "returned"}
HandleOf(n) == answered[answer[n]].reply.handle
Given == {HandleOf(n) : n \in OpenCalls}

\* Calls that name a target take a handle the host was given, closed or not.
AskAbout(kind, handle) ==
  /\ Len(asked) < MaxRequests /\ Cardinality(Outstanding) < MaxOutstanding
  /\ handle \in IF kind \in {"post", "set", "close"} THEN Given ELSE {0}
  /\ Ask(kind)
  /\ target' = Append(target, handle)
  /\ answered' = Append(answered, Unanswered)
  /\ UNCHANGED vars

ClientRuns ==
  /\ \/ \E length \in 1 .. MaxChunk : Bytes(length)
     \/ StreamEnds \/ Dispose \/ DisposeAbruptly \/ StationLeaves
     \/ \E n \in Request : Timeout(n)
  /\ UNCHANGED <<vars, target, answered>>

-----------------------------------------------------------------------------
(* The station. *)

\* Session::handle of a request as the client makes it.
HandleRequest(kind, handle) ==
  \/ kind = "bye" /\ Bye
  \/ kind # "hello" /\ kind # "bye" /\ BadGreeting
  \/ kind = "hello" /\ \E offer \in Offers : Hello(offer)
  \/ kind = "hello" /\ Unsupported
  \/ kind = "caps" /\ CapsRequest
  \/ kind = "open" /\ Open(TRUE)
  \/ kind = "post" /\ Post(handle, TRUE)
  \/ kind = "set" /\ Set(handle, TRUE)
  \/ kind = "close" /\ Close(handle)
  \/ kind = "diag" /\ DiagRequest("true", "absent")

ReplyTo == [hello |-> "HELLO_ACK", caps |-> "CAPS_REPLY", open |-> "OPEN_ACK",
            diag |-> "DIAG_REPLY", post |-> "STATUS", set |-> "STATUS", close |-> "STATUS",
            bye |-> "BYE"]

\* A reply as the client sees it.
FrameOf(n, sent) ==
  Frame(n, IF sent.type = "ERROR" THEN "error"
           ELSE IF sent.type = ReplyTo[asked[n]] THEN asked[n] ELSE sent.type)

\* Mutant: a request that is refused gets no reply.
HandleQuietly ==
  /\ station = "serving" /\ toStation # << >>
  /\ LET n == Head(toStation)
     IN  /\ HandleRequest(asked[n], target[n])
         /\ answered' = [answered EXCEPT ![n] = [reply |-> reply', call |-> call']]
         /\ fromStation' = IF reply'.type = "ERROR" THEN fromStation
                           ELSE fromStation \o Halves(FrameOf(n, reply'))
  /\ station' = IF finished' THEN "gone" ELSE station
  /\ toStation' = Tail(toStation)
  /\ UNCHANGED <<clientVars, target>>

\* The read loop of main: one request, its reply, and the end of the session.
HandleNext ==
  /\ station = "serving" /\ toStation # << >>
  /\ LET n == Head(toStation)
     IN  /\ HandleRequest(asked[n], target[n])
         /\ answered' = [answered EXCEPT ![n] = [reply |-> reply', call |-> call']]
         /\ fromStation' = fromStation \o Halves(FrameOf(n, reply'))
  /\ station' = IF finished' THEN "gone" ELSE station
  /\ toStation' = Tail(toStation)
  /\ UNCHANGED <<clientVars, target>>

HostStationNext ==
  \/ \E kind \in Kinds, handle \in {0} \cup Given : AskAbout(kind, handle)
  \/ ClientRuns
  \/ HandleNext

HostStationSpec == HostStationInit /\ [][HostStationNext]_hostStationVars

-----------------------------------------------------------------------------
(* Properties *)

\* The session is a station as RelayClient.tla takes it to be: one reply to each
\* request, of its type or ERROR, in order, and none after the session's end.
ServesAsExpected == ClientInit /\ [][ClientNext]_relayVars

\* A handle that an open call returned is one the station has opened, no two
\* calls return the same, and its target is open as long as the host has not
\* asked for it to be closed - also when calls have timed out and replies are
\* given to calls they do not belong to (client.dart:150, 246).
HandlesAreReal ==
  \A n \in OpenCalls :
    /\ \A m \in OpenCalls : HandleOf(n) = HandleOf(m) => n = m
    /\ HandleOf(n) \in Listed
       \/ \E m \in DOMAIN asked : asked[m] = "close" /\ target[m] = HandleOf(n)

Undisturbed == \A n \in DOMAIN outcome : outcome[n] \in {"returned", "raised"}

\* A host none of whose calls has timed out or failed knows exactly what the
\* station has: the targets it holds are the station's; a call that returned
\* was carried out; one that raised was not, and left no trace.
HostKnows ==
  Undisturbed =>
    /\ Listed = {HandleOf(n) : n \in {m \in OpenCalls :
                     ~ \E k \in DOMAIN asked : /\ asked[k] = "close" /\ outcome[k] = "returned"
                                               /\ target[k] = HandleOf(m)}}
    /\ \A n \in DOMAIN asked :
         /\ asked[n] \in {"post", "set"} =>
              ((outcome[n] = "returned") <=> (answered[n].call # NotCalled))
         /\ answered[n].call # NotCalled => answered[n].call.handle = target[n]

=============================================================================
