------------------------------ MODULE Session ------------------------------
(***************************************************************************)
(* One session of src/relay/session.cpp over the backend of                *)
(* EngineBackend.tla: Session::handle, one action per way a decoded frame  *)
(* can be handled.  The station handles frames one at a time on one thread,*)
(* so an action is a whole call, up to and including the reply.            *)
(*                                                                         *)
(* A frame is the fields its handler looks at.  What the peer sends is     *)
(* open: every frame the decoder lets through may come at any time.        *)
(***************************************************************************)
EXTENDS EngineBackend

CONSTANTS
  Offers,          \* the revision lists a host may send, as sets of numbers
  IntSpace,        \* numbers an int can hold: 2^32 in the code
  HandleFields,    \* what a handle field may hold; 0 also stands for no number
  MaxHandle        \* bound of the model: the last handle an OPEN may be given

ASSUME SessionAssumption ==
  /\ \A offer \in Offers : offer \subseteq Int
  /\ IntSpace \in Nat /\ IntSpace > 2
  /\ HandleFields \subseteq Int
  /\ MaxHandle \in Nat

Switch == {"absent", "true", "false", "other"}    \* a JSON member read as a bool

VARIABLES
  finished,            \* finished_
  negotiated,          \* negotiated_
  revision,            \* revision_
  diagnosticsEnabled,  \* diagnosticsEnabled_
  identifyEnabled,     \* identifyEnabled_
  reply,               \* the last frame sent, or None
  held                 \* history: handles acknowledged to the host, not closed

switchVars == <<diagnosticsEnabled, identifyEnabled>>
negotiationVars == <<negotiated, revision>>
vars == <<backendVars, switchVars, negotiationVars, finished, reply, held>>

SessionInit ==
  /\ BackendInit
  /\ finished = FALSE /\ negotiated = FALSE /\ revision = 0
  /\ diagnosticsEnabled = FALSE /\ identifyEnabled = FALSE
  /\ reply = None
  /\ held = {}

-----------------------------------------------------------------------------
(* Replies. *)

SendError(reason) == reply' = [type |-> "ERROR", reason |-> reason]
SendStatus(handle) == reply' = [type |-> "STATUS", handle |-> handle]

\* A reply that reports on the engine carries its claims as they stand.
SendCaps == reply' = [type |-> "CAPS_REPLY", claims |-> Claims']
SendDiagnostics ==
  reply' = [type |-> "DIAG_REPLY", claims |-> Claims', targets |-> TargetCount,
            symbols |-> ResolvedCount(engine'), candidates |-> Len(scan'.candidates)]

UntouchedBackend == UNCHANGED <<probeVars, handleVars>> /\ NoCall

\* Every refusal of a frame that stops before the backend.
Refuse(reason) ==
  /\ SendError(reason)
  /\ UntouchedBackend
  /\ UNCHANGED <<switchVars, negotiationVars, finished, held>>

\* Handled in a session that goes on, without touching the session's own state.
Served == UNCHANGED <<switchVars, negotiationVars, finished>>

-----------------------------------------------------------------------------
(* Before a revision is agreed. *)

\* BYE is answered at any point and ends the session.
Bye ==
  /\ ~ finished
  /\ reply' = [type |-> "BYE"]
  /\ finished' = TRUE
  /\ UntouchedBackend
  /\ UNCHANGED <<switchVars, negotiationVars, held>>

\* Anything but HELLO, or a HELLO without a list of revisions, is fatal.
BadGreeting ==
  /\ ~ finished /\ ~ negotiated
  /\ SendError("BAD_ARGUMENT")
  /\ finished' = TRUE
  /\ UntouchedBackend
  /\ UNCHANGED <<switchVars, negotiationVars, held>>

supportedRevisions == {1}

\* static_cast<int> of a number that may not fit.
AsInt(n) ==
  LET low == n % IntSpace IN IF low < IntSpace \div 2 THEN low ELSE low - IntSpace

\* The highest revision in both lists, or 0.
SelectRevision(offer) ==
  Max({0} \cup {r \in supportedRevisions : r \in {AsInt(n) : n \in offer}})

Hello(offer) ==
  /\ ~ finished /\ ~ negotiated
  /\ \/ /\ SelectRevision(offer) = 0
        /\ SendError("NO_COMMON_REVISION")
        /\ finished' = TRUE
        /\ UNCHANGED <<negotiated, revision>>
     \/ /\ SelectRevision(offer) # 0
        /\ revision' = SelectRevision(offer)
        /\ negotiated' = TRUE
        /\ reply' = [type |-> "HELLO_ACK", revision |-> SelectRevision(offer)]
        /\ UNCHANGED finished
  /\ UntouchedBackend
  /\ UNCHANGED <<switchVars, held>>

-----------------------------------------------------------------------------
(* In a live session. *)

Live == negotiated /\ ~ finished

\* The payload is not JSON.
MalformedPayload == Live /\ Refuse("BAD_ARGUMENT")

\* A second HELLO, or a message that only a relay sends.
Unsupported == Live /\ Refuse("UNSUPPORTED_OPERATION")

CapsRequest ==
  /\ Live
  /\ EnsureProbed
  /\ SendCaps
  /\ Served /\ NoCall /\ UNCHANGED <<handleVars, held>>

\* OPEN: refused without a kind or without an engine; a handle of 0 counts as a
\* failure, but the backend has listed it by then.
Open(hasKind) ==
  /\ Live
  /\ \/ ~ hasKind /\ Refuse("BAD_ARGUMENT")
     \/ /\ hasKind
        /\ EnsureEngine
        /\ \/ /\ ~ Bound(engine')
              /\ SendError("NO_ENGINE")
              /\ UNCHANGED <<handleVars, held>>
           \/ /\ TakeHandle
              /\ IF nextHandle = 0
                 THEN SendError("INTERNAL") /\ UNCHANGED held
                 ELSE /\ reply' = [type |-> "OPEN_ACK", handle |-> nextHandle]
                      /\ held' = held \cup {nextHandle}
        /\ Served /\ NoCall

ReadableHandle(field) == field \in 1 .. HandleSpace - 1

\* Mutant: the engine is called before the handle is looked up.
DeliverUnchecked(handle, role, shape) ==
  /\ EnsureEngine
  /\ \/ ~ Bound(engine') /\ SendError("NO_ENGINE") /\ NoCall
     \/ /\ Bound(engine')
        /\ AddressFor(engine', role, shape) = None
        /\ SendError("UNSUPPORTED_OPERATION") /\ NoCall
     \/ /\ Bound(engine')
        /\ AddressFor(engine', role, shape) # None
        /\ Call(role, shape, handle)
        /\ IF handle \in Listed THEN SendStatus(handle) ELSE SendError("INVALID_HANDLE")

\* post and set of the backends: an engine, then a known handle, then an entry
\* point of the right shape, then the call.
Deliver(handle, role, shape) ==
  /\ EnsureEngine
  /\ \/ ~ Bound(engine') /\ SendError("NO_ENGINE") /\ NoCall
     \/ Bound(engine') /\ handle \notin Listed /\ SendError("INVALID_HANDLE") /\ NoCall
     \/ /\ Bound(engine') /\ handle \in Listed
        /\ AddressFor(engine', role, shape) = None
        /\ SendError("UNSUPPORTED_OPERATION") /\ NoCall
     \/ /\ Bound(engine') /\ handle \in Listed
        /\ AddressFor(engine', role, shape) # None
        /\ Call(role, shape, handle)
        /\ SendStatus(handle)

\* POST and SET; argsOK: the action is a string, or the parameter is one and
\* the value a number in [0, 1].
Drive(field, argsOK, role, shape) ==
  /\ Live
  /\ \/ ~ (ReadableHandle(field) /\ argsOK) /\ Refuse("BAD_ARGUMENT")
     \/ /\ ReadableHandle(field) /\ argsOK
        /\ Deliver(field, role, shape)
        /\ Served /\ UNCHANGED <<handleVars, held>>

Post(field, hasAction) == Drive(field, hasAction, "post", "name")
Set(field, hasValue) == Drive(field, hasValue, "set", "level")

Close(field) ==
  /\ Live
  /\ \/ ~ ReadableHandle(field) /\ Refuse("BAD_ARGUMENT")
     \/ /\ ReadableHandle(field)
        /\ DropHandle(field)
        /\ SendStatus(field)
        /\ held' = held \ {field}
        /\ Served /\ NoCall /\ UNCHANGED <<probeVars, nextHandle>>

\* Mutant: turning diagnostics off leaves identification on.
IdentifyUnlinked(enable) == identifyEnabled

\* What the "enable" member leaves of the two switches.
DiagnoseAfter(enable) ==
  IF enable \in {"true", "false"} THEN enable = "true" ELSE diagnosticsEnabled
IdentifyAfter(enable) == identifyEnabled /\ enable # "false"

DiagRequest(enable, identify) ==
  /\ Live
  /\ diagnosticsEnabled' = DiagnoseAfter(enable)
  /\ LET querying == enable = "absent" /\ identify = "absent"
     IN  \/ /\ ~ diagnosticsEnabled' /\ (identify = "true" \/ querying)
            /\ SendError("DIAG_DISABLED")
            /\ identifyEnabled' = IdentifyAfter(enable)
            /\ UNCHANGED probeVars
         \/ /\ diagnosticsEnabled' \/ ~ (identify = "true" \/ querying)
            /\ identifyEnabled' = (identify = "true" \/ IdentifyAfter(enable))
            /\ EnsureProbed
            /\ SendDiagnostics
  /\ NoCall
  /\ UNCHANGED <<handleVars, held, negotiationVars, finished>>

-----------------------------------------------------------------------------

\* A number still in the list is not handed out again here: that takes 2^32
\* OPENs with the first target still open.
SessionNext ==
  \/ Bye \/ BadGreeting
  \/ \E offer \in Offers : Hello(offer)
  \/ MalformedPayload \/ Unsupported \/ CapsRequest
  \/ \E hasKind \in BOOLEAN :
       nextHandle =< MaxHandle /\ nextHandle \notin Listed /\ Open(hasKind)
  \/ \E field \in HandleFields, argsOK \in BOOLEAN : Post(field, argsOK) \/ Set(field, argsOK)
  \/ \E field \in HandleFields : Close(field)
  \/ \E enable, identify \in Switch : DiagRequest(enable, identify)

SessionSpec == SessionInit /\ [][SessionNext]_vars

-----------------------------------------------------------------------------
(* Properties *)

SessionTypeOK ==
  /\ finished \in BOOLEAN /\ negotiated \in BOOLEAN
  /\ revision \in {0} \cup supportedRevisions
  /\ diagnosticsEnabled \in BOOLEAN /\ identifyEnabled \in BOOLEAN
  /\ rooted \in BOOLEAN /\ audioEndpoint \in BOOLEAN
  /\ probed \in BOOLEAN /\ bulk \in BOOLEAN
  /\ nextHandle \in Handle /\ live \in Seq(Handle) /\ held \subseteq Handle

\* Identification is never on while diagnosis is off, whatever mixture of the
\* two members the host sends, in whatever order (session.cpp:336-349).
IdentifyNeedsDiagnose == identifyEnabled => diagnosticsEnabled

\* main.cpp:217: no filesystem code runs unless the host nominated a place to
\* search, and then not before a request of a negotiated session needs it.
LooksOnlyWhenAsked == probed => rooted /\ negotiated

\* What keeps through every frame, whatever the peer sends.
SwitchInv == SessionTypeOK /\ IdentifyNeedsDiagnose /\ LooksOnlyWhenAsked

\* prober.hpp:40: every class offered is one of a profile in the host's file all
\* of whose symbols the bound module exports, and a channel exists only if the
\* engine has a sink to install (RELAY_PROTOCOL.md section 7).  The number of
\* targets a report shows is that of the targets the host holds.
ClaimsProved ==
  /\ \A i \in DOMAIN engine.profiles :
       /\ \E j \in DOMAIN profiles : profiles[j] = engine.profiles[i]
       /\ \A b \in DOMAIN engine.profiles[i].bindings :
            engine.profiles[i].bindings[b].symbol \in engine.exports
  /\ Bound(engine) => \E c \in DOMAIN scan.candidates :
       scan.candidates[c].loads /\ scan.candidates[c].exports = engine.exports
  /\ bulk => \E i \in DOMAIN engine.profiles : \E b \in DOMAIN engine.profiles[i].bindings :
       engine.profiles[i].bindings[b].role = "bulk" /\ engine.profiles[i].bindings[b].shape = "sink"
  /\ (reply # None /\ reply.type = "DIAG_REPLY") => reply.targets = Cardinality(held)

\* discovery_backend.hpp:104: once given, the answer to "what can you do?" does
\* not change, whatever happens on the disk and whatever the host does.
AnswersStable == [][probed => Claims' = Claims /\ scan' = scan]_vars

\* The engine is called only for a target the host holds, at a symbol it
\* exports, and with the arguments of the shape that the profile which names
\* that very symbol declares for the role (prober.cpp:28-30: the two lists the
\* address and the shape come from must agree).
EngineCalledAsDeclared ==
  call # NotCalled =>
    /\ call.handle \in held
    /\ call.symbol \in engine.exports
    /\ \E i \in DOMAIN engine.profiles : \E b \in DOMAIN engine.profiles[i].bindings :
         engine.profiles[i].bindings[b] =
           [role |-> call.role, symbol |-> call.symbol, shape |-> call.shape]

\* session.cpp:271: a failure the host sees as ERROR has not reached the engine
\* and has not opened or closed anything.
ErrorsHaveNoEffect ==
  [][(reply' # None /\ reply'.type = "ERROR") =>
       call' = NotCalled /\ UNCHANGED <<handleVars, held>>]_vars

\* The backend's list and the host's own account of its targets never differ:
\* a target the host holds is listed, once, and nothing else is.
HandlesAgree == Listed = held /\ Len(live) = Cardinality(held)

\* What the protocol promises the host, by way of the backend's state.
phaseView == IF finished THEN "over" ELSE IF negotiated THEN "live" ELSE "greeting"
verdictView == IF ~ probed THEN "unknown" ELSE IF Bound(engine) THEN "engine" ELSE "none"

View == INSTANCE HostView WITH
  phase <- phaseView, verdict <- verdictView, targets <- Listed

\* Every session is one HostView.tla allows.
ImplementsHostView == View!Spec

=============================================================================
