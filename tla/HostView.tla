------------------------------ MODULE HostView ------------------------------
(***************************************************************************)
(* What session.hpp and backend.hpp let a host rely on over one session,   *)
(* with no messages, handlers or search in it: the session opens once and  *)
(* ends once; whether there is an engine is settled at most once; targets  *)
(* are opened only with an engine, under numbers not in use and never zero;*)
(* and a target stays open until it is closed.                             *)
(***************************************************************************)
VARIABLES
  phase,       \* "greeting", "live" or "over"
  verdict,     \* "unknown", "none" or "engine"
  targets      \* the handles of the open targets

hostVars == <<phase, verdict, targets>>

Init == phase = "greeting" /\ verdict = "unknown" /\ targets = {}

Agree == phase = "greeting" /\ phase' = "live" /\ UNCHANGED <<verdict, targets>>

End == phase # "over" /\ phase' = "over" /\ UNCHANGED <<verdict, targets>>

Settle ==
  /\ phase = "live"
  /\ verdict = "unknown"
  /\ verdict' \in {"none", "engine"}
  /\ UNCHANGED <<phase, targets>>

\* Opening a target may be the request that settles the verdict.
OpenTarget ==
  /\ phase = "live"
  /\ verdict # "none"
  /\ verdict' = "engine"
  /\ \E h \in targets' : h \notin targets /\ h # 0 /\ targets' = targets \cup {h}
  /\ UNCHANGED phase

CloseTarget ==
  /\ phase = "live"
  /\ \E h \in targets : targets' = targets \ {h}
  /\ UNCHANGED <<phase, verdict>>

Next == Agree \/ End \/ Settle \/ OpenTarget \/ CloseTarget

Spec == Init /\ [][Next]_hostVars

=============================================================================
