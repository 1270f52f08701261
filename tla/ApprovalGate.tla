---------------------------- MODULE ApprovalGate ----------------------------
(***************************************************************************)
(* What the agent's approval gate promises, independently of how the loop  *)
(* is scheduled: a turn performs tool calls one at a time; a guarded call   *)
(* (a mutating tool the committed policy does not wave through) happens     *)
(* only by the user's answer to a request for that very call, or under a    *)
(* standing consent the user gave for the same tool earlier in the turn;    *)
(* and nothing happens once the turn is over.                               *)
(*                                                                         *)
(* The module is written from the contract of requestApproval and          *)
(* resolvePolicy (packages/core/src/agent/loop.ts:65-71).  AgentLoop is     *)
(* shown to implement it.                                                   *)
(***************************************************************************)
EXTENDS Sequences

CONSTANTS
  Call,         \* the tool calls a model can make
  NoCall,       \* no request is shown
  ToolOf(_),    \* the tool a call names
  Guarded(_)    \* does this call need consent?

VARIABLES
  asking,       \* the call the user is being asked about, or NoCall
  consent,      \* tools the user approved for the rest of the turn
  log,          \* the answers given and the calls performed, in order
  open          \* is the turn still running?

gateVars == <<asking, consent, log, open>>

Performed(c) == [kind |-> "ran", call |-> c, decision |-> "none"]
Answered(c, d) == [kind |-> "asked", call |-> c, decision |-> d]

Init ==
  /\ asking = NoCall
  /\ consent = {}
  /\ log = << >>
  /\ open = TRUE

\* A call that needs no answer: it is unguarded, or its tool has consent.
Perform(c) ==
  /\ open
  /\ asking = NoCall
  /\ \/ ~Guarded(c)
     \/ ToolOf(c) \in consent
  /\ log' = Append(log, Performed(c))
  /\ UNCHANGED <<asking, consent, open>>

\* Only a guarded call without standing consent is put to the user.
Ask(c) ==
  /\ open
  /\ asking = NoCall
  /\ Guarded(c)
  /\ ToolOf(c) \notin consent
  /\ asking' = c
  /\ UNCHANGED <<consent, log, open>>

Refuse ==
  /\ asking # NoCall
  /\ asking' = NoCall
  /\ log' = Append(log, Answered(asking, "deny"))
  /\ UNCHANGED <<consent, open>>

Approve ==
  /\ asking # NoCall
  /\ asking' = NoCall
  /\ log' = log \o <<Answered(asking, "approve"), Performed(asking)>>
  /\ UNCHANGED <<consent, open>>

ApproveAlways ==
  /\ asking # NoCall
  /\ asking' = NoCall
  /\ log' = log \o <<Answered(asking, "approve_always"), Performed(asking)>>
  /\ consent' = consent \union {ToolOf(asking)}
  /\ UNCHANGED open

Close ==
  /\ open
  /\ asking = NoCall
  /\ open' = FALSE
  /\ UNCHANGED <<asking, consent, log>>

Next ==
  \/ \E c \in Call : Perform(c) \/ Ask(c)
  \/ Refuse
  \/ Approve
  \/ ApproveAlways
  \/ Close

Spec == Init /\ [][Next]_gateVars

=============================================================================
