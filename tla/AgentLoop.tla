------------------------------ MODULE AgentLoop ------------------------------
(***************************************************************************)
(* One run of runAgentLoop (packages/core/src/agent/loop.ts): the provider  *)
(* is asked for a completion, the tool calls it returns are executed in     *)
(* order -- mutating ones behind the workspace policy and the user's        *)
(* approval -- and the results are fed back, until the model answers        *)
(* without a tool call, the user stops the run, the provider fails or the   *)
(* iteration cap is reached.                                                *)
(*                                                                         *)
(* The extension host is single threaded: an action runs from one await to  *)
(* the next, and Stop (a webview message) lands only in between.            *)
(***************************************************************************)
EXTENDS Integers, Sequences, FiniteSets

CONSTANTS
  Tools,                \* keys of toolsByName
  MutatingTools,        \* tools whose risk is "mutating"
  PreviewTools,         \* tools that define preview()
  Bash,                 \* the one tool the committed policy controls
  Names,                \* names a model may utter, known or not
  Args,                 \* abstract arguments
  NoCommand,            \* arguments whose trimmed command is empty
  DenyCommands,         \* arguments some denyCommands pattern matches
  AutoApproveCommands,  \* arguments some autoApproveCommands pattern matches
  Shapes,               \* the <<name, arguments>> pairs a model may utter
  MaxIterations,        \* options.maxIterations
  MaxCalls,             \* bound: tool calls in one assistant message
  MaxForeign            \* bound: tool_calls entries not of type "function"

ASSUME LoopAssumption ==
  /\ MutatingTools \subseteq Tools
  /\ Bash \in MutatingTools
  /\ PreviewTools \subseteq Tools
  /\ Tools \subseteq Names
  /\ Shapes \subseteq [name : Names, arg : Args]
  /\ MaxIterations \in Nat
  /\ MaxCalls \in Nat
  /\ MaxForeign \in Nat

VARIABLES
  pc,              \* where the loop is suspended
  iteration,       \* provider round-trips completed
  messages,        \* the transcript the loop appended to its seed
  queue,           \* calls of the current assistant message not yet handled
  alwaysApproved,  \* tools the user approved for the session
  aborted,         \* signal.aborted
  stoppedReason,   \* how the run ended, "none" while it runs
  trace            \* history: what was asked, and what was executed

vars == <<pc, iteration, messages, queue, alwaysApproved, aborted,
          stoppedReason, trace>>

-----------------------------------------------------------------------------
(* Calls, messages and the workspace policy.                                *)

\* A structured call carries an id of its own turn; a call recovered from the
\* content is named fallback_0, fallback_1, ... afresh in every turn (turn 0).
Id == [turn : 0 .. MaxIterations, index : 0 .. MaxCalls + MaxForeign]
Call == [id : Id, name : Names, arg : Args]
Message == [role : {"assistant", "tool"}, calls : SUBSET Id]
Decision == {"approve", "approve_always", "deny"}
Event == [kind : {"asked", "ran"}, call : Call, decision : Decision \union {"none"}]
Reasons == {"none", "completed", "aborted", "iteration_limit", "error"}
Places == {"check", "chat", "calls", "preview", "approval", "execute", "done"}

\* A plausible slip: the allow list consulted before the deny list.
ResolvePolicyAllowFirst(call) ==
  IF call.name # Bash \/ call.arg = NoCommand THEN "prompt"
  ELSE IF call.arg \in AutoApproveCommands THEN "allow"
  ELSE IF call.arg \in DenyCommands THEN "deny"
  ELSE "prompt"

\* createBashCommandPolicy
ResolvePolicy(call) ==
  IF call.name # Bash \/ call.arg = NoCommand THEN "prompt"
  ELSE IF call.arg \in DenyCommands THEN "deny"
  ELSE IF call.arg \in AutoApproveCommands THEN "allow"
  ELSE "prompt"

\* The gate of the loop: a mutating tool not yet approved for the session.
Gated(call) == call.name \in MutatingTools /\ call.name \notin alwaysApproved

\* Structured ids are indexed from 1 within their turn, recovered ones from 0.
Structured(shapes) ==
  [k \in DOMAIN shapes |->
     [id |-> [turn |-> iteration + 1, index |-> k],
      name |-> shapes[k].name, arg |-> shapes[k].arg]]
Recovered(shapes) ==
  [k \in DOMAIN shapes |->
     [id |-> [turn |-> 0, index |-> k - 1],
      name |-> shapes[k].name, arg |-> shapes[k].arg]]
IdsOf(calls) == {calls[k].id : k \in DOMAIN calls}

\* Entries of another type stay in the message but are never parsed.
ForeignIds(n, m) == {[turn |-> iteration + 1, index |-> k] : k \in n + 1 .. n + m}

ShapeSeqs(S) == UNION {[1 .. n -> S] : n \in 0 .. MaxCalls}
KnownShapes == {s \in Shapes : s.name \in Tools}

AssistantMessage(ids) == [role |-> "assistant", calls |-> ids]
ToolMessage(call) == [role |-> "tool", calls |-> {call.id}]

-----------------------------------------------------------------------------
Init ==
  /\ pc = "check"
  /\ iteration = 0
  /\ messages = << >>
  /\ queue = << >>
  /\ alwaysApproved = {}
  /\ aborted = FALSE
  /\ stoppedReason = "none"
  /\ trace = << >>

Finish(reason) ==
  /\ pc' = "done"
  /\ stoppedReason' = reason

\* A plausible slip: the cap is off by one.
CheckIterationOneMore ==
  /\ pc = "check"
  /\ IF iteration > MaxIterations \/ aborted
       THEN Finish(IF aborted THEN "aborted" ELSE "iteration_limit")
       ELSE pc' = "chat" /\ UNCHANGED stoppedReason
  /\ UNCHANGED <<iteration, messages, queue, alwaysApproved, aborted, trace>>

\* The head of the for statement: the cap is tested before the abort flag.
CheckIteration ==
  /\ pc = "check"
  /\ \/ /\ iteration >= MaxIterations
        /\ Finish("iteration_limit")
     \/ /\ iteration < MaxIterations
        /\ aborted
        /\ Finish("aborted")
     \/ /\ iteration < MaxIterations
        /\ ~aborted
        /\ pc' = "chat"
        /\ UNCHANGED stoppedReason
  /\ UNCHANGED <<iteration, messages, queue, alwaysApproved, aborted, trace>>

\* provider.chat rejects: a clean stop if the run was aborted, else rethrown.
ChatFails ==
  /\ pc = "chat"
  /\ Finish(IF aborted THEN "aborted" ELSE "error")
  /\ UNCHANGED <<iteration, messages, queue, alwaysApproved, aborted, trace>>

\* The completion has no message at all.
ChatEmpty ==
  /\ pc = "chat"
  /\ Finish("completed")
  /\ UNCHANGED <<iteration, messages, queue, alwaysApproved, aborted, trace>>

\* Append the assistant message, and either run its calls or end the run.
TakeCalls(calls, ids) ==
  /\ messages' = Append(messages, AssistantMessage(ids))
  /\ queue' = calls
  /\ IF calls = << >>
       THEN Finish("completed")
       ELSE /\ pc' = "calls"
            /\ UNCHANGED stoppedReason
  /\ UNCHANGED <<iteration, alwaysApproved, aborted, trace>>

ChatReplies ==
  /\ pc = "chat"
  /\ \E foreign \in 0 .. MaxForeign :
       \/ \E shapes \in ShapeSeqs(Shapes) :
            TakeCalls(Structured(shapes),
                      IdsOf(Structured(shapes)) \union ForeignIds(Len(shapes), foreign))
       \* No function call was found, and the content holds some: they replace
       \* whatever tool_calls the message had.
       \/ \E shapes \in ShapeSeqs(KnownShapes) \ {<< >>} :
            TakeCalls(Recovered(shapes), IdsOf(Recovered(shapes)))

-----------------------------------------------------------------------------
(* The tool calls of one assistant message, in order.                       *)

\* emitResult: one tool message answers the call at the head of the queue.
Answer ==
  /\ messages' = Append(messages, ToolMessage(Head(queue)))
  /\ queue' = Tail(queue)
  /\ pc' = "calls"

\* All calls answered: next round-trip.
CallsDone ==
  /\ pc = "calls"
  /\ queue = << >>
  /\ pc' = "check"
  /\ iteration' = iteration + 1
  /\ UNCHANGED <<messages, queue, alwaysApproved, aborted, stoppedReason, trace>>

\* Stop between two calls: the remaining ones get no result.
CallAborted ==
  /\ pc = "calls"
  /\ queue # << >>
  /\ aborted
  /\ Finish("aborted")
  /\ UNCHANGED <<iteration, messages, queue, alwaysApproved, aborted, trace>>

\* A plausible slip: the abort check missing from the head of the call loop.
NextCallUnchecked == pc = "calls" /\ queue # << >>

NextCall == pc = "calls" /\ queue # << >> /\ ~aborted

\* A plausible slip: the branch for an unknown tool answers, then falls through.
UnknownFallsThrough ==
  /\ NextCall
  /\ Head(queue).name \notin Tools
  /\ messages' = Append(messages, ToolMessage(Head(queue)))
  /\ pc' = "execute"
  /\ UNCHANGED <<iteration, queue, alwaysApproved, aborted, stoppedReason, trace>>

CallUnknown ==
  /\ NextCall
  /\ Head(queue).name \notin Tools
  /\ Answer
  /\ UNCHANGED <<iteration, alwaysApproved, aborted, stoppedReason, trace>>

\* A plausible slip: a blocked call is skipped without a result.
BlockedUnanswered ==
  /\ NextCall
  /\ Gated(Head(queue))
  /\ ResolvePolicy(Head(queue)) = "deny"
  /\ pc' = "calls"
  /\ queue' = Tail(queue)
  /\ UNCHANGED <<iteration, messages, alwaysApproved, aborted, stoppedReason, trace>>

\* The policy blocks the command: the model is told, nothing runs.
CallBlocked ==
  /\ NextCall
  /\ Gated(Head(queue))
  /\ ResolvePolicy(Head(queue)) = "deny"
  /\ Answer
  /\ UNCHANGED <<iteration, alwaysApproved, aborted, stoppedReason, trace>>

\* The user must be asked: first the preview (an await of its own, if the tool
\* has one), then the request.
CallPrompt ==
  /\ NextCall
  /\ Gated(Head(queue))
  /\ ResolvePolicy(Head(queue)) = "prompt"
  /\ pc' = IF Head(queue).name \in PreviewTools THEN "preview" ELSE "approval"
  /\ UNCHANGED <<iteration, messages, queue, alwaysApproved, aborted,
                 stoppedReason, trace>>

\* A plausible slip: a preview that Stop interrupts never settles.
PreviewHangsOnStop ==
  /\ pc = "preview"
  /\ ~aborted
  /\ pc' = "approval"
  /\ UNCHANGED <<iteration, messages, queue, alwaysApproved, aborted,
                 stoppedReason, trace>>

\* preview() resolved or threw: either way the user is asked.
PreviewSettles ==
  /\ pc = "preview"
  /\ pc' = "approval"
  /\ UNCHANGED <<iteration, messages, queue, alwaysApproved, aborted,
                 stoppedReason, trace>>

Asked(call, d) == [kind |-> "asked", call |-> call, decision |-> d]
Ran(call) == [kind |-> "ran", call |-> call, decision |-> "none"]

\* No consent needed: a safe tool, a session approval, or a policy "allow".
CallRun ==
  /\ NextCall
  /\ Head(queue).name \in Tools
  /\ \/ ~Gated(Head(queue))
     \/ ResolvePolicy(Head(queue)) = "allow"
  /\ pc' = "execute"
  /\ trace' = Append(trace, Ran(Head(queue)))
  /\ UNCHANGED <<iteration, messages, queue, alwaysApproved, aborted, stoppedReason>>

\* A plausible slip: the branch that answers a denial does not `continue`.
RefusedFallsThrough ==
  /\ pc = "approval"
  /\ pc' = "execute"
  /\ trace' = trace \o <<Asked(Head(queue), "deny"), Ran(Head(queue))>>
  /\ UNCHANGED <<iteration, messages, queue, alwaysApproved, stoppedReason>>

\* requestApproval resolves with "deny".
Refused ==
  /\ pc = "approval"
  /\ Answer
  /\ trace' = Append(trace, Asked(Head(queue), "deny"))
  /\ UNCHANGED <<iteration, alwaysApproved, stoppedReason>>

\* A plausible slip: a one-off approval remembered for the session.
ApprovedForever(d) ==
  /\ pc = "approval"
  /\ pc' = "execute"
  /\ alwaysApproved' = alwaysApproved \union {Head(queue).name}
  /\ trace' = trace \o <<Asked(Head(queue), d), Ran(Head(queue))>>
  /\ UNCHANGED <<iteration, messages, queue, stoppedReason>>

\* A plausible slip: "always" treated as a one-off approval.
ApprovedOnce(d) ==
  /\ pc = "approval"
  /\ pc' = "execute"
  /\ trace' = trace \o <<Asked(Head(queue), d), Ran(Head(queue))>>
  /\ UNCHANGED <<iteration, messages, queue, alwaysApproved, stoppedReason>>

\* requestApproval resolves with "approve" or "approve_always": the tool starts
\* at once, the abort flag is not read again.
Approved(d) ==
  /\ pc = "approval"
  /\ pc' = "execute"
  /\ alwaysApproved' = IF d = "approve_always"
                         THEN alwaysApproved \union {Head(queue).name}
                         ELSE alwaysApproved
  /\ trace' = trace \o <<Asked(Head(queue), d), Ran(Head(queue))>>
  /\ UNCHANGED <<iteration, messages, queue, stoppedReason>>

\* tool.execute settled; a value, an error value and an exception all become
\* one tool message.
ToolSettles ==
  /\ pc = "execute"
  /\ Answer
  /\ UNCHANGED <<iteration, alwaysApproved, aborted, stoppedReason, trace>>

-----------------------------------------------------------------------------
(* The user.                                                                *)

\* A click on the approval card.
UserAnswers ==
  /\ \/ Refused
     \/ \E d \in {"approve", "approve_always"} : Approved(d)
  /\ UNCHANGED aborted

\* A plausible slip: Stop only aborts, and leaves the pending approval alone.
StopWithoutSettling ==
  /\ pc # "done"
  /\ ~aborted
  /\ aborted' = TRUE
  /\ UNCHANGED <<pc, iteration, messages, queue, alwaysApproved,
                 stoppedReason, trace>>

\* The Stop button (ChatPanel's "cancel" message): abort the controller and
\* settle the approval that is pending at this moment with a denial.
Stop ==
  /\ pc # "done"
  /\ aborted' = TRUE
  /\ \/ Refused
     \/ /\ pc # "approval"
        /\ ~aborted
        /\ UNCHANGED <<pc, iteration, messages, queue, alwaysApproved,
                       stoppedReason, trace>>

\* The loop, its provider and its tools.
LoopStep ==
  \/ CheckIteration
  \/ ChatFails
  \/ ChatEmpty
  \/ ChatReplies
  \/ CallsDone
  \/ CallAborted
  \/ CallUnknown
  \/ CallBlocked
  \/ CallPrompt
  \/ PreviewSettles
  \/ CallRun
  \/ ToolSettles

\* The run is over.
Done == pc = "done" /\ UNCHANGED vars

Next == LoopStep \/ UserAnswers \/ Stop \/ Done

Spec == Init /\ [][Next]_vars

\* The host always takes its next step: a provider request settles (it carries
\* the abort signal, and the OpenAI client gives up after its default timeout), a
\* preview reads one file, and bash kills its shell after DEFAULT_BASH_TIMEOUT_MS
\* (a process the shell leaves behind with its output open is not considered).
\* Nothing is assumed of the user.
FairSpec == Spec /\ WF_vars(LoopStep)

-----------------------------------------------------------------------------
(* Properties.                                                              *)

TypeOK ==
  /\ pc \in Places
  /\ iteration \in 0 .. MaxIterations
  /\ messages \in Seq(Message)
  /\ queue \in Seq(Call)
  /\ alwaysApproved \subseteq MutatingTools
  /\ aborted \in BOOLEAN
  /\ stoppedReason \in Reasons
  /\ trace \in Seq(Event)

\* Of a trace t: the event at position i is an answer that lets this call run.
Consents(t, i, call) ==
  /\ t[i].kind = "asked"
  /\ t[i].call = call
  /\ t[i].decision \in {"approve", "approve_always"}

\* Of a trace t: the user approved this tool for the session before position i.
SessionConsent(t, i, tool) ==
  \E j \in 1 .. i - 1 :
    /\ t[j].kind = "asked"
    /\ t[j].call.name = tool
    /\ t[j].decision = "approve_always"

\* The event at position i of t, if it runs a mutating tool, had a reason to.
Justified(t, i) ==
  (t[i].kind = "ran" /\ t[i].call.name \in MutatingTools) =>
    \/ ResolvePolicy(t[i].call) = "allow"
    \/ i > 1 /\ Consents(t, i - 1, t[i].call)
    \/ SessionConsent(t, i, t[i].call.name)

\* The event at position i of t, if it is an answer, had to be asked for.
Needed(t, i) ==
  t[i].kind = "asked" =>
    /\ t[i].call.name \in MutatingTools
    /\ ResolvePolicy(t[i].call) = "prompt"
    /\ ~SessionConsent(t, i, t[i].call.name)

\* A mutating tool runs only if the committed policy allows its command, or the
\* user has just approved that very call, or earlier approved the tool for the
\* session: no interleaving of Stop, previews, unknown tools, recovered calls
\* and repeated ids makes the loop run anything else.
Authorised == \A i \in DOMAIN trace : Justified(trace, i)

\* The user is asked neither about what the policy has settled nor again about a
\* tool they approved for the session (agent.test.ts, "does not re-prompt after
\* approve_always"), nor about a tool that changes nothing.
AskedOnlyIfNeeded == \A i \in DOMAIN trace : Needed(trace, i)

\* A command of the deny list runs only under a session approval of bash: not
\* because the allow list matches it too, nor after an answer about that call
\* alone (agent.test.ts, "deny wins").
DeniedOnlyBySession ==
  \A i \in DOMAIN trace :
    (/\ trace[i].kind = "ran" /\ trace[i].call.name = Bash
     /\ trace[i].call.arg \in DenyCommands \ {NoCommand})
      => SessionConsent(trace, i, Bash)

Assistants == {i \in DOMAIN messages : messages[i].role = "assistant"}

\* The tool messages between assistant message i and the next one.
Results(i) ==
  {j \in i + 1 .. Len(messages) : \A k \in i + 1 .. j : messages[k].role = "tool"}

Unanswered(i) ==
  messages[i].calls \ UNION {messages[j].calls : j \in Results(i)}

\* A tool message answers a call of the assistant message it follows, and no
\* call is answered twice.
ResultsAnswerTheirTurn ==
  /\ messages # << >> => 1 \in Assistants
  /\ \A i \in Assistants : \A j \in Results(i) :
       /\ messages[j].calls \subseteq messages[i].calls
       /\ \A k \in Results(i) \ {j} : messages[k].calls \cap messages[j].calls = {}

\* A transcript goes to the provider, or comes back from a run that was not
\* stopped, only with every tool call answered: the APIs reject any other.
RequestsAreAnswered ==
  (pc = "chat" \/ stoppedReason \in {"completed", "iteration_limit", "error"})
    => \A i \in Assistants : Unanswered(i) = {}

\* Once the user has hit Stop, a tool starts only as the direct answer to a
\* request on screen: neither a safe tool, a session approval nor a policy
\* "allow" runs anything further.
StoppedRunsOnlyAnswers ==
  [][(aborted /\ Len(trace') > Len(trace)) => pc = "approval"]_vars

\* A stopped run ends by itself, whatever the user does next -- unless it was
\* stopped around the preview of a tool that has one.
StopSettles ==
  (aborted /\ ~(pc \in {"preview", "approval"} /\ Head(queue).name \in PreviewTools))
    ~> (pc = "done")

\* A run ends unless the user leaves a request unanswered for ever: the iteration
\* cap is effective, and nothing but the user keeps a turn from ending.
Terminates == []<>(pc # "approval") => <>(pc = "done")

-----------------------------------------------------------------------------
(* The approval gate the loop implements.                                   *)

NoCall == [none |-> "none"]
GateToolOf(call) == call.name
GateGuarded(call) == call.name \in MutatingTools /\ ResolvePolicy(call) # "allow"

Gate == INSTANCE ApprovalGate WITH
  ToolOf <- GateToolOf,
  Guarded <- GateGuarded,
  asking <- IF pc = "approval" THEN Head(queue) ELSE NoCall,
  consent <- alwaysApproved,
  log <- trace,
  open <- pc # "done"

\* Every run of the loop is a behaviour of the approval gate.
ImplementsGate == Gate!Spec

-----------------------------------------------------------------------------
(* What the documentation says, and the code does not do: one a run refutes, *)
(* the others TLC refutes when a cfg names them (README.md).                 *)

\* policy.ts:29: "Commands matching any of these are blocked outright (deny
\* wins)" -- also after the user approved bash for the session.
DenyWins ==
  \A i \in DOMAIN trace :
    (trace[i].kind = "ran" /\ trace[i].call.name = Bash
       /\ trace[i].call.arg # NoCommand)
      => trace[i].call.arg \notin DenyCommands

\* README.md:39: "Hit Stop to cancel a run." -- no tool starts afterwards.
NothingRunsAfterStop ==
  [][(aborted /\ Len(trace') > Len(trace)) => trace'[Len(trace')].kind # "ran"]_vars

\* chatPanel.ts:577: Stop settles any awaiting approvals "so the loop unblocks",
\* without waiting for the user.
StopUnblocks == aborted ~> (pc = "done")

=============================================================================
