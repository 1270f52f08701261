----------------------------- MODULE AgentProofs -----------------------------
(***************************************************************************)
(* What holds of agent turns for every set of tools, every policy, every    *)
(* model, every set of files and any number of turns: of the loop           *)
(* (AgentLoop), of the transcript kept between turns (AgentHistory), and of  *)
(* the undo (AgentCheckpoint).                                               *)
(***************************************************************************)
EXTENDS AgentLoop, AgentHistory, AgentCheckpoint, ScanProofs

-----------------------------------------------------------------------------
(* Shapes of replies.                                                       *)

\* A finite function into Call is a sequence of calls, and its ids are ids.
LEMMA CallSeq ==
  ASSUME NEW n \in 0 .. MaxCalls, NEW f \in [1 .. n -> Call]
  PROVE  f \in Seq(Call) /\ IdsOf(f) \subseteq Id
<1>1. n \in Nat
  BY LoopAssumption
<1>2. f \in Seq(Call)
  BY <1>1
<1>3. \A k \in DOMAIN f : f[k].id \in Id
  BY DEF Call
<1>4. QED
  BY <1>2, <1>3 DEF IdsOf

\* A reply of the model turns into a sequence of well-formed calls and a set of
\* ids, whether it was structured or recovered from the content.
LEMMA StructuredType ==
  ASSUME NEW shapes \in ShapeSeqs(Shapes), iteration \in 0 .. MaxIterations,
         iteration < MaxIterations
  PROVE  /\ Structured(shapes) \in Seq(Call)
         /\ IdsOf(Structured(shapes)) \subseteq Id
<1> USE LoopAssumption
<1>1. PICK n \in 0 .. MaxCalls : shapes \in [1 .. n -> Shapes]
  BY DEF ShapeSeqs
<1>2. Structured(shapes) \in [1 .. n -> Call]
  BY <1>1 DEF Structured, Call, Id
<1>3. QED
  BY <1>2, CallSeq

\* The same of calls recovered from the content.
LEMMA RecoveredType ==
  ASSUME NEW shapes \in ShapeSeqs(KnownShapes)
  PROVE  /\ Recovered(shapes) \in Seq(Call)
         /\ IdsOf(Recovered(shapes)) \subseteq Id
<1> USE LoopAssumption
<1>1. PICK n \in 0 .. MaxCalls : shapes \in [1 .. n -> KnownShapes]
  BY DEF ShapeSeqs
<1>2. Recovered(shapes) \in [1 .. n -> Call]
  BY <1>1 DEF Recovered, Call, Id, KnownShapes
<1>3. QED
  BY <1>2, CallSeq

\* The ids of entries that are not function calls are ids too.
LEMMA ForeignType ==
  ASSUME NEW shapes \in ShapeSeqs(Shapes), NEW m \in 0 .. MaxForeign,
         iteration \in 0 .. MaxIterations, iteration < MaxIterations
  PROVE  ForeignIds(Len(shapes), m) \subseteq Id
<1>1. PICK n \in 0 .. MaxCalls : shapes \in [1 .. n -> Shapes]
  BY DEF ShapeSeqs
<1>2. Len(shapes) = n
  BY <1>1, LoopAssumption
<1>3. QED
  BY <1>2, LoopAssumption DEF ForeignIds, Id

-----------------------------------------------------------------------------
(* The inductive invariant.                                                 *)

\* What the place of the loop says about its other variables.
PcInv ==
  /\ pc \in {"chat", "calls", "preview", "approval", "execute"}
       => iteration < MaxIterations
  /\ pc \in {"preview", "approval", "execute"} => queue # << >>
  /\ pc \in {"preview", "approval"} =>
       /\ Gated(Head(queue))
       /\ ResolvePolicy(Head(queue)) = "prompt"

\* alwaysApproved is the memory of the session approvals given so far.
SessionInv ==
  \A tool \in Names :
    tool \in alwaysApproved <=> SessionConsent(trace, Len(trace) + 1, tool)

IInv == TypeOK /\ PcInv /\ SessionInv /\ Authorised /\ AskedOnlyIfNeeded

\* A run begins in the invariant.
LEMMA InitIInv == Init => IInv
<1> SUFFICES ASSUME Init PROVE IInv
  OBVIOUS
<1> USE LoopAssumption DEF Init
<1>1. TypeOK
  <2>1. /\ messages \in Seq(Message)
        /\ queue \in Seq(Call)
        /\ trace \in Seq(Event)
    OBVIOUS
  <2>2. iteration \in 0 .. MaxIterations
    OBVIOUS
  <2>3. QED
    BY <2>1, <2>2 DEF TypeOK, Places, Reasons
<1>2. PcInv
  BY DEF PcInv
<1>3. SessionInv
  <2>1. Len(trace) = 0
    OBVIOUS
  <2>2. \A tool : ~SessionConsent(trace, Len(trace) + 1, tool)
    BY <2>1 DEF SessionConsent
  <2>3. QED
    BY <2>2 DEF SessionInv
<1>4. Authorised /\ AskedOnlyIfNeeded
  BY DEF Authorised, AskedOnlyIfNeeded
<1>5. QED
  BY <1>1, <1>2, <1>3, <1>4 DEF IInv

\* The head of a non-empty queue is a call, and the rest is a queue.
LEMMA HeadIsCall ==
  ASSUME TypeOK, queue # << >>
  PROVE  Head(queue) \in Call /\ Tail(queue) \in Seq(Call)
BY DEF TypeOK

\* Answering the head keeps the types.
LEMMA AnswerType ==
  ASSUME TypeOK, queue # << >>, Answer
  PROVE  messages' \in Seq(Message) /\ queue' \in Seq(Call) /\ pc' \in Places
<1>1. Head(queue) \in Call /\ Tail(queue) \in Seq(Call)
  BY HeadIsCall
<1>2. ToolMessage(Head(queue)) \in Message
  BY <1>1 DEF ToolMessage, Message, Call
<1>3. QED
  BY <1>1, <1>2 DEF Answer, TypeOK, Places

\* The events the loop records are events.
LEMMA EventType ==
  ASSUME NEW call \in Call, NEW d \in Decision
  PROVE  Asked(call, d) \in Event /\ Ran(call) \in Event
BY DEF Asked, Ran, Event, Decision

\* Taking the calls of a reply keeps the types.
LEMMA TakeCallsType ==
  ASSUME TypeOK, NEW calls \in Seq(Call), NEW ids \in SUBSET Id,
         TakeCalls(calls, ids)
  PROVE  TypeOK'
<1>1. AssistantMessage(ids) \in Message
  BY DEF AssistantMessage, Message
<1>2. QED
  BY <1>1 DEF TakeCalls, Finish, TypeOK, Places, Reasons

\* The types are preserved by every step.
LEMMA TypeStep == TypeOK /\ PcInv /\ [Next]_vars => TypeOK'
<1> SUFFICES ASSUME TypeOK, PcInv, [Next]_vars PROVE TypeOK'
  OBVIOUS
<1> USE LoopAssumption
<1>1. CASE CheckIteration
  BY <1>1 DEF CheckIteration, Finish, TypeOK, Places, Reasons
<1>2. CASE ChatFails \/ ChatEmpty
  BY <1>2 DEF ChatFails, ChatEmpty, Finish, TypeOK, Places, Reasons
<1>3. CASE ChatReplies
  <2>0. iteration \in 0 .. MaxIterations /\ iteration < MaxIterations
    BY <1>3 DEF ChatReplies, PcInv, TypeOK
  <2>1. PICK foreign \in 0 .. MaxForeign :
          \/ \E shapes \in ShapeSeqs(Shapes) :
               TakeCalls(Structured(shapes),
                         IdsOf(Structured(shapes)) \union ForeignIds(Len(shapes), foreign))
          \/ \E shapes \in ShapeSeqs(KnownShapes) \ {<< >>} :
               TakeCalls(Recovered(shapes), IdsOf(Recovered(shapes)))
    BY <1>3 DEF ChatReplies
  <2>2. ASSUME NEW shapes \in ShapeSeqs(Shapes),
               TakeCalls(Structured(shapes),
                         IdsOf(Structured(shapes)) \union ForeignIds(Len(shapes), foreign))
        PROVE  TypeOK'
    BY <2>0, <2>2, StructuredType, ForeignType, TakeCallsType
  <2>3. ASSUME NEW shapes \in ShapeSeqs(KnownShapes),
               TakeCalls(Recovered(shapes), IdsOf(Recovered(shapes)))
        PROVE  TypeOK'
    BY <2>3, RecoveredType, TakeCallsType
  <2>4. QED
    BY <2>1, <2>2, <2>3
<1>4. CASE CallsDone
  <2>1. iteration < MaxIterations
    BY <1>4 DEF CallsDone, PcInv
  <2>2. iteration + 1 \in 0 .. MaxIterations
    BY <2>1 DEF TypeOK
  <2>3. QED
    BY <1>4, <2>2 DEF CallsDone, TypeOK, Places
<1>5. CASE CallAborted
  BY <1>5 DEF CallAborted, Finish, TypeOK, Places, Reasons
<1>6. CASE CallUnknown \/ CallBlocked
  <2>1. queue # << >> /\ Answer
    BY <1>6 DEF CallUnknown, CallBlocked, NextCall
  <2>2. QED
    BY <1>6, <2>1, AnswerType DEF CallUnknown, CallBlocked, TypeOK
<1>7. CASE CallPrompt \/ PreviewSettles
  BY <1>7 DEF CallPrompt, PreviewSettles, TypeOK, Places
<1>8. CASE CallRun
  <2>1. Head(queue) \in Call
    BY <1>8, HeadIsCall DEF CallRun, NextCall
  <2>2. Ran(Head(queue)) \in Event
    BY <2>1, EventType DEF Decision
  <2>3. QED
    BY <1>8, <2>2 DEF CallRun, TypeOK, Places
<1>9. CASE ToolSettles
  <2>1. queue # << >> /\ Answer
    BY <1>9 DEF ToolSettles, PcInv
  <2>2. QED
    BY <1>9, <2>1, AnswerType DEF ToolSettles, TypeOK
<1>10. ASSUME Refused, aborted' \in BOOLEAN
       PROVE  TypeOK'
  <2>1. queue # << >> /\ Answer
    BY <1>10 DEF Refused, PcInv
  <2>2. Asked(Head(queue), "deny") \in Event
    BY <2>1, HeadIsCall, EventType DEF Decision
  <2>3. trace' \in Seq(Event)
    BY <1>10, <2>2 DEF Refused, TypeOK
  <2>4. QED
    BY <1>10, <2>1, <2>3, AnswerType DEF Refused, TypeOK
<1>11. ASSUME NEW d \in {"approve", "approve_always"}, Approved(d), UNCHANGED aborted
       PROVE  TypeOK'
  <2>1. Head(queue) \in Call /\ Head(queue).name \in MutatingTools
    BY <1>11, HeadIsCall DEF Approved, PcInv, Gated
  <2>2. Asked(Head(queue), d) \in Event /\ Ran(Head(queue)) \in Event
    BY <2>1, EventType DEF Decision
  <2>3. trace' \in Seq(Event)
    BY <1>11, <2>2 DEF Approved, TypeOK
  <2>4. alwaysApproved' \subseteq MutatingTools
    BY <1>11, <2>1 DEF Approved, TypeOK
  <2>5. QED
    BY <1>11, <2>3, <2>4 DEF Approved, TypeOK, Places
<1>12. CASE Stop
  <2>1. CASE Refused
    BY <1>10, <1>12, <2>1 DEF Stop
  <2>2. CASE ~Refused
    BY <1>12, <2>2 DEF Stop, TypeOK
  <2>3. QED
    BY <2>1, <2>2
<1>13. CASE UserAnswers
  BY <1>10, <1>11, <1>13 DEF UserAnswers, TypeOK
<1>14. CASE UNCHANGED vars
  BY <1>14 DEF vars, TypeOK
<1>15. QED
  BY <1>1, <1>2, <1>3, <1>4, <1>5, <1>6, <1>7, <1>8, <1>9, <1>12, <1>13, <1>14
     DEF Next, LoopStep, Done

-----------------------------------------------------------------------------
(* The place of the loop, the session approvals and the trace.              *)

\* Every step keeps what the place of the loop says.
LEMMA PcStep == TypeOK /\ PcInv /\ [Next]_vars => PcInv'
<1> SUFFICES ASSUME TypeOK, PcInv, [Next]_vars PROVE PcInv'
  OBVIOUS
<1> USE DEF PcInv
<1>1. CASE CheckIteration
  BY <1>1 DEF CheckIteration, Finish
<1>2. CASE ChatFails \/ ChatEmpty \/ CallAborted
  BY <1>2 DEF ChatFails, ChatEmpty, CallAborted, Finish
<1>3. CASE ChatReplies
  BY <1>3 DEF ChatReplies, TakeCalls, Finish
<1>4. CASE CallsDone
  BY <1>4 DEF CallsDone
<1>5. CASE CallUnknown \/ CallBlocked
  BY <1>5 DEF CallUnknown, CallBlocked, NextCall, Answer
<1>6. CASE CallPrompt \/ PreviewSettles
  BY <1>6 DEF CallPrompt, PreviewSettles, NextCall, Gated
<1>7. CASE CallRun
  BY <1>7 DEF CallRun, NextCall
<1>8. CASE ToolSettles
  BY <1>8 DEF ToolSettles, Answer
<1>9. CASE Refused
  BY <1>9 DEF Refused, Answer
<1>10. ASSUME NEW d, Approved(d) PROVE PcInv'
  BY <1>10 DEF Approved
<1>11. CASE Stop
  BY <1>9, <1>11 DEF Stop, Gated
<1>12. CASE UserAnswers
  BY <1>9, <1>10, <1>12 DEF UserAnswers
<1>13. CASE UNCHANGED vars
  BY <1>13 DEF vars, Gated
<1>14. QED
  BY <1>1, <1>2, <1>3, <1>4, <1>5, <1>6, <1>7, <1>8, <1>11, <1>12, <1>13
     DEF Next, LoopStep, Done

\* The past of a trace is not changed by what is appended to it.
LEMMA PastKept ==
  ASSUME NEW t \in Seq(Event), NEW extra \in Seq(Event)
  PROVE  /\ t \o extra \in Seq(Event)
         /\ Len(t) \in Nat /\ DOMAIN t = 1 .. Len(t)
         /\ Len(t \o extra) = Len(t) + Len(extra)
         /\ DOMAIN (t \o extra) = 1 .. Len(t) + Len(extra)
         /\ \A i \in 1 .. Len(t) : (t \o extra)[i] = t[i]
         /\ \A i \in 1 .. Len(extra) : (t \o extra)[Len(t) + i] = extra[i]
OBVIOUS

\* A session approval stays one when the trace grows.
LEMMA ConsentKept ==
  ASSUME NEW t \in Seq(Event), NEW extra \in Seq(Event),
         NEW i \in 1 .. Len(t) + 1, NEW tool
  PROVE  SessionConsent(t \o extra, i, tool) <=> SessionConsent(t, i, tool)
<1>1. \A j \in 1 .. i - 1 : (t \o extra)[j] = t[j]
  BY PastKept
<1>2. QED
  BY <1>1 DEF SessionConsent

\* One more event: what is consented to before it, and after it.
LEMMA OneMore ==
  ASSUME NEW t \in Seq(Event), NEW e \in Event
  PROVE  /\ t \o <<e>> \in Seq(Event)
         /\ Len(t \o <<e>>) = Len(t) + 1
         /\ (t \o <<e>>)[Len(t) + 1] = e
         /\ DOMAIN (t \o <<e>>) = (1 .. Len(t)) \union {Len(t) + 1}
         /\ \A tool : SessionConsent(t \o <<e>>, Len(t) + 1, tool)
                       <=> SessionConsent(t, Len(t) + 1, tool)
         /\ \A tool : SessionConsent(t \o <<e>>, Len(t) + 2, tool)
                       <=> \/ SessionConsent(t, Len(t) + 1, tool)
                           \/ /\ e.kind = "asked"
                              /\ e.call.name = tool
                              /\ e.decision = "approve_always"
<1>1. /\ <<e>> \in Seq(Event) /\ Len(<<e>>) = 1 /\ <<e>>[1] = e
      /\ Len(t) \in Nat
  OBVIOUS
<1> DEFINE u == t \o <<e>>
<1>2. /\ u \in Seq(Event)
      /\ Len(u) = Len(t) + 1
      /\ u[Len(t) + 1] = e
      /\ DOMAIN u = (1 .. Len(t)) \union {Len(t) + 1}
      /\ \A i \in 1 .. Len(t) : u[i] = t[i]
  BY <1>1, PastKept
<1> HIDE DEF u
<1>3. ASSUME NEW tool
      PROVE  SessionConsent(u, Len(t) + 1, tool) <=> SessionConsent(t, Len(t) + 1, tool)
  BY <1>1, <1>2 DEF SessionConsent
<1>4. ASSUME NEW tool
      PROVE  SessionConsent(u, Len(t) + 2, tool) <=>
               \/ SessionConsent(t, Len(t) + 1, tool)
               \/ /\ e.kind = "asked"
                  /\ e.call.name = tool
                  /\ e.decision = "approve_always"
  <2>1. /\ 1 .. (Len(t) + 2) - 1 = (1 .. Len(t)) \union {Len(t) + 1}
        /\ 1 .. (Len(t) + 1) - 1 = 1 .. Len(t)
    BY <1>1
  <2>2. QED
    BY <1>2, <2>1 DEF SessionConsent
<1>5. QED
  BY <1>2, <1>3, <1>4 DEF u

\* An event that was justified, or needed, stays so.
LEMMA PastJustified ==
  ASSUME NEW t \in Seq(Event), NEW extra \in Seq(Event), NEW i \in 1 .. Len(t)
  PROVE  /\ Justified(t, i) => Justified(t \o extra, i)
         /\ Needed(t, i) => Needed(t \o extra, i)
<1>1. /\ (t \o extra)[i] = t[i]
      /\ i > 1 => (t \o extra)[i - 1] = t[i - 1]
  BY PastKept
<1>2. \A tool : SessionConsent(t \o extra, i, tool) <=> SessionConsent(t, i, tool)
  BY PastKept, ConsentKept
<1>3. Justified(t, i) => Justified(t \o extra, i)
  BY <1>1, <1>2 DEF Justified, Consents
<1>4. Needed(t, i) => Needed(t \o extra, i)
  BY <1>1, <1>2 DEF Needed
<1>5. QED
  BY <1>3, <1>4

\* The trace obeys the gate: what ran was justified, what was asked was needed.
Good(t) == \A i \in DOMAIN t : Justified(t, i) /\ Needed(t, i)

\* A good trace stays good when an event is added that is justified and needed
\* at its place.
LEMMA GoodExtended ==
  ASSUME NEW t \in Seq(Event), NEW e \in Event, Good(t),
         Justified(t \o <<e>>, Len(t) + 1), Needed(t \o <<e>>, Len(t) + 1)
  PROVE  Good(t \o <<e>>)
<1>1. <<e>> \in Seq(Event) /\ DOMAIN t = 1 .. Len(t)
  OBVIOUS
<1>2. ASSUME NEW i \in 1 .. Len(t)
      PROVE  Justified(t \o <<e>>, i) /\ Needed(t \o <<e>>, i)
  BY <1>1, PastJustified DEF Good
<1>3. DOMAIN (t \o <<e>>) = (1 .. Len(t)) \union {Len(t) + 1}
  BY OneMore
<1>4. QED
  BY <1>2, <1>3 DEF Good

\* A call that needs no consent of its own runs.
LEMMA RanGood ==
  ASSUME NEW t \in Seq(Event), NEW c \in Call, Good(t),
         c.name \in MutatingTools =>
           ResolvePolicy(c) = "allow" \/ SessionConsent(t, Len(t) + 1, c.name)
  PROVE  /\ Good(t \o <<Ran(c)>>)
         /\ \A tool : SessionConsent(t \o <<Ran(c)>>, Len(t) + 2, tool)
                       <=> SessionConsent(t, Len(t) + 1, tool)
<1>1. /\ Ran(c) \in Event /\ Ran(c).kind = "ran" /\ Ran(c).call = c
  BY EventType DEF Decision, Ran
<1> HIDE DEF Ran
<1>2. \A tool : SessionConsent(t \o <<Ran(c)>>, Len(t) + 1, tool)
                <=> SessionConsent(t, Len(t) + 1, tool)
  BY <1>1, OneMore
<1>3. (t \o <<Ran(c)>>)[Len(t) + 1] = Ran(c)
  BY <1>1, OneMore
<1>4. Justified(t \o <<Ran(c)>>, Len(t) + 1) /\ Needed(t \o <<Ran(c)>>, Len(t) + 1)
  BY <1>1, <1>2, <1>3 DEF Justified, Needed
<1>5. QED
  BY <1>1, <1>4, OneMore, GoodExtended

\* The user answers a request that had to be put to them.
LEMMA AskedGood ==
  ASSUME NEW t \in Seq(Event), NEW c \in Call, NEW d \in Decision, Good(t),
         c.name \in MutatingTools, ResolvePolicy(c) = "prompt",
         ~SessionConsent(t, Len(t) + 1, c.name)
  PROVE  /\ Good(t \o <<Asked(c, d)>>)
         /\ \A tool : SessionConsent(t \o <<Asked(c, d)>>, Len(t) + 2, tool)
                       <=> \/ SessionConsent(t, Len(t) + 1, tool)
                           \/ c.name = tool /\ d = "approve_always"
<1>1. /\ Asked(c, d) \in Event /\ Asked(c, d).kind = "asked"
      /\ Asked(c, d).call = c /\ Asked(c, d).decision = d
  BY EventType DEF Asked
<1>2. \A tool : SessionConsent(t \o <<Asked(c, d)>>, Len(t) + 1, tool)
                <=> SessionConsent(t, Len(t) + 1, tool)
  BY <1>1, OneMore
<1>3. (t \o <<Asked(c, d)>>)[Len(t) + 1] = Asked(c, d)
  BY <1>1, OneMore
<1>4. /\ Justified(t \o <<Asked(c, d)>>, Len(t) + 1)
      /\ Needed(t \o <<Asked(c, d)>>, Len(t) + 1)
  BY <1>1, <1>2, <1>3 DEF Justified, Needed
<1>5. QED
  BY <1>1, <1>4, OneMore, GoodExtended

\* ... and, having approved, lets the call run.
LEMMA ApprovedGood ==
  ASSUME NEW t \in Seq(Event), NEW c \in Call,
         NEW d \in {"approve", "approve_always"}, Good(t),
         c.name \in MutatingTools, ResolvePolicy(c) = "prompt",
         ~SessionConsent(t, Len(t) + 1, c.name)
  PROVE  /\ Good(t \o <<Asked(c, d), Ran(c)>>)
         /\ \A tool : SessionConsent(t \o <<Asked(c, d), Ran(c)>>, Len(t) + 3, tool)
                       <=> \/ SessionConsent(t, Len(t) + 1, tool)
                           \/ c.name = tool /\ d = "approve_always"
<1>1. PICK u : u = t \o <<Asked(c, d)>>
  OBVIOUS
<1>2. Asked(c, d) \in Event /\ Ran(c) \in Event /\ d \in Decision
  BY EventType DEF Decision
<1>3. /\ u \in Seq(Event) /\ Len(u) = Len(t) + 1 /\ Len(t) \in Nat
      /\ u[Len(u)] = Asked(c, d)
  BY <1>1, <1>2, OneMore
<1>4. t \o <<Asked(c, d), Ran(c)>> = u \o <<Ran(c)>>
  BY <1>1, <1>2
<1>5. Good(u) /\ \A tool : SessionConsent(u, Len(u) + 1, tool)
                 <=> \/ SessionConsent(t, Len(t) + 1, tool)
                     \/ c.name = tool /\ d = "approve_always"
  <2>1. Len(u) + 1 = Len(t) + 2
    BY <1>3
  <2>2. QED
    BY <1>1, <1>2, <2>1, AskedGood
<1>6. PICK w : w = u \o <<Ran(c)>>
  OBVIOUS
<1>7. /\ w[Len(u) + 1] = Ran(c) /\ Len(w) = Len(u) + 1
      /\ w[Len(u)] = Asked(c, d)
      /\ \A tool : SessionConsent(w, Len(u) + 2, tool)
                    <=> SessionConsent(u, Len(u) + 1, tool)
  <2>1. <<Ran(c)>> \in Seq(Event) /\ Len(u) \in 1 .. Len(u)
    BY <1>2, <1>3
  <2>2. w[Len(u)] = u[Len(u)]
    BY <1>3, <1>6, <2>1, PastKept
  <2>3. Ran(c).kind = "ran"
    BY DEF Ran
  <2>4. QED
    BY <1>2, <1>3, <1>6, <2>2, <2>3, OneMore
<1>8. Justified(w, Len(u) + 1) /\ Needed(w, Len(u) + 1)
  <2>1. Len(u) + 1 > 1 /\ (Len(u) + 1) - 1 = Len(u)
    BY <1>3
  <2>2. /\ Ran(c).kind = "ran" /\ Ran(c).call = c
        /\ Asked(c, d).kind = "asked" /\ Asked(c, d).call = c
        /\ Asked(c, d).decision = d
    BY DEF Ran, Asked
  <2>3. Consents(w, Len(u), c)
    BY <1>7, <2>2 DEF Consents
  <2>4. QED
    BY <1>7, <2>1, <2>2, <2>3 DEF Justified, Needed
<1>9. Good(w)
  BY <1>2, <1>3, <1>5, <1>6, <1>8, GoodExtended
<1>10. Len(t) + 3 = Len(u) + 2
  BY <1>3
<1>11. QED
  BY <1>4, <1>5, <1>6, <1>7, <1>9, <1>10

\* The call at the head of the queue while the user is being asked about it.
LEMMA AskedCall ==
  ASSUME TypeOK, PcInv, SessionInv, pc = "approval"
  PROVE  /\ Head(queue) \in Call
         /\ Head(queue).name \in MutatingTools
         /\ ResolvePolicy(Head(queue)) = "prompt"
         /\ ~SessionConsent(trace, Len(trace) + 1, Head(queue).name)
<1>1. Head(queue) \in Call /\ Gated(Head(queue)) /\ ResolvePolicy(Head(queue)) = "prompt"
  BY HeadIsCall DEF PcInv
<1>2. Head(queue).name \in Names
  BY <1>1 DEF Call
<1>3. QED
  BY <1>1, <1>2 DEF Gated, SessionInv

\* Good is what the two invariants say of a trace.
LEMMA GoodTrace == Good(trace) <=> Authorised /\ AskedOnlyIfNeeded
BY DEF Good, Authorised, AskedOnlyIfNeeded

\* The same after a step.
LEMMA GoodTraceNext == Good(trace') <=> Authorised' /\ AskedOnlyIfNeeded'
BY DEF Good, Authorised, AskedOnlyIfNeeded

\* The trace and the session approvals, step by step.
LEMMA TraceStep ==
  IInv /\ [Next]_vars => SessionInv' /\ Good(trace')
<1> SUFFICES ASSUME IInv, [Next]_vars
             PROVE  SessionInv' /\ Good(trace')
  OBVIOUS
<1>0. TypeOK /\ PcInv /\ SessionInv /\ Good(trace)
  BY GoodTrace DEF IInv
<1>1. trace \in Seq(Event) /\ Len(trace) \in Nat
  BY <1>0 DEF TypeOK
<1>2. CASE UNCHANGED <<trace, alwaysApproved>>
  BY <1>0, <1>2 DEF SessionInv
<1>3. CASE CallRun
  <2>1. PICK c : c = Head(queue)
    OBVIOUS
  <2>2. c \in Call /\ c.name \in Names /\ Ran(c) \in Event
    BY <1>0, <1>3, <2>1, HeadIsCall, EventType DEF CallRun, NextCall, Call, Decision
  <2>3. trace' = trace \o <<Ran(c)>> /\ alwaysApproved' = alwaysApproved
    BY <1>1, <1>3, <2>1 DEF CallRun
  <2>4. c.name \in MutatingTools =>
          ResolvePolicy(c) = "allow" \/ SessionConsent(trace, Len(trace) + 1, c.name)
    BY <1>0, <1>3, <2>1, <2>2 DEF CallRun, Gated, SessionInv
  <2>5. /\ Good(trace')
        /\ \A tool : SessionConsent(trace', Len(trace) + 2, tool)
                      <=> SessionConsent(trace, Len(trace) + 1, tool)
    BY <1>0, <1>1, <2>2, <2>3, <2>4, RanGood
  <2>6. Len(trace') + 1 = Len(trace) + 2
    BY <1>1, <2>2, <2>3
  <2>7. QED
    BY <1>0, <2>3, <2>5, <2>6 DEF SessionInv
<1>4. CASE Refused
  <2>1. PICK c : c = Head(queue)
    OBVIOUS
  <2>2. /\ c \in Call
        /\ c.name \in MutatingTools
        /\ ResolvePolicy(c) = "prompt"
        /\ ~SessionConsent(trace, Len(trace) + 1, c.name)
    BY <1>0, <1>4, <2>1, AskedCall DEF Refused
  <2>3. Asked(c, "deny") \in Event /\ "deny" \in Decision
    BY <2>2, EventType DEF Decision
  <2>4. trace' = trace \o <<Asked(c, "deny")>> /\ alwaysApproved' = alwaysApproved
    BY <1>1, <1>4, <2>1, <2>3 DEF Refused
  <2>5. /\ Good(trace')
        /\ \A tool : SessionConsent(trace', Len(trace) + 2, tool)
                      <=> SessionConsent(trace, Len(trace) + 1, tool)
    BY <1>0, <1>1, <2>2, <2>3, <2>4, AskedGood
  <2>6. Len(trace') + 1 = Len(trace) + 2
    BY <1>1, <2>3, <2>4
  <2>7. QED
    BY <1>0, <2>4, <2>5, <2>6 DEF SessionInv
<1>5. ASSUME NEW d \in {"approve", "approve_always"}, Approved(d)
      PROVE  SessionInv' /\ Good(trace')
  <2>1. PICK c : c = Head(queue)
    OBVIOUS
  <2>2. /\ c \in Call
        /\ c.name \in MutatingTools
        /\ ResolvePolicy(c) = "prompt"
        /\ ~SessionConsent(trace, Len(trace) + 1, c.name)
    BY <1>0, <1>5, <2>1, AskedCall DEF Approved
  <2>3. Asked(c, d) \in Event /\ Ran(c) \in Event
    BY <2>2, EventType DEF Decision
  <2>4. trace' = trace \o <<Asked(c, d), Ran(c)>>
    BY <1>1, <1>5, <2>1, <2>3 DEF Approved
  <2>5. alwaysApproved' = IF d = "approve_always"
                            THEN alwaysApproved \union {c.name}
                            ELSE alwaysApproved
    BY <1>5, <2>1 DEF Approved
  <2>6. /\ Good(trace')
        /\ \A tool : SessionConsent(trace', Len(trace) + 3, tool)
                      <=> \/ SessionConsent(trace, Len(trace) + 1, tool)
                          \/ c.name = tool /\ d = "approve_always"
    BY <1>0, <1>1, <2>2, <2>4, ApprovedGood
  <2>7. Len(trace') + 1 = Len(trace) + 3
    BY <1>1, <2>3, <2>4
  <2>8. QED
    BY <1>0, <2>5, <2>6, <2>7 DEF SessionInv
<1>6. CASE Stop
  BY <1>2, <1>4, <1>6 DEF Stop
<1>7. CASE UserAnswers
  BY <1>4, <1>5, <1>7 DEF UserAnswers
<1>8. CASE UNCHANGED vars
  BY <1>2, <1>8 DEF vars
<1>9. CASE LoopStep
  BY <1>2, <1>3, <1>9
     DEF LoopStep, CheckIteration, ChatFails, ChatEmpty, ChatReplies, TakeCalls,
         CallsDone, CallAborted, CallUnknown, CallBlocked, CallPrompt,
         PreviewSettles, ToolSettles
<1>10. QED
  BY <1>6, <1>7, <1>8, <1>9 DEF Next, Done

\* The inductive invariant holds in every run.
LEMMA Invariance == Spec => []IInv
<1>1. Init => IInv
  BY InitIInv
<1>2. IInv /\ [Next]_vars => IInv'
  BY TypeStep, PcStep, TraceStep, GoodTraceNext DEF IInv
<1>3. QED
  BY <1>1, <1>2, PTL DEF Spec

-----------------------------------------------------------------------------
(* Theorems.                                                                *)

\* The variables keep their types: the transcript holds well-formed messages,
\* the round-trip counter stays within the cap (loop.ts:123-268).
THEOREM TypeCorrect == Spec => []TypeOK
<1>1. IInv => TypeOK
  BY DEF IInv
<1>2. QED
  BY <1>1, Invariance, PTL

\* Whatever the model asks for and however the user, Stop and the previews
\* interleave, a mutating tool runs only with the policy's or the user's consent
\* (loop.ts:204-250).
THEOREM Authorisation == Spec => []Authorised
<1>1. IInv => Authorised
  BY DEF IInv
<1>2. QED
  BY <1>1, Invariance, PTL

\* The user is never asked again about a tool they approved for the session, nor
\* about what the policy settles (loop.ts:204-248).
THEOREM NoNeedlessPrompt == Spec => []AskedOnlyIfNeeded
<1>1. IInv => AskedOnlyIfNeeded
  BY DEF IInv
<1>2. QED
  BY <1>1, Invariance, PTL

\* A command of the deny list runs only under a session approval of bash, whatever
\* the allow list says and whatever the user answered about that call: an answer
\* is asked for only where the policy says "prompt" (loop.ts:204-248, policy.ts:69-91).
THEOREM DenyList == Spec => []DeniedOnlyBySession
<1>1. TypeOK /\ Authorised /\ AskedOnlyIfNeeded => DeniedOnlyBySession
  <2> SUFFICES ASSUME TypeOK, Authorised, AskedOnlyIfNeeded,
                      NEW i \in DOMAIN trace,
                      trace[i].kind = "ran", trace[i].call.name = Bash,
                      trace[i].call.arg \in DenyCommands \ {NoCommand}
               PROVE  SessionConsent(trace, i, Bash)
    BY DEF DeniedOnlyBySession
  <2>1. ResolvePolicy(trace[i].call) = "deny"
    BY DEF ResolvePolicy
  <2>2. trace[i].call.name \in MutatingTools /\ Justified(trace, i)
    BY LoopAssumption DEF Authorised
  <2>3. ASSUME i > 1, Consents(trace, i - 1, trace[i].call)
        PROVE  FALSE
    <3>1. i - 1 \in DOMAIN trace
      BY <2>3 DEF TypeOK
    <3>2. ResolvePolicy(trace[i].call) = "prompt"
      BY <3>1, <2>3 DEF AskedOnlyIfNeeded, Needed, Consents
    <3>3. QED
      BY <2>1, <3>2
  <2>4. QED
    BY <2>1, <2>2, <2>3 DEF Justified
<1>2. IInv => TypeOK /\ Authorised /\ AskedOnlyIfNeeded
  BY DEF IInv
<1>3. QED
  BY <1>1, <1>2, Invariance, PTL

\* After Stop a tool can only start from the approval card (loop.ts:124, 191).
THEOREM StopGuards == Spec => StoppedRunsOnlyAnswers
<1>1. TypeOK /\ [Next]_vars
        => [(aborted /\ Len(trace') > Len(trace)) => pc = "approval"]_vars
  <2> SUFFICES ASSUME TypeOK, [Next]_vars, aborted, pc # "approval"
               PROVE  ~(Len(trace') > Len(trace))
    BY DEF vars
  <2>1. UNCHANGED trace
    BY DEF Next, vars, Done, LoopStep, CheckIteration, ChatFails, ChatEmpty,
           ChatReplies, TakeCalls, CallsDone, CallAborted, CallUnknown, CallBlocked,
           CallPrompt, PreviewSettles, CallRun, NextCall, ToolSettles, UserAnswers,
           Refused, Approved, Stop
  <2>2. QED
    BY <2>1 DEF TypeOK
<1>2. QED
  BY <1>1, TypeCorrect, PTL DEF Spec, StoppedRunsOnlyAnswers

-----------------------------------------------------------------------------
(* The loop implements the approval gate.                                   *)

\* The gate's "nobody is asked" is not a call.
LEMMA NoCallIsNoCall == NoCall \notin Call
<1>1. \A c \in Call : DOMAIN c = {"id", "name", "arg"}
  BY DEF Call
<1>2. DOMAIN NoCall = {"none"}
  BY DEF NoCall
<1>3. QED
  BY <1>1, <1>2

\* A request on screen is a request for a call that needs the user's consent.
LEMMA GateAsking ==
  ASSUME TypeOK, PcInv, pc \in {"preview", "approval"}
  PROVE  /\ Head(queue) \in Call /\ Head(queue) # NoCall
         /\ GateGuarded(Head(queue))
         /\ GateToolOf(Head(queue)) \notin alwaysApproved
BY HeadIsCall, NoCallIsNoCall DEF PcInv, Gated, GateGuarded, GateToolOf

\* Every step of the loop is a step of the gate, or leaves the gate alone.
LEMMA GateStep == IInv /\ [Next]_vars => [Gate!Next]_(Gate!gateVars)
<1> SUFFICES ASSUME IInv, [Next]_vars PROVE [Gate!Next]_(Gate!gateVars)
  OBVIOUS
<1>0. TypeOK /\ PcInv
  BY DEF IInv
<1>1. CASE pc # "approval" /\ pc # "done" /\ pc' = "done" /\ UNCHANGED <<alwaysApproved, trace>>
  BY <1>1 DEF Gate!Next, Gate!Close
<1>2. CASE pc # "approval" /\ pc' # "approval" /\ pc # "done" /\ pc' # "done"
           /\ UNCHANGED <<alwaysApproved, trace>>
  BY <1>2 DEF Gate!gateVars
<1>3. CASE CallPrompt \/ PreviewSettles
  <2>1. /\ pc # "approval" /\ pc # "done" /\ pc' # "done"
        /\ UNCHANGED <<queue, alwaysApproved, trace>>
    BY <1>3 DEF CallPrompt, NextCall, PreviewSettles
  <2>2. CASE pc' = "approval"
    <3>1. PICK c : c = Head(queue)
      OBVIOUS
    <3>2. c \in Call /\ GateGuarded(c) /\ GateToolOf(c) \notin alwaysApproved
      <4>1. CASE CallPrompt
        BY <1>0, <3>1, <4>1, HeadIsCall
           DEF CallPrompt, NextCall, Gated, GateGuarded, GateToolOf
      <4>2. CASE PreviewSettles
        BY <1>0, <3>1, <4>2, GateAsking DEF PreviewSettles
      <4>3. QED
        BY <1>3, <4>1, <4>2
    <3>3. Gate!Ask(c)
      BY <2>1, <2>2, <3>1, <3>2 DEF Gate!Ask
    <3>4. QED
      BY <3>2, <3>3 DEF Gate!Next
  <2>3. CASE pc' # "approval"
    BY <1>2, <2>1, <2>3
  <2>4. QED
    BY <2>2, <2>3
<1>4. CASE CallRun
  <2>1. PICK c : c = Head(queue)
    OBVIOUS
  <2>2. c \in Call /\ pc = "calls" /\ pc' = "execute"
    BY <1>0, <1>4, <2>1, HeadIsCall DEF CallRun, NextCall
  <2>3. ~GateGuarded(c) \/ GateToolOf(c) \in alwaysApproved
    BY <1>4, <2>1 DEF CallRun, Gated, GateGuarded, GateToolOf
  <2>4. trace' = Append(trace, Ran(c)) /\ alwaysApproved' = alwaysApproved
    BY <1>4, <2>1 DEF CallRun
  <2>5. Gate!Perform(c)
    BY <2>2, <2>3, <2>4 DEF Gate!Perform, Gate!Performed, Ran
  <2>6. QED
    BY <2>2, <2>5 DEF Gate!Next
<1>5. CASE Refused
  <2>1. PICK c : c = Head(queue)
    OBVIOUS
  <2>2. c # NoCall /\ pc = "approval" /\ pc' = "calls"
    BY <1>0, <1>5, <2>1, GateAsking DEF Refused, Answer
  <2>3. trace' = Append(trace, Asked(c, "deny")) /\ alwaysApproved' = alwaysApproved
    BY <1>5, <2>1 DEF Refused
  <2>4. Gate!Refuse
    BY <2>1, <2>2, <2>3 DEF Gate!Refuse, Gate!Answered, Asked
  <2>5. QED
    BY <2>4 DEF Gate!Next
<1>6. ASSUME NEW d \in {"approve", "approve_always"}, Approved(d)
      PROVE  Gate!Next
  <2>1. PICK c : c = Head(queue)
    OBVIOUS
  <2>2. c # NoCall /\ pc = "approval" /\ pc' = "execute"
    BY <1>0, <1>6, <2>1, GateAsking DEF Approved
  <2>3. /\ trace' = trace \o <<Asked(c, d), Ran(c)>>
        /\ alwaysApproved' = IF d = "approve_always"
                                THEN alwaysApproved \union {c.name}
                                ELSE alwaysApproved
    BY <1>6, <2>1 DEF Approved
  <2>4. CASE d = "approve"
    <3>1. Gate!Approve
      BY <2>1, <2>2, <2>3, <2>4 DEF Gate!Approve, Gate!Answered, Gate!Performed, Asked, Ran
    <3>2. QED
      BY <3>1 DEF Gate!Next
  <2>5. CASE d = "approve_always"
    <3>1. Gate!ApproveAlways
      BY <2>1, <2>2, <2>3, <2>5
         DEF Gate!ApproveAlways, Gate!Answered, Gate!Performed, Asked, Ran, GateToolOf
    <3>2. QED
      BY <3>1 DEF Gate!Next
  <2>6. QED
    BY <2>4, <2>5
<1>7. CASE LoopStep
  <2>1. CASE CheckIteration \/ ChatFails \/ ChatEmpty \/ ChatReplies \/ CallsDone
             \/ CallAborted \/ CallUnknown \/ CallBlocked \/ ToolSettles
    BY <1>1, <1>2, <2>1
       DEF CheckIteration, ChatFails, ChatEmpty, ChatReplies, TakeCalls, CallsDone,
           CallAborted, CallUnknown, CallBlocked, NextCall, ToolSettles, Answer, Finish
  <2>2. QED
    BY <1>3, <1>4, <1>7, <2>1 DEF LoopStep
<1>8. CASE UserAnswers
  BY <1>5, <1>6, <1>8 DEF UserAnswers
<1>9. CASE Stop
  <2>1. CASE Refused
    BY <1>5, <2>1
  <2>2. CASE ~Refused
    <3>1. UNCHANGED <<pc, queue, alwaysApproved, trace>>
      BY <1>9, <2>2 DEF Stop
    <3>2. QED
      BY <3>1 DEF Gate!gateVars
  <2>3. QED
    BY <2>1, <2>2
<1>10. CASE UNCHANGED vars
  BY <1>10 DEF vars, Gate!gateVars
<1>11. QED
  BY <1>7, <1>8, <1>9, <1>10 DEF Next, Done

\* Every run of the loop is a run of the abstract gate: one call at a time, a
\* guarded one only on the user's word (loop.ts:65-71, 190-263).
THEOREM Implementation == Spec => ImplementsGate
<1>1. Init => Gate!Init
  BY DEF Init, Gate!Init
<1>2. IInv /\ [Next]_vars => [Gate!Next]_(Gate!gateVars)
  BY GateStep
<1>3. QED
  BY <1>1, <1>2, Invariance, PTL DEF Spec, ImplementsGate, Gate!Spec

-----------------------------------------------------------------------------
(* The transcript: results answer the turn they follow, and a request carries *)
(* no call without its result.                                               *)


\* The assistant message whose calls are being handled: only results follow it.
Latest(i) ==
  /\ i \in Assistants
  /\ \A k \in i + 1 .. Len(messages) : messages[k].role = "tool"

\* No two calls have the same id.
Distinct(calls) ==
  \A k, l \in DOMAIN calls : calls[k].id = calls[l].id => k = l

\* The calls still in the queue are those of the latest message without a result;
\* if every entry is a function call, there are no others anywhere.
OpenCalls ==
  \A i \in Assistants :
    /\ Latest(i) => IdsOf(queue) \subseteq Unanswered(i)
    /\ MaxForeign = 0 => Unanswered(i) \subseteq (IF Latest(i) THEN IdsOf(queue) ELSE {})

\* The queue is empty wherever the loop is not in the middle of a reply.
QueueInv ==
  /\ Distinct(queue)
  /\ queue # << >> => messages # << >>
  /\ pc \in {"check", "chat"} => queue = << >>
  /\ stoppedReason \in {"completed", "iteration_limit", "error"} => queue = << >>
  /\ stoppedReason # "none" => pc = "done"

TInv == ResultsAnswerTheirTurn /\ OpenCalls /\ QueueInv

-----------------------------------------------------------------------------
(* One more message.                                                         *)

\* What Append does.
LEMMA Appended ==
  ASSUME messages \in Seq(Message), NEW m \in Message, messages' = Append(messages, m),
         NEW n, n = Len(messages)
  PROVE  /\ n \in Nat /\ Len(messages') = n + 1
         /\ DOMAIN messages = 1 .. n /\ DOMAIN messages' = 1 .. n + 1
         /\ \A k \in 1 .. n : messages'[k] = messages[k]
         /\ messages'[n + 1] = m
OBVIOUS

\* An assistant message ends the results of the one before it.
LEMMA AssistantAppended ==
  ASSUME messages \in Seq(Message), NEW ids \in SUBSET Id,
         messages' = Append(messages, AssistantMessage(ids)),
         NEW n, n = Len(messages)
  PROVE  /\ Assistants' = Assistants \cup {n + 1}
         /\ Results(n + 1)' = {}
         /\ Unanswered(n + 1)' = ids
         /\ Latest(n + 1)'
         /\ \A i \in Assistants : /\ i # n + 1 /\ messages'[i] = messages[i]
                                  /\ Results(i) \subseteq 1 .. n
                                  /\ Results(i)' = Results(i)
                                  /\ Unanswered(i)' = Unanswered(i)
                                  /\ ~Latest(i)'
<1>1. PICK m : m = AssistantMessage(ids)
  OBVIOUS
<1>2. m \in Message /\ m.role = "assistant" /\ m.calls = ids
  BY <1>1 DEF AssistantMessage, Message
<1>3. /\ n \in Nat /\ Len(messages') = n + 1
      /\ DOMAIN messages = 1 .. n /\ DOMAIN messages' = 1 .. n + 1
      /\ \A k \in 1 .. n : messages'[k] = messages[k]
      /\ messages'[n + 1] = m
  BY <1>1, <1>2, Appended
<1>4. Assistants' = Assistants \cup {n + 1}
  BY <1>2, <1>3 DEF Assistants
<1>5. Results(n + 1)' = {}
  BY <1>3 DEF Results
<1>6. Unanswered(n + 1)' = ids
  BY <1>2, <1>3, <1>5 DEF Unanswered
<1>7. Latest(n + 1)'
  BY <1>3, <1>4 DEF Latest
<1>8. ASSUME NEW i \in Assistants
      PROVE  /\ i # n + 1 /\ messages'[i] = messages[i]
             /\ Results(i) \subseteq 1 .. n
             /\ Results(i)' = Results(i)
             /\ Unanswered(i)' = Unanswered(i)
             /\ ~Latest(i)'
  <2>1. i \in 1 .. n
    BY <1>3 DEF Assistants
  <2>2. Results(i)' = Results(i)
    <3>1. n + 1 \notin Results(i)'
      BY <1>2, <1>3, <2>1 DEF Results
    <3>2. ASSUME NEW j \in i + 1 .. n
          PROVE  j \in Results(i)' <=> j \in Results(i)
      BY <1>3, <2>1 DEF Results
    <3>3. Results(i) \subseteq i + 1 .. n /\ Results(i)' \subseteq i + 1 .. n + 1
      BY <1>3 DEF Results
    <3>4. i + 1 .. n + 1 = (i + 1 .. n) \cup {n + 1} /\ n + 1 \notin i + 1 .. n
      BY <1>3, <2>1
    <3>5. QED
      BY <3>1, <3>2, <3>3, <3>4
  <2>3. Results(i) \subseteq 1 .. n
    BY <1>3, <2>1 DEF Results
  <2>4. Unanswered(i)' = Unanswered(i)
    BY <1>3, <2>1, <2>2, <2>3 DEF Unanswered
  <2>5. ~Latest(i)'
    BY <1>2, <1>3, <2>1 DEF Latest
  <2>6. QED
    BY <1>3, <2>1, <2>2, <2>3, <2>4, <2>5
<1>9. QED
  BY <1>4, <1>5, <1>6, <1>7, <1>8

\* A result belongs to the latest assistant message, and to no other.
LEMMA ResultAppended ==
  ASSUME messages \in Seq(Message), NEW c \in Call,
         messages' = Append(messages, ToolMessage(c)),
         NEW n, n = Len(messages)
  PROVE  /\ Assistants' = Assistants
         /\ messages'[n + 1].calls = {c.id}
         /\ \A k \in 1 .. n : messages'[k] = messages[k]
         /\ \A i \in Assistants :
              /\ Latest(i)' <=> Latest(i)
              /\ i \in 1 .. n
              /\ Results(i) \subseteq 1 .. n
              /\ n + 1 \notin 1 .. n
              /\ Results(i)' = IF Latest(i) THEN Results(i) \cup {n + 1} ELSE Results(i)
              /\ Unanswered(i)' = IF Latest(i) THEN Unanswered(i) \ {c.id} ELSE Unanswered(i)
<1>1. PICK m : m = ToolMessage(c)
  OBVIOUS
<1>2. m \in Message /\ m.role = "tool" /\ m.calls = {c.id}
  BY <1>1 DEF ToolMessage, Message, Call
<1>3. /\ n \in Nat /\ Len(messages') = n + 1
      /\ DOMAIN messages = 1 .. n /\ DOMAIN messages' = 1 .. n + 1
      /\ \A k \in 1 .. n : messages'[k] = messages[k]
      /\ messages'[n + 1] = m
  BY <1>1, <1>2, Appended
<1>4. Assistants' = Assistants
  BY <1>2, <1>3 DEF Assistants
<1>5. ASSUME NEW i \in Assistants
      PROVE  /\ Latest(i)' <=> Latest(i)
             /\ i \in 1 .. n
             /\ Results(i) \subseteq 1 .. n /\ n + 1 \notin 1 .. n
             /\ Results(i)' = IF Latest(i) THEN Results(i) \cup {n + 1} ELSE Results(i)
             /\ Unanswered(i)' = IF Latest(i) THEN Unanswered(i) \ {c.id} ELSE Unanswered(i)
  <2>1. i \in 1 .. n
    BY <1>3 DEF Assistants
  <2>2. Latest(i)' <=> Latest(i)
    BY <1>2, <1>3, <1>4, <2>1 DEF Latest
  <2>3. Results(i) \subseteq 1 .. n /\ n + 1 \notin 1 .. n
    BY <1>3, <2>1 DEF Results
  <2>4. Results(i)' = IF Latest(i) THEN Results(i) \cup {n + 1} ELSE Results(i)
    <3>1. n + 1 \in Results(i)' <=> Latest(i)
      BY <1>2, <1>3, <2>1 DEF Results, Latest
    <3>2. ASSUME NEW j \in i + 1 .. n
          PROVE  j \in Results(i)' <=> j \in Results(i)
      BY <1>3, <2>1 DEF Results
    <3>3. Results(i) \subseteq i + 1 .. n /\ Results(i)' \subseteq i + 1 .. n + 1
      BY <1>3 DEF Results
    <3>4. i + 1 .. n + 1 = (i + 1 .. n) \cup {n + 1} /\ n + 1 \notin i + 1 .. n
      BY <1>3, <2>1
    <3>5. ASSUME NEW j
          PROVE  j \in Results(i)' <=> j \in Results(i) \/ (j = n + 1 /\ Latest(i))
      BY <3>1, <3>2, <3>3, <3>4
    <3>6. CASE Latest(i)
      BY <3>5, <3>6
    <3>7. CASE ~Latest(i)
      BY <3>5, <3>7
    <3>8. QED
      BY <3>6, <3>7
  <2>5. Unanswered(i)' = IF Latest(i) THEN Unanswered(i) \ {c.id} ELSE Unanswered(i)
    <3>1. \A j \in Results(i) : messages'[j] = messages[j]
      BY <1>3, <2>3
    <3>2. messages'[n + 1].calls = {c.id} /\ messages'[i] = messages[i]
      BY <1>2, <1>3, <2>1
    <3>3. ASSUME NEW x
          PROVE  /\ x \in Unanswered(i) <=>
                      x \in messages[i].calls /\ \A j \in Results(i) : x \notin messages[j].calls
                 /\ x \in Unanswered(i)' <=>
                      x \in messages'[i].calls /\ \A j \in Results(i)' : x \notin messages'[j].calls
      BY DEF Unanswered
    <3>4. CASE Latest(i)
      <4>1. Results(i)' = Results(i) \cup {n + 1}
        BY <2>4, <3>4
      <4>2. ASSUME NEW x
            PROVE  x \in Unanswered(i)' <=> x \in Unanswered(i) /\ x # c.id
        BY <3>1, <3>2, <3>3, <4>1
      <4>3. Unanswered(i)' = Unanswered(i) \ {c.id}
        BY <4>2
      <4>4. QED
        BY <3>4, <4>3
    <3>5. CASE ~Latest(i)
      <4>1. Results(i)' = Results(i)
        BY <2>4, <3>5
      <4>2. ASSUME NEW x
            PROVE  x \in Unanswered(i)' <=> x \in Unanswered(i)
        BY <3>1, <3>2, <3>3, <4>1
      <4>3. Unanswered(i)' = Unanswered(i)
        BY <4>2
      <4>4. QED
        BY <3>5, <4>3
    <3>6. QED
      BY <3>4, <3>5
  <2>6. QED
    BY <2>1, <2>2, <2>3, <2>4, <2>5
<1>6. QED
  BY <1>2, <1>3, <1>4, <1>5

-----------------------------------------------------------------------------
(* The queue.                                                                *)

\* The calls of a structured reply have ids of their own.
LEMMA StructuredDistinct ==
  ASSUME NEW shapes \in ShapeSeqs(Shapes), iteration \in 0 .. MaxIterations
  PROVE  Distinct(Structured(shapes))
<1>1. PICK n \in 0 .. MaxCalls : shapes \in [1 .. n -> Shapes]
  BY DEF ShapeSeqs
<1>2. QED
  BY <1>1 DEF Structured, Distinct

\* Those of a recovered reply, too.
LEMMA RecoveredDistinct ==
  ASSUME NEW shapes \in ShapeSeqs(KnownShapes)
  PROVE  Distinct(Recovered(shapes))
<1>1. PICK n \in 0 .. MaxCalls : shapes \in [1 .. n -> KnownShapes]
  BY DEF ShapeSeqs
<1>2. n \in Nat
  BY LoopAssumption
<1>3. QED
  BY <1>1, <1>2 DEF Recovered, Distinct

\* When every entry is a function call, there are no foreign ids.
LEMMA NoForeign ==
  ASSUME NEW shapes \in ShapeSeqs(Shapes), NEW foreign \in 0 .. MaxForeign, MaxForeign = 0
  PROVE  ForeignIds(Len(shapes), foreign) = {}
<1>1. PICK n \in 0 .. MaxCalls : shapes \in [1 .. n -> Shapes]
  BY DEF ShapeSeqs
<1>2. Len(shapes) = n /\ n \in Nat
  BY <1>1, LoopAssumption
<1>3. foreign = 0
  OBVIOUS
<1>4. QED
  BY <1>2, <1>3 DEF ForeignIds

\* Taking the head from a queue of distinct calls takes its id.
LEMMA HeadTaken ==
  ASSUME NEW calls \in Seq(Call), calls # << >>, Distinct(calls)
  PROVE  /\ Head(calls) \in Call
         /\ Head(calls).id \in IdsOf(calls)
         /\ Distinct(Tail(calls))
         /\ IdsOf(Tail(calls)) = IdsOf(calls) \ {Head(calls).id}
<1>1. PICK n \in Nat : n = Len(calls) /\ n > 0 /\ DOMAIN calls = 1 .. n
  OBVIOUS
<1>2. /\ Head(calls) = calls[1] /\ Head(calls) \in Call
      /\ DOMAIN Tail(calls) = 1 .. n - 1
      /\ \A k \in 1 .. n - 1 : Tail(calls)[k] = calls[k + 1]
  BY <1>1
<1>3. Distinct(Tail(calls))
  BY <1>1, <1>2 DEF Distinct
<1>4. ASSUME NEW x \in IdsOf(Tail(calls))
      PROVE  x \in IdsOf(calls) /\ x # Head(calls).id
  <2>1. PICK k \in 1 .. n - 1 : x = calls[k + 1].id
    BY <1>2, <1>4 DEF IdsOf
  <2>2. k + 1 \in 1 .. n /\ 1 \in 1 .. n /\ k + 1 # 1
    BY <1>1
  <2>3. QED
    BY <1>1, <1>2, <2>1, <2>2 DEF IdsOf, Distinct
<1>5. ASSUME NEW x \in IdsOf(calls), x # Head(calls).id
      PROVE  x \in IdsOf(Tail(calls))
  <2>1. PICK k \in 1 .. n : x = calls[k].id
    BY <1>1 DEF IdsOf
  <2>2. k # 1 /\ k - 1 \in 1 .. n - 1 /\ (k - 1) + 1 = k
    BY <1>1, <1>2, <1>5, <2>1
  <2>3. Tail(calls)[k - 1].id = x
    BY <1>2, <2>1, <2>2
  <2>4. QED
    BY <1>2, <2>2, <2>3 DEF IdsOf
<1>6. Head(calls).id \in IdsOf(calls)
  BY <1>1, <1>2 DEF IdsOf
<1>7. Head(calls).id \notin IdsOf(Tail(calls))
  BY <1>4
<1>8. QED
  BY <1>2, <1>3, <1>4, <1>5, <1>6

-----------------------------------------------------------------------------
(* The steps.                                                                *)

\* A reply is taken.
LEMMA ReplyStep ==
  ASSUME TypeOK, TInv, pc = "chat", NEW calls \in Seq(Call), NEW ids \in SUBSET Id,
         TakeCalls(calls, ids), Distinct(calls), IdsOf(calls) \subseteq ids,
         MaxForeign = 0 => ids \subseteq IdsOf(calls)
  PROVE  TInv'
<1>1. PICK n : n = Len(messages)
  OBVIOUS
<1>2. messages \in Seq(Message) /\ messages' = Append(messages, AssistantMessage(ids))
  BY DEF TypeOK, TakeCalls
<1>3. /\ Assistants' = Assistants \cup {n + 1}
      /\ Results(n + 1)' = {} /\ Unanswered(n + 1)' = ids /\ Latest(n + 1)'
      /\ \A i \in Assistants : /\ i # n + 1 /\ messages'[i] = messages[i]
                               /\ Results(i) \subseteq 1 .. n
                               /\ Results(i)' = Results(i)
                               /\ Unanswered(i)' = Unanswered(i)
                               /\ ~Latest(i)'
  BY <1>1, <1>2, AssistantAppended
<1>4. \A k \in 1 .. n : messages'[k] = messages[k]
  BY <1>1, <1>2, Appended DEF AssistantMessage, Message
<1>5. queue = << >> /\ IdsOf(queue) = {}
  BY DEF TInv, QueueInv, IdsOf
<1>6. ResultsAnswerTheirTurn'
  <2>1. 1 \in Assistants'
    <3>1. CASE messages = << >>
      BY <1>1, <1>3, <3>1
    <3>2. CASE messages # << >>
      BY <1>3, <3>2 DEF TInv, ResultsAnswerTheirTurn
    <3>3. QED
      BY <3>1, <3>2
  <2>2. ASSUME NEW i \in Assistants', NEW j \in Results(i)'
        PROVE  /\ messages'[j].calls \subseteq messages'[i].calls
               /\ \A k \in Results(i)' \ {j} :
                    messages'[k].calls \cap messages'[j].calls = {}
    <3>1. i \in Assistants
      BY <1>3, <2>2
    <3>2. QED
      BY <1>3, <1>4, <2>2, <3>1 DEF TInv, ResultsAnswerTheirTurn
  <2>3. QED
    BY <2>1, <2>2 DEF ResultsAnswerTheirTurn
<1>7. OpenCalls'
  <2>1. queue' = calls
    BY DEF TakeCalls
  <2>2. IdsOf(queue)' = IdsOf(calls)
    BY <2>1 DEF IdsOf
  <2>3. ASSUME NEW i \in Assistants
        PROVE  MaxForeign = 0 => Unanswered(i)' = {}
    BY <1>3, <1>5 DEF TInv, OpenCalls
  <2>4. QED
    BY <1>3, <2>2, <2>3 DEF OpenCalls
<1>8. QueueInv'
  <2>1. messages' # << >>
    BY <1>2
  <2>2. stoppedReason = "none"
    BY DEF TInv, QueueInv
  <2>3. QED
    BY <2>1, <2>2 DEF TakeCalls, Finish, QueueInv
<1>9. QED
  BY <1>6, <1>7, <1>8 DEF TInv

\* The call at the head of the queue is answered.
LEMMA AnswerStep ==
  ASSUME TypeOK, TInv, queue # << >>, pc # "done", Answer, UNCHANGED stoppedReason
  PROVE  TInv'
<1>1. PICK n : n = Len(messages)
  OBVIOUS
<1>2. PICK c : c = Head(queue)
  OBVIOUS
<1>3. /\ c \in Call /\ c.id \in IdsOf(queue)
      /\ Distinct(Tail(queue)) /\ IdsOf(Tail(queue)) = IdsOf(queue) \ {c.id}
  BY <1>2, HeadTaken DEF TInv, QueueInv, TypeOK
<1>4. messages \in Seq(Message) /\ messages' = Append(messages, ToolMessage(c))
  BY <1>2 DEF TypeOK, Answer
<1>5. /\ Assistants' = Assistants
      /\ messages'[n + 1].calls = {c.id}
      /\ \A k \in 1 .. n : messages'[k] = messages[k]
      /\ \A i \in Assistants :
           /\ Latest(i)' <=> Latest(i)
           /\ i \in 1 .. n
           /\ Results(i) \subseteq 1 .. n
           /\ n + 1 \notin 1 .. n
           /\ Results(i)' = IF Latest(i) THEN Results(i) \cup {n + 1} ELSE Results(i)
           /\ Unanswered(i)' = IF Latest(i) THEN Unanswered(i) \ {c.id} ELSE Unanswered(i)
  BY <1>1, <1>3, <1>4, ResultAppended
<1>6. \A i \in Assistants : Latest(i) => c.id \in Unanswered(i)
  BY <1>3 DEF TInv, OpenCalls
<1>7. ResultsAnswerTheirTurn'
  <2>1. 1 \in Assistants'
    BY <1>5 DEF TInv, QueueInv, ResultsAnswerTheirTurn
  <2>2. ASSUME NEW i \in Assistants, NEW j \in Results(i)'
        PROVE  /\ messages'[j].calls \subseteq messages'[i].calls
               /\ \A k \in Results(i)' \ {j} :
                    messages'[k].calls \cap messages'[j].calls = {}
    <3>1. /\ \A l \in Results(i) : /\ messages'[l].calls = messages[l].calls
                                   /\ messages'[l].calls \subseteq messages'[i].calls
                                   /\ l # n + 1
          /\ \A l, k \in Results(i) : l # k => messages'[k].calls \cap messages'[l].calls = {}
      BY <1>5 DEF TInv, ResultsAnswerTheirTurn
    <3>2. CASE ~Latest(i)
      BY <1>5, <2>2, <3>1, <3>2
    <3>3. CASE Latest(i)
      <4>1. /\ c.id \in messages'[i].calls
            /\ \A l \in Results(i) : c.id \notin messages'[l].calls
        BY <1>5, <1>6, <3>1, <3>3 DEF Unanswered
      <4>2. Results(i)' = Results(i) \cup {n + 1} /\ messages'[n + 1].calls = {c.id}
        BY <1>5, <3>3
      <4>3. QED
        BY <2>2, <3>1, <4>1, <4>2
    <3>4. QED
      BY <3>2, <3>3
  <2>3. QED
    BY <1>5, <2>1, <2>2 DEF ResultsAnswerTheirTurn
<1>8. OpenCalls'
  <2>1. IdsOf(queue)' = IdsOf(queue) \ {c.id}
    BY <1>3 DEF Answer, IdsOf
  <2>2. ASSUME NEW i \in Assistants
        PROVE  /\ Latest(i)' => IdsOf(queue)' \subseteq Unanswered(i)'
               /\ MaxForeign = 0 =>
                    Unanswered(i)' \subseteq (IF Latest(i)' THEN IdsOf(queue)' ELSE {})
    BY <1>5, <2>1 DEF TInv, OpenCalls
  <2>3. QED
    BY <1>5, <2>2 DEF OpenCalls
<1>9. QueueInv'
  <2>1. messages' # << >>
    BY <1>4
  <2>2. stoppedReason = "none"
    BY DEF TInv, QueueInv, TypeOK, Reasons
  <2>3. QED
    BY <1>2, <1>3, <2>1, <2>2 DEF Answer, QueueInv
<1>10. QED
  BY <1>7, <1>8, <1>9 DEF TInv

\* A step that leaves transcript and queue alone keeps what is said of them.
LEMMA TranscriptKept ==
  ASSUME TInv, UNCHANGED <<messages, queue>>, QueueInv'
  PROVE  TInv'
<1>1. messages' = messages /\ queue' = queue
  OBVIOUS
<1>2. Assistants' = Assistants
  BY <1>1 DEF Assistants
<1>3. \A i : Results(i)' = Results(i)
  BY <1>1 DEF Results
<1>4. \A i : Unanswered(i)' = Unanswered(i)
  BY <1>1, <1>3 DEF Unanswered
<1>5. IdsOf(queue)' = IdsOf(queue)
  BY <1>1 DEF IdsOf
<1>6. \A i : Latest(i)' <=> Latest(i)
  BY <1>1, <1>2 DEF Latest
<1>7. ResultsAnswerTheirTurn'
  BY <1>1, <1>2, <1>3 DEF TInv, ResultsAnswerTheirTurn
<1>8. OpenCalls'
  BY <1>2, <1>4, <1>5, <1>6 DEF TInv, OpenCalls
<1>9. QED
  BY <1>7, <1>8 DEF TInv

\* A run begins with an empty transcript.
LEMMA InitTInv == Init => TInv
<1> SUFFICES ASSUME Init PROVE TInv
  OBVIOUS
<1>1. messages = << >> /\ queue = << >> /\ Assistants = {}
  BY DEF Init, Assistants
<1>2. ResultsAnswerTheirTurn /\ OpenCalls
  BY <1>1 DEF ResultsAnswerTheirTurn, OpenCalls
<1>3. QueueInv
  BY <1>1 DEF Init, QueueInv, Distinct
<1>4. QED
  BY <1>2, <1>3 DEF TInv

\* Every step keeps the invariant.
LEMMA TStep == TypeOK /\ PcInv /\ TInv /\ [Next]_vars => TInv'
<1> SUFFICES ASSUME TypeOK, PcInv, TInv, [Next]_vars PROVE TInv'
  OBVIOUS
<1>0. QueueInv
  BY DEF TInv
<1>1. CASE CheckIteration \/ ChatFails \/ ChatEmpty
  <2>1. QueueInv' /\ UNCHANGED <<messages, queue>>
    BY <1>0, <1>1 DEF CheckIteration, ChatFails, ChatEmpty, Finish, QueueInv
  <2>2. QED
    BY <2>1, TranscriptKept
<1>2. CASE ChatReplies
  <2>0. pc = "chat" /\ iteration \in 0 .. MaxIterations /\ iteration < MaxIterations
    BY <1>2 DEF ChatReplies, PcInv, TypeOK
  <2>1. PICK foreign \in 0 .. MaxForeign :
          \/ \E shapes \in ShapeSeqs(Shapes) :
               TakeCalls(Structured(shapes),
                         IdsOf(Structured(shapes)) \union ForeignIds(Len(shapes), foreign))
          \/ \E shapes \in ShapeSeqs(KnownShapes) \ {<< >>} :
               TakeCalls(Recovered(shapes), IdsOf(Recovered(shapes)))
    BY <1>2 DEF ChatReplies
  <2>2. ASSUME NEW shapes \in ShapeSeqs(Shapes),
               TakeCalls(Structured(shapes),
                         IdsOf(Structured(shapes)) \union ForeignIds(Len(shapes), foreign))
        PROVE  TInv'
    <3>1. /\ Structured(shapes) \in Seq(Call) /\ Distinct(Structured(shapes))
          /\ IdsOf(Structured(shapes)) \union ForeignIds(Len(shapes), foreign) \in SUBSET Id
      BY <2>0, StructuredType, ForeignType, StructuredDistinct
    <3>2. MaxForeign = 0 => ForeignIds(Len(shapes), foreign) = {}
      BY NoForeign
    <3>3. QED
      BY <2>0, <2>2, <3>1, <3>2, ReplyStep
  <2>3. ASSUME NEW shapes \in ShapeSeqs(KnownShapes),
               TakeCalls(Recovered(shapes), IdsOf(Recovered(shapes)))
        PROVE  TInv'
    BY <2>0, <2>3, RecoveredType, RecoveredDistinct, ReplyStep
  <2>4. QED
    BY <2>1, <2>2, <2>3
<1>3. CASE CallsDone \/ CallAborted \/ CallPrompt \/ PreviewSettles \/ CallRun
  <2>1. QueueInv' /\ UNCHANGED <<messages, queue>>
    BY <1>0, <1>3
       DEF CallsDone, CallAborted, CallPrompt, PreviewSettles, CallRun, NextCall,
           Finish, QueueInv
  <2>2. QED
    BY <2>1, TranscriptKept
<1>4. CASE CallUnknown \/ CallBlocked
  <2>1. queue # << >> /\ pc # "done" /\ Answer /\ UNCHANGED stoppedReason
    BY <1>4 DEF CallUnknown, CallBlocked, NextCall
  <2>2. QED
    BY <2>1, AnswerStep
<1>5. CASE ToolSettles
  <2>1. queue # << >> /\ pc # "done" /\ Answer /\ UNCHANGED stoppedReason
    BY <1>5 DEF ToolSettles, PcInv
  <2>2. QED
    BY <2>1, AnswerStep
<1>6. CASE Refused
  <2>1. queue # << >> /\ pc # "done" /\ Answer /\ UNCHANGED stoppedReason
    BY <1>6 DEF Refused, PcInv
  <2>2. QED
    BY <2>1, AnswerStep
<1>7. ASSUME NEW d, Approved(d) PROVE TInv'
  <2>1. QueueInv' /\ UNCHANGED <<messages, queue>>
    BY <1>0, <1>7 DEF Approved, QueueInv
  <2>2. QED
    BY <2>1, TranscriptKept
<1>8. CASE UNCHANGED <<messages, queue, pc, stoppedReason>>
  <2>1. QueueInv'
    BY <1>0, <1>8 DEF QueueInv
  <2>2. QED
    BY <1>8, <2>1, TranscriptKept
<1>9. CASE Stop
  BY <1>6, <1>8, <1>9 DEF Stop
<1>10. CASE UserAnswers
  BY <1>6, <1>7, <1>10 DEF UserAnswers
<1>11. CASE UNCHANGED vars
  BY <1>8, <1>11 DEF vars
<1>12. QED
  BY <1>1, <1>2, <1>3, <1>4, <1>5, <1>9, <1>10, <1>11 DEF Next, LoopStep, Done

\* The invariant holds in every run.
LEMMA TranscriptInvariance == Spec => []TInv
<1>1. Init => TInv
  BY InitTInv
<1>2. IInv => TypeOK /\ PcInv
  BY DEF IInv
<1>3. TypeOK /\ PcInv /\ TInv /\ [Next]_vars => TInv'
  BY TStep
<1>4. QED
  BY <1>1, <1>2, <1>3, Invariance, PTL DEF Spec

-----------------------------------------------------------------------------
(* Theorems.                                                                 *)

\* Every result answers a call of the assistant message it follows, and no call is
\* answered twice, however the model mixes structured, recovered and repeated calls
\* and wherever Stop falls (loop.ts:190-263).
THEOREM ResultsInPlace == Spec => []ResultsAnswerTheirTurn
<1>1. TInv => ResultsAnswerTheirTurn
  BY DEF TInv
<1>2. QED
  BY <1>1, TranscriptInvariance, PTL

\* As long as every tool call is a function call, a request, and the transcript of a
\* run that was not stopped, hold no call without its result (loop.ts:123-268).
THEOREM EveryCallAnswered ==
  ASSUME MaxForeign = 0 PROVE Spec => []RequestsAreAnswered
<1>1. TInv => RequestsAreAnswered
  <2> SUFFICES ASSUME TInv,
                      pc = "chat" \/ stoppedReason \in {"completed", "iteration_limit", "error"},
                      NEW i \in Assistants
               PROVE  Unanswered(i) = {}
    BY DEF RequestsAreAnswered
  <2>1. IdsOf(queue) = {}
    BY DEF TInv, QueueInv, IdsOf
  <2>2. QED
    BY <2>1 DEF TInv, OpenCalls
<1>2. QED
  BY <1>1, TranscriptInvariance, PTL

-----------------------------------------------------------------------------
(* The transcript between turns (AgentHistory): what its repair keeps, and   *)
(* that every request of a conversation is one the providers accept, for any *)
(* number of turns.                                                          *)


Acc == [out : Seq(Entry), kept : SUBSET Int]

LEMMA MessageTypes ==
  /\ User \in Entry
  /\ \A ids \in SUBSET Int, text \in BOOLEAN : Assistant(ids, text) \in Entry
  /\ Assistant({}, TRUE) \in Entry
  /\ \A id \in Int : Tool(id) \in Entry
BY DEF User, Assistant, Tool, Entry

LEMMA RespondedDef ==
  ASSUME NEW h \in Seq(Entry)
  PROVE  /\ Responded(h) \in SUBSET Int
         /\ \A id : id \in Responded(h) <=>
              \E j \in 1 .. Len(h) : h[j].role = "tool" /\ id \in h[j].calls
<1>1. DOMAIN h = 1 .. Len(h) /\ \A j \in 1 .. Len(h) : h[j].calls \in SUBSET Int
  <2>1. \A m \in Entry : m.calls \in SUBSET Int
    BY DEF Entry
  <2>2. DOMAIN h = 1 .. Len(h) /\ \A j \in 1 .. Len(h) : h[j] \in Entry
    OBVIOUS
  <2>3. QED
    BY <2>1, <2>2
<1>2. PICK J : J = {j \in DOMAIN h : h[j].role = "tool"}
  OBVIOUS
<1>3. Responded(h) = UNION {h[i].calls : i \in J}
  BY <1>2, Zenon DEF Responded
<1>4. \A id : id \in Responded(h) <=> \E j \in J : id \in h[j].calls
  BY <1>3
<1>5. \A id : id \in Responded(h) <=>
        \E j \in 1 .. Len(h) : h[j].role = "tool" /\ id \in h[j].calls
  BY <1>1, <1>2, <1>4
<1>6. Responded(h) \subseteq Int
  BY <1>1, <1>5
<1>7. QED
  BY <1>5, <1>6

-----------------------------------------------------------------------------
(* The repair, message by message.                                          *)

\* An assistant message with the calls that were answered.
LEMMA RepairedCalls ==
  ASSUME NEW acc \in Acc, NEW m \in Entry, NEW R \in SUBSET Int,
         m.role = "assistant", m.calls \cap R # {}
  PROVE  /\ Repaired(acc, m, R).out = Append(acc.out, Assistant(m.calls \cap R, m.text))
         /\ Repaired(acc, m, R).kept = acc.kept \union (m.calls \cap R)
<1>1. [m EXCEPT !.calls = m.calls \cap R] = Assistant(m.calls \cap R, m.text)
  BY DEF Entry, Assistant
<1>2. QED
  BY <1>1 DEF Repaired

\* An assistant message none of whose calls was answered.
LEMMA RepairedUnanswered ==
  ASSUME NEW acc \in Acc, NEW m \in Entry, NEW R \in SUBSET Int,
         m.role = "assistant", m.calls # {}, m.calls \cap R = {}
  PROVE  /\ Repaired(acc, m, R).out =
              IF m.text THEN Append(acc.out, Assistant({}, TRUE)) ELSE acc.out
         /\ Repaired(acc, m, R).kept = acc.kept
BY DEF Repaired, Acc

\* A tool message.
LEMMA RepairedTool ==
  ASSUME NEW acc \in Acc, NEW m \in Entry, NEW R \in SUBSET Int, m.role = "tool"
  PROVE  /\ Repaired(acc, m, R).out =
              IF m.calls \subseteq acc.kept THEN Append(acc.out, m) ELSE acc.out
         /\ Repaired(acc, m, R).kept = acc.kept
BY DEF Repaired, Acc

\* Any other message.
LEMMA RepairedOther ==
  ASSUME NEW acc \in Acc, NEW m \in Entry, NEW R \in SUBSET Int,
         m.role # "tool", m.role = "assistant" => m.calls = {}
  PROVE  /\ Repaired(acc, m, R).out = Append(acc.out, m)
         /\ Repaired(acc, m, R).kept = acc.kept
BY DEF Repaired, Acc

LEMMA RepairedType ==
  ASSUME NEW acc \in Acc, NEW m \in Entry, NEW R \in SUBSET Int
  PROVE  Repaired(acc, m, R) \in Acc
<1>1. [m EXCEPT !.calls = m.calls \cap R] \in Entry
  BY DEF Entry
<1>2. Assistant({}, TRUE) \in Entry
  BY DEF Entry, Assistant
<1>3. acc.out \in Seq(Entry) /\ acc.kept \in SUBSET Int
  BY DEF Acc
<1>4. \A x \in Entry : Append(acc.out, x) \in Seq(Entry)
  BY <1>3
<1>5. CASE m.role = "assistant" /\ m.calls \cap R # {}
  BY <1>1, <1>3, <1>4, <1>5 DEF Repaired, Acc
<1>6. CASE m.role = "assistant" /\ m.calls # {} /\ m.calls \cap R = {}
  BY <1>2, <1>3, <1>4, <1>6 DEF Repaired, Acc
<1>7. CASE m.role = "tool"
  BY <1>3, <1>4, <1>7 DEF Repaired, Acc
<1>8. CASE m.role # "tool" /\ (m.role = "assistant" => m.calls = {})
  BY <1>3, <1>4, <1>8 DEF Repaired, Acc
<1>9. QED
  BY <1>5, <1>6, <1>7, <1>8

\* Scanned does what its definition says.
LEMMA ScannedDef ==
  ASSUME NEW h \in Seq(Entry)
  PROVE  /\ Scanned(h)[0] = [out |-> << >>, kept |-> {}]
         /\ \A n \in 1 .. Len(h) :
              Scanned(h)[n] = Repaired(Scanned(h)[n - 1], h[n], Responded(h))
         /\ \A n \in 0 .. Len(h) : Scanned(h)[n] \in Acc
<1> DEFINE Step(a, n) == Repaired(a, h[n], Responded(h))
<1>0. PICK A, N, e : A = Acc /\ N = Len(h) /\ e = [out |-> << >>, kept |-> {}]
  OBVIOUS
<1>1. N \in Nat /\ e \in A
  BY <1>0 DEF Acc
<1>2. \A n \in 1 .. N, a \in A : Step(a, n) \in A
  <2>1. \A n \in 1 .. N : h[n] \in Entry
    BY <1>0
  <2>2. QED
    BY <1>0, <2>1, RespondedDef, RepairedType
<1>3. PICK step : step = [n \in 1 .. N |-> [a \in A |-> Step(a, n)]]
  OBVIOUS
<1>4. step \in [1 .. N -> [A -> A]]
  <2> HIDE DEF Step
  <2>1. QED
    BY <1>2, <1>3
<1>5. PICK g \in [0 .. N -> A] : g[0] = e /\ \A n \in 1 .. N : g[n] = step[n][g[n - 1]]
  <2> HIDE DEF Step
  <2>1. QED
    BY <1>1, <1>4, Recursion, SMTT(60)
<1>6. \A n \in 1 .. N : g[n] = Step(g[n - 1], n)
  <2> HIDE DEF Step
  <2>1. QED
    BY <1>1, <1>3, <1>5
<1>7. g = [n \in 0 .. N |-> IF n = 0 THEN e ELSE Step(g[n - 1], n)]
  <2> HIDE DEF Step
  <2>1. QED
    BY <1>1, <1>5, <1>6
<1>8. PICK f : f = Scanned(h)
  OBVIOUS
<1>9. f = CHOOSE acc : acc = [n \in 0 .. N |-> IF n = 0 THEN e ELSE Step(acc[n - 1], n)]
  <2>1. f = CHOOSE acc : acc = [n \in 0 .. Len(h) |->
              IF n = 0 THEN [out |-> << >>, kept |-> {}]
              ELSE Repaired(acc[n - 1], h[n], Responded(h))]
    BY <1>8, Zenon DEF Scanned
  <2>2. QED
    BY <1>0, <2>1, Zenon
<1>10. f = [n \in 0 .. N |-> IF n = 0 THEN e ELSE Step(f[n - 1], n)]
  BY <1>7, <1>9, Zenon
<1>11. f[0] = e /\ \A n \in 1 .. N : f[n] = Step(f[n - 1], n)
  <2> HIDE DEF Step
  <2>1. QED
    BY <1>1, <1>10
<1>12. \A n \in 0 .. N : f[n] \in A
  <2> DEFINE Typed == {n \in 0 .. N : f[n] \in A}
  <2>1. 0 \in Typed
    BY <1>1, <1>11
  <2>2. \A n \in 1 .. N : n - 1 \in Typed => n \in Typed
    <3> HIDE DEF Step
    <3>1. QED
      BY <1>1, <1>2, <1>11
  <2>3. \A n \in 0 .. N : n \in Typed
    <3> HIDE DEF Typed
    <3>1. QED
      BY <1>1, <2>1, <2>2, InductTo
  <2>4. QED
    BY <2>3
<1>13. QED
  BY <1>0, <1>8, <1>11, <1>12

LEMMA SanitizeType ==
  ASSUME NEW h \in Seq(Entry)
  PROVE  Sanitize(h) \in Seq(Entry)
<1>1. Scanned(h)[Len(h)] \in Acc
  BY ScannedDef
<1>2. QED
  BY <1>1 DEF Sanitize, Acc

-----------------------------------------------------------------------------
(* No finished work is lost.                                                *)

LEMMA RepairedGrows ==
  ASSUME NEW acc \in Acc, NEW m \in Entry, NEW R \in SUBSET Int
  PROVE  /\ acc.kept \subseteq Repaired(acc, m, R).kept
         /\ m.role = "assistant" => m.calls \cap R \subseteq Repaired(acc, m, R).kept
         /\ \A p \in 1 .. Len(acc.out) :
              /\ p \in 1 .. Len(Repaired(acc, m, R).out)
              /\ Repaired(acc, m, R).out[p] = acc.out[p]
<1> DEFINE Extends(t) == \A p \in 1 .. Len(acc.out) : p \in 1 .. Len(t) /\ t[p] = acc.out[p]
<1>1. acc.out \in Seq(Entry) /\ m.calls \in SUBSET Int
  BY DEF Acc, Entry
<1>2. Extends(acc.out) /\ \A x \in Entry : Extends(Append(acc.out, x))
  BY <1>1
<1>3. Assistant(m.calls \cap R, m.text) \in Entry /\ Assistant({}, TRUE) \in Entry
  BY DEF Assistant, Entry
<1> HIDE DEF Extends
<1>4. PICK b : b = Repaired(acc, m, R)
  OBVIOUS
<1>5. CASE m.role = "assistant" /\ m.calls \cap R # {}
  <2>1. b.out = Append(acc.out, Assistant(m.calls \cap R, m.text))
    BY <1>4, <1>5, RepairedCalls
  <2>2. b.kept = acc.kept \union (m.calls \cap R)
    BY <1>4, <1>5, RepairedCalls
  <2>3. Extends(b.out)
    BY <1>2, <1>3, <2>1
  <2>4. QED
    BY <1>4, <2>2, <2>3 DEF Extends
<1>6. CASE m.role = "assistant" /\ m.calls # {} /\ m.calls \cap R = {}
  <2>1. b.out = acc.out \/ b.out = Append(acc.out, Assistant({}, TRUE))
    BY <1>4, <1>6, RepairedUnanswered
  <2>2. b.kept = acc.kept
    BY <1>4, <1>6, RepairedUnanswered
  <2>3. Extends(b.out)
    BY <1>2, <1>3, <2>1
  <2>4. QED
    BY <1>4, <1>6, <2>2, <2>3 DEF Extends
<1>7. CASE m.role = "tool"
  <2>1. (b.out = acc.out \/ b.out = Append(acc.out, m)) /\ b.kept = acc.kept
    BY <1>4, <1>7, RepairedTool
  <2>2. Extends(b.out)
    BY <1>2, <2>1
  <2>3. QED
    BY <1>4, <1>7, <2>1, <2>2 DEF Extends
<1>8. CASE m.role # "tool" /\ (m.role = "assistant" => m.calls = {})
  <2>1. b.out = Append(acc.out, m) /\ b.kept = acc.kept
    BY <1>4, <1>8, RepairedOther
  <2>2. Extends(b.out)
    BY <1>2, <2>1
  <2>3. QED
    BY <1>4, <1>8, <2>1, <2>2 DEF Extends
<1>9. QED
  BY <1>5, <1>6, <1>7, <1>8

LEMMA AnsweredCallSurvives ==
  ASSUME NEW h \in Seq(Entry), NEW i \in 1 .. Len(h), NEW j \in 1 .. Len(h),
         h[i].role = "assistant", h[j].role = "tool", i < j, h[j].calls \subseteq h[i].calls
  PROVE  \E p \in 1 .. Len(Sanitize(h)) : Sanitize(h)[p] = h[j]
<1>0. PICK N, f, R : N = Len(h) /\ f = Scanned(h) /\ R = Responded(h)
  OBVIOUS
<1>1. N \in Nat /\ R \in SUBSET Int /\ \A n \in 1 .. N : h[n] \in Entry
  BY <1>0, RespondedDef
<1>2. /\ \A n \in 1 .. N : f[n] = Repaired(f[n - 1], h[n], R)
      /\ \A n \in 0 .. N : f[n] \in Acc
  BY <1>0, ScannedDef
<1>3. \A n \in 1 .. N : n - 1 \in 0 .. N /\ f[n - 1] \in Acc
  BY <1>1, <1>2
<1>4. \A n \in 0 .. N : n >= i => h[i].calls \cap R \subseteq f[n].kept
  <2> DEFINE Keeping == {n \in 0 .. N : n >= i => h[i].calls \cap R \subseteq f[n].kept}
  <2>1. 0 \in Keeping
    BY <1>1
  <2>2. ASSUME NEW n \in 1 .. N, n - 1 \in Keeping PROVE n \in Keeping
    <3>1. CASE n = i
      BY <1>1, <1>2, <1>3, <3>1, RepairedGrows
    <3>2. CASE n # i
      BY <1>0, <1>1, <1>2, <1>3, <2>2, <3>2, RepairedGrows
    <3>3. QED
      BY <3>1, <3>2
  <2>3. \A n \in 0 .. N : n \in Keeping
    <3> HIDE DEF Keeping
    <3>1. QED
      BY <1>1, <2>1, <2>2, InductTo
  <2>4. QED
    BY <2>3
<1>5. h[j].calls \subseteq R
  BY <1>0, RespondedDef
<1>6. h[j].calls \subseteq f[j - 1].kept
  BY <1>0, <1>1, <1>4, <1>5
<1>7. f[j].out = Append(f[j - 1].out, h[j])
  <2>1. PICK a, m : a = f[j - 1] /\ m = h[j]
    OBVIOUS
  <2>2. a \in Acc /\ m \in Entry /\ m.role = "tool" /\ m.calls \subseteq a.kept
    BY <1>0, <1>1, <1>3, <1>6, <2>1
  <2>3. f[j] = Repaired(a, m, R)
    BY <1>0, <1>2, <2>1
  <2>4. f[j].out = Append(a.out, m)
    BY <1>1, <2>2, <2>3, RepairedTool
  <2>5. QED
    BY <2>1, <2>4
<1>8. \E p \in 1 .. Len(f[j].out) : f[j].out[p] = h[j]
  <2>1. PICK s, t : s = f[j - 1].out /\ t = f[j].out
    OBVIOUS
  <2>2. s \in Seq(Entry) /\ t = Append(s, h[j])
    BY <1>0, <1>3, <1>7, <2>1 DEF Acc
  <2>3. Len(s) + 1 \in 1 .. Len(t) /\ t[Len(s) + 1] = h[j]
    BY <2>2
  <2>4. QED
    BY <2>1, <2>3
<1>9. \A n \in 0 .. N : n >= j => \E p \in 1 .. Len(f[n].out) : f[n].out[p] = h[j]
  <2> DEFINE Out == {n \in 0 .. N : n >= j => \E p \in 1 .. Len(f[n].out) : f[n].out[p] = h[j]}
  <2>1. 0 \in Out
    BY <1>1
  <2>2. ASSUME NEW n \in 1 .. N, n - 1 \in Out PROVE n \in Out
    <3>1. CASE n = j
      BY <1>1, <1>8, <3>1
    <3>2. CASE n > j
      <4>1. PICK p \in 1 .. Len(f[n - 1].out) : f[n - 1].out[p] = h[j]
        BY <1>0, <1>1, <2>2, <3>2
      <4>2. p \in 1 .. Len(f[n].out) /\ f[n].out[p] = f[n - 1].out[p]
        BY <1>0, <1>1, <1>2, <1>3, <4>1, RepairedGrows
      <4>3. QED
        BY <4>1, <4>2
    <3>4. CASE n < j
      BY <1>0, <1>1, <3>4
    <3>3. QED
      BY <1>0, <1>1, <3>1, <3>2, <3>4
  <2>3. \A n \in 0 .. N : n \in Out
    <3> HIDE DEF Out
    <3>1. QED
      BY <1>1, <2>1, <2>2, InductTo
  <2>4. QED
    BY <2>3
<1>10. QED
  BY <1>0, <1>1, <1>9 DEF Sanitize

-----------------------------------------------------------------------------
(* Nothing that was said is lost.                                           *)

LEMMA RolesSaidEmpty ==
  ASSUME NEW h \in Seq(Entry)
  PROVE  Len(h) = 0 => RolesSaid(h) = << >>
<1>1. PICK said : said = Filter(h, Spoken)
  OBVIOUS
<1>2. Len(h) = 0 => said = << >>
  BY <1>1, FilterEmpty
<1>3. RolesSaid(h) = [i \in DOMAIN said |-> said[i].role]
  BY <1>1 DEF RolesSaid
<1>4. QED
  BY <1>2, <1>3

LEMMA RolesSaidAppend ==
  ASSUME NEW h \in Seq(Entry), NEW m \in Entry
  PROVE  RolesSaid(Append(h, m)) =
           IF m \in Spoken THEN Append(RolesSaid(h), m.role) ELSE RolesSaid(h)
<1>1. PICK said, longer : said = Filter(h, Spoken) /\ longer = Filter(Append(h, m), Spoken)
  OBVIOUS
<1>2. said \in Seq(Entry)
  BY <1>1, FilterType
<1>3. longer = IF m \in Spoken THEN Append(said, m) ELSE said
  BY <1>1, FilterAppend
<1>4. /\ RolesSaid(h) = [i \in DOMAIN said |-> said[i].role]
      /\ RolesSaid(Append(h, m)) = [i \in DOMAIN longer |-> longer[i].role]
  BY <1>1 DEF RolesSaid
<1>5. CASE m \in Spoken
  <2>1. PICK r : r = [i \in DOMAIN said |-> said[i].role]
    OBVIOUS
  <2>2. \A i \in 1 .. Len(said) : said[i].role \in {"user", "assistant", "tool"}
    <3>1. \A x \in Entry : x.role \in {"user", "assistant", "tool"}
      BY DEF Entry
    <3>2. \A i \in 1 .. Len(said) : said[i] \in Entry
      BY <1>2
    <3>3. QED
      BY <3>1, <3>2
  <2>3. r \in Seq({"user", "assistant", "tool"}) /\ Len(r) = Len(said)
    BY <1>2, <2>1, <2>2
  <2>4. [i \in DOMAIN longer |-> longer[i].role] = Append(r, m.role)
    BY <1>2, <1>3, <1>5, <2>1, <2>3
  <2>5. QED
    BY <1>4, <1>5, <2>1, <2>4
<1>6. CASE m \notin Spoken
  BY <1>3, <1>4, <1>6
<1>7. QED
  BY <1>5, <1>6

LEMMA RepairedSaid ==
  ASSUME NEW acc \in Acc, NEW m \in Entry, NEW R \in SUBSET Int
  PROVE  RolesSaid(Repaired(acc, m, R).out) =
           IF m \in Spoken THEN Append(RolesSaid(acc.out), m.role) ELSE RolesSaid(acc.out)
<1>1. acc.out \in Seq(Entry)
  BY DEF Acc
<1>2. PICK b : b = Repaired(acc, m, R)
  OBVIOUS
<1>3. CASE m.role = "assistant" /\ m.calls \cap R # {}
  <2>1. PICK x : x = Assistant(m.calls \cap R, m.text)
    OBVIOUS
  <2>2. x \in Entry /\ (x \in Spoken <=> m \in Spoken) /\ x.role = m.role
    BY <1>3, <2>1 DEF Assistant, Entry, Spoken
  <2>3. b.out = Append(acc.out, x)
    BY <1>2, <1>3, <2>1, RepairedCalls
  <2>4. QED
    BY <1>1, <1>2, <2>2, <2>3, RolesSaidAppend
<1>4. CASE m.role = "assistant" /\ m.calls # {} /\ m.calls \cap R = {}
  <2>1. PICK x : x = Assistant({}, TRUE)
    OBVIOUS
  <2>2. x \in Entry /\ x \in Spoken /\ (m.text <=> m \in Spoken) /\ x.role = m.role
    BY <1>4, <2>1 DEF Assistant, Entry, Spoken
  <2>3. b.out = IF m.text THEN Append(acc.out, x) ELSE acc.out
    BY <1>2, <1>4, <2>1, RepairedUnanswered
  <2>4. QED
    BY <1>1, <1>2, <2>2, <2>3, RolesSaidAppend
<1>5. CASE m.role = "tool"
  <2>1. m \notin Spoken
    BY <1>5 DEF Spoken
  <2>2. b.out = Append(acc.out, m) \/ b.out = acc.out
    BY <1>2, <1>5, RepairedTool
  <2>3. QED
    BY <1>1, <1>2, <2>1, <2>2, RolesSaidAppend
<1>6. CASE m.role # "tool" /\ (m.role = "assistant" => m.calls = {})
  <2>1. b.out = Append(acc.out, m)
    BY <1>2, <1>6, RepairedOther
  <2>2. QED
    BY <1>1, <1>2, <2>1, RolesSaidAppend
<1>7. QED
  BY <1>3, <1>4, <1>5, <1>6

LEMMA SanitizeSaid ==
  ASSUME NEW h \in Seq(Entry)
  PROVE  RolesSaid(Sanitize(h)) = RolesSaid(h)
<1>0. PICK N, f, R : N = Len(h) /\ f = Scanned(h) /\ R = Responded(h)
  OBVIOUS
<1>1. N \in Nat /\ R \in SUBSET Int /\ \A n \in 1 .. N : h[n] \in Entry
  BY <1>0, RespondedDef
<1>2. /\ f[0] = [out |-> << >>, kept |-> {}]
      /\ \A n \in 1 .. N : f[n] = Repaired(f[n - 1], h[n], R)
      /\ \A n \in 0 .. N : f[n] \in Acc
  BY <1>0, ScannedDef
<1>3. PICK pre : pre = [n \in 0 .. N |-> SubSeq(h, 1, n)]
  OBVIOUS
<1>4. /\ pre[0] \in Seq(Entry) /\ Len(pre[0]) = 0
      /\ pre[N] = h
      /\ \A n \in 1 .. N : pre[n - 1] \in Seq(Entry) /\ pre[n] = Append(pre[n - 1], h[n])
  <2>1. /\ SubSeq(h, 1, 0) \in Seq(Entry) /\ Len(SubSeq(h, 1, 0)) = 0
        /\ SubSeq(h, 1, N) = h
    BY <1>0, PrefixFacts
  <2>2. \A n \in 1 .. N :
          /\ SubSeq(h, 1, n - 1) \in Seq(Entry)
          /\ SubSeq(h, 1, n) = Append(SubSeq(h, 1, n - 1), h[n])
    BY <1>0, PrefixFacts
  <2>3. \A n \in 0 .. N : pre[n] = SubSeq(h, 1, n)
    BY <1>3
  <2>4. \A n \in 1 .. N : pre[n - 1] = SubSeq(h, 1, n - 1) /\ pre[n] = SubSeq(h, 1, n)
    BY <1>1, <2>3
  <2>5. pre[0] = SubSeq(h, 1, 0) /\ pre[N] = SubSeq(h, 1, N)
    BY <1>1, <2>3
  <2>6. QED
    BY <2>1, <2>2, <2>4, <2>5, ZenonT(30)
<1> DEFINE Same == {n \in 0 .. N : RolesSaid(f[n].out) = RolesSaid(pre[n])}
<1>5. 0 \in Same
  <2>1. PICK e : e = f[0].out
    OBVIOUS
  <2>2. e \in Seq(Entry) /\ Len(e) = 0
    <3>1. f[0] \in Acc
      BY <1>1, <1>2
    <3>2. e = << >>
      BY <1>2, <2>1
    <3>3. QED
      BY <2>1, <3>1, <3>2 DEF Acc
  <2>3. RolesSaid(e) = << >> /\ RolesSaid(pre[0]) = << >>
    BY <1>4, <2>2, RolesSaidEmpty
  <2>4. QED
    BY <1>1, <2>1, <2>3
<1>6. ASSUME NEW n \in 1 .. N, n - 1 \in Same PROVE n \in Same
  <2>1. PICK a, q, m : a = f[n - 1] /\ q = pre[n - 1] /\ m = h[n]
    OBVIOUS
  <2>2. a \in Acc /\ q \in Seq(Entry) /\ m \in Entry /\ RolesSaid(a.out) = RolesSaid(q)
    BY <1>1, <1>2, <1>4, <1>6, <2>1
  <2>3. f[n] = Repaired(a, m, R) /\ pre[n] = Append(q, m)
    BY <1>2, <1>4, <2>1
  <2>4. RolesSaid(Repaired(a, m, R).out) = RolesSaid(Append(q, m))
    <3>1. RolesSaid(Repaired(a, m, R).out) =
            IF m \in Spoken THEN Append(RolesSaid(a.out), m.role) ELSE RolesSaid(a.out)
      BY <1>1, <2>2, RepairedSaid, Zenon
    <3>2. RolesSaid(Append(q, m)) =
            IF m \in Spoken THEN Append(RolesSaid(q), m.role) ELSE RolesSaid(q)
      BY <2>2, RolesSaidAppend, Zenon
    <3>3. RolesSaid(a.out) = RolesSaid(q)
      BY <2>2
    <3>4. CASE m \in Spoken
      BY <3>1, <3>2, <3>3, <3>4, Zenon
    <3>5. CASE m \notin Spoken
      BY <3>1, <3>2, <3>3, <3>5, Zenon
    <3>6. QED
      BY <3>4, <3>5
  <2>5. n \in 0 .. N /\ RolesSaid(f[n].out) = RolesSaid(pre[n])
    BY <1>1, <2>3, <2>4
  <2>6. QED
    BY <2>5
<1>7. \A n \in 0 .. N : n \in Same
  <2> HIDE DEF Same
  <2>1. QED
    BY <1>1, <1>5, <1>6, InductTo
<1>8. RolesSaid(f[N].out) = RolesSaid(pre[N])
  BY <1>1, <1>7
<1>9. Sanitize(h) = f[N].out
  BY <1>0 DEF Sanitize
<1>10. QED
  BY <1>4, <1>8, <1>9

-----------------------------------------------------------------------------
(* Well-formed so far: every call is answered, once, right after the        *)
(* message that made it -- except those in P, which the last message that   *)
(* is not a tool message made and nothing has answered yet.                 *)

AllTools(r, i) == \A k \in i + 1 .. Len(r) : r[k].role = "tool"

SingleResults(r) ==
  \A j \in 1 .. Len(r) : r[j].role = "tool" => \E id \in Int : r[j].calls = {id}

CallsAnswered(r, P) ==
  \A i \in 1 .. Len(r) : r[i].role = "assistant" =>
    \A id \in r[i].calls :
      \/ \E j \in ResultsAfter(r, i) : r[j].calls = {id}
      \/ id \in P /\ AllTools(r, i)

ResultsAsked(r) ==
  \A j \in 1 .. Len(r) : r[j].role = "tool" =>
    \E i \in 1 .. j - 1 :
      /\ r[i].role = "assistant"
      /\ j \in ResultsAfter(r, i)
      /\ r[j].calls \subseteq r[i].calls
      /\ \A k \in ResultsAfter(r, i) \ {j} : r[k].calls # r[j].calls

NoneAnswered(r, P) == \A j \in 1 .. Len(r) : r[j].role = "tool" => r[j].calls \cap P = {}

Awaited(r, P) ==
  \A id \in P : \E i \in 1 .. Len(r) :
    r[i].role = "assistant" /\ id \in r[i].calls /\ AllTools(r, i)

Block(r, P) ==
  /\ SingleResults(r)
  /\ CallsAnswered(r, P)
  /\ ResultsAsked(r)
  /\ NoneAnswered(r, P)
  /\ Awaited(r, P)

LEMMA BlockWellFormed ==
  ASSUME NEW r \in Seq(Entry), Block(r, {})
  PROVE  WellFormed(r)
<1>1. DOMAIN r = 1 .. Len(r)
  OBVIOUS
<1>2. CallsAnswered(r, {}) /\ ResultsAsked(r)
  BY DEF Block
<1>3. \A i \in DOMAIN r : r[i].role = "assistant" =>
        \A id \in r[i].calls : \E j \in ResultsAfter(r, i) : r[j].calls = {id}
  BY <1>1, <1>2 DEF CallsAnswered
<1>4. QED
  BY <1>1, <1>2, <1>3 DEF WellFormed, ResultsAsked

LEMMA AppendFacts ==
  ASSUME NEW r \in Seq(Entry), NEW m \in Entry
  PROVE  /\ Append(r, m) \in Seq(Entry)
         /\ Len(r) \in Nat
         /\ Len(Append(r, m)) = Len(r) + 1
         /\ Append(r, m)[Len(r) + 1] = m
         /\ \A i \in 1 .. Len(r) : Append(r, m)[i] = r[i]
OBVIOUS

\* What comes after a message does not change when a message is appended ...
LEMMA ResultsAfterMessage ==
  ASSUME NEW r \in Seq(Entry), NEW m \in Entry, m.role # "tool", NEW i \in 1 .. Len(r)
  PROVE  ResultsAfter(Append(r, m), i) = ResultsAfter(r, i)
<1>1. PICK s, N : s = Append(r, m) /\ N = Len(r)
  OBVIOUS
<1>2. N \in Nat /\ Len(s) = N + 1 /\ s[N + 1] = m /\ \A k \in 1 .. N : s[k] = r[k]
  BY <1>1, AppendFacts
<1>3. ASSUME NEW j \in i + 1 .. N + 1, \A k \in i + 1 .. j : s[k].role = "tool"
      PROVE  j # N + 1
  BY <1>1, <1>2, <1>3
<1>4. QED
  BY <1>1, <1>2, <1>3 DEF ResultsAfter

\* ... but by the message itself, if it is a tool message of that block.
LEMMA ResultsAfterResult ==
  ASSUME NEW r \in Seq(Entry), NEW m \in Entry, m.role = "tool", NEW i \in 1 .. Len(r)
  PROVE  ResultsAfter(Append(r, m), i) =
           IF AllTools(r, i) THEN ResultsAfter(r, i) \union {Len(r) + 1} ELSE ResultsAfter(r, i)
<1>1. PICK s, N : s = Append(r, m) /\ N = Len(r)
  OBVIOUS
<1>2. N \in Nat /\ Len(s) = N + 1 /\ s[N + 1] = m /\ \A k \in 1 .. N : s[k] = r[k]
  BY <1>1, AppendFacts
<1>3. \A j : j \in ResultsAfter(s, i) <=>
        \/ j \in ResultsAfter(r, i)
        \/ j = N + 1 /\ \A k \in i + 1 .. N : r[k].role = "tool"
  BY <1>1, <1>2 DEF ResultsAfter
<1>4. QED
  BY <1>1, <1>3 DEF AllTools

\* A message with new calls: now they are awaited.
LEMMA BlockMessage ==
  ASSUME NEW r \in Seq(Entry), Block(r, {}), NEW m \in Entry,
         m.role # "tool", m.role = "assistant" \/ m.calls = {}, NoneAnswered(r, m.calls)
  PROVE  Block(Append(r, m), m.calls)
<1>1. PICK s, N : s = Append(r, m) /\ N = Len(r)
  OBVIOUS
<1>2. N \in Nat /\ Len(s) = N + 1 /\ s[N + 1] = m /\ \A k \in 1 .. N : s[k] = r[k]
  BY <1>1, AppendFacts
<1>3. \A i \in 1 .. N : ResultsAfter(s, i) = ResultsAfter(r, i)
  BY <1>1, ResultsAfterMessage
<1>4. \A i \in 1 .. N : \A j \in ResultsAfter(r, i) : j \in 1 .. N
  BY <1>1, <1>2 DEF ResultsAfter
<1>5. SingleResults(s)
  BY <1>1, <1>2 DEF Block, SingleResults
<1>6. CallsAnswered(s, m.calls)
  <2> SUFFICES ASSUME NEW i \in 1 .. N + 1, s[i].role = "assistant", NEW id \in s[i].calls
               PROVE  \/ \E j \in ResultsAfter(s, i) : s[j].calls = {id}
                      \/ id \in m.calls /\ AllTools(s, i)
    BY <1>2 DEF CallsAnswered
  <2>1. CASE i = N + 1
    BY <1>2, <2>1 DEF AllTools
  <2>2. CASE i \in 1 .. N
    <3>1. PICK j \in ResultsAfter(r, i) : r[j].calls = {id}
      BY <1>1, <1>2, <2>2 DEF Block, CallsAnswered
    <3>2. j \in ResultsAfter(s, i) /\ s[j].calls = {id}
      BY <1>2, <1>3, <1>4, <2>2, <3>1
    <3>3. QED
      BY <3>2
  <2>3. QED
    BY <1>2, <2>1, <2>2
<1>7. ResultsAsked(s)
  <2> SUFFICES ASSUME NEW j \in 1 .. N + 1, s[j].role = "tool"
               PROVE  \E i \in 1 .. j - 1 :
                        /\ s[i].role = "assistant"
                        /\ j \in ResultsAfter(s, i)
                        /\ s[j].calls \subseteq s[i].calls
                        /\ \A k \in ResultsAfter(s, i) \ {j} : s[k].calls # s[j].calls
    BY <1>2 DEF ResultsAsked
  <2>1. j \in 1 .. N /\ r[j].role = "tool"
    BY <1>2
  <2>2. PICK i \in 1 .. j - 1 :
          /\ r[i].role = "assistant"
          /\ j \in ResultsAfter(r, i)
          /\ r[j].calls \subseteq r[i].calls
          /\ \A k \in ResultsAfter(r, i) \ {j} : r[k].calls # r[j].calls
    BY <1>1, <2>1 DEF Block, ResultsAsked
  <2>3. i \in 1 .. N
    BY <1>2, <2>1
  <2>4. \A k \in ResultsAfter(s, i) \ {j} : s[k].calls # s[j].calls
    BY <1>2, <1>3, <1>4, <2>1, <2>2, <2>3
  <2>5. QED
    BY <1>2, <1>3, <2>1, <2>2, <2>3, <2>4
<1>8. NoneAnswered(s, m.calls)
  BY <1>1, <1>2 DEF NoneAnswered
<1>9. Awaited(s, m.calls)
  <2>1. N + 1 \in 1 .. Len(s) /\ AllTools(s, N + 1)
    BY <1>2 DEF AllTools
  <2>2. \A id \in m.calls : s[N + 1].role = "assistant" /\ id \in s[N + 1].calls
    BY <1>2
  <2>3. QED
    BY <2>1, <2>2 DEF Awaited
<1>10. QED
  BY <1>1, <1>5, <1>6, <1>7, <1>8, <1>9 DEF Block

\* The result of an awaited call: one less is awaited.
LEMMA BlockResult ==
  ASSUME NEW r \in Seq(Entry), NEW P, Block(r, P), NEW m \in Entry, NEW id \in Int,
         m.role = "tool", m.calls = {id}, id \in P
  PROVE  Block(Append(r, m), P \ {id})
<1>1. PICK s, N : s = Append(r, m) /\ N = Len(r)
  OBVIOUS
<1>2. N \in Nat /\ Len(s) = N + 1 /\ s[N + 1] = m /\ \A k \in 1 .. N : s[k] = r[k]
  BY <1>1, AppendFacts
<1>3. \A i \in 1 .. N : ResultsAfter(s, i) =
        IF AllTools(r, i) THEN ResultsAfter(r, i) \union {N + 1} ELSE ResultsAfter(r, i)
  BY <1>1, ResultsAfterResult
<1>4. \A i \in 1 .. N : \A j \in ResultsAfter(r, i) : j \in 1 .. N /\ r[j].role = "tool"
  BY <1>1, <1>2 DEF ResultsAfter
<1>4a. \A i \in 1 .. N : AllTools(r, i) => AllTools(s, i)
  BY <1>1, <1>2 DEF AllTools
<1>4b. \A j \in 1 .. N : r[j].role = "tool" => id \notin r[j].calls
  BY <1>1 DEF Block, NoneAnswered
<1>5. SingleResults(s)
  <2> SUFFICES ASSUME NEW j \in 1 .. N + 1, s[j].role = "tool"
               PROVE  \E call \in Int : s[j].calls = {call}
    BY <1>2 DEF SingleResults
  <2>1. CASE j = N + 1
    BY <1>2, <2>1
  <2>2. CASE j \in 1 .. N
    BY <1>1, <1>2, <2>2 DEF Block, SingleResults
  <2>3. QED
    BY <1>2, <2>1, <2>2
<1>6. CallsAnswered(s, P \ {id})
  <2> SUFFICES ASSUME NEW i \in 1 .. N + 1, s[i].role = "assistant", NEW call \in s[i].calls
               PROVE  \/ \E j \in ResultsAfter(s, i) : s[j].calls = {call}
                      \/ call \in P \ {id} /\ AllTools(s, i)
    BY <1>2 DEF CallsAnswered
  <2>1. i \in 1 .. N /\ r[i].role = "assistant" /\ call \in r[i].calls
    BY <1>2
  <2>2. \/ \E j \in ResultsAfter(r, i) : r[j].calls = {call}
        \/ call \in P /\ AllTools(r, i)
    BY <1>1, <2>1 DEF Block, CallsAnswered
  <2>3. CASE \E j \in ResultsAfter(r, i) : r[j].calls = {call}
    <3>1. PICK j \in ResultsAfter(r, i) : r[j].calls = {call}
      BY <2>3
    <3>2. j \in ResultsAfter(s, i) /\ s[j].calls = {call}
      BY <1>2, <1>3, <1>4, <2>1, <3>1
    <3>3. QED
      BY <3>2
  <2>4. CASE call = id /\ AllTools(r, i)
    <3>1. N + 1 \in ResultsAfter(s, i) /\ s[N + 1].calls = {call}
      BY <1>2, <1>3, <2>1, <2>4
    <3>2. QED
      BY <3>1
  <2>5. CASE call # id /\ call \in P /\ AllTools(r, i)
    BY <1>4a, <2>1, <2>5
  <2>6. QED
    BY <2>2, <2>3, <2>4, <2>5
<1>7. ResultsAsked(s)
  <2> SUFFICES ASSUME NEW j \in 1 .. N + 1, s[j].role = "tool"
               PROVE  \E i \in 1 .. j - 1 :
                        /\ s[i].role = "assistant"
                        /\ j \in ResultsAfter(s, i)
                        /\ s[j].calls \subseteq s[i].calls
                        /\ \A k \in ResultsAfter(s, i) \ {j} : s[k].calls # s[j].calls
    BY <1>2 DEF ResultsAsked
  <2>1. CASE j \in 1 .. N
    <3>1. r[j].role = "tool"
      BY <1>2, <2>1
    <3>2. PICK i \in 1 .. j - 1 :
            /\ r[i].role = "assistant"
            /\ j \in ResultsAfter(r, i)
            /\ r[j].calls \subseteq r[i].calls
            /\ \A k \in ResultsAfter(r, i) \ {j} : r[k].calls # r[j].calls
      BY <1>1, <2>1, <3>1 DEF Block, ResultsAsked
    <3>3. i \in 1 .. N
      BY <1>2, <2>1
    <3>4. \A k \in ResultsAfter(s, i) \ {j} : s[k].calls # s[j].calls
      <4> SUFFICES ASSUME NEW k \in ResultsAfter(s, i) \ {j} PROVE s[k].calls # s[j].calls
        OBVIOUS
      <4>1. CASE k = N + 1
        <5>1. s[k].calls = {id}
          BY <1>2, <4>1
        <5>2. id \notin s[j].calls
          BY <1>2, <1>4b, <2>1, <3>1
        <5>3. QED
          BY <5>1, <5>2
      <4>2. CASE k # N + 1
        <5>1. k \in ResultsAfter(r, i) \ {j}
          BY <1>3, <3>3, <4>2
        <5>2. QED
          BY <1>2, <1>4, <2>1, <3>2, <3>3, <5>1
      <4>3. QED
        BY <4>1, <4>2
    <3>5. QED
      BY <1>2, <1>3, <2>1, <3>2, <3>3, <3>4
  <2>2. CASE j = N + 1
    <3>1. PICK i \in 1 .. N : r[i].role = "assistant" /\ id \in r[i].calls /\ AllTools(r, i)
      BY <1>1 DEF Block, Awaited
    <3>2. \A k \in ResultsAfter(s, i) \ {j} : s[k].calls # s[j].calls
      <4> SUFFICES ASSUME NEW k \in ResultsAfter(s, i) \ {j} PROVE s[k].calls # s[j].calls
        OBVIOUS
      <4>1. k \in ResultsAfter(r, i)
        BY <1>3, <2>2, <3>1
      <4>2. k \in 1 .. N /\ id \notin s[k].calls
        BY <1>2, <1>4, <1>4b, <3>1, <4>1
      <4>3. s[j].calls = {id}
        BY <1>2, <2>2
      <4>4. QED
        BY <4>2, <4>3
    <3>3. j \in ResultsAfter(s, i) /\ s[j].calls \subseteq s[i].calls
      BY <1>2, <1>3, <2>2, <3>1
    <3>4. i \in 1 .. j - 1 /\ s[i].role = "assistant"
      BY <1>2, <2>2, <3>1
    <3>5. QED
      BY <3>2, <3>3, <3>4
  <2>3. QED
    BY <1>2, <2>1, <2>2
<1>8. NoneAnswered(s, P \ {id})
  BY <1>1, <1>2 DEF Block, NoneAnswered
<1>9. Awaited(s, P \ {id})
  <2> SUFFICES ASSUME NEW call \in P \ {id}
               PROVE  \E i \in 1 .. N + 1 :
                        s[i].role = "assistant" /\ call \in s[i].calls /\ AllTools(s, i)
    BY <1>2 DEF Awaited
  <2>1. PICK i \in 1 .. N : r[i].role = "assistant" /\ call \in r[i].calls /\ AllTools(r, i)
    BY <1>1 DEF Block, Awaited
  <2>2. i \in 1 .. N + 1 /\ s[i].role = "assistant" /\ call \in s[i].calls /\ AllTools(s, i)
    BY <1>2, <1>4a, <2>1
  <2>3. QED
    BY <2>2
<1>10. QED
  BY <1>1, <1>5, <1>6, <1>7, <1>8, <1>9 DEF Block

-----------------------------------------------------------------------------
(* A transcript as the turns of a conversation write it: a call has one      *)
(* result at most, and the result stands among the tool added directly    *)
(* after the message that made the call -- every message that made it, and   *)
(* these may have been trimmed away.                                         *)

UsersCallNothing(h) == \A i \in 1 .. Len(h) : h[i].role = "user" => h[i].calls = {}

AnsweredOnce(h) ==
  \A i, j \in 1 .. Len(h) :
    h[i].role = "tool" /\ h[j].role = "tool" /\ i < j => h[i].calls \cap h[j].calls = {}

Placed(h) ==
  \A i, j \in 1 .. Len(h) :
    h[i].role = "assistant" /\ h[j].role = "tool" /\ h[i].calls \cap h[j].calls # {}
      => i < j /\ \A k \in i + 1 .. j : h[k].role = "tool"

Transcript(h) == UsersCallNothing(h) /\ SingleResults(h) /\ AnsweredOnce(h) /\ Placed(h)

\* The calls that a message after the first n of h answers.
AnsweredAfter(h, n) ==
  {id \in Int : \E j \in n + 1 .. Len(h) : h[j].role = "tool" /\ id \in h[j].calls}

MadeBefore(h, n, ids) ==
  \A id \in ids : \E i \in 1 .. n : h[i].role = "assistant" /\ id \in h[i].calls

ResultsFrom(h, n, r) ==
  \A p \in 1 .. Len(r) : r[p].role = "tool" =>
    \A id \in r[p].calls : \E j \in 1 .. n : h[j].role = "tool" /\ id \in h[j].calls

Repairing(h, n, acc) ==
  /\ Block(acc.out, acc.kept \cap AnsweredAfter(h, n))
  /\ MadeBefore(h, n, acc.kept)
  /\ ResultsFrom(h, n, acc.out)

\* A message that is not a tool's awaits nothing of what was kept before it.
LEMMA NothingAwaited ==
  ASSUME NEW h \in Seq(Entry), Transcript(h), NEW n \in 1 .. Len(h), h[n].role # "tool",
         NEW ids \in SUBSET Int, MadeBefore(h, n - 1, ids)
  PROVE  ids \cap AnsweredAfter(h, n - 1) = {} /\ ids \cap AnsweredAfter(h, n) = {}
<1>0. PICK N : N = Len(h)
  OBVIOUS
<1>1. N \in Nat /\ n \in 1 .. N
  BY <1>0
<1>2. ASSUME NEW id \in ids, NEW j \in n .. N, h[j].role = "tool", id \in h[j].calls
      PROVE  FALSE
  <2>1. PICK i \in 1 .. n - 1 : h[i].role = "assistant" /\ id \in h[i].calls
    BY DEF MadeBefore
  <2>2. i \in 1 .. N /\ j \in 1 .. N /\ n \in i + 1 .. j
    BY <1>1
  <2>3. \A k \in i + 1 .. j : h[k].role = "tool"
    BY <1>0, <1>2, <2>1, <2>2 DEF Transcript, Placed
  <2>4. QED
    BY <2>2, <2>3
<1>3. ASSUME NEW id \in ids, NEW j \in n + 1 .. N, h[j].role = "tool", id \in h[j].calls
      PROVE  FALSE
  <2>1. j \in n .. N
    BY <1>1
  <2>2. QED
    BY <1>2, <1>3, <2>1
<1>4. QED
  BY <1>0, <1>1, <1>2, <1>3 DEF AnsweredAfter

LEMMA RepairingStep ==
  ASSUME NEW h \in Seq(Entry), Transcript(h), NEW n \in 1 .. Len(h),
         NEW acc \in Acc, Repairing(h, n - 1, acc)
  PROVE  Repairing(h, n, Repaired(acc, h[n], Responded(h)))
<1>0. PICK N, m, R, b, r : /\ N = Len(h)
                           /\ m = h[n]
                           /\ R = Responded(h)
                           /\ b = Repaired(acc, m, R)
                           /\ r = acc.out
  OBVIOUS
<1>1. /\ N \in Nat /\ n \in 1 .. N /\ m \in Entry /\ R \in SUBSET Int
      /\ r \in Seq(Entry) /\ acc.kept \in SUBSET Int /\ m.calls \in SUBSET Int
  <2>1. m \in Entry
    BY <1>0
  <2>2. QED
    BY <1>0, <2>1, RespondedDef DEF Acc, Entry
<1>2. /\ Block(r, acc.kept \cap AnsweredAfter(h, n - 1))
      /\ MadeBefore(h, n - 1, acc.kept)
      /\ ResultsFrom(h, n - 1, r)
  BY <1>0 DEF Repairing
<1>3. MadeBefore(h, n, acc.kept) /\ ResultsFrom(h, n, r)
  BY <1>1, <1>2 DEF MadeBefore, ResultsFrom
<1>4. ASSUME NEW x \in Entry, x.role = "tool" => m.role = "tool" /\ x.calls = m.calls
      PROVE  ResultsFrom(h, n, Append(r, x))
  <2>1. PICK t, L : t = Append(r, x) /\ L = Len(r)
    OBVIOUS
  <2>2. L \in Nat /\ Len(t) = L + 1 /\ t[L + 1] = x /\ \A p \in 1 .. L : t[p] = r[p]
    BY <1>1, <2>1, AppendFacts
  <2>3. \A p \in 1 .. L : t[p].role = "tool" =>
          \A id \in t[p].calls : \E j \in 1 .. n : h[j].role = "tool" /\ id \in h[j].calls
    BY <1>3, <2>1, <2>2 DEF ResultsFrom
  <2>4. t[L + 1].role = "tool" =>
          \A id \in t[L + 1].calls : \E j \in 1 .. n : h[j].role = "tool" /\ id \in h[j].calls
    BY <1>0, <1>1, <1>4, <2>2
  <2>5. QED
    BY <2>1, <2>2, <2>3, <2>4 DEF ResultsFrom
<1>5. CASE m.role = "assistant" /\ m.calls \cap R # {}
  <2>1. PICK ids, x : ids = m.calls \cap R /\ x = Assistant(ids, m.text)
    OBVIOUS
  <2>2. /\ ids \in SUBSET Int /\ x \in Entry
        /\ x.role = "assistant" /\ x.calls = ids
    BY <1>1, <2>1 DEF Assistant, Entry
  <2>3. b.out = Append(r, x) /\ b.kept = acc.kept \union ids
    <3>1. /\ Repaired(acc, m, R).out = Append(acc.out, Assistant(m.calls \cap R, m.text))
          /\ Repaired(acc, m, R).kept = acc.kept \union (m.calls \cap R)
      BY <1>1, <1>5, RepairedCalls
    <3>2. QED
      BY <1>0, <2>1, <3>1
  <2>4. /\ acc.kept \cap AnsweredAfter(h, n - 1) = {}
        /\ acc.kept \cap AnsweredAfter(h, n) = {}
    BY <1>0, <1>1, <1>2, <1>5, NothingAwaited
  <2>5. \A id \in ids : \E j \in n + 1 .. N : h[j].role = "tool" /\ id \in h[j].calls
    <3> TAKE id \in ids
    <3>1. PICK j \in 1 .. N : h[j].role = "tool" /\ id \in h[j].calls
      BY <1>0, <2>1, RespondedDef
    <3>2. id \in h[n].calls /\ h[n].role = "assistant"
      BY <1>0, <1>5, <2>1
    <3>3. n < j
      BY <1>0, <1>1, <3>1, <3>2 DEF Transcript, Placed
    <3>4. QED
      BY <1>1, <3>1, <3>3
  <2>6. b.kept \cap AnsweredAfter(h, n) = ids
    BY <1>0, <2>2, <2>3, <2>4, <2>5 DEF AnsweredAfter
  <2>7. NoneAnswered(r, ids)
    <3> SUFFICES ASSUME NEW p \in 1 .. Len(r), r[p].role = "tool",
                        NEW id \in r[p].calls, id \in ids
                 PROVE  FALSE
      BY DEF NoneAnswered
    <3>1. PICK j \in 1 .. n - 1 : h[j].role = "tool" /\ id \in h[j].calls
      BY <1>2 DEF ResultsFrom
    <3>2. id \in h[n].calls /\ h[n].role = "assistant"
      BY <1>0, <1>5, <2>1
    <3>3. n < j
      BY <1>0, <1>1, <3>1, <3>2 DEF Transcript, Placed
    <3>4. QED
      BY <1>1, <3>1, <3>3
  <2>8. Block(Append(r, x), ids)
    BY <1>1, <1>2, <2>2, <2>4, <2>7, BlockMessage
  <2>9. MadeBefore(h, n, b.kept)
    BY <1>0, <1>1, <1>3, <1>5, <2>1, <2>3 DEF MadeBefore
  <2>10. ResultsFrom(h, n, b.out)
    BY <1>4, <2>2, <2>3
  <2>11. QED
    BY <1>0, <2>3, <2>6, <2>8, <2>9, <2>10 DEF Repairing
<1>6. CASE m.role # "tool" /\ ~ (m.role = "assistant" /\ m.calls \cap R # {})
  <2>1. /\ acc.kept \cap AnsweredAfter(h, n - 1) = {}
        /\ acc.kept \cap AnsweredAfter(h, n) = {}
    BY <1>0, <1>1, <1>2, <1>6, NothingAwaited
  <2>2. m.role # "assistant" => m.calls = {}
    <3>1. m.role \in {"user", "assistant", "tool"}
      BY <1>1 DEF Entry
    <3>2. QED
      BY <1>0, <1>1, <1>6, <3>1 DEF Transcript, UsersCallNothing
  <2>3. b.kept = acc.kept /\ \/ b.out = r
                             \/ b.out = Append(r, Assistant({}, TRUE))
                             \/ b.out = Append(r, m) /\ m.calls = {}
    <3>1. CASE m.role = "assistant" /\ m.calls # {}
      BY <1>0, <1>1, <1>6, <3>1, RepairedUnanswered
    <3>2. CASE m.role = "assistant" => m.calls = {}
      BY <1>0, <1>1, <1>6, <2>2, <3>2, RepairedOther
    <3>3. QED
      BY <3>1, <3>2
  <2>4. Block(r, {})
    BY <1>2, <2>1
  <2>5. b.kept \cap AnsweredAfter(h, n) = {}
    BY <2>1, <2>3
  <2>6. ASSUME NEW x \in Entry, x.role # "tool", x.calls = {} PROVE Block(Append(r, x), {})
    <3>1. NoneAnswered(r, {})
      BY DEF NoneAnswered
    <3>2. QED
      BY <1>1, <2>4, <2>6, <3>1, BlockMessage
  <2>7. Assistant({}, TRUE) \in Entry /\ Assistant({}, TRUE).role # "tool" /\ Assistant({}, TRUE).calls = {}
    BY DEF Assistant, Entry
  <2>8. Block(b.out, {}) /\ ResultsFrom(h, n, b.out)
    BY <1>1, <1>3, <1>4, <1>6, <2>3, <2>4, <2>6, <2>7
  <2>9. QED
    BY <1>0, <1>3, <2>3, <2>5, <2>8 DEF Repairing
<1>7. CASE m.role = "tool"
  <2>1. PICK id \in Int : m.calls = {id}
    BY <1>0, <1>7 DEF Transcript, SingleResults
  <2>2. b.kept = acc.kept /\ b.out = IF id \in acc.kept THEN Append(r, m) ELSE r
    BY <1>0, <1>1, <1>7, <2>1, RepairedTool
  <2>3. id \notin AnsweredAfter(h, n)
    <3> SUFFICES ASSUME NEW j \in n + 1 .. N, h[j].role = "tool", id \in h[j].calls
                 PROVE  FALSE
      BY <1>0 DEF AnsweredAfter
    <3>1. n \in 1 .. N /\ j \in 1 .. N /\ n < j
      BY <1>1
    <3>2. h[n].calls \cap h[j].calls = {}
      BY <1>0, <1>7, <3>1 DEF Transcript, AnsweredOnce
    <3>3. QED
      BY <1>0, <2>1, <3>2
  <2>4. AnsweredAfter(h, n) = AnsweredAfter(h, n - 1) \ {id}
    <3>1. ASSUME NEW c \in Int
          PROVE  (\E j \in n .. N : h[j].role = "tool" /\ c \in h[j].calls)
                   <=> \/ c = id
                       \/ \E j \in n + 1 .. N : h[j].role = "tool" /\ c \in h[j].calls
      BY <1>0, <1>1, <1>7, <2>1
    <3>2. \A c \in Int : c \in AnsweredAfter(h, n - 1) <=> c = id \/ c \in AnsweredAfter(h, n)
      BY <1>0, <1>1, <3>1 DEF AnsweredAfter
    <3>3. AnsweredAfter(h, n - 1) \subseteq Int /\ AnsweredAfter(h, n) \subseteq Int
      BY DEF AnsweredAfter
    <3>4. QED
      BY <2>3, <3>2, <3>3
  <2>5. id \in AnsweredAfter(h, n - 1)
    BY <1>0, <1>1, <1>7, <2>1 DEF AnsweredAfter
  <2>6. PICK P : P = acc.kept \cap AnsweredAfter(h, n - 1)
    OBVIOUS
  <2>7. CASE id \in acc.kept
    <3>1. Block(Append(r, m), P \ {id})
      BY <1>1, <1>2, <1>7, <2>1, <2>5, <2>6, <2>7, BlockResult
    <3>2. b.kept \cap AnsweredAfter(h, n) = P \ {id}
      BY <2>2, <2>4, <2>6
    <3>3. ResultsFrom(h, n, b.out)
      BY <1>1, <1>4, <1>7, <2>2, <2>7
    <3>4. QED
      BY <1>0, <1>3, <2>2, <2>7, <3>1, <3>2, <3>3 DEF Repairing
  <2>8. CASE id \notin acc.kept
    <3>1. b.kept \cap AnsweredAfter(h, n) = P
      BY <2>2, <2>4, <2>6, <2>8
    <3>2. QED
      BY <1>0, <1>2, <1>3, <2>2, <2>6, <2>8, <3>1 DEF Repairing
  <2>9. QED
    BY <2>7, <2>8
<1>8. QED
  BY <1>0, <1>5, <1>6, <1>7

\* The repair makes every transcript well-formed, and adds no result.
LEMMA SanitizeBlock ==
  ASSUME NEW h \in Seq(Entry), Transcript(h)
  PROVE  Block(Sanitize(h), {}) /\ ResultsFrom(h, Len(h), Sanitize(h))
<1>0. PICK N, f : N = Len(h) /\ f = Scanned(h)
  OBVIOUS
<1>1. N \in Nat
  BY <1>0
<1>2. /\ f[0] = [out |-> << >>, kept |-> {}]
      /\ \A n \in 1 .. N : f[n] = Repaired(f[n - 1], h[n], Responded(h))
      /\ \A n \in 0 .. N : f[n] \in Acc
  BY <1>0, ScannedDef
<1> DEFINE Reached == {n \in 0 .. N : Repairing(h, n, f[n])}
<1>3. 0 \in Reached
  <2>1. PICK r : r = f[0].out
    OBVIOUS
  <2>2. Len(r) = 0 /\ f[0].kept = {}
    BY <1>2, <2>1
  <2>3. Block(r, {})
    BY <2>2 DEF Block, SingleResults, CallsAnswered, ResultsAsked, NoneAnswered, Awaited
  <2>4. MadeBefore(h, 0, {}) /\ ResultsFrom(h, 0, r)
    BY <2>2 DEF MadeBefore, ResultsFrom
  <2>5. f[0].kept \cap AnsweredAfter(h, 0) = {}
    BY <2>2
  <2>6. Repairing(h, 0, f[0])
    BY <2>1, <2>2, <2>3, <2>4, <2>5 DEF Repairing
  <2>7. QED
    BY <1>1, <2>6
<1>4. ASSUME NEW n \in 1 .. N, n - 1 \in Reached PROVE n \in Reached
  <2>1. f[n - 1] \in Acc /\ Repairing(h, n - 1, f[n - 1])
    BY <1>1, <1>2, <1>4
  <2>2. Repairing(h, n, f[n])
    BY <1>0, <1>2, <2>1, RepairingStep
  <2>3. QED
    BY <1>1, <2>2
<1>5. \A n \in 0 .. N : n \in Reached
  <2> HIDE DEF Reached
  <2>1. QED
    BY <1>1, <1>3, <1>4, InductTo
<1>6. Repairing(h, N, f[N])
  BY <1>1, <1>5
<1>7. AnsweredAfter(h, N) = {}
  BY <1>0, <1>1 DEF AnsweredAfter
<1>8. f[N].kept \cap AnsweredAfter(h, N) = {}
  BY <1>7
<1>9. Block(f[N].out, {}) /\ ResultsFrom(h, N, f[N].out)
  BY <1>6, <1>8 DEF Repairing
<1>10. QED
  BY <1>0, <1>9 DEF Sanitize

-----------------------------------------------------------------------------
(* What each operation of a turn does to the whole transcript.              *)

Known(h, next) == \A i \in 1 .. Len(h) : \A id \in h[i].calls : id < next

\* The calls in P have no result yet, and only the last message that is not a
\* tool's made them.
Open(h, P) ==
  /\ NoneAnswered(h, P)
  /\ \A i \in 1 .. Len(h) :
       h[i].role = "assistant" /\ h[i].calls \cap P # {} => AllTools(h, i)

\* What is left after trimming, or before the last message, is still a transcript.
LEMMA TranscriptTrimmed ==
  ASSUME NEW h \in Seq(Entry), NEW next, Transcript(h), Known(h, next),
         NEW a \in Nat \ {0}, NEW b \in 0 .. Len(h)
  PROVE  /\ SubSeq(h, a, b) \in Seq(Entry)
         /\ Transcript(SubSeq(h, a, b))
         /\ Known(SubSeq(h, a, b), next)
<1>1. PICK s, N, L : s = SubSeq(h, a, b) /\ N = Len(h) /\ L = Len(s)
  OBVIOUS
<1>2. N \in Nat /\ a \in Nat \ {0} /\ b \in 0 .. N /\ s \in Seq(Entry) /\ L \in Nat
  BY <1>1
<1>3. \A i \in 1 .. L : i + a - 1 \in 1 .. N /\ s[i] = h[i + a - 1]
  BY <1>1, <1>2
<1>4. UsersCallNothing(s) /\ SingleResults(s) /\ Known(s, next)
  <2>1. UsersCallNothing(h) /\ SingleResults(h)
    BY DEF Transcript
  <2>2. UsersCallNothing(s)
    BY <1>1, <1>3, <2>1 DEF UsersCallNothing
  <2>3. SingleResults(s)
    BY <1>1, <1>3, <2>1 DEF SingleResults
  <2>4. Known(s, next)
    BY <1>1, <1>3 DEF Known
  <2>5. QED
    BY <2>2, <2>3, <2>4
<1>5. AnsweredOnce(s)
  <2> SUFFICES ASSUME NEW i \in 1 .. L, NEW j \in 1 .. L, i < j,
                      s[i].role = "tool", s[j].role = "tool"
               PROVE  s[i].calls \cap s[j].calls = {}
    BY <1>1 DEF AnsweredOnce
  <2>1. i + a - 1 < j + a - 1
    BY <1>2
  <2>2. QED
    BY <1>1, <1>3, <2>1 DEF Transcript, AnsweredOnce
<1>6. Placed(s)
  <2> SUFFICES ASSUME NEW i \in 1 .. L, NEW j \in 1 .. L,
                      s[i].role = "assistant", s[j].role = "tool", s[i].calls \cap s[j].calls # {}
               PROVE  i < j /\ \A k \in i + 1 .. j : s[k].role = "tool"
    <3>1. Len(s) = L
      BY <1>1
    <3>2. QED
      BY <3>1, Zenon DEF Placed
  <2>1. /\ i + a - 1 < j + a - 1
        /\ \A k \in (i + a - 1) + 1 .. j + a - 1 : h[k].role = "tool"
    BY <1>1, <1>3 DEF Transcript, Placed
  <2>2. i < j
    BY <1>2, <2>1
  <2>3. ASSUME NEW k \in i + 1 .. j PROVE s[k].role = "tool"
    <3>1. k + a - 1 \in (i + a - 1) + 1 .. j + a - 1 /\ k \in 1 .. L
      BY <1>2, <2>3
    <3>2. QED
      BY <1>3, <2>1, <3>1
  <2>4. QED
    BY <2>2, <2>3
<1>7. QED
  BY <1>1, <1>2, <1>4, <1>5, <1>6 DEF Transcript

\* A message with new calls, or with none.
LEMMA TranscriptMessage ==
  ASSUME NEW h \in Seq(Entry), NEW next \in Int, Transcript(h), Known(h, next),
         NEW m \in Entry, m.role # "tool", m.role = "user" => m.calls = {},
         NEW later \in Int, next <= later, \A id \in m.calls : next <= id /\ id < later
  PROVE  /\ Append(h, m) \in Seq(Entry)
         /\ Transcript(Append(h, m))
         /\ Known(Append(h, m), later)
         /\ Open(Append(h, m), m.calls)
<1>1. PICK s, N : s = Append(h, m) /\ N = Len(h)
  OBVIOUS
<1>2. /\ N \in Nat /\ Len(s) = N + 1 /\ s[N + 1] = m /\ s \in Seq(Entry)
      /\ \A k \in 1 .. N : s[k] = h[k]
  BY <1>1, AppendFacts
<1>3. \A i \in 1 .. N : h[i].calls \in SUBSET Int /\ m.calls \in SUBSET Int
  <2>1. \A i \in 1 .. N : h[i] \in Entry
    BY <1>1
  <2>2. QED
    BY <2>1 DEF Entry
<1>4. \A i \in 1 .. N : h[i].calls \cap m.calls = {}
  BY <1>1, <1>3 DEF Known
<1>5. UsersCallNothing(s) /\ SingleResults(s)
  BY <1>1, <1>2 DEF Transcript, UsersCallNothing, SingleResults
<1>6. Known(s, later)
  <2> SUFFICES ASSUME NEW i \in 1 .. N + 1, NEW id \in s[i].calls PROVE id < later
    BY <1>2 DEF Known
  <2>1. CASE i = N + 1
    BY <1>2, <2>1
  <2>2. CASE i \in 1 .. N
    BY <1>1, <1>2, <1>3, <2>2 DEF Known
  <2>3. QED
    BY <1>2, <2>1, <2>2
<1>7. AnsweredOnce(s)
  BY <1>1, <1>2 DEF Transcript, AnsweredOnce
<1>8. Placed(s)
  <2> SUFFICES ASSUME NEW i \in 1 .. N + 1, NEW j \in 1 .. N + 1,
                      s[i].role = "assistant", s[j].role = "tool", s[i].calls \cap s[j].calls # {}
               PROVE  i < j /\ \A k \in i + 1 .. j : s[k].role = "tool"
    BY <1>2 DEF Placed
  <2>1. j \in 1 .. N
    BY <1>2
  <2>2. i \in 1 .. N
    BY <1>2, <1>4, <2>1
  <2>3. i < j /\ \A k \in i + 1 .. j : h[k].role = "tool"
    BY <1>1, <1>2, <2>1, <2>2 DEF Transcript, Placed
  <2>4. QED
    BY <1>2, <2>1, <2>2, <2>3
<1>9. Open(s, m.calls)
  <2>1. NoneAnswered(s, m.calls)
    BY <1>2, <1>4 DEF NoneAnswered
  <2>2. \A i \in 1 .. N + 1 : s[i].calls \cap m.calls # {} => i = N + 1
    BY <1>2, <1>4
  <2>3. AllTools(s, N + 1)
    BY <1>2 DEF AllTools
  <2>4. QED
    BY <1>2, <2>1, <2>2, <2>3 DEF Open
<1>10. QED
  BY <1>1, <1>2, <1>5, <1>6, <1>7, <1>8, <1>9 DEF Transcript

\* The result of a call that is open.
LEMMA TranscriptResult ==
  ASSUME NEW h \in Seq(Entry), NEW next, Transcript(h), Known(h, next),
         NEW P, Open(h, P), NEW id \in Int, id \in P, id < next
  PROVE  /\ Append(h, Tool(id)) \in Seq(Entry)
         /\ Transcript(Append(h, Tool(id)))
         /\ Known(Append(h, Tool(id)), next)
         /\ Open(Append(h, Tool(id)), P \ {id})
<1>1. PICK s, N, m : m = Tool(id) /\ s = Append(h, m) /\ N = Len(h)
  OBVIOUS
<1>2. m \in Entry /\ m.role = "tool" /\ m.calls = {id}
  BY <1>1 DEF Tool, Entry
<1>3. /\ N \in Nat /\ Len(s) = N + 1 /\ s[N + 1] = m /\ s \in Seq(Entry)
      /\ \A k \in 1 .. N : s[k] = h[k]
  BY <1>1, <1>2, AppendFacts
<1>4. \A j \in 1 .. N : h[j].role = "tool" => id \notin h[j].calls
  BY <1>1 DEF Open, NoneAnswered
<1>5. \A i \in 1 .. N : h[i].role = "assistant" /\ id \in h[i].calls =>
        \A k \in i + 1 .. N : h[k].role = "tool"
  BY <1>1 DEF Open, AllTools
<1>6. UsersCallNothing(s) /\ Known(s, next)
  BY <1>1, <1>2, <1>3 DEF Transcript, UsersCallNothing, Known
<1>7. SingleResults(s)
  <2> SUFFICES ASSUME NEW j \in 1 .. N + 1, s[j].role = "tool"
               PROVE  \E call \in Int : s[j].calls = {call}
    BY <1>3 DEF SingleResults
  <2>1. CASE j = N + 1
    <3>1. s[j].calls = {id}
      BY <1>2, <1>3, <2>1
    <3>2. QED
      BY <3>1
  <2>2. CASE j \in 1 .. N
    <3>1. h[j].role = "tool" /\ s[j].calls = h[j].calls
      BY <1>3, <2>2
    <3>2. \E call \in Int : h[j].calls = {call}
      BY <1>1, <2>2, <3>1 DEF Transcript, SingleResults
    <3>3. QED
      BY <3>1, <3>2
  <2>3. j = N + 1 \/ j \in 1 .. N
    BY <1>3
  <2>4. QED
    BY <2>1, <2>2, <2>3, Zenon
<1>8. AnsweredOnce(s)
  <2> SUFFICES ASSUME NEW i \in 1 .. N + 1, NEW j \in 1 .. N + 1, i < j,
                      s[i].role = "tool", s[j].role = "tool"
               PROVE  s[i].calls \cap s[j].calls = {}
    BY <1>3 DEF AnsweredOnce
  <2>1. i \in 1 .. N
    BY <1>3
  <2>2. CASE j = N + 1
    BY <1>2, <1>3, <1>4, <2>1, <2>2
  <2>3. CASE j \in 1 .. N
    BY <1>1, <1>3, <2>1, <2>3 DEF Transcript, AnsweredOnce
  <2>4. j = N + 1 \/ j \in 1 .. N
    BY <1>3
  <2>5. QED
    BY <2>2, <2>3, <2>4, Zenon
<1>9. Placed(s)
  <2> SUFFICES ASSUME NEW i \in 1 .. N + 1, NEW j \in 1 .. N + 1,
                      s[i].role = "assistant", s[j].role = "tool", s[i].calls \cap s[j].calls # {}
               PROVE  i < j /\ \A k \in i + 1 .. j : s[k].role = "tool"
    BY <1>3 DEF Placed
  <2>1. i \in 1 .. N
    BY <1>2, <1>3
  <2>2. CASE j = N + 1
    <3>1. id \in h[i].calls /\ h[i].role = "assistant"
      BY <1>2, <1>3, <2>1, <2>2
    <3>2. QED
      BY <1>2, <1>3, <1>5, <2>1, <2>2, <3>1
  <2>3. CASE j \in 1 .. N
    BY <1>1, <1>3, <2>1, <2>3 DEF Transcript, Placed
  <2>4. j = N + 1 \/ j \in 1 .. N
    BY <1>3
  <2>5. QED
    BY <2>2, <2>3, <2>4, Zenon
<1>10. Open(s, P \ {id})
  <2>1. NoneAnswered(s, P \ {id})
    BY <1>1, <1>2, <1>3 DEF Open, NoneAnswered
  <2>2. ASSUME NEW i \in 1 .. N + 1, s[i].role = "assistant", s[i].calls \cap (P \ {id}) # {}
        PROVE  AllTools(s, i)
    <3>1. i \in 1 .. N /\ h[i].role = "assistant" /\ h[i].calls \cap P # {}
      BY <1>2, <1>3, <2>2
    <3>2. AllTools(h, i)
      BY <1>1, <3>1 DEF Open
    <3>3. QED
      BY <1>1, <1>2, <1>3, <3>2 DEF AllTools
  <2>3. QED
    BY <1>3, <2>1, <2>2 DEF Open
<1>11. QED
  BY <1>1, <1>3, <1>6, <1>7, <1>8, <1>9, <1>10 DEF Transcript

-----------------------------------------------------------------------------
(* The invariant of a conversation whose call ids are all the provider's.   *)

Whole == history \o appended

ResultsKnown(r, next) ==
  \A p \in 1 .. Len(r) : r[p].role = "tool" => \A id \in r[p].calls : id < next

HistoryInv ==
  /\ HistoryTypeOK
  /\ phase = "idle" => appended = << >>
  /\ phase # "calls" => open = << >>
  /\ \A i, j \in 1 .. Len(open) : i < j => open[i] # open[j]
  /\ \A id \in ToSet(open) : id < nextId
  /\ Transcript(Whole) /\ Known(Whole, nextId) /\ Open(Whole, ToSet(open))
  /\ phase # "idle" => Block(Request, ToSet(open)) /\ ResultsKnown(Request, nextId)

LEMMA ConcatFacts ==
  ASSUME NEW h \in Seq(Entry), NEW a \in Seq(Entry), NEW m \in Entry
  PROVE  /\ h \o << >> = h
         /\ h \o a \in Seq(Entry)
         /\ h \o Append(a, m) = Append(h \o a, m)
OBVIOUS

LEMMA ReplyIdsType ==
  ASSUME NEW source, NEW n \in Nat, nextId \in Nat
  PROVE  /\ ReplyIds(source, n) \in Seq(Int)
         /\ Len(ReplyIds(source, n)) = n
         /\ ToSet(ReplyIds(source, n)) \in SUBSET Int
<1>1. PICK s : s = ReplyIds(source, n)
  OBVIOUS
<1>2. s \in [1 .. n -> Int]
  BY <1>1 DEF ReplyIds
<1>3. s \in Seq(Int) /\ Len(s) = n
  BY <1>2
<1>4. ToSet(s) \in SUBSET Int
  BY <1>3 DEF ToSet
<1>5. QED
  BY <1>1, <1>3, <1>4

\* However calls are named, the variables keep their types.
LEMMA HistoryTypeStep == ASSUME HistoryTypeOK, [HistoryNext]_historyVars PROVE HistoryTypeOK'
<1> USE DEF HistoryTypeOK
<1>1. CASE Submit
  <2>1. PICK longer : longer = Append(history, User)
    OBVIOUS
  <2>2. longer \in Seq(Entry) /\ Len(longer) \in Nat
    BY <2>1, MessageTypes
  <2>3. PICK first \in 1 .. Len(longer) : history' = SubSeq(longer, first, Len(longer))
    BY <1>1, <2>1 DEF Submit
  <2>4. history' \in Seq(Entry)
    <3>1. \A a \in 1 .. Len(longer) : SubSeq(longer, a, Len(longer)) \in Seq(Entry)
      BY <2>2
    <3>2. QED
      BY <2>3, <3>1
  <2>5. turns' \in 0 .. MaxTurns /\ rounds' \in 0 .. MaxRounds
    BY <1>1, HistoryAssumption DEF Submit
  <2>6. appended' = << >> /\ open' = open /\ phase' = "asking" /\ nextId' = nextId
    BY <1>1 DEF Submit
  <2>7. appended' \in Seq(Entry)
    BY <2>6
  <2>8. QED
    BY <2>4, <2>5, <2>6, <2>7
<1>2. CASE ReplyWithCalls
  <2>1. PICK source \in Sources, n \in 1 .. MaxCallsPerReply, text \in BOOLEAN :
          /\ open' = ReplyIds(source, n)
          /\ appended' = Append(appended,
               Assistant(ToSet(ReplyIds(source, n)), text /\ source = "structured"))
          /\ nextId' = IF source = "structured" THEN nextId + n ELSE nextId
    BY <1>2 DEF ReplyWithCalls
  <2>2. n \in Nat
    BY HistoryAssumption
  <2>3. PICK m : m = Assistant(ToSet(ReplyIds(source, n)), text /\ source = "structured")
    OBVIOUS
  <2>4. m \in Entry
    BY <2>2, <2>3, ReplyIdsType DEF Assistant, Entry
  <2>5. open' \in Seq(Int) /\ appended' \in Seq(Entry) /\ nextId' \in Nat
    BY <2>1, <2>2, <2>3, <2>4, ReplyIdsType
  <2>6. rounds' \in 0 .. MaxRounds
    BY <1>2, HistoryAssumption DEF ReplyWithCalls
  <2>7. QED
    BY <1>2, <2>5, <2>6 DEF ReplyWithCalls
<1>3. CASE Result
  <2>1. Head(open) \in Int /\ Tail(open) \in Seq(Int)
    BY <1>3 DEF Result
  <2>2. Tool(Head(open)) \in Entry
    BY <2>1, MessageTypes
  <2>3. QED
    BY <1>3, <2>1, <2>2 DEF Result
<1>4. ASSUME NEW added \in Seq(Entry), Persist(added) PROVE HistoryTypeOK'
  BY <1>4 DEF Persist
<1>5. CASE FinalAnswer
  <2>1. PICK m : m = Assistant({}, TRUE)
    OBVIOUS
  <2>2. m \in Entry
    BY <2>1, MessageTypes
  <2>3. Append(appended, m) \in Seq(Entry)
    BY <2>2
  <2>4. Persist(Append(appended, m)) \/ Persist(appended)
    BY <1>5, <2>1 DEF FinalAnswer
  <2>5. QED
    BY <1>4, <2>3, <2>4
<1>6. CASE IterationLimit \/ Stopped
  BY <1>4, <1>6 DEF IterationLimit, Stopped
<1>7. CASE Failed
  <2>1. history # << >> => Front(history) \in Seq(Entry)
    <3>1. \A h \in Seq(Entry) : Len(h) # 0 => SubSeq(h, 1, Len(h) - 1) \in Seq(Entry)
      OBVIOUS
    <3>2. history # << >> => Len(history) # 0
      OBVIOUS
    <3>3. QED
      BY <3>1, <3>2 DEF Front
  <2>2. QED
    BY <1>7, <2>1 DEF Failed
<1>8. CASE UNCHANGED historyVars
  BY <1>8 DEF historyVars
<1>9. QED
  BY <1>1, <1>2, <1>3, <1>5, <1>6, <1>7, <1>8 DEF HistoryNext

\* The transcript, the calls of the running reply and the counters keep their
\* types, whichever way replies name their calls.
THEOREM HistoryTypes == HistorySpec => []HistoryTypeOK
<1>1. HistoryInit => HistoryTypeOK
  BY HistoryAssumption DEF HistoryInit, HistoryTypeOK
<1>2. HistoryTypeOK /\ [HistoryNext]_historyVars => HistoryTypeOK'
  BY HistoryTypeStep
<1>3. QED
  BY <1>1, <1>2, PTL DEF HistorySpec

\* A call answered in the history is still answered in every request, with its
\* result, whichever way replies name their calls.
THEOREM AnswersSurvive == HistorySpec => []AnsweredCallsSurvive
<1>1. HistoryTypeOK => AnsweredCallsSurvive
  <2> SUFFICES ASSUME HistoryTypeOK, NEW i \in DOMAIN history, NEW j \in DOMAIN history,
                      history[i].role = "assistant", history[j].role = "tool", i < j,
                      history[j].calls \subseteq history[i].calls
               PROVE  history[j] \in ToSet(Sanitize(history))
    BY DEF AnsweredCallsSurvive
  <2>1. history \in Seq(Entry) /\ DOMAIN history = 1 .. Len(history)
    BY DEF HistoryTypeOK
  <2>2. PICK p \in 1 .. Len(Sanitize(history)) : Sanitize(history)[p] = history[j]
    BY <2>1, AnsweredCallSurvives
  <2>3. Sanitize(history) \in Seq(Entry)
    BY <2>1, SanitizeType
  <2>4. QED
    BY <2>2, <2>3 DEF ToSet
<1>2. QED
  BY <1>1, HistoryTypes, PTL

\* Every request says what the history says, in the same order.
THEOREM WordsSurvive == HistorySpec => []TextSurvives
<1>1. HistoryTypeOK => TextSurvives
  BY SanitizeSaid DEF HistoryTypeOK, TextSurvives
<1>2. QED
  BY <1>1, HistoryTypes, PTL

-----------------------------------------------------------------------------
(* With ids of the provider's only, every request is well-formed.           *)

LEMMA NoneOpen == ToSet(<< >>) = {}
BY DEF ToSet

LEMMA OpenNothing ==
  ASSUME NEW h \in Seq(Entry)
  PROVE  Open(h, {})
BY DEF Open, NoneAnswered

LEMMA ResultsKnownAppend ==
  ASSUME NEW r \in Seq(Entry), NEW next \in Int, ResultsKnown(r, next), NEW m \in Entry,
         NEW later \in Int, next <= later, m.role = "tool" => \A id \in m.calls : id < later
  PROVE  ResultsKnown(Append(r, m), later)
<1>1. PICK s, N : s = Append(r, m) /\ N = Len(r)
  OBVIOUS
<1>2. N \in Nat /\ Len(s) = N + 1 /\ s[N + 1] = m /\ \A k \in 1 .. N : s[k] = r[k]
  BY <1>1, AppendFacts
<1>3. \A i \in 1 .. N : r[i].calls \in SUBSET Int
  <2>1. \A i \in 1 .. N : r[i] \in Entry
    BY <1>1
  <2>2. QED
    BY <2>1 DEF Entry
<1>4. ASSUME NEW p \in 1 .. N + 1, s[p].role = "tool", NEW id \in s[p].calls PROVE id < later
  <2>1. CASE p = N + 1
    BY <1>2, <1>4, <2>1
  <2>2. CASE p \in 1 .. N
    <3>1. r[p].role = "tool" /\ id \in r[p].calls /\ id \in Int
      BY <1>2, <1>3, <1>4, <2>2
    <3>2. id < next
      BY <1>1, <2>2, <3>1 DEF ResultsKnown
    <3>3. QED
      BY <3>1, <3>2
  <2>3. QED
    BY <1>2, <2>1, <2>2
<1>5. QED
  BY <1>1, <1>2, <1>4 DEF ResultsKnown

\* A turn begins with what sanitizeToolMessages makes of the history.
LEMMA RequestBegins ==
  ASSUME NEW h \in Seq(Entry), NEW next, Transcript(h), Known(h, next)
  PROVE  Block(Sanitize(h), {}) /\ ResultsKnown(Sanitize(h), next)
<1>1. Block(Sanitize(h), {}) /\ ResultsFrom(h, Len(h), Sanitize(h))
  BY SanitizeBlock
<1>2. ASSUME NEW p \in 1 .. Len(Sanitize(h)), Sanitize(h)[p].role = "tool",
             NEW id \in Sanitize(h)[p].calls
      PROVE  id < next
  <2>1. PICK j \in 1 .. Len(h) : id \in h[j].calls
    BY <1>1, <1>2 DEF ResultsFrom
  <2>2. QED
    BY <2>1 DEF Known
<1>3. QED
  BY <1>1, <1>2 DEF ResultsKnown

LEMMA SubmitStep == ASSUME HistoryInv, Submit PROVE HistoryInv'
<1>1. HistoryTypeOK'
  BY HistoryTypeStep DEF HistoryInv, HistoryNext
<1>2. /\ history \in Seq(Entry) /\ nextId \in Int /\ appended = << >> /\ open = << >>
      /\ Transcript(history) /\ Known(history, nextId)
  BY ConcatFacts, MessageTypes DEF HistoryInv, HistoryTypeOK, Whole, Submit
<1>3. PICK longer : longer = Append(history, User)
  OBVIOUS
<1>4. longer \in Seq(Entry) /\ Transcript(longer) /\ Known(longer, nextId)
  <2>1. User \in Entry /\ User.role = "user" /\ User.calls = {}
    BY MessageTypes DEF User
  <2>2. QED
    BY <1>2, <1>3, <2>1, TranscriptMessage
<1>5. PICK first \in 1 .. Len(longer) : history' = SubSeq(longer, first, Len(longer))
  BY <1>3 DEF Submit
<1>6. PICK h : h = SubSeq(longer, first, Len(longer))
  OBVIOUS
<1>7. h \in Seq(Entry) /\ Transcript(h) /\ Known(h, nextId)
  <2>1. first \in Nat \ {0} /\ Len(longer) \in 0 .. Len(longer)
    BY <1>4
  <2>2. QED
    BY <1>4, <1>6, <2>1, TranscriptTrimmed
<1>8. /\ history' = h /\ appended' = << >> /\ open' = << >> /\ phase' = "asking"
      /\ nextId' = nextId
  BY <1>2, <1>5, <1>6 DEF Submit
<1>9. Whole' = h /\ Request' = Sanitize(h)
  <2>1. h \o << >> = h /\ Sanitize(h) \o << >> = Sanitize(h)
    BY <1>7, SanitizeType, ConcatFacts, MessageTypes
  <2>2. QED
    BY <1>8, <2>1 DEF Whole, Request
<1>10. Block(Request', {}) /\ ResultsKnown(Request', nextId')
  BY <1>7, <1>8, <1>9, RequestBegins
<1>11. ToSet(open') = {} /\ Len(open') = 0
  BY <1>8, NoneOpen
<1>12. Open(Whole', {})
  BY <1>7, <1>9, OpenNothing
<1>13. Transcript(Whole') /\ Known(Whole', nextId')
  BY <1>7, <1>8, <1>9
<1>14. QED
  BY <1>1, <1>8, <1>10, <1>11, <1>12, <1>13 DEF HistoryInv

LEMMA ReplyWithCallsStep ==
  ASSUME HistoryInv, Sources \subseteq {"structured"}, ReplyWithCalls
  PROVE  HistoryInv'
<1>1. HistoryTypeOK'
  BY HistoryTypeStep DEF HistoryInv, HistoryNext
<1>2. /\ history \in Seq(Entry) /\ appended \in Seq(Entry) /\ nextId \in Int /\ open = << >>
      /\ Transcript(Whole) /\ Known(Whole, nextId)
      /\ Block(Request, ToSet(open)) /\ ResultsKnown(Request, nextId)
  BY DEF HistoryInv, HistoryTypeOK, ReplyWithCalls
<1>3. PICK n \in 1 .. MaxCallsPerReply, text \in BOOLEAN :
        /\ open' = ReplyIds("structured", n)
        /\ appended' = Append(appended,
             Assistant(ToSet(ReplyIds("structured", n)), text /\ "structured" = "structured"))
        /\ nextId' = nextId + n
  BY DEF ReplyWithCalls
<1>4. PICK ids, calls, m : /\ ids = ReplyIds("structured", n)
                           /\ calls = ToSet(ids)
                           /\ m = Assistant(calls, text /\ "structured" = "structured")
  OBVIOUS
<1>5. n \in Nat /\ nextId + n \in Int
  BY <1>2, HistoryAssumption
<1>6. ids = [k \in 1 .. n |-> nextId + k - 1]
  BY <1>4 DEF ReplyIds
<1>7. ids \in Seq(Int) /\ Len(ids) = n /\ DOMAIN ids = 1 .. n
  BY <1>2, <1>5, <1>6
<1>8. \A id \in calls : id \in Int /\ nextId <= id /\ id < nextId + n
  <2>1. \A k \in 1 .. n : /\ nextId + k - 1 \in Int
                          /\ nextId <= nextId + k - 1
                          /\ nextId + k - 1 < nextId + n
    BY <1>2, <1>5
  <2>2. \A id \in calls : \E k \in 1 .. n : id = nextId + k - 1
    BY <1>4, <1>6, <1>7 DEF ToSet
  <2>3. QED
    BY <2>1, <2>2
<1>9. m \in Entry /\ m.role = "assistant" /\ m.calls = calls
  BY <1>4, <1>8 DEF Assistant, Entry
<1>10. appended' = Append(appended, m) /\ open' = ids /\ nextId' = nextId + n /\ phase' = "calls"
       /\ history' = history
  BY <1>3, <1>4 DEF ReplyWithCalls
<1>11. PICK w, r : w = Whole /\ r = Request
  OBVIOUS
<1>12. w \in Seq(Entry) /\ r \in Seq(Entry)
  BY <1>2, <1>11, SanitizeType, ConcatFacts, MessageTypes DEF Whole, Request
<1>13. Whole' = Append(w, m) /\ Request' = Append(r, m)
  <2>1. PICK z : z = Sanitize(history)
    OBVIOUS
  <2>2. z \in Seq(Entry)
    BY <1>2, <2>1, SanitizeType
  <2>3. history \o Append(appended, m) = Append(history \o appended, m)
    BY <1>2, <1>9, ConcatFacts
  <2>4. z \o Append(appended, m) = Append(z \o appended, m)
    BY <1>2, <1>9, <2>2, ConcatFacts
  <2>5. Whole' = history \o Append(appended, m) /\ Request' = z \o Append(appended, m)
    BY <1>10, <2>1 DEF Whole, Request
  <2>6. w = history \o appended /\ r = z \o appended
    BY <1>11, <2>1 DEF Whole, Request
  <2>7. QED
    BY <2>3, <2>4, <2>5, <2>6
<1>14. nextId <= nextId + n
  BY <1>2, <1>5
<1>15. /\ Transcript(Append(w, m))
       /\ Known(Append(w, m), nextId + n)
       /\ Open(Append(w, m), calls)
  BY <1>2, <1>5, <1>8, <1>9, <1>11, <1>12, <1>14, TranscriptMessage
<1>16. Block(r, {}) /\ ResultsKnown(r, nextId)
  BY <1>2, <1>11, NoneOpen
<1>17. NoneAnswered(r, calls)
  <2> SUFFICES ASSUME NEW j \in 1 .. Len(r), r[j].role = "tool",
                      NEW id \in r[j].calls, id \in calls
               PROVE  FALSE
    BY DEF NoneAnswered
  <2>1. id < nextId
    BY <1>16 DEF ResultsKnown
  <2>2. QED
    BY <1>2, <1>8, <2>1
<1>18. Block(Append(r, m), calls)
  BY <1>9, <1>12, <1>16, <1>17, BlockMessage
<1>19. ResultsKnown(Append(r, m), nextId + n)
  BY <1>2, <1>5, <1>9, <1>12, <1>14, <1>16, ResultsKnownAppend
<1>20. \A i, j \in 1 .. Len(ids) : i < j => ids[i] # ids[j]
  BY <1>2, <1>5, <1>6, <1>7
<1>21. ToSet(open') = calls
  BY <1>4, <1>10
<1>22. /\ \A i, j \in 1 .. Len(open') : i < j => open'[i] # open'[j]
       /\ \A id \in ToSet(open') : id < nextId'
  BY <1>8, <1>10, <1>20, <1>21
<1>23. Transcript(Whole') /\ Known(Whole', nextId') /\ Open(Whole', ToSet(open'))
  BY <1>10, <1>13, <1>15, <1>21
<1>24. Block(Request', ToSet(open')) /\ ResultsKnown(Request', nextId')
  BY <1>10, <1>13, <1>18, <1>19, <1>21
<1>25. QED
  BY <1>1, <1>10, <1>22, <1>23, <1>24 DEF HistoryInv

LEMMA ResultStep == ASSUME HistoryInv, Result PROVE HistoryInv'
<1>1. HistoryTypeOK'
  BY HistoryTypeStep DEF HistoryInv, HistoryNext
<1>2. /\ history \in Seq(Entry) /\ appended \in Seq(Entry) /\ nextId \in Int /\ open \in Seq(Int)
      /\ open # << >> /\ phase = "calls"
      /\ \A i, j \in 1 .. Len(open) : i < j => open[i] # open[j]
      /\ \A id \in ToSet(open) : id < nextId
      /\ Transcript(Whole) /\ Known(Whole, nextId) /\ Open(Whole, ToSet(open))
      /\ Block(Request, ToSet(open)) /\ ResultsKnown(Request, nextId)
  BY DEF HistoryInv, HistoryTypeOK, Result
<1>3. PICK id, rest, P, L, m : /\ id = Head(open) /\ rest = Tail(open) /\ P = ToSet(open)
                               /\ L = Len(open) /\ m = Tool(id)
  OBVIOUS
<1>4. /\ L \in Nat /\ L >= 1 /\ id = open[1] /\ id \in Int
      /\ rest \in Seq(Int) /\ Len(rest) = L - 1
      /\ \A i \in 1 .. L - 1 : rest[i] = open[i + 1]
  BY <1>2, <1>3
<1>5. \A c : c \in P <=> \E i \in 1 .. L : open[i] = c
  <2>1. open \in Seq(Int)
    BY <1>2
  <2>2. DOMAIN open = 1 .. L
    BY <1>3, <2>1
  <2>3. P = {open[i] : i \in 1 .. L}
    BY <1>3, <2>2 DEF ToSet
  <2>4. QED
    BY <2>3
<1>6. \A c : c \in ToSet(rest) <=> \E i \in 1 .. L - 1 : rest[i] = c
  <2>1. DOMAIN rest = 1 .. L - 1
    BY <1>4
  <2>2. ToSet(rest) = {rest[i] : i \in 1 .. L - 1}
    BY <2>1 DEF ToSet
  <2>3. QED
    BY <2>2
<1>7. id \in P /\ id < nextId
  BY <1>2, <1>3, <1>4, <1>5
<1>8. ToSet(rest) = P \ {id}
  <2>1. ASSUME NEW c \in ToSet(rest) PROVE c \in P \ {id}
    <3>1. PICK i \in 1 .. L - 1 : rest[i] = c
      BY <1>6, <2>1
    <3>2. i + 1 \in 1 .. L /\ open[i + 1] = c /\ open[1] # open[i + 1]
      BY <1>2, <1>3, <1>4, <3>1
    <3>3. QED
      BY <1>4, <1>5, <3>2
  <2>2. ASSUME NEW c \in P \ {id} PROVE c \in ToSet(rest)
    <3>1. PICK i \in 1 .. L : open[i] = c
      BY <1>5, <2>2
    <3>2. i # 1
      BY <1>4, <2>2, <3>1
    <3>3. i - 1 \in 1 .. L - 1 /\ rest[i - 1] = c
      BY <1>4, <3>1, <3>2
    <3>4. QED
      BY <1>6, <3>3
  <2>3. QED
    BY <2>1, <2>2
<1>9. \A i, j \in 1 .. Len(rest) : i < j => rest[i] # rest[j]
  BY <1>2, <1>3, <1>4
<1>10. /\ appended' = Append(appended, m) /\ open' = rest /\ nextId' = nextId /\ history' = history
       /\ phase' = IF L = 1 THEN "asking" ELSE "calls"
  BY <1>3 DEF Result
<1>11. PICK w, r : w = Whole /\ r = Request
  OBVIOUS
<1>12. /\ m \in Entry /\ m.role = "tool" /\ m.calls = {id}
  BY <1>3, <1>4 DEF Tool, Entry
<1>13. w \in Seq(Entry) /\ r \in Seq(Entry)
  BY <1>2, <1>11, <1>12, SanitizeType, ConcatFacts DEF Whole, Request
<1>14. Whole' = Append(w, m) /\ Request' = Append(r, m)
  <2>1. PICK z : z = Sanitize(history)
    OBVIOUS
  <2>2. z \in Seq(Entry)
    BY <1>2, <2>1, SanitizeType
  <2>3. history \o Append(appended, m) = Append(history \o appended, m)
    BY <1>2, <1>12, ConcatFacts
  <2>4. z \o Append(appended, m) = Append(z \o appended, m)
    BY <1>2, <1>12, <2>2, ConcatFacts
  <2>5. Whole' = history \o Append(appended, m) /\ Request' = z \o Append(appended, m)
    BY <1>10, <2>1 DEF Whole, Request
  <2>6. w = history \o appended /\ r = z \o appended
    BY <1>11, <2>1 DEF Whole, Request
  <2>7. QED
    BY <2>3, <2>4, <2>5, <2>6
<1>15. /\ Transcript(Append(w, m))
       /\ Known(Append(w, m), nextId)
       /\ Open(Append(w, m), P \ {id})
  BY <1>2, <1>3, <1>4, <1>7, <1>11, <1>13, TranscriptResult
<1>16. Block(Append(r, m), P \ {id})
  <2>1. Block(r, P)
    BY <1>2, <1>3, <1>11
  <2>2. QED
    BY <1>4, <1>7, <1>12, <1>13, <2>1, BlockResult
<1>17. ResultsKnown(Append(r, m), nextId)
  <2>1. ResultsKnown(r, nextId) /\ nextId <= nextId /\ \A c \in m.calls : c < nextId
    BY <1>2, <1>7, <1>11, <1>12
  <2>2. QED
    BY <1>2, <1>12, <1>13, <2>1, ResultsKnownAppend
<1>18. ToSet(open') = P \ {id}
  BY <1>8, <1>10
<1>19. /\ \A i, j \in 1 .. Len(open') : i < j => open'[i] # open'[j]
       /\ \A c \in ToSet(open') : c < nextId'
  BY <1>2, <1>3, <1>9, <1>10, <1>18
<1>20. phase' # "calls" => open' = << >>
  BY <1>4, <1>10
<1>21. Transcript(Whole') /\ Known(Whole', nextId') /\ Open(Whole', ToSet(open'))
  BY <1>10, <1>14, <1>15, <1>18
<1>22. Block(Request', ToSet(open')) /\ ResultsKnown(Request', nextId')
  BY <1>10, <1>14, <1>16, <1>17, <1>18
<1>23. phase' # "idle"
  BY <1>10
<1>24. QED
  BY <1>1, <1>19, <1>20, <1>21, <1>22, <1>23 DEF HistoryInv

\* Whatever the turn ends with, its transcript is the history of the next.
LEMMA IdleStep ==
  ASSUME NEW h \in Seq(Entry), Transcript(h), Known(h, nextId), HistoryTypeOK',
         history' = h, appended' = << >>, open' = << >>, phase' = "idle", nextId' = nextId
  PROVE  HistoryInv'
<1>1. Whole' = h
  <2>1. h \o << >> = h
    BY ConcatFacts, MessageTypes
  <2>2. QED
    BY <2>1 DEF Whole
<1>2. ToSet(open') = {} /\ Len(open') = 0
  BY NoneOpen
<1>3. Transcript(Whole') /\ Known(Whole', nextId') /\ Open(Whole', ToSet(open'))
  BY <1>1, <1>2, OpenNothing
<1>4. QED
  BY <1>2, <1>3 DEF HistoryInv

LEMMA PersistStep ==
  ASSUME HistoryInv, HistoryTypeOK',
         Persist(appended) \/ Persist(Append(appended, Assistant({}, TRUE)))
  PROVE  HistoryInv'
<1>1. /\ history \in Seq(Entry) /\ appended \in Seq(Entry) /\ nextId \in Int
      /\ Transcript(Whole) /\ Known(Whole, nextId)
  BY DEF HistoryInv, HistoryTypeOK
<1>2. PICK w, m : w = Whole /\ m = Assistant({}, TRUE)
  OBVIOUS
<1>3. m \in Entry /\ m.role = "assistant" /\ m.calls = {}
  BY <1>2, MessageTypes DEF Assistant
<1>4. w \in Seq(Entry) /\ history \o appended = w /\ history \o Append(appended, m) = Append(w, m)
  <2>1. /\ history \o appended \in Seq(Entry)
        /\ history \o Append(appended, m) = Append(history \o appended, m)
    BY <1>1, <1>3, ConcatFacts
  <2>2. QED
    BY <1>2, <2>1 DEF Whole
<1>5. Append(w, m) \in Seq(Entry) /\ Transcript(Append(w, m)) /\ Known(Append(w, m), nextId)
  <2>1. w \in Seq(Entry) /\ Transcript(w) /\ Known(w, nextId) /\ nextId \in Int /\ nextId <= nextId
    BY <1>1, <1>2, <1>4
  <2>2. QED
    BY <1>3, <2>1, TranscriptMessage
<1>6. /\ history' = w \/ history' = Append(w, m)
      /\ appended' = << >> /\ open' = << >> /\ phase' = "idle" /\ nextId' = nextId
  BY <1>2, <1>4 DEF Persist
<1>7. QED
  BY <1>1, <1>2, <1>4, <1>5, <1>6, IdleStep

LEMMA FailedStep == ASSUME HistoryInv, Failed PROVE HistoryInv'
<1>1. HistoryTypeOK'
  BY HistoryTypeStep DEF HistoryInv, HistoryNext
<1>2. /\ history \in Seq(Entry) /\ appended \in Seq(Entry) /\ nextId \in Int /\ open = << >>
      /\ Transcript(Whole) /\ Known(Whole, nextId)
  BY DEF HistoryInv, HistoryTypeOK, Failed
<1>3. PICK w, N : w = Whole /\ N = Len(history)
  OBVIOUS
<1>4. /\ w \in Seq(Entry) /\ N \in Nat /\ N \in 0 .. Len(w)
      /\ SubSeq(w, 1, N) = history /\ (N > 0 => SubSeq(w, 1, N - 1) = SubSeq(history, 1, N - 1))
  BY <1>2, <1>3 DEF Whole
<1>5. \E k \in 0 .. Len(w) : history' = SubSeq(w, 1, k)
  <2>1. history # << >> => N > 0
    BY <1>2, <1>3
  <2>2. history' = history \/ (history # << >> /\ history' = SubSeq(history, 1, N - 1))
    BY <1>3 DEF Failed, Front
  <2>3. QED
    BY <1>4, <2>1, <2>2
<1>6. PICK k \in 0 .. Len(w) : history' = SubSeq(w, 1, k)
  BY <1>5
<1>7. PICK h : h = SubSeq(w, 1, k)
  OBVIOUS
<1>8. h \in Seq(Entry) /\ Transcript(h) /\ Known(h, nextId)
  BY <1>2, <1>3, <1>4, <1>7, TranscriptTrimmed
<1>9. history' = h /\ appended' = << >> /\ open' = << >> /\ phase' = "idle" /\ nextId' = nextId
  BY <1>2, <1>6, <1>7 DEF Failed
<1>10. QED
  BY <1>1, <1>8, <1>9, IdleStep

LEMMA HistoryStarts == HistoryInit => HistoryInv
<1> SUFFICES ASSUME HistoryInit PROVE HistoryInv
  OBVIOUS
<1>1. HistoryTypeOK
  BY HistoryAssumption DEF HistoryInit, HistoryTypeOK
<1>2. Len(Whole) = 0 /\ Whole \in Seq(Entry) /\ ToSet(open) = {} /\ Len(open) = 0
  <2>1. PICK e : e = << >>
    OBVIOUS
  <2>2. e \in Seq(Entry) /\ Len(e) = 0
    BY <2>1
  <2>3. e \o << >> = e
    BY <2>2, ConcatFacts, MessageTypes
  <2>4. Whole = e
    BY <2>1, <2>3 DEF HistoryInit, Whole
  <2>5. QED
    BY <2>2, <2>4, NoneOpen DEF HistoryInit
<1>3. Transcript(Whole) /\ Known(Whole, nextId) /\ Open(Whole, ToSet(open))
  <2>1. ASSUME NEW w \in Seq(Entry), Len(w) = 0 PROVE Transcript(w) /\ Known(w, nextId)
    BY <2>1 DEF Transcript, UsersCallNothing, SingleResults, AnsweredOnce, Placed, Known
  <2>2. QED
    BY <1>2, <2>1, OpenNothing
<1>4. QED
  BY <1>1, <1>2, <1>3 DEF HistoryInit, HistoryInv

LEMMA HistoryStep ==
  ASSUME Sources \subseteq {"structured"}, HistoryInv, [HistoryNext]_historyVars
  PROVE  HistoryInv'
<1>1. HistoryTypeOK'
  BY HistoryTypeStep DEF HistoryInv
<1>2. CASE Submit
  BY <1>2, SubmitStep
<1>3. CASE ReplyWithCalls
  BY <1>3, ReplyWithCallsStep
<1>4. CASE Result
  BY <1>4, ResultStep
<1>5. CASE FinalAnswer \/ IterationLimit \/ Stopped
  BY <1>1, <1>5, PersistStep DEF FinalAnswer, IterationLimit, Stopped
<1>6. CASE Failed
  BY <1>6, FailedStep
<1>7. CASE UNCHANGED historyVars
  BY <1>7 DEF historyVars, HistoryInv, HistoryTypeOK, Whole, Request
<1>8. QED
  BY <1>2, <1>3, <1>4, <1>5, <1>6, <1>7 DEF HistoryNext

\* When call ids are unique in a conversation -- every id is the provider's --
\* whatever trimming cut and however earlier turns ended, every request is
\* well-formed: each call answered once, in the block of its message, and no
\* result without its call.
THEOREM WellFormedRequests ==
  ASSUME Sources \subseteq {"structured"}
  PROVE  HistorySpec => []RequestsWellFormed
<1>1. HistoryInit => HistoryInv
  BY HistoryStarts
<1>2. HistoryInv /\ [HistoryNext]_historyVars => HistoryInv'
  BY HistoryStep
<1>3. HistoryInv => RequestsWellFormed
  <2> SUFFICES ASSUME HistoryInv, phase = "asking" PROVE WellFormed(Request)
    BY DEF RequestsWellFormed
  <2>1. Block(Request, {})
    BY NoneOpen DEF HistoryInv
  <2>2. Request \in Seq(Entry)
    BY SanitizeType, ConcatFacts, MessageTypes DEF HistoryInv, HistoryTypeOK, Request
  <2>3. QED
    BY <2>1, <2>2, BlockWellFormed
<1>4. QED
  BY <1>1, <1>2, <1>3, PTL DEF HistorySpec

-----------------------------------------------------------------------------
(* The undo of a turn (AgentCheckpoint), for any number of turns and writes  *)
(* and any number of overlapping revert commands.                            *)


-----------------------------------------------------------------------------
(* The inductive invariant.                                                 *)

\* The checkpoint of a turn is filled only while the turn runs, and what is about
\* to be written has been captured.
TurnInv ==
  /\ \A t \in Turn : pending[t] # NoFile => t \in running /\ pending[t] \in Captured(t)
  /\ \A t \in Turn : t > agentTurns => snaps[t] = << >>
  /\ last \notin running

\* A snapshot s that holds a turn's text is of a file that turn has captured.
Traced(s) == s.original.by # 0 => s.file \in Captured(s.original.by)

SnapsTraced == \A t \in Turn : \A i \in DOMAIN snaps[t] : Traced(snaps[t][i])

\* A command that reverts does so for a turn that is over, with its snapshots.
CommandInv ==
  \A c \in Commands :
    command[c].at = "reverting" =>
      /\ command[c].turn \in 1 .. agentTurns
      /\ command[c].turn \notin running
      /\ \A i \in DOMAIN command[c].todo : Traced(command[c].todo[i])

CheckpointInv ==
  /\ CheckpointTypeOK
  /\ TurnInv
  /\ SnapsTraced
  /\ CommandInv
  /\ SnapshotsPredateTurn
  /\ EveryWriteCaptured

-----------------------------------------------------------------------------
(* What captures and commands do to the data.                               *)

\* What a file reads as is a content, and it is by whoever wrote the file, or by
\* nobody's turn.
LEMMA ReadsType ==
  ASSUME CheckpointTypeOK, NEW f \in Files, NEW text \in Reads(f)
  PROVE  /\ text \in Contents
         /\ text.by \in {0, disk[f].by}
<1>1. /\ Garbled \in Contents /\ Garbled.by = 0
      /\ Absent \in Contents /\ Absent.by = 0
  BY CheckpointAssumption DEF Garbled, Absent, Content, Contents
<1>2. QED
  BY <1>1 DEF Reads, Decoded, CheckpointTypeOK

\* A turn that reads a text of a file takes note where that is nothing of a file
\* that is there.
Noted(t, f, text) ==
  <<t, f>> \in unread' <=> (<<t, f>> \in unread \/ (text = Absent /\ disk[f] # Absent))

\* A capture leaves the snapshots there are, and may add one of a file that had
\* none, holding what the file reads as.
LEMMA CaptureEffect ==
  ASSUME CheckpointTypeOK, NEW u \in Turn, NEW f \in Files, Capture(u, f)
  PROVE  /\ snaps' \in [Turn -> Seq(Snapshot)]
         /\ f \in Captured(u)'
         /\ \A t \in Turn : \A i \in DOMAIN snaps[t] :
              i \in DOMAIN snaps'[t] /\ snaps'[t][i] = snaps[t][i]
         /\ \A t \in Turn : \A i \in DOMAIN snaps'[t] :
              \/ i \in DOMAIN snaps[t] /\ snaps'[t][i] = snaps[t][i]
              \/ /\ t = u
                 /\ f \notin Captured(t)
                 /\ \E text \in Reads(f) : snaps'[t][i] = Snap(f, text) /\ Noted(t, f, text)
<1>1. snaps \in [Turn -> Seq(Snapshot)]
  BY DEF CheckpointTypeOK
<1>2. CASE f \in Captured(u)
  <2>1. snaps' = snaps
    BY <1>2 DEF Capture, Writes
  <2>2. QED
    BY <2>1, <1>1, <1>2 DEF Captured
<1>3. CASE f \notin Captured(u)
  <2>1. PICK text \in Reads(f) :
          /\ snaps' = [snaps EXCEPT ![u] = Append(@, Snap(f, text))]
          /\ unread' = IF text = Absent /\ disk[f] # Absent THEN unread \union {<<u, f>>} ELSE unread
    BY <1>3 DEF Capture, Writes
  <2> DEFINE new == Snap(f, text)
  <2>2. new \in Snapshot /\ new.file = f
    BY ReadsType DEF Snapshot, Snap
  <2> HIDE DEF new
  <2>3. snaps'[u] = Append(snaps[u], new) /\ snaps[u] \in Seq(Snapshot)
    BY <2>1, <1>1 DEF new
  <2>4. snaps' \in [Turn -> Seq(Snapshot)]
    BY <2>1, <2>3, <2>2, <1>1 DEF new
  <2>5. \A t \in Turn \ {u} : snaps'[t] = snaps[t]
    BY <2>1, <1>1
  <2>6. /\ DOMAIN snaps[u] = 1 .. Len(snaps[u])
        /\ DOMAIN snaps'[u] = 1 .. Len(snaps[u]) + 1
        /\ snaps'[u][Len(snaps[u]) + 1] = new
        /\ \A i \in 1 .. Len(snaps[u]) : snaps'[u][i] = snaps[u][i]
        /\ Len(snaps[u]) \in Nat
    BY <2>3, <2>2
  <2>7. f \in Captured(u)'
    <3>1. Len(snaps[u]) + 1 \in DOMAIN snaps'[u]
      BY <2>6
    <3>2. QED
      BY <3>1, <2>2, <2>6 DEF Captured
  <2>8. \A t \in Turn : \A i \in DOMAIN snaps[t] :
          i \in DOMAIN snaps'[t] /\ snaps'[t][i] = snaps[t][i]
    BY <2>5, <2>6
  <2>9. \A t \in Turn : \A i \in DOMAIN snaps'[t] :
          \/ i \in DOMAIN snaps[t] /\ snaps'[t][i] = snaps[t][i]
          \/ t = u /\ snaps'[t][i] = new
    BY <2>5, <2>6
  <2>10. Noted(u, f, text)
    BY <2>1 DEF Noted
  <2>11. QED
    BY <2>4, <2>7, <2>8, <2>9, <2>10, <1>3 DEF new
<1>4. QED
  BY <1>2, <1>3

\* No step takes a snapshot away.
LEMMA CapturedKept ==
  ASSUME CheckpointTypeOK, [CheckpointNext]_checkpointVars
  PROVE  \A t \in Turn : Captured(t) \subseteq Captured(t)'
<1>1. CASE \E t \in Turn, f \in Files : Capture(t, f)
  BY <1>1, CaptureEffect DEF Captured
<1>2. CASE UNCHANGED snaps
  BY <1>2 DEF Captured
<1>3. QED
  BY <1>1, <1>2
     DEF CheckpointNext, checkpointVars, BeginTurn, UserEdit, Write, EndTurn, FailTurn, RevertAsk,
         RevertDismissed, RevertConfirmed, Restore, RestoreFails, RevertDone, Become

\* A command that takes a step leaves the others where they are.
LEMMA BecomeEffect ==
  ASSUME CheckpointTypeOK, NEW c \in Commands, NEW state, Become(c, state)
  PROVE  /\ command'[c] = state
         /\ \A d \in Commands \ {c} : command'[d] = command[d]
BY DEF Become, CheckpointTypeOK

\* What each step of a command makes of it.
LEMMA CommandEffect ==
  ASSUME CheckpointTypeOK, NEW c \in Commands
  PROVE  /\ RevertAsk(c) \/ RevertDismissed(c) \/ RevertDone(c)
              => command'[c].at # "reverting"
         /\ RevertConfirmed(c) =>
              \/ last = 0 /\ command'[c].at # "reverting"
              \/ /\ last # 0
                 /\ command'[c].turn = last
                 /\ command'[c].todo = snaps[last]
         /\ Restore(c) \/ RestoreFails(c) =>
              /\ command'[c].at = command[c].at
              /\ command'[c].turn = command[c].turn
              /\ command'[c].todo = Tail(command[c].todo)
              /\ ~command'[c].failed => Restore(c) /\ ~command[c].failed
<1> DEFINE old == command[c]
           State == [at : {"off", "confirm", "reverting"},
                     shown : 0 .. MaxAgentTurns, turn : 0 .. MaxAgentTurns,
                     todo : Seq(Snapshot), failed : BOOLEAN]
<1>1. old \in State
  BY DEF CheckpointTypeOK
<1>2. Idle.at = "off" /\ [Idle EXCEPT !.at = "confirm", !.shown = last].at = "confirm"
  BY DEF Idle
<1>3. /\ [old EXCEPT !.at = "reverting", !.turn = last, !.todo = snaps[last]].turn = last
      /\ [old EXCEPT !.at = "reverting", !.turn = last, !.todo = snaps[last]].todo
           = snaps[last]
      /\ [old EXCEPT !.todo = Tail(@)].at = old.at
      /\ [old EXCEPT !.todo = Tail(@)].turn = old.turn
      /\ [old EXCEPT !.todo = Tail(@)].todo = Tail(old.todo)
      /\ [old EXCEPT !.todo = Tail(@)].failed = old.failed
      /\ [old EXCEPT !.todo = Tail(@), !.failed = TRUE].at = old.at
      /\ [old EXCEPT !.todo = Tail(@), !.failed = TRUE].turn = old.turn
      /\ [old EXCEPT !.todo = Tail(@), !.failed = TRUE].todo = Tail(old.todo)
      /\ [old EXCEPT !.todo = Tail(@), !.failed = TRUE].failed = TRUE
  <2> HIDE DEF old
  <2>1. QED
    BY <1>1
<1>4. ASSUME NEW state, Become(c, state)
      PROVE  command'[c] = state
  BY <1>4, BecomeEffect
<1>5. RevertAsk(c) \/ RevertDismissed(c) \/ RevertDone(c) => command'[c].at # "reverting"
  BY <1>2, <1>4 DEF RevertAsk, RevertDismissed, RevertDone
<1>6. RevertConfirmed(c) /\ last = 0 => command'[c].at # "reverting"
  BY <1>2, <1>4 DEF RevertConfirmed
<1>7. RevertConfirmed(c) /\ last # 0
        => command'[c].turn = last /\ command'[c].todo = snaps[last]
  BY <1>3, <1>4 DEF RevertConfirmed
<1>8. Restore(c) => /\ command'[c].at = command[c].at
                    /\ command'[c].turn = command[c].turn
                    /\ command'[c].todo = Tail(command[c].todo)
                    /\ command'[c].failed = command[c].failed
  BY <1>3, <1>4 DEF Restore
<1>9. RestoreFails(c) => /\ command'[c].at = command[c].at
                         /\ command'[c].turn = command[c].turn
                         /\ command'[c].todo = Tail(command[c].todo)
                         /\ command'[c].failed
  BY <1>3, <1>4 DEF RestoreFails
<1>10. QED
  BY <1>5, <1>6, <1>7, <1>8, <1>9

\* The rest of the snapshots a command has to restore are among those it had.
LEMMA TodoTail ==
  ASSUME CheckpointTypeOK, NEW c \in Commands, command[c].todo # << >>
  PROVE  /\ Head(command[c].todo) \in Snapshot
         /\ 1 \in DOMAIN command[c].todo
         /\ Head(command[c].todo) = command[c].todo[1]
         /\ Tail(command[c].todo) \in Seq(Snapshot)
         /\ \A i \in DOMAIN Tail(command[c].todo) :
              /\ i + 1 \in DOMAIN command[c].todo
              /\ Tail(command[c].todo)[i] = command[c].todo[i + 1]
         /\ \A i \in DOMAIN command[c].todo \ {1} :
              /\ i - 1 \in DOMAIN Tail(command[c].todo)
              /\ Tail(command[c].todo)[i - 1] = command[c].todo[i]
<1> DEFINE todo == command[c].todo
<1>1. todo \in Seq(Snapshot)
  BY DEF CheckpointTypeOK
<1> HIDE DEF todo
<1>2. todo # << >>
  BY DEF todo
<1>3. /\ Head(todo) \in Snapshot /\ Head(todo) = todo[1]
      /\ Tail(todo) \in Seq(Snapshot)
      /\ Len(todo) \in Nat \ {0} /\ DOMAIN todo = 1 .. Len(todo)
      /\ DOMAIN Tail(todo) = 1 .. Len(todo) - 1
      /\ \A i \in 1 .. Len(todo) - 1 : Tail(todo)[i] = todo[i + 1]
  BY <1>1, <1>2
<1>4. QED
  BY <1>3 DEF todo

-----------------------------------------------------------------------------
(* The invariant is inductive.                                              *)

\* Everything is in the invariant at the start: no turn, no snapshot, no command.
LEMMA CheckpointStarts == CheckpointInit => CheckpointInv
<1> SUFFICES ASSUME CheckpointInit PROVE CheckpointInv
  OBVIOUS
<1> USE CheckpointAssumption
<1>1. Absent \in Contents /\ Original \in Contents /\ Absent.by = 0 /\ Original.by = 0
  BY DEF Absent, Original, Content, Contents
<1>2. disk \in [Files -> Contents] /\ \A f \in Files : disk[f].by = 0
  BY <1>1 DEF CheckpointInit
<1>3. snaps \in [Turn -> Seq(Snapshot)] /\ \A t \in Turn : DOMAIN snaps[t] = {}
  BY DEF CheckpointInit
<1>4. /\ command \in [Commands -> [at : {"off", "confirm", "reverting"},
                                   shown : 0 .. MaxAgentTurns, turn : 0 .. MaxAgentTurns,
                                   todo : Seq(Snapshot), failed : BOOLEAN]]
      /\ \A c \in Commands : command[c].at = "off"
  BY DEF CheckpointInit, Idle
<1>5. CheckpointTypeOK
  BY <1>2, <1>3, <1>4 DEF CheckpointTypeOK, CheckpointInit, Turn
<1>6. TurnInv /\ SnapsTraced /\ CommandInv
  BY <1>3, <1>4 DEF CheckpointInit, TurnInv, SnapsTraced, CommandInv
<1>7. SnapshotsPredateTurn /\ EveryWriteCaptured
  BY <1>2, <1>3 DEF SnapshotsPredateTurn, EveryWriteCaptured
<1>8. QED
  BY <1>5, <1>6, <1>7 DEF CheckpointInv

\* Every step keeps the types.
LEMMA CheckpointTypeStep == CheckpointTypeOK /\ TurnInv /\ [CheckpointNext]_checkpointVars => CheckpointTypeOK'
<1> SUFFICES ASSUME CheckpointTypeOK, TurnInv, [CheckpointNext]_checkpointVars PROVE CheckpointTypeOK'
  OBVIOUS
<1> USE CheckpointAssumption
<1> DEFINE State == [at : {"off", "confirm", "reverting"},
                     shown : 0 .. MaxAgentTurns, turn : 0 .. MaxAgentTurns,
                     todo : Seq(Snapshot), failed : BOOLEAN]
<1>1. CASE BeginTurn
  BY <1>1 DEF BeginTurn, CheckpointTypeOK, Turn
<1>2. ASSUME NEW t \in Turn, NEW f \in Files, Capture(t, f) PROVE CheckpointTypeOK'
  <2>1. snaps' \in [Turn -> Seq(Snapshot)]
    BY <1>2, CaptureEffect
  <2>2. unread' \subseteq Turn \X Files
    BY <1>2 DEF Capture, CheckpointTypeOK
  <2>3. Writes(t, f)
    BY <1>2 DEF Capture
  <2>4. QED
    BY <2>1, <2>2, <2>3 DEF Writes, CheckpointTypeOK
<1>3. ASSUME NEW f \in Files, UserEdit(f) PROVE CheckpointTypeOK'
  <2>1. Edited \in Contents
    BY DEF Edited, Content, Contents
  <2>2. mixed' \subseteq Turn
    BY <1>3 DEF UserEdit, CheckpointTypeOK, Turn
  <2>3. QED
    BY <1>3, <2>1, <2>2 DEF UserEdit, CheckpointTypeOK
<1>4. ASSUME NEW t \in Turn, Write(t) PROVE CheckpointTypeOK'
  <2>1. Content(t, writes) \in Contents
    BY DEF CheckpointTypeOK, Content, Contents, Turn
  <2>2. pending[t] \in Files
    BY <1>4 DEF Write, CheckpointTypeOK
  <2>3. Others(t) \subseteq Turn
    BY DEF CheckpointTypeOK, Others, Turn
  <2>4. QED
    BY <1>4, <2>1, <2>2, <2>3 DEF Write, CheckpointTypeOK
<1>5. ASSUME NEW t \in Turn, EndTurn(t) PROVE CheckpointTypeOK'
  BY <1>5 DEF EndTurn, CheckpointTypeOK
<1>6. ASSUME NEW t \in Turn, FailTurn(t) PROVE CheckpointTypeOK'
  BY <1>6 DEF FailTurn, CheckpointTypeOK
<1>7. ASSUME NEW c \in Commands, NEW state \in State, Become(c, state)
      PROVE  command' \in [Commands -> State]
  <2>1. command \in [Commands -> State]
    BY DEF CheckpointTypeOK
  <2>2. QED
    BY <1>7, <2>1 DEF Become
<1>8. /\ Idle \in State
      /\ \A c \in Commands : command[c] \in State
      /\ last \in 0 .. MaxAgentTurns
  BY DEF Idle, CheckpointTypeOK
<1>9. ASSUME NEW c \in Commands, RevertAsk(c) PROVE CheckpointTypeOK'
  <2>1. [Idle EXCEPT !.at = "confirm", !.shown = last] \in State
    BY <1>8 DEF Idle
  <2>2. QED
    BY <1>9, <1>7, <2>1 DEF RevertAsk, CheckpointTypeOK
<1>10. ASSUME NEW c \in Commands, RevertDismissed(c) PROVE CheckpointTypeOK'
  BY <1>10, <1>7, <1>8 DEF RevertDismissed, CheckpointTypeOK
<1>11. ASSUME NEW c \in Commands, RevertConfirmed(c) PROVE CheckpointTypeOK'
  <2>1. last # 0 => snaps[last] \in Seq(Snapshot)
    <3>1. last # 0 => last \in Turn
      BY <1>8 DEF Turn
    <3>2. QED
      BY <3>1 DEF CheckpointTypeOK
  <2>2. last # 0 => [command[c] EXCEPT !.at = "reverting", !.turn = last,
                                       !.todo = snaps[last]] \in State
    <3> DEFINE state == command[c]
    <3>1. state \in State
      BY <1>8
    <3>2. last # 0 => [state EXCEPT !.at = "reverting", !.turn = last,
                                    !.todo = snaps[last]] \in State
      <4> HIDE DEF state
      <4>1. QED
        BY <1>8, <2>1, <3>1
    <3>3. QED
      BY <3>2
  <2>3. QED
    BY <1>11, <1>7, <1>8, <2>2 DEF RevertConfirmed, CheckpointTypeOK
<1>12. ASSUME NEW c \in Commands, Restore(c) PROVE CheckpointTypeOK'
  <2>1. Head(command[c].todo) \in Snapshot /\ Tail(command[c].todo) \in Seq(Snapshot)
    BY <1>12, TodoTail DEF Restore
  <2>2. [command[c] EXCEPT !.todo = Tail(@)] \in State
    BY <1>8, <2>1
  <2>3. Others(command[c].turn) \subseteq Turn
    BY DEF CheckpointTypeOK, Others, Turn
  <2>4. disk' \in [Files -> Contents]
    BY <1>12, <2>1 DEF Restore, CheckpointTypeOK, Snapshot
  <2>5. QED
    BY <1>12, <1>7, <2>2, <2>3, <2>4 DEF Restore, CheckpointTypeOK
<1>13. ASSUME NEW c \in Commands, RestoreFails(c) PROVE CheckpointTypeOK'
  <2>1. Tail(command[c].todo) \in Seq(Snapshot)
    BY <1>13, TodoTail DEF RestoreFails
  <2>2. [command[c] EXCEPT !.todo = Tail(@), !.failed = TRUE] \in State
    BY <1>8, <2>1
  <2>3. QED
    BY <1>13, <1>7, <2>2 DEF RestoreFails, CheckpointTypeOK
<1>14. ASSUME NEW c \in Commands, RevertDone(c) PROVE CheckpointTypeOK'
  BY <1>14, <1>7, <1>8 DEF RevertDone, CheckpointTypeOK
<1>15. CASE UNCHANGED checkpointVars
  BY <1>15 DEF checkpointVars, CheckpointTypeOK
<1>16. QED
  BY <1>1, <1>2, <1>3, <1>4, <1>5, <1>6, <1>9, <1>10, <1>11, <1>12, <1>13, <1>14,
     <1>15 DEF CheckpointNext

\* The steps of the command change nothing of the turns; all but Restore leave
\* the files alone.
RevertStep ==
  \E c \in Commands :
    \/ RevertAsk(c)
    \/ RevertDismissed(c)
    \/ RevertConfirmed(c)
    \/ Restore(c)
    \/ RestoreFails(c)
    \/ RevertDone(c)

\* A step of the command leaves the turn in flight and the checkpoints alone.
LEMMA RevertLeavesTurns ==
  ASSUME RevertStep
  PROVE  UNCHANGED <<running, agentTurns, writes, pending, snaps, before, edited, unread>>
         /\ last' \in {0, last}
BY DEF RevertStep, RevertAsk, RevertDismissed, RevertConfirmed, Restore,
       RestoreFails, RevertDone, Become

\* Every step keeps what is said of the turns.
LEMMA TurnInvStep == CheckpointTypeOK /\ TurnInv /\ [CheckpointNext]_checkpointVars => TurnInv'
<1> SUFFICES ASSUME CheckpointTypeOK, TurnInv, [CheckpointNext]_checkpointVars PROVE TurnInv'
  OBVIOUS
<1> USE CheckpointAssumption
<1>1. CASE BeginTurn
  <2>1. last \notin running'
    BY <1>1 DEF BeginTurn, CheckpointTypeOK, TurnInv
  <2>2. \A t \in Turn : t > agentTurns' => snaps'[t] = << >>
    BY <1>1 DEF BeginTurn, CheckpointTypeOK, TurnInv, Turn
  <2>3. QED
    BY <1>1, <2>1, <2>2 DEF BeginTurn, TurnInv, Captured
<1>2. ASSUME NEW u \in Turn, NEW f \in Files, Capture(u, f) PROVE TurnInv'
  <2>1. u \in running /\ u \in 1 .. agentTurns
    BY <1>2 DEF Capture, Writes, CheckpointTypeOK
  <2>2. f \in Captured(u)' /\ \A t \in Turn : Captured(t) \subseteq Captured(t)'
    BY <1>2, CaptureEffect, CapturedKept DEF CheckpointNext
  <2>3. \A t \in Turn : t > agentTurns => snaps'[t] = << >>
    BY <1>2, <2>1 DEF Capture, TurnInv, CheckpointTypeOK, Turn
  <2>4. \A t \in Turn : pending'[t] # NoFile => t \in running /\ pending'[t] \in Captured(t)'
    BY <1>2, <2>1, <2>2 DEF Capture, Writes, TurnInv, CheckpointTypeOK
  <2>5. QED
    BY <1>2, <2>3, <2>4 DEF Capture, Writes, TurnInv
<1>3. ASSUME NEW f \in Files, UserEdit(f) PROVE TurnInv'
  BY <1>3 DEF UserEdit, TurnInv, Captured
<1>4. ASSUME NEW u \in Turn, Write(u) PROVE TurnInv'
  BY <1>4 DEF Write, TurnInv, Captured, CheckpointTypeOK
<1>5. ASSUME NEW u \in Turn, EndTurn(u) PROVE TurnInv'
  <2>1. /\ \A t \in Turn : pending'[t] # NoFile => t \in running'
        /\ last' \notin running'
        /\ UNCHANGED <<pending, snaps, agentTurns>>
    BY <1>5 DEF EndTurn, TurnInv
  <2>2. QED
    BY <2>1 DEF TurnInv, Captured
<1>6. ASSUME NEW u \in Turn, FailTurn(u) PROVE TurnInv'
  BY <1>6 DEF FailTurn, TurnInv, Captured, CheckpointTypeOK
<1>7. CASE RevertStep
  <2>1. UNCHANGED <<running, agentTurns, pending, snaps>> /\ last' \in {0, last}
    BY <1>7, RevertLeavesTurns
  <2>2. last' \notin running
    BY <2>1 DEF TurnInv, CheckpointTypeOK
  <2>3. QED
    BY <2>1, <2>2 DEF TurnInv, Captured
<1>8. CASE UNCHANGED checkpointVars
  BY <1>8 DEF checkpointVars, TurnInv, Captured
<1>9. QED
  BY <1>1, <1>2, <1>3, <1>4, <1>5, <1>6, <1>7, <1>8 DEF CheckpointNext, RevertStep

\* A snapshot that is traced stays traced.
LEMMA TracedKept ==
  ASSUME CheckpointTypeOK, [CheckpointNext]_checkpointVars, NEW s \in Snapshot, Traced(s)
  PROVE  Traced(s)'
<1>1. s.original.by # 0 => s.original.by \in Turn
  BY CheckpointAssumption DEF Snapshot, Contents, Turn
<1>2. QED
  BY <1>1, CapturedKept DEF Traced

\* A text read from a file that its writer has captured makes a traced snapshot.
LEMMA NewTraced ==
  ASSUME CheckpointTypeOK, EveryWriteCaptured, NEW f \in Files,
         NEW text \in Reads(f)
  PROVE  Traced(Snap(f, text))
BY ReadsType DEF Traced, EveryWriteCaptured, Snap

\* Every step keeps the snapshots traced.
LEMMA SnapsTracedStep ==
  CheckpointTypeOK /\ EveryWriteCaptured /\ SnapsTraced /\ [CheckpointNext]_checkpointVars => SnapsTraced'
<1> SUFFICES ASSUME CheckpointTypeOK, EveryWriteCaptured, SnapsTraced, [CheckpointNext]_checkpointVars,
                    NEW t \in Turn, NEW i \in DOMAIN snaps'[t],
                    NEW s, s = snaps'[t][i]
             PROVE  Traced(s)'
  BY DEF SnapsTraced, Traced, Captured
<1>1. ASSUME i \in DOMAIN snaps[t], s = snaps[t][i]
      PROVE  Traced(s)'
  <2>1. s \in Snapshot /\ Traced(s)
    BY <1>1 DEF CheckpointTypeOK, SnapsTraced
  <2>2. QED
    BY <2>1, TracedKept
<1>2. ASSUME NEW f \in Files, NEW text \in Reads(f), s = Snap(f, text)
      PROVE  Traced(s)'
  <2>1. s \in Snapshot
    BY <1>2, ReadsType DEF Snapshot, Snap
  <2>2. Traced(s)
    BY <1>2, NewTraced
  <2>3. QED
    BY <2>1, <2>2, TracedKept
<1>3. CASE \E u \in Turn, f \in Files : Capture(u, f)
  BY <1>1, <1>2, <1>3, CaptureEffect
<1>4. CASE UNCHANGED snaps
  BY <1>1, <1>4
<1>5. QED
  BY <1>3, <1>4, RevertLeavesTurns
     DEF CheckpointNext, RevertStep, checkpointVars, BeginTurn, UserEdit, Write, EndTurn, FailTurn

\* Every step keeps what is said of the commands.
LEMMA CommandInvStep ==
  CheckpointTypeOK /\ TurnInv /\ SnapsTraced /\ CommandInv /\ [CheckpointNext]_checkpointVars => CommandInv'
<1> SUFFICES ASSUME CheckpointTypeOK, TurnInv, SnapsTraced, CommandInv, [CheckpointNext]_checkpointVars
             PROVE  CommandInv'
  OBVIOUS
<1>1. ASSUME NEW d \in Commands, command'[d].at = "reverting"
      PROVE  /\ command'[d].turn \in 1 .. agentTurns'
             /\ command'[d].turn \notin running'
             /\ \A i \in DOMAIN command'[d].todo :
                  command'[d].todo[i] \in Snapshot /\ Traced(command'[d].todo[i])
  <2>1. CASE command'[d] = command[d]
    <3>1. /\ command[d].turn \in 1 .. agentTurns /\ command[d].turn \notin running
          /\ \A i \in DOMAIN command[d].todo : Traced(command[d].todo[i])
      BY <1>1, <2>1 DEF CommandInv
    <3>2. \/ BeginTurn
          \/ agentTurns' = agentTurns /\ running' \subseteq running
      BY RevertLeavesTurns
         DEF CheckpointNext, RevertStep, checkpointVars, Capture, Writes, UserEdit, Write, EndTurn,
             FailTurn
    <3>3. command[d].turn \in 1 .. agentTurns' /\ command[d].turn \notin running'
      BY <3>1, <3>2 DEF CheckpointTypeOK, BeginTurn
    <3>4. command[d].todo \in Seq(Snapshot)
      BY DEF CheckpointTypeOK
    <3>5. QED
      BY <2>1, <3>1, <3>3, <3>4
  <2>2. CASE RevertAsk(d) \/ RevertDismissed(d) \/ RevertDone(d)
    BY <1>1, <2>2, CommandEffect
  <2>3. CASE RevertConfirmed(d)
    <3>1. last # 0
      BY <1>1, <2>3, CommandEffect
    <3>2. /\ command'[d].turn = last
          /\ command'[d].todo = snaps[last]
          /\ UNCHANGED <<agentTurns, running>>
      BY <2>3, <3>1, CommandEffect DEF RevertConfirmed
    <3>3. last \in Turn /\ last \in 1 .. agentTurns /\ last \notin running
      BY CheckpointAssumption, <3>1 DEF CheckpointTypeOK, TurnInv, Turn
    <3>4. /\ snaps[last] \in Seq(Snapshot)
          /\ \A i \in DOMAIN snaps[last] : Traced(snaps[last][i])
      BY <3>3 DEF CheckpointTypeOK, SnapsTraced
    <3>5. QED
      BY <3>2, <3>3, <3>4
  <2>4. CASE Restore(d) \/ RestoreFails(d)
    <3>1. /\ command[d].at = "reverting"
          /\ command[d].todo # << >>
          /\ UNCHANGED <<agentTurns, running>>
      BY <2>4 DEF Restore, RestoreFails
    <3>2. /\ command'[d].turn = command[d].turn
          /\ command'[d].todo = Tail(command[d].todo)
      BY <2>4, CommandEffect
    <3>3. /\ command[d].turn \in 1 .. agentTurns /\ command[d].turn \notin running
          /\ \A i \in DOMAIN command[d].todo : Traced(command[d].todo[i])
      BY <3>1 DEF CommandInv
    <3>4. /\ Tail(command[d].todo) \in Seq(Snapshot)
          /\ \A i \in DOMAIN Tail(command[d].todo) : Traced(Tail(command[d].todo)[i])
      BY <3>1, <3>3, TodoTail
    <3>5. QED
      BY <3>1, <3>2, <3>3, <3>4
  <2>5. ASSUME NEW c \in Commands \ {d}, NEW state, Become(c, state)
        PROVE  command'[d] = command[d]
    BY <2>5, BecomeEffect
  <2>6. QED
    BY <2>1, <2>2, <2>3, <2>4, <2>5
       DEF CheckpointNext, checkpointVars, BeginTurn, Capture, Writes, UserEdit, Write, EndTurn, FailTurn,
           RevertAsk, RevertDismissed, RevertConfirmed, Restore, RestoreFails, RevertDone
<1>2. ASSUME NEW d \in Commands, command'[d].at = "reverting",
             NEW i \in DOMAIN command'[d].todo, NEW s, s = command'[d].todo[i]
      PROVE  Traced(s)'
  <2>1. s \in Snapshot /\ Traced(s)
    BY <1>1, <1>2
  <2>2. QED
    BY <2>1, TracedKept
<1>3. QED
  BY <1>1, <1>2 DEF CommandInv, Traced, Captured

\* A snapshot is taken before the turn's first write of the file, so it holds
\* somebody else's text.
LEMMA PredateStep ==
  CheckpointTypeOK /\ EveryWriteCaptured /\ SnapshotsPredateTurn /\ [CheckpointNext]_checkpointVars
    => SnapshotsPredateTurn'
<1> SUFFICES ASSUME CheckpointTypeOK, EveryWriteCaptured, SnapshotsPredateTurn, [CheckpointNext]_checkpointVars,
                    NEW t \in Turn, NEW i \in DOMAIN snaps'[t]
             PROVE  snaps'[t][i].original.by # t
  BY DEF SnapshotsPredateTurn
<1>1. ASSUME i \in DOMAIN snaps[t], snaps'[t][i] = snaps[t][i]
      PROVE  snaps'[t][i].original.by # t
  BY <1>1 DEF SnapshotsPredateTurn
<1>2. ASSUME NEW f \in Files, f \notin Captured(t), NEW text \in Reads(f),
             snaps'[t][i] = Snap(f, text)
      PROVE  snaps'[t][i].original.by # t
  <2>1. t # 0
    BY DEF Turn
  <2>2. disk[f].by # t
    BY <1>2, <2>1 DEF EveryWriteCaptured
  <2>3. QED
    BY <1>2, <2>1, <2>2, ReadsType DEF Snap
<1>3. ASSUME NEW u \in Turn, NEW f \in Files, Capture(u, f)
      PROVE  snaps'[t][i].original.by # t
  <2>1. \/ i \in DOMAIN snaps[t] /\ snaps'[t][i] = snaps[t][i]
        \/ /\ f \notin Captured(t)
           /\ \E text \in Reads(f) : snaps'[t][i] = Snap(f, text)
    BY <1>3, CaptureEffect
  <2>2. QED
    BY <2>1, <1>1, <1>2
<1>4. CASE UNCHANGED snaps
  BY <1>1, <1>4
<1>5. QED
  BY <1>3, <1>4, RevertLeavesTurns
     DEF CheckpointNext, RevertStep, checkpointVars, BeginTurn, UserEdit, Write, EndTurn, FailTurn

\* What is written has been captured, by this turn or by the one whose text a
\* revert brings back.
LEMMA WrittenStep ==
  CheckpointTypeOK /\ TurnInv /\ CommandInv /\ EveryWriteCaptured /\ [CheckpointNext]_checkpointVars
    => EveryWriteCaptured'
<1> SUFFICES ASSUME CheckpointTypeOK, TurnInv, CommandInv, EveryWriteCaptured, [CheckpointNext]_checkpointVars,
                    NEW f \in Files, NEW by, by = disk'[f].by, by # 0
             PROVE  f \in Captured(by)'
  BY DEF EveryWriteCaptured, Captured
<1> USE CheckpointAssumption
<1>1. ASSUME by \in Turn, f \in Captured(by)
      PROVE  f \in Captured(by)'
  BY <1>1, CapturedKept
<1>2. CASE disk'[f] = disk[f]
  <2>1. f \in Captured(by)
    BY <1>2 DEF EveryWriteCaptured
  <2>2. by \in Turn
    BY <1>2 DEF CheckpointTypeOK, Contents, Turn
  <2>3. QED
    BY <1>1, <2>1, <2>2
<1>3. ASSUME NEW g \in Files, UserEdit(g), f = g
      PROVE  FALSE
  BY <1>3 DEF UserEdit, CheckpointTypeOK, Edited, Content
<1>4. ASSUME NEW u \in Turn, Write(u), f = pending[u], disk'[f] # disk[f]
      PROVE  f \in Captured(by)'
  <2>1. disk'[f] = Content(u, writes)
    BY <1>4 DEF Write, CheckpointTypeOK
  <2>2. by = u /\ pending[u] \in Captured(u)
    BY <1>4, <2>1 DEF Write, TurnInv, Content
  <2>3. QED
    BY <1>1, <1>4, <2>2
<1>5. ASSUME NEW c \in Commands, Restore(c), f = Head(command[c].todo).file
      PROVE  f \in Captured(by)'
  <2> DEFINE s == Head(command[c].todo)
  <2>1. s \in Snapshot /\ s = command[c].todo[1] /\ 1 \in DOMAIN command[c].todo
    BY <1>5, TodoTail DEF Restore
  <2>2. Traced(s)
    BY <1>5, <2>1 DEF Restore, CommandInv
  <2>3. by = s.original.by
    BY <1>5, <2>1 DEF Restore, CheckpointTypeOK
  <2>4. by \in Turn
    BY <2>1, <2>3 DEF Snapshot, Contents, Turn
  <2>5. QED
    BY <1>1, <1>5, <2>2, <2>3, <2>4 DEF Traced
<1>6. ASSUME NEW c \in Commands, Restore(c), f # Head(command[c].todo).file
      PROVE  disk'[f] = disk[f]
  BY <1>6 DEF Restore, CheckpointTypeOK
<1>7. ASSUME NEW g \in Files, UserEdit(g), f # g
      PROVE  disk'[f] = disk[f]
  BY <1>7 DEF UserEdit, CheckpointTypeOK
<1>8. ASSUME NEW u \in Turn, Write(u), f # pending[u]
      PROVE  disk'[f] = disk[f]
  BY <1>8 DEF Write, CheckpointTypeOK
<1>9. QED
  BY <1>2, <1>3, <1>4, <1>5, <1>6, <1>7, <1>8
     DEF CheckpointNext, checkpointVars, BeginTurn, Capture, Writes, EndTurn, FailTurn, RevertAsk,
         RevertDismissed, RevertConfirmed, RestoreFails, RevertDone

\* The inductive invariant holds in every behaviour.
LEMMA CheckpointInvariance == CheckpointSpec => []CheckpointInv
<1>1. CheckpointInit => CheckpointInv
  BY CheckpointStarts
<1>2. CheckpointInv /\ [CheckpointNext]_checkpointVars => CheckpointInv'
  BY CheckpointTypeStep, TurnInvStep, SnapsTracedStep, CommandInvStep, PredateStep, WrittenStep
     DEF CheckpointInv
<1>3. QED
  BY <1>1, <1>2, PTL DEF CheckpointSpec

-----------------------------------------------------------------------------
(* Why an undisturbed revert undoes its turn, as far as files can be read.    *)

\* Kept(t, f), in terms of what could not be read and what was there at the start.
KeptOf(lost, was, t, f) == IF <<t, f>> \in lost THEN Absent ELSE Decoded(f, was[t][f])

\* Of a turn nobody interfered with, the snapshots hold what can be kept of what was
\* there when it began,
SnapsHold ==
  \A t \in Turn \ mixed : \A i \in DOMAIN snaps[t] :
    snaps[t][i].original = KeptOf(unread, before, t, snaps[t][i].file)

\* what could not be read is in the checkpoint,
UnreadCaptured == \A t \in Turn, f \in Files : <<t, f>> \in unread => f \in Captured(t)

\* the files it has not captured are as they were,
Untouched ==
  \A t \in (1 .. agentTurns) \ mixed : \A f \in Files :
    f \notin Captured(t) => disk[f] = before[t][f]

\* a command that reverts it has only its snapshots to restore,
TodoHolds ==
  \A c \in Commands :
    command[c].at = "reverting" =>
      \A i \in DOMAIN command[c].todo :
        /\ command[c].todo[i].file \in Captured(command[c].turn)
        /\ command[c].turn \notin mixed =>
             command[c].todo[i].original = KeptOf(unread, before, command[c].turn, command[c].todo[i].file)

\* and what it need not restore any more is what the checkpoint kept.
Restoring ==
  \A c \in Commands :
    (command[c].at = "reverting" /\ command[c].turn \notin mixed /\ ~command[c].failed)
      => \A f \in Captured(command[c].turn) :
           \/ disk[f] = KeptOf(unread, before, command[c].turn, f)
           \/ \E i \in DOMAIN command[c].todo : command[c].todo[i].file = f

UndoInv == SnapsHold /\ UnreadCaptured /\ Untouched /\ TodoHolds /\ Restoring

\* A step forgets no interference, leaves the beginnings of the turns begun as they
\* were, and adds snapshots to turns in flight only; what is kept of a file that has
\* been captured stays so.
LEMMA HistoryKept ==
  ASSUME CheckpointTypeOK, [CheckpointNext]_checkpointVars
  PROVE  /\ mixed \subseteq mixed'
         /\ \A t \in 1 .. agentTurns : before'[t] = before[t]
         /\ \A t \in Turn \ running : snaps'[t] = snaps[t]
         /\ \A t \in Turn : \A f \in Captured(t) : <<t, f>> \in unread' <=> <<t, f>> \in unread
<1>1. CASE BeginTurn
  <2>1. \A t \in 1 .. agentTurns : t \in Turn /\ t # agentTurns + 1
    BY CheckpointAssumption DEF CheckpointTypeOK, Turn
  <2>2. QED
    BY <1>1, <2>1 DEF BeginTurn, CheckpointTypeOK
<1>2. CASE \E t \in Turn, f \in Files : Capture(t, f)
  BY <1>2 DEF Capture, Writes, CheckpointTypeOK
<1>3. CASE \/ \E f \in Files : UserEdit(f)
           \/ \E t \in Turn : Write(t) \/ EndTurn(t) \/ FailTurn(t)
           \/ UNCHANGED checkpointVars
  BY <1>3 DEF UserEdit, Write, EndTurn, FailTurn, checkpointVars
<1>4. CASE RevertStep
  BY <1>4 DEF RevertStep, RevertAsk, RevertDismissed, RevertConfirmed, Restore,
              RestoreFails, RevertDone
<1>5. QED
  BY <1>1, <1>2, <1>3, <1>4 DEF CheckpointNext, RevertStep

\* What is kept of a captured file does not change.
LEMMA KeptStays ==
  ASSUME CheckpointTypeOK, [CheckpointNext]_checkpointVars,
         NEW t \in 1 .. agentTurns, NEW f \in Captured(t)
  PROVE  KeptOf(unread', before', t, f) = KeptOf(unread, before, t, f)
<1>1. t \in Turn
  BY CheckpointAssumption DEF CheckpointTypeOK, Turn
<1>2. before'[t] = before[t] /\ (<<t, f>> \in unread' <=> <<t, f>> \in unread)
  BY <1>1, HistoryKept
<1>3. QED
  BY <1>2 DEF KeptOf

\* What changes on disk and is no interference with turn t is a file t captured:
\* t writes it, or a command puts back what was kept of it.
LEMMA OwnChange ==
  ASSUME CheckpointTypeOK, TurnInv, CommandInv, TodoHolds, [CheckpointNext]_checkpointVars,
         NEW t \in (1 .. agentTurns) \ mixed', NEW f \in Files, disk'[f] # disk[f]
  PROVE  /\ f \in Captured(t)
         /\ t \in running \/ disk'[f] = KeptOf(unread, before, t, f)
<1>1. ASSUME NEW g \in Files, UserEdit(g)
      PROVE  FALSE
  BY <1>1 DEF UserEdit
<1>2. ASSUME NEW u \in Turn, Write(u)
      PROVE  f \in Captured(t) /\ t \in running
  <2>1. t = u
    BY <1>2 DEF Write, Others
  <2>2. f = pending[u]
    BY <1>2 DEF Write, CheckpointTypeOK
  <2>3. QED
    BY <1>2, <2>1, <2>2 DEF Write, TurnInv
<1>3. ASSUME NEW c \in Commands, Restore(c)
      PROVE  f \in Captured(t) /\ disk'[f] = KeptOf(unread, before, t, f)
  <2> DEFINE s == Head(command[c].todo)
  <2>1. s = command[c].todo[1] /\ 1 \in DOMAIN command[c].todo /\ s \in Snapshot
    BY <1>3, TodoTail DEF Restore
  <2>2. t = command[c].turn /\ t \notin mixed
    BY <1>3 DEF Restore, Others
  <2>3. s.file \in Captured(t) /\ s.original = KeptOf(unread, before, t, s.file)
    BY <1>3, <2>1, <2>2 DEF Restore, TodoHolds
  <2>4. f = s.file /\ disk'[f] = s.original
    BY <1>3 DEF Restore, CheckpointTypeOK
  <2>5. QED
    BY <2>3, <2>4
<1>4. QED
  BY <1>1, <1>2, <1>3
     DEF CheckpointNext, checkpointVars, BeginTurn, Capture, Writes, EndTurn, FailTurn, RevertAsk,
         RevertDismissed, RevertConfirmed, RestoreFails, RevertDone

\* Every step keeps the snapshots at what could be kept.
LEMMA SnapsHoldStep ==
  CheckpointTypeOK /\ TurnInv /\ SnapsHold /\ UnreadCaptured /\ Untouched /\ [CheckpointNext]_checkpointVars
    => SnapsHold'
<1> SUFFICES ASSUME CheckpointTypeOK, TurnInv, SnapsHold, UnreadCaptured, Untouched,
                    [CheckpointNext]_checkpointVars,
                    NEW t \in Turn \ mixed', NEW i \in DOMAIN snaps'[t]
             PROVE  snaps'[t][i].original = KeptOf(unread', before', t, snaps'[t][i].file)
  BY DEF SnapsHold
<1> USE CheckpointAssumption
<1>1. t \notin mixed
  BY HistoryKept
<1>2. ASSUME i \in DOMAIN snaps[t], snaps'[t][i] = snaps[t][i]
      PROVE  snaps'[t][i].original = KeptOf(unread', before', t, snaps'[t][i].file)
  <2>1. t \in 1 .. agentTurns
    BY <1>2 DEF TurnInv, CheckpointTypeOK, Turn
  <2>2. snaps[t][i].file \in Captured(t)
    BY <1>2 DEF Captured
  <2>3. KeptOf(unread', before', t, snaps[t][i].file)
          = KeptOf(unread, before, t, snaps[t][i].file)
    BY <2>1, <2>2, KeptStays
  <2>4. snaps[t][i].original = KeptOf(unread, before, t, snaps[t][i].file)
    BY <1>1, <1>2 DEF SnapsHold
  <2>5. QED
    BY <1>2, <2>3, <2>4
<1>3. ASSUME NEW u \in Turn, NEW f \in Files, Capture(u, f)
      PROVE  snaps'[t][i].original = KeptOf(unread', before', t, snaps'[t][i].file)
  <2>1. ASSUME f \notin Captured(t), t = u, NEW text \in Reads(f), snaps'[t][i] = Snap(f, text),
               Noted(t, f, text)
        PROVE  snaps'[t][i].original = KeptOf(unread', before', t, snaps'[t][i].file)
    <3>1. t \in 1 .. agentTurns /\ before' = before
      BY <1>3, <2>1 DEF Capture, Writes, CheckpointTypeOK
    <3>2. disk[f] = before[t][f]
      BY <1>1, <2>1, <3>1 DEF Untouched
    <3>3. <<t, f>> \notin unread
      BY <2>1 DEF UnreadCaptured
    <3>4. text = IF text = Absent /\ disk[f] # Absent THEN Absent ELSE Decoded(f, disk[f])
      BY DEF Reads, Decoded, Absent, Garbled, Original, Content
    <3>5. snaps'[t][i].original = text /\ snaps'[t][i].file = f
      BY <2>1 DEF Snap
    <3>6. <<t, f>> \in unread' <=> (text = Absent /\ disk[f] # Absent)
      BY <2>1, <3>3 DEF Noted
    <3>7. KeptOf(unread', before', t, f) = text
      BY <3>1, <3>2, <3>4, <3>6 DEF KeptOf
    <3>8. QED
      BY <3>5, <3>7
  <2>2. QED
    BY <1>2, <1>3, <2>1, CaptureEffect
<1>4. CASE UNCHANGED snaps
  BY <1>2, <1>4
<1>5. QED
  BY <1>3, <1>4, RevertLeavesTurns
     DEF CheckpointNext, RevertStep, checkpointVars, BeginTurn, UserEdit, Write, EndTurn, FailTurn

\* Every step keeps what could not be read among what is captured.
LEMMA UnreadStep ==
  CheckpointTypeOK /\ UnreadCaptured /\ [CheckpointNext]_checkpointVars => UnreadCaptured'
<1> SUFFICES ASSUME CheckpointTypeOK, UnreadCaptured, [CheckpointNext]_checkpointVars,
                    NEW t \in Turn, NEW f \in Files, <<t, f>> \in unread'
             PROVE  f \in Captured(t)'
  BY DEF UnreadCaptured, Captured
<1>1. CASE <<t, f>> \in unread
  BY <1>1, CapturedKept DEF UnreadCaptured
<1>2. ASSUME NEW u \in Turn, NEW g \in Files, Capture(u, g), <<t, f>> \notin unread
      PROVE  f \in Captured(t)'
  <2>1. t = u /\ f = g
    BY <1>2 DEF Capture
  <2>2. QED
    BY <1>2, <2>1, CaptureEffect
<1>3. CASE UNCHANGED unread
  BY <1>1, <1>3
<1>4. QED
  BY <1>1, <1>2, <1>3, RevertLeavesTurns
     DEF CheckpointNext, RevertStep, checkpointVars, BeginTurn, UserEdit, Write, EndTurn, FailTurn

\* Every step leaves the files not captured as they were.
LEMMA UntouchedStep ==
  CheckpointTypeOK /\ TurnInv /\ CommandInv /\ TodoHolds /\ Untouched /\ [CheckpointNext]_checkpointVars => Untouched'
<1> SUFFICES ASSUME CheckpointTypeOK, TurnInv, CommandInv, TodoHolds, Untouched, [CheckpointNext]_checkpointVars,
                    NEW t \in (1 .. agentTurns') \ mixed', NEW f \in Files,
                    f \notin Captured(t)'
             PROVE  disk'[f] = before'[t][f]
  BY DEF Untouched, Captured
<1> USE CheckpointAssumption
<1>1. CASE t \in 1 .. agentTurns
  <2>1. t \in Turn
    BY <1>1 DEF CheckpointTypeOK, Turn
  <2>2. t \notin mixed /\ before'[t] = before[t] /\ f \notin Captured(t)
    BY <1>1, <2>1, HistoryKept, CapturedKept
  <2>3. disk'[f] = disk[f]
    BY <1>1, <2>2, OwnChange
  <2>4. QED
    BY <1>1, <2>2, <2>3 DEF Untouched
<1>2. CASE BeginTurn /\ t = agentTurns + 1
  BY <1>2 DEF BeginTurn, CheckpointTypeOK, Turn
<1>3. BeginTurn \/ agentTurns' = agentTurns
  BY RevertLeavesTurns
     DEF CheckpointNext, RevertStep, checkpointVars, Capture, Writes, UserEdit, Write, EndTurn, FailTurn
<1>4. QED
  BY <1>1, <1>2, <1>3 DEF BeginTurn, CheckpointTypeOK

\* Every step keeps the commands at their turn's snapshots.
LEMMA TodoHoldsStep ==
  CheckpointTypeOK /\ TurnInv /\ CommandInv /\ SnapsHold /\ TodoHolds /\ [CheckpointNext]_checkpointVars => TodoHolds'
<1> SUFFICES ASSUME CheckpointTypeOK, TurnInv, CommandInv, SnapsHold, TodoHolds, [CheckpointNext]_checkpointVars,
                    NEW d \in Commands, command'[d].at = "reverting",
                    NEW i \in DOMAIN command'[d].todo,
                    NEW s, s = command'[d].todo[i], NEW t, t = command'[d].turn
             PROVE  /\ s.file \in Captured(t)'
                    /\ t \notin mixed' => s.original = KeptOf(unread', before', t, s.file)
  BY DEF TodoHolds, Captured
<1> USE CheckpointAssumption
<1>1. ASSUME t \in 1 .. agentTurns, s.file \in Captured(t),
             t \notin mixed => s.original = KeptOf(unread, before, t, s.file)
      PROVE  /\ s.file \in Captured(t)'
             /\ t \notin mixed' => s.original = KeptOf(unread', before', t, s.file)
  <2>1. t \in Turn
    BY <1>1 DEF CheckpointTypeOK, Turn
  <2>2. QED
    BY <1>1, <2>1, HistoryKept, CapturedKept, KeptStays
<1>2. CASE command'[d] = command[d]
  BY <1>1, <1>2 DEF CommandInv, TodoHolds
<1>3. CASE RevertAsk(d) \/ RevertDismissed(d) \/ RevertDone(d)
  BY <1>3, CommandEffect
<1>4. CASE RevertConfirmed(d)
  <2>1. last # 0 /\ t = last /\ command'[d].todo = snaps[last]
    BY <1>4, CommandEffect
  <2>2. t \in 1 .. agentTurns /\ t \in Turn
    BY <2>1 DEF CheckpointTypeOK, Turn
  <2>3. s.file \in Captured(t)
    BY <2>1 DEF Captured
  <2>4. t \notin mixed => s.original = KeptOf(unread, before, t, s.file)
    BY <2>1, <2>2 DEF SnapsHold
  <2>5. QED
    BY <1>1, <2>2, <2>3, <2>4
<1>5. CASE Restore(d) \/ RestoreFails(d)
  <2>1. /\ command[d].at = "reverting"
        /\ command[d].todo # << >>
        /\ t = command[d].turn
        /\ command'[d].todo = Tail(command[d].todo)
    BY <1>5, CommandEffect DEF Restore, RestoreFails
  <2>2. i + 1 \in DOMAIN command[d].todo /\ s = command[d].todo[i + 1]
    BY <2>1, TodoTail
  <2>3. QED
    BY <1>1, <2>1, <2>2 DEF CommandInv, TodoHolds
<1>6. ASSUME NEW c \in Commands \ {d}, NEW state, Become(c, state)
      PROVE  command'[d] = command[d]
  BY <1>6, BecomeEffect
<1>7. QED
  BY <1>2, <1>3, <1>4, <1>5, <1>6
     DEF CheckpointNext, checkpointVars, BeginTurn, Capture, Writes, UserEdit, Write, EndTurn, FailTurn,
         RevertAsk, RevertDismissed, RevertConfirmed, Restore, RestoreFails, RevertDone

\* Every step keeps each captured file as it was or still to be restored.
LEMMA RestoringStep ==
  CheckpointTypeOK /\ TurnInv /\ CommandInv /\ TodoHolds /\ Restoring /\ [CheckpointNext]_checkpointVars => Restoring'
<1> SUFFICES ASSUME CheckpointTypeOK, TurnInv, CommandInv, TodoHolds, Restoring, [CheckpointNext]_checkpointVars,
                    NEW d \in Commands, command'[d].at = "reverting",
                    ~command'[d].failed,
                    NEW t, t = command'[d].turn, t \notin mixed',
                    NEW f, f \in Captured(t)'
             PROVE  \/ disk'[f] = KeptOf(unread', before', t, f)
                    \/ \E i \in DOMAIN command'[d].todo : command'[d].todo[i].file = f
  BY DEF Restoring, Captured
<1> USE CheckpointAssumption
<1> DEFINE Pending == \E i \in DOMAIN command'[d].todo : command'[d].todo[i].file = f
<1>1. t \notin mixed
  BY HistoryKept
<1>2. ASSUME t \in 1 .. agentTurns, t \notin running
      PROVE  /\ f \in Captured(t) /\ f \in Files
             /\ disk[f] = KeptOf(unread, before, t, f) => disk'[f] = KeptOf(unread', before', t, f)
             /\ KeptOf(unread', before', t, f) = KeptOf(unread, before, t, f)
  <2>1. t \in Turn
    BY <1>2 DEF CheckpointTypeOK, Turn
  <2>2. f \in Captured(t)
    BY <1>2, <2>1, HistoryKept DEF Captured
  <2>3. f \in Files
    <3>1. PICK i \in DOMAIN snaps[t] : f = snaps[t][i].file
      BY <2>2 DEF Captured
    <3>2. snaps[t] \in Seq(Snapshot)
      BY <2>1 DEF CheckpointTypeOK
    <3>3. snaps[t][i] \in Snapshot
      BY <3>2
    <3>4. QED
      BY <3>1, <3>3 DEF Snapshot
  <2>4. KeptOf(unread', before', t, f) = KeptOf(unread, before, t, f)
    BY <1>2, <2>2, KeptStays
  <2>5. disk'[f] = disk[f] \/ disk'[f] = KeptOf(unread, before, t, f)
    BY <1>2, <2>3, OwnChange
  <2>6. QED
    BY <2>2, <2>3, <2>4, <2>5
<1>3. CASE command'[d] = command[d]
  <2>1. t \in 1 .. agentTurns /\ t \notin running
    BY <1>3 DEF CommandInv
  <2>2. disk[f] = KeptOf(unread, before, t, f) \/ Pending
    BY <1>1, <1>2, <1>3, <2>1 DEF Restoring
  <2>3. QED
    BY <1>2, <2>1, <2>2
<1>4. CASE RevertAsk(d) \/ RevertDismissed(d) \/ RevertDone(d)
  BY <1>4, CommandEffect
<1>5. CASE RevertConfirmed(d)
  <2>1. last # 0 /\ t = last /\ command'[d].todo = snaps[last]
    BY <1>5, CommandEffect
  <2>2. t \in 1 .. agentTurns /\ t \notin running
    BY <2>1 DEF CheckpointTypeOK, TurnInv
  <2>3. Pending
    BY <1>2, <2>1, <2>2 DEF Captured
  <2>4. QED
    BY <2>3
<1>6. CASE Restore(d) \/ RestoreFails(d)
  <2>1. /\ command[d].at = "reverting"
        /\ command[d].todo # << >>
        /\ t = command[d].turn
        /\ command'[d].todo = Tail(command[d].todo)
        /\ Restore(d) /\ ~command[d].failed
    BY <1>6, CommandEffect DEF Restore, RestoreFails
  <2>2. t \in 1 .. agentTurns /\ t \notin running
    BY <2>1 DEF CommandInv
  <2> DEFINE s == Head(command[d].todo)
  <2>3. 1 \in DOMAIN command[d].todo /\ s = command[d].todo[1]
    BY <2>1, TodoTail
  <2>4. CASE f = s.file
    <3>1. s.original = KeptOf(unread, before, t, f)
      BY <1>1, <2>1, <2>3, <2>4 DEF TodoHolds
    <3>2. disk'[f] = s.original
      BY <1>2, <2>1, <2>2, <2>4 DEF Restore, CheckpointTypeOK
    <3>3. QED
      BY <1>2, <2>2, <3>1, <3>2
  <2>5. CASE disk[f] = KeptOf(unread, before, t, f)
    BY <1>2, <2>2, <2>5
  <2>6. ASSUME f # s.file, NEW i \in DOMAIN command[d].todo,
               command[d].todo[i].file = f
        PROVE  Pending
    <3>1. i \in DOMAIN command[d].todo \ {1}
      BY <2>3, <2>6
    <3>2. /\ i - 1 \in DOMAIN Tail(command[d].todo)
          /\ Tail(command[d].todo)[i - 1] = command[d].todo[i]
      BY <2>1, <3>1, TodoTail
    <3>3. QED
      BY <2>1, <2>6, <3>2
  <2>7. QED
    BY <1>1, <1>2, <2>1, <2>2, <2>4, <2>5, <2>6 DEF Restoring
<1>7. ASSUME NEW c \in Commands \ {d}, NEW state, Become(c, state)
      PROVE  command'[d] = command[d]
  BY <1>7, BecomeEffect
<1>8. QED
  BY <1>3, <1>4, <1>5, <1>6, <1>7
     DEF CheckpointNext, checkpointVars, BeginTurn, Capture, Writes, UserEdit, Write, EndTurn, FailTurn,
         RevertAsk, RevertDismissed, RevertConfirmed, Restore, RestoreFails, RevertDone

\* At the start no turn has begun and no command reverts.
LEMMA InitUndoInv == CheckpointInit => UndoInv
<1> SUFFICES ASSUME CheckpointInit PROVE UndoInv
  OBVIOUS
<1>1. \A t \in Turn : DOMAIN snaps[t] = {}
  BY DEF CheckpointInit
<1>2. 1 .. agentTurns = {}
  BY DEF CheckpointInit
<1>3. \A c \in Commands : command[c].at = "off"
  BY DEF CheckpointInit, Idle
<1>4. unread = {}
  BY DEF CheckpointInit
<1>5. QED
  BY <1>1, <1>2, <1>3, <1>4 DEF UndoInv, SnapsHold, UnreadCaptured, Untouched, TodoHolds, Restoring

\* A command that leaves "reverting" is done: nothing is left to restore.
LEMMA DoneEffect ==
  ASSUME CheckpointTypeOK, [CheckpointNext]_checkpointVars, NEW d \in Commands,
         command[d].at = "reverting", command'[d].at = "off"
  PROVE  command[d].todo = << >>
<1>1. ASSUME NEW c \in Commands \ {d}, NEW state, Become(c, state)
      PROVE  command'[d] = command[d]
  BY <1>1, BecomeEffect
<1>2. CASE RevertDone(d)
  BY <1>2 DEF RevertDone
<1>3. CASE Restore(d) \/ RestoreFails(d)
  BY <1>3, CommandEffect
<1>4. CASE command'[d] = command[d]
  BY <1>4
<1>5. QED
  BY <1>1, <1>2, <1>3, <1>4
     DEF CheckpointNext, checkpointVars, BeginTurn, Capture, Writes, UserEdit, Write, EndTurn, FailTurn,
         RevertAsk, RevertDismissed, RevertConfirmed, Restore, RestoreFails, RevertDone

-----------------------------------------------------------------------------
(* Theorems.                                                                *)

\* The variables keep their types (agentCheckpoint.ts:34-109).
THEOREM CheckpointTypes == CheckpointSpec => []CheckpointTypeOK
<1>1. CheckpointInv => CheckpointTypeOK
  BY DEF CheckpointInv
<1>2. QED
  BY <1>1, CheckpointInvariance, PTL

\* A checkpoint never holds a text of its own turn: a revert cannot leave half a
\* turn behind, however writes, failures, edits and reverts interleave
\* (agentCheckpoint.ts:44-56).
THEOREM Predate == CheckpointSpec => []SnapshotsPredateTurn
<1>1. CheckpointInv => SnapshotsPredateTurn
  BY DEF CheckpointInv
<1>2. QED
  BY <1>1, CheckpointInvariance, PTL

\* Every text a turn left on disk is of a file in the turn's checkpoint, also where
\* a later revert brought it back (agentCheckpoint.ts:97-105).
THEOREM Captures == CheckpointSpec => []EveryWriteCaptured
<1>1. CheckpointInv => EveryWriteCaptured
  BY DEF CheckpointInv
<1>2. QED
  BY <1>1, CheckpointInvariance, PTL

\* A revert that met no error leaves of every file its turn wrote what the turn could
\* read of it, and of the others what was there, unless someone else wrote since the
\* turn began; whatever turns, edits and other reverts come in between, and whatever
\* cannot be read or written (agentCheckpoint.ts:31-80).
THEOREM Undo == CheckpointSpec => RevertUndoes
<1>1. CheckpointInit => UndoInv
  BY InitUndoInv
<1>2. CheckpointInv /\ UndoInv /\ [CheckpointNext]_checkpointVars => UndoInv'
  BY SnapsHoldStep, UnreadStep, UntouchedStep, TodoHoldsStep, RestoringStep DEF CheckpointInv, UndoInv
<1>3. ASSUME CheckpointInv, UndoInv, [CheckpointNext]_checkpointVars, NEW c \in Commands,
             Ends(c), command[c].turn \notin mixed, NEW f \in Files,
             NEW t, t = command[c].turn
      PROVE  disk[f] = IF f \in Captured(t) THEN Kept(t, f) ELSE before[t][f]
  <2>1. t \in 1 .. agentTurns /\ t \in Turn
    BY <1>3, CheckpointAssumption DEF CheckpointInv, CommandInv, CheckpointTypeOK, Turn, Ends
  <2>2. command[c].todo = << >>
    BY <1>3, DoneEffect DEF CheckpointInv, Ends
  <2>3. f \in Captured(t) => disk[f] = Kept(t, f)
    BY <1>3, <2>2 DEF UndoInv, Restoring, Ends, Kept, KeptOf
  <2>4. f \notin Captured(t) => disk[f] = before[t][f]
    BY <1>3, <2>1 DEF UndoInv, Untouched
  <2>5. QED
    BY <2>3, <2>4
<1>4. CheckpointInv /\ UndoInv /\ [CheckpointNext]_checkpointVars
        => [\A c \in Commands : Ends(c) /\ command[c].turn \notin mixed =>
              LET t == command[c].turn
              IN \A f \in Files :
                   disk[f] = IF f \in Captured(t) THEN Kept(t, f) ELSE before[t][f]]_checkpointVars
  BY <1>3
<1>5. QED
  BY <1>1, <1>2, <1>4, CheckpointInvariance, PTL DEF CheckpointSpec, RevertUndoes
=============================================================================
