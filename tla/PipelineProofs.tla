--------------------------- MODULE PipelineProofs ---------------------------
(***************************************************************************)
(* One run through its phases, for every configuration, repository, model  *)
(* and number of calls: typing, what a review, a completion and a delivery *)
(* rest on, what the task leaves alone, and the bounds of budget and model *)
(* calls. One inductive invariant, a part per property.                    *)
(***************************************************************************)
EXTENDS Pipeline, TLAPS

\* Where the phases are in the sequence.
LEMMA Indexes ==
  /\ Len(Phases) = 12
  /\ IndexOf("feature_request") = 1 /\ IndexOf("repository_discovery") = 2
  /\ IndexOf("specification") = 3 /\ IndexOf("planning") = 4
  /\ IndexOf("implementation") = 5 /\ IndexOf("validation") = 6
  /\ IndexOf("remediation") = 7 /\ IndexOf("review") = 8
  /\ IndexOf("draft_pr") = 9 /\ IndexOf("ci") = 10
  /\ IndexOf("ready") = 11 /\ IndexOf("completed") = 12
  <1>1. Len(Phases) = 12 /\ DOMAIN Phases = 1..12
    BY DEF Phases
  <1>2. ASSUME NEW k \in 1..12 PROVE IndexOf(Phases[k]) = k
    <2>1. \A i \in DOMAIN Phases : Phases[i] = Phases[k] => i = k
      BY <1>1, <1>2 DEF Phases
    <2>2. k \in DOMAIN Phases
      BY <1>1, <1>2
    <2>3. QED
      BY <2>1, <2>2 DEF IndexOf
  <1>3. /\ Phases[1] = "feature_request" /\ Phases[2] = "repository_discovery"
        /\ Phases[3] = "specification" /\ Phases[4] = "planning"
        /\ Phases[5] = "implementation" /\ Phases[6] = "validation"
        /\ Phases[7] = "remediation" /\ Phases[8] = "review"
        /\ Phases[9] = "draft_pr" /\ Phases[10] = "ci"
        /\ Phases[11] = "ready" /\ Phases[12] = "completed"
    BY DEF Phases
  <1>4. /\ IndexOf("feature_request") = 1 /\ IndexOf("repository_discovery") = 2
        /\ IndexOf("specification") = 3 /\ IndexOf("planning") = 4
        /\ IndexOf("implementation") = 5 /\ IndexOf("validation") = 6
    BY <1>2, <1>3
  <1>5. /\ IndexOf("remediation") = 7 /\ IndexOf("review") = 8
        /\ IndexOf("draft_pr") = 9 /\ IndexOf("ci") = 10
        /\ IndexOf("ready") = 11 /\ IndexOf("completed") = 12
    BY <1>2, <1>3
  <1>6. QED
    BY <1>1, <1>4, <1>5

\* The typing of the run and of what its phases leave, apart from task and call.
RunTypeOK ==
  /\ at \in 0..12
  /\ ctx \in Context
  /\ spent \in Nat /\ total \in Nat /\ calls \in 0..MaxCalls
  /\ saved \in Record

\* The typing of the artifacts.
ArtTypeOK ==
  /\ verdictFile \in Verdict \cup {None}
  /\ evidence \subseteq ProviderRecord
  /\ delivered \in {None, "head"}
  /\ tree \in Workspace \cup {None}
  /\ validated \in Workspace \cup {None}
  /\ shown \in Seq(Status)

\* The type invariant, split by whose variables it speaks of.
LEMMA TypeParts ==
  TypeOK <=> /\ conf \in Configurations /\ wiring = conf.wiring
             /\ RunTypeOK /\ ArtTypeOK /\ TaskTypeOK /\ CallTypeOK
  BY Indexes DEF TypeOK, RunTypeOK, ArtTypeOK

\* What a handler may return.
Outcome == {"ok", "skipped", "failed", "blocked"}

\* What the end of a phase does to the run: it stays in its phase unless the handler was
\* content, it is complete exactly behind the last phase, and a call that goes on goes
\* on with what was recorded.
PhaseEnds(c, outcome) ==
  /\ saved'.ctx = c
  /\ \/ saved'.next = at
     \/ saved'.next = at + 1 /\ outcome \in {"ok", "skipped"}
  /\ saved'.state = "complete" <=> saved'.next = 13
  /\ at' # 0 => at' = saved'.next /\ ctx' = c

\* What a record consists of, and that every combination is one.
LEMMA Records ==
  /\ \A r \in Record : r.next \in 1..13 /\ r.ctx \in Context /\ r.state \in RunState
  /\ \A n \in 1..13, c \in Context, s \in RunState : [next |-> n, ctx |-> c, state |-> s] \in Record
  /\ NoContext \in Context
  <1>1. \A r \in Record : r.next \in 1..13 /\ r.ctx \in Context /\ r.state \in RunState
    BY Indexes DEF Record
  <1>2. \A n \in 1..13, c \in Context, s \in RunState : [next |-> n, ctx |-> c, state |-> s] \in Record
    BY Indexes DEF Record
  <1>3. NoContext \in Context
    BY DEF NoContext, Context
  <1>4. QED
    BY <1>1, <1>2, <1>3

\* The end of a phase.
LEMMA EndPhaseFacts ==
  ASSUME RunTypeOK, at # 0, NEW outcome \in Outcome, NEW c \in Context, EndPhase(outcome, c)
  PROVE  PhaseEnds(c, outcome) /\ RunTypeOK' /\ UNCHANGED <<conf, calls>>
  <1>1. PICK amount \in Consumption :
          LET result == IF Exhausted(spent + amount) THEN "blocked" ELSE outcome
              state == StateAfter(result)
          IN  /\ saved' = [next |-> Following(result), ctx |-> c, state |-> state]
              /\ at' = IF state = "running" THEN Following(result) ELSE 0
              /\ ctx' = IF state = "running" THEN c ELSE NoContext
              /\ spent' = IF state = "running" THEN spent + amount ELSE 0
              /\ total' = total + amount
              /\ UNCHANGED <<conf, calls>>
    BY DEF EndPhase
  <1> DEFINE result == IF Exhausted(spent + amount) THEN "blocked" ELSE outcome
  <1>2. /\ saved' = [next |-> Following(result), ctx |-> c, state |-> StateAfter(result)]
        /\ at' = IF StateAfter(result) = "running" THEN Following(result) ELSE 0
        /\ ctx' = IF StateAfter(result) = "running" THEN c ELSE NoContext
        /\ spent' = IF StateAfter(result) = "running" THEN spent + amount ELSE 0
        /\ total' = total + amount
        /\ UNCHANGED <<conf, calls>>
    BY <1>1
  <1>3. result \in Outcome /\ (result \in {"ok", "skipped"} => outcome = result)
    BY DEF Outcome
  <1>4. at \in 1..12 /\ spent \in Nat /\ total \in Nat /\ amount \in Nat
    BY DEF RunTypeOK, Consumption
  <1> HIDE DEF result
  <1>5. /\ Following(result) = at \/ (Following(result) = at + 1 /\ outcome \in {"ok", "skipped"})
        /\ StateAfter(result) = "complete" <=> Following(result) = 13
        /\ StateAfter(result) \in RunState
    <2>1. CASE result \in {"failed", "blocked"}
      <3>1. Following(result) = at /\ StateAfter(result) = result
        BY <2>1 DEF Following, StateAfter
      <3>2. QED
        BY <1>4, <2>1, <3>1 DEF RunState
    <2>2. CASE result \in {"ok", "skipped"}
      <3>1. Following(result) = at + 1
        BY <2>2 DEF Following
      <3>2. StateAfter(result) = IF at = 12 THEN "complete" ELSE "running"
        BY <2>2, Indexes DEF StateAfter
      <3>3. QED
        BY <1>3, <1>4, <2>2, <3>1, <3>2 DEF RunState
    <2>3. QED
      BY <1>3, <2>1, <2>2 DEF Outcome
  <1>6. Following(result) \in 1..13
    BY <1>4, <1>5
  <1>7. /\ saved'.next = Following(result) /\ saved'.ctx = c /\ saved'.state = StateAfter(result)
        /\ saved' \in Record
    BY <1>2, <1>5, <1>6, Records
  <1>8. PhaseEnds(c, outcome)
    BY <1>2, <1>5, <1>7 DEF PhaseEnds
  <1>9. at' \in 0..12
    BY <1>2, <1>5, <1>6
  <1>10. ctx' \in Context /\ spent' \in Nat /\ total' \in Nat
    BY <1>2, <1>4, Records
  <1>11. QED
    BY <1>2, <1>7, <1>8, <1>9, <1>10 DEF RunTypeOK

-----------------------------------------------------------------------------
\* Steps of the call alone.
CallStep ==
  /\ UNCHANGED <<conf, runVars, artVars, taskVars>>
  /\ \/ \E phase \in {"specification", "planning", "implementation", "remediation", "review"} :
          AskModel(phase)
     \/ ProviderResponds \/ AskAgain

\* A phase ends that leaves artifacts and workspace as they are.
PlainEnd ==
  /\ at \in {1, 2, 7, 8, 9, 11, 12}
  /\ \E outcome \in Outcome, c \in Context :
       /\ EndPhase(outcome, c)
       /\ at = 8 => outcome = "failed"
       /\ at # 2 => c.profile = ctx.profile
       /\ c.verdict = ctx.verdict /\ c.ci = ctx.ci
       /\ c.head \in {ctx.head, delivered}
  /\ UNCHANGED <<artVars, taskVars>>
  /\ HangUp \/ UNCHANGED callVars

\* Every step, sorted by what it does.
LEMMA StepKinds ==
  ASSUME TypeOK, Next
  PROVE  \/ Start \/ Die \/ HandlerRaises
         \/ CallStep \/ PlainEnd
         \/ Specification \/ Planning
         \/ BeginTask \/ TaskSteps \/ EndTask
         \/ Validation \/ Review \/ Deliver \/ Ci
  <1>0. RunTypeOK /\ ArtTypeOK
    BY TypeParts
  <1>1. ctx \in Context
    BY <1>0 DEF RunTypeOK
  <1>2. ASSUME NEW phase, AskModel(phase) PROVE UNCHANGED <<conf, runVars, artVars, taskVars>>
    BY <1>2 DEF AskModel
  <1>3. CASE ProviderResponds \/ AskAgain
    BY <1>3 DEF ProviderResponds, AskAgain, CallStep
  <1>4. ASSUME NEW phase \in {"specification", "planning", "implementation", "remediation",
                              "review"},
               AskModel(phase)
        PROVE  CallStep
    BY <1>2, <1>4 DEF CallStep
  <1>5. CASE FeatureRequest
    <2>1. at = 1 /\ EndPhase("ok", ctx) /\ UNCHANGED <<artVars, taskVars, callVars>>
      BY <1>5, Indexes DEF FeatureRequest, In
    <2>2. QED
      BY <1>1, <2>1 DEF PlainEnd, Outcome
  <1>6. CASE RepositoryDiscovery
    <2>1. at = 2 /\ UNCHANGED <<artVars, taskVars, callVars>>
      BY <1>6, Indexes DEF RepositoryDiscovery, In
    <2>2. PICK found \in {"profiled", "fallback"} : EndPhase("ok", [ctx EXCEPT !.profile = found])
      BY <1>6 DEF RepositoryDiscovery
    <2> DEFINE c == [ctx EXCEPT !.profile = found]
    <2>3. /\ c \in Context /\ c.verdict = ctx.verdict /\ c.ci = ctx.ci
          /\ c.head = ctx.head
      BY <1>1 DEF Context
    <2>4. EndPhase("ok", c)
      BY <2>2
    <2> HIDE DEF c
    <2>5. QED
      BY <2>1, <2>3, <2>4 DEF PlainEnd, Outcome
  <1>7. CASE Remediation
    <2>1. at = 7 /\ UNCHANGED <<artVars, taskVars>> /\ HangUp
      BY <1>7, Indexes DEF Remediation, In
    <2>2. \E outcome \in Outcome : EndPhase(outcome, ctx)
      BY <1>7 DEF Remediation, Outcome
    <2>3. QED
      BY <1>1, <2>1, <2>2 DEF PlainEnd
  <1>8. CASE ReviewRaises
    <2>1. at = 8 /\ EndPhase("failed", ctx) /\ UNCHANGED <<artVars, taskVars>> /\ HangUp
      BY <1>8, Indexes DEF ReviewRaises, In
    <2>2. QED
      BY <1>1, <2>1 DEF PlainEnd, Outcome
  <1>9. CASE DraftPr
    <2>1. at = 9 /\ UNCHANGED <<artVars, taskVars, callVars>>
      BY <1>9, Indexes DEF DraftPr, In
    <2>2. delivered \in {None, "head"}
      BY <1>0 DEF ArtTypeOK
    <2> DEFINE c == [ctx EXCEPT !.head = delivered]
    <2>3. /\ c \in Context /\ c.verdict = ctx.verdict /\ c.ci = ctx.ci
          /\ c.profile = ctx.profile /\ c.head = delivered
      BY <1>1, <2>2 DEF Context
    <2>4. EndPhase("skipped", ctx) \/ EndPhase("ok", c)
      BY <1>9 DEF DraftPr
    <2> HIDE DEF c
    <2>5. QED
      BY <1>1, <2>1, <2>3, <2>4 DEF PlainEnd, Outcome
  <1>10. CASE Ready
    <2>1. at = 11 /\ EndPhase("ok", ctx) /\ UNCHANGED <<artVars, taskVars, callVars>>
      BY <1>10, Indexes DEF Ready, In
    <2>2. QED
      BY <1>1, <2>1 DEF PlainEnd, Outcome
  <1>11. CASE Completed
    <2>1. at = 12 /\ EndPhase("ok", ctx) /\ UNCHANGED <<artVars, taskVars, callVars>>
      BY <1>11, Indexes DEF Completed, In
    <2>2. QED
      BY <1>1, <2>1 DEF PlainEnd, Outcome
  <1>12. CASE DeliveryRefused
    <2>1. at = 9 /\ EndPhase("failed", ctx) /\ UNCHANGED <<artVars, taskVars, callVars>>
      BY <1>12, Indexes DEF DeliveryRefused, In
    <2>2. QED
      BY <1>1, <2>1 DEF PlainEnd, Outcome
  <1>13. QED
    BY <1>3, <1>4, <1>5, <1>6, <1>7, <1>8, <1>9, <1>10, <1>11, <1>12 DEF Next, Advance

-----------------------------------------------------------------------------
\* What the adapters return is an answer.
LEMMA AdaptedType ==
  ASSUME NEW http \in HttpOutcome
  PROVE  Adapted(http) \in Answer
  <1> DEFINE Kind == ErrorKind \cup Payload
                       \cup {"raised", "list", "connection_failure", "oversized_response"}
  <1>1. Normalised(http) \in Kind
    <2>1. \/ Normalised(http) \in {"auth", "timeout", "connection_failure", "provider_failure",
                                   "rate_limit", "oversized_response", "malformed_output",
                                   "raised"}
          \/ Normalised(http) = http /\ http \in {"prose", "list", "valid", "outside", "invalid"}
      BY Zenon DEF Normalised, HttpOutcome
    <2>2. QED
      BY <2>1 DEF ErrorKind, Payload
  <1>2. ASSUME NEW content \in Kind PROVE Parsed(content) \in Kind \ {"list"}
    BY DEF Parsed, ErrorKind, Payload
  <1>3. \/ Adapted(http) \in {"malformed_output", "provider_failure"}
        \/ /\ Normalised(http) \notin {"oversized_response", "connection_failure"}
           /\ Adapted(http) = Parsed(Normalised(http))
    BY Zenon DEF Adapted
  <1>4. QED
    BY <1>1, <1>2, <1>3 DEF Answer, Parsed, ErrorKind, Payload

\* Every adapter answers with what the router knows.
LEMMA ResponsesType ==
  ASSUME NEW provider \in Provider
  PROVE  Responses(provider) \subseteq Answer
  <1>1. {Adapted(http) : http \in Http} \subseteq Answer
    BY AdaptedType, CallAssumption
  <1>2. Fixtures \subseteq Answer /\ CodexResponse \in Answer /\ Adapted("no_token") \in Answer
    BY AdaptedType DEF Fixtures, CodexResponse, Answer, ErrorKind, Payload, HttpOutcome
  <1>3. Recorded \subseteq Answer
    BY <1>1, <1>2 DEF Recorded, CodexResponse
  <1>4. Responses(provider) \in {Fixtures, {CodexResponse}, {Adapted("no_token")}, Recorded,
                                 {Adapted(http) : http \in Http}}
    BY Zenon DEF Responses
  <1>5. QED
    BY <1>1, <1>2, <1>3, <1>4

\* A role has a provider or none.
LEMMA RoutingType ==
  ASSUME NEW role \in Role
  PROVE  Routing(role) \in Provider \cup {"none"}
  <1>1. DefaultRouting(role) \in Provider
    BY DEF DefaultRouting, Provider
  <1>2. Routing(role) \in {"minimax", "none", DefaultRouting(role)}
    BY Zenon DEF Routing
  <1>3. QED
    BY <1>1, <1>2 DEF Provider

\* The requests a call has sent at each of its stages.
AskedSoFar ==
  /\ asked <= MaxAttempts + 2
  /\ call.state = "primary" => asked < MaxAttempts
  /\ call.state = "repair" => asked <= MaxAttempts
  /\ call.state = "fallback" => asked <= MaxAttempts + 1

\* What a step does to the call.
CallMoves ==
  \/ \E role \in Role : Ask(role)
  \/ \E answer \in Responses(call.provider) : Respond(answer)
  \/ HangUp
  \/ UNCHANGED callVars

\* A request stays well typed and within its bound.
LEMMA CallInv == ASSUME CallTypeOK, AskedSoFar, CallMoves PROVE CallTypeOK' /\ AskedSoFar' /\ wiring' = wiring
  <1>1. /\ call \in Call /\ asked \in Nat /\ wiring \in Wiring /\ MaxAttempts \in Nat \ {0}
        /\ call.provider \in Provider
    BY CallAssumption DEF CallTypeOK, Call
  <1>2. ASSUME NEW role \in Role, Ask(role)
        PROVE  CallTypeOK' /\ AskedSoFar' /\ wiring' = wiring
    <2>1. wiring' = wiring /\ asked' = 0
      BY <1>2 DEF Ask
    <2>2. CASE Routing(role) \in Adapters
      <3>1. Routing(role) \in Provider
        BY <2>2 DEF Adapters, AdaptersOf, Provider
      <3>2. call' = [call EXCEPT !.state = "primary", !.role = role, !.provider = Routing(role)]
        BY <1>2, <2>2 DEF Ask
      <3>3. call' \in Call /\ call'.state = "primary"
        BY <1>1, <3>1, <3>2 DEF Call
      <3>4. QED
        BY <1>1, <2>1, <3>3 DEF CallTypeOK, AskedSoFar
    <2>3. CASE Routing(role) \notin Adapters
      <3>1. call' = [call EXCEPT !.state = "answered", !.role = role, !.answer = "raised"]
        BY <1>2, <2>3 DEF Ask
      <3>2. call' \in Call /\ call'.state = "answered"
        BY <1>1, <3>1 DEF Call, Answer
      <3>3. QED
        BY <1>1, <2>1, <3>2 DEF CallTypeOK, AskedSoFar
    <2>4. QED
      BY <2>2, <2>3
  <1>3. ASSUME NEW answer \in Answer, Respond(answer)
        PROVE  CallTypeOK' /\ AskedSoFar' /\ wiring' = wiring
    <2>1. wiring' = wiring /\ asked' = asked + 1
      BY <1>3 DEF Respond, Retry, Repair, Return, FallBack, Sent
    <2>2. asked' \in Nat /\ wiring' \in Wiring
      BY <1>1, <2>1
    <2>3. CASE Retry(answer)
      <3>1. call' = call /\ call.state = "primary" /\ asked + 1 < MaxAttempts
        BY <2>3 DEF Retry, MayRetry
      <3>2. QED
        BY <1>1, <2>1, <2>2, <3>1 DEF CallTypeOK, AskedSoFar
    <2>4. CASE Repair(answer)
      <3>1. call' = [call EXCEPT !.state = "repair"] /\ call.state = "primary"
        BY <2>4 DEF Repair
      <3>2. call' \in Call /\ call'.state = "repair"
        BY <1>1, <3>1 DEF Call
      <3>3. QED
        BY <1>1, <2>1, <2>2, <3>1, <3>2 DEF CallTypeOK, AskedSoFar
    <2>5. CASE Return(answer)
      <3>1. /\ call' = [call EXCEPT !.state = "answered", !.answer = answer]
            /\ call.state \in {"primary", "repair", "fallback"}
        BY <2>5 DEF Return
      <3>2. call' \in Call /\ call'.state = "answered"
        BY <1>1, <3>1 DEF Call
      <3>3. QED
        BY <1>1, <2>1, <2>2, <3>1, <3>2 DEF CallTypeOK, AskedSoFar
    <2>6. CASE FallBack(answer)
      <3>1. call.state \in {"primary", "repair"}
        BY <2>6 DEF FallBack, GivesUp
      <3>2. Fallback(call.provider) \in Provider
        BY DEF Fallback, Provider
      <3>3. \/ call' = [call EXCEPT !.state = "fallback", !.provider = Fallback(call.provider)]
            \/ call' = [call EXCEPT !.state = "answered", !.answer = "raised"]
        BY <2>6 DEF FallBack
      <3>4. call' \in Call /\ call'.state \in {"fallback", "answered"}
        BY <1>1, <3>2, <3>3 DEF Call, Answer
      <3>5. QED
        BY <1>1, <2>1, <2>2, <3>1, <3>4 DEF CallTypeOK, AskedSoFar
    <2>7. QED
      BY <1>3, <2>3, <2>4, <2>5, <2>6 DEF Respond
  <1>4. CASE HangUp
    <2>1. NoRequest \in Call
      BY DEF NoRequest, Call, Role, Provider, Answer
    <2>2. call' = NoRequest /\ asked' = 0 /\ wiring' = wiring
      BY <1>4 DEF HangUp
    <2>3. QED
      BY <1>1, <2>1, <2>2 DEF CallTypeOK, AskedSoFar, NoRequest
  <1>5. CASE UNCHANGED callVars
    BY <1>5 DEF callVars, CallTypeOK, AskedSoFar
  <1>6. QED
    BY <1>1, <1>2, <1>3, <1>4, <1>5, ResponsesType DEF CallMoves

\* A composition is built once.
LEMMA KeepsWiring == CallMoves => wiring' = wiring
  BY DEF CallMoves, Ask, Respond, Retry, Repair, Return, FallBack, Sent, HangUp, callVars

\* Every step is one of these for the request.
LEMMA StepCall == ASSUME TypeOK, Next PROVE CallMoves
  <1>1. ASSUME NEW phase \in {"specification", "planning", "implementation", "remediation",
                              "review"},
               AskModel(phase)
        PROVE  CallMoves
    <2>1. RoleOf(phase) \in Role
      BY <1>1 DEF RoleOf, Role
    <2>2. QED
      BY <1>1, <2>1 DEF AskModel, CallMoves
  <1>2. CASE AskAgain
    BY <1>2 DEF AskAgain, CallMoves, Role
  <1>3. CASE ProviderResponds
    BY <1>3 DEF ProviderResponds, CallMoves
  <1>4. CASE CallStep
    BY <1>1, <1>2, <1>3, <1>4 DEF CallStep
  <1>5. CASE Die \/ HandlerRaises \/ PlainEnd \/ Specification \/ Planning \/ BeginTask \/ Review
    BY <1>5 DEF Die, HandlerRaises, PlainEnd, Specification, Planning, BeginTask, Review, CallMoves
  <1>6. CASE Start \/ TaskSteps \/ EndTask \/ Validation \/ Deliver \/ Ci
    BY <1>6 DEF Start, TaskSteps, EndTask, Validation, Deliver, Ci, CallMoves
  <1>7. QED
    BY <1>4, <1>5, <1>6, StepKinds

-----------------------------------------------------------------------------
\* How the run stands between two steps: a call is in the phase of the record, with the
\* context recorded there, and a task is under way in the implementation phase only.
Placed ==
  /\ at # 0 => /\ at = saved.next
               /\ ctx.profile = saved.ctx.profile
               /\ ctx.verdict = saved.ctx.verdict
               /\ ctx.ci = saved.ctx.ci
  /\ saved.state = "complete" <=> saved.next = 13
  /\ step # "idle" => at = 5

\* The phase a handler's step belongs to.
LEMMA InPhases ==
  /\ (Specification => at = 3) /\ (Planning => at = 4)
  /\ (BeginTask \/ TaskSteps \/ EndTask => at = 5)
  /\ (Validation => at = 6) /\ (Review => at = 8)
  /\ (Deliver => at = 9) /\ (Ci => at = 10)
  /\ HandlerRaises => at # 0
  BY Indexes DEF Specification, Planning, BeginTask, TaskSteps, EndTask, Validation, Review,
                 Deliver, Ci, In, HandlerRaises, Fallible

\* The context with one of its fields changed.
LEMMA Updates ==
  ASSUME NEW c \in Context
  PROVE  /\ \A e \in {"passed", "failed"} :
              LET u == [c EXCEPT !.exit = e]
              IN  u \in Context /\ u.profile = c.profile /\ u.verdict = c.verdict
                    /\ u.ci = c.ci /\ u.head = c.head
         /\ \A v \in Verdict :
              LET u == [c EXCEPT !.verdict = v]
              IN  u \in Context /\ u.profile = c.profile /\ u.verdict = v
                    /\ u.ci = c.ci /\ u.head = c.head
         /\ \A r \in {"ready", "blocked", "stale", "pending"} :
              LET u == [c EXCEPT !.ci = r]
              IN  u \in Context /\ u.profile = c.profile /\ u.verdict = c.verdict
                    /\ u.ci = r /\ u.head = c.head
  <1>1. ASSUME NEW e \in {"passed", "failed"}
        PROVE  LET u == [c EXCEPT !.exit = e]
               IN  u \in Context /\ u.profile = c.profile /\ u.verdict = c.verdict
                     /\ u.ci = c.ci /\ u.head = c.head
    BY DEF Context
  <1>2. ASSUME NEW v \in Verdict
        PROVE  LET u == [c EXCEPT !.verdict = v]
               IN  u \in Context /\ u.profile = c.profile /\ u.verdict = v
                     /\ u.ci = c.ci /\ u.head = c.head
    BY DEF Context
  <1>3. ASSUME NEW r \in {"ready", "blocked", "stale", "pending"}
        PROVE  LET u == [c EXCEPT !.ci = r]
               IN  u \in Context /\ u.profile = c.profile /\ u.verdict = c.verdict
                     /\ u.ci = r /\ u.head = c.head
    BY DEF Context
  <1>4. QED
    BY <1>1, <1>2, <1>3

\* What a review service may say.
LEMMA VerdictsType == Verdicts \subseteq Verdict \cup {"raised"}
  <1>1. Verdicts \in {{DeterministicVerdict}, {"raised"}, Verdict \cup {"raised"}, {"request_changes"}}
    BY Zenon DEF Verdicts
  <1>2. QED
    BY <1>1 DEF DeterministicVerdict, Verdict

\* What readiness may say.
LEMMA ReadinessType ==
  \A statuses : Readiness(statuses) \in {"ready", "blocked", "stale", "pending"}
  BY Zenon DEF Readiness

\* What ci may read is a list of up to two statuses.
LEMMA StatusesType ==
  ASSUME ctx.head \in {"head"}
  PROVE  \A statuses \in Statuses : \E n \in 0..2 : statuses \in [1..n -> Status]
  <1> DEFINE listed == UNION {[1..n -> Status] : n \in 0..2}
             assumed == <<[name |-> "quality-gate", status |-> "success", head |-> ctx.head]>>
  <1>1. Statuses \in {listed, {<<>>}, {assumed}}
    BY Zenon DEF Statuses
  <1>2. assumed \in [1..1 -> Status]
    BY DEF Status
  <1>3. <<>> \in [1..0 -> Status]
    OBVIOUS
  <1>4. CASE Statuses = listed
    <2>1. SUFFICES ASSUME NEW statuses \in UNION {[1..n -> Status] : n \in 0..2}
                   PROVE  \E n \in 0..2 : statuses \in [1..n -> Status]
      BY <1>4
    <2>2. QED
      OBVIOUS
  <1>5. CASE Statuses = {<<>>}
    BY <1>3, <1>5
  <1>6. CASE Statuses = {assumed}
    <2> HIDE DEF assumed
    <2>1. QED
      BY <1>2, <1>6
  <1>7. QED
    BY <1>1, <1>4, <1>5, <1>6

\* How validation, review and readiness end.
LEMMA ValidationEnds ==
  ASSUME TypeOK, Validation
  PROVE  \E exit \in {"passed", "failed"} :
           /\ validated' = IF exit = "passed" THEN files ELSE validated
           /\ \E c \in Context :
                /\ EndPhase(IF exit = "passed" THEN "ok" ELSE "failed", c)
                /\ c.profile = ctx.profile /\ c.verdict = ctx.verdict
                /\ c.ci = ctx.ci /\ c.head = ctx.head
  <1>1. PICK exit \in ValidationExits(conf.runner) :
          /\ validated' = IF exit = "passed" THEN files ELSE validated
          /\ EndPhase(IF exit = "passed" THEN "ok" ELSE "failed", [ctx EXCEPT !.exit = exit])
    BY DEF Validation
  <1>2. exit \in {"passed", "failed"}
    BY DEF ValidationExits
  <1> DEFINE c == [ctx EXCEPT !.exit = exit]
  <1>3. /\ c \in Context /\ c.profile = ctx.profile /\ c.verdict = ctx.verdict
        /\ c.ci = ctx.ci /\ c.head = ctx.head
    <2>1. ctx \in Context
      BY DEF TypeOK
    <2>2. QED
      BY <1>2, <2>1, Updates
  <1>4. EndPhase(IF exit = "passed" THEN "ok" ELSE "failed", c)
    BY <1>1
  <1> HIDE DEF c
  <1>5. QED
    BY <1>1, <1>2, <1>3, <1>4

\* What a review leaves behind, with and without its provider record.
LEMMA ReviewEnds ==
  ASSUME TypeOK, Review
  PROVE  \E verdict \in Verdict, recorded \in BOOLEAN :
           /\ verdictFile' = verdict
           /\ evidence' = IF recorded THEN Evidenced("review") ELSE evidence
           /\ \E c \in Context :
                /\ EndPhase(IF recorded THEN ReviewOutcome(verdict) ELSE "failed", c)
                /\ c.profile = ctx.profile /\ c.ci = ctx.ci /\ c.head = ctx.head
                /\ recorded => c.verdict = verdict
  <1>1. PICK verdict \in Verdicts \ {"raised"}, recorded \in BOOLEAN :
          /\ PersistVerdict(verdict)
          /\ evidence' = IF recorded THEN Evidenced("review") ELSE evidence
          /\ IF recorded
             THEN EndPhase(ReviewOutcome(verdict), [ctx EXCEPT !.verdict = verdict])
             ELSE EndPhase("failed", ctx)
    BY DEF Review
  <1>2. verdict \in Verdict /\ verdictFile' = verdict
    BY <1>1, VerdictsType DEF PersistVerdict
  <1>3. ctx \in Context
    BY DEF TypeOK
  <1> DEFINE c == [ctx EXCEPT !.verdict = verdict]
  <1>4. /\ c \in Context /\ c.profile = ctx.profile /\ c.verdict = verdict
        /\ c.ci = ctx.ci /\ c.head = ctx.head
    BY <1>2, <1>3 DEF Context
  <1>5. CASE recorded
    <2>1. EndPhase(ReviewOutcome(verdict), c)
      BY <1>1, <1>5
    <2> HIDE DEF c
    <2>2. QED
      BY <1>1, <1>2, <1>4, <1>5, <2>1
  <1>6. CASE ~recorded
    BY <1>1, <1>2, <1>3, <1>6
  <1>7. QED
    BY <1>5, <1>6

\* In the ci phase a run either skips, or is blocked without a head, or judges the
\* statuses it has read.
LEMMA CiEnds ==
  ASSUME TypeOK, Ci
  PROVE  \/ SkipRemote /\ EndPhase("skipped", ctx) /\ shown' = shown
         \/ \E c \in Context, outcome \in {"ok", "failed"} :
              /\ EndPhase(outcome, c)
              /\ c.profile = ctx.profile /\ c.verdict = ctx.verdict /\ c.head = ctx.head
              /\ shown' = shown \/ \E n \in 0..2 : shown' \in [1..n -> Status]
              /\ outcome = "ok" =>
                   /\ ctx.head # None /\ c.ci = "ready"
                   /\ Readiness(shown') = "ready"
                   /\ \E n \in 0..2 : shown' \in [1..n -> Status]
  <1>1. ctx \in Context
    BY DEF TypeOK
  <1>2. CASE SkipRemote
    BY <1>2 DEF Ci
  <1>3. CASE ~SkipRemote /\ ctx.head = None
    <2> DEFINE c == [ctx EXCEPT !.ci = "blocked"]
    <2>1. EndPhase("failed", c) /\ shown' = shown
      BY <1>3 DEF Ci
    <2>2. /\ c \in Context /\ c.profile = ctx.profile /\ c.verdict = ctx.verdict
          /\ c.head = ctx.head
      BY <1>1, Updates
    <2> HIDE DEF c
    <2>3. QED
      BY <2>1, <2>2
  <1>4. CASE ~SkipRemote /\ ctx.head # None
    <2>1. PICK statuses \in Statuses :
            /\ shown' = statuses
            /\ EndPhase(IF Readiness(statuses) = "ready" THEN "ok" ELSE "failed",
                        [ctx EXCEPT !.ci = Readiness(statuses)])
      BY <1>4 DEF Ci
    <2>2. Readiness(statuses) \in {"ready", "blocked", "stale", "pending"}
      BY ReadinessType
    <2> DEFINE c == [ctx EXCEPT !.ci = Readiness(statuses)]
    <2>3. /\ c \in Context /\ c.profile = ctx.profile /\ c.verdict = ctx.verdict
          /\ c.head = ctx.head /\ c.ci = Readiness(statuses)
      BY <1>1, <2>2, Updates
    <2>4. EndPhase(IF Readiness(statuses) = "ready" THEN "ok" ELSE "failed", c)
      BY <2>1
    <2>5. ctx.head \in {"head"}
      BY <1>1, <1>4 DEF Context
    <2>6. \E n \in 0..2 : shown' \in [1..n -> Status]
      BY <2>1, <2>5, StatusesType
    <2> HIDE DEF c
    <2>7. CASE Readiness(statuses) = "ready"
      BY <1>4, <2>1, <2>3, <2>4, <2>6, <2>7
    <2>8. CASE Readiness(statuses) # "ready"
      BY <2>3, <2>4, <2>6, <2>8
    <2>9. QED
      BY <2>7, <2>8
  <1>5. QED
    BY <1>2, <1>3, <1>4

-----------------------------------------------------------------------------
\* What a step does to the run: a call starts, dies, goes on in its phase, or ends it.
RunMoves ==
  \/ Start
  \/ at # 0 /\ at' = 0 /\ ctx' = NoContext /\ spent' = 0 /\ UNCHANGED <<conf, saved, total, calls>>
  \/ UNCHANGED <<conf, runVars>>
  \/ /\ at # 0
     /\ \E outcome \in Outcome, c \in Context : EndPhase(outcome, c)

\* Every step is one of these for the run.
LEMMA StepRun == ASSUME TypeOK, Next PROVE RunMoves
  <1>0. ctx \in Context
    BY DEF TypeOK
  <1>1. CASE Start \/ Die
    BY <1>1 DEF Start, Die, RunMoves
  <1>2. CASE CallStep \/ BeginTask \/ TaskSteps \/ Deliver
    BY <1>2 DEF CallStep, BeginTask, TaskSteps, Deliver, RunMoves, runVars
  <1>3. CASE HandlerRaises \/ Specification \/ Planning \/ EndTask
    <2>1. at # 0
      BY <1>3, InPhases
    <2>2. \E outcome \in Outcome : EndPhase(outcome, ctx)
      BY <1>3 DEF HandlerRaises, Specification, Planning, EndTask, Outcome
    <2>3. QED
      BY <1>0, <2>1, <2>2 DEF RunMoves
  <1>4. CASE PlainEnd
    BY <1>4 DEF PlainEnd, RunMoves
  <1>5. CASE Validation
    BY <1>5, ValidationEnds, InPhases DEF RunMoves, Outcome
  <1>6. CASE Review
    BY <1>6, ReviewEnds, InPhases DEF RunMoves, Outcome, ReviewOutcome
  <1>7. CASE Ci
    BY <1>7, <1>0, CiEnds, InPhases DEF RunMoves, Outcome
  <1>8. QED
    BY <1>1, <1>2, <1>3, <1>4, <1>5, <1>6, <1>7, StepKinds

\* What a call begins with: the record's phase and context without the head.
LEMMA StartFacts ==
  ASSUME TypeOK, Start, saved.state = "complete" <=> saved.next = 13
  PROVE  /\ RunTypeOK' /\ conf' = conf
         /\ at = 0 /\ at' = saved.next /\ at' \in 1..12 /\ saved'.next = saved.next
         /\ saved'.ctx = saved.ctx /\ saved'.state = "running"
         /\ ctx'.profile = saved.ctx.profile /\ ctx'.verdict = saved.ctx.verdict
         /\ ctx'.ci = saved.ctx.ci /\ ctx'.head = None
         /\ spent' = 0 /\ total' = total /\ calls' = calls + 1
  <1>1. /\ saved \in Record /\ calls \in 0..MaxCalls /\ total \in Nat /\ MaxCalls \in Nat
        /\ saved.ctx \in Context /\ saved.next \in 1..13
    BY Records, PipelineAssumption DEF TypeOK
  <1>2. /\ at = 0 /\ calls < MaxCalls /\ saved.state # "complete"
        /\ at' = saved.next
        /\ ctx' = [saved.ctx EXCEPT !.head = None]
        /\ spent' = 0
        /\ saved' = [saved EXCEPT !.state = "running"]
        /\ calls' = calls + 1
        /\ total' = total /\ conf' = conf
    BY DEF Start
  <1>3. ctx' \in Context /\ ctx'.profile = saved.ctx.profile
        /\ ctx'.verdict = saved.ctx.verdict /\ ctx'.ci = saved.ctx.ci /\ ctx'.head = None
    BY <1>1, <1>2 DEF Context
  <1>4. /\ saved' \in Record /\ saved'.next = saved.next /\ saved'.ctx = saved.ctx
        /\ saved'.state = "running"
    BY <1>1, <1>2 DEF Record, RunState
  <1>5. at' \in 1..12 /\ calls' \in 0..MaxCalls
    BY <1>1, <1>2
  <1>6. QED
    BY <1>1, <1>2, <1>3, <1>4, <1>5 DEF RunTypeOK

\* The run stays well typed, and call and record agree.
LEMMA RunInv ==
  ASSUME TypeOK, Placed, RunMoves
  PROVE  /\ RunTypeOK' /\ conf' = conf
         /\ at' # 0 => /\ at' = saved'.next
                       /\ ctx'.profile = saved'.ctx.profile
                       /\ ctx'.verdict = saved'.ctx.verdict
                       /\ ctx'.ci = saved'.ctx.ci
         /\ saved'.state = "complete" <=> saved'.next = 13
  <1>0. RunTypeOK
    BY TypeParts
  <1>1. CASE Start
    <2>1. saved.state = "complete" <=> saved.next = 13
      BY DEF Placed
    <2>2. QED
      BY <1>1, <2>1, StartFacts
  <1>2. CASE /\ at # 0 /\ at' = 0 /\ ctx' = NoContext /\ spent' = 0
             /\ UNCHANGED <<conf, saved, total, calls>>
    BY <1>0, <1>2, Records DEF RunTypeOK, Placed
  <1>3. CASE UNCHANGED <<conf, runVars>>
    BY <1>0, <1>3 DEF RunTypeOK, Placed, runVars
  <1>4. ASSUME at # 0, NEW outcome \in Outcome, NEW c \in Context, EndPhase(outcome, c)
        PROVE  /\ RunTypeOK' /\ conf' = conf
               /\ at' # 0 => /\ at' = saved'.next
                             /\ ctx'.profile = saved'.ctx.profile
                             /\ ctx'.verdict = saved'.ctx.verdict
                             /\ ctx'.ci = saved'.ctx.ci
               /\ saved'.state = "complete" <=> saved'.next = 13
    BY <1>0, <1>4, EndPhaseFacts DEF PhaseEnds
  <1>5. QED
    BY <1>1, <1>2, <1>3, <1>4 DEF RunMoves

\* What the calls so far have consumed, and what the one under way may still.
Spending ==
  conf.ceiling # None =>
    /\ at = 0 => total <= calls * conf.ceiling
    /\ at # 0 => spent < conf.ceiling /\ total + conf.ceiling <= calls * conf.ceiling + spent

\* Consumption stays below the ceilings.
LEMMA SpendingInv ==
  ASSUME TypeOK, Placed, Spending, RunMoves
  PROVE  Spending'
  <1>1. conf' = conf
    BY RunInv
  <1>2. SUFFICES ASSUME conf.ceiling # None PROVE Spending'
    BY <1>1 DEF Spending
  <1> DEFINE top == conf.ceiling
  <1>3. conf.ceiling \in Nat \ {0}
    BY <1>2, PipelineAssumption DEF TypeOK, Configuration
  <1>4. at \in Nat /\ spent \in Nat /\ total \in Nat /\ calls \in Nat
    BY TypeParts, PipelineAssumption DEF RunTypeOK
  <1>5. CASE Start
    <2>1. /\ at = 0 /\ at' # 0 /\ spent' = 0 /\ total' = total /\ calls' = calls + 1
      BY <1>5, StartFacts DEF Placed
    <2>2. (calls + 1) * conf.ceiling = calls * conf.ceiling + conf.ceiling
      BY <1>3, <1>4
    <2>3. calls * conf.ceiling \in Nat
      BY <1>3, <1>4
    <2>4. calls' * conf'.ceiling = calls * conf.ceiling + conf.ceiling
      BY <1>1, <2>1, <2>2
    <2>5. total <= calls * conf.ceiling
      BY <1>2, <2>1 DEF Spending
    <2>6. QED
      BY <1>1, <1>3, <1>4, <2>1, <2>3, <2>4, <2>5 DEF Spending
  <1>6. CASE /\ at # 0 /\ at' = 0 /\ ctx' = NoContext /\ spent' = 0
             /\ UNCHANGED <<conf, saved, total, calls>>
    <2>1. spent < conf.ceiling /\ total + conf.ceiling <= calls * conf.ceiling + spent
      BY <1>2, <1>6 DEF Spending
    <2>2. calls * conf.ceiling \in Nat
      BY <1>3, <1>4
    <2>3. total <= calls * conf.ceiling
      BY <1>3, <1>4, <2>1, <2>2
    <2>4. QED
      BY <1>6, <2>3 DEF Spending
  <1>7. CASE UNCHANGED <<conf, runVars>>
    BY <1>7 DEF Spending, runVars
  <1>8. ASSUME at # 0, NEW outcome \in Outcome, NEW c \in Context, EndPhase(outcome, c)
        PROVE  Spending'
    <2>1. PICK amount \in Consumption :
            LET result == IF Exhausted(spent + amount) THEN "blocked" ELSE outcome
            IN  /\ at' = IF StateAfter(result) = "running" THEN Following(result) ELSE 0
                /\ spent' = IF StateAfter(result) = "running" THEN spent + amount ELSE 0
                /\ total' = total + amount
                /\ calls' = calls
      BY <1>8 DEF EndPhase
    <2>2. amount \in 0..1
      BY DEF Consumption
    <2>3. spent < conf.ceiling /\ total + conf.ceiling <= calls * conf.ceiling + spent
      BY <1>2, <1>8 DEF Spending
    <2>4. calls * conf.ceiling \in Nat
      BY <1>3, <1>4
    <2>5. total + amount <= calls * conf.ceiling
      BY <1>3, <1>4, <2>2, <2>3, <2>4
    <2>6. total + amount + conf.ceiling <= calls * conf.ceiling + (spent + amount)
      BY <1>3, <1>4, <2>2, <2>3, <2>4
    <2>7. CASE Exhausted(spent + amount)
      <3>1. StateAfter("blocked") = "blocked"
        BY DEF StateAfter
      <3>2. at' = 0 /\ total' = total + amount /\ calls' = calls
        BY <2>1, <2>7, <3>1
      <3>3. QED
        BY <1>1, <2>5, <3>2 DEF Spending
    <2>8. CASE ~Exhausted(spent + amount)
      <3>1. spent + amount < conf.ceiling
        BY <1>2, <1>3, <1>4, <2>2, <2>8 DEF Exhausted
      <3>2. /\ at' = 0 \/ spent' = spent + amount
            /\ total' = total + amount /\ calls' = calls
        BY <2>1
      <3>3. QED
        BY <1>1, <2>5, <2>6, <3>1, <3>2 DEF Spending
    <2>9. QED
      BY <2>7, <2>8
  <1>9. QED
    BY <1>5, <1>6, <1>7, <1>8 DEF RunMoves

\* A function over 1..n is a sequence.
LEMMA Listing == ASSUME NEW S, NEW n \in Nat, NEW f \in [1..n -> S] PROVE f \in Seq(S)
  OBVIOUS

\* Verdict, provider records, delivery and histories stay well typed.
LEMMA ArtInv == ASSUME TypeOK, Next PROVE ArtTypeOK'
  <1>0. ArtTypeOK /\ files \in Workspace
    BY TypeParts DEF TaskTypeOK
  <1>1. CASE UNCHANGED artVars
    BY <1>0, <1>1 DEF artVars, ArtTypeOK
  <1>2. CASE Specification \/ Planning
    <2>1. UNCHANGED <<verdictFile, delivered, tree, validated, shown>>
      BY <1>2 DEF Specification, Planning
    <2>2. evidence' \subseteq evidence \cup {"specification", "planning"}
      BY <1>2 DEF Specification, Planning, Evidenced
    <2>3. QED
      BY <1>0, <2>1, <2>2 DEF ArtTypeOK, ProviderRecord
  <1>3. CASE Validation
    <2>1. UNCHANGED <<verdictFile, evidence, delivered, tree, shown>>
      BY <1>3 DEF Validation
    <2>2. validated' \in {files, validated}
      BY <1>3, ValidationEnds
    <2>3. QED
      BY <1>0, <2>1, <2>2 DEF ArtTypeOK
  <1>4. CASE Review
    <2>1. UNCHANGED <<delivered, tree, validated, shown>>
      BY <1>4 DEF Review
    <2>2. verdictFile' \in Verdict /\ evidence' \subseteq evidence \cup {"review"}
      BY <1>4, ReviewEnds DEF Evidenced
    <2>3. QED
      BY <1>0, <2>1, <2>2 DEF ArtTypeOK, ProviderRecord
  <1>5. CASE Deliver
    <2>1. Committed \in Workspace
      BY <1>0, PipelineAssumption DEF Committed, Workspace
    <2>2. tree' \in {Committed, None}
      BY <1>5 DEF Deliver
    <2>3. QED
      BY <1>0, <1>5, <2>1, <2>2 DEF Deliver, ArtTypeOK
  <1>6. CASE Ci
    <2>1. UNCHANGED <<verdictFile, evidence, delivered, tree, validated>>
      BY <1>6 DEF Ci
    <2>2. shown' = shown \/ \E n \in 0..2 : shown' \in [1..n -> Status]
      BY <1>6, CiEnds
    <2>3. shown' \in Seq(Status)
      <3>1. CASE shown' = shown
        BY <1>0, <3>1 DEF ArtTypeOK
      <3>2. ASSUME NEW n \in 0..2, shown' \in [1..n -> Status] PROVE shown' \in Seq(Status)
        <4>1. n \in Nat
          BY <3>2
        <4>2. QED
          BY <3>2, <4>1, Listing
      <3>3. QED
        BY <2>2, <3>1, <3>2
    <2>4. QED
      BY <1>0, <2>1, <2>3 DEF ArtTypeOK
  <1>7. CASE Start \/ Die \/ HandlerRaises \/ CallStep \/ PlainEnd \/ BeginTask \/ TaskSteps \/ EndTask
    BY <1>1, <1>7 DEF Start, Die, HandlerRaises, CallStep, PlainEnd, BeginTask, TaskSteps, EndTask
  <1>8. QED
    BY <1>2, <1>3, <1>4, <1>5, <1>6, <1>7, StepKinds

-----------------------------------------------------------------------------
\* What a step does to the workspace and the task.
TaskMoves ==
  \/ UNCHANGED taskVars
  \/ at # 0 /\ Leave
  \/ BeginTask \/ TaskSteps
  \/ /\ at = 6 /\ files' \in AfterTests(files)
     /\ UNCHANGED <<step, allowed, changes, snapshot, red, green, reverted, tested, strayed>>

\* Every step is one of these for the task.
LEMMA StepTask == ASSUME TypeOK, Next PROVE TaskMoves
  <1>1. CASE Start \/ CallStep \/ PlainEnd \/ Specification \/ Planning \/ Review \/ Deliver \/ Ci
    BY <1>1 DEF Start, CallStep, PlainEnd, Specification, Planning, Review, Deliver, Ci, TaskMoves
  <1>2. CASE Die \/ HandlerRaises \/ EndTask
    BY <1>2, InPhases DEF Die, HandlerRaises, EndTask, TaskMoves
  <1>3. CASE Validation
    <2>1. files \in Workspace
      BY TypeParts DEF TaskTypeOK
    <2>2. files \in AfterTests(files)
      BY <2>1 DEF AfterTests
    <2>3. files' \in AfterTests(files)
      BY <1>3, <2>2 DEF Validation
    <2>4. QED
      BY <1>3, <2>3, InPhases DEF Validation, TaskMoves
  <1>4. CASE BeginTask \/ TaskSteps
    BY <1>4 DEF TaskMoves
  <1>5. QED
    BY <1>1, <1>2, <1>3, <1>4, StepKinds

\* A task's paths are files.
LEMMA PathsType == AllowedPaths(ctx.profile) \subseteq File
  BY PipelineAssumption DEF AllowedPaths, DerivedPaths

\* What is proposed is a list of changes.
LEMMA ProposedType == Proposed \subseteq Seq(Change)
  BY PipelineAssumption DEF Proposed, NoChanges

\* The task stays well typed.
LEMMA TaskInv == ASSUME TypeOK, TaskMoves PROVE TaskTypeOK'
  <1>0. TaskTypeOK
    BY TypeParts
  <1>1. files \in [File -> Text \cup {None}] /\ NoSnapshot \in Workspace /\ Snapshot \in Workspace
    BY <1>0 DEF TaskTypeOK, Workspace, NoSnapshot, Snapshot
  <1>2. CASE UNCHANGED taskVars
    BY <1>0, <1>2 DEF taskVars, TaskTypeOK
  <1>3. CASE Leave
    BY <1>0, <1>1, <1>3 DEF Leave, TaskTypeOK, Step
  <1>4. CASE BeginTask
    <2>1. PICK pending \in Proposed : TakeSnapshot(AllowedPaths(ctx.profile), pending)
      BY <1>4 DEF BeginTask
    <2>2. pending \in Seq(Change) /\ AllowedPaths(ctx.profile) \subseteq File
      BY ProposedType, PathsType
    <2>3. QED
      BY <1>0, <1>1, <2>1, <2>2 DEF TakeSnapshot, TaskTypeOK, Step
  <1>5. ASSUME NEW ws \in Workspace PROVE AfterTests(ws) \subseteq Workspace
    BY DEF AfterTests
  <1>6. CASE TaskSteps
    <2>1. CASE StubEvidence
      BY <1>0, <2>1 DEF StubEvidence, TaskTypeOK, Step, Evidence
    <2>2. ASSUME NEW result \in Evidence \ {None}, RunRed(result) PROVE TaskTypeOK'
      BY <1>0, <1>5, <2>2 DEF RunRed, TaskTypeOK, Step
    <2>3. ASSUME NEW result \in Evidence \ {None}, RunGreen(result) PROVE TaskTypeOK'
      BY <1>0, <1>5, <2>3 DEF RunGreen, TaskTypeOK, Step
    <2>4. CASE Raise
      BY <1>0, <2>4 DEF Raise, TaskTypeOK, Step
    <2>5. CASE AcceptChanges \/ AcceptEvidence \/ Report
      BY <1>0, <2>5 DEF AcceptChanges, AcceptEvidence, Report, TaskTypeOK, Step
    <2>6. CASE WriteChange
      <3>1. changes \in Seq(Change) /\ changes # <<>>
        BY <1>0, <2>6 DEF WriteChange, TaskTypeOK
      <3>2. Head(changes).text \in Text /\ Tail(changes) \in Seq(Change)
        <4>1. Head(changes) \in Change /\ Tail(changes) \in Seq(Change)
          BY <3>1
        <4>2. QED
          BY <4>1 DEF Change
      <3>3. files' \in Workspace
        BY <1>1, <2>6, <3>2 DEF WriteChange, Workspace
      <3>4. QED
        BY <1>0, <2>6, <3>2, <3>3 DEF WriteChange, TaskTypeOK
    <2>7. CASE Revert
      <3>1. files' \in Workspace
        BY <1>0, <1>1, <2>7 DEF Revert, Workspace, TaskTypeOK
      <3>2. Unauthorised \subseteq File
        BY DEF Unauthorised
      <3>3. QED
        BY <1>0, <2>7, <3>1, <3>2 DEF Revert, TaskTypeOK, Step
    <2>8. QED
      BY <1>6, <2>1, <2>2, <2>3, <2>4, <2>5, <2>6, <2>7
         DEF TaskSteps, RunTests, RejectChanges, WriteFails, RejectEvidence
  <1>7. CASE /\ files' \in AfterTests(files)
             /\ UNCHANGED <<step, allowed, changes, snapshot, red, green, reverted, tested, strayed>>
    BY <1>0, <1>5, <1>7 DEF TaskTypeOK
  <1>8. QED
    BY <1>2, <1>3, <1>4, <1>6, <1>7 DEF TaskMoves

\* An attempt is under way in the implementation phase only.
LEMMA TaskPlaced == ASSUME TypeOK, Placed, Next PROVE step' # "idle" => at' = 5
  <1>1. CASE BeginTask \/ TaskSteps
    BY <1>1, InPhases DEF BeginTask, TaskSteps, runVars
  <1>2. CASE Die \/ HandlerRaises \/ EndTask
    BY <1>2 DEF Die, HandlerRaises, EndTask, Leave, taskVars
  <1>3. CASE CallStep
    BY <1>3 DEF CallStep, runVars, taskVars, Placed
  <1>4. CASE Start
    BY <1>4 DEF Start, taskVars, Placed
  <1>5. CASE Specification \/ Planning \/ Validation \/ Review \/ Deliver \/ Ci \/ PlainEnd
    <2>1. at # 5
      BY <1>5, InPhases DEF PlainEnd
    <2>2. step' = step
      BY <1>5 DEF Specification, Planning, Validation, Review, Deliver, Ci, PlainEnd, taskVars
    <2>3. QED
      BY <2>1, <2>2 DEF Placed
  <1>6. QED
    BY <1>1, <1>2, <1>3, <1>4, <1>5, StepKinds

\* The parts of the invariant that the others rest on.
LEMMA BaseInv ==
  ASSUME TypeOK, Placed, AskedSoFar, Spending, Next
  PROVE  TypeOK' /\ Placed' /\ AskedSoFar' /\ Spending'
  <1>1. RunMoves /\ TaskMoves /\ CallMoves
    BY StepRun, StepTask, StepCall
  <1>2. CallTypeOK' /\ AskedSoFar' /\ wiring' = wiring
    BY <1>1, CallInv, TypeParts
  <1>3. TaskTypeOK' /\ ArtTypeOK'
    BY <1>1, TaskInv, ArtInv
  <1>4. RunTypeOK' /\ conf' = conf
    BY <1>1, RunInv
  <1>5. TypeOK'
    BY <1>2, <1>3, <1>4, Indexes
       DEF TypeOK, RunTypeOK, ArtTypeOK
  <1>6. Placed'
    BY <1>1, RunInv, TaskPlaced DEF Placed
  <1>7. QED
    BY <1>1, <1>2, <1>5, <1>6, SpendingInv

-----------------------------------------------------------------------------
\* A phase that ends without touching what the audit looks at.
LEMMA AuditKept ==
  ASSUME TypeOK, Placed, Audited, wiring' = wiring, UNCHANGED <<verdictFile, evidence>>,
         at # 0, NEW outcome \in Outcome, NEW c \in Context, EndPhase(outcome, c),
         c.verdict = ctx.verdict, at \in {3, 4, 8} => outcome = "failed"
  PROVE  Audited'
  <1>1. PhaseEnds(c, outcome)
    BY EndPhaseFacts, TypeParts
  <1>2. saved'.next = saved.next \/ (saved'.next = saved.next + 1 /\ at \notin {3, 4, 8})
    BY <1>1 DEF PhaseEnds, Placed
  <1>3. saved.next \in 1..13 /\ at = saved.next
    BY Records DEF TypeOK, Placed
  <1>4. saved'.ctx.verdict = saved.ctx.verdict
    BY <1>1 DEF PhaseEnds, Placed
  <1>5. saved'.next > 8 => verdictFile' = "approve" /\ saved'.ctx.verdict = "approve"
    BY <1>2, <1>3, <1>4, Indexes DEF Audited
  <1>6. ASSUME conf'.writer, NEW phase \in ProviderRecord, saved'.next > IndexOf(phase),
               Modelled(phase)'
        PROVE  phase \in evidence'
    <2>1. Modelled(phase) /\ conf.writer
      BY <1>6, EndPhaseFacts, TypeParts DEF Modelled
    <2>2. IndexOf(phase) \in {3, 4, 8}
      BY <1>6, Indexes DEF ProviderRecord
    <2>3. saved.next > IndexOf(phase)
      BY <1>2, <1>3, <1>6, <2>2
    <2>4. QED
      BY <1>6, <2>1, <2>3 DEF Audited
  <1>7. QED
    BY <1>5, <1>6, Indexes DEF Audited

\* Every step keeps verdict and provider records in line with the record.
LEMMA AuditedInv ==
  ASSUME TypeOK, Placed, Audited, Next
  PROVE  Audited'
  <1>0. /\ wiring' = wiring /\ saved.next \in 1..13 /\ ctx \in Context
        /\ conf' = conf
    BY StepCall, StepRun, KeepsWiring, RunInv, Records DEF TypeOK
  <1>1. CASE saved'.next = saved.next /\ saved'.ctx = saved.ctx /\ UNCHANGED <<verdictFile, evidence>>
    <2>1. \A phase : Modelled(phase)' <=> Modelled(phase)
      BY <1>0 DEF Modelled
    <2>2. QED
      BY <1>0, <1>1, <2>1 DEF Audited
  <1>2. CASE Start
    BY <1>1, <1>2, StartFacts DEF Placed, Start, artVars
  <1>3. CASE Die \/ CallStep \/ BeginTask \/ TaskSteps \/ Deliver
    BY <1>1, <1>3 DEF Die, CallStep, BeginTask, TaskSteps, Deliver, artVars, runVars
  <1>4. CASE HandlerRaises \/ EndTask
    <2>1. at # 0 /\ UNCHANGED <<verdictFile, evidence>>
      BY <1>4, InPhases DEF HandlerRaises, EndTask, artVars
    <2>2. \E outcome \in Outcome :
            EndPhase(outcome, ctx) /\ (at \in {3, 4, 8} => outcome = "failed")
      BY <1>4, InPhases DEF HandlerRaises, EndTask, Outcome
    <2>3. QED
      BY <1>0, <2>1, <2>2, AuditKept
  <1>5. CASE PlainEnd
    BY <1>0, <1>5, AuditKept DEF PlainEnd, artVars
  <1>6. CASE Validation
    <2>1. PICK exit \in {"passed", "failed"}, c \in Context :
            /\ EndPhase(IF exit = "passed" THEN "ok" ELSE "failed", c)
            /\ c.verdict = ctx.verdict
      BY <1>6, ValidationEnds
    <2>2. UNCHANGED <<verdictFile, evidence>> /\ at = 6
      BY <1>6, InPhases DEF Validation
    <2>3. QED
      BY <1>0, <2>1, <2>2, AuditKept DEF Outcome
  <1>7. CASE Ci
    <2>1. UNCHANGED <<verdictFile, evidence>> /\ at = 10
      BY <1>7, InPhases DEF Ci
    <2>2. \E outcome \in Outcome, c \in Context : EndPhase(outcome, c) /\ c.verdict = ctx.verdict
      BY <1>0, <1>7, CiEnds DEF Outcome
    <2>3. QED
      BY <1>0, <2>1, <2>2, AuditKept
  <1>8. CASE Specification \/ Planning
    <2>1. /\ at \in {3, 4} /\ verdictFile' = verdictFile /\ evidence \subseteq evidence'
      BY <1>8, InPhases DEF Specification, Planning, Evidenced
    <2>2. PICK outcome \in {"ok", "failed"} :
            /\ EndPhase(outcome, ctx)
            /\ outcome = "ok" /\ conf.writer =>
                 \A phase \in ProviderRecord :
                   at = IndexOf(phase) /\ Modelled(phase) => phase \in evidence'
      BY <1>8, InPhases, Indexes
         DEF Specification, Planning, Evidenced, HasEvidence, ProviderRecord
    <2>3. PhaseEnds(ctx, outcome)
      BY <1>0, <2>1, <2>2, EndPhaseFacts, TypeParts DEF Outcome
    <2>4. at = saved.next /\ saved'.next <= 5
          /\ (saved'.next = at \/ (saved'.next = at + 1 /\ outcome = "ok"))
      BY <1>0, <2>1, <2>2, <2>3 DEF PhaseEnds, Placed
    <2>5. ASSUME conf'.writer, NEW phase \in ProviderRecord, saved'.next > IndexOf(phase),
                 Modelled(phase)'
          PROVE  phase \in evidence'
      <3>1. Modelled(phase) /\ conf.writer /\ IndexOf(phase) \in {3, 4, 8}
        BY <1>0, <2>5, Indexes DEF Modelled, ProviderRecord
      <3>2. CASE saved.next > IndexOf(phase)
        BY <2>1, <2>5, <3>1, <3>2 DEF Audited
      <3>3. CASE ~(saved.next > IndexOf(phase))
        BY <1>0, <2>2, <2>4, <2>5, <3>1, <3>3
      <3>4. QED
        BY <3>2, <3>3
    <2>6. ~(saved'.next > 8)
      BY <2>1, <2>4
    <2>7. QED
      BY <2>5, <2>6, Indexes DEF Audited
  <1>9. CASE Review
    <2>1. at = 8 /\ at = saved.next
      BY <1>9, InPhases DEF Placed
    <2>2. PICK verdict \in Verdict, recorded \in BOOLEAN, c \in Context :
            /\ verdictFile' = verdict
            /\ evidence' = IF recorded THEN Evidenced("review") ELSE evidence
            /\ EndPhase(IF recorded THEN ReviewOutcome(verdict) ELSE "failed", c)
            /\ recorded => c.verdict = verdict
      BY <1>9, ReviewEnds
    <2> DEFINE outcome == IF recorded THEN ReviewOutcome(verdict) ELSE "failed"
    <2>3. outcome \in Outcome /\ (outcome \in {"ok", "skipped"} => recorded /\ verdict = "approve")
      BY DEF ReviewOutcome, Outcome
    <2>4. EndPhase(outcome, c)
      BY <2>2
    <2> HIDE DEF outcome
    <2>5. PhaseEnds(c, outcome)
      BY <2>1, <2>2, <2>3, <2>4, EndPhaseFacts, TypeParts
    <2>6. saved'.ctx = c /\ (saved'.next = 8 \/ (saved'.next = 9 /\ recorded /\ verdict = "approve"))
      BY <2>1, <2>3, <2>5 DEF PhaseEnds
    <2>7. saved'.next > 8 => verdictFile' = "approve" /\ saved'.ctx.verdict = "approve"
      BY <2>2, <2>6
    <2>8. ASSUME conf'.writer, NEW phase \in ProviderRecord, saved'.next > IndexOf(phase),
                 Modelled(phase)'
          PROVE  phase \in evidence'
      <3>1. Modelled(phase) /\ conf.writer
        BY <1>0, <2>8 DEF Modelled
      <3>2. evidence \subseteq evidence'
        BY <2>2 DEF Evidenced
      <3>3. CASE phase = "review"
        BY <2>2, <2>6, <2>8, <3>1, <3>3, Indexes DEF Evidenced, HasEvidence
      <3>4. CASE phase # "review"
        <4>1. saved.next > IndexOf(phase)
          BY <2>1, <2>8, <3>4, Indexes DEF ProviderRecord
        <4>2. QED
          BY <2>8, <3>1, <3>2, <4>1 DEF Audited
      <3>5. QED
        BY <3>3, <3>4
    <2>9. QED
      BY <2>7, <2>8, Indexes DEF Audited
  <1>10. QED
    BY <1>2, <1>3, <1>4, <1>5, <1>6, <1>7, <1>8, <1>9, StepKinds

-----------------------------------------------------------------------------
\* The last status of the required check that was shown is a success of this head.
LastSucceeds(statuses, head) ==
  \E i \in Named(statuses) :
    /\ statuses[i].status = "success" /\ statuses[i].head = head
    /\ \A j \in Named(statuses) : j <= i

\* What a run behind its ci phase rests on.
CiPassed ==
  /\ at # 0 /\ ctx.head # None => delivered = "head"
  /\ saved.next > 10 /\ ~SkipRemote =>
       /\ delivered # None /\ saved.ctx.ci = "ready"
       /\ LastSucceeds(shown, delivered)

\* Readiness says ready only if the last status of the check is a success of the head.
LEMMA ReadyMeans ==
  ASSUME NEW n \in 0..2, NEW statuses \in [1..n -> Status], Readiness(statuses) = "ready"
  PROVE  LastSucceeds(statuses, ctx.head)
  <1>1. Named(statuses) # {}
    BY Zenon DEF Readiness
  <1>2. /\ Deciding(statuses).head = ctx.head
        /\ Deciding(statuses).status = "success"
    BY <1>1, Zenon DEF Readiness
  <1>3. Named(statuses) \subseteq 1..n
    BY DEF Named
  <1>4. \E i \in Named(statuses) : \A j \in Named(statuses) : j <= i
    <2>1. Named(statuses) \subseteq 1..2
      BY <1>3
    <2>2. QED
      BY <1>1, <2>1
  <1> DEFINE last == CHOOSE i \in Named(statuses) : \A j \in Named(statuses) : j <= i
  <1>5. last \in Named(statuses) /\ \A j \in Named(statuses) : j <= last
    BY <1>4
  <1>6. Deciding(statuses) = statuses[last]
    BY DEF Deciding
  <1> HIDE DEF last
  <1>7. QED
    BY <1>2, <1>5, <1>6 DEF LastSucceeds

\* A phase that ends without touching what the readiness rests on.
LEMMA CiKept ==
  ASSUME TypeOK, Placed, CiPassed, UNCHANGED <<delivered, shown>>,
         at # 0, NEW outcome \in Outcome, NEW c \in Context, EndPhase(outcome, c),
         c.head \in {ctx.head, delivered}, c.ci = ctx.ci,
         at = 10 => outcome = "failed" \/ SkipRemote
  PROVE  CiPassed'
  <1>1. PhaseEnds(c, outcome) /\ conf' = conf
    BY EndPhaseFacts, TypeParts
  <1>2. saved'.next = saved.next \/ (saved'.next = saved.next + 1 /\ (saved.next # 10 \/ SkipRemote))
    BY <1>1 DEF PhaseEnds, Placed
  <1>3. saved.next \in 1..13 /\ delivered \in {None, "head"}
    BY Records DEF TypeOK, Placed
  <1>4. saved'.ctx.ci = saved.ctx.ci
    BY <1>1 DEF PhaseEnds, Placed
  <1>5. at' # 0 /\ ctx'.head # None => delivered' = "head"
    BY <1>1, <1>3 DEF PhaseEnds, CiPassed
  <1>6. SkipRemote' <=> SkipRemote
    BY <1>1 DEF SkipRemote
  <1>7. LastSucceeds(shown, delivered)' <=> LastSucceeds(shown, delivered)
    BY DEF LastSucceeds, Named
  <1>8. saved'.next > 10 /\ ~SkipRemote => saved.next > 10
    BY <1>2, <1>3
  <1>9. QED
    BY <1>4, <1>5, <1>6, <1>7, <1>8 DEF CiPassed

\* Every step keeps what ci has seen in line with the record.
LEMMA CiPassedInv ==
  ASSUME TypeOK, Placed, CiPassed, Next
  PROVE  CiPassed'
  <1>0. /\ conf' = conf /\ ctx \in Context /\ saved.next \in 1..13
        /\ delivered \in {None, "head"}
    BY StepRun, RunInv, Records DEF TypeOK
  <1>1. SkipRemote' <=> SkipRemote
    BY <1>0 DEF SkipRemote
  <1>2. CASE /\ saved'.next = saved.next /\ saved'.ctx = saved.ctx /\ UNCHANGED <<delivered, shown>>
             /\ (at' # 0 => ctx'.head = None \/ (at # 0 /\ ctx'.head = ctx.head))
    <2>1. LastSucceeds(shown, delivered)' <=> LastSucceeds(shown, delivered)
      BY <1>2 DEF LastSucceeds, Named
    <2>2. QED
      BY <1>1, <1>2, <2>1 DEF CiPassed
  <1>3. CASE Start
    BY <1>2, <1>3, StartFacts DEF Placed, Start, artVars
  <1>4. CASE Die \/ CallStep \/ BeginTask \/ TaskSteps
    BY <1>2, <1>4 DEF Die, CallStep, BeginTask, TaskSteps, artVars, runVars
  <1>5. CASE Deliver
    <2>1. /\ at = 9 /\ saved.next = 9 /\ UNCHANGED runVars /\ delivered' = "head"
      BY <1>5, InPhases DEF Deliver, Placed
    <2>2. QED
      BY <2>1 DEF CiPassed, runVars
  <1>6. CASE HandlerRaises \/ Specification \/ Planning \/ EndTask
    <2>1. at # 0 /\ UNCHANGED <<delivered, shown>>
      BY <1>6, InPhases DEF HandlerRaises, Specification, Planning, EndTask, artVars
    <2>2. \E outcome \in Outcome : EndPhase(outcome, ctx) /\ (at = 10 => outcome = "failed")
      BY <1>6, InPhases DEF HandlerRaises, Specification, Planning, EndTask, Outcome
    <2>3. QED
      BY <1>0, <2>1, <2>2, CiKept
  <1>7. CASE PlainEnd
    BY <1>7, CiKept DEF PlainEnd, artVars
  <1>8. CASE Validation
    <2>1. \E outcome \in Outcome, c \in Context :
            EndPhase(outcome, c) /\ c.head = ctx.head /\ c.ci = ctx.ci
      BY <1>8, ValidationEnds DEF Outcome
    <2>2. at = 6 /\ UNCHANGED <<delivered, shown>>
      BY <1>8, InPhases DEF Validation
    <2>3. QED
      BY <2>1, <2>2, CiKept
  <1>9. CASE Review
    <2>1. \E outcome \in Outcome, c \in Context :
            EndPhase(outcome, c) /\ c.head = ctx.head /\ c.ci = ctx.ci
      BY <1>9, ReviewEnds DEF Outcome, ReviewOutcome
    <2>2. at = 8 /\ UNCHANGED <<delivered, shown>>
      BY <1>9, InPhases DEF Review
    <2>3. QED
      BY <2>1, <2>2, CiKept
  <1>10. CASE Ci
    <2>1. at = 10 /\ saved.next = 10 /\ delivered' = delivered
      BY <1>10, InPhases DEF Ci, Placed
    <2>2. CASE SkipRemote /\ EndPhase("skipped", ctx) /\ shown' = shown
      BY <1>0, <2>1, <2>2, CiKept DEF Outcome
    <2>3. ASSUME NEW c \in Context, NEW outcome \in {"ok", "failed"}, EndPhase(outcome, c),
                 c.head = ctx.head,
                 outcome = "ok" =>
                   /\ ctx.head # None /\ c.ci = "ready"
                   /\ Readiness(shown') = "ready"
                   /\ \E n \in 0..2 : shown' \in [1..n -> Status]
          PROVE  CiPassed'
      <3>1. PhaseEnds(c, outcome)
        BY <2>1, <2>3, EndPhaseFacts, TypeParts DEF Outcome
      <3>2. at' # 0 /\ ctx'.head # None => delivered' = "head"
        BY <2>1, <2>3, <3>1 DEF PhaseEnds, CiPassed
      <3>3. CASE outcome = "failed"
        <4>1. saved'.next = 10
          BY <2>1, <3>1, <3>3 DEF PhaseEnds
        <4>2. QED
          BY <3>2, <4>1 DEF CiPassed
      <3>4. CASE outcome = "ok"
        <4>1. ctx.head = delivered /\ delivered # None
          BY <1>0, <2>1, <2>3, <3>4 DEF CiPassed, Context
        <4>2. LastSucceeds(shown', ctx.head)
          BY <2>3, <3>4, ReadyMeans
        <4>3. LastSucceeds(shown, delivered)'
          BY <2>1, <4>1, <4>2 DEF LastSucceeds, Named
        <4>4. saved'.ctx.ci = "ready"
          BY <2>3, <3>1, <3>4 DEF PhaseEnds
        <4>5. QED
          BY <2>1, <3>2, <4>1, <4>3, <4>4 DEF CiPassed
      <3>5. QED
        BY <2>3, <3>3, <3>4
    <2>4. QED
      BY <1>10, <2>2, <2>3, CiEnds
  <1>11. QED
    BY <1>3, <1>4, <1>5, <1>6, <1>7, <1>8, <1>9, <1>10, StepKinds

-----------------------------------------------------------------------------
\* These files are in the workspace, those apart that the tests write.
Agrees(ws) == ws # None /\ \A f \in File \ Touched : ws[f] = files[f]

\* What has been tested at each point of a run.
TestedSoFar ==
  /\ delivered # None => saved.next >= 9
  /\ saved.next >= 7 => Agrees(validated)
  /\ conf.runner = "llm" =>
       /\ saved.next >= 6 \/ step = "ok" => Agrees(tested)
       /\ step \in {"judge", "revert"} /\ green = "passed" => Agrees(tested)
       /\ step = "revert" => green = "passed"
       /\ step = "report" /\ reverted = {} => Agrees(tested)

\* Nothing of it changes.
LEMMA TestedKept ==
  ASSUME TypeOK, Placed, TestedSoFar, conf' = conf,
         UNCHANGED <<files, validated, tested>>,
         step' = "idle" \/ UNCHANGED <<step, green, reverted>>,
         delivered' = delivered \/ saved'.next >= 9,
         saved'.next \in 1..13, saved'.next >= saved.next,
         saved'.next >= 6 => saved.next >= 6 \/ step = "ok",
         saved'.next >= 7 => saved.next >= 7
  PROVE  TestedSoFar'
  <1>2. Agrees(validated)' <=> Agrees(validated)
    BY DEF Agrees
  <1>3. Agrees(tested)' <=> Agrees(tested)
    BY DEF Agrees
  <1>4. saved.next \in 1..13 /\ saved'.next >= saved.next
    BY Records DEF TypeOK
  <1>5. (delivered # None => saved.next >= 9) /\ (saved.next >= 7 => Agrees(validated))
    BY DEF TestedSoFar
  <1>6. CASE conf.runner # "llm"
    BY <1>2, <1>4, <1>5, <1>6 DEF TestedSoFar
  <1>7. CASE conf.runner = "llm"
    BY <1>2, <1>3, <1>4, <1>5, <1>7 DEF TestedSoFar
  <1>8. QED
    BY <1>6, <1>7

\* The steps of the task itself.
LEMMA TestedTask ==
  ASSUME TypeOK, Placed, TestedSoFar, TaskSteps
  PROVE  TestedSoFar'
  <1>1. /\ at = 5 /\ saved.next = 5 /\ UNCHANGED <<saved, conf, delivered, validated>>
    BY InPhases DEF TaskSteps, Placed, runVars, artVars
  <1>2. delivered = None
    BY <1>1 DEF TestedSoFar
  <1>3. SUFFICES ASSUME conf.runner = "llm"
                 PROVE  /\ step' = "ok" => Agrees(tested)'
                        /\ step' \in {"judge", "revert"} /\ green' = "passed" => Agrees(tested)'
                        /\ step' = "revert" => green' = "passed"
                        /\ step' = "report" /\ reverted' = {} => Agrees(tested)'
    BY <1>1, <1>2 DEF TestedSoFar
  <1>5. ASSUME NEW result \in Evidence \ {None}, RunRed(result)
        PROVE  step' = "apply"
    BY <1>5 DEF RunRed
  <1>6. ASSUME NEW result \in Evidence \ {None}, RunGreen(result)
        PROVE  step' = "judge" /\ (green' = "passed" => Agrees(tested)')
    <2>1. /\ green' = result /\ step' = "judge" /\ files' \in AfterTests(files)
          /\ result = "passed" => tested' = files
      BY <1>6 DEF RunGreen
    <2>2. files # None /\ \A f \in File \ Touched : files'[f] = files[f]
      BY <2>1, PipelineAssumption DEF AfterTests, TypeOK, TaskTypeOK
    <2>3. QED
      BY <2>1, <2>2 DEF Agrees
  <1>7. CASE AcceptEvidence
    BY <1>3, <1>7 DEF AcceptEvidence, Complete, TestedSoFar, Agrees
  <1>8. CASE Revert
    <2>1. step = "revert" /\ step' = "report" /\ tested' = tested /\ reverted' = Unauthorised
      BY <1>8 DEF Revert
    <2>2. Agrees(tested)
      BY <1>3, <2>1 DEF TestedSoFar
    <2>3. ASSUME reverted' = {} PROVE \A f \in File : files'[f] = files[f]
      BY <1>8, <2>1, <2>3 DEF Revert
    <2>4. QED
      BY <2>1, <2>2, <2>3 DEF Agrees
  <1>9. CASE Report
    <2>1. /\ step = "report" /\ step' = IF reverted = {} THEN "ok" ELSE "violations"
          /\ UNCHANGED <<files, tested, reverted>>
      BY <1>9 DEF Report
    <2>2. reverted = {} => Agrees(tested)
      BY <1>3, <2>1 DEF TestedSoFar
    <2>3. Agrees(tested)' <=> Agrees(tested)
      BY <2>1 DEF Agrees
    <2>4. QED
      BY <2>1, <2>2, <2>3
  <1>10. CASE WriteChange
    BY <1>10 DEF WriteChange
  <1>11. CASE RejectChanges \/ WriteFails \/ RejectEvidence \/ AcceptChanges
    BY <1>11 DEF RejectChanges, WriteFails, RejectEvidence, AcceptChanges, Raise
  <1>12. QED
    BY <1>3, <1>5, <1>6, <1>7, <1>8, <1>9, <1>10, <1>11 DEF TaskSteps, RunTests

\* Every step keeps the files those that were tested.
LEMMA TestedInv ==
  ASSUME TypeOK, Placed, TestedSoFar, Next
  PROVE  TestedSoFar'
  <1>0. /\ conf' = conf /\ ctx \in Context /\ saved.next \in 1..13 /\ saved' \in Record
        /\ saved'.next \in 1..13
    BY StepRun, RunInv, Records DEF TypeOK, RunTypeOK
  <1>1. CASE Start
    <2>1. saved'.next = saved.next
      BY <1>1, StartFacts DEF Placed
    <2>2. QED
      BY <1>0, <1>1, <2>1, TestedKept DEF Start, artVars, taskVars
  <1>2. CASE Die
    BY <1>0, <1>2, TestedKept DEF Die, artVars, taskVars, Leave
  <1>3. CASE CallStep
    BY <1>0, <1>3, TestedKept DEF CallStep, artVars, taskVars, runVars
  <1>4. CASE BeginTask
    <2>1. at = 5 /\ saved.next = 5 /\ UNCHANGED <<saved, conf, delivered, validated>>
      BY <1>4, InPhases DEF BeginTask, Placed, runVars, artVars
    <2>2. step' = "red"
      BY <1>4 DEF BeginTask, TakeSnapshot
    <2>3. QED
      BY <2>1, <2>2 DEF TestedSoFar
  <1>5. CASE TaskSteps
    BY <1>5, TestedTask
  <1>6. CASE Deliver
    <2>1. at = 9 /\ saved.next = 9 /\ UNCHANGED <<saved, validated, files, tested, step, green, reverted>>
      BY <1>6, InPhases DEF Deliver, Placed, runVars, taskVars
    <2>2. QED
      BY <1>0, <2>1, TestedKept
  <1>7. CASE HandlerRaises
    <2>1. at # 0 /\ at = saved.next /\ EndPhase("failed", ctx)
      BY <1>7, InPhases DEF HandlerRaises, Placed
    <2>2. PhaseEnds(ctx, "failed")
      BY <1>0, <2>1, EndPhaseFacts, TypeParts DEF Outcome
    <2>3. saved'.next = saved.next
      BY <2>1, <2>2 DEF PhaseEnds
    <2>4. /\ UNCHANGED <<files, validated, tested, delivered>>
          /\ step' = "idle" \/ UNCHANGED <<step, green, reverted>>
      BY <1>7 DEF HandlerRaises, artVars, taskVars, Leave
    <2>5. QED
      BY <1>0, <2>3, <2>4, TestedKept
  <1>8. ASSUME at \notin {0, 5, 6}, NEW outcome \in Outcome, NEW c \in Context,
               EndPhase(outcome, c), UNCHANGED <<validated, delivered, taskVars>>
        PROVE  TestedSoFar'
    <2>1. PhaseEnds(c, outcome)
      BY <1>0, <1>8, EndPhaseFacts, TypeParts
    <2>2. saved'.next = saved.next \/ (saved'.next = saved.next + 1 /\ saved.next \notin {5, 6})
      BY <1>8, <2>1 DEF PhaseEnds, Placed
    <2>3. QED
      BY <1>0, <1>8, <2>2, TestedKept DEF taskVars
  <1>9. CASE Specification \/ Planning
    <2>1. at \in {3, 4} /\ UNCHANGED <<validated, delivered, taskVars>>
      BY <1>9, InPhases DEF Specification, Planning
    <2>2. \E outcome \in Outcome : EndPhase(outcome, ctx)
      BY <1>9 DEF Specification, Planning, Outcome
    <2>3. QED
      BY <1>0, <1>8, <2>1, <2>2
  <1>10. CASE PlainEnd
    BY <1>8, <1>10 DEF PlainEnd, artVars
  <1>11. CASE Review
    BY <1>8, <1>11, InPhases, ReviewEnds DEF Review, Outcome, ReviewOutcome
  <1>12. CASE Ci
    BY <1>0, <1>8, <1>12, InPhases, CiEnds DEF Ci, Outcome
  <1>13. CASE EndTask
    <2>1. /\ at = 5 /\ saved.next = 5 /\ step' = "idle"
          /\ UNCHANGED <<files, validated, tested, delivered>>
      BY <1>13, InPhases DEF EndTask, Placed, Leave, artVars
    <2>2. PICK outcome \in {"ok", "failed"} :
            EndPhase(outcome, ctx) /\ (outcome = "ok" => step = "ok")
      BY <1>13 DEF EndTask
    <2>3. PhaseEnds(ctx, outcome)
      BY <1>0, <2>1, <2>2, EndPhaseFacts, TypeParts DEF Outcome
    <2>4. saved'.next = 5 \/ (saved'.next = 6 /\ step = "ok")
      BY <2>1, <2>2, <2>3 DEF PhaseEnds
    <2>5. QED
      BY <1>0, <2>1, <2>4, TestedKept
  <1>14. CASE Validation
    <2>1. /\ at = 6 /\ saved.next = 6 /\ step = "idle"
          /\ UNCHANGED <<step, tested, delivered>>
      BY <1>14, InPhases DEF Validation, Placed
    <2>2. PICK exit \in {"passed", "failed"}, c \in Context :
            /\ validated' = IF exit = "passed" THEN files ELSE validated
            /\ EndPhase(IF exit = "passed" THEN "ok" ELSE "failed", c)
      BY <1>14, ValidationEnds
    <2> DEFINE outcome == IF exit = "passed" THEN "ok" ELSE "failed"
    <2>3. outcome \in Outcome /\ EndPhase(outcome, c) /\ (outcome \in {"ok", "skipped"} => exit = "passed")
      BY <2>2 DEF Outcome
    <2> HIDE DEF outcome
    <2>4. PhaseEnds(c, outcome)
      BY <1>0, <2>1, <2>3, EndPhaseFacts, TypeParts
    <2>5. saved'.next = 6 \/ (saved'.next = 7 /\ exit = "passed")
      BY <2>1, <2>3, <2>4 DEF PhaseEnds
    <2>6. files' \in AfterTests(files) /\ files \in Workspace
      <3>1. files \in Workspace
        BY TypeParts DEF TaskTypeOK
      <3>2. files \in AfterTests(files)
        BY <3>1 DEF AfterTests
      <3>3. QED
        BY <1>14, <3>1, <3>2 DEF Validation
    <2>7. files # None /\ \A f \in File \ Touched : files'[f] = files[f]
      BY <2>6, PipelineAssumption DEF AfterTests
    <2>8. saved'.next = 7 => Agrees(validated)'
      BY <2>2, <2>5, <2>7 DEF Agrees
    <2>9. conf.runner = "llm" => Agrees(tested)'
      BY <2>1, <2>7 DEF TestedSoFar, Agrees
    <2>10. delivered' = None
      BY <2>1 DEF TestedSoFar
    <2>11. QED
      BY <1>0, <2>1, <2>5, <2>8, <2>9, <2>10 DEF TestedSoFar
  <1>15. QED
    BY <1>1, <1>2, <1>3, <1>4, <1>5, <1>6, <1>7, <1>9, <1>10, <1>11, <1>12, <1>13, <1>14, StepKinds

\* A commit is behind the phases that change the workspace and holds authorized files
\* as the workspace has them, those apart that the tests write.
CommitFresh ==
  tree # None => saved.next >= 9 /\ \A f \in Authorized \ Touched : tree[f] = files[f]

\* Behind the delivery the workspace stays, so the commit stays in line with it.
LEMMA CommitInv ==
  ASSUME TypeOK, Placed, CommitFresh, Next
  PROVE  CommitFresh'
  <1>1. CASE Deliver
    <2>1. tree' \in {Committed, None} /\ delivered' = "head" /\ files' = files
      BY <1>1 DEF Deliver, taskVars
    <2>2. \A f \in Authorized : Committed[f] = files[f]
      BY PipelineAssumption DEF Committed
    <2>3. saved.next = 9 /\ saved' = saved
      BY <1>1, InPhases DEF Deliver, Placed, runVars
    <2>4. QED
      BY <2>1, <2>2, <2>3 DEF CommitFresh
  <1>2. CASE tree' = tree
    <2>1. saved.next \in 1..13 /\ saved'.next \in 1..13 /\ at \in {0, saved.next}
      BY StepRun, RunInv, Records DEF TypeOK, RunTypeOK, Placed
    <2>2. CASE Start
      BY <1>2, <2>2, StartFacts DEF Start, Placed, taskVars, CommitFresh
    <2>3. CASE ~Start
      <3>1. saved'.next >= saved.next
        <4>1. ASSUME at # 0, NEW outcome \in Outcome, NEW c \in Context, EndPhase(outcome, c)
              PROVE  saved'.next >= saved.next
          <5>1. PhaseEnds(c, outcome)
            BY <4>1, EndPhaseFacts, TypeParts
          <5>2. QED
            BY <2>1, <4>1, <5>1 DEF PhaseEnds
        <4>2. QED
          BY <2>1, <2>3, <4>1, StepRun DEF RunMoves, runVars
      <3>2. SUFFICES ASSUME saved.next >= 9 PROVE files' = files
        BY <1>2, <2>1, <3>1 DEF CommitFresh
      <3>3. CASE BeginTask \/ TaskSteps
        BY <2>1, <3>2, <3>3, InPhases
      <3>4. QED
        BY <2>1, <3>2, <3>3, StepTask DEF TaskMoves, taskVars, Leave
    <2>4. QED
      BY <2>2, <2>3
  <1>3. CASE Start \/ Die \/ HandlerRaises \/ CallStep \/ PlainEnd \/ BeginTask \/ TaskSteps \/ EndTask
    BY <1>2, <1>3 DEF Start, Die, HandlerRaises, CallStep, PlainEnd, BeginTask, TaskSteps, EndTask,
                      artVars
  <1>4. CASE Specification \/ Planning \/ Validation \/ Review \/ Ci
    BY <1>2, <1>4 DEF Specification, Planning, Validation, Review, Ci
  <1>5. QED
    BY <1>1, <1>3, <1>4, StepKinds

-----------------------------------------------------------------------------
\* Files the repository had and a task with these paths must leave alone.
Foreign(paths) == {f \in Seen \ paths : Original[f] # None}

\* What holds of them as long as no attempt has left one changed.
Unstrayed ==
  /\ saved.next <= 4 => files = Original
  /\ saved.next = 5 /\ step = "idle" /\ ~strayed =>
       \A f \in Foreign(AllowedPaths(saved.ctx.profile)) : files[f] = Original[f]
  /\ step # "idle" => allowed = AllowedPaths(saved.ctx.profile)
  /\ step # "idle" /\ ~strayed => \A f \in Foreign(allowed) : snapshot[f] = Original[f]
  /\ step \in {"report", "ok"} /\ ~strayed =>
       \A f \in Foreign(allowed) : files[f] \in {Original[f], None}

\* A step of the task leaves foreign files alone.
LEMMA UnstrayedTask ==
  ASSUME TypeOK, Placed, Unstrayed, TaskSteps
  PROVE  Unstrayed'
  <1>1. /\ at = 5 /\ saved.next = 5 /\ UNCHANGED <<saved, conf>>
    BY InPhases DEF TaskSteps, Placed, runVars
  <1>2. /\ UNCHANGED <<allowed, snapshot, strayed>> /\ step # "idle" /\ step' # "idle"
    BY DEF TaskSteps, RunTests, StubEvidence, RunRed, RunGreen, RejectChanges, AcceptChanges,
           WriteChange, WriteFails, RejectEvidence, AcceptEvidence, Revert, Report, Raise
  <1>3. SUFFICES ASSUME step' \in {"report", "ok"}, ~strayed, NEW f \in Foreign(allowed)
                 PROVE  files'[f] \in {Original[f], None}
    BY <1>1, <1>2 DEF Unstrayed
  <1>4. f \in File /\ f \in Seen /\ f \notin allowed /\ Original[f] # None
    BY <1>3, WorkspaceAssumption DEF Foreign
  <1>5. Revert \/ Report
    BY <1>3 DEF TaskSteps, RunTests, StubEvidence, RunRed, RunGreen, RejectChanges, AcceptChanges,
                WriteChange, WriteFails, RejectEvidence, AcceptEvidence, Raise
  <1>6. CASE Revert
    <2>1. files' = [g \in File |-> IF g \in Unauthorised THEN snapshot[g] ELSE files[g]]
      BY <1>6 DEF Revert
    <2>2. snapshot[f] = Original[f]
      BY <1>2, <1>3 DEF Unstrayed
    <2>3. files'[f] = IF f \in Unauthorised THEN snapshot[f] ELSE files[f]
      BY <1>4, <2>1
    <2>4. f \in Unauthorised \/ files[f] \in {snapshot[f], None}
      BY <1>4, <2>2 DEF Unauthorised, Authorised
    <2>5. QED
      BY <2>2, <2>3, <2>4
  <1>7. CASE Report
    BY <1>3, <1>7 DEF Report, Unstrayed
  <1>8. QED
    BY <1>5, <1>6, <1>7

\* An attempt is left.
LEMMA UnstrayedLeft ==
  ASSUME TypeOK, Placed, Unstrayed, step # "idle", Leave, saved'.ctx.profile = saved.ctx.profile,
         saved'.next \in {5, 6}
  PROVE  Unstrayed'
  <1>1. /\ step' = "idle" /\ files' = files /\ strayed' = (strayed \/ Astray)
    BY DEF Leave
  <1>2. allowed = AllowedPaths(saved.ctx.profile)
    BY DEF Unstrayed
  <1>3. ~strayed' => \A f \in Foreign(allowed) : files[f] = Original[f]
    BY <1>1 DEF Astray, Foreign
  <1>4. AllowedPaths(saved'.ctx.profile) = allowed
    BY <1>2
  <1>5. QED
    BY <1>1, <1>3, <1>4 DEF Unstrayed

\* A step that leaves workspace and task alone.
LEMMA UnstrayedKept ==
  ASSUME TypeOK, Placed, Unstrayed, UNCHANGED taskVars, saved'.next \in 1..13,
         \/ saved'.next = saved.next /\ (saved.next > 4 => saved'.ctx.profile = saved.ctx.profile)
         \/ saved'.next = saved.next + 1 /\ saved.next # 5 /\ step = "idle"
         \/ saved'.next = saved.next /\ step = "idle" /\ saved.next # 5
  PROVE  Unstrayed'
  <1>1. saved.next \in 1..13
    BY Records DEF TypeOK
  <1>2. step # "idle" => saved.next = 5
    BY DEF Placed
  <1>3. step # "idle" => saved'.ctx.profile = saved.ctx.profile /\ saved'.next = 5
    BY <1>2
  <1>4. saved'.next <= 4 => saved.next <= 4
    BY <1>1
  <1>5. saved'.next = 5 => \/ saved.next <= 4
                           \/ saved.next = 5 /\ saved'.ctx.profile = saved.ctx.profile
    BY <1>1
  <1>6. QED
    BY <1>3, <1>4, <1>5 DEF Unstrayed, taskVars, Foreign

\* Every step leaves foreign files alone.
LEMMA UnstrayedInv ==
  ASSUME TypeOK, Placed, Unstrayed, Next
  PROVE  Unstrayed'
  <1>0. /\ conf' = conf /\ ctx \in Context /\ saved.next \in 1..13 /\ saved'.next \in 1..13
    BY StepRun, RunInv, Records DEF TypeOK, RunTypeOK
  <1>1. CASE Start
    BY <1>0, <1>1, StartFacts, UnstrayedKept DEF Placed, Start
  <1>2. CASE CallStep \/ Deliver
    BY <1>0, <1>2, UnstrayedKept DEF CallStep, Deliver, runVars
  <1>3. CASE TaskSteps
    BY <1>3, UnstrayedTask
  <1>4. CASE BeginTask
    <2>1. /\ at = 5 /\ saved.next = 5 /\ saved' = saved /\ ctx.profile = saved.ctx.profile
      BY <1>4, InPhases DEF BeginTask, Placed, runVars
    <2>2. /\ step = "idle" /\ step' = "red" /\ snapshot' = Snapshot
          /\ allowed' = AllowedPaths(ctx.profile) /\ strayed' = strayed
      BY <1>4 DEF BeginTask, TakeSnapshot
    <2>3. ASSUME ~strayed, NEW f \in Foreign(allowed') PROVE snapshot'[f] = Original[f]
      <3>1. files[f] = Original[f]
        BY <2>1, <2>2, <2>3 DEF Unstrayed
      <3>2. f \in File /\ f \in Seen
        BY <2>3, WorkspaceAssumption DEF Foreign
      <3>3. QED
        BY <2>2, <3>1, <3>2 DEF Snapshot
    <2>4. QED
      BY <2>1, <2>2, <2>3 DEF Unstrayed
  <1>5. CASE Die
    <2>1. saved' = saved
      BY <1>5 DEF Die
    <2>2. CASE step = "idle"
      BY <1>0, <1>5, <2>1, <2>2, UnstrayedKept DEF Die
    <2>3. CASE step # "idle"
      <3>1. saved.next = 5 /\ Leave
        BY <1>5, <2>3 DEF Die, Placed
      <3>2. QED
        BY <2>1, <2>3, <3>1, UnstrayedLeft
    <2>4. QED
      BY <2>2, <2>3
  <1>6. CASE HandlerRaises
    <2>1. at # 0 /\ at = saved.next /\ EndPhase("failed", ctx) /\ ctx.profile = saved.ctx.profile
      BY <1>6, InPhases DEF HandlerRaises, Placed
    <2>2. PhaseEnds(ctx, "failed")
      BY <1>0, <2>1, EndPhaseFacts, TypeParts DEF Outcome
    <2>3. saved'.next = saved.next /\ saved'.ctx.profile = saved.ctx.profile
      BY <2>1, <2>2 DEF PhaseEnds
    <2>4. CASE step = "idle"
      BY <1>0, <1>6, <2>3, <2>4, UnstrayedKept DEF HandlerRaises
    <2>5. CASE step # "idle"
      <3>1. saved.next = 5 /\ Leave
        BY <1>6, <2>5 DEF HandlerRaises, Placed
      <3>2. QED
        BY <2>3, <2>5, <3>1, UnstrayedLeft
    <2>6. QED
      BY <2>4, <2>5
  <1>7. CASE EndTask
    <2>1. /\ at = 5 /\ saved.next = 5 /\ step # "idle" /\ Leave
          /\ ctx.profile = saved.ctx.profile
      BY <1>7, InPhases DEF EndTask, Placed, Ended
    <2>2. PICK outcome \in {"ok", "failed"} : EndPhase(outcome, ctx)
      BY <1>7 DEF EndTask
    <2>3. PhaseEnds(ctx, outcome)
      BY <1>0, <2>1, <2>2, EndPhaseFacts, TypeParts DEF Outcome
    <2>4. saved'.next \in {5, 6} /\ saved'.ctx.profile = saved.ctx.profile
      BY <2>1, <2>3 DEF PhaseEnds
    <2>5. QED
      BY <2>1, <2>4, UnstrayedLeft
  <1>8. ASSUME at \notin {0, 5}, NEW outcome \in Outcome, NEW c \in Context,
               EndPhase(outcome, c), UNCHANGED taskVars
        PROVE  Unstrayed'
    <2>1. PhaseEnds(c, outcome)
      BY <1>0, <1>8, EndPhaseFacts, TypeParts
    <2>2. /\ saved.next # 5 /\ step = "idle"
          /\ saved'.next = saved.next \/ saved'.next = saved.next + 1
      BY <1>8, <2>1 DEF PhaseEnds, Placed
    <2>3. QED
      BY <1>0, <1>8, <2>2, UnstrayedKept
  <1>9. CASE Specification \/ Planning
    <2>1. at \in {3, 4} /\ UNCHANGED taskVars
      BY <1>9, InPhases DEF Specification, Planning
    <2>2. \E outcome \in Outcome : EndPhase(outcome, ctx)
      BY <1>9 DEF Specification, Planning, Outcome
    <2>3. QED
      BY <1>0, <1>8, <2>1, <2>2
  <1>10. CASE PlainEnd
    BY <1>8, <1>10 DEF PlainEnd
  <1>11. CASE Review
    BY <1>8, <1>11, InPhases, ReviewEnds DEF Review, Outcome, ReviewOutcome
  <1>12. CASE Ci
    BY <1>0, <1>8, <1>12, InPhases, CiEnds DEF Ci, Outcome
  <1>13. CASE Validation
    <2>1. at = 6 /\ saved.next = 6 /\ step = "idle" /\ step' = "idle"
      BY <1>13, InPhases DEF Validation, Placed
    <2>2. \E outcome \in Outcome, c \in Context : EndPhase(outcome, c)
      BY <1>13, ValidationEnds DEF Outcome
    <2>3. saved'.next \in {6, 7}
      BY <2>1, <2>2, EndPhaseFacts, TypeParts DEF PhaseEnds
    <2>4. QED
      BY <2>1, <2>3 DEF Unstrayed
  <1>14. QED
    BY <1>1, <1>2, <1>3, <1>4, <1>5, <1>6, <1>7, <1>9, <1>10, <1>11, <1>12, <1>13, StepKinds

-----------------------------------------------------------------------------
\* The inductive invariant.
Inv ==
  /\ TypeOK /\ Placed
  /\ AskedSoFar /\ Spending /\ Audited /\ CiPassed /\ TestedSoFar /\ CommitFresh /\ Unstrayed

\* The invariant holds at the start.
LEMMA InitInv == Init => Inv
  <1> SUFFICES ASSUME Init PROVE Inv
    OBVIOUS
  <1>1. TaskTypeOK
    <2>1. files \in Workspace /\ snapshot \in Workspace
      BY WorkspaceAssumption DEF Init, TaskInit, Workspace, NoSnapshot
    <2>2. step \in Step /\ changes \in Seq(Change) /\ red \in Evidence /\ green \in Evidence
      BY DEF Init, TaskInit, Step, Evidence
    <2>3. /\ allowed \subseteq File /\ reverted \subseteq File
          /\ tested \in Workspace \cup {None} /\ strayed \in BOOLEAN
      BY DEF Init, TaskInit
    <2>4. QED
      BY <2>1, <2>2, <2>3 DEF TaskTypeOK
  <1>2. CallTypeOK /\ AskedSoFar
    BY CallAssumption
       DEF Init, CallInit, CallTypeOK, AskedSoFar, NoRequest, Call, Role, Provider, Answer
  <1>3. [next |-> 1, ctx |-> NoContext, state |-> "new"] \in Record
    <2>1. 1 \in 1..13 /\ "new" \in RunState
      BY DEF RunState
    <2>2. QED
      BY <2>1, Records
  <1>4. conf \in Configurations /\ wiring = conf.wiring
    BY DEF Init
  <1>5. RunTypeOK
    BY <1>3, Records, PipelineAssumption DEF Init, RunTypeOK
  <1>6. ArtTypeOK
    BY DEF Init, ArtTypeOK
  <1>7. TypeOK
    BY <1>1, <1>2, <1>4, <1>5, <1>6, TypeParts
  <1>8. Placed
    BY DEF Init, TaskInit, Placed
  <1>9. saved.next = 1 /\ at = 0 /\ total = 0 /\ calls = 0 /\ delivered = None
        /\ tree = None /\ files = Original /\ step = "idle"
    BY DEF Init, TaskInit
  <1>10. Spending
    <2>1. conf.ceiling # None => conf.ceiling \in Nat \ {0}
      BY <1>4, PipelineAssumption DEF Configuration
    <2>2. QED
      BY <1>9, <2>1 DEF Spending
  <1>11. Audited
    BY <1>9, Indexes DEF Audited, ProviderRecord
  <1>12. CiPassed /\ TestedSoFar /\ CommitFresh /\ Unstrayed
    BY <1>9 DEF CiPassed, TestedSoFar, CommitFresh, Unstrayed
  <1>13. QED
    BY <1>2, <1>7, <1>8, <1>10, <1>11, <1>12 DEF Inv

\* A stuttering step keeps the invariant.
LEMMA StutterInv == Inv /\ UNCHANGED vars => Inv'
  <1> SUFFICES ASSUME Inv, UNCHANGED vars PROVE Inv'
    OBVIOUS
  <1>1. /\ UNCHANGED <<conf, runVars>> /\ UNCHANGED artVars /\ UNCHANGED taskVars
        /\ UNCHANGED callVars
    BY DEF vars
  <1>2. RunMoves /\ TaskMoves /\ CallMoves
    BY <1>1 DEF RunMoves, TaskMoves, CallMoves
  <1>3. TaskTypeOK' /\ CallTypeOK' /\ AskedSoFar' /\ wiring' = wiring /\ RunTypeOK' /\ conf' = conf
    BY <1>2, TaskInv, CallInv, RunInv, TypeParts DEF Inv
  <1>4. ArtTypeOK'
    BY <1>1, TypeParts DEF Inv, ArtTypeOK, artVars
  <1>5. TypeOK'
    BY <1>3, <1>4, Indexes DEF Inv, TypeOK, RunTypeOK, ArtTypeOK
  <1>6. Placed'
    BY <1>1, <1>2, RunInv DEF Inv, Placed, taskVars, runVars
  <1>7. Spending'
    BY <1>2, SpendingInv DEF Inv
  <1>8. Audited'
    BY <1>1, <1>3 DEF Inv, Audited, Modelled, artVars, runVars
  <1>9. CiPassed'
    BY <1>1 DEF Inv, CiPassed, LastSucceeds, Named, SkipRemote, artVars, runVars
  <1>10. TestedSoFar'
    BY <1>1 DEF Inv, TestedSoFar, Agrees, artVars, runVars, taskVars
  <1>11. Unstrayed'
    BY <1>1 DEF Inv, Unstrayed, Foreign, runVars, taskVars
  <1>12. CommitFresh'
    BY <1>1 DEF Inv, CommitFresh, artVars, runVars, taskVars
  <1>13. QED
    BY <1>3, <1>5, <1>6, <1>7, <1>8, <1>9, <1>10, <1>11, <1>12 DEF Inv

\* Every step keeps the invariant.
LEMMA StepInv == Inv /\ [Next]_vars => Inv'
  <1>1. ASSUME Inv, Next PROVE Inv'
    BY <1>1, BaseInv, AuditedInv, CiPassedInv, TestedInv, CommitInv, UnstrayedInv DEF Inv
  <1>2. QED
    BY <1>1, StutterInv

\* The invariant holds always.
LEMMA Invariant == Spec => []Inv
  BY InitInv, StepInv, PTL DEF Spec

-----------------------------------------------------------------------------
\* The variables keep their types, through every phase, failure and resume.
THEOREM TypeCorrect == Spec => []TypeOK
  <1>1. Inv => TypeOK
    BY DEF Inv
  <1>2. QED
    BY <1>1, Invariant, PTL

\* An accepted attempt has left the files outside the task's paths alone, for every
\* list of changes, every profile and any tests.
THEOREM NoStrayCorrect == Spec => []NoStray
  <1>1. Inv => NoStray
    BY DEF Inv, Unstrayed, NoStray, Foreign
  <1>2. QED
    BY <1>1, Invariant, PTL

\* From its delivery on the workspace, and what the commit has of the authorized files,
\* is as GREEN and the validation have passed it, however many attempts failed, were
\* rejected or died before. Other files of the commit are not spoken of.
THEOREM DeliveredTestedCorrect == Spec => []DeliveredTested
  <1>1. Inv => DeliveredTested
    <2> SUFFICES ASSUME Inv, delivered # None PROVE DeliveredTested
      BY DEF DeliveredTested
    <2>1. saved.next >= 9 /\ saved.next \in 1..13
      BY Records DEF Inv, TypeOK, TestedSoFar
    <2>2. Agrees(validated) /\ (conf.runner = "llm" => Agrees(tested))
      BY <2>1 DEF Inv, TestedSoFar
    <2>3. tree # None => \A f \in Authorized \ Touched : tree[f] = files[f]
      BY DEF Inv, CommitFresh
    <2>4. QED
      BY <2>2, <2>3 DEF Agrees, DeliveredTested
  <1>2. QED
    BY <1>1, Invariant, PTL

\* No run passes its review unapproved, and none that has an evidence writer a phase that
\* asked a model without the record of it, wherever appending a record failed.
THEOREM AuditedCorrect == Spec => []Audited
  <1>1. Inv => Audited
    BY DEF Inv
  <1>2. QED
    BY <1>1, Invariant, PTL

\* A run that delivers remotely completes on a success of the delivered head only.
THEOREM CompleteMeansReadyCorrect == Spec => []CompleteMeansReady
  <1>1. Inv => CompleteMeansReady
    <2> SUFFICES ASSUME Inv, saved.state = "complete", ~SkipRemote PROVE CompleteMeansReady
      BY DEF CompleteMeansReady
    <2>1. saved.next = 13
      BY DEF Inv, Placed
    <2>2. delivered # None /\ saved.ctx.ci = "ready" /\ LastSucceeds(shown, delivered)
      BY <2>1 DEF Inv, CiPassed
    <2>3. QED
      BY <2>2 DEF LastSucceeds, CompleteMeansReady
  <1>2. QED
    BY <1>1, Invariant, PTL

\* All calls together consume at most the ceiling for each, for every ceiling.
THEOREM WithinBudgetCorrect == Spec => []WithinBudget
  <1>1. Inv => WithinBudget
    <2> SUFFICES ASSUME Inv, conf.ceiling # None PROVE total <= calls * conf.ceiling
      BY DEF WithinBudget
    <2>1. /\ conf.ceiling \in Nat /\ total \in Nat /\ calls \in Nat /\ at \in Nat
          /\ spent \in Nat
      BY TypeParts, PipelineAssumption DEF Inv, TypeOK, RunTypeOK, Configuration
    <2>2. calls * conf.ceiling \in Nat
      BY <2>1
    <2>3. \/ total <= calls * conf.ceiling
          \/ spent < conf.ceiling /\ total + conf.ceiling <= calls * conf.ceiling + spent
      BY DEF Inv, Spending
    <2>4. QED
      BY <2>1, <2>2, <2>3
  <1>2. QED
    BY <1>1, Invariant, PTL

\* A request costs max_attempts requests and two more at most, whatever the providers do.
THEOREM AskedBoundedCorrect == Spec => []AskedBounded
  <1>1. Inv => AskedBounded
    BY DEF Inv, AskedSoFar, AskedBounded
  <1>2. QED
    BY <1>1, Invariant, PTL
=============================================================================
