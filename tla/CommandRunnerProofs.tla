------------------------ MODULE CommandRunnerProofs ------------------------
(***************************************************************************)
(* The command runner, for any number of processes: typing, what is left   *)
(* of the process group after a command was stopped, and truthful exit     *)
(* codes.                                                                  *)
(***************************************************************************)
EXTENDS CommandRunner, TLAPS

\* A signal takes away the processes it is sent to, but for those that ignore
\* it, and the leader's status says whether it was among them.
LEMMA KilledEffect ==
  ASSUME NEW P, NEW sig \in {"term", "kill"}, Killed(P, sig)
  PROVE  /\ alive' \subseteq alive
         /\ alive' \cap P \subseteq deaf
         /\ sig = "kill" => alive' \cap P = {}
         /\ \/ code' = code /\ (Leader \in alive' <=> Leader \in alive)
            \/ code' = sig /\ Leader \in alive /\ Leader \notin alive'
  BY DEF Killed

-----------------------------------------------------------------------------
(* Types. Between spawning and reporting, the leader has a status exactly  *)
(* if it has ended, and the status is read only then.                      *)

Shape ==
  /\ how # "sandbox" => watcher = "none"
  /\ how = "group" => pc \notin {"communicate", "reap", "stop", "join"}
  /\ how # "group" => pc \notin {"poll", "check", "grace", "drain", "flush"}
  /\ pc = "idle" \/ result = "unspawned" => alive = {} /\ code = None
  /\ ~(pc = "idle" \/ result = "unspawned") => (Leader \in alive <=> code = None)
  /\ pc \in {"drain", "flush", "result", "stop", "join"} => Leader \notin alive
  /\ pc \in {"stop", "join"} => result \in {None, "timeout"}
  /\ pc \notin {"stop", "join", "returned"} => result = None
  /\ result = "unspawned" => watcher = "none"

Types == TypeOK /\ Shape

\* Every step keeps the types.
LEMMA TypeInductive == Types /\ [Next]_vars => Types'
  <1> SUFFICES ASSUME Types, [Next]_vars PROVE Types'
    OBVIOUS
  <1> USE RunnerAssumption DEF Types, TypeOK, Shape, Status, Outcome
  <1>1. CASE Spawn
    BY <1>1 DEF Spawn, Process, nature, cancellation, watching
  <1>2. CASE SpawnFails
    BY <1>2 DEF SpawnFails, nature, os, cancellation
  <1>3. CASE Communicate \/ Drain \/ Flush
    BY <1>3 DEF Communicate, Drain, Flush, Silent, nature, os, cancellation, watching
  <1>4. CASE SimpleTimeout
    BY <1>4, KilledEffect DEF SimpleTimeout, nature, cancellation, watching
  <1>5. CASE Poll \/ GoOn \/ Wait
    BY <1>5 DEF Poll, GoOn, Wait, nature, os, cancellation, watching
  <1>6. CASE Terminate
    BY <1>6, KilledEffect DEF Terminate, nature, watching
  <1>7. CASE Escalate
    BY <1>7, KilledEffect DEF Escalate, Group, nature, cancellation, watching
  <1>8. CASE DrainFails
    BY <1>8, KilledEffect DEF DrainFails, nature, cancellation, watching
  <1>9. CASE SandboxTimeout
    BY <1>9, KilledEffect DEF SandboxTimeout, nature, cancellation, watching
  <1>10. CASE Reap \/ Stop \/ Join
    <2>1. CASE Reap
      BY <1>10, <2>1 DEF Reap, Silent, nature, os, cancellation, watching
    <2>2. CASE Stop
      BY <1>10, <2>2 DEF Stop, nature, os, cancellation
    <2>3. CASE Join
      BY <1>10, <2>3 DEF Join, nature, os, cancellation, watching
    <2>4. QED
      BY <1>10, <2>1, <2>2, <2>3
  <1>11. CASE Report
    BY <1>11 DEF Report, Cancelled, nature, os, cancellation, watching
  <1>12. CASE WatcherTerminates
    BY <1>12, KilledEffect DEF WatcherTerminates, nature, cancellation
  <1>13. CASE WatcherKills
    BY <1>13, KilledEffect DEF WatcherKills, nature, cancellation
  <1>14. CASE WatcherEnds
    BY <1>14 DEF WatcherEnds, nature, os, cancellation
  <1>15. CASE Cancel \/ TimeoutPasses
    <2>1. UNCHANGED <<nature, os, watching, pc, result>>
          /\ token' \in BOOLEAN /\ asked' \in BOOLEAN /\ due' \in BOOLEAN
      BY <1>15 DEF Cancel, TimeoutPasses, cancellation
    <2>2. QED
      BY <2>1 DEF nature, os, watching
  <1>16. ASSUME NEW p \in Process, Ends(p) PROVE Types'
    BY <1>16 DEF Ends, nature, cancellation, watching
  <1>17. CASE UNCHANGED vars
    BY <1>17 DEF vars, nature, os, cancellation, watching
  <1>18. QED
    BY <1>1, <1>2, <1>3, <1>4, <1>5, <1>6, <1>7, <1>8, <1>9, <1>10, <1>11, <1>12, <1>13, <1>14,
       <1>15, <1>16, <1>17 DEF Next, Waiter, Watcher

\* The types hold at the start.
LEMMA TypeInit == Init => Types
  BY RunnerAssumption DEF Init, Types, TypeOK, Shape, Process, Status, Outcome

\* The state is always well typed.
THEOREM TypeCorrect == Spec => []TypeOK
  <1>1. Types => TypeOK
    BY DEF Types
  <1>2. QED
    BY <1>1, TypeInit, TypeInductive, PTL DEF Spec

-----------------------------------------------------------------------------
(* The process group. After SIGTERM only the deaf are left of it, after    *)
(* SIGKILL nobody; the last step before the report ends when the pipes are *)
(* closed or has sent a SIGKILL.                                           *)

Stopped ==
  how = "group" =>
    /\ pc \in {"idle", "poll", "check"} => code \notin {"term", "kill"}
    /\ pc = "grace" => code # "kill" /\ alive \cap Group \subseteq deaf
    /\ code = "term" => alive \cap Group \subseteq deaf
    /\ code = "kill" \/ pc = "flush" => alive \cap Group = {}
    /\ pc \in {"result", "returned"} => alive \cap Group \cap holds = {}

\* Every step keeps Stopped.
LEMMA StoppedInductive == Types /\ Stopped /\ [Next]_vars => Stopped'
  <1> SUFFICES ASSUME Types, Stopped, [Next]_vars, how' = "group" PROVE Stopped'
    BY DEF Stopped
  <1> USE DEF Stopped, Group, Process
  <1>0. how = "group" /\ watcher = "none" /\ UNCHANGED nature
    <2>1. UNCHANGED nature
      BY DEF Next, Waiter, Watcher, Spawn, SpawnFails, Communicate, SimpleTimeout, Poll, Terminate,
             GoOn, Wait, Escalate, Drain, DrainFails, Flush, SandboxTimeout, Reap, Stop, Join,
             Report, WatcherTerminates, WatcherKills, WatcherEnds, Cancel, TimeoutPasses, Ends, vars
    <2>2. QED
      BY <2>1 DEF nature, Types, Shape
  <1>1. deaf' = deaf /\ away' = away /\ holds' = holds
    BY <1>0 DEF nature
  <1>2. CASE Spawn \/ SpawnFails
    <2>1. pc = "idle" /\ code = None /\ code' = code /\ pc' \in {"poll", "returned"}
          /\ (pc' = "returned" => alive' = {})
      BY <1>0, <1>2 DEF Spawn, SpawnFails, os, Types, Shape
    <2>2. QED
      BY <2>1, RunnerAssumption DEF Outcome, Status
  <1>3. CASE Poll \/ GoOn \/ Wait
    BY <1>0, <1>1, <1>3 DEF Poll, GoOn, Wait, os
  <1>4. CASE Terminate
    BY <1>0, <1>1, <1>4, KilledEffect DEF Terminate
  <1>5. CASE Escalate \/ DrainFails
    BY <1>0, <1>1, <1>5, KilledEffect DEF Escalate, DrainFails
  <1>6. CASE Drain \/ Flush \/ Report
    BY <1>0, <1>1, <1>6 DEF Drain, Flush, Report, Silent, os
  <1>7. CASE Cancel \/ TimeoutPasses
    BY <1>0, <1>1, <1>7 DEF Cancel, TimeoutPasses, os
  <1>8. ASSUME NEW p \in Process, Ends(p) PROVE Stopped'
    <2>1. alive' \subseteq alive /\ pc' = pc /\ (code' = code \/ code' \in {"ok", "fail"})
      BY <1>8 DEF Ends
    <2>2. QED
      BY <1>0, <1>1, <2>1
  <1>9. CASE UNCHANGED vars
    BY <1>0, <1>1, <1>9 DEF vars, os
  <1>10. CASE Communicate \/ SimpleTimeout \/ SandboxTimeout \/ Reap \/ Stop \/ Join \/ Watcher
    BY <1>0, <1>10 DEF Communicate, SimpleTimeout, SandboxTimeout, Reap, Stop, Join, Watcher,
                       WatcherTerminates, WatcherKills, WatcherEnds, Types, Shape
  <1>11. QED
    BY <1>2, <1>3, <1>4, <1>5, <1>6, <1>7, <1>8, <1>9, <1>10 DEF Next, Waiter

\* A command that was stopped leaves nothing of its process group behind but
\* kids that ignore SIGTERM and hold no pipe.
THEOREM GroupGoneCorrect == Spec => []GroupGone
  <1>1. Init => Stopped
    BY RunnerAssumption DEF Init, Stopped, Outcome, Status
  <1>2. Stopped => GroupGone
    BY DEF Stopped, GroupGone, Group, Process
  <1>3. QED
    BY <1>1, <1>2, TypeInit, TypeInductive, StoppedInductive, PTL DEF Spec

-----------------------------------------------------------------------------
(* Undisturbed commands: nobody cancels, the timeout is long enough, every *)
(* process ends by itself, and the output is read or fits. Then nothing is *)
(* ever signalled, and what is reported is the leader's status.            *)

Calm == ~asked /\ ~hurry /\ stuck = {} /\ (how = "group" => chatty = {})

Undisturbed ==
  Calm =>
    /\ ~due /\ ~token
    /\ code \notin {"term", "kill"}
    /\ watcher # "grace"
    /\ pc \notin {"grace", "reap"}
    /\ result # "timeout"
    /\ pc \in {"stop", "join", "result"} /\ how # "group" => alive \cap holds = {}
    /\ pc = "returned" /\ result # "unspawned" => result = code /\ Leader \notin alive

\* Every step keeps Undisturbed.
LEMMA UndisturbedInductive == Types /\ Undisturbed /\ [Next]_vars => Undisturbed'
  <1> SUFFICES ASSUME Types, Undisturbed, [Next]_vars, Calm' PROVE Undisturbed'
    BY DEF Undisturbed
  <1>0. Calm /\ UNCHANGED nature
    <2>1. UNCHANGED nature
      BY DEF Next, Waiter, Watcher, Spawn, SpawnFails, Communicate, SimpleTimeout, Poll, Terminate,
             GoOn, Wait, Escalate, Drain, DrainFails, Flush, SandboxTimeout, Reap, Stop, Join,
             Report, WatcherTerminates, WatcherKills, WatcherEnds, Cancel, TimeoutPasses, Ends, vars
    <2>2. asked => asked'
      BY DEF Next, Waiter, Watcher, Spawn, SpawnFails, Communicate, SimpleTimeout, Poll, Terminate,
             GoOn, Wait, Escalate, Drain, DrainFails, Flush, SandboxTimeout, Reap, Stop, Join,
             Report, WatcherTerminates, WatcherKills, WatcherEnds, Cancel, TimeoutPasses, Ends, vars,
             cancellation
    <2>3. QED
      BY <2>1, <2>2 DEF nature, Calm
  <1> USE DEF Undisturbed
  <1>1. how' = how /\ holds' = holds
    BY <1>0 DEF nature
  <1>2. CASE Spawn \/ SpawnFails
    BY <1>0, <1>2 DEF Spawn, SpawnFails, os, cancellation, watching, Types, Shape
  <1>3. CASE Communicate \/ Drain \/ Flush
    BY <1>0, <1>1, <1>3 DEF Communicate, Drain, Flush, Silent, os, cancellation, watching, Types, Shape
  <1>4. CASE Poll \/ GoOn \/ Wait
    BY <1>0, <1>1, <1>4 DEF Poll, GoOn, Wait, os, cancellation, watching, Types, Shape
  <1>5. CASE DrainFails
    BY <1>0, <1>1, <1>5, KilledEffect DEF DrainFails, cancellation, watching, Types, Shape
  <1>6. CASE Stop \/ Join
    BY <1>0, <1>1, <1>6 DEF Stop, Join, os, cancellation, watching, Types, Shape
  <1>7. CASE Report
    <2>1. pc = "result" /\ pc' = "returned" /\ UNCHANGED <<os, cancellation, due, watching>>
          /\ result' = code
      BY <1>0, <1>7 DEF Report, Cancelled
    <2>2. Leader \notin alive /\ code # "timeout"
      BY <2>1, RunnerAssumption DEF Types, TypeOK, Shape, Status, Outcome
    <2>3. QED
      BY <1>0, <1>1, <2>1, <2>2 DEF os, cancellation, watching
  <1>8. CASE WatcherEnds
    BY <1>0, <1>1, <1>8 DEF WatcherEnds, os, cancellation
  <1>9. CASE TimeoutPasses
    <2>1. PICK p \in alive : ~CanEnd(p)
      BY <1>0, <1>9 DEF TimeoutPasses, Calm
    <2>2. p \in chatty /\ p \in holds /\ ~Reading /\ how # "group"
      BY <1>0, <2>1 DEF CanEnd, Calm, Types, TypeOK
    <2>3. pc \in {"stop", "join", "result"}
      BY <1>0, <1>9, <2>2 DEF TimeoutPasses, Reading, Types, TypeOK, Shape
    <2>4. QED
      BY <1>0, <2>1, <2>2, <2>3
  <1>10. ASSUME NEW p \in Process, Ends(p) PROVE Undisturbed'
    <2>1. UNCHANGED <<cancellation, due, watching, pc, result>>
          /\ alive' \subseteq alive /\ p \in alive
          /\ (p # Leader => code' = code) /\ (p = Leader => code' \in {"ok", "fail"})
      BY <1>10 DEF Ends
    <2>2. QED
      BY <1>0, <1>1, <2>1 DEF cancellation, watching
  <1>11. CASE Terminate \/ Escalate \/ SimpleTimeout \/ SandboxTimeout \/ Reap
              \/ WatcherTerminates \/ WatcherKills \/ Cancel
    BY <1>0, <1>11 DEF Terminate, Escalate, SimpleTimeout, SandboxTimeout, Reap, WatcherTerminates,
                       WatcherKills, Cancel, Calm
  <1>12. CASE UNCHANGED vars
    BY <1>0, <1>12 DEF vars, os, nature, cancellation, watching
  <1>13. QED
    BY <1>2, <1>3, <1>4, <1>5, <1>6, <1>7, <1>8, <1>9, <1>10, <1>11, <1>12
       DEF Next, Waiter, Watcher

\* An undisturbed command is reported with its own exit status.
THEOREM OwnStatusCorrect == Spec => []OwnStatus
  <1>1. Init => Undisturbed
    BY RunnerAssumption DEF Init, Undisturbed, Outcome, Status
  <1>2. Types /\ Undisturbed => OwnStatus
    BY RunnerAssumption DEF Types, TypeOK, Shape, Undisturbed, Calm, OwnStatus, Status, Outcome
  <1>3. QED
    BY <1>1, <1>2, TypeInit, TypeInductive, UndisturbedInductive, PTL DEF Spec

=============================================================================
