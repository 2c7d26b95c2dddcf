----------------------------- MODULE CiMonitor -----------------------------
(***************************************************************************)
(* Waiting for the checks of a pull request (ci/monitor.py, polling.py,    *)
(* checks.py, readiness.py, remediation.py, and GitHubChecksClient of      *)
(* controller/real_adapters.py): read a view of the checks, decide, mark   *)
(* the pull request ready or wait and read again, until the attempts or    *)
(* the time are used up. Between any two steps the checks may end or start *)
(* again and somebody may push.                                            *)
(*                                                                         *)
(* Simplifications: one pull request; queued and pending checks are        *)
(* "in_progress"; a conclusion the harness has no name for is None, as the *)
(* client turns it; time is counted in units of the policy.                *)
(***************************************************************************)
EXTENDS Naturals, Sequences

CONSTANTS
  None,
  Board,        \* the checks of a head as they are listed: [name, required]
  Demanded,     \* the names a view factory calls required
  Conclusions,  \* those the checks may end with
  Interval, MaxAttempts, MaxTotal,  \* PollPolicy
  StopEarly,    \* of run, or None
  FetchTime,    \* the longest time a request takes
  Sources,      \* where the monitor may have its view from
  Transition,   \* what marks the pull request: "stub" keeps the mark, "none" does nothing
  MaxEvents     \* bound of the model on what others do

Conclusion == {"success", "failure", "neutral", "cancelled", "skipped", "timed_out",
               "action_required", "stale"}
Source == {"factory", "client", "github", "nothing"}

ASSUME MonitorAssumption ==
  /\ None \notin Conclusion /\ None \notin Nat
  /\ Conclusions \subseteq Conclusion
  /\ Board \in Seq([name : STRING, required : BOOLEAN])
  /\ Demanded \subseteq STRING
  /\ Interval \in Nat /\ FetchTime \in Nat
  /\ MaxAttempts \in Nat \ {0} /\ MaxTotal \in Nat \ {0}
  /\ StopEarly \in Nat \cup {None}
  /\ Sources \subseteq Source /\ Transition \in {"none", "stub"}
  /\ MaxEvents \in Nat

Progress == [state : {"in_progress", "completed"}, conclusion : Conclusion \cup {None}]
Check == [name : STRING, required : BOOLEAN, state : {"in_progress", "completed"},
          conclusion : Conclusion \cup {None}]
View == [required : SUBSET STRING, checks : Seq(Check), unknown : BOOLEAN]
PollOutcome == {"ready", "exhausted", "still_pending", "raised"}

VARIABLES
  source,   \* how the monitor was built
  heads,    \* the heads pushed so far, with the progress of their checks
  unknown,  \* mergeability is not known
  events,
  poll,     \* the run of the monitor
  ready,    \* _ready of the monitor
  marked,   \* _ready of the transition
  backed    \* history: the checks that decide were all right when a view was read

prVars == <<heads, unknown, events>>
pollVars == <<poll, ready, marked, backed>>
ciVars == <<source, prVars, pollVars>>

Running == [state |-> "in_progress", conclusion |-> None]
Pushed == [i \in DOMAIN Board |-> Running]
Newest == Len(heads)

Poll == [pc : {"idle", "fetch", "runs", "judge"}, attempt : Nat, elapsed : Nat,
         ref : Nat, view : View \cup {None}, outcome : PollOutcome \cup {None}]

CiInit ==
  /\ source \in Sources
  /\ heads = <<Pushed>>
  /\ unknown \in BOOLEAN
  /\ events = 0
  /\ poll = [pc |-> "idle", attempt |-> 0, elapsed |-> 0, ref |-> 0,
             view |-> None, outcome |-> None]
  /\ ready = FALSE /\ marked = FALSE
  /\ backed = FALSE

-----------------------------------------------------------------------------
\* The pull request.

Happens == events < MaxEvents /\ events' = events + 1 /\ UNCHANGED <<source, pollVars>>

Finish(i, conclusion) ==
  /\ Happens
  /\ heads[Newest][i].state = "in_progress"
  /\ heads' = [heads EXCEPT ![Newest][i] = [state |-> "completed", conclusion |-> conclusion]]
  /\ UNCHANGED unknown

Rerun(i) ==
  /\ Happens
  /\ heads[Newest][i].state = "completed"
  /\ heads' = [heads EXCEPT ![Newest][i] = Running]
  /\ UNCHANGED unknown

Push ==
  /\ Happens
  /\ heads' = Append(heads, Pushed)
  /\ unknown' = TRUE

MergeabilityKnown ==
  /\ Happens
  /\ unknown /\ unknown' = FALSE
  /\ UNCHANGED heads

PullRequestMoves ==
  \/ \E i \in DOMAIN Board : Rerun(i) \/ \E c \in Conclusions \cup {None} : Finish(i, c)
  \/ Push \/ MergeabilityKnown

-----------------------------------------------------------------------------
\* The checks of a head as PullRequestCheck.
Listed(head) ==
  [i \in DOMAIN Board |->
     [name |-> Board[i].name, required |-> Board[i].required,
      state |-> heads[head][i].state, conclusion |-> heads[head][i].conclusion]]

\* What a view factory returns.
Snapshot == [required |-> Demanded, checks |-> Listed(Newest), unknown |-> unknown]

\* What GitHubChecksClient makes of the check runs of a commit: required is what
\* the runs say of themselves, and mergeability is never known.
Fetched(head) ==
  [required |-> {Board[i].name : i \in {j \in DOMAIN Board : Board[j].required}},
   checks |-> Listed(head), unknown |-> TRUE]

\* Mutant of IsTerminal: the conclusion is not looked at.
IsTerminalByState(check) == check.state = "completed"

IsTerminal(check) == check.state = "completed" /\ check.conclusion # None

IsFailed(check) ==
  IsTerminal(check)
    /\ check.conclusion \in {"failure", "timed_out", "cancelled", "action_required"}

\* The first check of a name decides.
IsFirst(view, i) == \A j \in 1..(i - 1) : view.checks[j].name # view.checks[i].name

\* ReadyEvaluator.evaluate: the required names that block, then can_be_ready.
BlockedBy(view) ==
  {name \in view.required :
     ~\E i \in DOMAIN view.checks :
        /\ view.checks[i].name = name /\ IsFirst(view, i)
        /\ IsTerminal(view.checks[i]) /\ ~IsFailed(view.checks[i])}

CanBeReady(view) == view.required # {} /\ BlockedBy(view) = {} /\ ~view.unknown

\* Mutant of Packets: a check that timed out is not remedied.
PacketsUntimed(view) ==
  {i \in DOMAIN view.checks :
     view.checks[i].required /\ IsFailed(view.checks[i])
       /\ view.checks[i].conclusion # "timed_out"}

\* StubCiRemediationLoop.build_packets: the checks a packet is built for.
Packets(view) ==
  {i \in DOMAIN view.checks : view.checks[i].required /\ IsFailed(view.checks[i])}

-----------------------------------------------------------------------------
\* run is called.
StartPolling ==
  /\ poll.pc = "idle"
  /\ poll' = [poll EXCEPT !.pc = "fetch", !.attempt = 1, !.elapsed = 0,
                           !.outcome = None]
  /\ UNCHANGED <<source, prVars, ready, marked, backed>>

\* The first of a name on the list decides, as in ReadyEvaluator.
Decides(i) == \A j \in 1..(i - 1) : Board[j].name # Board[i].name

\* The checks that decide would do, whatever is made of them.
Green(head) ==
  /\ Demanded # {} /\ ~unknown
  /\ \A name \in Demanded : \E i \in DOMAIN Board :
       /\ Board[i].name = name /\ Decides(i)
       /\ heads[head][i].conclusion \in {"success", "neutral", "skipped", "stale"}

\* A request takes time.
Takes(time) == poll.elapsed + time

\* The run ends.
Ends(outcome, elapsed) ==
  poll' = [poll EXCEPT !.pc = "idle", !.elapsed = elapsed, !.view = None, !.outcome = outcome]

\* _fetch_view with a factory or a client that has one.
FetchSnapshot ==
  /\ poll.pc = "fetch" /\ source \in {"factory", "client"}
  /\ \E time \in 0..FetchTime :
       poll' = [poll EXCEPT !.pc = "judge", !.elapsed = Takes(time), !.view = Snapshot]
  /\ backed' = (backed \/ Green(Newest))
  /\ UNCHANGED <<source, prVars, ready, marked>>

\* GitHubChecksClient.fetch_view: first the head of the pull request, then the
\* check runs of that commit.
FetchHead ==
  /\ poll.pc = "fetch" /\ source = "github"
  /\ \E time \in 0..FetchTime :
       poll' = [poll EXCEPT !.pc = "runs", !.elapsed = Takes(time), !.ref = Newest]
  /\ UNCHANGED <<source, prVars, ready, marked, backed>>

FetchRuns ==
  /\ poll.pc = "runs"
  /\ \E time \in 0..FetchTime :
       poll' = [poll EXCEPT !.pc = "judge", !.elapsed = Takes(time), !.ref = 0,
                            !.view = Fetched(poll.ref)]
  /\ UNCHANGED <<source, prVars, ready, marked, backed>>

\* AdapterUnavailable, or nothing to read from: run has no handler.
FetchFails ==
  /\ \/ poll.pc = "fetch" /\ source \in {"github", "nothing"}
     \/ poll.pc = "runs"
  /\ poll' = [poll EXCEPT !.pc = "idle", !.ref = 0, !.outcome = "raised"]
  /\ UNCHANGED <<source, prVars, ready, marked, backed>>

\* The view can be ready: the transition is asked, then told; it decides once more.
MarkReady ==
  /\ poll.pc = "judge" /\ CanBeReady(poll.view)
  /\ marked' = (marked \/ Transition = "stub")
  /\ ready' = TRUE
  /\ Ends("ready", poll.elapsed)
  /\ UNCHANGED <<source, prVars, backed>>

\* Mutant of TimeIsUp: the time is looked at only when the attempts are used up.
TimeIsUpLate == poll.elapsed >= MaxTotal /\ poll.attempt = MaxAttempts

TimeIsUp == poll.elapsed >= MaxTotal

StopsEarly == StopEarly # None /\ poll.attempt >= StopEarly

StopPolling ==
  /\ poll.pc = "judge" /\ ~CanBeReady(poll.view)
  /\ StopsEarly \/ TimeIsUp
  /\ Ends(IF StopsEarly THEN "still_pending" ELSE "exhausted", poll.elapsed)
  /\ UNCHANGED <<source, prVars, ready, marked, backed>>

\* Sleep, also behind the last attempt.
PollAgain ==
  /\ poll.pc = "judge" /\ ~CanBeReady(poll.view)
  /\ ~StopsEarly /\ ~TimeIsUp
  /\ IF poll.attempt = MaxAttempts THEN Ends("exhausted", poll.elapsed + Interval)
     ELSE poll' = [poll EXCEPT !.pc = "fetch", !.attempt = @ + 1, !.view = None,
                               !.elapsed = @ + Interval]
  /\ UNCHANGED <<source, prVars, ready, marked, backed>>

Monitor ==
  \/ StartPolling \/ FetchSnapshot \/ FetchHead \/ FetchRuns \/ FetchFails
  \/ MarkReady \/ StopPolling \/ PollAgain

CiNext == PullRequestMoves \/ Monitor
-----------------------------------------------------------------------------
CiTypeOK ==
  /\ source \in Sources
  /\ heads \in Seq([DOMAIN Board -> Progress]) /\ Newest > 0
  /\ unknown \in BOOLEAN /\ events \in 0..MaxEvents
  /\ poll \in Poll
  /\ ready \in BOOLEAN /\ marked \in BOOLEAN /\ backed \in BOOLEAN

\* A run of the monitor outlasts its total time by one interval and the requests of
\* one attempt at most, and reads no more often than it may.
PollBounded ==
  /\ poll.attempt <= MaxAttempts
  /\ poll.elapsed < MaxTotal + Interval + 2 * FetchTime

\* The pull request is called ready only if, when one view was read, it could be
\* merged and of every required name the check that decides it, the first of that name
\* on the list, had ended without failing. A later check of the same name may have
\* failed or still run. A push takes neither mark back.
ReadyBacked == ready \/ marked => backed

\* What blocks and what is remedied agree for the client's views: a packet is built
\* for the check that decides its name exactly if it has ended and blocks. One case is
\* left out, for the two disagree there: the check that decides a required name says
\* itself that it is not required, and a later one of the name says it is. It blocks
\* and no packet is built for it.
Reported ==
  \A head \in DOMAIN heads : LET view == Fetched(head) IN
    \A i \in DOMAIN view.checks :
      /\ IsFirst(view, i)
      /\ view.checks[i].name \in view.required => view.checks[i].required
      => (i \in Packets(view) <=>
            view.checks[i].name \in BlockedBy(view) /\ IsTerminal(view.checks[i]))
=============================================================================
