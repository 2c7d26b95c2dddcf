-------------------------- MODULE ControllerProofs --------------------------
(***************************************************************************)
(* The CI monitor and the controller, for any board of checks, any policy, *)
(* any chats and runs: typing, the bound of a polling run, what a ready    *)
(* mark rests on, and what a chat that has cancelled a run can rely on.    *)
(***************************************************************************)
EXTENDS Controller, TLAPS

\* The parts of the typing that the steps below disturb.
LEMMA Fields ==
  ASSUME TypeOK
  PROVE  /\ heads \in Seq([DOMAIN Board -> Progress]) /\ Len(heads) \in Nat \ {0}
         /\ \A i \in DOMAIN heads : heads[i] \in [DOMAIN Board -> Progress]
         /\ poll.pc \in {"idle", "fetch", "runs", "judge"}
         /\ poll.attempt \in Nat /\ poll.elapsed \in Nat /\ poll.ref \in Nat
         /\ poll.view \in View \cup {None} /\ poll.outcome \in PollOutcome \cup {None}
         /\ poll \in Poll
         /\ ledger \in [RunId -> RunState \cup {None}]
  <1>1. heads \in Seq([DOMAIN Board -> Progress]) /\ Len(heads) > 0
    BY DEF TypeOK, CiTypeOK, Newest
  <1>2. Len(heads) \in Nat \ {0}
    BY <1>1
  <1>3. poll \in Poll /\ ledger \in [RunId -> RunState \cup {None}]
    BY DEF TypeOK, CiTypeOK
  <1>4. QED
    BY <1>1, <1>2, <1>3 DEF Poll

\* A view of a head is a view.
LEMMA ViewType ==
  ASSUME TypeOK, NEW head \in DOMAIN heads
  PROVE  /\ Listed(head) \in Seq(Check)
         /\ Snapshot \in View /\ Fetched(head) \in View
  <1> DEFINE entries == [name : STRING, required : BOOLEAN]
  <1>0. Board \in Seq(entries)
    BY MonitorAssumption
  <1> HIDE DEF entries
  <1>1. /\ DOMAIN Board = 1..Len(Board) /\ Len(Board) \in Nat
        /\ \A i \in DOMAIN Board : Board[i] \in entries
    BY <1>0
  <1>2. ASSUME NEW h \in DOMAIN heads PROVE Listed(h) \in Seq(Check)
    <2>1. ASSUME NEW i \in DOMAIN Board
          PROVE  [name |-> Board[i].name, required |-> Board[i].required,
                  state |-> heads[h][i].state, conclusion |-> heads[h][i].conclusion]
                   \in Check
      <3>1. heads[h][i] \in Progress
        BY Fields
      <3>2. Board[i] \in entries
        BY <1>1
      <3>3. QED
        BY <3>1, <3>2 DEF Progress, Check, entries
    <2>2. Listed(h) \in [1..Len(Board) -> Check]
      BY <1>1, <2>1 DEF Listed
    <2>3. QED
      BY <1>1, <2>2
  <1>3. Newest \in DOMAIN heads
    BY Fields DEF Newest
  <1>4. Demanded \subseteq STRING /\ unknown \in BOOLEAN
    BY MonitorAssumption DEF TypeOK, CiTypeOK
  <1>5. {Board[i].name : i \in {j \in DOMAIN Board : Board[j].required}} \subseteq STRING
    BY <1>1 DEF entries
  <1>6. QED
    BY <1>2, <1>3, <1>4, <1>5 DEF Snapshot, Fetched, View

-----------------------------------------------------------------------------
\* What a run of the monitor has in hand at each of its steps.
Progressing ==
  /\ poll.attempt <= MaxAttempts
  /\ poll.pc = "idle" => poll.elapsed < MaxTotal + Interval + 2 * FetchTime
  /\ poll.pc = "fetch" => poll.elapsed < MaxTotal + Interval
  /\ poll.pc = "runs" =>
       poll.elapsed < MaxTotal + Interval + FetchTime /\ poll.ref \in DOMAIN heads
  /\ poll.pc = "judge" =>
       /\ poll.elapsed < MaxTotal + Interval + 2 * FetchTime
       /\ poll.view \in View
       /\ CanBeReady(poll.view) => backed

\* The inductive invariant.
Inv == TypeOK /\ Progressing /\ ReadyBacked /\ CancelHolds

\* A view that a factory gives can be ready only if the checks are all right.
LEMMA SnapshotTrue ==
  ASSUME TypeOK, CanBeReady(Snapshot)
  PROVE  Green(Newest)
  <1>1. Demanded # {} /\ ~unknown /\ BlockedBy(Snapshot) = {}
    BY DEF CanBeReady, Snapshot
  <1>2. Newest \in DOMAIN heads
    BY Fields DEF Newest
  <1>3. ASSUME NEW name \in Demanded
        PROVE  \E i \in DOMAIN Board :
                 /\ Board[i].name = name /\ Decides(i)
                 /\ heads[Newest][i].conclusion \in {"success", "neutral", "skipped", "stale"}
    <2>1. PICK i \in DOMAIN Listed(Newest) :
            /\ Listed(Newest)[i].name = name /\ IsFirst(Snapshot, i)
            /\ IsTerminal(Listed(Newest)[i]) /\ ~IsFailed(Listed(Newest)[i])
      BY <1>1, <1>3 DEF BlockedBy, Snapshot
    <2>2. i \in DOMAIN Board
      BY <2>1 DEF Listed
    <2>3. /\ Listed(Newest)[i].name = Board[i].name
          /\ Listed(Newest)[i].conclusion = heads[Newest][i].conclusion
      BY <2>2 DEF Listed
    <2>4. heads[Newest][i].conclusion \in Conclusion \cup {None}
      <3>1. heads[Newest][i] \in Progress
        BY <1>2, <2>2, Fields
      <3>2. QED
        BY <3>1 DEF Progress
    <2>5. Decides(i)
      <3>1. DOMAIN Board = 1..Len(Board) /\ Len(Board) \in Nat
        BY MonitorAssumption
      <3>2. \A j \in DOMAIN Board : Snapshot.checks[j].name = Board[j].name
        BY DEF Snapshot, Listed
      <3>3. 1..(i - 1) \subseteq DOMAIN Board
        BY <2>2, <3>1
      <3>4. QED
        BY <2>1, <2>2, <3>2, <3>3 DEF IsFirst, Decides
    <2>6. QED
      BY <2>1, <2>2, <2>3, <2>4, <2>5 DEF IsTerminal, IsFailed, Conclusion
  <1>4. QED
    BY <1>1, <1>3 DEF Green

\* GitHubChecksClient's view never can.
LEMMA FetchedNever == \A head : ~CanBeReady(Fetched(head))
  BY DEF CanBeReady, Fetched

-----------------------------------------------------------------------------
\* The invariant holds at the start.
LEMMA InitInv == Init => Inv
  <1> SUFFICES ASSUME Init PROVE Inv
    OBVIOUS
  <1>1. Pushed \in [DOMAIN Board -> Progress]
    BY DEF Pushed, Running, Progress
  <1>2. <<Pushed>> \in Seq([DOMAIN Board -> Progress]) /\ Len(<<Pushed>>) > 0
    BY <1>1
  <1>3. [pc |-> "idle", attempt |-> 0, elapsed |-> 0, ref |-> 0,
         view |-> None, outcome |-> None] \in Poll
    BY DEF Poll
  <1>4. CiTypeOK
    <2>1. heads \in Seq([DOMAIN Board -> Progress]) /\ Newest > 0
      BY <1>2 DEF Init, CiInit, Newest
    <2>2. poll \in Poll /\ events \in 0..MaxEvents
      BY <1>3, MonitorAssumption DEF Init, CiInit
    <2>3. source \in Sources /\ unknown \in BOOLEAN
      BY DEF Init, CiInit
    <2>4. ready \in BOOLEAN /\ marked \in BOOLEAN /\ backed \in BOOLEAN
      BY DEF Init, CiInit
    <2>5. QED
      BY <2>1, <2>2, <2>3, <2>4 DEF CiTypeOK
  <1>5. TypeOK
    BY <1>4 DEF Init, TypeOK
  <1>6. Progressing
    BY MonitorAssumption DEF Init, CiInit, Progressing
  <1>7. CancelHolds
    BY DEF Init, CancelHolds
  <1>8. QED
    BY <1>5, <1>6, <1>7 DEF Init, CiInit, Inv, ReadyBacked

\* The heads stay typed, and none is forgotten.
HeadsGrow ==
  /\ heads' \in Seq([DOMAIN Board -> Progress]) /\ Len(heads') > 0
  /\ DOMAIN heads \subseteq DOMAIN heads'

\* What happens to the pull request leaves the monitor alone.
LEMMA PullRequestInv == Inv /\ PullRequestMoves /\ UNCHANGED chatVars => Inv'
  <1> SUFFICES ASSUME Inv, PullRequestMoves, UNCHANGED chatVars PROVE Inv'
    OBVIOUS
  <1> USE DEF Inv
  <1>1. Happens
    BY DEF PullRequestMoves, Finish, Rerun, Push, MergeabilityKnown
  <1>2. Pushed \in [DOMAIN Board -> Progress] /\ Running \in Progress
    BY DEF Pushed, Running, Progress
  <1>3. ASSUME NEW i \in DOMAIN Board, NEW p \in Progress,
               heads' = [heads EXCEPT ![Newest][i] = p]
        PROVE  heads' \in Seq([DOMAIN Board -> Progress]) /\ DOMAIN heads' = DOMAIN heads
               /\ Len(heads') > 0
    <2>1. Newest \in DOMAIN heads
      BY Fields DEF Newest
    <2>2. [heads[Newest] EXCEPT ![i] = p] \in [DOMAIN Board -> Progress]
      BY <2>1, <1>3, Fields
    <2>3. heads' = [heads EXCEPT ![Newest] = [heads[Newest] EXCEPT ![i] = p]]
      BY <1>3
    <2>4. QED
      BY <2>1, <2>2, <2>3, Fields
  <1>4. HeadsGrow
    <2>1. ASSUME NEW i \in DOMAIN Board, NEW c \in Conclusions \cup {None}, Finish(i, c)
          PROVE  HeadsGrow
      <3>1. [state |-> "completed", conclusion |-> c] \in Progress
        BY MonitorAssumption DEF Progress
      <3>2. QED
        BY <1>3, <2>1, <3>1 DEF Finish, HeadsGrow
    <2>2. ASSUME NEW i \in DOMAIN Board, Rerun(i) PROVE HeadsGrow
      BY <1>2, <1>3, <2>2 DEF Rerun, HeadsGrow
    <2>3. CASE Push
      BY <1>2, <2>3, Fields DEF Push, HeadsGrow
    <2>4. CASE MergeabilityKnown
      BY <2>4, Fields DEF MergeabilityKnown, HeadsGrow
    <2>5. QED
      BY <2>1, <2>2, <2>3, <2>4 DEF PullRequestMoves
  <1>5. CiTypeOK'
    <2>1. events' \in 0..MaxEvents
      BY <1>1, MonitorAssumption DEF Happens, TypeOK, CiTypeOK
    <2>2. unknown' \in BOOLEAN
      BY DEF PullRequestMoves, Finish, Rerun, Push, MergeabilityKnown, TypeOK, CiTypeOK
    <2>3. QED
      BY <1>1, <1>4, <2>1, <2>2 DEF Happens, pollVars, TypeOK, CiTypeOK, Newest, HeadsGrow
  <1>6. TypeOK'
    BY <1>5 DEF TypeOK, chatVars
  <1>7. Progressing'
    <2>1. poll' = poll /\ backed' = backed
      BY <1>1 DEF Happens, pollVars
    <2>2. CanBeReady(poll.view)' <=> CanBeReady(poll.view)
      BY <2>1 DEF CanBeReady, BlockedBy, IsFirst, IsTerminal, IsFailed
    <2>3. QED
      BY <1>4, <2>1, <2>2 DEF HeadsGrow, Progressing
  <1>8. QED
    BY <1>1, <1>6, <1>7 DEF Happens, pollVars, ReadyBacked, CancelHolds, Busy, chatVars

\* Every step of the monitor.
LEMMA MonitorInv == Inv /\ Monitor /\ UNCHANGED chatVars => Inv'
  <1> SUFFICES ASSUME Inv, Monitor, UNCHANGED chatVars PROVE Inv'
    OBVIOUS
  <1> USE DEF Inv
  <1>1. UNCHANGED <<source, prVars>>
    BY DEF Monitor, StartPolling, FetchSnapshot, FetchHead, FetchRuns, FetchFails,
           MarkReady, StopPolling, PollAgain
  <1>2. /\ poll.attempt \in Nat /\ poll.elapsed \in Nat /\ poll.ref \in Nat
        /\ poll.pc \in {"idle", "fetch", "runs", "judge"} /\ poll \in Poll
        /\ ready \in BOOLEAN /\ marked \in BOOLEAN /\ backed \in BOOLEAN
        /\ MaxTotal \in Nat \ {0} /\ MaxAttempts \in Nat \ {0}
        /\ Interval \in Nat /\ FetchTime \in Nat
    BY Fields, MonitorAssumption DEF TypeOK, CiTypeOK
  <1>3. heads' = heads
    BY <1>1 DEF prVars
  <1> DEFINE Good ==
        poll' \in Poll /\ ready' \in BOOLEAN /\ marked' \in BOOLEAN /\ backed' \in BOOLEAN
        /\ Progressing' /\ ReadyBacked'
  <1>4. ASSUME StartPolling PROVE Good
    <2>1. /\ poll' = [poll EXCEPT !.pc = "fetch", !.attempt = 1, !.elapsed = 0,
                                  !.outcome = None]
          /\ UNCHANGED <<ready, marked, backed>>
      BY <1>4 DEF StartPolling
    <2>2. poll' \in Poll /\ poll'.pc = "fetch" /\ poll'.attempt = 1 /\ poll'.elapsed = 0
      BY <1>2, <2>1 DEF Poll
    <2>3. QED
      BY <1>2, <2>1, <2>2 DEF Progressing, ReadyBacked
  <1>5. ASSUME FetchSnapshot PROVE Good
    <2>1. PICK time \in 0..FetchTime :
            poll' = [poll EXCEPT !.pc = "judge", !.elapsed = Takes(time), !.view = Snapshot]
      BY <1>5 DEF FetchSnapshot
    <2>2. /\ poll.pc = "fetch" /\ backed' = (backed \/ Green(Newest))
          /\ UNCHANGED <<ready, marked>>
      BY <1>5 DEF FetchSnapshot
    <2>3. Snapshot \in View
      BY ViewType, Fields
    <2>4. Takes(time) \in Nat /\ Takes(time) < MaxTotal + Interval + 2 * FetchTime
      BY <1>2, <2>1, <2>2 DEF Takes, Progressing
    <2>5. /\ poll' \in Poll /\ poll'.pc = "judge" /\ poll'.attempt = poll.attempt
          /\ poll'.elapsed = Takes(time) /\ poll'.view = Snapshot
      BY <1>2, <2>1, <2>3, <2>4 DEF Poll
    <2>6. CanBeReady(poll'.view) => backed'
      BY <2>2, <2>5, SnapshotTrue
    <2>7. Progressing'
      BY <2>3, <2>4, <2>5, <2>6 DEF Progressing, CanBeReady, BlockedBy, IsFirst, IsTerminal,
                                     IsFailed
    <2>8. QED
      BY <1>2, <2>2, <2>5, <2>7 DEF ReadyBacked
  <1>6. ASSUME FetchHead PROVE Good
    <2>1. PICK time \in 0..FetchTime :
            poll' = [poll EXCEPT !.pc = "runs", !.elapsed = Takes(time), !.ref = Newest]
      BY <1>6 DEF FetchHead
    <2>2. poll.pc = "fetch" /\ UNCHANGED <<ready, marked, backed>>
      BY <1>6 DEF FetchHead
    <2>3. Newest \in DOMAIN heads /\ Newest \in Nat
      BY Fields DEF Newest
    <2>4. Takes(time) \in Nat /\ Takes(time) < MaxTotal + Interval + FetchTime
      BY <1>2, <2>1, <2>2 DEF Takes, Progressing
    <2>5. /\ poll' \in Poll /\ poll'.pc = "runs" /\ poll'.attempt = poll.attempt
          /\ poll'.elapsed = Takes(time) /\ poll'.ref = Newest
      BY <1>2, <2>1, <2>3, <2>4 DEF Poll
    <2>6. Progressing'
      BY <1>3, <2>3, <2>4, <2>5 DEF Progressing
    <2>7. QED
      BY <1>2, <2>2, <2>5, <2>6 DEF ReadyBacked
  <1>7. ASSUME FetchRuns PROVE Good
    <2>1. PICK time \in 0..FetchTime :
            poll' = [poll EXCEPT !.pc = "judge", !.elapsed = Takes(time), !.ref = 0,
                                 !.view = Fetched(poll.ref)]
      BY <1>7 DEF FetchRuns
    <2>2. poll.pc = "runs" /\ UNCHANGED <<ready, marked, backed>>
      BY <1>7 DEF FetchRuns
    <2>3. Fetched(poll.ref) \in View
      BY <2>2, ViewType DEF Progressing
    <2>4. Takes(time) \in Nat /\ Takes(time) < MaxTotal + Interval + 2 * FetchTime
      BY <1>2, <2>1, <2>2 DEF Takes, Progressing
    <2>5. /\ poll' \in Poll /\ poll'.pc = "judge" /\ poll'.attempt = poll.attempt
          /\ poll'.elapsed = Takes(time) /\ poll'.view = Fetched(poll.ref)
      BY <1>2, <2>1, <2>3, <2>4 DEF Poll
    <2>6. ~CanBeReady(poll'.view)
      BY <2>5, FetchedNever
    <2>7. Progressing'
      BY <2>3, <2>4, <2>5, <2>6 DEF Progressing, CanBeReady, BlockedBy, IsFirst, IsTerminal,
                                     IsFailed
    <2>8. QED
      BY <1>2, <2>2, <2>5, <2>7 DEF ReadyBacked
  <1>8. ASSUME FetchFails PROVE Good
    <2>1. /\ poll' = [poll EXCEPT !.pc = "idle", !.ref = 0, !.outcome = "raised"]
          /\ UNCHANGED <<ready, marked, backed>> /\ poll.pc \in {"fetch", "runs"}
      BY <1>8 DEF FetchFails
    <2>2. /\ poll' \in Poll /\ poll'.pc = "idle" /\ poll'.attempt = poll.attempt
          /\ poll'.elapsed = poll.elapsed
      BY <1>2, <2>1 DEF Poll, PollOutcome
    <2>3. poll.elapsed < MaxTotal + Interval + 2 * FetchTime
      BY <1>2, <2>1 DEF Progressing
    <2>4. QED
      BY <1>2, <2>1, <2>2, <2>3 DEF Progressing, ReadyBacked
  \* How a run ends.
  <1>9. ASSUME NEW outcome \in PollOutcome, NEW elapsed \in Nat, Ends(outcome, elapsed)
        PROVE  /\ poll' \in Poll /\ poll'.pc = "idle" /\ poll'.attempt = poll.attempt
               /\ poll'.elapsed = elapsed
    BY <1>2, <1>9 DEF Ends, Poll
  <1>10. ASSUME MarkReady PROVE Good
    <2>1. /\ poll.pc = "judge" /\ CanBeReady(poll.view) /\ Ends("ready", poll.elapsed)
          /\ marked' = (marked \/ Transition = "stub") /\ ready' = TRUE /\ backed' = backed
      BY <1>10 DEF MarkReady
    <2>2. /\ poll' \in Poll /\ poll'.pc = "idle" /\ poll'.attempt = poll.attempt
          /\ poll'.elapsed = poll.elapsed
      BY <1>2, <1>9, <2>1 DEF PollOutcome
    <2>3. backed /\ poll.elapsed < MaxTotal + Interval + 2 * FetchTime
      BY <2>1 DEF Progressing
    <2>4. backed' /\ ready' \in BOOLEAN /\ marked' \in BOOLEAN
      BY <1>2, <2>1, <2>3
    <2>5. Progressing'
      BY <2>2, <2>3 DEF Progressing
    <2>6. QED
      BY <1>2, <2>1, <2>2, <2>4, <2>5 DEF ReadyBacked
  <1>11. ASSUME StopPolling PROVE Good
    <2>1. /\ poll.pc = "judge" /\ UNCHANGED <<ready, marked, backed>>
          /\ \E outcome \in PollOutcome : Ends(outcome, poll.elapsed)
      BY <1>11 DEF StopPolling, PollOutcome
    <2>2. /\ poll' \in Poll /\ poll'.pc = "idle" /\ poll'.attempt = poll.attempt
          /\ poll'.elapsed = poll.elapsed
      BY <1>2, <1>9, <2>1
    <2>3. poll.elapsed < MaxTotal + Interval + 2 * FetchTime
      BY <2>1 DEF Progressing
    <2>4. QED
      BY <1>2, <2>1, <2>2, <2>3 DEF Progressing, ReadyBacked
  <1>12. ASSUME PollAgain PROVE Good
    <2>1. /\ poll.pc = "judge" /\ ~(poll.elapsed >= MaxTotal)
          /\ UNCHANGED <<ready, marked, backed>>
      BY <1>12 DEF PollAgain, TimeIsUp
    <2>2. /\ poll.elapsed + Interval \in Nat
          /\ poll.elapsed + Interval < MaxTotal + Interval
          /\ poll.elapsed + Interval < MaxTotal + Interval + 2 * FetchTime
      BY <1>2, <2>1
    <2>3. CASE poll.attempt = MaxAttempts
      <3>1. Ends("exhausted", poll.elapsed + Interval)
        BY <1>12, <2>3 DEF PollAgain
      <3>2. /\ poll' \in Poll /\ poll'.pc = "idle" /\ poll'.attempt = poll.attempt
            /\ poll'.elapsed = poll.elapsed + Interval
        BY <1>9, <2>2, <3>1 DEF PollOutcome
      <3>3. QED
        BY <1>2, <2>1, <2>2, <3>2 DEF Progressing, ReadyBacked
    <2>4. CASE poll.attempt # MaxAttempts
      <3>1. poll' = [poll EXCEPT !.pc = "fetch", !.attempt = @ + 1, !.view = None,
                                 !.elapsed = @ + Interval]
        BY <1>12, <2>4 DEF PollAgain
      <3>2. /\ poll' \in Poll /\ poll'.pc = "fetch" /\ poll'.attempt = poll.attempt + 1
            /\ poll'.elapsed = poll.elapsed + Interval
        <4> DEFINE next == poll.attempt + 1
                   later == poll.elapsed + Interval
        <4>1. next \in Nat /\ later \in Nat
          BY <1>2
        <4>2. poll' = [poll EXCEPT !.pc = "fetch", !.attempt = next, !.view = None,
                                   !.elapsed = later]
          BY <3>1
        <4> HIDE DEF next, later
        <4>3. /\ poll' \in Poll /\ poll'.pc = "fetch" /\ poll'.attempt = next
              /\ poll'.elapsed = later
          BY <1>2, <4>1, <4>2 DEF Poll
        <4>4. QED
          BY <4>3 DEF next, later
      <3>3. poll.attempt + 1 <= MaxAttempts
        BY <1>2, <2>4 DEF Progressing
      <3>4. QED
        BY <1>2, <2>1, <2>2, <3>2, <3>3 DEF Progressing, ReadyBacked
    <2>5. QED
      BY <2>3, <2>4
  <1>13. Good
    BY <1>4, <1>5, <1>6, <1>7, <1>8, <1>10, <1>11, <1>12 DEF Monitor
  <1>14. TypeOK'
    BY <1>1, <1>13 DEF TypeOK, CiTypeOK, prVars, chatVars, Newest
  <1>15. QED
    BY <1>13, <1>14 DEF CancelHolds, Busy, chatVars

-----------------------------------------------------------------------------
\* The front ends and the calls leave the monitor alone, and it does not notice them.
LEMMA AloneKeeps ==
  ASSUME Inv, MonitorAlone, events' \in 0..MaxEvents
  PROVE  CiTypeOK' /\ Progressing' /\ ReadyBacked' /\ composition' \in Compositions
  <1> USE DEF Inv
  <1>1. CiTypeOK'
    BY DEF MonitorAlone, pollVars, TypeOK, CiTypeOK, Newest
  <1>2. poll' = poll /\ backed' = backed /\ heads' = heads
    BY DEF MonitorAlone, pollVars
  <1>3. CanBeReady(poll.view)' <=> CanBeReady(poll.view)
    BY <1>2 DEF CanBeReady, BlockedBy, IsFirst, IsTerminal, IsFailed
  <1>4. QED
    BY <1>1, <1>2, <1>3 DEF MonitorAlone, pollVars, TypeOK, Progressing, ReadyBacked

\* An update that is handled stays within the bound.
LEMMA HandledKeeps ==
  ASSUME Inv, Handled
  PROVE  MonitorAlone /\ events' \in 0..MaxEvents
  BY MonitorAssumption DEF Handled, Inv, TypeOK, CiTypeOK

\* The types of what the controller keeps.
RunsTyped ==
  /\ ledger \in [RunId -> RunState \cup {None}]
  /\ calls \in [RunId -> [Told -> Nat]]
  /\ reply \in Text \cup {None}
  /\ promised \subseteq RunId /\ operated \subseteq RunId /\ overtaken \subseteq RunId

\* A step that keeps them and the promise keeps the invariant.
LEMMA RunsInv ==
  ASSUME Inv, MonitorAlone, events' \in 0..MaxEvents, RunsTyped', CancelHolds'
  PROVE  Inv'
  BY AloneKeeps DEF Inv, TypeOK, RunsTyped

\* The run may be anything: nobody relies on it.
Free(r) == r \in promised => r \in operated \cup overtaken

\* A run that is not cancelled, or that a call drives, is free.
LEMMA Unpromised ==
  ASSUME Inv, NEW r \in RunId, composition.service = "orchestrator",
         ledger[r] # "cancelled" \/ Busy(r)
  PROVE  Free(r)
  BY DEF Inv, CancelHolds, Free

\* A step about one run: of the others all stays, and the run itself is free or was
\* cancelled while idle.
AboutOne(r) ==
  /\ MonitorAlone /\ promised' \subseteq RunId
  /\ \A q \in RunId \ {r} :
       /\ ledger'[q] = ledger[q]
       /\ \A text \in Told : calls'[q][text] = calls[q][text]
       /\ q \in promised' <=> q \in promised
       /\ q \in operated' <=> q \in operated
       /\ q \in overtaken' <=> q \in overtaken
  /\ \/ composition.service # "orchestrator"
     \/ r \in promised' => r \in operated' \cup overtaken'
     \/ ledger'[r] = "cancelled" /\ \A text \in Told : ~(calls'[r][text] > 0)

\* Such a step keeps what was promised.
LEMMA OneRun == ASSUME Inv, NEW r \in RunId, AboutOne(r) PROVE CancelHolds'
  <1> USE DEF AboutOne
  <1> SUFFICES ASSUME composition'.service = "orchestrator",
                      NEW q \in promised' \ (operated' \cup overtaken')
               PROVE  ledger'[q] = "cancelled" /\ ~Busy(q)'
    BY DEF CancelHolds
  <1>1. composition.service = "orchestrator" /\ q \in RunId
    BY DEF MonitorAlone
  <1>2. CASE q = r
    BY <1>1, <1>2 DEF Busy
  <1>3. CASE q # r
    <2>1. q \in promised \ (operated \cup overtaken)
      BY <1>1, <1>3
    <2>2. ledger[q] = "cancelled" /\ ~Busy(q)
      BY <1>1, <2>1 DEF Inv, CancelHolds
    <2>3. QED
      BY <1>1, <1>3, <2>2 DEF Busy
  <1>4. QED
    BY <1>2, <1>3

\* A mark in the ledger.
LEMMA MarkType ==
  ASSUME TypeOK, NEW r \in RunId, NEW state \in RunState, Mark(r, state)
  PROVE  /\ ledger' \in [RunId -> RunState \cup {None}]
         /\ \A q \in RunId \ {r} : ledger'[q] = ledger[q]
         /\ r \in Held => ledger'[r] = state
         /\ r \notin Held => ledger'[r] = ledger[r]
  BY Fields DEF Mark

\* A text other than "cancelled" promises nothing.
LEMMA Says ==
  ASSUME TypeOK, NEW text \in Text, NEW run, Say(text, run)
  PROVE  /\ reply' \in Text \cup {None}
         /\ promised' \subseteq promised \cup {run} /\ promised \subseteq promised'
         /\ text # "cancelled" => promised' = promised
  BY DEF Say, TypeOK

\* One more call for a run, or one less.
LEMMA Counted ==
  ASSUME TypeOK, NEW r \in RunId, NEW text \in Told, NEW n \in Nat,
         calls' = [calls EXCEPT ![r][text] = n]
  PROVE  /\ calls' \in [RunId -> [Told -> Nat]]
         /\ \A q \in RunId \ {r}, other \in Told : calls'[q][other] = calls[q][other]
  <1>1. calls \in [RunId -> [Told -> Nat]]
    BY DEF TypeOK
  <1>2. calls' \in [RunId -> [Told -> Nat]]
    BY <1>1
  <1>3. QED
    BY <1>1, <1>2

\* A command that leaves the runs alone.
LEMMA Answers ==
  ASSUME Inv, Handled, NEW text \in Text, NEW run, text # "cancelled", Say(text, run), RunsAlone
  PROVE  Inv'
  <1>1. TypeOK
    BY DEF Inv
  <1>2. reply' \in Text \cup {None} /\ promised' = promised
    BY <1>1, Says
  <1>3. MonitorAlone /\ events' \in 0..MaxEvents
    BY HandledKeeps
  <1>4. RunsTyped'
    BY <1>1, <1>2 DEF RunsTyped, RunsAlone, TypeOK
  <1>5. CancelHolds'
    BY <1>2, <1>3 DEF Inv, CancelHolds, Busy, RunsAlone, MonitorAlone
  <1>6. QED
    BY <1>3, <1>4, <1>5, RunsInv

\* A new run.
LEMMA FeatureInv ==
  ASSUME Inv, NEW chat, NEW r \in RunId, Feature(chat, r)
  PROVE  Inv'
  <1>1. TypeOK /\ MonitorAlone /\ events' \in 0..MaxEvents
    BY HandledKeeps DEF Inv, Feature, Reaches
  <1>2. /\ ledger[r] = None /\ composition.service = "orchestrator"
        /\ ledger' = [ledger EXCEPT ![r] = "running"]
        /\ UNCHANGED <<reply, promised, operated, overtaken>>
    BY DEF Feature
  <1>3. /\ calls' \in [RunId -> [Told -> Nat]]
        /\ \A q \in RunId \ {r}, other \in Told : calls'[q][other] = calls[q][other]
    <2>1. "started" \in Told /\ calls[r]["started"] + 1 \in Nat
      BY <1>1 DEF Told, TypeOK
    <2>2. calls' = [calls EXCEPT ![r]["started"] = calls[r]["started"] + 1]
      BY DEF Feature
    <2>3. QED
      BY <1>1, <2>1, <2>2, Counted
  <1>4. Free(r)
    <2>1. ledger[r] # "cancelled"
      BY <1>2, ControllerAssumption DEF RunState
    <2>2. QED
      BY <1>2, <2>1, Unpromised
  <1>5. RunsTyped'
    BY <1>1, <1>2, <1>3 DEF RunsTyped, TypeOK, RunState
  <1>6. AboutOne(r)
    BY <1>1, <1>2, <1>3, <1>4 DEF AboutOne, TypeOK, Free
  <1>7. QED
    BY <1>1, <1>5, <1>6, OneRun, RunsInv

\* resume_run has let the run pass.
LEMMA ResumeInv ==
  ASSUME Inv, NEW chat, NEW r \in RunId, Resume(chat, r)
  PROVE  Inv'
  <1>1. TypeOK /\ MonitorAlone /\ events' \in 0..MaxEvents
    BY HandledKeeps DEF Inv, Resume, Reaches
  <1>2. /\ ledger[r] # "cancelled" /\ composition.service = "orchestrator"
        /\ UNCHANGED <<ledger, reply, promised, operated, overtaken>>
    BY DEF Resume, MayResume
  <1>3. /\ calls' \in [RunId -> [Told -> Nat]]
        /\ \A q \in RunId \ {r}, other \in Told : calls'[q][other] = calls[q][other]
    <2>1. "resumed" \in Told /\ calls[r]["resumed"] + 1 \in Nat
      BY <1>1 DEF Told, TypeOK
    <2>2. calls' = [calls EXCEPT ![r]["resumed"] = calls[r]["resumed"] + 1]
      BY DEF Resume
    <2>3. QED
      BY <1>1, <2>1, <2>2, Counted
  <1>4. Free(r)
    BY <1>2, Unpromised
  <1>5. RunsTyped'
    BY <1>1, <1>2, <1>3 DEF RunsTyped, TypeOK
  <1>6. AboutOne(r)
    BY <1>1, <1>2, <1>3, <1>4 DEF AboutOne, TypeOK, Free
  <1>7. QED
    BY <1>1, <1>5, <1>6, OneRun, RunsInv

\* A resume at a service without an orchestrator, for which nothing is promised.
LEMMA ResumeElsewhereInv ==
  ASSUME Inv, NEW chat, NEW r \in RunId, ResumeElsewhere(chat, r)
  PROVE  Inv'
  <1>1. TypeOK /\ MonitorAlone /\ events' \in 0..MaxEvents
    BY HandledKeeps DEF Inv, ResumeElsewhere, Reaches
  <1>2. /\ composition.service # "orchestrator" /\ Say("resumed", r)
        /\ UNCHANGED <<calls, operated, overtaken>>
    BY DEF ResumeElsewhere
  <1>3. reply' \in Text \cup {None} /\ promised' = promised
    BY <1>1, <1>2, Says DEF Text
  <1>4. ledger' \in [RunId -> RunState \cup {None}]
    BY <1>1, MarkType, Fields DEF ResumeElsewhere, RunState
  <1>5. RunsTyped'
    BY <1>1, <1>2, <1>3, <1>4 DEF RunsTyped, TypeOK
  <1>6. CancelHolds'
    BY <1>1, <1>2 DEF CancelHolds, MonitorAlone
  <1>7. QED
    BY <1>1, <1>5, <1>6, RunsInv

\* A cancelled run is idle, or the call that drives it is remembered.
LEMMA CancelInv ==
  ASSUME Inv, NEW chat, NEW r \in RunId, Cancel(chat, r)
  PROVE  Inv'
  <1>1. TypeOK /\ MonitorAlone /\ events' \in 0..MaxEvents
    BY HandledKeeps DEF Inv, Cancel, Reaches
  <1>2. /\ Cancelled(r) /\ Say("cancelled", r) /\ UNCHANGED calls
        /\ operated' = operated \ {r}
        /\ overtaken' = IF Busy(r) THEN overtaken \cup {r} ELSE overtaken \ {r}
    BY DEF Cancel
  <1>3. /\ reply' \in Text \cup {None}
        /\ promised' \subseteq promised \cup {r} /\ promised \subseteq promised'
    BY <1>1, <1>2, Says DEF Text
  <1>4. /\ ledger' \in [RunId -> RunState \cup {None}]
        /\ \A q \in RunId \ {r} : ledger'[q] = ledger[q]
    BY <1>1, <1>2, MarkType, Fields DEF Cancelled, RunState
  <1>5. RunsTyped'
    BY <1>1, <1>2, <1>3, <1>4 DEF RunsTyped, TypeOK
  <1>6. composition.service = "orchestrator" => ledger'[r] = "cancelled"
    <2>1. SUFFICES ASSUME composition.service = "orchestrator" PROVE ledger'[r] = "cancelled"
      OBVIOUS
    <2>2. Mark(r, "cancelled") /\ r \in Held
      BY <1>2, <2>1 DEF Cancelled, MayCancel, Held
    <2>3. QED
      BY <1>1, <2>2, MarkType DEF RunState
  <1>7. (r \in promised' => r \in operated' \cup overtaken')
          \/ \A text \in Told : ~(calls'[r][text] > 0)
    BY <1>2 DEF Busy
  <1>8. promised' \subseteq RunId
    BY <1>1, <1>3 DEF TypeOK
  <1>9. \A q \in RunId \ {r} : /\ q \in promised' <=> q \in promised
                               /\ q \in operated' <=> q \in operated
                               /\ q \in overtaken' <=> q \in overtaken
    BY <1>2, <1>3
  <1>10. AboutOne(r)
    BY <1>1, <1>2, <1>4, <1>6, <1>7, <1>8, <1>9 DEF AboutOne
  <1>11. QED
    BY <1>1, <1>5, <1>10, OneRun, RunsInv

\* A command keeps the invariant.
LEMMA DispatchInv == Inv /\ Dispatch => Inv'
  <1> SUFFICES ASSUME Inv, Dispatch PROVE Inv'
    OBVIOUS
  <1>0. PICK chat \in Chat :
          \/ Refuse(chat) \/ Malformed(chat)
          \/ FeatureElsewhere(chat) \/ FeatureFails(chat) \/ FeatureUsage(chat)
          \/ Runs(chat) \/ Help(chat)
          \/ \E r \in RunId :
               \/ Feature(chat, r)
               \/ Resume(chat, r) \/ ResumeRefused(chat, r) \/ ResumeElsewhere(chat, r)
               \/ Cancel(chat, r) \/ CancelFails(chat, r)
               \/ Status(chat, r) \/ Pr(chat, r)
    BY DEF Dispatch
  <1>1. CASE \/ Refuse(chat) \/ Malformed(chat) \/ FeatureElsewhere(chat) \/ FeatureFails(chat)
             \/ FeatureUsage(chat) \/ Runs(chat) \/ Help(chat)
    <2>1. \E text \in Text \ {"cancelled"} : Say(text, None)
      BY <1>1 DEF Refuse, Malformed, FeatureElsewhere, FeatureFails, FeatureUsage, Runs, Help,
                  Text
    <2>2. RunsAlone /\ Handled
      BY <1>1 DEF Refuse, Malformed, FeatureElsewhere, FeatureFails, FeatureUsage, Runs, Help,
                  Reaches
    <2>3. QED
      BY <2>1, <2>2, Answers
  <1>2. ASSUME NEW r \in RunId,
               Status(chat, r) \/ Pr(chat, r) \/ CancelFails(chat, r) \/ ResumeRefused(chat, r)
        PROVE  Inv'
    <2>1. StatusText(r) \in Text \ {"cancelled"} /\ PrText(r) \in Text \ {"cancelled"}
      BY DEF StatusText, PrText, Text
    <2>2. \E text \in Text \ {"cancelled"} : Say(text, r)
      BY <1>2, <2>1 DEF Status, Pr, CancelFails, ResumeRefused, Text
    <2>3. RunsAlone /\ Handled
      BY <1>2 DEF Status, Pr, CancelFails, ResumeRefused, Reaches
    <2>4. QED
      BY <2>2, <2>3, Answers
  <1>3. QED
    BY <1>0, <1>1, <1>2, FeatureInv, ResumeInv, ResumeElsewhereInv, CancelInv

\* A call that drives a run does with it as it likes: nobody relies on the run.
LEMMA DriveInv == Inv /\ Drive => Inv'
  <1> SUFFICES ASSUME Inv, NEW r \in RunId, NEW text \in Told,
                      Advance(r, text) \/ Return(r, text) \/ Raise(r, text)
               PROVE  Inv'
    BY DEF Drive
  <1>1. TypeOK /\ MonitorAlone /\ events' \in 0..MaxEvents /\ calls[r][text] > 0
    BY DEF Inv, TypeOK, CiTypeOK, Advance, Return, Raise, Underway
  <1>2. UNCHANGED <<operated, overtaken>>
    BY DEF Advance, Return, Raise
  <1>3. reply' \in Text \cup {None} /\ promised' = promised
    <2>1. CASE Advance(r, text)
      BY <1>1, <2>1 DEF Advance, TypeOK
    <2>2. CASE Return(r, text) \/ Raise(r, text)
      <3>1. \E said \in Text : said # "cancelled" /\ Say(said, r)
        BY <2>2 DEF Return, Raise, Told, Text
      <3>2. QED
        BY <1>1, <3>1, Says
    <2>3. QED
      BY <2>1, <2>2
  <1>4. /\ calls' \in [RunId -> [Told -> Nat]]
        /\ \A q \in RunId \ {r}, other \in Told : calls'[q][other] = calls[q][other]
    <2>1. CASE Advance(r, text)
      BY <1>1, <2>1 DEF Advance, TypeOK
    <2>2. CASE Return(r, text) \/ Raise(r, text)
      <3>1. calls[r][text] - 1 \in Nat
        BY <1>1 DEF TypeOK
      <3>2. calls' = [calls EXCEPT ![r][text] = calls[r][text] - 1]
        BY <2>2 DEF Return, Raise, Left
      <3>3. QED
        BY <1>1, <3>1, <3>2, Counted
    <2>3. QED
      BY <2>1, <2>2
  <1>5. /\ ledger' \in [RunId -> RunState \cup {None}]
        /\ \A q \in RunId \ {r} : ledger'[q] = ledger[q]
    <2>1. CASE UNCHANGED ledger
      BY <1>1, <2>1 DEF TypeOK
    <2>2. CASE \E state \in RunState : ledger' = [ledger EXCEPT ![r] = state]
      BY <1>1, <2>2 DEF TypeOK
    <2>3. QED
      BY <2>1, <2>2 DEF Advance, Return, Raise, Driven, RunState
  <1>6. RunsTyped'
    BY <1>1, <1>2, <1>3, <1>4, <1>5 DEF RunsTyped, TypeOK
  <1>7. composition.service = "orchestrator" => Free(r)
    BY <1>1, Unpromised DEF Busy
  <1>8. AboutOne(r)
    BY <1>1, <1>2, <1>3, <1>4, <1>5, <1>7 DEF AboutOne, TypeOK, Free
  <1>9. QED
    BY <1>1, <1>6, <1>8, OneRun, RunsInv

\* An operator keeps the invariant.
LEMMA OperateInv == ASSUME NEW r \in RunId, Inv, Operate(r) PROVE Inv'
  <1>1. TypeOK /\ MonitorAlone /\ events' \in 0..MaxEvents
    BY HandledKeeps DEF Inv, Operate
  <1>2. operated' = operated \cup {r} /\ UNCHANGED <<calls, reply, promised, overtaken>>
    BY DEF Operate
  <1>3. /\ ledger' \in [RunId -> RunState \cup {None}]
        /\ \A q \in RunId \ {r} : ledger'[q] = ledger[q]
    BY <1>1, MarkType DEF Operate, RunState
  <1>4. RunsTyped'
    BY <1>1, <1>2, <1>3 DEF RunsTyped, TypeOK
  <1>5. AboutOne(r)
    BY <1>1, <1>2, <1>3 DEF AboutOne, TypeOK
  <1>6. QED
    BY <1>1, <1>4, <1>5, OneRun, RunsInv

-----------------------------------------------------------------------------
\* Every step keeps the invariant.
LEMMA StepInv == Inv /\ [Next]_vars => Inv'
  <1> SUFFICES ASSUME Inv, [Next]_vars PROVE Inv'
    OBVIOUS
  <1>1. CASE CiNext /\ UNCHANGED chatVars
    BY <1>1, PullRequestInv, MonitorInv DEF CiNext
  <1>2. CASE Dispatch
    BY <1>2, DispatchInv
  <1>3. CASE Drive
    BY <1>3, DriveInv
  <1>4. ASSUME NEW r \in RunId, Operate(r) PROVE Inv'
    BY <1>4, OperateInv
  <1>5. CASE UNCHANGED vars
    <2>1. /\ MonitorAlone /\ events' \in 0..MaxEvents
          /\ UNCHANGED <<ledger, calls, reply, promised, operated, overtaken>>
      BY <1>5 DEF vars, ciVars, prVars, chatVars, MonitorAlone, Inv, TypeOK, CiTypeOK
    <2>2. RunsTyped'
      BY <2>1 DEF RunsTyped, Inv, TypeOK
    <2>3. CancelHolds'
      BY <2>1 DEF Inv, CancelHolds, Busy, MonitorAlone
    <2>4. QED
      BY <2>1, <2>2, <2>3, RunsInv
  <1>6. QED
    BY <1>1, <1>2, <1>3, <1>4, <1>5 DEF Next

\* The invariant holds always.
LEMMA Invariant == Spec => []Inv
  BY InitInv, StepInv, PTL DEF Spec

\* The variables of the monitor and of the controller keep their types.
THEOREM TypeCorrect == Spec => []TypeOK
  <1>1. Inv => TypeOK
    BY DEF Inv
  <1>2. QED
    BY <1>1, Invariant, PTL

\* A polling run never reads more often than it may and outlasts its time by less than
\* an interval and the requests of one attempt, for every policy.
THEOREM PollBoundedCorrect == Spec => []PollBounded
  <1>1. Inv => PollBounded
    <2> SUFFICES ASSUME Inv PROVE PollBounded
      OBVIOUS
    <2>1. /\ poll.elapsed \in Nat /\ poll.pc \in {"idle", "fetch", "runs", "judge"}
          /\ MaxTotal \in Nat /\ Interval \in Nat /\ FetchTime \in Nat
      BY Fields, MonitorAssumption DEF Inv
    <2>2. QED
      BY <2>1 DEF Inv, Progressing, PollBounded
  <1>2. QED
    BY <1>1, Invariant, PTL

\* A pull request is marked ready only if, when a view was read, the check that decides
\* each required name, the first of that name on the list, had ended and not failed,
\* whoever pushed or reran checks in the meantime. Of later checks of the name nothing
\* is claimed.
THEOREM ReadyBackedCorrect == Spec => []ReadyBacked
  <1>1. Inv => ReadyBacked
    BY DEF Inv
  <1>2. QED
    BY <1>1, Invariant, PTL

\* For the views of GitHubChecksClient and any board, what blocks and what is remedied
\* agree (ReadyEvaluator.evaluate and StubCiRemediationLoop.build_packets) on the checks
\* that decide their names, where the first check of a name says what the view requires.
THEOREM ReportedCorrect == Spec => []Reported
  <1>1. ASSUME NEW head \in DOMAIN heads, NEW i \in DOMAIN Fetched(head).checks,
               IsFirst(Fetched(head), i),
               Fetched(head).checks[i].name \in Fetched(head).required =>
                 Fetched(head).checks[i].required
        PROVE  i \in Packets(Fetched(head)) <=>
                 /\ Fetched(head).checks[i].name \in BlockedBy(Fetched(head))
                 /\ IsTerminal(Fetched(head).checks[i])
    <2> DEFINE view == Fetched(head)
               name == view.checks[i].name
    <2>1. /\ DOMAIN view.checks = DOMAIN Board /\ DOMAIN Board = 1..Len(Board)
          /\ Len(Board) \in Nat
          /\ \A j \in DOMAIN Board : /\ view.checks[j].name = Board[j].name
                                     /\ view.checks[j].required = Board[j].required
      BY MonitorAssumption DEF Fetched, Listed
    <2>2. view.required = {Board[j].name : j \in {k \in DOMAIN Board : Board[k].required}}
      BY DEF Fetched
    <2>3. view.checks[i].required <=> name \in view.required
      BY <1>1, <2>1, <2>2
    <2> HIDE DEF view
    <2>4. \A j \in DOMAIN view.checks :
            view.checks[j].name = name /\ IsFirst(view, j) => j = i
      <3>1. \A j \in DOMAIN view.checks :
              j < i => view.checks[j].name # name
        BY <1>1, <2>1 DEF IsFirst, view
      <3>2. \A j \in DOMAIN view.checks :
              view.checks[j].name = name /\ IsFirst(view, j) => ~(i < j)
        BY <1>1, <2>1 DEF IsFirst, view
      <3>3. QED
        BY <1>1, <2>1, <3>1, <3>2 DEF view
    <2>5. name \in BlockedBy(view) <=>
            name \in view.required /\ (IsTerminal(view.checks[i]) => IsFailed(view.checks[i]))
      <3>1. i \in DOMAIN view.checks /\ IsFirst(view, i)
        BY <1>1 DEF view
      <3>2. QED
        BY <2>4, <3>1 DEF BlockedBy
    <2>6. IsFailed(view.checks[i]) => IsTerminal(view.checks[i])
      BY DEF IsFailed
    <2>7. i \in Packets(view) <=> view.checks[i].required /\ IsFailed(view.checks[i])
      BY <1>1 DEF Packets, view
    <2>8. QED
      BY <2>3, <2>5, <2>6, <2>7 DEF view
  <1>2. Reported
    BY <1>1 DEF Reported
  <1>3. QED
    BY <1>2, PTL

\* A run that the orchestrator's service cancelled for a chat while no call drove it stays
\* cancelled, and undriven, through every command and every call, until an operator marks
\* it (resume_run and cancel_run).
THEOREM CancelHoldsCorrect == Spec => []CancelHolds
  <1>1. Inv => CancelHolds
    BY DEF Inv
  <1>2. QED
    BY <1>1, Invariant, PTL
=============================================================================
