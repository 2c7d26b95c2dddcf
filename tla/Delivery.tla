------------------------------ MODULE Delivery ------------------------------
(***************************************************************************)
(* Delivery of runs into one repository (orchestrator/delivery.py and the  *)
(* delivery package): look up the idempotency record, create a branch,     *)
(* stage, commit, open a pull request, store the record. The draft_pr      *)
(* phase calls deliver once per attempt, and a resume makes a new attempt. *)
(* With the deterministic service nothing happens to the repository.       *)
(*                                                                         *)
(* A branch is named after its run and a commit is identified by the run   *)
(* that made it. All runs work in one working tree. A run may stage the    *)
(* file whose name _phase_draft_pr makes of its description, which is not  *)
(* its own when descriptions begin alike, and one test file, the same for  *)
(* all runs. Of a file the model has the runs that wrote to it, not what   *)
(* later ones leave of earlier ones. git and the pull request service are  *)
(* external: the model has the effects the code uses. The lease keeps two  *)
(* attempts of one run apart; attempts of different runs may overlap.      *)
(***************************************************************************)
EXTENDS Naturals, Sequences

CONSTANTS
  Run,
  File,      \* the files that runs write to
  Tests,     \* tests/unit/orchestrator/test_services.py
  Main,      \* the branch that is checked out at first
  Garbage,   \* a record file that does not decode
  None,
  MaxPrs     \* bound of the model: with so many pull requests a run fails no more

Change == File \X Run    \* <<f, r>>: run r has written to file f

Record == [sha : Run, url : Nat \ {0}]

ASSUME DeliveryAssumption ==
  /\ Main \notin Run /\ Tests \in File
  /\ {None, Garbage} \cap (Run \cup Nat \cup Seq(Run) \cup Record) = {}
  /\ None # Garbage
  /\ MaxPrs \in Nat \ {0}

VARIABLES
  real,      \* SubprocessDeliveryService or DeterministicDeliveryService?
  branch,    \* git: the commits every branch reaches, oldest first, or None
  head,      \* git: the branch that is checked out
  named,     \* the file each run's description names
  wrote,     \* the changes made to the files of the working tree
  dirty,     \* those of them that are not in the index, nor committed
  staged,    \* git: those that are in the index
  content,   \* git: the changes each commit holds
  prs,       \* how many pull requests were opened for each run's branch
  record,    \* IdempotencyStore: per run, None, Garbage or the record
  pc,        \* where the latest attempt of every run is
  sha, url,  \* commit_sha and pr_url of that attempt
  broken,    \* history: the runs of which an attempt failed or died
  mixed      \* history: attempts of two runs have overlapped

git == <<branch, head, wrote, dirty, staged, content>>
given == <<real, named>>
history == <<broken, mixed>>
vars == <<given, git, prs, record, pc, sha, url, history>>

Init ==
  /\ real \in BOOLEAN
  /\ named \in [Run -> File \ {Tests}]
  /\ branch = [b \in Run \cup {Main} |-> IF b = Main THEN <<>> ELSE None]
  /\ head = Main
  /\ wrote = {}
  /\ dirty = {}
  /\ staged = {}
  /\ content = [r \in Run |-> {}]
  /\ prs = [r \in Run |-> 0]
  /\ record = [r \in Run |-> None]
  /\ pc = [r \in Run |-> "idle"]
  /\ sha = [r \in Run |-> None]
  /\ url = [r \in Run |-> None]
  /\ broken = {}
  /\ mixed = FALSE

-----------------------------------------------------------------------------
Active(r) == pc[r] \notin {"idle", "done", "failed"}

\* authorized_files.
Authorized(r) == {named[r], Tests}

\* The changes that `git add` takes from files F into the index.
Added(F) == {change \in dirty : change[1] \in F}

\* The phases before draft_pr write to files, authorized or not; in the model
\* once to each.
Edit(r, f) ==
  /\ real /\ pc[r] = "idle" /\ <<f, r>> \notin wrote
  /\ wrote' = wrote \cup {<<f, r>>}
  /\ dirty' = dirty \cup {<<f, r>>}
  /\ UNCHANGED <<given, branch, head, staged, content, prs, record, pc, sha, url, history>>

Step(r, l, m) == pc[r] = l /\ pc' = [pc EXCEPT ![r] = m]

\* Mutant of Begin: the record is not looked up.
BeginAlways(r) ==
  /\ ~Active(r)
  /\ pc' = [pc EXCEPT ![r] = IF real THEN "branch" ELSE "open"]
  /\ sha' = [sha EXCEPT ![r] = IF real THEN None ELSE r]
  /\ url' = [url EXCEPT ![r] = None]
  /\ mixed' = (mixed \/ \E q \in Run : Active(q))
  /\ UNCHANGED <<given, git, prs, record, broken>>

\* deliver finds no record and starts to work. The deterministic service
\* makes up a SHA and goes on to the pull request.
Begin(r) ==
  /\ ~Active(r) /\ record[r] = None
  /\ pc' = [pc EXCEPT ![r] = IF real THEN "branch" ELSE "open"]
  /\ sha' = [sha EXCEPT ![r] = IF real THEN None ELSE r]
  /\ url' = [url EXCEPT ![r] = None]
  /\ mixed' = (mixed \/ \E q \in Run : Active(q))
  /\ UNCHANGED <<given, git, prs, record, broken>>

\* deliver returns the cached record, also when it was the latest attempt
\* that stored it and only the driver died behind it.
Replay(r) ==
  /\ ~Active(r) /\ record[r] \notin {None, Garbage}
  /\ pc' = [pc EXCEPT ![r] = "done"]
  /\ sha' = [sha EXCEPT ![r] = record[r].sha]
  /\ url' = [url EXCEPT ![r] = record[r].url]
  /\ UNCHANGED <<given, git, prs, record, history>>

\* The record file does not decode: get raises.
Unreadable(r) ==
  /\ ~Active(r) /\ record[r] = Garbage
  /\ pc' = [pc EXCEPT ![r] = "failed"]
  /\ broken' = broken \cup {r}
  /\ UNCHANGED <<given, git, prs, record, sha, url, mixed>>

\* Mutants of CreateBranch: an existing branch is reset; a branch can only be
\* created while Main is checked out.
CreateBranchAnew(r) ==
  /\ Step(r, "branch", "stage")
  /\ branch' = [branch EXCEPT ![r] = branch[head]]
  /\ head' = r
  /\ UNCHANGED <<given, wrote, dirty, staged, content, prs, record, sha, url, history>>

CreateBranchFromMain(r) == head = Main /\ CreateBranchAnew(r)

\* `git checkout -b` from wherever HEAD is; the index stays.
CreateBranch(r) ==
  /\ Step(r, "branch", "stage")
  /\ branch[r] = None
  /\ branch' = [branch EXCEPT ![r] = branch[head]]
  /\ head' = r
  /\ UNCHANGED <<given, wrote, dirty, staged, content, prs, record, sha, url, history>>

\* Mutant of Stage: every changed file is staged.
StageAll(r) ==
  /\ Step(r, "stage", "commit")
  /\ staged' = staged \cup dirty
  /\ dirty' = {}
  /\ UNCHANGED <<given, branch, head, wrote, content, prs, record, sha, url, history>>

\* `git add` of the authorized files, whoever wrote to them.
Stage(r) ==
  /\ Step(r, "stage", "commit")
  /\ staged' = staged \cup Added(Authorized(r))
  /\ dirty' = dirty \ Added(Authorized(r))
  /\ UNCHANGED <<given, branch, head, wrote, content, prs, record, sha, url, history>>

\* `git commit` of everything in the index, on the branch checked out.
Commit(r) ==
  /\ Step(r, "commit", "head")
  /\ staged # {}
  /\ branch' = [branch EXCEPT ![head] = Append(@, r)]
  /\ content' = [content EXCEPT ![r] = staged]
  /\ staged' = {}
  /\ UNCHANGED <<given, head, wrote, dirty, prs, record, sha, url, history>>

\* `git rev-parse HEAD`.
CurrentSha(r) ==
  /\ Step(r, "head", "open")
  /\ sha' = [sha EXCEPT ![r] = branch[head][Len(branch[head])]]
  /\ UNCHANGED <<given, git, prs, record, url, history>>

\* Mutant of OpenPr: that the service failed is not noticed.
OpenPrUnnoticed(r) ==
  /\ Step(r, "open", "put")
  /\ \/ prs' = [prs EXCEPT ![r] = @ + 1]
     \/ UNCHANGED prs
  /\ url' = [url EXCEPT ![r] = prs[r] + 1]
  /\ UNCHANGED <<given, git, record, sha, history>>

OpenPr(r) ==
  /\ Step(r, "open", "put")
  /\ prs' = [prs EXCEPT ![r] = @ + 1]
  /\ url' = [url EXCEPT ![r] = prs[r] + 1]
  /\ UNCHANGED <<given, git, record, sha, history>>

Put(r) ==
  /\ Step(r, "put", "done")
  /\ record' = [record EXCEPT ![r] = [sha |-> sha[r], url |-> url[r]]]
  /\ UNCHANGED <<given, git, prs, sha, url, history>>

\* The current call of the attempt raises, or the process dies inside it.
\* Some files may be staged, the pull request may be open without a reply,
\* the record file may be cut short. A branch that exists already, a file that
\* does not exist and an empty commit are always refused.
Fails(r) ==
  /\ Active(r) /\ prs[r] < MaxPrs
  /\ pc' = [pc EXCEPT ![r] = "failed"]
  /\ broken' = broken \cup {r}
  /\ \E F \in SUBSET Authorized(r) :
       /\ pc[r] # "stage" => F = {}
       /\ staged' = staged \cup Added(F)
       /\ dirty' = dirty \ Added(F)
  /\ prs' \in {prs, IF pc[r] = "open" THEN [prs EXCEPT ![r] = @ + 1] ELSE prs}
  /\ record' \in {record, IF pc[r] = "put" THEN [record EXCEPT ![r] = Garbage] ELSE record}
  /\ UNCHANGED <<given, branch, head, wrote, content, sha, url, mixed>>

Work(r) ==
  \/ Begin(r) \/ CreateBranch(r) \/ Stage(r) \/ Commit(r)
  \/ CurrentSha(r) \/ OpenPr(r) \/ Put(r)

Next ==
  \E r \in Run :
    Work(r) \/ Replay(r) \/ Unreadable(r) \/ Fails(r) \/ \E f \in File : Edit(r, f)

Spec == Init /\ [][Next]_vars

\* The driver reaches the draft_pr phase of every run and goes on with it.
Fairness == \A r \in Run : WF_vars(Work(r))

FairSpec == Spec /\ Fairness

-----------------------------------------------------------------------------
TypeOK ==
  /\ real \in BOOLEAN
  /\ branch \in [Run \cup {Main} -> Seq(Run) \cup {None}]
  /\ head \in Run \cup {Main}
  /\ named \in [Run -> File]
  /\ wrote \subseteq Change /\ dirty \subseteq Change /\ staged \subseteq Change
  /\ content \in [Run -> SUBSET Change]
  /\ prs \in [Run -> Nat]
  /\ record \in [Run -> Record \cup {None, Garbage}]
  /\ pc \in [Run -> {"idle", "branch", "stage", "commit", "head", "open", "put", "done", "failed"}]
  /\ sha \in [Run -> Run \cup {None}]
  /\ url \in [Run -> (Nat \ {0}) \cup {None}]
  /\ broken \subseteq Run
  /\ mixed \in BOOLEAN

\* The changes that the commits of a branch hold.
Reached(b) == UNION {content[b[i]] : i \in 1..Len(b)}

\* A stored record is true, whatever failed before it was stored: its pull
\* request was opened, and, unless deliveries into the repository overlapped,
\* its commit is the run's own and the tip of the run's branch, where all that
\* the run wrote to its authorized files is committed.
RecordTrue ==
  \A r \in Run : record[r] \notin {None, Garbage} =>
    /\ record[r].url <= prs[r]
    /\ real /\ ~mixed =>
         /\ record[r].sha = r /\ content[r] # {}
         /\ branch[r] # None /\ branch[r] # <<>> /\ branch[r][Len(branch[r])] = r
         /\ \A f \in Authorized(r) : <<f, r>> \in wrote => <<f, r>> \in Reached(branch[r])

\* A run gets one pull request, however often it is resumed ("duplicate work
\* is impossible by construction"); the deterministic service can promise that
\* only if no attempt died between the pull request and the record.
OnePr ==
  \A r \in Run : real \/ r \notin broken => prs[r] <= 1

\* A commit holds changes of files that its run may stage, and of files that a
\* run may stage of which an attempt has failed and left them in the index
\* ("Stages + commits only authorized files"). Who made the changes the code does
\* not ask: two runs that may stage a file deliver each other's.
OwnFiles ==
  ~mixed => \A r \in Run : \A change \in content[r] :
              \E q \in {r} \cup broken : change[1] \in Authorized(q)

\* A delivery that is not disturbed ends with a record, whatever state failed
\* deliveries of other runs have left the repository in, if there is something to
\* commit.
Delivered ==
  \A r \in Run :
    <>(pc[r] = "done" \/ r \in broken \/ mixed \/ (pc[r] = "commit" /\ staged = {}))

=============================================================================
