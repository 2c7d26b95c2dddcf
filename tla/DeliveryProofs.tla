--------------------------- MODULE DeliveryProofs ---------------------------
(***************************************************************************)
(* Delivery, for any set of runs: typing, true records, one pull request   *)
(* per run, and commits that hold only files their run may stage. MaxPrs   *)
(* is only a guard on failures, so the results hold for any bound.         *)
(***************************************************************************)
EXTENDS Delivery, TLAPS

-----------------------------------------------------------------------------
(* Types. Some branch is always checked out, and it has a commit while an  *)
(* attempt is about to ask for the SHA of HEAD.                            *)

AtGit == {"branch", "stage", "commit", "head"}

Shape ==
  /\ branch[head] # None
  /\ \A r \in Run :
       /\ pc[r] \in AtGit => real
       /\ pc[r] = "head" => branch[head] # <<>>
       /\ pc[r] \in {"open", "put"} => sha[r] \in Run
       /\ pc[r] = "put" => url[r] \in Nat \ {0}

\* A branch that exists is a sequence of commits.
LEMMA BranchType ==
  ASSUME TypeOK, NEW b \in Run \cup {Main}, branch[b] # None
  PROVE  branch[b] \in Seq(Run)
  BY DEF TypeOK

\* A commit makes the branch it lands on not empty, with itself at the tip.
LEMMA AppendTip ==
  ASSUME NEW s \in Seq(Run), NEW r \in Run
  PROVE  /\ Append(s, r) \in Seq(Run) /\ Append(s, r) # <<>>
         /\ Append(s, r)[Len(Append(s, r))] = r
  OBVIOUS

\* None is neither a sequence of commits nor a number nor a record.
LEMMA NoneApart ==
  /\ None \notin Run /\ None \notin Nat /\ None \notin Seq(Run) /\ None \notin Record
  /\ Garbage \notin Record /\ None # Garbage /\ Main \notin Run
  BY DeliveryAssumption

\* Every step keeps types and shape.
LEMMA TypeInductive == TypeOK /\ Shape /\ [Next]_vars => TypeOK' /\ Shape'
  <1> SUFFICES ASSUME TypeOK, Shape, [Next]_vars PROVE TypeOK' /\ Shape'
    OBVIOUS
  <1> USE NoneApart DEF AtGit
  <1>1. ASSUME NEW r \in Run, Begin(r) PROVE TypeOK' /\ Shape'
    BY <1>1 DEF Begin, TypeOK, Shape, git, given
  <1>2. ASSUME NEW r \in Run, CreateBranch(r) PROVE TypeOK' /\ Shape'
    <2>1. /\ branch' = [branch EXCEPT ![r] = branch[head]] /\ head' = r
          /\ branch[head] \in Seq(Run)
      BY <1>2, BranchType DEF CreateBranch, TypeOK, Shape, given
    <2>2. /\ branch' \in [Run \cup {Main} -> Seq(Run) \cup {None}]
          /\ branch'[head'] = branch[head]
      BY <2>1 DEF TypeOK
    <2>3. TypeOK'
      BY <1>2, <2>1, <2>2 DEF CreateBranch, Step, TypeOK, history, given
    <2>4. branch'[head'] # None
      BY <2>1, <2>2
    <2>5. /\ pc[r] = "branch" /\ pc' = [pc EXCEPT ![r] = "stage"]
          /\ UNCHANGED <<real, sha, url>>
      BY <1>2 DEF CreateBranch, Step, given
    <2>6. QED
      BY <2>2, <2>3, <2>4, <2>5 DEF TypeOK, Shape
  <1>3. ASSUME NEW r \in Run, Stage(r) PROVE TypeOK' /\ Shape'
    BY <1>3 DEF Stage, Added, Step, TypeOK, Shape, history, given
  <1>4. ASSUME NEW r \in Run, Commit(r) PROVE TypeOK' /\ Shape'
    <2>1. /\ branch' = [branch EXCEPT ![head] = Append(@, r)] /\ head' = head
          /\ branch[head] \in Seq(Run)
      BY <1>4, BranchType DEF Commit, TypeOK, Shape, given
    <2>2. /\ branch' \in [Run \cup {Main} -> Seq(Run) \cup {None}]
          /\ branch'[head] \in Seq(Run) /\ branch'[head] # <<>>
      BY <2>1, AppendTip DEF TypeOK
    <2>3. content' \in [Run -> SUBSET Change] /\ staged' = {} /\ UNCHANGED <<wrote, dirty, named>>
      BY <1>4 DEF Commit, TypeOK, given
    <2>4. pc[r] = "commit" /\ pc' = [pc EXCEPT ![r] = "head"]
      BY <1>4 DEF Commit, Step, given
    <2>5. UNCHANGED <<real, head, prs, record, sha, url, broken, mixed>>
      BY <1>4 DEF Commit, history, given
    <2>6. TypeOK'
      BY <2>2, <2>3, <2>4, <2>5 DEF TypeOK
    <2>7. branch'[head'] # None /\ branch'[head'] # <<>>
      BY <2>1, <2>2
    <2>8. QED
      BY <2>4, <2>5, <2>6, <2>7 DEF TypeOK, Shape
  <1>5. ASSUME NEW r \in Run, CurrentSha(r) PROVE TypeOK' /\ Shape'
    <2>1. branch[head] \in Seq(Run) /\ branch[head] # <<>>
      BY <1>5, BranchType DEF CurrentSha, Step, TypeOK, Shape, given
    <2>2. branch[head][Len(branch[head])] \in Run
      BY <2>1
    <2>3. QED
      BY <1>5, <2>2 DEF CurrentSha, Step, TypeOK, Shape, git, history, given
  <1>6. ASSUME NEW r \in Run, OpenPr(r) PROVE TypeOK' /\ Shape'
    <2>1. prs[r] + 1 \in Nat \ {0}
      BY DEF TypeOK
    <2>2. QED
      BY <1>6, <2>1 DEF OpenPr, Step, TypeOK, Shape, git, history, given
  <1>7. ASSUME NEW r \in Run, Put(r) PROVE TypeOK' /\ Shape'
    <2>1. [sha |-> sha[r], url |-> url[r]] \in Record
      BY <1>7 DEF Put, Step, Shape, Record, given
    <2>2. QED
      BY <1>7, <2>1 DEF Put, Step, TypeOK, Shape, git, history, given
  <1>8. ASSUME NEW r \in Run, Replay(r) PROVE TypeOK' /\ Shape'
    <2>1. record[r].sha \in Run /\ record[r].url \in Nat \ {0}
      BY <1>8 DEF Replay, TypeOK, Record, given
    <2>2. QED
      BY <1>8, <2>1 DEF Replay, TypeOK, Shape, git, history, given
  <1>9. ASSUME NEW r \in Run, Unreadable(r) PROVE TypeOK' /\ Shape'
    BY <1>9 DEF Unreadable, TypeOK, Shape, git, given
  <1>10. ASSUME NEW r \in Run, Fails(r) PROVE TypeOK' /\ Shape'
    <2>1. prs[r] + 1 \in Nat
      BY DEF TypeOK
    <2>2. prs' \in [Run -> Nat] /\ staged' \subseteq Change /\ dirty' \subseteq Change
      BY <1>10, <2>1 DEF Fails, TypeOK, Added, given
    <2>3. record' \in [Run -> Record \cup {None, Garbage}]
      BY <1>10 DEF Fails, TypeOK, given
    <2>4. QED
      BY <1>10, <2>2, <2>3 DEF Fails, TypeOK, Shape, given
  <1>11. CASE UNCHANGED vars
    BY <1>11 DEF vars, git, history, TypeOK, Shape, given
  <1>12. ASSUME NEW r \in Run, NEW f \in File, Edit(r, f) PROVE TypeOK' /\ Shape'
    BY <1>12 DEF Edit, TypeOK, Shape, Change, given, history
  <1>13. QED
    BY <1>1, <1>2, <1>3, <1>4, <1>5, <1>6, <1>7, <1>8, <1>9, <1>10, <1>11, <1>12 DEF Next, Work

\* Types and shape hold at the start.
LEMMA TypeInit == Init => TypeOK /\ Shape
  <1>1. <<>> \in Seq(Run)
    OBVIOUS
  <1>2. <<>> # None
    BY <1>1, NoneApart
  <1> SUFFICES ASSUME Init PROVE TypeOK /\ Shape
    OBVIOUS
  <1>3. branch \in [Run \cup {Main} -> Seq(Run) \cup {None}] /\ branch[Main] = <<>>
    BY <1>1 DEF Init
  <1>4. TypeOK
    BY <1>3 DEF Init, TypeOK
  <1>5. Shape
    BY <1>2, <1>3 DEF Init, Shape, AtGit
  <1>6. QED
    BY <1>4, <1>5

\* The state is always well typed.
THEOREM TypeCorrect == Spec => []TypeOK
  BY TypeInit, TypeInductive, PTL DEF Spec

-----------------------------------------------------------------------------
(* One pull request per run. A URL that is about to be stored, or stored,  *)
(* was given out. With real git the branch is the fuse: it is created once *)
(* per run, and no pull request is opened before. With the deterministic   *)
(* service it is the record, which every undisturbed attempt leaves.       *)

Stored(r) == record[r] \notin {None, Garbage}

Sent ==
  \A r \in Run :
    /\ pc[r] = "put" => url[r] <= prs[r]
    /\ Stored(r) => record[r].url <= prs[r]

Fused ==
  real => \A r \in Run :
    /\ prs[r] <= 1
    /\ branch[r] = None => prs[r] = 0
    /\ pc[r] \in {"stage", "commit", "head", "open"} => prs[r] = 0 /\ branch[r] # None

Recorded ==
  ~real => \A r \in Run \ broken :
    /\ prs[r] <= 1
    /\ pc[r] # "failed"
    /\ pc[r] \in {"idle", "open"} => prs[r] = 0
    /\ pc[r] = "done" => record[r] # None

\* Of its own attempt every action changes only what it names.
LEMMA SentInductive == TypeOK /\ Shape /\ Sent /\ [Next]_vars => Sent'
  <1> SUFFICES ASSUME TypeOK, Shape, Sent, [Next]_vars PROVE Sent'
    OBVIOUS
  <1> USE NoneApart DEF Stored, Sent
  <1>1. ASSUME NEW r \in Run, Begin(r) \/ Unreadable(r) PROVE Sent'
    BY <1>1 DEF Begin, Unreadable, TypeOK
  <1>2. ASSUME NEW r \in Run, CreateBranch(r) \/ Stage(r) \/ Commit(r) \/ CurrentSha(r)
        PROVE Sent'
    BY <1>2 DEF CreateBranch, Stage, Commit, CurrentSha, Step, TypeOK
  <1>3. ASSUME NEW r \in Run, OpenPr(r) PROVE Sent'
    <2>1. \A q \in Run : prs[q] \in Nat /\ prs[q] <= prs'[q]
      BY <1>3 DEF OpenPr, TypeOK
    <2>2. \A q \in Run : Stored(q) => record[q].url \in Nat
      BY DEF TypeOK, Record
    <2>3. url'[r] = prs'[r] /\ UNCHANGED record /\ prs' \in [Run -> Nat]
      BY <1>3 DEF OpenPr, TypeOK
    <2>4. \A q \in Run \ {r} : pc'[q] = pc[q] /\ url'[q] = url[q] /\ prs'[q] = prs[q]
      BY <1>3 DEF OpenPr, Step, TypeOK
    <2>5. QED
      BY <2>1, <2>2, <2>3, <2>4
  <1>4. ASSUME NEW r \in Run, Put(r) PROVE Sent'
    <2>1. url[r] <= prs[r]
      BY <1>4 DEF Put, Step
    <2>2. record'[r].url = url[r] /\ UNCHANGED <<prs, url>>
      BY <1>4 DEF Put, TypeOK
    <2>3. \A q \in Run \ {r} : pc'[q] = pc[q] /\ record'[q] = record[q]
      BY <1>4 DEF Put, Step, TypeOK
    <2>4. pc'[r] # "put"
      BY <1>4 DEF Put, Step, TypeOK
    <2>5. QED
      BY <2>1, <2>2, <2>3, <2>4
  <1>5. ASSUME NEW r \in Run, Replay(r) PROVE Sent'
    BY <1>5 DEF Replay, TypeOK
  <1>6. ASSUME NEW r \in Run, Fails(r) PROVE Sent'
    <2>1. \A q \in Run : prs[q] \in Nat /\ prs'[q] \in Nat /\ prs[q] <= prs'[q]
      <3>1. /\ prs' \in {prs, IF pc[r] = "open" THEN [prs EXCEPT ![r] = @ + 1] ELSE prs}
            /\ prs \in [Run -> Nat]
        BY <1>6 DEF Fails, TypeOK
      <3>2. QED
        BY <3>1
    <2>2. \A q \in Run : record'[q] \in {record[q], Garbage}
      BY <1>6 DEF Fails, TypeOK
    <2>3. \A q \in Run : Stored(q) => record[q].url \in Nat
      BY DEF TypeOK, Record
    <2>4. pc'[r] = "failed" /\ UNCHANGED url
      BY <1>6 DEF Fails, TypeOK
    <2>5. \A q \in Run \ {r} : pc'[q] = pc[q] /\ prs'[q] = prs[q]
      BY <1>6 DEF Fails, TypeOK
    <2>6. ASSUME NEW q \in Run, pc'[q] = "put" PROVE url'[q] <= prs'[q]
      BY <2>4, <2>5, <2>6
    <2>7. ASSUME NEW q \in Run, record'[q] \notin {None, Garbage}
          PROVE  record'[q].url <= prs'[q]
      BY <2>1, <2>2, <2>3, <2>7
    <2>8. QED
      BY <2>6, <2>7
  <1>7. CASE UNCHANGED vars
    BY <1>7 DEF vars
  <1>8. ASSUME NEW r \in Run, NEW f \in File, Edit(r, f) PROVE Sent'
    BY <1>8 DEF Edit
  <1>9. QED
    BY <1>1, <1>2, <1>3, <1>4, <1>5, <1>6, <1>7, <1>8 DEF Next, Work

\* Every step keeps Fused.
LEMMA FusedInductive == TypeOK /\ Shape /\ Fused /\ [Next]_vars => Fused'
  <1> SUFFICES ASSUME TypeOK, Shape, Fused, [Next]_vars, real PROVE Fused'
    <2>1. [Next]_vars => real' = real
      BY DEF Next, Work, Begin, CreateBranch, Stage, Commit, CurrentSha, OpenPr, Put, Replay,
             Unreadable, Fails, Edit, vars, given
    <2>2. QED
      BY <2>1 DEF Fused
  <1> USE NoneApart DEF Fused
  <1>1. ASSUME NEW r \in Run, Begin(r) \/ Unreadable(r) \/ Replay(r) PROVE Fused'
    BY <1>1 DEF Begin, Unreadable, Replay, TypeOK, git, given
  <1>2. ASSUME NEW r \in Run, CreateBranch(r) PROVE Fused'
    <2>1. branch[r] = None /\ branch[head] # None
      BY <1>2 DEF CreateBranch, Shape, given
    <2>2. branch'[r] # None /\ \A q \in Run \ {r} : branch'[q] = branch[q]
      BY <1>2, <2>1 DEF CreateBranch, TypeOK, given
    <2>3. pc'[r] = "stage" /\ (\A q \in Run \ {r} : pc'[q] = pc[q]) /\ UNCHANGED prs
      BY <1>2 DEF CreateBranch, Step, TypeOK, given
    <2>4. QED
      BY <2>1, <2>2, <2>3
  <1>3. ASSUME NEW r \in Run, Commit(r) PROVE Fused'
    <2>1. branch[head] \in Seq(Run)
      BY BranchType DEF Shape, TypeOK
    <2>2. Append(branch[head], r) # None
      BY <2>1, AppendTip
    <2>3. \A q \in Run : branch'[q] = None <=> branch[q] = None
      BY <1>3, <2>2 DEF Commit, Shape, TypeOK, given
    <2>4. pc[r] = "commit" /\ pc'[r] = "head" /\ UNCHANGED prs
      BY <1>3 DEF Commit, Step, TypeOK, given
    <2>5. \A q \in Run \ {r} : pc'[q] = pc[q]
      BY <1>3 DEF Commit, Step, TypeOK, given
    <2>6. QED
      BY <2>3, <2>4, <2>5
  <1>4. ASSUME NEW r \in Run, Stage(r) \/ CurrentSha(r) \/ Put(r) PROVE Fused'
    BY <1>4 DEF Stage, CurrentSha, Put, Step, TypeOK, git, given
  <1>5. ASSUME NEW r \in Run, OpenPr(r) PROVE Fused'
    BY <1>5 DEF OpenPr, Step, TypeOK, git, given
  <1>6. ASSUME NEW r \in Run, Fails(r) PROVE Fused'
    BY <1>6 DEF Fails, TypeOK, given
  <1>7. CASE UNCHANGED vars
    BY <1>7 DEF vars, git, given
  <1>8. ASSUME NEW r \in Run, NEW f \in File, Edit(r, f) PROVE Fused'
    BY <1>8 DEF Edit
  <1>9. QED
    BY <1>1, <1>2, <1>3, <1>4, <1>5, <1>6, <1>7, <1>8 DEF Next, Work

\* Every step keeps Recorded.
LEMMA RecordedInductive == TypeOK /\ Shape /\ Recorded /\ [Next]_vars => Recorded'
  <1> SUFFICES ASSUME TypeOK, Shape, Recorded, [Next]_vars, ~real PROVE Recorded'
    <2>1. [Next]_vars => real' = real
      BY DEF Next, Work, Begin, CreateBranch, Stage, Commit, CurrentSha, OpenPr, Put, Replay,
             Unreadable, Fails, Edit, vars, given
    <2>2. QED
      BY <2>1 DEF Recorded
  <1> USE NoneApart DEF Recorded, AtGit
  <1>1. ASSUME NEW r \in Run, Begin(r) PROVE Recorded'
    BY <1>1 DEF Begin, Active, TypeOK, git, given
  <1>2. ASSUME NEW r \in Run, CreateBranch(r) \/ Stage(r) \/ Commit(r) \/ CurrentSha(r)
        PROVE Recorded'
    BY <1>2 DEF CreateBranch, Stage, Commit, CurrentSha, Step, Shape, given
  <1>3. ASSUME NEW r \in Run, OpenPr(r) PROVE Recorded'
    BY <1>3 DEF OpenPr, Step, TypeOK, history, given
  <1>4. ASSUME NEW r \in Run, Put(r) PROVE Recorded'
    <2>1. [sha |-> sha[r], url |-> url[r]] \in Record
      BY <1>4 DEF Put, Step, Shape, Record, given
    <2>2. record'[r] # None /\ \A q \in Run \ {r} : record'[q] = record[q]
      BY <1>4, <2>1 DEF Put, TypeOK, given
    <2>3. QED
      BY <1>4, <2>2 DEF Put, Step, TypeOK, history, given
  <1>5. ASSUME NEW r \in Run, Replay(r) PROVE Recorded'
    BY <1>5 DEF Replay, TypeOK, history, given
  <1>6. ASSUME NEW r \in Run, Unreadable(r) PROVE Recorded'
    BY <1>6 DEF Unreadable, TypeOK, given
  <1>7. ASSUME NEW r \in Run, Fails(r) PROVE Recorded'
    <2>1. broken' = broken \cup {r}
      BY <1>7 DEF Fails, given
    <2>2. \A q \in Run \ {r} : pc'[q] = pc[q] /\ prs'[q] = prs[q] /\ record'[q] = record[q]
      BY <1>7 DEF Fails, TypeOK, given
    <2>3. QED
      BY <2>1, <2>2
  <1>8. CASE UNCHANGED vars
    BY <1>8 DEF vars, history, given
  <1>9. ASSUME NEW r \in Run, NEW f \in File, Edit(r, f) PROVE Recorded'
    BY <1>9 DEF Edit, history
  <1>10. QED
    BY <1>1, <1>2, <1>3, <1>4, <1>5, <1>6, <1>7, <1>8, <1>9 DEF Next, Work

\* A run gets one pull request, however often it is resumed.
THEOREM OnePrCorrect == Spec => []OnePr
  <1>1. Init => Fused /\ Recorded
    BY DEF Init, Fused, Recorded
  <1>2. TypeOK /\ Fused /\ Recorded => OnePr
    BY DEF TypeOK, Fused, Recorded, OnePr
  <1>3. QED
    BY <1>1, <1>2, TypeInit, TypeInductive, FusedInductive, RecordedInductive, PTL DEF Spec

-----------------------------------------------------------------------------
(* Commits. As long as deliveries have not overlapped, at most one attempt *)
(* is under way, and the index holds what it staged and what attempts that *)
(* failed have left.                                                       *)

Solo ==
  ~mixed => \A q, r \in Run : Active(q) /\ Active(r) => q = r

Index ==
  ~mixed => \A change \in staged :
              \E q \in broken \cup {p \in Run : pc[p] = "commit"} : change[1] \in Authorized(q)

\* Every step keeps Solo.
LEMMA SoloInductive == TypeOK /\ Solo /\ [Next]_vars => Solo'
  <1> SUFFICES ASSUME TypeOK, Solo, [Next]_vars PROVE Solo'
    OBVIOUS
  <1> USE DEF Solo, Active
  <1>1. ASSUME NEW r \in Run, Begin(r) PROVE Solo'
    BY <1>1 DEF Begin, TypeOK
  <1>2. ASSUME NEW r \in Run,
               CreateBranch(r) \/ Stage(r) \/ Commit(r) \/ CurrentSha(r) \/ OpenPr(r) \/ Put(r)
        PROVE  Solo'
    <2>1. PICK l \in {"branch", "stage", "commit", "head", "open", "put"},
               m \in {"stage", "commit", "head", "open", "put", "done"} : Step(r, l, m)
      BY <1>2 DEF CreateBranch, Stage, Commit, CurrentSha, OpenPr, Put
    <2>2. mixed' = mixed
      BY <1>2 DEF CreateBranch, Stage, Commit, CurrentSha, OpenPr, Put, history
    <2>3. \A q \in Run : Active(q)' => Active(q)
      BY <2>1 DEF Step, TypeOK
    <2>4. QED
      BY <2>2, <2>3
  <1>3. ASSUME NEW r \in Run, Replay(r) \/ Unreadable(r) \/ Fails(r) PROVE Solo'
    BY <1>3 DEF Replay, Unreadable, Fails, TypeOK, history
  <1>4. CASE UNCHANGED vars
    BY <1>4 DEF vars, history
  <1>5. ASSUME NEW r \in Run, NEW f \in File, Edit(r, f) PROVE Solo'
    BY <1>5 DEF Edit, history
  <1>6. QED
    BY <1>1, <1>2, <1>3, <1>4, <1>5 DEF Next, Work

\* Every step keeps Index.
LEMMA IndexInductive == TypeOK /\ Index /\ [Next]_vars => Index'
  <1> SUFFICES ASSUME TypeOK, Index, [Next]_vars PROVE Index'
    OBVIOUS
  <1> USE DEF Index, Authorized
  <1>1. ASSUME NEW r \in Run, Begin(r) \/ Replay(r) \/ Unreadable(r) PROVE Index'
    BY <1>1 DEF Begin, Replay, Unreadable, Active, TypeOK, git, given, history
  <1>2. ASSUME NEW r \in Run, Commit(r) PROVE Index'
    BY <1>2 DEF Commit
  <1>3. ASSUME NEW r \in Run, CreateBranch(r) \/ CurrentSha(r) \/ OpenPr(r) \/ Put(r)
        PROVE  Index'
    BY <1>3 DEF CreateBranch, CurrentSha, OpenPr, Put, Step, TypeOK, git, given, history
  <1>4. ASSUME NEW r \in Run, Stage(r) PROVE Index'
    <2>1. /\ staged' = staged \cup Added(Authorized(r)) /\ UNCHANGED <<named, broken, mixed>>
          /\ pc[r] = "stage" /\ pc' = [pc EXCEPT ![r] = "commit"]
      BY <1>4 DEF Stage, Step, given, history
    <2>2. /\ pc'[r] = "commit" /\ \A q \in Run : pc[q] = "commit" => pc'[q] = "commit"
      BY <2>1 DEF TypeOK
    <2>3. \A change \in staged' : change \in staged \/ change[1] \in Authorized(r)
      BY <2>1 DEF Added
    <2>4. QED
      BY <2>1, <2>2, <2>3
  <1>5. ASSUME NEW r \in Run, Fails(r) PROVE Index'
    <2>1. /\ \A change \in staged' : change \in staged \/ change[1] \in Authorized(r)
          /\ broken' = broken \cup {r} /\ UNCHANGED <<named, mixed>>
          /\ \A q \in Run \ {r} : pc'[q] = pc[q]
      BY <1>5 DEF Fails, Added, TypeOK, given
    <2>2. QED
      BY <2>1
  <1>6. ASSUME NEW r \in Run, NEW f \in File, Edit(r, f) PROVE Index'
    BY <1>6 DEF Edit, given, history
  <1>7. CASE UNCHANGED vars
    BY <1>7 DEF vars, git, given, history
  <1>8. QED
    BY <1>1, <1>2, <1>3, <1>4, <1>5, <1>6, <1>7 DEF Next, Work

\* Every step keeps commits to files that their runs, or broken ones, may stage.
LEMMA OwnFilesInductive ==
  TypeOK /\ Solo /\ Index /\ OwnFiles /\ [Next]_vars => OwnFiles'
  <1> SUFFICES ASSUME TypeOK, Solo, Index, OwnFiles, [Next]_vars PROVE OwnFiles'
    OBVIOUS
  <1> USE DEF OwnFiles, Authorized
  <1>1. ASSUME NEW r \in Run, Commit(r) PROVE OwnFiles'
    <2>1. pc[r] = "commit" /\ content' = [content EXCEPT ![r] = staged]
          /\ UNCHANGED <<broken, mixed, named>>
      BY <1>1 DEF Commit, Step, given, history
    <2>2. ~mixed => {q \in Run : pc[q] = "commit"} \subseteq {r}
      BY <2>1 DEF Solo, Active
    <2>3. content'[r] = staged /\ \A q \in Run \ {r} : content'[q] = content[q]
      BY <2>1 DEF TypeOK
    <2>4. QED
      BY <2>1, <2>2, <2>3 DEF Index
  <1>2. UNCHANGED <<content, named>> /\ broken \subseteq broken' /\ (mixed => mixed') => OwnFiles'
    OBVIOUS
  <1>3. ASSUME NEW r \in Run,
               Begin(r) \/ CreateBranch(r) \/ Stage(r) \/ CurrentSha(r) \/ OpenPr(r) \/ Put(r)
                 \/ Replay(r) \/ Unreadable(r) \/ Fails(r) \/ \E f \in File : Edit(r, f)
        PROVE  OwnFiles'
    BY <1>2, <1>3 DEF Begin, CreateBranch, Stage, CurrentSha, OpenPr, Put, Replay, Unreadable,
                      Fails, Edit, git, given, history
  <1>4. CASE UNCHANGED vars
    BY <1>2, <1>4 DEF vars, git, given, history
  <1>5. QED
    BY <1>1, <1>3, <1>4 DEF Next, Work

\* As long as deliveries do not overlap, a commit holds changes of files that its
\* run may stage, or that an attempt of a run that may stage them has left staged;
\* whose changes of those files is not said.
THEOREM OwnFilesCorrect == Spec => []OwnFiles
  <1>1. Init => Solo /\ Index /\ OwnFiles
    BY DEF Init, Solo, Active, Index, OwnFiles
  <1>2. QED
    BY <1>1, TypeInit, TypeInductive, SoloInductive, IndexInductive, OwnFilesInductive, PTL
       DEF Spec

-----------------------------------------------------------------------------
(* Records. With real git and deliveries that do not overlap, the branch   *)
(* of the attempt under way stays checked out, so the commit is made on it *)
(* and is what `rev-parse HEAD` finds.                                     *)

\* One of the commits of branch b, which hold what C says, holds the change.
In(C, b, change) == \E i \in 1..Len(b) : change \in C[b[i]]

\* Everything written is in the working tree only, in the index, or in a commit
\* that HEAD reaches: a branch starts where HEAD is.
Kept == \A change \in wrote : change \in dirty \cup staged \/ In(content, branch[head], change)

\* A run commits once, behind the creation of its branch.
Once ==
  \A r \in Run : branch[r] = None \/ pc[r] \in {"stage", "commit"} => content[r] = {}

\* The commit of run r is the tip of its branch, where its changes are committed.
Committed(r) ==
  /\ content[r] # {}
  /\ branch[r] # None /\ branch[r] # <<>> /\ branch[r][Len(branch[r])] = r
  /\ \A f \in Authorized(r) : <<f, r>> \in wrote => In(content, branch[r], <<f, r>>)

MineOf(r) ==
  /\ pc[r] \in {"stage", "commit", "head", "open", "put"} => head = r
  /\ pc[r] = "commit" => \A f \in Authorized(r) : <<f, r>> \notin dirty
  /\ pc[r] \in {"head", "open", "put"} => Committed(r)
  /\ pc[r] \in {"open", "put"} => sha[r] = r
  /\ Stored(r) => record[r].sha = r /\ Committed(r)
  /\ pc[r] = "idle" => ~Stored(r)

Mine == real /\ ~mixed => \A r \in Run : MineOf(r)

\* What branches reach only grows as commits are made, on the branch or elsewhere.
LEMMA InGrows ==
  ASSUME NEW b \in Seq(Run), NEW C, NEW D, \A q \in Run : C[q] \subseteq D[q],
         NEW change, In(C, b, change)
  PROVE  In(D, b, change)
  BY DEF In

\* A commit adds what it holds.
LEMMA InAppend ==
  ASSUME NEW b \in Seq(Run), NEW r \in Run, NEW C, NEW D, \A q \in Run : C[q] \subseteq D[q],
         NEW change, In(C, b, change) \/ change \in D[r]
  PROVE  In(D, Append(b, r), change)
  <1>1. CASE In(C, b, change)
    <2>1. PICK i \in 1..Len(b) : change \in C[b[i]]
      BY <1>1 DEF In
    <2>2. i \in 1..Len(Append(b, r)) /\ Append(b, r)[i] = b[i] /\ b[i] \in Run
      OBVIOUS
    <2>3. QED
      BY <2>1, <2>2 DEF In
  <1>2. CASE change \in D[r]
    <2>1. Len(Append(b, r)) \in 1..Len(Append(b, r)) /\ Append(b, r)[Len(Append(b, r))] = r
      OBVIOUS
    <2>2. QED
      BY <1>2, <2>1 DEF In
  <1>3. QED
    BY <1>1, <1>2

\* Every step keeps Once.
LEMMA OnceInductive == TypeOK /\ Shape /\ Fused /\ Once /\ [Next]_vars => Once'
  <1> SUFFICES ASSUME TypeOK, Shape, Fused, Once, [Next]_vars PROVE Once'
    OBVIOUS
  <1> USE NoneApart DEF Once
  <1>1. ASSUME NEW r \in Run, Begin(r) \/ Replay(r) \/ Unreadable(r) \/ CurrentSha(r) \/ OpenPr(r)
                                \/ Put(r) \/ Stage(r) \/ Fails(r)
        PROVE  Once'
    BY <1>1 DEF Begin, Replay, Unreadable, CurrentSha, OpenPr, Put, Stage, Fails, Step, TypeOK, git
  <1>2. ASSUME NEW r \in Run, CreateBranch(r) PROVE Once'
    <2>1. /\ branch[r] = None /\ UNCHANGED content
          /\ \A q \in Run \ {r} : pc'[q] = pc[q] /\ branch'[q] = branch[q]
      BY <1>2 DEF CreateBranch, Step, TypeOK
    <2>2. QED
      BY <2>1
  <1>3. ASSUME NEW r \in Run, Commit(r) PROVE Once'
    <2>1. /\ pc'[r] = "head" /\ \A q \in Run \ {r} : pc'[q] = pc[q] /\ content'[q] = content[q]
          /\ branch' = [branch EXCEPT ![head] = Append(@, r)]
      BY <1>3 DEF Commit, Step, TypeOK
    <2>2. branch[head] \in Seq(Run)
      BY BranchType DEF Shape, TypeOK
    <2>3. Append(branch[head], r) # None
      BY <2>2, AppendTip
    <2>4. \A q \in Run : branch'[q] = None => branch[q] = None /\ q # head
      BY <2>1, <2>3 DEF TypeOK
    <2>5. branch[r] # None
      BY <1>3 DEF Commit, Step, Shape, AtGit, Fused
    <2>6. QED
      BY <2>1, <2>4, <2>5
  <1>4. ASSUME NEW r \in Run, NEW f \in File, Edit(r, f) PROVE Once'
    BY <1>4 DEF Edit
  <1>5. CASE UNCHANGED vars
    BY <1>5 DEF vars, git
  <1>6. QED
    BY <1>1, <1>2, <1>3, <1>4, <1>5 DEF Next, Work

\* Every step keeps Kept: a new branch starts at HEAD, and a commit takes the whole
\* index.
LEMMA KeptInductive == TypeOK /\ Shape /\ Once /\ Kept /\ [Next]_vars => Kept'
  <1> SUFFICES ASSUME TypeOK, Shape, Once, Kept, [Next]_vars PROVE Kept'
    OBVIOUS
  <1>1. UNCHANGED <<branch, head, wrote, dirty, staged, content>> => Kept'
    BY DEF Kept
  <1>2. ASSUME NEW r \in Run, Begin(r) \/ Replay(r) \/ Unreadable(r) \/ CurrentSha(r) \/ OpenPr(r)
                                \/ Put(r)
        PROVE  Kept'
    BY <1>1, <1>2 DEF Begin, Replay, Unreadable, CurrentSha, OpenPr, Put, git
  <1>3. ASSUME NEW r \in Run, CreateBranch(r) PROVE Kept'
    <2>1. branch'[head'] = branch[head] /\ UNCHANGED <<wrote, dirty, staged, content>>
      BY <1>3 DEF CreateBranch, TypeOK
    <2>2. QED
      BY <2>1 DEF Kept
  <1>4. ASSUME NEW r \in Run, Stage(r) \/ Fails(r) PROVE Kept'
    <2>1. dirty' \cup staged' = dirty \cup staged /\ UNCHANGED <<branch, head, wrote, content>>
      BY <1>4 DEF Stage, Fails, Added
    <2>2. QED
      BY <2>1 DEF Kept
  <1>5. ASSUME NEW r \in Run, Commit(r) PROVE Kept'
    <2>1. /\ branch' = [branch EXCEPT ![head] = Append(@, r)]
          /\ content' = [content EXCEPT ![r] = staged]
          /\ UNCHANGED <<head, wrote, dirty>> /\ pc[r] = "commit"
      BY <1>5 DEF Commit, Step
    <2>2. content'[r] = staged /\ \A q \in Run : content[q] \subseteq content'[q]
      BY <2>1 DEF Once, TypeOK
    <2>3. branch[head] \in Seq(Run) /\ branch'[head] = Append(branch[head], r)
      BY <2>1, BranchType DEF Shape, TypeOK
    <2>4. ASSUME NEW change \in wrote, change \notin dirty
          PROVE  In(content', branch'[head], change)
      <3>1. In(content, branch[head], change) \/ change \in content'[r]
        BY <2>2, <2>4 DEF Kept
      <3>2. QED
        BY <2>2, <2>3, <3>1, InAppend
    <2>5. QED
      BY <2>1, <2>4 DEF Kept
  <1>6. ASSUME NEW r \in Run, NEW f \in File, Edit(r, f) PROVE Kept'
    BY <1>6 DEF Edit, Kept
  <1>7. CASE UNCHANGED vars
    BY <1>1, <1>7 DEF vars, git
  <1>8. QED
    BY <1>2, <1>3, <1>4, <1>5, <1>6, <1>7 DEF Next, Work

\* What a run has committed stays committed while other runs write and commit.
LEMMA CommittedFrame ==
  ASSUME NEW q \in Run, Committed(q), TypeOK,
         branch'[q] = branch[q], content'[q] = content[q], named' = named,
         \A p \in Run : content[p] \subseteq content'[p],
         \A f \in File : <<f, q>> \in wrote' => <<f, q>> \in wrote
  PROVE  Committed(q)'
  <1>1. branch[q] \in Seq(Run)
    BY BranchType DEF Committed
  <1>2. Authorized(q)' = Authorized(q) /\ Authorized(q) \subseteq File
    BY DeliveryAssumption DEF Authorized, TypeOK
  <1>3. ASSUME NEW f \in Authorized(q), <<f, q>> \in wrote'
        PROVE  In(content', branch'[q], <<f, q>>)
    <2>1. In(content, branch[q], <<f, q>>)
      BY <1>2, <1>3 DEF Committed
    <2>2. QED
      BY <1>1, <2>1, InGrows
  <1>4. QED
    BY <1>2, <1>3 DEF Committed

\* A step that leaves the run, its branch and its commit alone, and HEAD too
\* unless the run is not being delivered, preserves MineOf.
LEMMA MineFrame ==
  ASSUME NEW q \in Run, MineOf(q), TypeOK,
         pc'[q] = pc[q] \/ pc'[q] \in {"done", "failed"},
         sha'[q] = sha[q], branch'[q] = branch[q], content'[q] = content[q], named' = named,
         record'[q] \in {record[q], Garbage},
         \A p \in Run : content[p] \subseteq content'[p],
         \A f \in File : /\ <<f, q>> \in wrote' => <<f, q>> \in wrote
                         /\ <<f, q>> \in dirty' => <<f, q>> \in dirty,
         ~Active(q)' \/ head' = head
  PROVE  MineOf(q)'
  <1>1. Committed(q) => Committed(q)'
    BY CommittedFrame
  <1>2. Authorized(q)' = Authorized(q) /\ Authorized(q) \subseteq File
    BY DeliveryAssumption DEF Authorized, TypeOK
  <1>3. QED
    BY <1>1, <1>2 DEF MineOf, Stored, Active

\* Every step keeps HEAD on the branch of the attempt under way.
LEMMA MineInductive ==
  TypeOK /\ Shape /\ Solo /\ Solo' /\ Once /\ Kept /\ Mine /\ [Next]_vars => Mine'
  <1> SUFFICES ASSUME TypeOK, Shape, Solo, Solo', Once, Kept, Mine, [Next]_vars, real, ~mixed'
               PROVE  \A q \in Run : MineOf(q)'
    <2>1. [Next]_vars => real' = real
      BY DEF Next, Work, Begin, CreateBranch, Stage, Commit, CurrentSha, OpenPr, Put, Replay,
             Unreadable, Fails, Edit, vars, given
    <2>2. QED
      BY <2>1 DEF Mine
  <1>0. ~mixed /\ \A q \in Run : MineOf(q)
    <2>1. mixed => mixed'
      BY DEF Next, Work, Begin, CreateBranch, Stage, Commit, CurrentSha, OpenPr, Put, Replay,
             Unreadable, Fails, Edit, vars, given, history
    <2>2. QED
      BY <2>1 DEF Mine
  <1>1. ASSUME NEW r \in Run, Begin(r) PROVE \A q \in Run : MineOf(q)'
    <2>1. UNCHANGED <<named, branch, head, wrote, dirty, content, record>>
      BY <1>1 DEF Begin, git, given
    <2>2. /\ pc'[r] = "branch"
          /\ \A q \in Run \ {r} : pc'[q] = pc[q] /\ sha'[q] = sha[q]
      BY <1>1 DEF Begin, TypeOK
    <2>3. MineOf(r)'
      BY <1>1, <2>1, <2>2 DEF MineOf, Stored, Begin
    <2>4. ASSUME NEW q \in Run \ {r} PROVE MineOf(q)'
      BY <1>0, <2>1, <2>2, <2>4, MineFrame
    <2>5. QED
      BY <2>3, <2>4
  <1>2. ASSUME NEW r \in Run, CreateBranch(r) PROVE \A q \in Run : MineOf(q)'
    <2>1. /\ UNCHANGED <<named, wrote, dirty, content, record, sha>>
          /\ branch[r] = None /\ head' = r
      BY <1>2 DEF CreateBranch, given
    <2>2. pc[r] = "branch" /\ pc'[r] = "stage"
          /\ \A q \in Run \ {r} : pc'[q] = pc[q] /\ branch'[q] = branch[q]
      BY <1>2 DEF CreateBranch, Step, TypeOK
    <2>3. ~Stored(r)
      BY <1>0, <2>1 DEF MineOf, Committed
    <2>4. MineOf(r)'
      BY <2>1, <2>2, <2>3 DEF MineOf, Stored
    <2>5. ASSUME NEW q \in Run \ {r} PROVE MineOf(q)'
      <3>1. ~Active(q)'
        BY <1>0, <2>2 DEF Solo, Active
      <3>2. QED
        BY <1>0, <2>1, <2>2, <3>1, MineFrame
    <2>6. QED
      BY <2>4, <2>5
  <1>3. ASSUME NEW r \in Run, Stage(r) PROVE \A q \in Run : MineOf(q)'
    <2>1. /\ UNCHANGED <<named, branch, head, wrote, content, record, sha>>
          /\ dirty' = dirty \ Added(Authorized(r))
      BY <1>3 DEF Stage, given
    <2>2. pc[r] = "stage" /\ pc'[r] = "commit" /\ \A q \in Run \ {r} : pc'[q] = pc[q]
      BY <1>3 DEF Stage, Step, TypeOK
    <2>3. \A f \in Authorized(r)' : <<f, r>> \notin dirty'
      BY <2>1 DEF Added, Authorized
    <2>4. Committed(r) => Committed(r)'
      BY <2>1 DEF Committed, Authorized
    <2>5. head' = r /\ (Stored(r)' => record'[r].sha = r /\ Committed(r)')
      BY <1>0, <2>1, <2>2, <2>4 DEF MineOf, Stored
    <2>6. MineOf(r)'
      BY <2>2, <2>3, <2>5 DEF MineOf
    <2>7. ASSUME NEW q \in Run \ {r} PROVE MineOf(q)'
      BY <1>0, <2>1, <2>2, <2>7, MineFrame
    <2>8. QED
      BY <2>6, <2>7
  <1>4. ASSUME NEW r \in Run, Commit(r) PROVE \A q \in Run : MineOf(q)'
    <2>1. /\ UNCHANGED <<named, head, wrote, dirty, record, sha>> /\ head = r
          /\ staged # {} /\ \A f \in Authorized(r) : <<f, r>> \notin dirty
      BY <1>0, <1>4 DEF Commit, Step, MineOf, given
    <2>2. pc[r] = "commit" /\ pc'[r] = "head" /\ \A q \in Run \ {r} : pc'[q] = pc[q]
      BY <1>4 DEF Commit, Step, TypeOK
    <2>3. branch[r] \in Seq(Run) /\ branch'[r] = Append(branch[r], r)
      BY <1>4, <2>1, BranchType DEF Commit, Shape, TypeOK
    <2>4. \A q \in Run \ {r} : branch'[q] = branch[q] /\ content'[q] = content[q]
      BY <1>4, <2>1 DEF Commit, TypeOK
    <2>5. content'[r] = staged /\ \A p \in Run : content[p] \subseteq content'[p]
      BY <1>4, <2>2 DEF Commit, Once, TypeOK
    <2>6. branch'[r] # None /\ branch'[r] # <<>>
      <3>1. Append(branch[r], r) \in Seq(Run) /\ Append(branch[r], r) # <<>>
        BY <2>3, AppendTip
      <3>2. Append(branch[r], r) # None
        BY ONLY <3>1, NoneApart
      <3>3. QED
        BY ONLY <2>3, <3>1, <3>2
    <2>7. branch'[r][Len(branch'[r])] = r
      BY <2>3, AppendTip
    <2>8. ASSUME NEW f \in Authorized(r), <<f, r>> \in wrote
          PROVE  In(content', branch'[r], <<f, r>>)
      <3>1. <<f, r>> \notin dirty
        BY <2>1, <2>8
      <3>2. <<f, r>> \in staged \/ In(content, branch[r], <<f, r>>)
        BY <2>1, <2>8, <3>1 DEF Kept
      <3>3. In(content, branch[r], <<f, r>>) \/ <<f, r>> \in content'[r]
        BY <2>5, <3>2
      <3>4. QED
        BY <2>3, <2>5, <3>3, InAppend
    <2>9. Committed(r)'
      BY <2>1, <2>5, <2>6, <2>7, <2>8 DEF Committed, Authorized
    <2>10. MineOf(r)'
      BY <1>0, <2>1, <2>2, <2>9 DEF MineOf, Stored
    <2>11. ASSUME NEW q \in Run \ {r} PROVE MineOf(q)'
      <3>1. ~Active(q)'
        BY <1>0, <2>2 DEF Solo, Active
      <3>2. QED
        BY <1>0, <2>1, <2>2, <2>4, <2>5, <3>1, MineFrame
    <2>12. QED
      BY <2>10, <2>11
  <1>5. ASSUME NEW r \in Run, CurrentSha(r) PROVE \A q \in Run : MineOf(q)'
    <2>1. UNCHANGED <<named, branch, head, wrote, dirty, content, record>>
      BY <1>5 DEF CurrentSha, git, given
    <2>2. pc[r] = "head" /\ pc'[r] = "open"
          /\ \A q \in Run \ {r} : pc'[q] = pc[q] /\ sha'[q] = sha[q]
      BY <1>5 DEF CurrentSha, Step, TypeOK
    <2>3. head = r /\ Committed(r)
      BY <1>0, <2>2 DEF MineOf
    <2>4. sha'[r] = r
      BY <1>5, <2>3 DEF CurrentSha, Committed, TypeOK
    <2>5. Committed(r)'
      BY <2>1, <2>3 DEF Committed, Authorized
    <2>6. MineOf(r)'
      BY <1>0, <2>1, <2>2, <2>3, <2>4, <2>5 DEF MineOf, Stored
    <2>7. ASSUME NEW q \in Run \ {r} PROVE MineOf(q)'
      BY <1>0, <2>1, <2>2, <2>7, MineFrame
    <2>8. QED
      BY <2>6, <2>7
  <1>6. ASSUME NEW r \in Run, OpenPr(r) PROVE \A q \in Run : MineOf(q)'
    <2>1. UNCHANGED <<named, branch, head, wrote, dirty, content, record, sha>>
      BY <1>6 DEF OpenPr, git, given
    <2>2. pc[r] = "open" /\ pc'[r] = "put" /\ \A q \in Run \ {r} : pc'[q] = pc[q]
      BY <1>6 DEF OpenPr, Step, TypeOK
    <2>3. \A q \in Run : Committed(q) => Committed(q)'
      BY <2>1 DEF Committed, Authorized
    <2>4. MineOf(r)'
      BY <1>0, <2>1, <2>2, <2>3 DEF MineOf, Stored
    <2>5. ASSUME NEW q \in Run \ {r} PROVE MineOf(q)'
      BY <1>0, <2>1, <2>2, <2>5, MineFrame
    <2>6. QED
      BY <2>4, <2>5
  <1>7. ASSUME NEW r \in Run, Put(r) PROVE \A q \in Run : MineOf(q)'
    <2>1. UNCHANGED <<named, branch, head, wrote, dirty, content, sha>>
      BY <1>7 DEF Put, git, given
    <2>2. pc[r] = "put" /\ pc'[r] = "done"
          /\ \A q \in Run \ {r} : pc'[q] = pc[q] /\ record'[q] = record[q]
      BY <1>7 DEF Put, Step, TypeOK
    <2>3. record'[r].sha = r
      BY <1>0, <1>7, <2>2 DEF Put, MineOf, TypeOK
    <2>4. Committed(r)'
      BY <1>0, <2>1, <2>2 DEF MineOf, Committed, Authorized
    <2>5. MineOf(r)'
      BY <2>2, <2>3, <2>4 DEF MineOf
    <2>6. ASSUME NEW q \in Run \ {r} PROVE MineOf(q)'
      BY <1>0, <2>1, <2>2, <2>6, MineFrame
    <2>7. QED
      BY <2>5, <2>6
  <1>8. ASSUME NEW r \in Run, Replay(r) \/ Unreadable(r) PROVE \A q \in Run : MineOf(q)'
    <2>1. UNCHANGED <<named, branch, head, wrote, dirty, content, record>>
      BY <1>8 DEF Replay, Unreadable, git, given
    <2>2. pc'[r] \in {"done", "failed"}
          /\ \A q \in Run \ {r} : pc'[q] = pc[q] /\ sha'[q] = sha[q]
      BY <1>8 DEF Replay, Unreadable, TypeOK
    <2>3. Committed(r) => Committed(r)'
      BY <2>1 DEF Committed, Authorized
    <2>4. MineOf(r)'
      BY <1>0, <2>1, <2>2, <2>3 DEF MineOf, Stored
    <2>5. ASSUME NEW q \in Run \ {r} PROVE MineOf(q)'
      BY <1>0, <2>1, <2>2, <2>5, MineFrame
    <2>6. QED
      BY <2>4, <2>5
  <1>9. ASSUME NEW r \in Run, Fails(r) PROVE \A q \in Run : MineOf(q)'
    <2>1. UNCHANGED <<named, branch, head, wrote, content, sha>> /\ dirty' \subseteq dirty
      BY <1>9 DEF Fails, given
    <2>2. pc'[r] = "failed" /\ \A q \in Run \ {r} : pc'[q] = pc[q]
      BY <1>9 DEF Fails, TypeOK
    <2>3. \A q \in Run : record'[q] \in {record[q], Garbage}
      BY <1>9 DEF Fails, TypeOK
    <2>4. ASSUME NEW q \in Run PROVE MineOf(q)'
      <3>1. pc'[q] = pc[q] \/ pc'[q] \in {"done", "failed"}
        BY <2>2
      <3>2. QED
        BY <1>0, <2>1, <2>3, <3>1, MineFrame
    <2>5. QED
      BY <2>4
  <1>10. ASSUME NEW r \in Run, NEW f \in File, Edit(r, f) PROVE \A q \in Run : MineOf(q)'
    <2>1. /\ UNCHANGED <<named, branch, head, content, record, pc, sha>> /\ pc[r] = "idle"
          /\ wrote' = wrote \cup {<<f, r>>} /\ dirty' = dirty \cup {<<f, r>>}
      BY <1>10 DEF Edit, given
    <2>2. MineOf(r)'
      BY <1>0, <2>1 DEF MineOf, Stored
    <2>3. ASSUME NEW q \in Run \ {r} PROVE MineOf(q)'
      <3>1. \A g \in File : /\ <<g, q>> \in wrote' => <<g, q>> \in wrote
                            /\ <<g, q>> \in dirty' => <<g, q>> \in dirty
        BY <2>1, <2>3
      <3>2. QED
        BY <1>0, <2>1, <2>3, <3>1, MineFrame
    <2>4. QED
      BY <2>2, <2>3
  <1>11. CASE UNCHANGED vars
    <2>1. UNCHANGED <<named, branch, head, wrote, dirty, content, record, pc, sha>>
      BY <1>11 DEF vars, git, given
    <2>2. QED
      BY <1>0, <2>1, MineFrame
  <1>12. QED
    BY <1>1, <1>2, <1>3, <1>4, <1>5, <1>6, <1>7, <1>8, <1>9, <1>10, <1>11 DEF Next, Work

\* A stored record names an open pull request and the run's own commit, which is
\* the tip of its branch, where all it wrote to its authorized files is committed.
THEOREM RecordTrueCorrect == Spec => []RecordTrue
  <1>1. Init => Sent /\ Fused /\ Solo /\ Once /\ Kept /\ Mine
    BY DEF Init, Sent, Stored, Fused, Solo, Active, Once, Kept, Mine, MineOf
  <1>2. ASSUME Sent, Mine PROVE RecordTrue
    <2>1. ASSUME NEW b, NEW change, In(content, b, change) PROVE change \in Reached(b)
      BY <2>1 DEF In, Reached
    <2>2. QED
      BY <1>2, <2>1 DEF Sent, Mine, MineOf, Stored, Committed, RecordTrue
  <1>3. QED
    BY <1>1, <1>2, TypeInit, TypeInductive, SentInductive, FusedInductive, SoloInductive,
       OnceInductive, KeptInductive, MineInductive, PTL DEF Spec

=============================================================================
