----------------------------- MODULE FileLedger -----------------------------
(***************************************************************************)
(* The append-only JSONL ledger (controller/real_adapters.py, class        *)
(* FileRunLedger): every call updates the index of its process and appends *)
(* one line; opening the ledger replays the file into a fresh index.       *)
(*                                                                         *)
(* A line is what the call wrote: None stands for a field the line omits,  *)
(* Garbage for text that does not decode. unterminated says that the last  *)
(* line has no newline yet, because its writer died. expected_revision and *)
(* expected_state only forbid a write, so every write is allowed here.     *)
(***************************************************************************)
EXTENDS RunRecords, Sequences

CONSTANTS
  RunId,
  Proc,         \* processes that open the same file
  Down,         \* the index of a process that is not running
  Garbage,
  Marks,        \* the states callers mark, a subset of RunState
  Outcomes,     \* the outcomes callers record, a subset of PhaseOutcome
  TornWrites,   \* may a process die in the middle of an append?
  FailedWrites, \* may an append raise (a full disk)?
  MaxLines,     \* bound of the model on the length of the file
  MaxRevision   \* bound of the model on a record's revision

Line == [kind : {"start", "transition"}, run : RunId, rec : RunRecord]

ASSUME FileAssumption ==
  /\ None \notin RunId \cup Proc
  /\ Garbage \notin Line
  /\ Down \notin [RunId -> RunRecord \cup {None}]
  /\ Marks \subseteq RunState /\ Outcomes \subseteq PhaseOutcome
  /\ TornWrites \in BOOLEAN /\ FailedWrites \in BOOLEAN
  /\ MaxLines \in Nat /\ MaxRevision \in Nat

VARIABLES
  file,          \* the lines on disk
  unterminated,  \* the last line lacks its newline
  index,         \* _index of every process, or Down
  acked,         \* history: per run, the last revision a completed call returned
  raised,        \* history: an append has raised
  opened         \* history: the processes that have ever opened the file

vars == <<file, unterminated, index, acked, raised, opened>>

Init ==
  /\ file = <<>>
  /\ unterminated = FALSE
  /\ index = [p \in Proc |-> Down]
  /\ acked = [r \in RunId |-> 0]
  /\ raised = FALSE
  /\ opened = {}

-----------------------------------------------------------------------------
\* Mutant of Carried: the replay of a transition forgets its phase.
CarriedPhaseless(line, old) ==
  [line.rec EXCEPT !.key = old.key, !.phase = old.phase, !.ctx = Override(@, old.ctx),
                   !.cursor = Override(@, old.cursor), !.cost = Override(@, old.cost)]

\* _replay. A start line replaces the record; a transition line of a known run
\* updates it, a field the line omits keeping its value, the key included;
\* a transition of an unknown run is skipped.
Carried(line, old) ==
  [line.rec EXCEPT !.key    = old.key,
                   !.phase  = Override(@, old.phase),
                   !.ctx    = Override(@, old.ctx),
                   !.cursor = Override(@, old.cursor),
                   !.cost   = Override(@, old.cost)]

Applied(map, line) ==
  IF line.kind = "start" THEN [map EXCEPT ![line.run] = line.rec]
  ELSE IF map[line.run] = None THEN map
  ELSE [map EXCEPT ![line.run] = Carried(line, map[line.run])]

\* The index after each line of f, applied one after another to an empty one.
After(f) ==
  LET after[n \in 0..Len(f)] ==
        IF n = 0 THEN [r \in RunId |-> None] ELSE Applied(after[n - 1], f[n])
  IN  after

\* How many lines there are before the first one that does not decode, and all
\* smaller numbers.
Readable(f) ==
  {n \in 0..Len(f) : \A i \in 1..n : f[i] # Garbage}

\* Mutant of Replay: one bad line makes the whole file unreadable.
ReplayStrict(f) ==
  IF Len(f) \in Readable(f) THEN After(f)[Len(f)] ELSE [r \in RunId |-> None]

Replay(f) ==
  After(f)[CHOOSE n \in Readable(f) : \A m \in Readable(f) : m <= n]

\* Mutant of Open: the file is not replayed.
OpenEmpty(p) ==
  /\ index[p] = Down
  /\ index' = [index EXCEPT ![p] = [r \in RunId |-> None]]
  /\ opened' = opened \cup {p}
  /\ UNCHANGED <<file, unterminated, acked, raised>>

\* __init__ of a process that (re)starts.
Open(p) ==
  /\ index[p] = Down
  /\ index' = [index EXCEPT ![p] = Replay(file)]
  /\ opened' = opened \cup {p}
  /\ UNCHANGED <<file, unterminated, acked, raised>>

Crash(p) ==
  /\ index[p] # Down
  /\ index' = [index EXCEPT ![p] = Down]
  /\ UNCHANGED <<file, unterminated, acked, raised, opened>>

-----------------------------------------------------------------------------
\* Mutant of Extended: the file is opened for writing, not for appending.
ExtendedOver(f, text) == <<text>>

\* _append: text goes to the end of the file, onto an unterminated last line
\* when there is one, which no longer decodes then.
Extended(f, text) ==
  IF unterminated THEN [f EXCEPT ![Len(f)] = Garbage] ELSE Append(f, text)

\* The end of every call: the index is updated, then the line is appended.
\* The append completes and the call returns; or it raises, with nothing or a
\* part of the text written; or the process dies inside it, leaving a part of
\* the text or everything but the newline.
Commit(p, line, rec) ==
  LET r == line.run
      updated == [index EXCEPT ![p] = [@ EXCEPT ![r] = rec]]
  IN  /\ Len(file) < MaxLines /\ rec.rev <= MaxRevision
      /\ UNCHANGED opened
      /\ \/ /\ index' = updated
            /\ file' = Extended(file, line)
            /\ unterminated' = FALSE
            /\ acked' = [acked EXCEPT ![r] = rec.rev]
            /\ UNCHANGED raised
         \/ /\ FailedWrites
            /\ index' = updated
            /\ \/ UNCHANGED <<file, unterminated>>
               \/ file' = Extended(file, Garbage) /\ unterminated' = TRUE
            /\ raised' = TRUE
            /\ UNCHANGED acked
         \/ /\ TornWrites
            /\ index' = [index EXCEPT ![p] = Down]
            /\ \E text \in {Garbage, line} : file' = Extended(file, text)
            /\ unterminated' = TRUE
            /\ UNCHANGED <<acked, raised>>

\* Mutants of Started: a replaced run starts over, or loses its cursor.
StartedOver(old, k) == NewRecord(k)

StartedCursorless(old, k) ==
  IF old = None THEN NewRecord(k)
  ELSE [old EXCEPT !.state = "running", !.key = k, !.rev = @ + 1, !.cursor = None]

\* record_start: the durable ledger keeps the cursor and looks up no key.
Started(old, k) ==
  IF old = None THEN NewRecord(k)
  ELSE [old EXCEPT !.state = "running", !.key = k, !.rev = @ + 1]

RecordStart(p, r, k) ==
  /\ index[p] # Down
  /\ LET rec == Started(index[p][r], k)
     IN  Commit(p, [kind |-> "start", run |-> r, rec |-> rec], rec)

Known(p, r) == index[p] # Down /\ index[p][r] # None

\* mark_resume, mark_complete, mark_failed, mark_paused, mark_blocked and
\* mark_cancelled.
Mark(p, r, s) ==
  /\ Known(p, r)
  /\ LET rec == Marked(index[p][r], s)
     IN  Commit(p, [kind |-> "transition", run |-> r, rec |-> rec], rec)

RecordPhase(p, r, ph, o, c) ==
  /\ Known(p, r)
  /\ LET rec == PhaseRecorded(index[p][r], ph, o, c)
     IN  Commit(p, [kind |-> "transition", run |-> r, rec |-> rec], rec)

RecordCostAttribution(p, r, amount) ==
  /\ Known(p, r)
  /\ LET rec == CostRecorded(index[p][r], amount)
     IN  Commit(p, [kind |-> "transition", run |-> r, rec |-> rec], rec)

Next ==
  \E p \in Proc :
    \/ Open(p)
    \/ Crash(p)
    \/ \E r \in RunId :
         \/ \E k \in Key \cup {None} : RecordStart(p, r, k)
         \/ \E s \in Marks : Mark(p, r, s)
         \/ \E ph \in Phase, o \in Outcomes, c \in Ctx \cup {None} :
              RecordPhase(p, r, ph, o, c)
         \/ \E amount \in Cost \cup {None} : RecordCostAttribution(p, r, amount)

Spec == Init /\ [][Next]_vars

-----------------------------------------------------------------------------
TypeOK ==
  /\ file \in Seq(Line \cup {Garbage})
  /\ unterminated \in BOOLEAN
  /\ unterminated => file # <<>>
  /\ index \in [Proc -> [RunId -> RunRecord \cup {None}] \cup {Down}]
  /\ acked \in [RunId -> Nat]
  /\ raised \in BOOLEAN
  /\ opened \subseteq Proc

\* A map of records with the cost left out.
Costless(map) ==
  [r \in RunId |-> IF map[r] = None THEN None ELSE [map[r] EXCEPT !.cost = None]]

\* No append has failed or been torn so far: a torn line lacks its newline, and
\* with the next append it becomes one that does not decode.
Calm ==
  /\ ~raised /\ ~unterminated
  /\ \A i \in DOMAIN file : file[i] # Garbage

\* One process has used the file so far, at most.
Alone == \A p, q \in opened : p = q

\* As long as no append failed or tore and one process uses the file, what it
\* shows is what a restart would rebuild from the file, costs aside: every line
\* carries enough for the replay.
ReplayAgrees ==
  Calm /\ Alone =>
    \A p \in Proc : index[p] # Down => Costless(index[p]) = Costless(Replay(file))

\* Run r has returned calls and the file still replays to the last of them.
Kept(r) ==
  /\ acked[r] > 0
  /\ Replay(file)[r] # None /\ Replay(file)[r].rev >= acked[r]

\* A call that returned is never undone: the file replays to at least the
\* revision it returned ("Crashes between writes do not corrupt prior records;
\* partial last lines are detected and truncated on replay").
AckDurable ==
  \A r \in RunId : acked[r] > 0 => Kept(r)

\* AckDurable as far as it goes: as long as no append has failed or torn, the
\* call that returned last for a run is undone by no crash and no restart.
AckKept == Calm => AckDurable

\* Where one process uses the file, it never shows an older state of a run than
\* a restart would, be it that appends fail or tear.
IndexNotBehind ==
  Alone => \A p \in Proc : index[p] # Down =>
    \A r \in RunId : Replay(file)[r] # None =>
      index[p][r] # None /\ index[p][r].rev >= Replay(file)[r].rev

\* As long as no append has raised and one process uses the file, no crash, be it
\* inside an append, loses what a call returned and the file still had: only a
\* later append can, onto the torn line.
CrashKeepsAcked ==
  [][~raised /\ Alone /\ (\E p \in Proc : index[p] # Down /\ index'[p] = Down)
       => \A r \in RunId : Kept(r) => Kept(r)']_vars

\* What a restart finds of run r is gone, or an older revision of it.
RolledBack(r) ==
  /\ Replay(file)[r] # None
  /\ Replay(file')[r] # None => Replay(file')[r].rev < Replay(file)[r].rev

\* However many processes append, as long as no append failed or tore only one
\* that has missed a line of another rolls a run back: _replay lets the last line
\* win whatever its revision ("Last write wins so concurrent writers can't roll
\* back via a stale replay order" would rule that out, too).
OnlyStaleRollsBack ==
  [][\A r \in RunId : Calm' /\ RolledBack(r) =>
       \E p, q \in opened :
         /\ p # q /\ index'[p] # index[p]
         /\ index[p][r] # None => index[p][r].rev < Replay(file)[r].rev]_vars

-----------------------------------------------------------------------------
(* One process implements DurableLedger up to the first append that fails  *)
(* or tears.                                                               *)

TheView == IF \A p \in Proc : index[p] = Down THEN Down
           ELSE Costless(index[CHOOSE p \in Proc : index[p] # Down])

Durable == INSTANCE DurableLedger WITH stored <- Costless(Replay(file)), view <- TheView

\* As long as one process uses the file and no append failed or tore, the file
\* and the index are one durable map: a call changes one record in one step, a
\* crash changes nothing, a restart shows what is stored. Of the steps behind a
\* failed or torn append it says nothing.
ImplementsDurable ==
  Durable!Init /\ [][Durable!Next \/ ~Calm' \/ ~Alone']_<<Costless(Replay(file)), TheView>>

=============================================================================
