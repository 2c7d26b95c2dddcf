----------------------------- MODULE MCPipeline -----------------------------
(* A repository with its code in lib/, a file in src/, which a delivery would   *)
(* commit, and a log; the proposed changes stay inside the task's paths, leave *)
(* them or leave the repository.                                               *)
EXTENDS Pipeline

CONSTANTS src, lib, log, old, new

MCOriginal == [f \in File |-> old]
To(file) == [target |-> file, text |-> new]
MCChanges == {<<>>, <<To(lib)>>, <<To(src), To(lib)>>, <<To(Nowhere)>>}

Composed(profile, of, runner, remote, git, writer, ceiling) ==
  [profile |-> profile, wiring |-> of, runner |-> runner, remote |-> remote,
   git |-> git, writer |-> writer, ceiling |-> ceiling]
MCConfigurations ==
  {Composed("development", "deterministic", "stub", "none", FALSE, FALSE, None),
   Composed("production", "default", "local", "none", FALSE, FALSE, 3),
   Composed("test", "fake", "stub", "monitor", FALSE, TRUE, None),
   Composed("test", "fake", "llm", "none", TRUE, TRUE, None),
   Composed("production", "local", "local", "local", FALSE, TRUE, 11),
   Composed("test", "keyless", "stub", "local", FALSE, FALSE, None),
   Composed("test", "offline", "llm", "local", FALSE, TRUE, None),
   Composed("production", "offline", "llm", "local", FALSE, TRUE, 11),
   Composed("production", "keyless", "llm", "local", FALSE, TRUE, 11),
   Composed("production", "deterministic", "stub", "monitor", FALSE, FALSE, 13),
   Composed("production", "deterministic", "llm", "monitor", FALSE, FALSE, None)}
=============================================================================
