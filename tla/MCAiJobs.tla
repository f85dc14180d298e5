------------------------------ MODULE MCAiJobs ------------------------------
(***************************************************************************)
(* The AI job queue on a small instance: as many commits as the bound      *)
(* allows among the readable contents, one fewer when an unreadable one is *)
(* among them.                                                             *)
(***************************************************************************)
EXTENDS AiJobs

MCNext == Next /\ (Len(commits') = MaxCommits => Unreadable \cap Range(commits') = {})

MCSpec == Init /\ [][MCNext]_vars /\ Fairness
=============================================================================
