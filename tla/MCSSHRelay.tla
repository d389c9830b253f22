---------------------------- MODULE MCSSHRelay -----------------------------
(***************************************************************************)
(* One session whose policy allows exec but no shell and no terminal, with *)
(* three protocol requests (the channel and two more) and one chunk of     *)
(* output.                                                                 *)
(***************************************************************************)
EXTENDS SSHRelay

policy == {"exec"}
ask == {"session", "global", "exec", "shell", "pty-req"}
outputs == [s \in Stream |-> IF s = "stdout" THEN 1 ELSE 0]
=============================================================================
