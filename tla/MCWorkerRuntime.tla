---------------------------- MODULE MCWorkerRuntime ----------------------------
(***************************************************************************)
(* Instances of WorkerRuntime for TLC: without hazards, with one and with  *)
(* all.                                                                    *)
(***************************************************************************)
EXTENDS WorkerRuntime

CalmAndRough == {{}, {"jump"}, {"command", "kill", "jump"}}
Calm == {{}}
Kills == {{"kill"}}
Commands == {{"command"}}
====
