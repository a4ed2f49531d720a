----------------------------- MODULE CmdEngine -----------------------------
(* What the command processor promises to the CSR block and, through it,   *)
(* to the driver: a start pulse given while the engine is idle is taken,   *)
(* the engine is then busy (INFO_STS[0]) until it falls idle together with *)
(* a done event (INT_STS[0]), and no done event comes without a command.   *)
(* EmmcCmdProc implements it.                                              *)

VARIABLES
  start,   \* emmc_cmd_start, the self-clearing bit of CTRL2
  busy,    \* det_emmc_start, read as INFO_STS[0]
  done,    \* det_emmc_done, which sets INT_STS[0]
  reset    \* the core is held in reset (ip_core_rst)

engineVars == <<start, busy, done, reset>>

EngineInit == start = FALSE /\ busy = FALSE /\ done = FALSE /\ reset = FALSE

(* The driver writes CTRL2 once it has read busy = 0.                      *)
Request ==
  /\ ~start /\ ~busy /\ ~done
  /\ start' = TRUE /\ busy' = busy /\ done' = done /\ reset' = FALSE

Accept ==
  /\ start
  /\ start' = FALSE /\ busy' = TRUE /\ done' = done /\ reset' = FALSE

Report ==
  /\ busy /\ ~done
  /\ start' = start /\ busy' = busy /\ done' = TRUE /\ reset' = FALSE

(* The event is raised before busy falls or on the same edge.              *)
Retire ==
  /\ busy
  /\ start' = start /\ busy' = FALSE /\ reset' = FALSE
  /\ done' \in BOOLEAN /\ (done \/ done')

Settle ==
  /\ ~busy /\ done
  /\ start' = start /\ busy' = busy /\ done' = FALSE /\ reset' = FALSE

(* Only a core reset drops a command without a done event.                 *)
Abort == start' = FALSE /\ busy' = FALSE /\ done' = FALSE /\ reset' = TRUE

Release ==
  /\ reset
  /\ start' = start /\ busy' = busy /\ done' = done /\ reset' = FALSE

EngineNext ==
  Request \/ Accept \/ Report \/ Retire \/ Settle \/ Abort \/ Release

EngineSafe == EngineInit /\ [][EngineNext]_engineVars

(* A start pulse is taken, and a command that was taken ends.              *)
EngineEnds == WF_engineVars(Accept) /\ WF_engineVars(Retire)
=============================================================================
