----------------------------- MODULE ResetDomain -----------------------------
(***************************************************************************)
(* The reset sequencer of omcu_tn9k_bringup_top.sv, BOOT_CTRL of           *)
(* omcu_sysctrl.sv and the watchdog, with the software that uses them: the *)
(* boot ROM, which consumes the retained request, and the application.     *)
(*                                                                         *)
(* Every action but PressReset is one clock edge.  The sequencer, the cause*)
(* and the pending request live outside the SoC reset; everything else,    *)
(* software included, restarts with it.  The reset counter is left out.    *)
(***************************************************************************)
EXTENDS Watchdog

VARIABLES
  release,    \* ones in reset_release_q; the SoC runs at 3
  cause,      \* reset_cause_q
  pending,    \* boot_request_pending_q
  sysReq,     \* software_boot_request_o
  sysAck,     \* boot_request_ack_o
  software,   \* what the CPU executes
  force,      \* force_loader of the boot ROM
  alive       \* the application's tasks that still make progress

retained  == <<release, cause, pending>>
soc       == <<sysReq, sysAck, software, force, alive>>
resetVars == <<wdtVars, retained, soc>>

\* rom: before BOOT_CTRL is read; ack: about to acknowledge; hung: no more bus
\* accesses.
Programs == {"rom", "ack", "loader", "app", "hung"}

Running == release = 3

SoftwareReset ==
  /\ sysReq' = FALSE /\ sysAck' = FALSE
  /\ software' = "rom" /\ force' = FALSE /\ alive' = Tasks

ResetInit ==
  /\ Powerup
  /\ release = 0 /\ cause = "EXTERNAL" /\ pending = FALSE
  /\ sysReq = FALSE /\ sysAck = FALSE
  /\ software = "rom" /\ force = FALSE /\ alive = Tasks

-----------------------------------------------------------------------------
(* The sequencer.                                                          *)

\* Mutant: a coincident watchdog pulse is recorded as the cause.
RequestEdgeWatchdogFirst ==
  /\ Running
  /\ sysReq \/ resetReq
  /\ release' = 0
  /\ cause' = IF resetReq THEN "WATCHDOG" ELSE "SOFTWARE"
  /\ pending' = (sysReq \/ (pending /\ ~sysAck))
  /\ Reset /\ SoftwareReset

\* A request pulse: the SoC falls into reset right after the edge that sees it.
RequestEdge ==
  /\ Running
  /\ sysReq \/ resetReq
  /\ release' = 0
  /\ cause' = IF sysReq THEN "SOFTWARE" ELSE "WATCHDOG"
  /\ pending' = (sysReq \/ (pending /\ ~sysAck))
  /\ Reset /\ SoftwareReset

ReleaseEdge ==
  /\ ~Running
  /\ release' = release + 1
  /\ UNCHANGED <<wdtVars, cause, pending, soc>>

\* The reset key, between any two edges.
PressReset ==
  /\ release' = 0 /\ cause' = "EXTERNAL" /\ pending' = FALSE
  /\ Reset /\ SoftwareReset

-----------------------------------------------------------------------------
(* An edge on which the SoC runs, with what software does in that clock.   *)

RunningEdge ==
  /\ Running /\ ~sysReq /\ ~resetReq
  /\ pending' = (pending /\ ~sysAck)
  /\ UNCHANGED <<release, cause>>

\* request, ack: the magic word written to BOOT_CTRL in this clock.
BootCtrl(request, ack) == sysReq' = request /\ sysAck' = ack

Compute ==
  /\ RunningEdge
  /\ Idle /\ BootCtrl(FALSE, FALSE)
  /\ UNCHANGED <<software, force, alive>>

\* force_loader = omcu_bootloader_request_pending()
ReadPending ==
  /\ software = "rom"
  /\ RunningEdge
  /\ Idle /\ BootCtrl(FALSE, FALSE)
  /\ force' = pending
  /\ software' = IF pending THEN "ack" ELSE "loader"
  /\ UNCHANGED alive

\* omcu_bootloader_ack_request reads the request again before it writes.
AckRequest ==
  /\ software = "ack"
  /\ RunningEdge
  /\ Idle /\ BootCtrl(FALSE, pending)
  /\ software' = "loader"
  /\ UNCHANGED <<force, alive>>

\* The listening window expired without a forced loader, or BOOT was received.
EnterApplication ==
  /\ software = "loader"
  /\ RunningEdge
  /\ Idle /\ BootCtrl(FALSE, FALSE)
  /\ software' = "app"
  /\ UNCHANGED <<force, alive>>

\* omcu_request_bootloader
RequestLoader ==
  /\ software = "app"
  /\ RunningEdge
  /\ Idle /\ BootCtrl(TRUE, FALSE)
  /\ UNCHANGED <<software, force, alive>>

UseWatchdog ==
  /\ software = "app"
  /\ RunningEdge
  /\ ClockOf(alive) /\ BootCtrl(FALSE, FALSE)
  /\ UNCHANGED <<software, force, alive>>

\* The CPU makes no more progress.
Hang ==
  /\ software = "app"
  /\ RunningEdge
  /\ Idle /\ BootCtrl(FALSE, FALSE)
  /\ software' = "hung"
  /\ UNCHANGED <<force, alive>>

\* One task stops; the rest of the application goes on, feeding included.
TaskStops(task) ==
  /\ software = "app"
  /\ RunningEdge
  /\ Idle /\ BootCtrl(FALSE, FALSE)
  /\ alive' = alive \ {task}
  /\ UNCHANGED <<software, force>>

SoftwareEdge ==
  \/ Compute \/ ReadPending \/ AckRequest \/ EnterApplication
  \/ RequestLoader \/ UseWatchdog \/ Hang
  \/ \E task \in Tasks : TaskStops(task)

Edge == RequestEdge \/ ReleaseEdge \/ SoftwareEdge

ResetNext == Edge \/ PressReset

ResetSpec == ResetInit /\ [][ResetNext]_resetVars

\* The oscillator runs; software need not do anything.
TickingSpec == ResetSpec /\ WF_resetVars(Edge)

-----------------------------------------------------------------------------
ResetTypeOK ==
  /\ TypeOK
  /\ release \in 0 .. 3
  /\ cause \in {"EXTERNAL", "WATCHDOG", "SOFTWARE"}
  /\ pending \in BOOLEAN
  /\ sysReq \in BOOLEAN /\ sysAck \in BOOLEAN
  /\ software \in Programs
  /\ force \in BOOLEAN
  /\ alive \in SUBSET Tasks

\* The comment at the sequencer: the request latch outlives the reset for the
\* next boot ROM to inspect and consume.  The loader is held open exactly
\* after a reset that software requested; no later reset finds the request
\* again, and no coincident watchdog pulse loses or relabels it.
RequestIsConsumedOnce ==
  /\ software = "rom"          => (pending <=> cause = "SOFTWARE")
  /\ software # "rom"          => (force <=> cause = "SOFTWARE")
  /\ software \in {"app", "hung"} => ~pending

\* The watchdog that may reset the device resets it when the CPU hangs.
HangIsCured ==
  software = "hung" /\ {"ENABLE", "RESET_ENABLE"} \subseteq ctrl
    ~> software = "rom"

Supervised(task) ==
  /\ {"ENABLE", "RESET_ENABLE", "HEARTBEAT_ENABLE"} \subseteq ctrl
  /\ task \in required

\* Feeding cannot hide a stopped task: HEARTBEAT_REQUIRED makes the watchdog
\* reset the device, unless software switches the watchdog off.
StoppedTaskIsCaught ==
  \A task \in Tasks :
    task \notin alive /\ Supervised(task) ~> (software = "rom" \/ ~Supervised(task))
=============================================================================
