----------------------------- MODULE MultiCore -----------------------------
(***************************************************************************)
(* do_runmulticore of cmd_ipq.c: the boot core gives each further core a   *)
(* stack and a command, powers them up one after the other, waits for the  *)
(* commands, then for the cores to be off, and takes the stacks back.  A   *)
(* core reports through plain words of memory, which the other core may    *)
(* see in another order than they were written in (smp.S, smp64.S and      *)
(* secondary_core_entry hold no barrier).                                  *)
(***************************************************************************)
EXTENDS Integers

CONSTANTS
  Core,      \* the secondary cores, 1 .. 3 where argc allows 4 words
  UpWait,    \* seconds a core has to come up: 5
  OffWait,   \* seconds the cores have to power off: 5
  MaxCalls   \* bound: commands given

MultiCoreAssumption ==
  /\ Core = 1 .. 3
  /\ UpWait \in Nat \ {0} /\ OffWait \in Nat \ {0} /\ MaxCalls \in Nat

VARIABLES
  step,            \* the step of do_runmulticore, "prompt" between commands
  argc,            \* cores the command names
  i,               \* core the bring-up loop is at
  delay,           \* seconds counted by the loop running
  core_status,     \* cores whose command is awaited
  core_on_status,  \* cores not yet seen off
  off,             \* what the command switched off: watchdog, dcache, console
  power,           \* core -> "off" or "on"
  stored,          \* core -> the words of its entry it has written
  visible,         \* core -> those of them memory shows
  outcome,         \* core -> what its command returned
  stack,           \* cores whose stack is allocated
  report,          \* core -> what the boot core last printed for it
  starved,         \* history: an allocation of this command failed
  calls

vars == <<step, argc, i, delay, core_status, core_on_status, off, power, stored, visible,
          outcome, stack, report, starved, calls>>

Words == {"cpu_up", "cmd_result", "cmd_complete"}
Named == 1 .. argc

Init ==
  /\ step = "prompt" /\ argc = 0 /\ i = 1 /\ delay = 0
  /\ core_status = {} /\ core_on_status = {} /\ off = {}
  /\ power = [c \in Core |-> "off"]
  /\ stored = [c \in Core |-> {}] /\ visible = stored
  /\ outcome = [c \in Core |-> 0]
  /\ stack = {} /\ report = [c \in Core |-> "none"]
  /\ starved = FALSE /\ calls = 0

CoresSame == UNCHANGED <<power, stored, visible, outcome>>

\* No command or more than three, or one of them runmulticore itself: the
\* watchdog is started again.  The exit path also invalidates the data cache,
\* here while it is on: what of other data that loses is not modelled.
Refuse ==
  /\ step = "prompt"
  /\ report' = [c \in Core |-> "usage"]
  /\ UNCHANGED <<step, argc, i, delay, core_status, core_on_status, off, stack, starved, calls>>
  /\ CoresSame

\* core[] is cleared, the stacks a failed command left are forgotten; each
\* core gets one. At the first that cannot be had, the cleanup loop frees
\* the stack of that core, which has none, and the command ends.
Schedule(n) ==
  /\ step = "prompt" /\ calls < MaxCalls /\ calls' = calls + 1
  /\ argc' = n /\ i' = 1 /\ delay' = 0
  /\ stored' = [c \in Core |-> {}] /\ visible' = stored'
  /\ report' = [c \in Core |-> "none"]
  /\ \/ /\ step' = "power_on" /\ off' = {"watchdog", "dcache"}
        /\ stack' = 1 .. n /\ starved' = FALSE
     \/ /\ UNCHANGED <<step, off>>
        /\ \E k \in 1 .. n : stack' = 1 .. (k - 1)
        /\ starved' = TRUE
  /\ UNCHANGED <<core_status, core_on_status, power, outcome>>

\* The console is silent while a core comes up.
PowerOn ==
  /\ step = "power_on" /\ i <= argc
  /\ power' = [power EXCEPT ![i] = "on"]
  /\ off' = off \cup {"console"} /\ delay' = 0
  /\ step' = "wait_up"
  /\ UNCHANGED <<argc, i, core_status, core_on_status, stored, visible, outcome, stack,
                 report, starved, calls>>

IsUp == "cpu_up" \in visible[i]

WaitUp ==
  /\ step = "wait_up" /\ ~IsUp /\ delay < UpWait
  /\ delay' = delay + 1
  /\ UNCHANGED <<step, argc, i, core_status, core_on_status, off, stack, report, starved, calls>>
  /\ CoresSame

Up ==
  /\ step = "wait_up" /\ IsUp
  /\ off' = off \ {"console"}
  /\ core_status' = core_status \cup {i} /\ core_on_status' = core_on_status \cup {i}
  /\ i' = i + 1
  /\ step' = IF i = argc THEN "complete" ELSE "power_on"
  /\ UNCHANGED <<argc, delay, stack, report, starved, calls>>
  /\ CoresSame

Says(c) ==
  IF "cmd_complete" \notin visible[c] THEN "INCOMPLETE"
  ELSE IF "cmd_result" \notin visible[c] \/ outcome[c] = -1 THEN "FAIL" ELSE "PASS"

\* The loop sees one core complete; its result may not be there yet.
Complete(c) ==
  /\ step = "complete" /\ c \in core_status /\ "cmd_complete" \in visible[c]
  /\ report' = [report EXCEPT ![c] = Says(c)]
  /\ core_status' = core_status \ {c}
  /\ step' = IF core_status' = {} THEN "power_off" ELSE step
  /\ delay' = 0
  /\ UNCHANGED <<argc, i, core_on_status, off, stack, starved, calls>>
  /\ CoresSame

\* Mutant: a core whose command is complete is taken to be off.
SeenComplete == {c \in core_on_status : "cmd_complete" \in visible[c]}

SeenOff == {c \in core_on_status : power[c] = "off"}

\* One second of the power-off loop, the last it is given excepted.
PollOff ==
  /\ step = "power_off" /\ core_on_status # {} /\ delay < OffWait
  /\ core_on_status' = core_on_status \ SeenOff
  /\ delay' = delay + 1
  /\ UNCHANGED <<step, argc, i, core_status, off, stack, report, starved, calls>>
  /\ CoresSame

\* All are off: the stacks are freed, the results printed, the caches and
\* the watchdog on again.
Finish ==
  /\ step = "power_off" /\ core_on_status = {}
  /\ stack' = {}
  /\ report' = [c \in Core |-> IF c \in Named THEN Says(c) ELSE "none"]
  /\ off' = {} /\ step' = "prompt"
  /\ UNCHANGED <<argc, i, delay, core_status, core_on_status, starved, calls>>
  /\ CoresSame

\* panic and reset both start the board again.
Restart ==
  /\ step' = "prompt" /\ argc' = 0 /\ i' = 1 /\ delay' = 0
  /\ core_status' = {} /\ core_on_status' = {} /\ off' = {}
  /\ power' = [c \in Core |-> "off"]
  /\ stored' = [c \in Core |-> {}] /\ visible' = stored'
  /\ outcome' = [c \in Core |-> 0]
  /\ stack' = {} /\ report' = [c \in Core |-> "none"]
  /\ starved' = FALSE
  /\ UNCHANGED calls

NotEnabled == step = "power_on" /\ Restart
NeverUp == step = "wait_up" /\ delay >= UpWait /\ ~IsUp /\ Restart
CtrlC == step = "complete" /\ Restart

\* The round that brings delay past OffWait panics, also if it was the one
\* that found the last core off.
NeverOff == step = "power_off" /\ core_on_status # {} /\ delay >= OffWait /\ Restart

(* A secondary core.                                                       *)

BootSame == UNCHANGED <<step, argc, i, delay, core_status, core_on_status, off, stack,
                        report, starved, calls>>

\* secondary_cpu_init.
Write(c, word) ==
  /\ power[c] = "on" /\ word \notin stored[c]
  /\ stored' = [stored EXCEPT ![c] = @ \cup {word}]
  /\ BootSame /\ UNCHANGED <<power, visible>>

CpuUp(c) == Write(c, "cpu_up") /\ UNCHANGED outcome

\* cli_simple_run_command: -1, or whether the command may be repeated.
Result(c) ==
  /\ "cpu_up" \in stored[c] /\ Write(c, "cmd_result")
  /\ \E r \in {-1, 0, 1} : outcome' = [outcome EXCEPT ![c] = r]

CmdComplete(c) == "cmd_result" \in stored[c] /\ Write(c, "cmd_complete") /\ UNCHANGED outcome

\* A word reaches memory, after any later one or before it.
Appear(c, word) ==
  /\ word \in stored[c] \ visible[c]
  /\ visible' = [visible EXCEPT ![c] = @ \cup {word}]
  /\ BootSame /\ UNCHANGED <<power, stored, outcome>>

\* CPU_OFF writes back what the core still holds.
PowerDown(c) ==
  /\ power[c] = "on" /\ "cmd_complete" \in stored[c]
  /\ power' = [power EXCEPT ![c] = "off"]
  /\ visible' = [visible EXCEPT ![c] = stored[c]]
  /\ BootSame /\ UNCHANGED <<stored, outcome>>

Next ==
  \/ Refuse \/ \E n \in Core : Schedule(n)
  \/ PowerOn \/ WaitUp \/ Up
  \/ \E c \in Core : Complete(c)
  \/ PollOff \/ Finish
  \/ NotEnabled \/ NeverUp \/ CtrlC \/ NeverOff
  \/ \E c \in Core : CpuUp(c) \/ Result(c) \/ CmdComplete(c) \/ PowerDown(c)
  \/ \E c \in Core, word \in Words : Appear(c, word)

Spec == Init /\ [][Next]_vars

TypeOK ==
  /\ step \in {"prompt", "power_on", "wait_up", "complete", "power_off"}
  /\ argc \in Core \cup {0} /\ i \in Core \cup {argc + 1}
  /\ delay \in Nat /\ delay <= UpWait + OffWait
  /\ core_status \subseteq core_on_status /\ core_on_status \subseteq Core
  /\ off \subseteq {"watchdog", "dcache", "console"}
  /\ power \in [Core -> {"off", "on"}]
  /\ stored \in [Core -> SUBSET Words] /\ visible \in [Core -> SUBSET Words]
  /\ outcome \in [Core -> {-1, 0, 1}]
  /\ stack \subseteq Core
  /\ report \in [Core -> {"none", "usage", "INCOMPLETE", "PASS", "FAIL"}]
  /\ starved \in BOOLEAN /\ calls \in 0 .. MaxCalls

\* No core runs on a stack that went back to the heap, and none runs with
\* the data cache or the watchdog on; back at the prompt no core runs, what
\* was switched off is on, the heap has every stack again unless it could
\* not give one, and what was printed last for a core is what its command
\* returned, in whichever order its words reached memory.
CoresReturned ==
  /\ \A c \in Core : power[c] = "on" => c \in stack /\ {"watchdog", "dcache"} \subseteq off
  /\ step = "prompt" =>
       /\ \A c \in Core : power[c] = "off"
       /\ off = {}
       /\ stack = {} \/ starved
       /\ \A c \in Core : report[c] \in {"PASS", "FAIL"} =>
            (report[c] = "FAIL" <=> outcome[c] = -1)

=============================================================================
