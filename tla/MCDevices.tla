----------------------------- MODULE MCDevices -----------------------------
(***************************************************************************)
(* One instance of the scheduler and of each device driver: what timer and *)
(* device interrupts drive.  A behavior runs one of them.                  *)
(***************************************************************************)
EXTENDS MCMlfq, Virtio, Console, Uart

Parts == {"mlfq", "virtio", "console", "uart"}

VARIABLE part

deviceRunVars == <<vars, virtioVars, consoleVars, uartVars, part>>

\* Where the scheduler does not run, it has no processes.
DevicesInit ==
  /\ part \in Parts
  /\ StartWith(IF part = "mlfq" THEN Started ELSE {})
  /\ VirtioInit /\ ConsoleInit /\ UartInit

\* The calls of the other parts are bounded, and readers may wait for input that
\* never comes: they may come to rest, but not by a panic of the disk driver;
\* the scheduler may not.
Rests == part # "mlfq" /\ ~vpanic /\ UNCHANGED deviceRunVars

DevicesNext ==
  /\ UNCHANGED part
  /\ \/ part = "mlfq" /\ Next /\ UNCHANGED <<virtioVars, consoleVars, uartVars>>
     \/ part = "virtio" /\ VirtioNext /\ UNCHANGED <<vars, consoleVars, uartVars>>
     \/ part = "console" /\ ConsoleNext /\ UNCHANGED <<vars, virtioVars, uartVars>>
     \/ part = "uart" /\ UartNext /\ UNCHANGED <<vars, virtioVars, consoleVars>>
     \/ Rests

\* The fairness of each part, for the behaviors that run it.
DevicesFairness ==
  /\ \A c \in CPUs : /\ WF_vars(part = "mlfq" /\ Scan(c))
                     /\ WF_vars(part = "mlfq" /\ Handler(c))
                     /\ SF_vars(part = "mlfq" /\ Timer(c))
  /\ \A r \in Requesters : WF_virtioVars(part = "virtio" /\ RequestStep(r))
  /\ WF_virtioVars(part = "virtio" /\ HandlerStep)
  /\ WF_virtioVars(part = "virtio" /\ DeviceStep)
  /\ \A p \in ConWriters : WF_uartVars(part = "uart" /\ WriteStep(p))
  /\ WF_uartVars(part = "uart" /\ UartIntrStep) /\ WF_uartVars(part = "uart" /\ Sent)

DevicesSpec == DevicesInit /\ [][DevicesNext]_deviceRunVars /\ DevicesFairness
============================================================================
