---------------------------- MODULE AdapterPorts ----------------------------
(* The frames of a supervisor on the pipe of the stdio loop, and those that *)
(* the adapters of a registry check and map.                                *)
EXTENDS StdioLoop, AdapterFrames

portVars == <<stdioVars, adapterVars>>

PortsInit == StdioInit /\ AdapterInit

PortsNext ==
  \/ StdioNext /\ UNCHANGED adapterVars
  \/ AdapterNext /\ UNCHANGED stdioVars

PortsSpec == PortsInit /\ [][PortsNext]_portVars

\* A producer gets the same treatment from every adapter: each frame read is
\* answered, a valid one is mapped, the verdict does not depend on the
\* transport, and only real adapters are heard, about themselves.
AdaptersAgree ==
  /\ StdioTypeOK /\ AdapterTypeOK
  /\ EveryLineAnswered /\ OnlyTwoLinesEndIt
  /\ ValidFramesMap /\ OneVerdict /\ JobsCarryRunnableCommands
  /\ SinkIsScoped /\ OnlyRealAdaptersRun
=============================================================================
