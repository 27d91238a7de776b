------------------------------ MODULE MCKernel ------------------------------
(***************************************************************************)
(* The threads of the firmware that share the kernel: tcpip_thread above   *)
(* the link monitor above the web server.                                  *)
(***************************************************************************)
EXTENDS Kernel

CONSTANTS tcpip, monitor, http

MCTasks == {tcpip, monitor, http}
MCPriority == [t \in MCTasks \cup {IDLE} |->
                 CASE t = tcpip -> 3 [] t = monitor -> 2 [] t = http -> 1 [] t = IDLE -> 0]
MCFetchers == {tcpip}
MCPosters == {http}
MCLockers == {tcpip, http}
MCSleepers == {monitor}
=============================================================================
