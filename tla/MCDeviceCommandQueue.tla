------------------------ MODULE MCDeviceCommandQueue ------------------------
\* DeviceCommandQueue with a short queue, so that it overflows, and a first
\* command that is sent twice, so that a send can fail half way.
EXTENDS DeviceCommandQueue

MCRepeats == [i \in Cmd |-> IF i = 1 THEN 2 ELSE 1]
=============================================================================
