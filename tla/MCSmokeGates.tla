------------------------------ MODULE MCSmokeGates ------------------------------
EXTENDS SmokeGates

MCPipes == <<"stdout">>
MCStream == {"stdout"}
MCMaxWritten == [s \in MCStream |-> 2]
===============================================================================
