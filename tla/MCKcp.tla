-------------------------------- MODULE MCKcp --------------------------------
EXTENDS Kcp
MCEndpoints == {"client", "server"}
MCScript == [e \in MCEndpoints |-> IF e = "client" THEN <<2, 1, 1>> ELSE <<>>]
=============================================================================
