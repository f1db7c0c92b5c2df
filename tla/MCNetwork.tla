------------------------------- MODULE MCNetwork -------------------------------
(***************************************************************************)
(* Small instances of Network.                                             *)
(***************************************************************************)
EXTENDS Network

CONSTANTS m1, m2, a1, a2, b1

\* Any device may take any address.
SharedPool == [m \in Mac |-> Addr]

\* One device has two IPv4 addresses, the other may take over one of them and has an
\* IPv6 one.
PassingPools == [m \in Mac |-> IF m = m1 THEN {a1, a2} ELSE {a2, b1}]
===============================================================================
