------------------------------ MODULE MCTcpProbe ------------------------------
(***************************************************************************)
(* An instance of TcpProbe for TLC: two connections that use one address   *)
(* in turn; the first carries a warm-up and a token request, the second a  *)
(* token request.                                                          *)
(***************************************************************************)
EXTENDS TcpProbe

MCAddressOf == [c \in Conns |-> "address"]
MCConnOf == [r \in Requests |-> IF r = 3 THEN 2 ELSE 1]
MCUse == [r \in Requests |-> r # 1]
===============================================================================
