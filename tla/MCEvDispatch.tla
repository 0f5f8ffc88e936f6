---------------------------- MODULE MCEvDispatch ----------------------------
(***************************************************************************)
(* EvDispatch with three messages: one for the registered service, one for *)
(* a service of the list that was not registered because it comes second,  *)
(* and the login command of the repository's test.                         *)
(***************************************************************************)
EXTENDS EvDispatch

CONSTANTS m1, m2, m3

MCMsgs == {m1, m2, m3}

MCserviceCmd ==
    [m \in MCMsgs |-> CASE m = m1 -> <<"LoginSvc">>
                        [] m = m2 -> <<"GameSvc">>
                        [] m = m3 -> <<"LoginSvc", "Login">>]

MCava_srvs == <<"LoginSvc", "GameSvc">>

MCLoadable == {"LoginSvc", "GameSvc"}
=============================================================================
