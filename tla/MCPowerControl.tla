--------------------------- MODULE MCPowerControl ---------------------------
(* A strip with the password "1" and two plugs in use; its right password and *)
(* a wrong one; a token that makes sums overflow a byte (NewBuffer does not). *)
EXTENDS PowerControl

One == <<49>>

Two == <<50>>

SomeTokens ==
    {[i \in 0 .. 3 |-> 200 + 9 * i]}

SomeSettings ==
    {[reachable |-> TRUE, password |-> One], [reachable |-> TRUE, password |-> Two]}

ThirdOn == [p \in 0 .. 3 |-> p = 3]

OneTimer == {[plug |-> 0, value |-> TRUE]}

RightSettings == [reachable |-> TRUE, password |-> One]

ASSUME PasswordsApart == WrongPasswordsRefused
=============================================================================
