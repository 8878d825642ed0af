-------------------------- MODULE MCLightRequests --------------------------
(* Two lights; switches of the selection and of all lights, a scene, names.  *)
EXTENDS LightRequests

CONSTANTS lamp1, lamp2, on, off, dim

TwoLights == {lamp1, lamp2}

ThreeColors == {on, off, dim}

All(c) == [l \in TwoLights |-> c]

SwitchSelected == [kind |-> "selected", lights |-> {}, color |-> All(on)]

SwitchAllOff == [kind |-> "fixed", lights |-> TwoLights, color |-> All(off)]

SetScene ==
    [kind |-> "fixed", lights |-> TwoLights,
     color |-> [l \in TwoLights |-> IF l = lamp1 THEN dim ELSE on]]

ApplyOneName == [kind |-> "names", lights |-> {lamp1}, color |-> All(off)]

ApplyNoNames == [kind |-> "names", lights |-> {}, color |-> All(off)]

AllCommands ==
    {SwitchSelected, SwitchAllOff, SetScene, ApplyOneName, ApplyNoNames}

FewCommands == {SwitchSelected, SetScene, ApplyNoNames}
=============================================================================
