----------------------------- MODULE MCDingTalk -----------------------------
(* Small instances of DingTalk for TLC. *)
EXTENDS DingTalk

CONSTANTS t1, t2, r1, l1, l2, g1

TwoTurns    == {t1, t2}
OneRequest  == {r1}
TwoLoads    == {l1, l2}
OneGrant    == {g1}

\* One field is enough to ask for, the other is optional.
SomeFields == {"client", "robot"}
SomeValues == 0 .. 1

\* No body, the app's id and secret, and a robot token alone.
SomeUpdates ==
    {NoCreds, [NoCreds EXCEPT !["client"] = 1], [NoCreds EXCEPT !["robot"] = 1]}
=============================================================================
