------------------------ MODULE MCSynchronizedVideo ------------------------
(* Two cameras: files with B frames, missing and repeated time stamps and   *)
(* packets of other streams, files of different lengths, broken ones, every *)
(* kind of decoder, looped and not, pools of one to three slots.            *)
EXTENDS SynchronizedVideo

MCCameras == 1 .. 2
V(pts) == <<TRUE, pts>>
Other  == <<FALSE, Missing>>

File(packets, delay, hardware, surface, broken) ==
    [packets |-> packets, delay |-> delay, hardware |-> hardware, surface |-> surface, broken |-> broken]

Regular  == File(<<V(0), V(2)>>, 1, TRUE, "nv12", 0)
Unstamped == File(<<V(Missing), Other, V(0)>>, 0, FALSE, "nv12", 0)
OnHost   == File(<<Other, V(0), V(2)>>, 2, TRUE, "yuv420p", 0)
Longer   == File(<<V(0), V(2), V(4)>>, 1, TRUE, "software", 0)
Broken   == File(<<V(0), V(2)>>, 0, TRUE, "nv12", 2)
TenBit   == File(<<V(0), V(2)>>, 0, TRUE, "p010", 0)
Empty    == File(<<Other>>, 0, FALSE, "software", 0)

MCSetups ==
    {[files |-> f, pool |-> p, loop |-> l, rotated |-> r] :
        f \in {<<Regular, OnHost>>, <<Unstamped, Regular>>, <<Regular, Longer>>,
               <<Longer, Broken>>, <<Empty, Empty>>, <<Regular, TenBit>>},
        p \in 1 .. 3, l \in BOOLEAN, r \in {{}, {2}}}
=============================================================================
