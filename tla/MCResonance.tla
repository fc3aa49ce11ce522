---------------------------- MODULE MCResonance ----------------------------
(* ResonanceGate for TLC.  A limit knows its bucket only, and the breaker    *)
(* nobody, so that a behaviour is one of three of interest: the calls of one *)
(* person that overlap, those of two people, and tests beside the calls.     *)
EXTENDS ResonanceGate

CONSTANTS r1, r2, ann, ben

VARIABLE part

\* Who makes the requests.
Makes ==
    [calls |-> {<<r1, ann>>, <<r2, ann>>},
     people |-> {<<r1, ann>>, <<r1, ben>>},
     tests |-> {<<r1, ann>>, <<r1, "test">>, <<r2, "test">>}]

Maker(local) == IF local.bucket[1] = "t" THEN "test" ELSE local.user

PartInit == Init /\ part \in DOMAIN Makes

PartNext ==
    /\ Next
    /\ \A r \in Requests :
           request[r] = Idle /\ request'[r] # Idle => <<r, Maker(request'[r])>> \in Makes[part]
    /\ UNCHANGED part

PartSpec == PartInit /\ [][PartNext]_<<vars, part>>
=============================================================================
