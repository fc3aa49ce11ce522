---------------------------- MODULE MCCollectors ----------------------------
(* An instance of Collectors for TLC, and beside it one of CollectorHealth.  *)
(* They share no state, so that a behaviour is one of either.                *)
EXTENDS Collectors, TLC

CONSTANTS d1, d2, r1, own, metrics, certs, Never, SeenFor, FailFor

LabelsOf == [d \in Devices |-> r1]

\* Two devices whose labels differ in case only, in different pipelines.
PipelinesOf == d1 :> metrics @@ d2 :> certs

\* The operator's receiver, and one we have left there in a pipeline of its own.
AtStart == [receivers |-> {own, r1}, pipelines |-> certs :> {own} @@ metrics :> {r1}]

\* The operator's receiver without the pipelines.
CutOff == {[receivers |-> {own}, pipelines |-> << >>]}

Assigned == {{}, {d1, d2}}

Symmetric == Permutations(Requests)

VARIABLES part, token, failures, failed, seen, call

healthVars == <<token, failures, failed, seen, call>>

Health == INSTANCE CollectorHealth WITH request <- call

ASSUME HealthAssumption == Health!WindowsAssumption

\* One of the initial states of the part that stands still is enough.
EitherInit ==
    /\ Init /\ Health!Init
    /\ part \in {"push", "health"}
    /\ part = "push" \/ assigned = {}

EitherNext ==
    \/ part = "push" /\ Next /\ UNCHANGED <<part, healthVars>>
    \/ part = "health" /\ Health!Next /\ UNCHANGED <<part, vars>>

Either == EitherInit /\ [][EitherNext]_<<part, vars, healthVars>>

\* What the row of a collector says: see Collectors and CollectorHealth.
RowRight == KeyStaysDeleted /\ []Health!TypeOK /\ Health!SeenIsOnline
=============================================================================
