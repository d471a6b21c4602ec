--------------------------- MODULE MCProxyRouting ---------------------------
(***************************************************************************)
(* A small aggregate: two sub-groups, with equal and with distinct  *)
(* priorities, and a model that an alias maps to a candidate of its own.    *)
(***************************************************************************)
EXTENDS ProxyRouting, TLC

CONSTANTS named, real

Flat   == [weight |-> <<2, 1>>, priority |-> <<1, 1>>]
Tiers  == [weight |-> <<1, 2>>, priority |-> <<2, 1>>]

MCConfigs == {Flat, Tiers}
MCServes  == <<{}, {named}>>
MCPool    == named :> << [group |-> 1, model |-> real] >>
RaceConfigs == {Tiers}
RaceRetries == <<0, 0>>

\* Requests are interchangeable.
Symmetry == Permutations(Callers)

MCMaxRetries == <<1, 0>>
=============================================================================
