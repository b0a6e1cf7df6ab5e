-------------------------- MODULE MCTargetResolution --------------------------
\* Three Marvins that have registered one label, a limit that two of them reach,
\* and two resources, of which one has another scope_type; selectors that
\* constrain the same field on both sides, differ on it, or constrain it on one
\* side only.
EXTENDS TargetResolution

CONSTANTS nohost, h1, r1, r2, env, prod, test

NoLabels == [k \in {} |-> {}]
Env(c) == [k \in {env} |-> c]
Sel(h, r, l) == [hostname |-> h, resource_ids |-> r, labels |-> l]

MCSessionSelectors ==
  {Sel({}, {}, NoLabels), Sel({{h1}}, {{r1}}, Env({{prod}}))}
MCAskedSelectors ==
  {Sel({}, {}, NoLabels), Sel({{h1, nohost}}, {{r1, r2}}, Env({{prod, test}})),
   Sel({}, {{r2}}, Env({}))}

MCFirstLabels == {[k \in {env} |-> {prod}]}
===============================================================================
