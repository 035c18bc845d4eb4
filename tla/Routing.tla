------------------------------ MODULE Routing ------------------------------
(***************************************************************************)
(* How a build routes a prompt: compile_prompt and its validation          *)
(* (crates/cybersin-router/src/lib.rs), which picks the cheapest model of   *)
(* each quality tier up to the prompt's, and their fallbacks; and how       *)
(* `cybersin optimize` moves the cache's thresholds (analyze in             *)
(* crates/cybersin-cli/src/commands/optimize.rs), which the same build      *)
(* validates.  All are functions of their inputs.                           *)
(*                                                                         *)
(* Models are numbers, in the order of their names.  Costs are whole units; *)
(* similarities are whole units of which a fifth of the band is one too.    *)
(***************************************************************************)
EXTENDS Integers, FiniteSets, SequencesExt

QualityTier == 1..3                    \* low, medium, high
NoSurcharge == -1                      \* web_search_surcharge_usd is not set

(* A lockfile: the pinned models, with their quality and fallbacks, and the  *)
(* pinned prices, which may be of other models.                              *)
ValidLock(lock) == DOMAIN lock.models = DOMAIN lock.prices

(* The models of a tier, and the one that costs least, the first by name of   *)
(* those that cost the same.                                                  *)
Of(lock, tier) == {m \in DOMAIN lock.models : lock.models[m].quality = tier}
Before(lock, m, n) ==
  \/ lock.prices[m] < lock.prices[n]
  \/ lock.prices[m] = lock.prices[n] /\ m <= n
Cheapest(lock, tier) ==
  CHOOSE m \in Of(lock, tier) : \A n \in Of(lock, tier) : Before(lock, m, n)

(* The steps of a cascade: one for each tier that has a model, dearer by the  *)
(* surcharge where the prompt asks for grounding.                             *)
TiersThrough(lock, quality) ==
  SelectSeq(<<1, 2, 3>>, LAMBDA t : t <= quality /\ Of(lock, t) # {})
Steps(lock, quality, grounded, surcharge) ==
  LET tiers == TiersThrough(lock, quality) IN
  [i \in DOMAIN tiers |->
     LET m == Cheapest(lock, tiers[i]) IN
     [model |-> m,
      cost |-> lock.prices[m] + (IF tiers[i] \in grounded THEN surcharge ELSE 0)]]

(* The fallbacks of the steps' models, each once, but no step's model.        *)
Fallbacks(lock, steps) ==
  LET names == FlattenSeq([i \in DOMAIN steps |-> lock.models[steps[i].model].fallbacks])
      selected == {steps[i].model : i \in DOMAIN steps}
      first == {i \in DOMAIN names : /\ names[i] \notin selected
                                     /\ \A j \in 1..i-1 : names[j] # names[i]}
      indices == SetToSortSeq(first, <)
  IN  [i \in DOMAIN indices |-> names[indices[i]]]

(* compile: what it refuses, *)
Refuses(lock, quality, grounded, surcharge) ==
  \/ ~ValidLock(lock)
  \/ \E t \in grounded : t > quality \/ (Of(lock, t) # {} /\ surcharge = NoSurcharge)
  \/ Of(lock, quality) = {}
  \/ ~(ToSet(Fallbacks(lock, Steps(lock, quality, {}, 0))) \subseteq DOMAIN lock.models)
(* and the route of a prompt otherwise: the steps, then the fallbacks, at the *)
(* lock's price, for a fallback is never grounded.                            *)
Compiled(lock, quality, grounded, surcharge) ==
  LET steps == Steps(lock, quality, grounded, surcharge)
      fallbacks == Fallbacks(lock, steps)
  IN  [steps |-> steps,
       fallbacks |-> [i \in DOMAIN fallbacks |->
                        [model |-> fallbacks[i], cost |-> lock.prices[fallbacks[i]]]]]

-----------------------------------------------------------------------------
(* The cache's thresholds: a hit at `threshold`, the judge between `low` and  *)
(* `high`.                                                                    *)

Threshold(Unit) == [threshold : Unit, low : Unit, high : Unit]
ValidThresholds(t, Unit) ==
  /\ {t.threshold, t.low, t.high} \subseteq Unit
  /\ t.low <= t.high /\ t.high <= t.threshold

(* The verdicts in a bucket, a fifth of the band: 20 of them at least, of     *)
(* which 95% agree.                                                           *)
Agree(bucket, verdict) ==
  /\ bucket.accepted + bucket.rejected >= 20
  /\ 100 * bucket[verdict] >= 95 * (bucket.accepted + bucket.rejected)
Fifth(t) == (t.high - t.low) \div 5

(* analyze: what optimize builds with, from the declared thresholds and the   *)
(* verdicts in the lowest and the highest bucket.                             *)
Tuned(t, bottom, top) ==
  LET promote == t.high > t.low /\ Agree(top, "accepted")
      high == t.low + 4 * Fifth(t)
      threshold == IF promote THEN high ELSE t.threshold
      low == t.low + Fifth(t)
      skip == t.high > t.low /\ Agree(bottom, "rejected") /\ low <= threshold
  IN  [threshold |-> threshold,
       low |-> IF skip THEN low ELSE t.low,
       high |-> IF promote THEN high ELSE t.high]
=============================================================================
