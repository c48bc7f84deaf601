------------------------------- MODULE MCTension -------------------------------
EXTENDS Tension, TLC

CONSTANTS review, verify, security, s1, s2, s3

ThreeActors == {review, verify, security}

Identities ==
  [a \in ThreeActors |->
     [organization |-> IF a = review THEN "quality" ELSE "assurance", roles |-> {},
      weight |-> IF a = security THEN 2 ELSE 1, scopes |-> {AnyScope}]]

Evidence(a, obligation, verdict, group) ==
  [actor |-> a, organization |-> Identities[a].organization, obligation |-> obligation,
   verdict |-> verdict, group |-> group, scope |-> "global"]

(* Support and refutation of independent groups, repetitions by lighter,   *)
(* equal and heavier actors, and an actor's word against itself.           *)
Offers ==
  {Evidence(review, "claim", "SUPPORTS", "tests"),
   Evidence(security, "claim", "SUPPORTS", "tests"),
   Evidence(verify, "claim", "REFUTES", "formal")}

(* What they may be altered to: a refutation of another obligation too.    *)
Statements == Offers \cup {Evidence(verify, "other", "REFUTES", "formal")}

Symmetric == Permutations({s1, s2, s3})

Kinds == [claim |-> "CAUSAL_CONFLICT"]

ThePolicies ==
  {[organizations |-> 2, weight |-> 2, groups |-> 2, roles |-> {}, vetoes |-> {},
    inconclusive |-> TRUE, noConflicts |-> TRUE, dependencies |-> {}]}

(* n log2 n, in thousandths, rounded.                                      *)
Table ==
  <<0, 2000, 4755, 8000, 11610, 15510, 19651, 24000, 28529, 33219, 38054,
    43020, 48106, 53303, 58603, 64000, 69487, 75059, 80711, 86439, 92239,
    98107, 104042, 110039, 116096, 122211, 128382, 134606, 140881, 147207,
    153580, 160000, 166465, 172974, 179525, 186117, 192750, 199421, 206131,
    212877, 219660, 226477, 233329, 240215, 247133, 254084, 261066, 268078,
    275121, 282193, 289294, 296423, 303580, 310764, 317975, 325212, 332475,
    339763, 347076, 354413, 361775, 369160, 376569, 384000, 391454, 398930,
    406428, 413947, 421488, 429050, 436632, 444235, 451857, 459500, 467161,
    474842, 482543, 490261, 497999, 505754, 513528, 521319, 529128, 536955,
    544798, 552659, 560536, 568430, 576340, 584267, 592209, 600168, 608142,
    616131, 624136, 632156, 640192, 648242, 656306, 664386, 672479, 680587,
    688710, 696846, 704996, 713160, 721337, 729528, 737732, 745950, 754180,
    762424, 770680, 778949, 787231, 795526, 803833, 812152, 820483, 828827,
    837182, 845550, 853929, 862320, 870723>>

MCNLog == [n \in 0..Len(Table) |-> IF n = 0 THEN 0 ELSE Table[n]]

(* h1 and h2 as the tests of the engine have them, one prior twice the     *)
(* other's, in lowest terms or not; a hypothesis that stands alone.        *)
ThreeHypotheses ==
  [h1 |-> [kind |-> "NARROW_SCOPE", prior |-> 4], h2 |-> [kind |-> "MODEL_REVISION", prior |-> 2],
   alone |-> [kind |-> "HIDDEN_VARIABLE", prior |-> 1]]

TwoLists == {{"h1", "h2"}, {"alone"}}

Test(id, cost, outcomes, shares) ==
  [id |-> id, cost |-> cost, outcomes |-> outcomes,
   likelihoods |->
     [h \in DOMAIN shares |->
        [o \in {outcomes[i] : i \in DOMAIN outcomes} |->
           IF o = outcomes[1] THEN shares[h] ELSE Unit - shares[h]]]]

Sharp == Test("sharp", 150, <<"scope", "model">>, [h1 |-> 30, h2 |-> 5])

Blunt == Test("blunt", 100, <<"scope", "model">>, [h1 |-> 40, h2 |-> 40])

Certain == Test("certain", 200, <<"scope", "model">>, [h1 |-> 40, h2 |-> 0])

Degenerate == Test("blunt", 100, <<"scope">>, [h1 |-> 40, h2 |-> 40])

Single == Test("blunt", 100, <<"scope", "model">>, [alone |-> 40])

TestLists == {<< >>, <<Blunt, Sharp, Certain>>, <<Degenerate>>, <<Single>>}

Found(x, o) == [experiment |-> x, outcome |-> o]

TheResults == {Found("sharp", "model"), Found("blunt", "scope"), Found("blunt", "model"),
               Found("certain", "model"), Found("certain", "neither")}

-----------------------------------------------------------------------------
(* Evidence on both sides is all it takes for a run; what repeats it, who  *)
(* is inactive and what was altered is of interest to detection only.      *)
Altered == {e \in file : e.signature # e.says}

RunsAreOnTwoSubmissions ==
  reports' # << >> => Cardinality(file') <= 2 /\ Altered' = {} /\ active' = Actor

OneIsAltered == Cardinality(Altered') <= 1

BoundedSpec ==
  /\ TensionInit
  /\ [][DiscoveryNext /\ RunsAreOnTwoSubmissions /\ OneIsAltered]_<<vars, tensionVars>>

=============================================================================
