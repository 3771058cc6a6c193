------------------------------- MODULE Cohorts -------------------------------
(***************************************************************************)
(* core/printGroups.ts: copies have no identity, so a print's copies in    *)
(* one stage are a count plus a count per tag.  The board draws them as    *)
(* cards: cohorts of copies that carry exactly the same tags.  Each tag,   *)
(* in order, goes to the copies with the fewest tags first.                *)
(***************************************************************************)
EXTENDS Integers, Sequences, FiniteSets, Functions

CONSTANT TagOrder   \* the tags, oldest first

Tags == {TagOrder[i] : i \in DOMAIN TagOrder}

ASSUME OrderAssumption ==
  /\ TagOrder \in Seq(Tags)
  /\ \A i, j \in DOMAIN TagOrder : TagOrder[i] = TagOrder[j] => i = j

AtMost(m, n) == IF m < n THEN m ELSE n
SumOver(S, f(_)) == SumFunctionOnSet([x \in S |-> f(x)], S)

\* n copies drawn from the cohorts with the fewest tags first, the sort being stable.
FewestFirst(cohorts, n) ==
  LET tagsOf(i) == Cardinality(cohorts[i].tags)
      before(i) == {j \in DOMAIN cohorts : tagsOf(j) < tagsOf(i) \/ (tagsOf(j) = tagsOf(i) /\ j < i)}
      left(i) == n - SumOver(before(i), LAMBDA j : cohorts[j].count)
  IN [i \in DOMAIN cohorts |-> IF left(i) < 0 THEN 0 ELSE AtMost(left(i), cohorts[i].count)]

\* Mutant of DealTag: the tag goes to the oldest cohorts, whatever tags they carry.
DealInOrder(cohorts, t, n) ==
  LET left(i) == n - SumOver({j \in DOMAIN cohorts : j < i}, LAMBDA j : cohorts[j].count)
  IN [i \in DOMAIN cohorts |-> IF left(i) > 0 THEN [cohorts[i] EXCEPT !.tags = @ \cup {t}] ELSE cohorts[i]]

\* One tag dealt: a cohort that gets it in part splits, and the part with the tag goes last.
DealTag(cohorts, t, n) ==
  LET given == FewestFirst(cohorts, n)
      with(i) == cohorts[i].tags \cup {t}
      split == {i \in DOMAIN cohorts : 0 < given[i] /\ given[i] < cohorts[i].count}
      rest(i) ==
        IF i \in split THEN [cohorts[i] EXCEPT !.count = @ - given[i]]
        ELSE IF given[i] > 0 THEN [cohorts[i] EXCEPT !.tags = with(i)] ELSE cohorts[i]
      dealt == [i \in DOMAIN cohorts |-> rest(i)]
      parted == CHOOSE i \in split : TRUE
  IN dealt \o IF split = {} THEN <<>> ELSE <<[count |-> given[parted], tags |-> with(parted)]>>

\* printGroupCohorts: the tags dealt one after the other.
CohortsOf(count, tagCount) ==
  LET dealt[k \in 0..Len(TagOrder)] ==
        IF k = 0 THEN IF count > 0 THEN <<[count |-> count, tags |-> {}]>> ELSE <<>>
        ELSE DealTag(dealt[k - 1], TagOrder[k], AtMost(tagCount[TagOrder[k]], count))
  IN dealt[Len(TagOrder)]

\* The copies on the card with exactly these tags; there is at most one such card.
OnCard(cohorts, tags) == SumOver({i \in DOMAIN cohorts : cohorts[i].tags = tags}, LAMBDA i : cohorts[i].count)

\* How many of the copies taken from each cohort carry tag t.
Carrying(cohorts, taken, t) == SumOver({i \in DOMAIN cohorts : t \in cohorts[i].tags}, LAMBDA i : taken[i])
=============================================================================
