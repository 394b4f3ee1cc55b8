---- MODULE VerifierProofs ----
(***************************************************************************)
(* What _resolve_path finds, for values and paths of any depth, and what a *)
(* check makes of a value that is not there.                               *)
(***************************************************************************)
EXTENDS Verifier, WellFoundedInduction, TLAPS

\* Induction up to a bound, for a set: of the numbers that are not in it one is the least.
LEMMA UpTo ==
  ASSUME NEW N \in Nat, NEW S, 0 \in S, \A n \in 0 .. N : n \in S /\ n < N => n + 1 \in S
  PROVE  0 .. N \subseteq S
<1> DEFINE T == (0 .. N) \ S
           R == {p \in Nat \X Nat : p[1] < p[2]}
<1> SUFFICES ASSUME T # {} PROVE FALSE
  OBVIOUS
<1>1. IsWellFoundedOn(R, Nat)
  BY NatLessThanWellFounded DEF OpToRel
<1>2. \E x \in T : \A y \in T : <<y, x>> \notin R
  <2>1. T \subseteq Nat /\ T # {}
    OBVIOUS
  <2> HIDE DEF R, T
  <2> QED
    BY <1>1, <2>1, WFMin
<1>3. PICK x \in T : \A y \in T : <<y, x>> \notin R
  BY <1>2
<1>4. x - 1 \in T /\ <<x - 1, x>> \in R
  OBVIOUS
<1> QED
  BY <1>3, <1>4

-----------------------------------------------------------------------------
(* The loop of _resolve_path.                                              *)

\* The function that Walk names is there: it is extended by one part at a time.
LEMMA WalkDef ==
  ASSUME NEW root, NEW path, Len(path) \in Nat
  PROVE  Walk(root, path)
           = [n \in 0 .. Len(path) |->
                IF n = 0 THEN root ELSE Child(Walk(root, path)[n - 1], path[n])]
<1> DEFINE Walks(f, m) ==
             f = [n \in 0 .. m |-> IF n = 0 THEN root ELSE Child(f[n - 1], path[n])]
           S == {m \in Nat : \E f : Walks(f, m)}
<1>1. 0 \in S
  <2>1. Walks([n \in 0 .. 0 |-> root], 0)
    OBVIOUS
  <2> QED
    BY <2>1
<1>2. ASSUME NEW m \in Nat, m \in S PROVE m + 1 \in S
  <2>1. PICK f : Walks(f, m)
    BY <1>2
  <2> DEFINE g == [n \in 0 .. m + 1 |-> IF n = m + 1 THEN Child(f[m], path[m + 1]) ELSE f[n]]
  <2>2. Walks(g, m + 1)
    BY <2>1
  <2> HIDE DEF g, Walks
  <2>3. \E h : Walks(h, m + 1)
    BY <2>2
  <2> QED
    BY <2>3
<1>3. 0 .. Len(path) \subseteq S
  <2>1. \A n \in 0 .. Len(path) : n \in S /\ n < Len(path) => n + 1 \in S
    BY <1>2
  <2> HIDE DEF S
  <2> QED
    BY <1>1, <2>1, UpTo
<1> QED
  BY <1>3 DEF Walk

LEMMA WalkSteps ==
  ASSUME NEW root, NEW path, Len(path) \in Nat
  PROVE  /\ Walk(root, path)[0] = root
         /\ \A n \in 1 .. Len(path) :
              Walk(root, path)[n] = Child(Walk(root, path)[n - 1], path[n])
<1> DEFINE f == Walk(root, path)
<1>1. f = [n \in 0 .. Len(path) |-> IF n = 0 THEN root ELSE Child(f[n - 1], path[n])]
  BY WalkDef
<1> HIDE DEF f
<1>2. f[0] = root /\ \A n \in 1 .. Len(path) : f[n] = Child(f[n - 1], path[n])
  BY <1>1
<1> QED
  BY <1>2 DEF f

\* What a path leads to is a value, or the sentinel.
LEMMA ResolveType ==
  ASSUME NEW root \in Json, NEW path, Len(path) \in Nat
  PROVE  Resolve(root, path) \in Json \cup {Missing}
<1> DEFINE at == Walk(root, path)
           S == {n \in Nat : at[n] \in Json \cup {Missing}}
<1>1. at[0] = root /\ \A n \in 1 .. Len(path) : at[n] = Child(at[n - 1], path[n])
  BY WalkSteps
<1> HIDE DEF at
<1>2. ASSUME NEW v \in Json \cup {Missing}, NEW part PROVE Child(v, part) \in Json \cup {Missing}
  <2>1. Is(v, "dict") /\ part \in DOMAIN v.dict => v.dict[part] \in Json
    BY JsonAssumption DEF Is, Missing
  <2>2. Is(v, "list") /\ part \in DOMAIN Digits /\ Digits[part] < Len(v.list)
          => v.list[Digits[part] + 1] \in Json
    BY JsonAssumption, DigitsAssumption DEF Is, Missing
  <2> QED
    BY <2>1, <2>2 DEF Child
<1>3. \A n \in 0 .. Len(path) : n \in S /\ n < Len(path) => n + 1 \in S
  BY <1>1, <1>2
<1>4. 0 \in S
  BY <1>1
<1>5. 0 .. Len(path) \subseteq S
  <2> HIDE DEF S
  <2> QED
    BY <1>3, <1>4, UpTo
<1> QED
  BY <1>5 DEF Resolve, at

\* Nothing is found beyond what is missing.
LEMMA MissingChild == ASSUME NEW part PROVE Child(Missing, part) = Missing
BY DEF Child, Is, Missing

\* From the first part on, the way is the same from roots that have the same there.
LEMMA SameWay ==
  ASSUME NEW root, NEW other, NEW path, Len(path) \in Nat \ {0},
         Child(root, path[1]) = Child(other, path[1])
  PROVE  Resolve(root, path) = Resolve(other, path)
<1> DEFINE f == Walk(root, path)
           g == Walk(other, path)
           S == {n \in Nat : f[n + 1] = g[n + 1]}
<1>1. /\ f[0] = root /\ g[0] = other
      /\ \A n \in 1 .. Len(path) :
           f[n] = Child(f[n - 1], path[n]) /\ g[n] = Child(g[n - 1], path[n])
  BY WalkSteps
<1> HIDE DEF f, g
<1>2. 0 \in S /\ \A n \in 0 .. Len(path) - 1 : n \in S /\ n < Len(path) - 1 => n + 1 \in S
  BY <1>1
<1>3. Len(path) - 1 \in S
  <2>1. Len(path) - 1 \in Nat /\ Len(path) - 1 \in 0 .. Len(path) - 1
    OBVIOUS
  <2> HIDE DEF S
  <2>2. 0 .. Len(path) - 1 \subseteq S
    BY <1>2, <2>1, UpTo
  <2> QED
    BY <2>1, <2>2
<1> QED
  BY <1>3 DEF Resolve, f, g

\* Where the first part is missing, so is the whole.
LEMMA MissingAtOnce ==
  ASSUME NEW root, NEW path, Len(path) \in Nat \ {0}, Child(root, path[1]) = Missing
  PROVE  Resolve(root, path) = Missing
<1> DEFINE f == Walk(root, path)
           S == {n \in Nat : f[n + 1] = Missing}
<1>1. f[0] = root /\ \A n \in 1 .. Len(path) : f[n] = Child(f[n - 1], path[n])
  BY WalkSteps
<1> HIDE DEF f
<1>2. 0 \in S /\ \A n \in 0 .. Len(path) - 1 : n \in S /\ n < Len(path) - 1 => n + 1 \in S
  BY <1>1, MissingChild
<1>3. Len(path) - 1 \in S
  <2>1. Len(path) - 1 \in Nat /\ Len(path) - 1 \in 0 .. Len(path) - 1
    OBVIOUS
  <2> HIDE DEF S
  <2>2. 0 .. Len(path) - 1 \subseteq S
    BY <1>2, <2>1, UpTo
  <2> QED
    BY <2>1, <2>2
<1> QED
  BY <1>3 DEF Resolve, f

\* A path leads where its end leads from where its beginning leads.
LEMMA PathsCompose ==
  ASSUME NEW Parts, NEW root, NEW path \in Seq(Parts), NEW rest \in Seq(Parts)
  PROVE  Resolve(root, path \o rest) = Resolve(Resolve(root, path), rest)
<1> DEFINE all == path \o rest
           f == Walk(root, all)
           g == Walk(root, path)
           h == Walk(Resolve(root, path), rest)
           S == {n \in Nat : f[n] = g[n]}
           T == {n \in Nat : f[Len(path) + n] = h[n]}
<1>1. /\ Len(path) \in Nat /\ Len(rest) \in Nat /\ Len(all) = Len(path) + Len(rest)
      /\ \A n \in 1 .. Len(path) : all[n] = path[n]
      /\ \A n \in 1 .. Len(rest) : all[Len(path) + n] = rest[n]
  OBVIOUS
<1>2. f[0] = root /\ \A n \in 1 .. Len(all) : f[n] = Child(f[n - 1], all[n])
  <2>1. Len(all) \in Nat
    BY <1>1
  <2> HIDE DEF all
  <2> QED
    BY <2>1, WalkSteps
<1>3. g[0] = root /\ \A n \in 1 .. Len(path) : g[n] = Child(g[n - 1], path[n])
  BY <1>1, WalkSteps
<1>4. h[0] = g[Len(path)] /\ \A n \in 1 .. Len(rest) : h[n] = Child(h[n - 1], rest[n])
  BY <1>1, WalkSteps DEF Resolve
<1> HIDE DEF all, f, g, h
<1>5. 0 .. Len(path) \subseteq S
  <2>1. 0 \in S
    BY <1>2, <1>3
  <2>2. \A n \in 0 .. Len(path) : n \in S /\ n < Len(path) => n + 1 \in S
    BY <1>1, <1>2, <1>3
  <2> HIDE DEF S
  <2> QED
    BY <1>1, <2>1, <2>2, UpTo
<1>6. 0 .. Len(rest) \subseteq T
  <2>1. 0 \in T
    BY <1>1, <1>4, <1>5
  <2>2. ASSUME NEW n \in 0 .. Len(rest), n \in T, n < Len(rest) PROVE n + 1 \in T
    <3>1. f[Len(path) + (n + 1)] = Child(f[Len(path) + n], all[Len(path) + (n + 1)])
      BY <1>1, <1>2, <2>2
    <3>2. h[n + 1] = Child(h[n], rest[n + 1])
      BY <1>1, <1>4, <2>2
    <3> QED
      BY <1>1, <2>2, <3>1, <3>2
  <2>3. \A n \in 0 .. Len(rest) : n \in T /\ n < Len(rest) => n + 1 \in T
    BY <2>2
  <2> HIDE DEF T
  <2> QED
    BY <1>1, <2>1, <2>3, UpTo
<1>7. f[Len(all)] = h[Len(rest)]
  BY <1>1, <1>6
<1> QED
  BY <1>7 DEF Resolve, all, f, h

\* Nothing at all is found from what is missing.
LEMMA MissingStays ==
  ASSUME NEW path, Len(path) \in Nat
  PROVE  Resolve(Missing, path) = Missing
<1>1. CASE Len(path) = 0
  BY <1>1, WalkSteps DEF Resolve
<1>2. CASE Len(path) # 0
  BY <1>2, MissingChild, MissingAtOnce
<1> QED
  BY <1>1, <1>2

\* a part that names an entry: a key of an object, or an index within a list
Names(v, part) ==
    \/ Is(v, "dict") /\ part \in DOMAIN v.dict
    \/ Is(v, "list") /\ part \in DOMAIN Digits /\ Digits[part] < Len(v.list)

LEMMA ChildIsThere ==
  ASSUME NEW v \in Json \cup {Missing}, NEW part
  PROVE  Child(v, part) # Missing <=> v # Missing /\ Names(v, part)
<1>1. CASE v = Missing
  BY <1>1, MissingChild
<1>2. CASE v \in Json
  <2>1. Is(v, "dict") /\ part \in DOMAIN v.dict => v.dict[part] \in Json
    BY <1>2, JsonAssumption
  <2>2. Is(v, "list") /\ part \in DOMAIN Digits /\ Digits[part] < Len(v.list)
          => v.list[Digits[part] + 1] \in Json
    BY <1>2, JsonAssumption, DigitsAssumption
  <2> QED
    BY <1>2, <2>1, <2>2, JsonAssumption DEF Child, Names
<1> QED
  BY <1>1, <1>2

\* For values and paths of any depth, what _resolve_path returns is a value inside the
\* document or the sentinel; the sentinel is final; and one part more finds something
\* exactly when something was found before it and the part is one of its keys or an
\* index within it (_resolve_path:121-135).
THEOREM PathsStayWithin ==
  ASSUME NEW Parts, NEW root \in Json, NEW path \in Seq(Parts)
  PROVE  /\ Resolve(root, path) \in Json \cup {Missing}
         /\ \A rest \in Seq(Parts) :
              Resolve(root, path) = Missing => Resolve(root, path \o rest) = Missing
         /\ \A part \in Parts :
              Resolve(root, path \o <<part>>) # Missing
                <=> Resolve(root, path) # Missing /\ Names(Resolve(root, path), part)
<1>1. Resolve(root, path) \in Json \cup {Missing}
  <2>1. Len(path) \in Nat
    OBVIOUS
  <2> QED
    BY <2>1, ResolveType
<1>2. ASSUME NEW rest \in Seq(Parts), Resolve(root, path) = Missing
      PROVE  Resolve(root, path \o rest) = Missing
  <2>1. Resolve(root, path \o rest) = Resolve(Missing, rest) /\ Len(rest) \in Nat
    BY <1>2, PathsCompose
  <2> QED
    BY <2>1, MissingStays
<1>3. ASSUME NEW part \in Parts
      PROVE  Resolve(root, path \o <<part>>) # Missing
               <=> Resolve(root, path) # Missing /\ Names(Resolve(root, path), part)
  <2> DEFINE v == Resolve(root, path)
             one == <<part>>
  <2>1. one \in Seq(Parts) /\ Len(one) = 1 /\ one[1] = part
    OBVIOUS
  <2> HIDE DEF one, v
  <2>2. Resolve(root, path \o one) = Resolve(v, one)
    BY <2>1, PathsCompose DEF v
  <2>3. Resolve(v, one) = Child(v, part)
    BY <2>1, WalkSteps DEF Resolve
  <2>4. Child(v, part) # Missing <=> v # Missing /\ Names(v, part)
    BY <1>1, ChildIsThere DEF v
  <2> QED
    BY <2>2, <2>3, <2>4 DEF one, v
<1> QED
  BY <1>1, <1>2, <1>3

-----------------------------------------------------------------------------
(* Checks.                                                                 *)

LEMMA VerdictType == ASSUME NEW checks, NEW evidence
                     PROVE  Verdict(checks, evidence) \in {"passed", "failed", "raised"}
BY DEF Verdict

\* A value holds its parts, and the sentinel is none of them.
LEMMA IncludesNoMissing == ASSUME NEW v \in Json PROVE ~ Includes(v, Missing)
BY JsonAssumption DEF Includes, Is, Missing

LEMMA CountIsThere == ASSUME NEW v \in Json PROVE Count(v) # Missing
BY JsonAssumption DEF Count, Is, Missing

\* Only not-exists passes on what is missing, be it in the state, the baseline or
\* among the references.
LEMMA PassesOnWhatIsThere ==
  ASSUME NEW check, NEW evidence, Len(check.subject) \in Nat,
         evidence.observations \in Json, Passes(check, evidence)
  PROVE  /\ Resolve(evidence.observations, check.subject) = Missing
              => check.operator = "not-exists"
         /\ check.operator = "unchanged"
              => Resolve(evidence.baseline, check.subject) # Missing
         /\ check.operator \in {"equals", "contains", "count-equals", "less-than-or-equal"}
              => Expected(check, evidence.references) # Missing
<1> DEFINE actual == Resolve(evidence.observations, check.subject)
           expected == Expected(check, evidence.references)
<1>1. actual = Missing => check.operator = "not-exists"
  BY DEF Passes
<1>2. check.operator = "unchanged" => Resolve(evidence.baseline, check.subject) # Missing
  BY <1>1 DEF Passes
<1>3. ASSUME check.operator \in {"equals", "contains", "count-equals", "less-than-or-equal"}
      PROVE  expected # Missing
  <2>1. actual # Missing
    BY <1>1, <1>3
  <2>2. actual \in Json
    BY <2>1, ResolveType
  <2>3. CASE check.operator = "equals"
    BY <2>1, <2>3 DEF Passes
  <2>4. CASE check.operator = "contains"
    <3>1. Includes(actual, expected)
      BY <2>1, <2>4 DEF Passes
    <3> QED
      BY <2>2, <3>1, IncludesNoMissing
  <2>5. CASE check.operator = "count-equals"
    <3>1. Count(actual) = expected
      BY <2>1, <2>5 DEF Passes
    <3> QED
      BY <2>2, <3>1, CountIsThere
  <2>6. CASE check.operator = "less-than-or-equal"
    <3>1. Is(expected, "num")
      BY <2>1, <2>6 DEF Passes
    <3> QED
      BY <3>1 DEF Is, Missing
  <2> QED
    BY <1>3, <2>3, <2>4, <2>5, <2>6
<1> QED
  BY <1>1, <1>2, <1>3
====
