-------------------------- MODULE CacheSim_proofs --------------------------
(***************************************************************************)
(* Theorems about module CacheSim, for every associativity, number of sets *)
(* and block size and every command line.  The inductive invariant is      *)
(* CacheInv; it is then used to show that the time-stamp cache implements  *)
(* module LRU and, strengthened to WalkInv, which accesses of the walk     *)
(* miss.                                                                   *)
(***************************************************************************)
EXTENDS CacheSim, FiniteSetTheorems, NaturalsInduction, WellFoundedInduction, TLAPS

\* A non-empty set of natural numbers has a least element.
LEMMA LeastNatural ==
  ASSUME NEW S \in SUBSET Nat, S # {}
  PROVE  \E m \in S : \A n \in S : m <= n
<1> DEFINE R == {p \in Nat \X Nat : p[1] < p[2]}
<1>1. IsWellFoundedOn(R, Nat)
  BY NatLessThanWellFounded DEF OpToRel
<1>2. \A m, n \in Nat : <<n, m>> \in R <=> n < m
  OBVIOUS
<1> HIDE DEF R
<1>3. PICK m \in S : \A n \in S : <<n, m>> \notin R
  BY <1>1, WFMin
<1>4. ASSUME NEW n \in S PROVE m <= n
  <2>1. m \in Nat /\ n \in Nat
    OBVIOUS
  <2>2. ~(n < m)
    BY <1>2, <1>3, <2>1
  <2>3. QED
    BY <2>1, <2>2
<1>5. QED
  BY <1>4


\* Type correctness with the two uniqueness invariants: a step of Access keeps
\* each of them only because of the others.
CacheInv == TypeOK /\ TagsUnique /\ StampsUnique

\* The first way of a non-empty set of ways exists (lines 109-113 and 125-135
\* stop at it).
LEMMA FirstOfIn ==
  ASSUME NEW S \in SUBSET Way, S # {}
  PROVE  FirstOf(S) \in S
<1>1. S \in SUBSET Nat
  BY CacheAssumption DEF Way
<1>2. QED
  BY <1>1, LeastNatural DEF FirstOf

\* The victim search of lines 136-143 finds a way.
LEMMA OldestExists ==
  ASSUME TypeOK, NEW s \in Index
  PROVE  Oldest(s) # {} /\ Oldest(s) \subseteq Way
<1> DEFINE S == {content[w][s].timeStamp : w \in Way}
<1>1. S \in SUBSET Nat
  BY DEF TypeOK, Line
<1>2. S # {}
  <2>1. 0 \in Way
    BY CacheAssumption DEF Way
  <2>2. QED
    BY <2>1
<1>3. PICK m \in S : \A n \in S : m <= n
  <2> HIDE DEF S
  <2>1. QED
    BY <1>1, <1>2, LeastNatural
<1>4. PICK w \in Way : content[w][s].timeStamp = m
  BY <1>3
<1>5. w \in Oldest(s)
  BY <1>3, <1>4 DEF Oldest
<1>6. QED
  BY <1>5 DEF Oldest

\* An address maps to a set of the cache and to an integer tag.
LEMMA AddressSplit ==
  ASSUME NEW a \in Nat
  PROVE  IndexOf(a) \in Index /\ TagOf(a) \in Int
<1>1. a \div BlockBytes \in Int
  BY CacheAssumption
<1>2. IndexOf(a) \in Index
  BY <1>1, CacheAssumption DEF IndexOf, Index
<1>3. BlockBytes * Sets \in Nat \ {0}
  BY CacheAssumption
<1>4. TagOf(a) \in Int
  BY <1>3 DEF TagOf
<1>5. QED
  BY <1>2, <1>4

-----------------------------------------------------------------------------
(* One access of the cache, seen as a write of one way.                    *)

\* The way that Access writes is one of the ways, it holds no tag other than
\* t that stays resident, and no other way holds t.
ChosenWay(w, s, t) ==
  /\ w \in Way
  /\ \A v \in Way \ {w} : Full(v, s) => content[v][s].tag # t

\* The ways an access can go: a hit, a fill of an empty line, a replacement.
LEMMA AccessChooses ==
  ASSUME CacheInv, NEW s \in Index, NEW t \in Int,
         Hit(s, t) \/ Fill(s, t) \/ Replace(s, t)
  PROVE  \E w \in Way :
           /\ ChosenWay(w, s, t)
           /\ Touch(w, s, t)
           /\ missCount' \in Nat /\ hitCount' \in Nat
           /\ \/ Full(w, s) /\ content[w][s].tag = t
              \/ ~Full(w, s) /\ (\A v \in Way : Full(v, s) => content[v][s].tag # t)
              \/ /\ \A v \in Way : Full(v, s) /\ content[v][s].tag # t
                 /\ w \in Oldest(s)
<1> USE DEF CacheInv
<1>1. CASE Hit(s, t)
  <2> DEFINE w == FirstOf(Matching(s, t))
  <2>1. w \in Matching(s, t)
    BY <1>1, FirstOfIn DEF Hit, Matching
  <2>2. w \in Way /\ Full(w, s) /\ content[w][s].tag = t
    BY <2>1 DEF Matching, Full
  <2>3. ChosenWay(w, s, t)
    BY <2>2 DEF ChosenWay, TagsUnique
  <2>4. missCount' \in Nat /\ hitCount' \in Nat
    BY <1>1 DEF Hit, CountHit, TypeOK
  <2>5. QED
    BY <1>1, <2>2, <2>3, <2>4 DEF Hit
<1>2. CASE Fill(s, t)
  <2> DEFINE w == FirstOf(Empty(s))
  <2>1. w \in Empty(s)
    BY <1>2, FirstOfIn DEF Fill, Empty
  <2>2. w \in Way /\ ~Full(w, s)
    BY <2>1 DEF Empty, Full
  <2>3. \A v \in Way : Full(v, s) => content[v][s].tag # t
    BY <1>2 DEF Fill, Matching, Full
  <2>4. missCount' \in Nat /\ hitCount' \in Nat
    BY <1>2 DEF Fill, CountMiss, TypeOK
  <2>5. QED
    BY <1>2, <2>2, <2>3, <2>4 DEF Fill, ChosenWay
<1>3. CASE Replace(s, t)
  <2> DEFINE w == FirstOf(Oldest(s))
  <2>1. w \in Oldest(s) /\ w \in Way
    <3>1. Oldest(s) # {} /\ Oldest(s) \in SUBSET Way
      BY OldestExists
    <3>2. QED
      BY <3>1, FirstOfIn
  <2>2. \A v \in Way : Full(v, s) /\ content[v][s].tag # t
    BY <1>3 DEF Replace, Matching, Empty, Full
  <2>3. missCount' \in Nat /\ hitCount' \in Nat
    BY <1>3 DEF Replace, CountMiss, TypeOK
  <2>4. QED
    BY <1>3, <2>1, <2>2, <2>3 DEF Replace, ChosenWay
<1>4. QED
  BY <1>1, <1>2, <1>3

\* The lines after a write of way w.
LEMMA TouchedLines ==
  ASSUME TypeOK, NEW w \in Way, NEW s \in Index, NEW t \in Int, Touch(w, s, t)
  PROVE  /\ content' \in [Way -> [Index -> Line]]
         /\ currTime' = currTime + 1
         /\ content'[w][s] = [empty |-> FALSE, timeStamp |-> currTime, tag |-> t]
         /\ \A v \in Way, r \in Index :
              v # w \/ r # s => content'[v][r] = content[v][r]
<1>1. [empty |-> FALSE, timeStamp |-> currTime, tag |-> t] \in Line
  BY DEF Line, TypeOK
<1>2. QED
  BY <1>1 DEF Touch, TypeOK

\* A write of the chosen way keeps the cache part of the invariant.
LEMMA TouchKeepsUnique ==
  ASSUME CacheInv, NEW w \in Way, NEW s \in Index, NEW t \in Int,
         ChosenWay(w, s, t), Touch(w, s, t)
  PROVE  TagsUnique' /\ StampsUnique'
<1> USE DEF CacheInv
<1>0. /\ currTime' = currTime + 1
      /\ content'[w][s] = [empty |-> FALSE, timeStamp |-> currTime, tag |-> t]
      /\ \A v \in Way, r \in Index :
           v # w \/ r # s => content'[v][r] = content[v][r]
  BY TouchedLines
<1>1. TagsUnique'
  <2> SUFFICES ASSUME NEW r \in Index, NEW u \in Way, NEW v \in Way,
                      Full(u, r)', Full(v, r)', content'[u][r].tag = content'[v][r].tag
               PROVE  u = v
    BY DEF TagsUnique
  <2>1. CASE r = s
    BY <2>1, <1>0 DEF ChosenWay, TagsUnique, Full
  <2>2. CASE r # s
    BY <2>2, <1>0 DEF TagsUnique, Full
  <2>3. QED
    BY <2>1, <2>2
<1>2. StampsUnique'
  <2> SUFFICES ASSUME NEW r \in Index, NEW u \in Way, NEW v \in Way,
                      Full(u, r)', Full(v, r)'
               PROVE  /\ content'[u][r].timeStamp < currTime'
                      /\ content'[u][r].timeStamp = content'[v][r].timeStamp => u = v
    BY DEF StampsUnique
  <2>1. currTime \in Nat
    BY DEF TypeOK
  <2>2. \A x \in Way : \/ x = w /\ r = s /\ content'[x][r].timeStamp = currTime
                       \/ /\ x # w \/ r # s
                          /\ Full(x, r)' => Full(x, r)
                          /\ content'[x][r].timeStamp = content[x][r].timeStamp
    BY <1>0 DEF Full
  <2>3. \A x \in Way : Full(x, r) => /\ content[x][r].timeStamp < currTime
                                     /\ content[x][r].timeStamp \in Nat
    BY DEF StampsUnique, TypeOK, Line
  <2>4. \A x, y \in Way :
         Full(x, r) /\ Full(y, r) /\ content[x][r].timeStamp = content[y][r].timeStamp
         => x = y
    BY DEF StampsUnique
  <2>5. QED
    BY <2>1, <2>2, <2>3, <2>4, <1>0
<1>3. QED
  BY <1>1, <1>2

-----------------------------------------------------------------------------
(* The invariant.                                                          *)

\* What an access does to the invariant, whoever calls it.
LEMMA AccessKeepsCache ==
  ASSUME CacheInv, NEW a \in Nat, Access(a)
  PROVE  /\ content' \in [Way -> [Index -> Line]] /\ currTime' \in Nat
         /\ hitCount' \in Nat /\ missCount' \in Nat
         /\ TagsUnique' /\ StampsUnique'
<1> DEFINE s == IndexOf(a)
           t == TagOf(a)
<1>1. s \in Index /\ t \in Int
  BY AddressSplit
<1>2. Hit(s, t) \/ Fill(s, t) \/ Replace(s, t)
  BY DEF Access
<1> HIDE DEF s, t
<1>3. PICK w \in Way : /\ ChosenWay(w, s, t) /\ Touch(w, s, t)
                       /\ missCount' \in Nat /\ hitCount' \in Nat
  BY <1>1, <1>2, AccessChooses
<1>4. content' \in [Way -> [Index -> Line]] /\ currTime' = currTime + 1
  BY <1>1, <1>3, TouchedLines DEF CacheInv
<1>5. TagsUnique' /\ StampsUnique'
  BY <1>1, <1>3, TouchKeepsUnique
<1>6. QED
  BY <1>3, <1>4, <1>5 DEF CacheInv, TypeOK

\* Steps of main that leave the cache alone leave its invariants alone.
LEMMA UnchangedCache ==
  ASSUME CacheInv, UNCHANGED <<content, currTime>>
  PROVE  TagsUnique' /\ StampsUnique'
BY DEF CacheInv, TagsUnique, StampsUnique, Full

\* The zeroed cache satisfies the invariant.
LEMMA CacheInvInit == Init => CacheInv
<1> SUFFICES ASSUME Init PROVE CacheInv
  OBVIOUS
<1>1. TypeOK
  <2>1. content \in [Way -> [Index -> Line]]
    BY DEF Init, CacheInit, Line
  <2>2. QED
    BY <2>1 DEF Init, CacheInit, TypeOK
<1>2. TagsUnique /\ StampsUnique
  BY DEF Init, CacheInit, TagsUnique, StampsUnique, Full
<1>3. QED
  BY <1>1, <1>2 DEF CacheInv

\* Every step of the simulator keeps the invariant.
LEMMA CacheInvStep == CacheInv /\ [Next]_vars => CacheInv'
<1> SUFFICES ASSUME CacheInv, [Next]_vars PROVE CacheInv'
  OBVIOUS
<1>0. /\ args.stride \in Nat /\ args.size \in Nat /\ args.iteration \in Nat
      /\ i \in Nat /\ currentAddress \in Nat
      /\ currentAddress + args.stride * 8 \in Nat
  <2>1. args.stride \in Nat /\ args.size \in Nat /\ args.iteration \in Nat
    BY CacheAssumption DEF CacheInv, TypeOK
  <2>2. currentAddress \in Nat /\ i \in Nat
    BY DEF CacheInv, TypeOK
  <2>3. QED
    BY <2>1, <2>2
<1>1. CASE WarmUp
  <2>1. Access(currentAddress)
    BY <1>1 DEF WarmUp
  <2>2. TypeOK'
    BY <1>0, <1>1, <2>1, AccessKeepsCache DEF WarmUp, CacheInv, TypeOK
  <2>3. QED
    BY <1>0, <2>1, <2>2, AccessKeepsCache DEF CacheInv
<1>2. CASE StartLog
  <2>1. TypeOK'
    BY <1>2 DEF StartLog, CacheInv, TypeOK
  <2>2. QED
    BY <1>2, <2>1, UnchangedCache DEF StartLog, CacheInv
<1>3. CASE LoggedAccess
  <2>1. Access(currentAddress)
    BY <1>3 DEF LoggedAccess
  <2>2. TypeOK'
    BY <1>0, <1>3, <2>1, AccessKeepsCache DEF LoggedAccess, CacheInv, TypeOK
  <2>3. QED
    BY <1>0, <2>1, <2>2, AccessKeepsCache DEF CacheInv
<1>4. CASE ShowStatistics
  <2>1. TypeOK'
    BY <1>4 DEF ShowStatistics, CacheInv, TypeOK
  <2>2. QED
    BY <1>4, <2>1, UnchangedCache DEF ShowStatistics, CacheInv
<1>5. CASE UNCHANGED vars
  <2>1. TypeOK'
    BY <1>5 DEF vars, CacheInv, TypeOK
  <2>2. QED
    BY <1>5, <2>1, UnchangedCache DEF vars, CacheInv
<1>6. QED
  BY <1>1, <1>2, <1>3, <1>4, <1>5 DEF Next, Exited

\* Every variable of the simulator keeps its type.
THEOREM TypeCorrect == Spec => []TypeOK
<1>1. Spec => []CacheInv
  BY CacheInvInit, CacheInvStep, PTL DEF Spec
<1>2. CacheInv => TypeOK
  BY DEF CacheInv
<1>3. QED
  BY <1>1, <1>2, PTL

\* No tag is ever held twice in a set, so the first match is the only one.
THEOREM NoDuplicateTags == Spec => []TagsUnique
<1>1. Spec => []CacheInv
  BY CacheInvInit, CacheInvStep, PTL DEF Spec
<1>2. CacheInv => TagsUnique
  BY DEF CacheInv
<1>3. QED
  BY <1>1, <1>2, PTL

\* The lines of a set have pairwise different time stamps, all of the past.
THEOREM NoEqualStamps == Spec => []StampsUnique
<1>1. Spec => []CacheInv
  BY CacheInvInit, CacheInvStep, PTL DEF Spec
<1>2. CacheInv => StampsUnique
  BY DEF CacheInv
<1>3. QED
  BY <1>1, <1>2, PTL

-----------------------------------------------------------------------------
(***************************************************************************)
(* The time-stamp cache implements LRU.  Kept(w, s) is what stays resident *)
(* in set s when way w is overwritten.                                     *)
(***************************************************************************)
Kept(w, s) == {content[v][s].tag : v \in {x \in Way \ {w} : Full(x, s)}}

\* Writing the chosen way is the abstract step Use(s, Kept(w, s), t).
LEMMA TouchIsUse ==
  ASSUME CacheInv, NEW w \in Way, NEW s \in Index, NEW t \in Int,
         ChosenWay(w, s, t), Touch(w, s, t)
  PROVE  Abstract!Use(s, Kept(w, s), t)
<1> USE DEF CacheInv
<1> DEFINE keep == Kept(w, s)
<1>0. /\ currTime' = currTime + 1
      /\ content'[w][s] = [empty |-> FALSE, timeStamp |-> currTime, tag |-> t]
      /\ \A v \in Way, r \in Index :
           v # w \/ r # s => content'[v][r] = content[v][r]
  BY TouchedLines
<1>1. \A v \in Way, r \in Index : v # w \/ r # s => Full(v, r)' = Full(v, r)
  BY <1>0 DEF Full
<1>2. Full(w, s)' /\ content'[w][s].tag = t /\ content'[w][s].timeStamp = currTime
  BY <1>0 DEF Full
<1>3. t \notin keep
  BY DEF ChosenWay, Kept
<1>4. Resident' = [Resident EXCEPT ![s] = keep \cup {t}]
  <2>1. ASSUME NEW r \in Index, r # s PROVE Resident'[r] = Resident[r]
    BY <2>1, <1>0, <1>1 DEF Resident
  <2>2. Resident'[s] = keep \cup {t}
    BY <1>0, <1>1, <1>2 DEF Resident, Kept
  <2>3. QED
    BY <2>1, <2>2 DEF Resident
<1>5. Older' = [Older EXCEPT ![s] = Abstract!UsedLast(s, keep, t)]
  <2>1. ASSUME NEW r \in Index, r # s PROVE Older'[r] = Older[r]
    <3>1. Resident'[r] = Resident[r]
      BY <1>4, <2>1 DEF Resident
    <3>2. \A p \in Resident[r] \X Resident[r] :
            UsedBefore(r, p[1], p[2])' <=> UsedBefore(r, p[1], p[2])
      BY <2>1, <1>0, <1>1 DEF UsedBefore
    <3>3. QED
      BY <3>1, <3>2 DEF Older
  <2>2. Older'[s] = Abstract!UsedLast(s, keep, t)
    <3>1. Resident'[s] = keep \cup {t}
      BY <1>4 DEF Resident
    <3>2. keep \subseteq Resident[s]
      BY DEF Kept, Resident
    <3>3. ASSUME NEW x \in keep, NEW y \in keep
          PROVE  UsedBefore(s, x, y)' <=> UsedBefore(s, x, y)
      <4>1. PICK v \in Way \ {w} : Full(v, s) /\ content[v][s].tag = x
        BY DEF Kept
      <4>2. PICK u \in Way \ {w} : Full(u, s) /\ content[u][s].tag = y
        BY DEF Kept
      <4>3. UsedBefore(s, x, y) <=> content[v][s].timeStamp < content[u][s].timeStamp
        BY <4>1, <4>2 DEF UsedBefore, TagsUnique
      <4>4. /\ \A z \in Way : Full(z, s)' /\ content'[z][s].tag = x => z = v
            /\ \A z \in Way : Full(z, s)' /\ content'[z][s].tag = y => z = u
        BY <1>0, <1>1, <1>2, <1>3, <4>1, <4>2 DEF TagsUnique
      <4>5. UsedBefore(s, x, y)' <=> content'[v][s].timeStamp < content'[u][s].timeStamp
        BY <1>0, <1>1, <4>1, <4>2, <4>4 DEF UsedBefore
      <4>6. QED
        BY <1>0, <4>1, <4>2, <4>3, <4>5
    <3>4. ASSUME NEW x \in keep PROVE UsedBefore(s, x, t)' /\ ~ UsedBefore(s, t, x)'
      <4>1. PICK v \in Way \ {w} : Full(v, s) /\ content[v][s].tag = x
        BY DEF Kept
      <4>2. content[v][s].timeStamp < currTime /\ content[v][s].timeStamp \in Nat /\ currTime \in Nat
        BY <4>1 DEF StampsUnique, TypeOK, Line
      <4>3. content'[v][s].timeStamp < content'[w][s].timeStamp
        BY <1>0, <1>2, <4>1, <4>2
      <4>4. UsedBefore(s, x, t)'
        BY <1>0, <1>1, <1>2, <4>1, <4>3 DEF UsedBefore
      <4>5. /\ \A z \in Way : Full(z, s)' /\ content'[z][s].tag = x => z = v
            /\ \A z \in Way : Full(z, s)' /\ content'[z][s].tag = t => z = w
        BY <1>0, <1>1, <1>2, <1>3, <4>1 DEF TagsUnique, ChosenWay
      <4>6. ~ (content'[w][s].timeStamp < content'[v][s].timeStamp)
        BY <1>0, <1>2, <4>1, <4>2
      <4>7. ~ UsedBefore(s, t, x)'
        BY <4>5, <4>6 DEF UsedBefore
      <4>8. QED
        BY <4>4, <4>7
    <3>5. ~ UsedBefore(s, t, t)'
      <4>1. \A z \in Way : Full(z, s)' /\ content'[z][s].tag = t => z = w
        BY <1>1, <1>0 DEF ChosenWay
      <4>2. ~ (content'[w][s].timeStamp < content'[w][s].timeStamp)
        BY <1>2 DEF TypeOK
      <4>3. QED
        BY <4>1, <4>2 DEF UsedBefore
    <3>6. Older'[s] = {p \in (keep \cup {t}) \X (keep \cup {t}) : UsedBefore(s, p[1], p[2])'}
      BY <3>1 DEF Older
    <3>7. Abstract!UsedLast(s, keep, t)
            = {p \in keep \X keep : UsedBefore(s, p[1], p[2])} \cup {<<x, t>> : x \in keep}
      BY <3>2 DEF Older, Abstract!UsedLast
    <3> HIDE DEF keep
    <3>8. QED
      BY <1>3, <3>3, <3>4, <3>5, <3>6, <3>7
  <2>3. QED
    BY <2>1, <2>2 DEF Older
<1>6. QED
  BY <1>4, <1>5 DEF Abstract!Use

FullWays(s) == {v \in Way : Full(v, s)}

\* A set holds as many tags as it has full ways.
LEMMA ResidentCount ==
  ASSUME CacheInv, NEW s \in Index
  PROVE  /\ IsFiniteSet(FullWays(s))
         /\ Cardinality(Resident[s]) = Cardinality(FullWays(s))
         /\ Cardinality(Way) = Ways /\ IsFiniteSet(Way)
<1> DEFINE f == [v \in FullWays(s) |-> content[v][s].tag]
<1>1. IsFiniteSet(Way) /\ Cardinality(Way) = Ways
  <2>1. 0 \in Int /\ Ways - 1 \in Int /\ ~ (0 > Ways - 1) /\ Ways - 1 - 0 + 1 = Ways
    BY CacheAssumption
  <2>2. QED
    BY <2>1, FS_Interval DEF Way
<1>2. IsFiniteSet(FullWays(s))
  BY <1>1, FS_Subset DEF FullWays
<1>3. f \in Bijection(FullWays(s), Resident[s])
  <2>1. f \in [FullWays(s) -> Resident[s]]
    BY DEF FullWays, Resident
  <2>2. \A v, w \in FullWays(s) : f[v] = f[w] => v = w
    BY DEF FullWays, CacheInv, TagsUnique
  <2>3. \A t \in Resident[s] : \E v \in FullWays(s) : f[v] = t
    BY DEF FullWays, Resident
  <2> HIDE DEF f
  <2>4. QED
    BY <2>1, <2>2, <2>3 DEF Bijection, Injection, Surjection, IsInjective
<1>4. Cardinality(Resident[s]) = Cardinality(FullWays(s))
  <2> HIDE DEF f
  <2>1. ExistsBijection(FullWays(s), Resident[s])
    BY <1>3 DEF ExistsBijection
  <2>2. QED
    BY <1>2, <2>1, FS_Bijection
<1>5. QED
  BY <1>1, <1>2, <1>4

\* The instance of LRU counts with the same Cardinality as this module.
LEMMA SameCardinality ==
  ASSUME NEW S
  PROVE  Abstract!Cardinality(S) = Cardinality(S)
BY DEF Cardinality, Abstract!Cardinality

\* Every access of the simulator is an access of the abstract cache: the hit,
\* the fill of an empty way and the replacement of the oldest line map to
\* LHit, LFill and LEvict.
LEMMA AccessRefines ==
  ASSUME CacheInv, NEW a \in Nat, Access(a)
  PROVE  Abstract!LNext
<1> DEFINE s == IndexOf(a)
           t == TagOf(a)
<1>1. s \in Index /\ t \in Int
  BY AddressSplit
<1>2. Hit(s, t) \/ Fill(s, t) \/ Replace(s, t)
  BY DEF Access
<1> HIDE DEF s, t
<1>3. PICK w \in Way :
           /\ ChosenWay(w, s, t)
           /\ Touch(w, s, t)
           /\ \/ Full(w, s) /\ content[w][s].tag = t
              \/ ~Full(w, s) /\ (\A v \in Way : Full(v, s) => content[v][s].tag # t)
              \/ /\ \A v \in Way : Full(v, s) /\ content[v][s].tag # t
                 /\ w \in Oldest(s)
  BY <1>1, <1>2, AccessChooses
<1>4. Abstract!Use(s, Kept(w, s), t)
  BY <1>1, <1>3, TouchIsUse
<1>5. Abstract!LAccess(s, t)
  <2>1. CASE Full(w, s) /\ content[w][s].tag = t
    <3>1. t \in Resident[s]
      BY <1>1, <2>1 DEF Resident
    <3>2. Kept(w, s) = Resident[s] \ {t}
      BY <1>1, <1>3, <2>1 DEF Kept, Resident, ChosenWay
    <3>3. QED
      BY <1>4, <3>1, <3>2 DEF Abstract!LAccess, Abstract!LHit
  <2>2. CASE ~Full(w, s) /\ (\A v \in Way : Full(v, s) => content[v][s].tag # t)
    <3>1. t \notin Resident[s]
      BY <1>1, <2>2 DEF Resident
    <3>2. Kept(w, s) = Resident[s]
      BY <1>1, <2>2 DEF Kept, Resident
    <3>3. Cardinality(Resident[s]) < Ways
      <4>1. FullWays(s) \subseteq Way \ {w}
        BY <2>2 DEF FullWays
      <4>2. IsFiniteSet(Way \ {w}) /\ Cardinality(Way \ {w}) = Ways - 1
        BY <1>1, ResidentCount, FS_RemoveElement
      <4>3. Cardinality(FullWays(s)) <= Ways - 1
        BY <4>1, <4>2, FS_Subset
      <4>4. Cardinality(FullWays(s)) \in Nat
        BY <1>1, ResidentCount, FS_CardinalityType
      <4>5. QED
        BY <1>1, <4>3, <4>4, ResidentCount, CacheAssumption
    <3>4. Abstract!Use(s, Resident[s], t)
      BY <1>4, <3>2
    <3>5. QED
      BY <3>1, <3>3, <3>4, SameCardinality DEF Abstract!LAccess, Abstract!LFill
  <2>3. CASE /\ \A v \in Way : Full(v, s) /\ content[v][s].tag # t
             /\ w \in Oldest(s)
    <3> DEFINE victim == content[w][s].tag
    <3>1. t \notin Resident[s]
      BY <1>1, <2>3 DEF Resident
    <3>2. Cardinality(Resident[s]) = Ways
      <4>1. FullWays(s) = Way
        BY <2>3 DEF FullWays
      <4>2. QED
        BY <1>1, <4>1, ResidentCount
    <3>3. victim \in Resident[s]
      BY <1>1, <2>3 DEF Resident
    <3>4. Kept(w, s) = Resident[s] \ {victim}
      BY <1>1, <2>3 DEF Kept, Resident, CacheInv, TagsUnique
    <3>5. ASSUME NEW u \in Resident[s] \ {victim}
          PROVE  <<victim, u>> \in Older[s]
      <4>1. PICK v \in Way : content[v][s].tag = u /\ v # w
        BY <1>1, <3>5 DEF Resident
      <4>2. content[w][s].timeStamp <= content[v][s].timeStamp
        BY <2>3 DEF Oldest
      <4>3. content[w][s].timeStamp # content[v][s].timeStamp
        BY <1>1, <2>3, <4>1 DEF CacheInv, StampsUnique
      <4>4. content[w][s].timeStamp \in Nat /\ content[v][s].timeStamp \in Nat
        BY <1>1 DEF CacheInv, TypeOK, Line
      <4>5. UsedBefore(s, victim, u)
        BY <2>3, <4>1, <4>2, <4>3, <4>4 DEF UsedBefore
      <4>6. QED
        BY <1>1, <3>3, <4>5 DEF Older
    <3>6. Abstract!Use(s, Resident[s] \ {victim}, t)
      BY <1>4, <3>4
    <3> HIDE DEF victim
    <3>7. QED
      BY <3>1, <3>2, <3>3, <3>5, <3>6, SameCardinality DEF Abstract!LAccess, Abstract!LEvict
  <2>4. QED
    BY <1>3, <2>1, <2>2, <2>3
<1>6. t \in Resident'[s]
  BY <1>1, <1>4 DEF Abstract!Use, Resident
<1>7. QED
  BY <1>1, <1>5, <1>6 DEF Abstract!LNext, Abstract!SetIndex, Index

\* The simulator, with the mapping Resident and Older, implements LRU: only
\* the accesses of main change the mapped state, and each is an LRU access.
THEOREM CacheImplementsLRU == Spec => ImplementsLRU
<1>1. Init => Abstract!LInit
  BY DEF Init, CacheInit, Abstract!LInit, Abstract!SetIndex, Index, Resident, Older, Full
<1>2. CacheInv /\ [Next]_vars => [Abstract!LNext]_(Abstract!lruVars)
  <2> SUFFICES ASSUME CacheInv, [Next]_vars
               PROVE  [Abstract!LNext]_(Abstract!lruVars)
    OBVIOUS
  <2>1. ASSUME UNCHANGED content PROVE UNCHANGED Abstract!lruVars
    BY <2>1 DEF Abstract!lruVars, Resident, Older, UsedBefore, Full
  <2>2. ASSUME Access(currentAddress) PROVE Abstract!LNext
    <3>1. currentAddress \in Nat
      BY DEF CacheInv, TypeOK
    <3>2. QED
      BY <2>2, <3>1, AccessRefines
  <2>3. CASE WarmUp
    BY <2>2, <2>3 DEF WarmUp
  <2>4. CASE LoggedAccess
    BY <2>2, <2>4 DEF LoggedAccess
  <2>5. CASE StartLog \/ ShowStatistics \/ UNCHANGED vars
    BY <2>1, <2>5 DEF StartLog, ShowStatistics, vars
  <2>6. QED
    BY <2>3, <2>4, <2>5 DEF Next, Exited
<1>3. QED
  BY <1>1, <1>2, CacheInvInit, CacheInvStep, PTL DEF Spec, ImplementsLRU, Abstract!LSpec

-----------------------------------------------------------------------------
(* Which accesses miss.  The access of the program that is stamped n, those *)
(* of the warm-up included, is to BlockOf(n).                              *)

\* A line is the block that was accessed when it was stamped, and this block
\* has not been accessed since.
LastUses ==
  \A s \in Index, w \in Way : Full(w, s) =>
    /\ BlockOf(content[w][s].timeStamp) % Sets = s
    /\ BlockOf(content[w][s].timeStamp) \div Sets = content[w][s].tag
    /\ \A m \in 0 .. currTime - 1 :
         BlockOf(m) = BlockOf(content[w][s].timeStamp) => m <= content[w][s].timeStamp

\* Way w has block b.
Holds(w, b) == Full(w, b % Sets) /\ content[w][b % Sets].tag = b \div Sets

\* A block that was accessed is still there, unless all lines of its set have
\* been used since.
MostRecent ==
  \A k \in 0 .. currTime - 1 :
    \/ \E w \in Way : Holds(w, BlockOf(k))
    \/ \A w \in Way : /\ Full(w, BlockOf(k) % Sets)
                      /\ content[w][BlockOf(k) % Sets].timeStamp > k

\* Where main is on its walk, and which accesses it counts.
OnWalk ==
  /\ isLog = (pc # "warm")
  /\ currTime = IF pc = "warm" THEN i ELSE args.size + i
  /\ pc = "warm" => /\ i <= args.size /\ currentAddress = i * args.stride * 8
                    /\ missCount = 0 /\ hitCount = 0
  /\ pc # "warm" => currentAddress = AddressOf(i)

\* The inductive invariant of the counters.
WalkInv == CacheInv /\ LastUses /\ MostRecent /\ OnWalk /\ MissesAreConflictMisses

\* Products keep the order of their factors.
LEMMA MulMonotone ==
  ASSUME NEW a \in Nat, NEW b \in Nat, NEW n \in Nat, a <= b
  PROVE  a * n \in Nat /\ a * n <= b * n
<1>1. (b - a) * n >= 0
  OBVIOUS
<1>2. QED
  BY <1>1

\* Division with remainder.
LEMMA DivMod ==
  ASSUME NEW a \in Nat, NEW n \in Nat \ {0}
  PROVE  a \div n \in Nat /\ a % n \in 0 .. n - 1 /\ a = (a \div n) * n + (a % n)
OBVIOUS

\* It is the only one.
LEMMA DivUnique ==
  ASSUME NEW a \in Nat, NEW n \in Nat \ {0}, NEW q \in Nat, NEW r \in 0 .. n - 1,
         a = q * n + r
  PROVE  a \div n = q /\ a % n = r
<1>1. q * n \in Nat
  BY MulMonotone
<1>2. QED
  BY <1>1

\* Quotients keep the order.
LEMMA DivMonotone ==
  ASSUME NEW a \in Nat, NEW b \in Nat, NEW n \in Nat \ {0}, a <= b
  PROVE  a \div n <= b \div n
<1>1. /\ a \div n \in Nat /\ a % n \in 0 .. n - 1 /\ a = (a \div n) * n + (a % n)
      /\ b \div n \in Nat /\ b % n \in 0 .. n - 1 /\ b = (b \div n) * n + (b % n)
  BY DivMod
<1>2. SUFFICES ASSUME b \div n + 1 <= a \div n PROVE FALSE
  BY <1>1
<1>3. (b \div n + 1) * n <= (a \div n) * n
  BY <1>1, <1>2, MulMonotone
<1>4. (b \div n + 1) * n = (b \div n) * n + n
  BY <1>1
<1> DEFINE p == (a \div n) * n
           q == (b \div n) * n
<1>5. p \in Int /\ q \in Int
  BY <1>1
<1> HIDE DEF p, q
<1>6. QED
  BY <1>1, <1>3, <1>4, <1>5 DEF p, q

\* A tag is the block number without the set (Access, lines 103-104).
LEMMA DivDiv ==
  ASSUME NEW a \in Nat, NEW m \in Nat \ {0}, NEW n \in Nat \ {0}
  PROVE  a \div (m * n) = (a \div m) \div n
<1> DEFINE q == a \div m
           t == q \div n
<1>1. q \in Nat /\ a % m \in 0 .. m - 1 /\ a = q * m + (a % m)
  BY DivMod
<1>2. t \in Nat /\ q % n \in 0 .. n - 1 /\ q = t * n + (q % n)
  BY <1>1, DivMod
<1> DEFINE s == q % n
           r == a % m
<1> HIDE DEF q, t, s, r
<1>3. a = t * (m * n) + (s * m + r)
  <2>1. a = (t * n + s) * m + r
    BY <1>1, <1>2 DEF s, r
  <2>2. (t * n + s) * m = t * (m * n) + s * m
    BY <1>1, <1>2 DEF s, r
  <2>3. t * (m * n) \in Int /\ s * m \in Int /\ r \in Int
    BY <1>1, <1>2 DEF s, r
  <2>4. QED
    BY <2>1, <2>2, <2>3
<1>4. m * n \in Nat \ {0} /\ s * m + r \in 0 .. m * n - 1
  <2>1. s \in Nat /\ s <= n - 1 /\ r \in 0 .. m - 1
    BY <1>1, <1>2 DEF s, r
  <2>2. s * m \in Nat /\ s * m <= (n - 1) * m
    BY <2>1, MulMonotone
  <2>3. (n - 1) * m = m * n - m /\ m * n \in Int /\ m * n >= m
    <3>1. 1 * m <= n * m
      BY MulMonotone
    <3>2. QED
      BY <3>1
  <2>4. QED
    BY <2>1, <2>2, <2>3
<1>5. a \div (m * n) = t
  BY <1>2, <1>3, <1>4, DivUnique
<1>6. QED
  BY <1>5 DEF t, q

\* Tag and set determine the block.
LEMMA SameBlock ==
  ASSUME NEW b \in Nat, NEW c \in Nat, b % Sets = c % Sets, b \div Sets = c \div Sets
  PROVE  b = c
<1>1. Sets \in Nat \ {0}
  BY CacheAssumption
<1>2. b = (b \div Sets) * Sets + (b % Sets) /\ c = (c \div Sets) * Sets + (c % Sets)
  BY <1>1, DivMod
<1>3. QED
  BY <1>2

\* The arguments are numbers.
LEMMA ArgsAre ==
  ASSUME TypeOK
  PROVE  args.stride \in Nat /\ args.size \in Nat \ {0} /\ args.iteration \in Nat
BY CacheAssumption DEF TypeOK

\* The set and the tag of an access.
LEMMA BlockFacts ==
  ASSUME TypeOK, NEW n \in Nat
  PROVE  /\ AddressOf(n) \in Nat /\ BlockOf(n) \in Nat
         /\ IndexOf(AddressOf(n)) = BlockOf(n) % Sets
         /\ TagOf(AddressOf(n)) = BlockOf(n) \div Sets
         /\ BlockOf(n) % Sets \in Index /\ BlockOf(n) \div Sets \in Nat
<1> DEFINE a == AddressOf(n)
<1>1. a \in Nat
  <2>1. n % args.size \in Nat /\ args.stride \in Nat
    BY ArgsAre, DivMod
  <2>2. (n % args.size) * args.stride \in Nat
    BY <2>1, MulMonotone
  <2>3. QED
    BY <2>2 DEF AddressOf
<1>2. BlockOf(n) = a \div BlockBytes
  BY DEF BlockOf
<1> HIDE DEF a
<1>3. BlockOf(n) \in Nat
  BY <1>1, <1>2, CacheAssumption, DivMod
<1>4. BlockOf(n) % Sets \in Index /\ BlockOf(n) \div Sets \in Nat
  BY <1>3, CacheAssumption, DivMod DEF Index
<1>5. TagOf(a) = BlockOf(n) \div Sets
  <2>1. BlockBytes \in Nat \ {0} /\ Sets \in Nat \ {0}
    BY CacheAssumption
  <2>2. a \div (BlockBytes * Sets) = (a \div BlockBytes) \div Sets
    BY <1>1, <2>1, DivDiv
  <2>3. QED
    BY <1>2, <2>2 DEF TagOf
<1>6. IndexOf(a) = BlockOf(n) % Sets
  BY <1>2 DEF IndexOf
<1>7. QED
  BY <1>1, <1>3, <1>4, <1>5, <1>6 DEF a

\* The walk starts over after size accesses, and every address of a round is
\* one of the first size (lines 74-75).
LEMMA Round ==
  ASSUME TypeOK, NEW n \in Nat
  PROVE  /\ n % args.size \in 0 .. args.size - 1
         /\ BlockOf(n % args.size) = BlockOf(n)
         /\ (n + args.size) % args.size = n % args.size
         /\ BlockOf(n + args.size) = BlockOf(n) /\ AddressOf(n + args.size) = AddressOf(n)
<1> DEFINE d == args.size
           p == n % d
           q == n \div d
<1>1. d \in Nat \ {0}
  BY ArgsAre
<1> HIDE DEF d
<1>2. q \in Nat /\ p \in 0 .. d - 1 /\ n = q * d + p
  BY <1>1, DivMod
<1>3. (n + d) % d = p
  <2> HIDE DEF p, q
  <2>1. n + d = (q + 1) * d + p
    <3>1. (q + 1) * d = q * d + d /\ q * d \in Int
      BY <1>1, <1>2
    <3>2. QED
      BY <1>1, <1>2, <3>1
  <2>2. n + d \in Nat /\ q + 1 \in Nat
    BY <1>1, <1>2
  <2>3. QED
    BY <1>1, <1>2, <2>1, <2>2, DivUnique
<1>4. p % d = p
  <2> HIDE DEF p
  <2>1. p = 0 * d + p /\ p \in Nat
    BY <1>1, <1>2
  <2>2. QED
    BY <1>1, <1>2, <2>1, DivUnique
<1>5. AddressOf(p) = AddressOf(n) /\ AddressOf(n + d) = AddressOf(n)
  BY <1>3, <1>4 DEF AddressOf, d
<1>6. QED
  BY <1>2, <1>3, <1>5 DEF BlockOf, d

\* Within a round the blocks do not go down.
LEMMA RoundGrows ==
  ASSUME TypeOK, NEW m \in 0 .. args.size - 1, NEW n \in 0 .. args.size - 1, m <= n
  PROVE  BlockOf(m) <= BlockOf(n) /\ m % args.size = m
<1>1. args.size \in Nat \ {0} /\ args.stride \in Nat
  BY ArgsAre
<1>2. m \in Nat /\ n \in Nat
  BY <1>1
<1>3. m % args.size = m /\ n % args.size = n
  BY <1>1
<1>4. /\ m * args.stride \in Nat /\ n * args.stride \in Nat
      /\ m * args.stride <= n * args.stride
  BY <1>1, <1>2, MulMonotone
<1>5. AddressOf(m) \in Nat /\ AddressOf(n) \in Nat /\ AddressOf(m) <= AddressOf(n)
  BY <1>3, <1>4 DEF AddressOf
<1>6. QED
  BY <1>3, <1>5, CacheAssumption, DivMonotone DEF BlockOf

\* The blocks of a set are finitely many, and every access is to one.
LEMMA BlocksAre ==
  ASSUME TypeOK, NEW s
  PROVE  /\ IsFiniteSet(BlocksInSet(s)) /\ BlocksInSet(s) \subseteq Nat
         /\ \A n \in Nat : BlockOf(n) % Sets = s => BlockOf(n) \in BlocksInSet(s)
<1> DEFINE R == 0 .. args.size - 1
           B == {BlockOf(n) : n \in R}
           f == [n \in R |-> BlockOf(n)]
<1>1. args.size \in Nat
  BY ArgsAre
<1>2. IsFiniteSet(R)
  BY <1>1, FS_Interval
<1>3. IsFiniteSet(B)
  <2>1. f \in [R -> B] /\ \A b \in B : \E n \in R : f[n] = b
    OBVIOUS
  <2> HIDE DEF f, B, R
  <2>2. f \in Surjection(R, B)
    BY <2>1 DEF Surjection
  <2>3. QED
    BY <1>2, <2>2, FS_Surjection
<1>4. BlocksInSet(s) \subseteq B
  BY DEF BlocksInSet
<1>5. IsFiniteSet(BlocksInSet(s))
  <2> HIDE DEF B
  <2>1. QED
    BY <1>3, <1>4, FS_Subset
<1>6. \A n \in R : n \in Nat
  BY <1>1
<1>7. BlocksInSet(s) \subseteq Nat
  BY <1>4, <1>6, BlockFacts
<1>8. ASSUME NEW n \in Nat, BlockOf(n) % Sets = s PROVE BlockOf(n) \in BlocksInSet(s)
  <2>1. n % args.size \in R /\ BlockOf(n % args.size) = BlockOf(n)
    BY Round
  <2>2. QED
    BY <1>8, <2>1 DEF BlocksInSet
<1>9. QED
  BY <1>5, <1>7, <1>8

\* The ways are Ways many.
LEMMA WaysAre == IsFiniteSet(Way) /\ Cardinality(Way) = Ways
<1>1. 0 \in Int /\ Ways - 1 \in Int /\ ~ (0 > Ways - 1) /\ Ways - 1 - 0 + 1 = Ways
  BY CacheAssumption
<1>2. QED
  BY <1>1, FS_Interval DEF Way

\* A set does not hold more blocks than it has ways.
LEMMA AllHeld ==
  ASSUME TypeOK, NEW s, \A b \in BlocksInSet(s) : \E w \in Way : Holds(w, b)
  PROVE  Cardinality(BlocksInSet(s)) <= Ways
<1> DEFINE B == BlocksInSet(s)
           f == [b \in B |-> CHOOSE w \in Way : Holds(w, b)]
<1>1. \A b \in B : f[b] \in Way /\ Holds(f[b], b)
  OBVIOUS
<1>2. \A b \in B : b \in Nat /\ b % Sets = s
  BY BlocksAre DEF BlocksInSet
<1>3. f \in [B -> Way]
  BY <1>1
<1> HIDE DEF f, B
<1>4. ASSUME NEW b \in B, NEW c \in B, f[b] = f[c] PROVE b = c
  <2>1. b % Sets = c % Sets /\ b \div Sets = c \div Sets
    BY <1>1, <1>2, <1>4 DEF Holds
  <2>2. QED
    BY <1>2, <2>1, SameBlock
<1>5. f \in Injection(B, Way)
  BY <1>3, <1>4 DEF Injection, IsInjective
<1>6. Cardinality(B) <= Cardinality(Way)
  BY <1>5, WaysAre, FS_Injection
<1>7. QED
  BY <1>6, WaysAre DEF B

\* If the ways of a set are full of other blocks, it has more blocks than ways.
LEMMA OneLeftOut ==
  ASSUME CacheInv, LastUses, NEW s \in Index, NEW b \in BlocksInSet(s),
         \A w \in Way : Full(w, s) /\ ~Holds(w, b)
  PROVE  Cardinality(BlocksInSet(s)) > Ways
<1> USE DEF CacheInv
<1> DEFINE at(w) == BlockOf(content[w][s].timeStamp)
           B == BlocksInSet(s) \ {b}
           f == [w \in Way |-> at(w)]
<1>0. \A w \in Way : content[w][s].timeStamp \in Nat
  BY DEF TypeOK, Line
<1>1. \A w \in Way : at(w) % Sets = s /\ at(w) \div Sets = content[w][s].tag
  BY DEF LastUses
<1>2. b \in Nat /\ b % Sets = s
  BY BlocksAre DEF BlocksInSet
<1>3. \A w \in Way : at(w) \in BlocksInSet(s)
  BY <1>0, <1>1, BlocksAre
<1>4. \A w \in Way : at(w) # b
  BY <1>1, <1>2 DEF Holds
<1>5. f \in [Way -> B]
  BY <1>3, <1>4
<1>6. ASSUME NEW v \in Way, NEW w \in Way, f[v] = f[w] PROVE v = w
  <2>1. content[v][s].tag = content[w][s].tag
    BY <1>1, <1>6
  <2>2. QED
    BY <2>1 DEF TagsUnique
<1> HIDE DEF f
<1>7. f \in Injection(Way, B)
  BY <1>5, <1>6 DEF Injection, IsInjective
<1>8. /\ IsFiniteSet(BlocksInSet(s)) /\ IsFiniteSet(B)
      /\ Cardinality(B) = Cardinality(BlocksInSet(s)) - 1
      /\ Cardinality(BlocksInSet(s)) \in Nat
  BY BlocksAre, FS_RemoveElement, FS_CardinalityType
<1>9. Ways <= Cardinality(B)
  BY <1>7, <1>8, WaysAre, FS_Injection
<1>10. QED
  BY <1>8, <1>9, CacheAssumption

\* The places of the round that holds the n-th access, and of the next one.
LEMMA InRound ==
  ASSUME TypeOK, NEW n \in Nat, NEW r \in 0 .. args.size - 1
  PROVE  /\ n - (n % args.size) \in Nat
         /\ BlockOf(n - (n % args.size) + r) = BlockOf(r)
         /\ BlockOf(n - (n % args.size) + r + args.size) = BlockOf(r)
<1> DEFINE d == args.size
           q == n \div d
           m == q * d + r
<1>1. d \in Nat \ {0}
  BY ArgsAre
<1> HIDE DEF d
<1>2. q \in Nat /\ n % d \in 0 .. d - 1 /\ n = q * d + (n % d)
  BY <1>1, DivMod
<1>3. r \in 0 .. d - 1 /\ r \in Nat
  BY <1>1 DEF d
<1> HIDE DEF q
<1>4. q * d \in Nat
  BY <1>1, <1>2, MulMonotone
<1>5. n - (n % d) = q * d
  BY <1>2, <1>4
<1>6. m \in Nat /\ m = q * d + r
  BY <1>3, <1>4
<1> HIDE DEF m
<1>7. m % d = r
  BY <1>1, <1>2, <1>3, <1>6, DivUnique
<1>8. BlockOf(m) = BlockOf(r) /\ BlockOf(m + d) = BlockOf(m)
  BY <1>6, <1>7, Round DEF d
<1>9. QED
  BY <1>4, <1>5, <1>8 DEF m, d

-----------------------------------------------------------------------------
(* What an access does to the blocks that are held.                        *)

\* The line that is written is that of the block accessed last; the one that
\* has to go was used before all others of its set.
LEMMA AccessKeepsUses ==
  ASSUME CacheInv, LastUses, MostRecent, Access(AddressOf(currTime)), args' = args
  PROVE  LastUses' /\ MostRecent'
<1> USE DEF CacheInv
<1> DEFINE b == BlockOf(currTime)
           s == b % Sets
           t == b \div Sets
<1>0. currTime \in Nat
  BY DEF TypeOK
<1>1. b \in Nat /\ s \in Index /\ t \in Int
  BY <1>0, BlockFacts
<1>2. Hit(s, t) \/ Fill(s, t) \/ Replace(s, t)
  BY <1>0, BlockFacts DEF Access
<1> HIDE DEF b, s, t
<1>3. PICK w \in Way :
        /\ ChosenWay(w, s, t) /\ Touch(w, s, t)
        /\ \/ Full(w, s) /\ content[w][s].tag = t
           \/ ~Full(w, s)
           \/ (\A v \in Way : Full(v, s)) /\ w \in Oldest(s)
  BY <1>1, <1>2, AccessChooses
<1>4. /\ currTime' = currTime + 1
      /\ content'[w][s] = [empty |-> FALSE, timeStamp |-> currTime, tag |-> t]
      /\ \A v \in Way, r \in Index :
           v # w \/ r # s => content'[v][r] = content[v][r]
  BY <1>1, <1>3, TouchedLines
<1>5. \A v \in Way, r \in Index : content[v][r].timeStamp \in Nat
  BY DEF TypeOK, Line
<1>6. ASSUME NEW v \in Way, NEW r \in Index, Full(v, r)
      PROVE  /\ BlockOf(content[v][r].timeStamp) \in Nat
             /\ BlockOf(content[v][r].timeStamp) % Sets = r
             /\ BlockOf(content[v][r].timeStamp) \div Sets = content[v][r].tag
             /\ \A m \in 0 .. currTime - 1 :
                  BlockOf(m) = BlockOf(content[v][r].timeStamp) => m <= content[v][r].timeStamp
  BY <1>5, <1>6, BlockFacts DEF LastUses
<1>7. LastUses'
  <2>1. ASSUME NEW r \in Index, NEW v \in Way, ~content'[v][r].empty
        PROVE  /\ BlockOf(content'[v][r].timeStamp) % Sets = r
               /\ BlockOf(content'[v][r].timeStamp) \div Sets = content'[v][r].tag
               /\ \A m \in 0 .. currTime' - 1 :
                    BlockOf(m) = BlockOf(content'[v][r].timeStamp)
                      => m <= content'[v][r].timeStamp
    <3>1. CASE v = w /\ r = s
      <4>1. content'[v][r].timeStamp = currTime /\ content'[v][r].tag = t
        BY <1>4, <3>1
      <4>2. \A m \in 0 .. currTime' - 1 : m <= currTime
        BY <1>0, <1>4
      <4>3. QED
        BY <3>1, <4>1, <4>2 DEF b, s, t
    <3>2. CASE v # w \/ r # s
      <4>1. content'[v][r] = content[v][r] /\ Full(v, r)
        BY <1>4, <2>1, <3>2 DEF Full
      <4>2. BlockOf(content[v][r].timeStamp) # BlockOf(currTime)
        <5>1. SUFFICES ASSUME BlockOf(content[v][r].timeStamp) = b PROVE FALSE
          BY DEF b
        <5>2. r = s /\ content[v][r].tag = t
          BY <1>6, <4>1, <5>1 DEF s, t
        <5>3. QED
          BY <1>3, <3>2, <4>1, <5>2 DEF ChosenWay
      <4>3. \A m \in 0 .. currTime' - 1 : m \in 0 .. currTime - 1 \/ m = currTime
        BY <1>0, <1>4
      <4>4. QED
        BY <1>6, <4>1, <4>2, <4>3
    <3>3. QED
      BY <3>1, <3>2
  <2>2. QED
    BY <2>1 DEF LastUses, BlockOf, AddressOf, Full
<1>8. ASSUME NEW k \in 0 .. currTime
      PROVE  \/ \E v \in Way : /\ ~content'[v][BlockOf(k) % Sets].empty
                               /\ content'[v][BlockOf(k) % Sets].tag = BlockOf(k) \div Sets
             \/ \A v \in Way : /\ ~content'[v][BlockOf(k) % Sets].empty
                               /\ content'[v][BlockOf(k) % Sets].timeStamp > k
  <2> DEFINE c == BlockOf(k)
             r == c % Sets
  <2>1. k \in Nat /\ c \in Nat /\ r \in Index /\ c \div Sets \in Nat
    <3>1. k \in Nat
      BY <1>0
    <3>2. QED
      BY <3>1, BlockFacts
  <2>2. CASE k = currTime
    <3>1. r = s /\ c \div Sets = t
      BY <2>2 DEF b, s, t
    <3>2. QED
      BY <1>4, <3>1
  <2>3. CASE k # currTime
    <3>1. k \in 0 .. currTime - 1
      BY <1>0, <2>3
    <3>2. ASSUME NEW v \in Way, Full(v, r), content[v][r].timeStamp > k
          PROVE  ~content'[v][r].empty /\ content'[v][r].timeStamp > k
      <4>1. CASE v = w /\ r = s
        BY <1>0, <1>4, <3>1, <4>1
      <4>2. CASE v # w \/ r # s
        BY <1>4, <2>1, <3>2, <4>2 DEF Full
      <4>3. QED
        BY <4>1, <4>2
    <3>3. CASE \A v \in Way : Full(v, r) /\ content[v][r].timeStamp > k
      BY <3>2, <3>3
    <3>4. ASSUME NEW v \in Way, Holds(v, c)
          PROVE  \/ \E u \in Way : ~content'[u][r].empty /\ content'[u][r].tag = c \div Sets
                 \/ \A u \in Way : ~content'[u][r].empty /\ content'[u][r].timeStamp > k
      <4>0. Full(v, r) /\ content[v][r].tag = c \div Sets
        BY <3>4 DEF Holds
      <4>1. CASE v # w \/ r # s
        BY <1>4, <2>1, <4>0, <4>1 DEF Full
      <4>2. CASE v = w /\ r = s /\ content[w][s].tag = t
        BY <1>4, <4>0, <4>2
      <4>3. CASE v = w /\ r = s /\ (\A u \in Way : Full(u, s)) /\ w \in Oldest(s)
        <5>1. k <= content[w][s].timeStamp
          <6>1. /\ BlockOf(content[v][r].timeStamp) \in Nat
                /\ BlockOf(content[v][r].timeStamp) % Sets = r
                /\ BlockOf(content[v][r].timeStamp) \div Sets = c \div Sets
            BY <1>6, <2>1, <4>0
          <6> HIDE DEF c
          <6>2. BlockOf(content[v][r].timeStamp) = c
            BY <2>1, <6>1, SameBlock DEF r
          <6>3. QED
            BY <1>6, <2>1, <3>1, <4>0, <4>3, <6>2 DEF c
        <5>2. ASSUME NEW u \in Way
              PROVE  ~content'[u][r].empty /\ content'[u][r].timeStamp > k
          <6>1. CASE u = w
            BY <1>0, <1>4, <3>1, <4>3, <6>1
          <6>2. CASE u # w
            <7>1. content'[u][r] = content[u][s] /\ Full(u, s) /\ Full(w, s)
              BY <1>4, <2>1, <4>3, <6>2
            <7>2. content[w][s].timeStamp <= content[u][s].timeStamp
              BY <4>3 DEF Oldest
            <7>3. content[w][s].timeStamp # content[u][s].timeStamp
              BY <1>1, <6>2, <7>1 DEF StampsUnique
            <7>4. content[w][s].timeStamp \in Nat /\ content[u][s].timeStamp \in Nat
              BY <1>1, <1>5
            <7>5. content[u][s].timeStamp > k
              BY <2>1, <5>1, <7>2, <7>3, <7>4
            <7>6. QED
              BY <7>1, <7>5 DEF Full
          <6>3. QED
            BY <6>1, <6>2
        <5>3. QED
          BY <5>2
      <4>4. QED
        BY <1>3, <4>0, <4>1, <4>2, <4>3
    <3>5. QED
      BY <3>1, <3>3, <3>4 DEF MostRecent
  <2>4. QED
    BY <2>2, <2>3
<1>9. MostRecent'
  <2>1. \A k \in 0 .. currTime' - 1 : k \in 0 .. currTime
    BY <1>0, <1>4
  <2>2. QED
    BY <1>8, <2>1 DEF MostRecent, Holds, BlockOf, AddressOf, Full
<1>10. QED
  BY <1>7, <1>9

-----------------------------------------------------------------------------
(* Which accesses find their block.                                        *)

\* The last use of a block whose set has been reached again is at the end of
\* its own stretch of the round: whatever else the round touches came after.
LEMMA OthersSince ==
  ASSUME TypeOK, NEW n \in Nat, NEW k \in n .. n + args.size - 1,
         BlockOf(k) = BlockOf(n),
         n % args.size = 0 \/ BlockOf(n) # BlockOf(n - 1),
         NEW r \in 0 .. args.size - 1, BlockOf(r) # BlockOf(n)
  PROVE  \E m \in k + 1 .. n + args.size - 1 : BlockOf(m) = BlockOf(r)
<1> DEFINE d == args.size
           p == n % d
           z == n - p
           x == k - z
<1>1. d \in Nat \ {0} /\ p \in 0 .. d - 1 /\ BlockOf(p) = BlockOf(n)
  BY ArgsAre, Round
<1>2. z \in Nat /\ \A q \in 0 .. d - 1 : BlockOf(z + q) = BlockOf(q) /\ BlockOf(z + q + d) = BlockOf(q)
  BY InRound
<1>3. r \in 0 .. d - 1 /\ k \in n .. n + d - 1
  OBVIOUS
<1>4. \A u, v \in 0 .. d - 1 : u <= v => BlockOf(u) <= BlockOf(v)
  BY RoundGrows
<1>5. \A u \in Nat : BlockOf(u) \in Nat
  BY BlockFacts
<1>6. n = z + p
  BY <1>1
<1>7. p = 0 \/ BlockOf(p - 1) # BlockOf(p)
  <2>1. SUFFICES ASSUME p # 0, BlockOf(n) # BlockOf(n - 1) PROVE BlockOf(p - 1) # BlockOf(p)
    OBVIOUS
  <2>2. p - 1 \in 0 .. d - 1 /\ n - 1 = z + (p - 1)
    <3> HIDE DEF d, p, z
    <3>1. QED
      BY <1>1, <1>2, <1>6, <2>1
  <2>3. BlockOf(n - 1) = BlockOf(p - 1)
    BY <1>2, <2>2
  <2>4. QED
    BY <1>1, <2>1, <2>3
<1>8. k = z + x /\ x \in p .. p + d - 1
  <2>1. n \in Nat /\ k \in Int
    BY <1>1
  <2> HIDE DEF d, p, z
  <2>2. QED
    BY <1>1, <1>2, <1>3, <1>6, <2>1
<1>9. BlockOf(k) = BlockOf(p) /\ BlockOf(r) # BlockOf(p)
  BY <1>1
<1> HIDE DEF d, p, z, x
<1>10. x <= d - 1
  <2>1. SUFFICES ASSUME x >= d PROVE FALSE
    BY <1>1, <1>8
  <2>2. x - d \in 0 .. p - 1 /\ x - d \in 0 .. d - 1 /\ p - 1 \in 0 .. d - 1 /\ p # 0
    BY <1>1, <1>8, <2>1
  <2>3. z + (x - d) + d = z + x
    BY <1>1, <1>2, <1>8
  <2>4. BlockOf(x - d) = BlockOf(p)
    BY <1>2, <1>8, <1>9, <2>2, <2>3
  <2>5. BlockOf(x - d) <= BlockOf(p - 1) /\ BlockOf(p - 1) <= BlockOf(p)
    BY <1>1, <1>4, <2>2
  <2>6. BlockOf(p - 1) \in Nat /\ BlockOf(p) \in Nat
    BY <1>1, <1>5, <2>2
  <2>7. QED
    BY <1>7, <2>2, <2>4, <2>5, <2>6
<1>11. x \in 0 .. d - 1 /\ BlockOf(x) = BlockOf(p)
  BY <1>1, <1>2, <1>8, <1>9, <1>10
<1>12. r < p \/ r > x
  <2>1. SUFFICES ASSUME p <= r, r <= x PROVE FALSE
    BY <1>1, <1>3, <1>11
  <2>2. BlockOf(p) <= BlockOf(r) /\ BlockOf(r) <= BlockOf(x)
    BY <1>1, <1>3, <1>4, <1>11, <2>1
  <2>3. BlockOf(r) \in Nat /\ BlockOf(p) \in Nat
    BY <1>1, <1>3, <1>5
  <2>4. QED
    BY <1>9, <1>11, <2>2, <2>3
<1>13. \E m \in k + 1 .. n + d - 1 : BlockOf(m) = BlockOf(r)
  <2>1. CASE r > x
    <3>1. z + r \in k + 1 .. n + d - 1
      BY <1>1, <1>2, <1>3, <1>6, <1>8, <1>11, <2>1
    <3>2. QED
      BY <1>2, <1>3, <3>1
  <2>2. CASE r < p
    <3>1. z + r + d \in k + 1 .. n + d - 1
      BY <1>1, <1>2, <1>3, <1>6, <1>8, <1>11, <2>2
    <3>2. QED
      BY <1>2, <1>3, <3>1
  <2>3. QED
    BY <1>12, <2>1, <2>2
<1>14. QED
  BY <1>13 DEF d

\* In the logged phase a block is missing when its set has more blocks than
\* ways and the access before was to another one, and only then.
LEMMA MissesThrash ==
  ASSUME CacheInv, LastUses, MostRecent, NEW n \in Nat, currTime = args.size + n
  PROVE  (\A w \in Way : ~Holds(w, BlockOf(n))) <=> Thrashes(n)
<1> USE DEF CacheInv
<1> DEFINE d == args.size
           b == BlockOf(n)
           s == b % Sets
<1>1. d \in Nat \ {0} /\ currTime \in Nat /\ currTime = d + n
  BY ArgsAre
<1>2. b \in Nat /\ s \in Index /\ b \in BlocksInSet(s)
  BY BlockFacts, BlocksAre
<1>3. \A v \in Way, r \in Index : content[v][r].timeStamp \in Nat
  BY DEF TypeOK, Line
<1>4. ASSUME NEW v \in Way, NEW r \in Index, Full(v, r)
      PROVE  content[v][r].timeStamp < currTime
  BY <1>4 DEF StampsUnique
<1>5. Way # {}
  <2>1. 0 \in Way
    BY CacheAssumption DEF Way
  <2>2. QED
    BY <2>1
<1>6. ASSUME \A w \in Way : ~Holds(w, b), ~Thrashes(n) PROVE FALSE
  <2>1. n \in 0 .. currTime - 1
    BY <1>1
  <2>2. \A w \in Way : Full(w, s)
    BY <1>6, <2>1 DEF MostRecent
  <2>3. Cardinality(BlocksInSet(s)) > Ways
    BY <1>2, <1>6, <2>2, OneLeftOut
  <2>4. n % d # 0 /\ BlockOf(n - 1) = b
    BY <1>6, <2>3 DEF Thrashes
  <2>5. n # 0
    BY <1>1, <2>4
  <2>6. d + n - 1 \in 0 .. currTime - 1 /\ n - 1 \in Nat /\ d + n - 1 = (n - 1) + d
    BY <1>1, <2>5
  <2>7. BlockOf(d + n - 1) = b
    BY <2>4, <2>6, Round
  <2>8. \A w \in Way : Full(w, s) /\ content[w][s].timeStamp > d + n - 1
    BY <1>6, <2>6, <2>7 DEF MostRecent
  <2>9. PICK w \in Way : Full(w, s) /\ content[w][s].timeStamp > d + n - 1
    BY <1>5, <2>8
  <2>10. content[w][s].timeStamp < currTime /\ content[w][s].timeStamp \in Nat
    BY <1>2, <1>3, <1>4, <2>9
  <2>11. QED
    BY <1>1, <2>9, <2>10
<1>7. ASSUME Thrashes(n), NEW w \in Way, Holds(w, b) PROVE FALSE
  <2> DEFINE k == content[w][s].timeStamp
  <2>1. Full(w, s) /\ content[w][s].tag = b \div Sets /\ k \in Nat /\ k < currTime
    BY <1>2, <1>3, <1>4, <1>7 DEF Holds
  <2>2. /\ BlockOf(k) \in Nat /\ BlockOf(k) % Sets = s /\ BlockOf(k) \div Sets = b \div Sets
        /\ \A m \in 0 .. currTime - 1 : BlockOf(m) = BlockOf(k) => m <= k
    BY <1>2, <2>1, BlockFacts DEF LastUses
  <2>3. BlockOf(k) = b
    <3> HIDE DEF b
    <3>1. QED
      BY <1>2, <2>2, SameBlock
  <2>4. n \in 0 .. currTime - 1
    BY <1>1
  <2>5. k \in n .. n + d - 1
    <3>1. n <= k
      BY <2>2, <2>3, <2>4
    <3> HIDE DEF k, d
    <3>2. QED
      BY <1>1, <2>1, <3>1
  <2>6. ASSUME NEW c \in BlocksInSet(s) PROVE \E v \in Way : Holds(v, c)
    <3>1. PICK r \in 0 .. d - 1 : c = BlockOf(r) /\ c % Sets = s
      BY DEF BlocksInSet
    <3>2. CASE c = b
      BY <1>7, <3>2
    <3>3. CASE c # b
      <4>1. n % d = 0 \/ BlockOf(n) # BlockOf(n - 1)
        BY <1>7 DEF Thrashes
      <4> HIDE DEF k
      <4>2. PICK m \in k + 1 .. n + d - 1 : BlockOf(m) = c
        BY <2>3, <2>5, <3>1, <3>3, <4>1, OthersSince
      <4>3. m \in 0 .. currTime - 1 /\ m > k
        BY <1>1, <2>1
      <4>4. ~(k > m)
        BY <2>1, <4>3
      <4>5. QED
        BY <3>1, <4>2, <4>3, <4>4 DEF MostRecent, k
    <3>4. QED
      BY <3>2, <3>3
  <2>7. Cardinality(BlocksInSet(s)) <= Ways
    BY <2>6, AllHeld
  <2>8. Cardinality(BlocksInSet(s)) > Ways
    BY <1>7 DEF Thrashes
  <2>9. Cardinality(BlocksInSet(s)) \in Nat
    BY BlocksAre, FS_CardinalityType
  <2>10. QED
    BY <2>7, <2>8, <2>9, CacheAssumption
<1>8. QED
  BY <1>6, <1>7

\* A logged access counts a hit if the block is there and a miss if not; in the
\* warm-up nothing is counted (lines 120, 133 and 149).
LEMMA Counted ==
  ASSUME Access(AddressOf(i)), TypeOK
  PROVE  /\ ~isLog => missCount' = missCount /\ hitCount' = hitCount
         /\ isLog /\ (\E w \in Way : Holds(w, BlockOf(i))) =>
              missCount' = missCount /\ hitCount' = hitCount + 1
         /\ isLog /\ (\A w \in Way : ~Holds(w, BlockOf(i))) =>
              missCount' = missCount + 1 /\ hitCount' = hitCount
<1> DEFINE s == IndexOf(AddressOf(i))
           t == TagOf(AddressOf(i))
<1>1. s = BlockOf(i) % Sets /\ t = BlockOf(i) \div Sets
  BY BlockFacts DEF TypeOK
<1>2. Matching(s, t) # {} <=> \E w \in Way : Holds(w, BlockOf(i))
  BY <1>1 DEF Matching, Holds, Full
<1>3. Hit(s, t) \/ Fill(s, t) \/ Replace(s, t)
  BY DEF Access
<1> HIDE DEF s, t
<1>4. \/ Matching(s, t) # {} /\ CountHit
      \/ Matching(s, t) = {} /\ CountMiss
  BY <1>3 DEF Hit, Fill, Replace
<1>5. QED
  BY <1>2, <1>4 DEF CountHit, CountMiss

\* The address of the next access (lines 65, 73-75).
LEMMA NextAddress ==
  ASSUME TypeOK
  PROVE  /\ i * args.stride * 8 + args.stride * 8 = (i + 1) * args.stride * 8
         /\ i < args.size => AddressOf(i) = i * args.stride * 8
         /\ AddressOf(i + 1) = IF i % args.size = args.size - 1
                               THEN 0
                               ELSE AddressOf(i) + args.stride * 8
<1> DEFINE d == args.size
           e == args.stride
           p == i % d
           q == i \div d
<1>1. i \in Nat /\ d \in Nat \ {0} /\ e \in Nat
  BY ArgsAre DEF TypeOK
<1>2. q \in Nat /\ p \in 0 .. d - 1 /\ i = q * d + p
  BY <1>1, DivMod
<1>3. ASSUME NEW m \in Nat PROVE m * e * 8 + e * 8 = (m + 1) * e * 8
  <2> HIDE DEF e
  <2>1. (m + 1) * e = m * e + e /\ m * e \in Nat
    BY <1>1
  <2>2. QED
    BY <1>1, <2>1
<1>4. i < d => p = i
  BY <1>1
<1> HIDE DEF d, e, p, q
<1>5. i + 1 \in Nat /\ q * d \in Nat
  BY <1>1, <1>2, MulMonotone
<1>6. CASE p = d - 1
  <2>1. i + 1 = (q + 1) * d + 0
    <3>1. (q + 1) * d = q * d + d
      BY <1>1, <1>2
    <3>2. QED
      BY <1>1, <1>2, <1>5, <1>6, <3>1
  <2>2. (i + 1) % d = 0
    BY <1>1, <1>2, <1>5, <2>1, DivUnique
  <2>3. AddressOf(i + 1) = 0
    BY <1>1, <2>2 DEF AddressOf, d, e
  <2>4. QED
    BY <1>1, <1>3, <1>4, <1>6, <2>3 DEF AddressOf, d, e, p
<1>7. CASE p # d - 1
  <2>1. i + 1 = q * d + (p + 1) /\ p + 1 \in 0 .. d - 1
    BY <1>1, <1>2, <1>5, <1>7
  <2>2. (i + 1) % d = p + 1
    BY <1>1, <1>2, <1>5, <2>1, DivUnique
  <2>3. AddressOf(i + 1) = (p + 1) * e * 8 /\ AddressOf(i) = p * e * 8
    BY <2>2 DEF AddressOf, d, e, p
  <2>4. p \in Nat
    BY <1>1, <1>2
  <2>5. QED
    BY <1>1, <1>3, <1>4, <1>7, <2>3, <2>4 DEF d, e, p
<1>8. QED
  BY <1>6, <1>7

\* The simulator starts at the beginning of the walk with an empty cache.
LEMMA WalkInvInit == Init => WalkInv
<1> SUFFICES ASSUME Init PROVE WalkInv
  OBVIOUS
<1>1. CacheInv
  BY CacheInvInit
<1>2. LastUses
  BY DEF LastUses, Init, CacheInit, Full
<1>3. MostRecent
  BY DEF MostRecent, Init, CacheInit
<1>4. OnWalk
  <2>1. args.size \in Nat /\ args.stride \in Nat
    BY <1>1, ArgsAre DEF CacheInv
  <2>2. 0 * args.stride * 8 = 0
    BY <2>1
  <2>3. isLog = (pc # "warm")
    BY DEF Init, CacheInit
  <2>4. pc = "warm" /\ currTime = i /\ i <= args.size
    BY <2>1 DEF Init, CacheInit
  <2>5. currentAddress = i * args.stride * 8 /\ missCount = 0 /\ hitCount = 0
    BY <2>2 DEF Init, CacheInit
  <2>6. QED
    BY <2>3, <2>4, <2>5 DEF OnWalk
<1>5. MissesAreConflictMisses
  BY DEF MissesAreConflictMisses, Init
<1>6. QED
  BY <1>1, <1>2, <1>3, <1>4, <1>5 DEF WalkInv

\* One more access in a set of those that miss.
LEMMA OneMore ==
  ASSUME NEW n \in Nat, NEW T
  PROVE  /\ IsFiniteSet({m \in 0 .. n - 1 : m \in T})
         /\ Cardinality({m \in 0 .. n - 1 : m \in T}) \in Nat
         /\ Cardinality({m \in 0 .. n : m \in T}) =
              Cardinality({m \in 0 .. n - 1 : m \in T}) + (IF n \in T THEN 1 ELSE 0)
<1> DEFINE A == {m \in 0 .. n - 1 : m \in T}
           B == {m \in 0 .. n : m \in T}
<1>1. IsFiniteSet(A)
  <2>1. IsFiniteSet(0 .. n - 1)
    BY FS_Interval
  <2>2. QED
    BY <2>1, FS_Subset
<1>2. IF n \in T THEN B = A \cup {n} ELSE B = A
  OBVIOUS
<1>3. n \notin A
  OBVIOUS
<1> HIDE DEF A, B
<1>4. Cardinality(A) \in Nat
  BY <1>1, FS_CardinalityType
<1>5. Cardinality(B) = Cardinality(A) + (IF n \in T THEN 1 ELSE 0)
  BY <1>1, <1>2, <1>3, <1>4, FS_AddElement
<1>6. QED
  BY <1>1, <1>4, <1>5 DEF A, B

\* Every step of main keeps the counters equal to what the walk lets one expect.
LEMMA WalkInvStep == WalkInv /\ [Next]_vars => WalkInv'
<1> SUFFICES ASSUME WalkInv, [Next]_vars PROVE WalkInv'
  OBVIOUS
<1> USE DEF WalkInv
<1>1. CacheInv'
  BY CacheInvStep
<1>2. TypeOK /\ TypeOK'
  BY <1>1 DEF CacheInv
<1>3. /\ i \in Nat /\ args.size \in Nat \ {0} /\ args.stride \in Nat
      /\ currTime \in Nat /\ pc \in {"warm", "logged", "done"}
      /\ missCount \in Nat /\ hitCount \in Nat
  BY <1>2, ArgsAre DEF TypeOK
<1>4. ASSUME UNCHANGED <<content, currTime, args>> PROVE LastUses' /\ MostRecent'
  BY <1>4 DEF LastUses, MostRecent, Holds, BlockOf, AddressOf, Full
<1>5. CASE WarmUp
  <2>1. currentAddress = AddressOf(i) /\ currTime = i /\ ~isLog /\ i < args.size
    BY <1>2, <1>5, NextAddress DEF WarmUp, OnWalk
  <2>2. Access(AddressOf(i)) /\ Access(AddressOf(currTime)) /\ args' = args
    BY <1>5, <2>1 DEF WarmUp
  <2>3. LastUses' /\ MostRecent'
    BY <2>2, AccessKeepsUses
  <2>4. currTime' = currTime + 1
    BY <2>2 DEF Access, Hit, Fill, Replace, Touch
  <2>5. OnWalk'
    <3>1. /\ pc = "warm" /\ pc' = "warm" /\ isLog' = isLog /\ i' = i + 1 /\ i + 1 <= args.size
          /\ currentAddress' = currentAddress + args.stride * 8
      BY <1>3, <1>5, <2>1 DEF WarmUp
    <3>2. missCount' = 0 /\ hitCount' = 0
      BY <1>2, <2>1, <2>2, <3>1, Counted DEF OnWalk
    <3>3. currentAddress' = i' * args.stride * 8
      BY <1>2, <2>1, <3>1, NextAddress
    <3>4. QED
      BY <2>1, <2>2, <2>4, <3>1, <3>2, <3>3 DEF OnWalk
  <2>6. MissesAreConflictMisses'
    BY <1>5 DEF WarmUp, MissesAreConflictMisses
  <2>7. QED
    BY <1>1, <2>3, <2>5, <2>6
<1>6. CASE StartLog
  <2>1. /\ pc = "warm" /\ pc' = "logged" /\ i = args.size /\ i' = 0 /\ currentAddress' = 0
        /\ isLog' = TRUE /\ missCount' = 0 /\ hitCount' = 0
        /\ UNCHANGED <<content, currTime, args>>
    BY <1>3, <1>6 DEF StartLog, OnWalk
  <2>2. OnWalk'
    <3>1. AddressOf(0)' = 0
      <4>1. 0 % args.size = 0 /\ 0 * args.stride * 8 = 0
        BY <1>3
      <4>2. QED
        BY <2>1, <4>1 DEF AddressOf
    <3>2. currTime' = args'.size + i'
      BY <1>3, <2>1 DEF OnWalk
    <3>3. QED
      BY <2>1, <3>1, <3>2 DEF OnWalk
  <2>3. MissesAreConflictMisses'
    <3>1. {n \in 0 .. i - 1 : Thrashes(n)}' = {}
      BY <2>1
    <3>2. QED
      BY <2>1, <3>1, FS_EmptySet DEF MissesAreConflictMisses
  <2>4. QED
    BY <1>1, <1>4, <2>1, <2>2, <2>3
<1>7. CASE LoggedAccess
  <2>1. /\ pc = "logged" /\ pc' = "logged" /\ isLog /\ isLog' /\ i' = i + 1 /\ args' = args
        /\ currentAddress = AddressOf(i) /\ currTime = args.size + i
        /\ currentAddress' = IF i % args.size = args.size - 1
                             THEN 0 ELSE currentAddress + args.stride * 8
    BY <1>7 DEF LoggedAccess, OnWalk
  <2>2. AddressOf(currTime) = AddressOf(i)
    <3>1. currTime = i + args.size
      BY <1>3, <2>1
    <3>2. QED
      BY <1>2, <1>3, <3>1, Round
  <2>3. Access(AddressOf(i)) /\ Access(AddressOf(currTime))
    BY <1>7, <2>1, <2>2 DEF LoggedAccess
  <2>4. LastUses' /\ MostRecent'
    BY <2>1, <2>3, AccessKeepsUses
  <2>5. currTime' = currTime + 1
    BY <2>3 DEF Access, Hit, Fill, Replace, Touch
  <2>6. OnWalk'
    <3>1. currentAddress' = AddressOf(i + 1)
      BY <1>2, <2>1, NextAddress
    <3>2. currTime' = args.size + (i + 1)
      <4>1. currTime = args.size + i
        BY <2>1
      <4>2. QED
        BY <1>3, <2>5, <4>1
    <3>3. QED
      BY <2>1, <3>1, <3>2 DEF OnWalk, AddressOf
  <2>7. MissesAreConflictMisses'
    <3> DEFINE T == {m \in Nat : Thrashes(m)}
               Old == {m \in 0 .. i - 1 : m \in T}
               New == {m \in 0 .. i : m \in T}
    <3>1. Cardinality(Old) \in Nat /\ Cardinality(New) = Cardinality(Old) + (IF i \in T THEN 1 ELSE 0)
      <4> HIDE DEF T
      <4>1. QED
        BY <1>3, OneMore
    <3>2. {m \in 0 .. i - 1 : Thrashes(m)} = Old
      BY <1>3
    <3>3. {m \in 0 .. i - 1 : Thrashes(m)}' = New
      <4>1. \A m : Thrashes(m)' = Thrashes(m)
        BY <2>1 DEF Thrashes, BlocksInSet, BlockOf, AddressOf
      <4>2. i' - 1 = i
        BY <1>3, <2>1
      <4>3. QED
        BY <1>3, <4>1, <4>2
    <3>4. missCount = Cardinality(Old) /\ hitCount = i - missCount
      BY <2>1, <3>2 DEF MissesAreConflictMisses
    <3>5. (\A w \in Way : ~Holds(w, BlockOf(i))) <=> i \in T
      BY <1>3, <2>1, MissesThrash
    <3> HIDE DEF T, Old, New
    <3>6. CASE i \in T
      <4>1. missCount' = missCount + 1 /\ hitCount' = hitCount
        BY <1>2, <2>1, <2>3, <3>5, <3>6, Counted
      <4>2. missCount' = Cardinality(New) /\ hitCount' = i' - missCount'
        BY <1>3, <2>1, <3>1, <3>4, <3>6, <4>1
      <4>3. QED
        BY <3>3, <4>2 DEF MissesAreConflictMisses
    <3>7. CASE i \notin T
      <4>1. missCount' = missCount /\ hitCount' = hitCount + 1
        BY <1>2, <2>1, <2>3, <3>5, <3>7, Counted
      <4>2. missCount' = Cardinality(New) /\ hitCount' = i' - missCount'
        BY <1>3, <2>1, <3>1, <3>4, <3>7, <4>1
      <4>3. QED
        BY <3>3, <4>2 DEF MissesAreConflictMisses
    <3>8. QED
      BY <3>6, <3>7
  <2>8. QED
    BY <1>1, <2>4, <2>6, <2>7
<1>8. ASSUME UNCHANGED <<content, currTime, isLog, hitCount, missCount, args, i, currentAddress>>,
             pc' = pc \/ (pc = "logged" /\ pc' = "done")
      PROVE  WalkInv'
  <2>1. OnWalk'
    BY <1>8 DEF OnWalk, AddressOf
  <2>2. MissesAreConflictMisses'
    BY <1>8 DEF MissesAreConflictMisses, Thrashes, BlocksInSet, BlockOf, AddressOf
  <2>3. QED
    BY <1>1, <1>4, <1>8, <2>1, <2>2
<1>9. CASE ShowStatistics
  BY <1>8, <1>9 DEF ShowStatistics
<1>10. CASE UNCHANGED vars
  BY <1>8, <1>10 DEF vars
<1>11. QED
  BY <1>5, <1>6, <1>7, <1>9, <1>10 DEF Next, Exited

\* Whatever the cache and the walk, the miss counter is the number of logged
\* accesses that enter a new block of a set with more blocks than ways, and all
\* other accesses are counted as hits (main, lines 68-77).
THEOREM ConflictMissesCounted == Spec => []MissesAreConflictMisses
<1>1. Spec => []WalkInv
  BY WalkInvInit, WalkInvStep, PTL DEF Spec
<1>2. WalkInv => MissesAreConflictMisses
  BY DEF WalkInv
<1>3. QED
  BY <1>1, <1>2, PTL
=============================================================================
