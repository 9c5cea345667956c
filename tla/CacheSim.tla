------------------------------ MODULE CacheSim ------------------------------
(***************************************************************************)
(* The cache simulator MemoryTest/GlobalMemory/CacheSim: the class         *)
(* Cache_Template, a set-associative cache that replaces the line with the *)
(* oldest time stamp, and the main program, which touches size addresses   *)
(* one stride apart to warm the cache up and then walks over the same      *)
(* addresses, round and round, for iteration logged accesses.              *)
(***************************************************************************)
EXTENDS Integers, FiniteSets

CONSTANTS
  Ways,       \* associativity
  Sets,       \* 1 << indexBit
  BlockBytes, \* 1 << blockBit
  Strides,    \* the values of <Stride> on the command line, in 8-byte words
  Sizes,      \* the values of <Size>
  Iterations  \* the values of <Iteration>

\* main divides by size and Access needs a way to replace, so both are at
\* least one; nothing in the proofs needs Sets or BlockBytes to be a power of 2.
ASSUME CacheAssumption ==
  /\ Ways \in Nat \ {0} /\ Sets \in Nat \ {0} /\ BlockBytes \in Nat \ {0}
  /\ Strides \subseteq Nat /\ Sizes \subseteq Nat \ {0} /\ Iterations \subseteq Nat

VARIABLES
  content,         \* content[w][s]: the line of set s in way w
  currTime,        \* the time stamp of the next access
  isLog,           \* statistics are being counted
  hitCount,
  missCount,
  args,            \* the command line
  i,               \* loop counter of main
  currentAddress,
  pc               \* "warm", "logged" or "done"

cacheVars == <<content, currTime, isLog, hitCount, missCount>>
vars == <<content, currTime, isLog, hitCount, missCount, args, i, currentAddress, pc>>

Way   == 0 .. Ways - 1
Index == 0 .. Sets - 1
Line  == [empty : BOOLEAN, timeStamp : Nat, tag : Int]

IndexOf(address) == (address \div BlockBytes) % Sets
TagOf(address)   == address \div (BlockBytes * Sets)

-----------------------------------------------------------------------------
(***************************************************************************)
(* Cache_Template::Access.  The first loop looks for the tag, the second   *)
(* for an empty way and, on the way, for the line with the oldest stamp.   *)
(***************************************************************************)
FirstOf(S) == CHOOSE w \in S : \A v \in S : w <= v

Matching(s, t) == {w \in Way : ~content[w][s].empty /\ content[w][s].tag = t}
Empty(s)       == {w \in Way : content[w][s].empty}

\* Mutant of Oldest: the victim search keeps the newest stamp.
MutOldest(s) == {w \in Way : \A v \in Way : content[w][s].timeStamp >= content[v][s].timeStamp}

Oldest(s) == {w \in Way : \A v \in Way : content[w][s].timeStamp <= content[v][s].timeStamp}

\* Mutant of Touch: the clock is read but not advanced.
MutTouch(w, s, t) ==
  /\ content' = [content EXCEPT ![w][s] = [empty |-> FALSE, timeStamp |-> currTime, tag |-> t]]
  /\ UNCHANGED currTime

\* Writes the line of way w and stamps it with currTime++.
Touch(w, s, t) ==
  /\ content' = [content EXCEPT ![w][s] = [empty |-> FALSE, timeStamp |-> currTime, tag |-> t]]
  /\ currTime' = currTime + 1

CountHit ==
  /\ hitCount' = IF isLog THEN hitCount + 1 ELSE hitCount
  /\ UNCHANGED missCount

\* Mutant of CountMiss: the misses of the warm-up are counted too.
MutCountMiss ==
  /\ missCount' = missCount + 1
  /\ UNCHANGED hitCount

CountMiss ==
  /\ missCount' = IF isLog THEN missCount + 1 ELSE missCount
  /\ UNCHANGED hitCount

\* Mutant of Hit: a hit takes a fresh way instead of the one that matched.
MutHit(s, t) ==
  /\ Matching(s, t) # {}
  /\ Touch(FirstOf(Oldest(s)), s, t)
  /\ CountHit

Hit(s, t) ==
  /\ Matching(s, t) # {}
  /\ Touch(FirstOf(Matching(s, t)), s, t)
  /\ CountHit

Fill(s, t) ==
  /\ Matching(s, t) = {}
  /\ Empty(s) # {}
  /\ Touch(FirstOf(Empty(s)), s, t)
  /\ CountMiss

Replace(s, t) ==
  /\ Matching(s, t) = {}
  /\ Empty(s) = {}
  /\ Touch(FirstOf(Oldest(s)), s, t)
  /\ CountMiss

Access(address) ==
  LET s == IndexOf(address)
      t == TagOf(address)
  IN  Hit(s, t) \/ Fill(s, t) \/ Replace(s, t)

-----------------------------------------------------------------------------
(***************************************************************************)
(* main.                                                                   *)
(***************************************************************************)
CacheInit ==
  /\ content = [w \in Way |-> [s \in Index |-> [empty |-> TRUE, timeStamp |-> 0, tag |-> 0]]]
  /\ currTime = 0
  /\ isLog = FALSE
  /\ hitCount = 0
  /\ missCount = 0

Init ==
  /\ CacheInit
  /\ args \in [stride : Strides, size : Sizes, iteration : Iterations]
  /\ i = 0
  /\ currentAddress = 0
  /\ pc = "warm"

WarmUp ==
  /\ pc = "warm"
  /\ i < args.size
  /\ Access(currentAddress)
  /\ currentAddress' = currentAddress + args.stride * 8
  /\ i' = i + 1
  /\ UNCHANGED <<isLog, args, pc>>

StartLog ==
  /\ pc = "warm"
  /\ i >= args.size
  /\ isLog' = TRUE
  /\ currentAddress' = 0
  /\ i' = 0
  /\ pc' = "logged"
  /\ UNCHANGED <<content, currTime, hitCount, missCount, args>>

LoggedAccess ==
  /\ pc = "logged"
  /\ i < args.iteration
  /\ Access(currentAddress)
  /\ currentAddress' = IF i % args.size = args.size - 1
                       THEN 0
                       ELSE currentAddress + args.stride * 8
  /\ i' = i + 1
  /\ UNCHANGED <<isLog, args, pc>>

ShowStatistics ==
  /\ pc = "logged"
  /\ i >= args.iteration
  /\ pc' = "done"
  /\ UNCHANGED <<content, currTime, isLog, hitCount, missCount, args, i, currentAddress>>

Exited == pc = "done" /\ UNCHANGED vars

Next == WarmUp \/ StartLog \/ LoggedAccess \/ ShowStatistics \/ Exited

Spec == Init /\ [][Next]_vars

-----------------------------------------------------------------------------
TypeOK ==
  /\ content \in [Way -> [Index -> Line]]
  /\ currTime \in Nat
  /\ isLog \in BOOLEAN
  /\ hitCount \in Nat
  /\ missCount \in Nat
  /\ args \in [stride : Strides, size : Sizes, iteration : Iterations]
  /\ i \in Nat
  /\ currentAddress \in Nat
  /\ pc \in {"warm", "logged", "done"}

Full(w, s) == ~content[w][s].empty

\* No tag is held twice in a set: the hit loop of Access stops at the first
\* match (lines 109-113), so a second copy would go stale unseen.
TagsUnique ==
  \A s \in Index : \A v, w \in Way :
    /\ Full(v, s) /\ Full(w, s)
    /\ content[v][s].tag = content[w][s].tag
    => v = w

\* The lines of a set have pairwise different stamps, all of the past: the
\* victim search (lines 138-142) has exactly one oldest line to find.
StampsUnique ==
  \A s \in Index : \A v, w \in Way :
    Full(v, s) /\ Full(w, s) =>
      /\ content[v][s].timeStamp < currTime
      /\ content[v][s].timeStamp = content[w][s].timeStamp => v = w

(***************************************************************************)
(* The simulator implements least-recently-used replacement.               *)
(***************************************************************************)
Resident == [s \in Index |-> {content[w][s].tag : w \in {v \in Way : Full(v, s)}}]

UsedBefore(s, t, u) ==
  \E v, w \in Way :
    /\ Full(v, s) /\ content[v][s].tag = t
    /\ Full(w, s) /\ content[w][s].tag = u
    /\ content[v][s].timeStamp < content[w][s].timeStamp

Older ==
  [s \in Index |-> {p \in Resident[s] \X Resident[s] : UsedBefore(s, p[1], p[2])}]

Abstract == INSTANCE LRU WITH resident <- Resident, older <- Older

\* Every access of the time-stamp cache (lines 101-151) is an access of the
\* cache that keeps only the use order of the tags: a hit refreshes a tag, an
\* empty way is used before anything is evicted, and the least recently used
\* tag is the one that goes.
ImplementsLRU == Abstract!LSpec

-----------------------------------------------------------------------------
(***************************************************************************)
(* The step function the benchmark is built on: a walk whose blocks fit    *)
(* into their sets never misses once the cache is warm, and a set with     *)
(* more blocks than ways misses on every new block of every round.         *)
(***************************************************************************)
AddressOf(n)   == (n % args.size) * args.stride * 8
BlockOf(n)     == AddressOf(n) \div BlockBytes
BlocksInSet(s) == {b \in {BlockOf(n) : n \in 0 .. args.size - 1} : b % Sets = s}

Thrashes(n) ==
  /\ Cardinality(BlocksInSet(BlockOf(n) % Sets)) > Ways
  /\ n % args.size = 0 \/ BlockOf(n) # BlockOf(n - 1)

\* At every moment of the logged phase (lines 68-77) the miss counter is the
\* number of logged accesses that entered a new block of an over-subscribed
\* set, and every other access was counted as a hit.
MissesAreConflictMisses ==
  pc # "warm" =>
    /\ missCount = Cardinality({n \in 0 .. i - 1 : Thrashes(n)})
    /\ hitCount = i - missCount
=============================================================================
