--------------------------- MODULE IdempotencyProofs ---------------------------
(***************************************************************************)
(* What a chain of idempotency checkers, one for each run, remembers of    *)
(* the requests processed before: the code hands from one to the next      *)
(* nothing but the time of the newest.                                     *)
(***************************************************************************)
EXTENDS Idempotency, WellFoundedInduction, TLAPS

USE IdempotencyAssumption

\* Bounded naturals have a greatest one: the least of their upper bounds.
LEMMA MaxOfBounded ==
  ASSUME NEW n \in Nat, NEW S \in SUBSET (0..n), S # {}
  PROVE  Max(S) \in S /\ \A x \in S : Max(S) >= x
  <1> DEFINE Less == {p \in Nat \X Nat : p[1] < p[2]}
             Bounds == {b \in Nat : \A x \in S : x <= b}
  <1>1. IsWellFoundedOn(Less, Nat)
    BY NatLessThanWellFounded DEF OpToRel
  <1>2. n \in Bounds /\ Bounds \subseteq Nat
    OBVIOUS
  <1>3. PICK b \in Bounds : \A c \in Bounds : <<c, b>> \notin Less
    BY <1>1, <1>2, WFMin
  <1>4. \A c \in Bounds : ~(c < b)
    <2> SUFFICES ASSUME NEW c \in Bounds, c < b PROVE FALSE
      OBVIOUS
    <2>1. <<c, b>> \in Nat \X Nat /\ <<c, b>>[1] = c /\ <<c, b>>[2] = b
      OBVIOUS
    <2>2. <<c, b>> \in Less
      BY <2>1
    <2> QED
      BY <1>3, <2>2
  <1>5. b \in Nat /\ \A x \in S : x \in Nat /\ x <= b
    OBVIOUS
  <1>6. b \in S
    <2> SUFFICES ASSUME b \notin S PROVE FALSE
      OBVIOUS
    <2>1. \A x \in S : x <= b - 1
      BY <1>5
    <2>2. b - 1 \in Nat
      <3>1. PICK x \in S : TRUE
        OBVIOUS
      <3>2. x \in Nat /\ x <= b - 1
        BY <1>5, <2>1
      <3> QED
        BY <1>5, <3>2
    <2>3. b - 1 \in Bounds
      BY <2>1, <2>2
    <2> QED
      BY <1>4, <1>5, <2>3
  <1>7. b \in S /\ \A x \in S : b >= x
    BY <1>5, <1>6
  <1> QED
    BY <1>7 DEF Max

-------------------------------------------------------------------------------
\* A checker that the methods of the type can have made, with times up to n.
Checker(n) ==
  [processedRequests : [Key -> 0..n], idempotencyCutoff : 0..n]

\* The checker of the next run: made with the cutoff of this one.
NextRun(ic) == NewIdempotencyChecker(GetCutoffForContinuation(ic))

LEMMA CutoffIsNewest ==
  ASSUME NEW n \in Nat, NEW ic \in Checker(n)
  PROVE  /\ GetCutoffForContinuation(ic) \in 0..n
         /\ \A k \in Key : ic.processedRequests[k] <= GetCutoffForContinuation(ic)
         /\ \/ GetCutoffForContinuation(ic) = 0
            \/ \E k \in Key : ic.processedRequests[k] = GetCutoffForContinuation(ic)
  <1> DEFINE S == {0} \cup {ic.processedRequests[k] : k \in Key}
  <1>1. S \in SUBSET (0..n) /\ S # {} /\ 0 \in S
        /\ \A k \in Key : ic.processedRequests[k] \in S
    BY DEF Checker
  <1>2. Max(S) \in S /\ \A x \in S : Max(S) >= x
    BY <1>1, MaxOfBounded
  <1>3. PICK m : m = Max(S)
    OBVIOUS
  <1>4. GetCutoffForContinuation(ic) = m
    BY <1>3 DEF GetCutoffForContinuation
  <1>5. m \in S /\ \A x \in S : m >= x
    BY <1>2, <1>3
  <1>6. m \in 0..n /\ \A k \in Key : ic.processedRequests[k] <= m
    BY <1>1, <1>5
  <1>7. m = 0 \/ \E k \in Key : ic.processedRequests[k] = m
    BY <1>5
  <1> QED
    BY <1>4, <1>6, <1>7

LEMMA NextRunIsChecker ==
  ASSUME NEW n \in Nat, NEW ic \in Checker(n)
  PROVE  /\ NextRun(ic) \in Checker(n)
         /\ NextRun(ic).idempotencyCutoff = GetCutoffForContinuation(ic)
         /\ NextRun(ic).processedRequests = NoneProcessed
  BY CutoffIsNewest DEF NextRun, NewIdempotencyChecker, NoneProcessed, Checker

LEMMA MarkedIsChecker ==
  ASSUME NEW n \in Nat, NEW ic \in Checker(n), NEW k \in Key, NEW now \in 0..n
  PROVE  /\ MarkRequestProcessed(ic, k, now) \in Checker(n)
         /\ MarkRequestProcessed(ic, k, now).processedRequests[k] = now
         /\ MarkRequestProcessed(ic, k, now).idempotencyCutoff = ic.idempotencyCutoff
  BY DEF MarkRequestProcessed, Checker

\* A request that a run has processed, at its own time or later, is a duplicate to
\* the next run, although nothing of its key is handed over
\* (MarkRequestProcessed, GetCutoffForContinuation, IsRequestProcessed).
THEOREM ProcessedIsDuplicateInNextRun ==
  ASSUME NEW n \in Nat, NEW ic \in Checker(n), NEW k \in Key,
         NEW now \in 0..n, NEW requestTime \in 0..now
  PROVE  IsRequestProcessed(NextRun(MarkRequestProcessed(ic, k, now)), k, requestTime)
  <1>1. PICK marked : marked = MarkRequestProcessed(ic, k, now)
    OBVIOUS
  <1>2. marked \in Checker(n) /\ marked.processedRequests[k] = now
    BY <1>1, MarkedIsChecker
  <1>3. requestTime <= NextRun(marked).idempotencyCutoff
    BY <1>2, CutoffIsNewest, NextRunIsChecker DEF Checker
  <1> QED
    BY <1>1, <1>3 DEF IsRequestProcessed

\* Over any number of runs the cutoff never falls, and so no request is forgotten
\* that the cutoff stands for, as long as each run marks a request, with a key,
\* at a time past its own cutoff (GetCutoffForContinuation looks at the processed
\* requests alone).
THEOREM BusyRunKeepsCutoff ==
  ASSUME NEW n \in Nat, NEW ic \in Checker(n),
         \E k \in Key : ic.processedRequests[k] >= ic.idempotencyCutoff,
         NEW k \in Key, NEW requestTime \in 0..n,
         requestTime <= ic.idempotencyCutoff
  PROVE  /\ NextRun(ic).idempotencyCutoff >= ic.idempotencyCutoff
         /\ IsRequestProcessed(NextRun(ic), k, requestTime)
  <1>1. PICK j \in Key : ic.processedRequests[j] >= ic.idempotencyCutoff
    OBVIOUS
  <1>2. NextRun(ic).idempotencyCutoff >= ic.idempotencyCutoff
    BY <1>1, CutoffIsNewest, NextRunIsChecker DEF Checker
  <1>3. requestTime <= NextRun(ic).idempotencyCutoff
    BY <1>2, NextRunIsChecker DEF Checker
  <1> QED
    BY <1>2, <1>3 DEF IsRequestProcessed

\* A run that marked nothing, having had requests without a key only, or none that
\* succeeded, forgets its cutoff: to the next run no request is a duplicate.
THEOREM IdleRunForgets ==
  ASSUME NEW n \in Nat, NEW ic \in Checker(n),
         ic.processedRequests = NoneProcessed,
         NEW k \in Key, NEW requestTime \in 1..n
  PROVE  ~IsRequestProcessed(NextRun(ic), k, requestTime)
  <1>1. GetCutoffForContinuation(ic) = 0
    BY CutoffIsNewest DEF NoneProcessed
  <1>2. NextRun(ic).idempotencyCutoff = 0 /\ NextRun(ic).processedRequests[k] = 0
    BY <1>1, NextRunIsChecker DEF NoneProcessed
  <1> QED
    BY <1>2 DEF IsRequestProcessed
===============================================================================
