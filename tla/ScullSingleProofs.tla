-------------------------- MODULE ScullSingleProofs -------------------------
(***************************************************************************)
(* Proofs about ScullSingle, for any number of processes.                  *)
(***************************************************************************)
EXTENDS ScullSingle, FiniteSetTheorems, TLAPS

\* The invariant: the counter accounts for everybody, and there is one holder at
\* most.
SingleInv ==
    /\ SingleTypeOK
    /\ Accounting
    /\ SingleOpen

LEMMA FiniteParts ==
    /\ IsFiniteSet(Holders) /\ IsFiniteSet(Refused)
    /\ Cardinality(Holders) \in Nat /\ Cardinality(Refused) \in Nat
  <1>1. Holders \subseteq SingleProcs /\ Refused \subseteq SingleProcs
    BY DEF Holders, Refused
  <1>. QED
    BY <1>1, SingleAssumption, FS_Subset, FS_CardinalityType

\* A process that joins or leaves a finite set changes its cardinality by one.
LEMMA Joins ==
    ASSUME NEW S, IsFiniteSet(S), NEW p, p \notin S
    PROVE  Cardinality(S \cup {p}) = Cardinality(S) + 1
  BY FS_AddElement

LEMMA Leaves ==
    ASSUME NEW S, IsFiniteSet(S), NEW p \in S
    PROVE  Cardinality(S \ {p}) = Cardinality(S) - 1
  BY FS_RemoveElement

LEMMA SingleInitInv == SingleInit => SingleInv
  <1>. SUFFICES ASSUME SingleInit PROVE SingleInv
    OBVIOUS
  <1>1. Holders = {} /\ Refused = {}
    BY DEF SingleInit, Holders, Refused
  <1>2. Cardinality(Holders) = 0 /\ Cardinality(Refused) = 0
    BY <1>1, FS_EmptySet
  <1>. QED
    BY <1>1, <1>2 DEF SingleInit, SingleInv, SingleTypeOK, Accounting, SingleOpen, SinglePC

LEMMA SingleNextInv ==
    ASSUME SingleInv, SingleNext
    PROVE  SingleInv'
  <1>. USE FiniteParts DEF SingleInv, SingleTypeOK
  <1>1. PICK p \in SingleProcs : SOpen(p) \/ SRefuse(p) \/ STrimDone(p) \/ SReadWrite(p) \/ SRelease(p)
    BY DEF SingleNext
  <1>2. single_pc' \in [SingleProcs -> SinglePC] /\ scull_s_available' \in Int
    BY <1>1 DEF SOpen, SRefuse, STrimDone, SReadWrite, SRelease, SingleGoto, SinglePC
  <1>3. CASE SOpen(p) /\ scull_s_available' # 0
    <2>1. Holders' = Holders /\ Refused' = Refused \cup {p} /\ p \notin Refused
      BY <1>3 DEF SOpen, SingleGoto, Holders, Refused
    <2>2. Cardinality(Refused') = Cardinality(Refused) + 1
      BY <2>1, Joins
    <2>. QED
      BY <1>2, <1>3, <2>1, <2>2 DEF SOpen, Accounting, SingleOpen
  <1>4. CASE SOpen(p) /\ scull_s_available' = 0
    <2>1. Holders' = Holders \cup {p} /\ Refused' = Refused /\ p \notin Holders
      BY <1>4 DEF SOpen, SingleGoto, Holders, Refused
    <2>2. Cardinality(Holders') = Cardinality(Holders) + 1
      BY <2>1, Joins
    <2>3. Cardinality(Holders) = 0
      BY <1>4 DEF SOpen, Accounting
    <2>4. Holders = {}
      BY <2>3, FS_EmptySet
    <2>. QED
      BY <1>2, <1>4, <2>1, <2>2, <2>4 DEF SOpen, Accounting, SingleOpen
  <1>5. CASE SRefuse(p)
    <2>1. Holders' = Holders /\ Refused' = Refused \ {p} /\ p \in Refused
      BY <1>5 DEF SRefuse, SingleGoto, Holders, Refused
    <2>2. Cardinality(Refused') = Cardinality(Refused) - 1
      BY <2>1, Leaves
    <2>. QED
      BY <1>2, <1>5, <2>1, <2>2 DEF SRefuse, Accounting, SingleOpen
  <1>6. CASE STrimDone(p) \/ SReadWrite(p)
    <2>1. Holders' = Holders /\ Refused' = Refused
      BY <1>6 DEF STrimDone, SReadWrite, SingleGoto, Holders, Refused
    <2>. QED
      BY <1>2, <1>6, <2>1 DEF STrimDone, SReadWrite, Accounting, SingleOpen
  <1>7. CASE SRelease(p)
    <2>1. Holders' = Holders \ {p} /\ Refused' = Refused /\ p \in Holders
      BY <1>7 DEF SRelease, SingleGoto, Holders, Refused
    <2>2. Cardinality(Holders') = Cardinality(Holders) - 1
      BY <2>1, Leaves
    <2>. QED
      BY <1>2, <1>7, <2>1, <2>2 DEF SRelease, Accounting, SingleOpen
  <1>. QED
    BY <1>1, <1>3, <1>4, <1>5, <1>6, <1>7

LEMMA SingleAlways == SingleSpec => []SingleInv
  <1>1. SingleInv /\ UNCHANGED singleVars => SingleInv'
    BY DEF SingleInv, SingleTypeOK, Accounting, SingleOpen, Holders, Refused, singleVars
  <1>. QED
    BY <1>1, SingleInitInv, SingleNextInv, PTL DEF SingleSpec

\* scull_s_available accounts exactly for the holder and for the refused openers
\* that have not undone their decrement, however many processes race.
THEOREM SingleAccounting == SingleSpec => []Accounting
  BY SingleAlways, PTL DEF SingleInv

\* scull_s_open lets one process in at a time, although the test and the undoing
\* of a refused decrement are two atomic operations.
THEOREM SingleHolder == SingleSpec => []SingleOpen
  BY SingleAlways, PTL DEF SingleInv
=============================================================================
