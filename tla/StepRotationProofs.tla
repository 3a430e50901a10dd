-------------------------- MODULE StepRotationProofs ---------------------------
(***************************************************************************)
(* The compatibility call step(), for any number of streams and any        *)
(* budget: whatever is registered, removed and owned while it runs, the    *)
(* rotation index stays within the order, and a step that comes to its end *)
(* with budget left has progressed every stream that was due all along.    *)
(***************************************************************************)
EXTENDS StepRotation, FiniteSetTheorems, TLAPS

-----------------------------------------------------------------------------
(* Sequences of streams.                                                   *)

LEMMA Least ==
  ASSUME NEW T, T \subseteq Nat, T # {}
  PROVE  \E x \in T : \A y \in T : ~(y < x)
<1>1. IsWellFoundedOn(OpToRel(<, Nat), Nat)
  BY NatLessThanWellFounded
<1>2. \E x \in T : \A y \in T : ~(<<y, x>> \in OpToRel(<, Nat))
  BY <1>1, WFMin
<1> QED
  BY <1>2 DEF OpToRel

\* Induction over the places of a sequence, with the property written as a set.
LEMMA Induction ==
  ASSUME NEW S, 0 \in S, \A n \in Nat : n \in S => n + 1 \in S
  PROVE  Nat \subseteq S
<1> DEFINE T == {n \in Nat : n \notin S}
<1>1. SUFFICES ASSUME T # {} PROVE FALSE
  OBVIOUS
<1>2. PICK x \in T : \A y \in T : ~(y < x)
  BY <1>1, Least
<1>3. x # 0 /\ x \in Nat
  BY <1>2
<1>4. x - 1 \in Nat /\ x - 1 \in S
  BY <1>2, <1>3
<1> QED
  BY <1>3, <1>4

\* f holds what Only has kept after each place, up to n.
Kept(q, S, n, f) ==
  /\ f = [k \in 0..n |-> f[k]]
  /\ f[0] = <<>>
  /\ \A k \in 1..n : f[k] = IF q[k] \in S THEN Append(f[k - 1], q[k]) ELSE f[k - 1]

LEMMA KeptExists ==
  ASSUME NEW q, NEW S, NEW n \in Nat
  PROVE  \E f : Kept(q, S, n, f)
<1> DEFINE P == {m \in Nat : \E f : Kept(q, S, m, f)}
<1>1. 0 \in P
  <2> DEFINE g == [k \in 0..0 |-> <<>>]
  <2>1. Kept(q, S, 0, g)
    BY DEF Kept
  <2> QED
    BY <2>1
<1>2. ASSUME NEW m \in Nat, m \in P PROVE m + 1 \in P
  <2>1. PICK f : Kept(q, S, m, f)
    BY <1>2
  <2> DEFINE x == IF q[m + 1] \in S THEN Append(f[m], q[m + 1]) ELSE f[m]
             g == [k \in 0..(m + 1) |-> IF k = m + 1 THEN x ELSE f[k]]
  <2> HIDE DEF x
  <2>2. /\ g = [k \in 0..(m + 1) |-> g[k]] /\ g[0] = f[0] /\ g[m + 1] = x
        /\ \A k \in 0..m : g[k] = f[k]
    OBVIOUS
  <2> HIDE DEF g
  <2>3. ASSUME NEW k \in 1..(m + 1)
        PROVE  g[k] = IF q[k] \in S THEN Append(g[k - 1], q[k]) ELSE g[k - 1]
    <3>1. CASE k = m + 1
      <4>1. k - 1 = m /\ m \in 0..m
        BY <3>1
      <4>2. g[k - 1] = f[m] /\ g[k] = x
        BY <2>2, <3>1, <4>1
      <4> QED
        BY <3>1, <4>2 DEF x
    <3>2. CASE k # m + 1
      <4>1. k \in 1..m /\ k \in 0..m /\ k - 1 \in 0..m
        BY <3>2
      <4>2. g[k] = f[k] /\ g[k - 1] = f[k - 1]
        BY <2>2, <4>1
      <4> QED
        BY <2>1, <4>1, <4>2 DEF Kept
    <3> QED
      BY <3>1, <3>2
  <2>4. Kept(q, S, m + 1, g)
    BY <2>1, <2>2, <2>3 DEF Kept
  <2> QED
    BY <2>4
<1> HIDE DEF P
<1>3. n \in P
  BY <1>1, <1>2, Induction
<1> QED
  BY <1>3 DEF P

LEMMA OnlyKept ==
  ASSUME NEW q \in Seq(Streams), NEW S
  PROVE  \E f : Kept(q, S, Len(q), f) /\ Only(q, S) = f[Len(q)]
<1> DEFINE F(f) == [n \in 0..Len(q) |->
                      IF n = 0 THEN <<>>
                      ELSE IF q[n] \in S THEN Append(f[n - 1], q[n]) ELSE f[n - 1]]
           kept == CHOOSE f : f = F(f)
<1>1. Len(q) \in Nat
  OBVIOUS
<1>2. PICK f : Kept(q, S, Len(q), f)
  BY <1>1, KeptExists
<1>3. f = F(f)
  <2>1. \A n \in 0..Len(q) : n # 0 => n \in 1..Len(q)
    BY <1>1
  <2>2. ASSUME NEW n \in 0..Len(q) PROVE f[n] = F(f)[n]
    BY <1>2, <2>1 DEF Kept
  <2>3. F(f) = [n \in 0..Len(q) |-> F(f)[n]]
    OBVIOUS
  <2> HIDE DEF F
  <2> QED
    BY <1>2, <2>2, <2>3 DEF Kept
<1>4. kept = F(kept)
  BY <1>3
<1>5. Only(q, S) = kept[Len(q)]
  BY DEF Only
<1> HIDE DEF kept
<1>6. Kept(q, S, Len(q), kept)
  <2>1. \A n \in 1..Len(q) : n \in 0..Len(q) /\ n # 0
    BY <1>1
  <2>2. kept[0] = <<>>
    BY <1>1, <1>4
  <2>3. ASSUME NEW n \in 1..Len(q)
        PROVE  kept[n] = IF q[n] \in S THEN Append(kept[n - 1], q[n]) ELSE kept[n - 1]
    BY <1>4, <2>1
  <2>4. kept = [k \in 0..Len(q) |-> kept[k]]
    BY <1>4
  <2> QED
    BY <2>2, <2>3, <2>4 DEF Kept
<1> QED
  BY <1>5, <1>6

\* What Only keeps: what is in S.
LEMMA OnlyKeeps ==
  ASSUME NEW q \in Seq(Streams), NEW S
  PROVE  Only(q, S) \in Seq(Streams) /\ ToSet(Only(q, S)) = ToSet(q) \cap S
<1>1. Len(q) \in Nat /\ DOMAIN q = 1..Len(q) /\ \A i \in 1..Len(q) : q[i] \in Streams
  OBVIOUS
<1>2. PICK f : Kept(q, S, Len(q), f) /\ Only(q, S) = f[Len(q)]
  BY OnlyKept
<1> DEFINE part(n) == {q[i] : i \in 1..n} \cap S
           P == {n \in Nat : n <= Len(q) => f[n] \in Seq(Streams) /\ ToSet(f[n]) = part(n)}
<1>3. 0 \in P
  <2>1. f[0] = <<>>
    BY <1>2 DEF Kept
  <2>2. <<>> \in Seq(Streams) /\ ToSet(<<>>) = {}
    BY DEF ToSet
  <2>3. part(0) = {}
    OBVIOUS
  <2> HIDE DEF part
  <2> QED
    BY <2>1, <2>2, <2>3
<1>4. ASSUME NEW n \in Nat, n \in P PROVE n + 1 \in P
  <2>1. SUFFICES ASSUME n + 1 <= Len(q)
                 PROVE  f[n + 1] \in Seq(Streams) /\ ToSet(f[n + 1]) = part(n + 1)
    OBVIOUS
  <2>2. n + 1 \in 1..Len(q) /\ (n + 1) - 1 = n /\ n <= Len(q)
    BY <1>1, <2>1
  <2>3. f[n] \in Seq(Streams) /\ ToSet(f[n]) = part(n)
    BY <1>4, <2>2
  <2>4. f[n + 1] = IF q[n + 1] \in S THEN Append(f[n], q[n + 1]) ELSE f[n]
    BY <1>2, <2>2 DEF Kept
  <2>5. {q[i] : i \in 1..(n + 1)} = {q[i] : i \in 1..n} \cup {q[n + 1]}
    <3>1. \A i \in 1..(n + 1) : i \in 1..n \/ i = n + 1
      OBVIOUS
    <3>2. \A i \in 1..n : i \in 1..(n + 1)
      OBVIOUS
    <3>3. n + 1 \in 1..(n + 1)
      OBVIOUS
    <3> QED
      BY <3>1, <3>2, <3>3
  <2>6. CASE q[n + 1] \in S
    <3> DEFINE x == q[n + 1]
               g == f[n]
    <3>1. x \in Streams /\ g \in Seq(Streams) /\ f[n + 1] = Append(g, x)
      BY <1>1, <2>2, <2>3, <2>4, <2>6
    <3> HIDE DEF x, g
    <3>2. Append(g, x) \in Seq(Streams) /\ ToSet(Append(g, x)) = ToSet(g) \cup {x}
      <4>1. /\ Append(g, x) \in Seq(Streams) /\ Len(g) \in Nat
            /\ DOMAIN Append(g, x) = 1..(Len(g) + 1) /\ DOMAIN g = 1..Len(g)
            /\ Append(g, x)[Len(g) + 1] = x
            /\ \A i \in 1..Len(g) : Append(g, x)[i] = g[i]
        BY <3>1
      <4>2. \A i \in 1..(Len(g) + 1) : i \in 1..Len(g) \/ i = Len(g) + 1
        BY <4>1
      <4>3. \A i \in 1..Len(g) : i \in 1..(Len(g) + 1)
        BY <4>1
      <4>4. Len(g) + 1 \in 1..(Len(g) + 1)
        BY <4>1
      <4> QED
        BY <4>1, <4>2, <4>3, <4>4 DEF ToSet
    <3>3. ToSet(g) = part(n)
      BY <2>3 DEF g
    <3>4. x \in S /\ {q[i] : i \in 1..(n + 1)} = {q[i] : i \in 1..n} \cup {x}
      BY <2>5, <2>6 DEF x
    <3> QED
      BY <3>1, <3>2, <3>3, <3>4
  <2>7. CASE q[n + 1] \notin S
    BY <2>3, <2>4, <2>5, <2>7
  <2> QED
    BY <2>6, <2>7
<1> HIDE DEF P
<1>5. Len(q) \in P
  BY <1>1, <1>3, <1>4, Induction
<1>6. f[Len(q)] \in Seq(Streams) /\ ToSet(f[Len(q)]) = part(Len(q))
  BY <1>1, <1>5 DEF P
<1>7. ToSet(q) = {q[i] : i \in 1..Len(q)}
  BY <1>1 DEF ToSet
<1> QED
  BY <1>2, <1>6, <1>7

\* The configuration's order has every stream.
LEMMA Configured == SetToSeq(Streams) \in Seq(Streams) /\ ToSet(SetToSeq(Streams)) = Streams
<1> DEFINE n == Cardinality(Streams)
           q == SetToSeq(Streams)
<1>1. n \in Nat /\ IsFiniteSet(Streams)
  BY RotationAssumption, FS_CardinalityType DEF RotationAssumption
<1>2. \E f \in [1..n -> Streams] : IsInjective(f)
  <2>1. ExistsBijection(1..n, Streams)
    BY <1>1, FS_CardinalityType
  <2> QED
    BY <2>1 DEF ExistsBijection, Bijection, Injection, IsInjective
<1>3. q \in [1..n -> Streams] /\ IsInjective(q)
  BY <1>2 DEF SetToSeq
<1> HIDE DEF q
<1>4. q \in Seq(Streams) /\ DOMAIN q = 1..n
  BY <1>1, <1>3
<1>5. ToSet(q) = Streams
  <2>1. ToSet(q) \subseteq Streams
    BY <1>3, <1>4 DEF ToSet
  <2>2. q \in Bijection(1..n, ToSet(q))
    BY <1>3, <1>4 DEF ToSet, Bijection, Injection, Surjection, IsInjective
  <2>3. Cardinality(ToSet(q)) = n
    BY <1>1, <2>2, FS_CountingElements DEF ExistsBijection
  <2> QED
    BY <1>1, <2>1, <2>3, FS_Subset
<1> QED
  BY <1>4, <1>5 DEF q

-----------------------------------------------------------------------------
(* The inductive invariant.                                                *)

StepType ==
  [pc : {"idle", "streams", "api"}, ids : Seq(Streams), start : Nat, offset : Nat,
   processed : Nat, cursor : Nat, progressed : BOOLEAN, eager : SUBSET Streams]

Orders ==
  /\ order \in Seq(Streams) /\ registered \subseteq ToSet(order) /\ owned \subseteq registered
  /\ registered \subseteq Streams
  /\ frame \in [Streams -> {"none", "early", "due"}]
  /\ broken \subseteq Breakable
  /\ index \in Nat /\ (index = 0 \/ index < Len(order))
  /\ step \in StepType
  /\ changes \in 0..MaxChanges

\* The stream the loop looks at in its turn k.
InTurn(k) == step.ids[((step.start + k) % Len(step.ids)) + 1]

\* A stream that was due and has not been progressed is still to come.
StillToCome ==
  step.pc = "streams" =>
    /\ Len(step.ids) > 0 /\ step.offset <= Len(step.ids)
    /\ \A s \in step.eager : \E k \in step.offset..(Len(step.ids) - 1) : s = InTurn(k)

RotationInv == Orders /\ StillToCome /\ BudgetForReadyStreams

\* Steps of others, and those that end the call, leave nothing to show of it.
LEMMA StepStays ==
  ASSUME RotationInv, step' = step \/ step' = Idle, Orders'
  PROVE  RotationInv'
<1>1. CASE step' = step
  <2>1. StillToCome'
    BY <1>1 DEF RotationInv, StillToCome, InTurn
  <2>2. BudgetForReadyStreams'
    BY <1>1 DEF RotationInv, BudgetForReadyStreams
  <2> QED
    BY <2>1, <2>2 DEF RotationInv
<1>2. CASE step' = Idle
  <2>1. step'.pc = "idle"
    BY <1>2 DEF Idle
  <2> QED
    BY <2>1 DEF RotationInv, StillToCome, BudgetForReadyStreams
<1> QED
  BY <1>1, <1>2

LEMMA IdleType == Idle \in StepType
BY DEF Idle, StepType

LEMMA RotationInit ==
  ASSUME Init
  PROVE  RotationInv
<1>1. Orders
  BY Configured, IdleType, RotationAssumption DEF Init, Orders, RotationAssumption
<1>2. step.pc = "idle"
  BY DEF Init, Idle
<1> QED
  BY <1>1, <1>2 DEF RotationInv, StillToCome, BudgetForReadyStreams

-----------------------------------------------------------------------------
(* The surroundings.                                                       *)

LEMMA PushKeeps ==
  ASSUME RotationInv, NEW s \in Streams, NEW kind \in {"early", "due"}, Push(s, kind)
  PROVE  RotationInv'
<1>1. Orders'
  BY DEF RotationInv, Orders, Push
<1> QED
  BY <1>1, StepStays DEF Push

LEMMA ChangeOwnerKeeps ==
  ASSUME RotationInv, NEW s \in Streams, ChangeOwner(s)
  PROVE  RotationInv'
<1>1. changes' \in 0..MaxChanges
  BY RotationAssumption DEF RotationAssumption, RotationInv, Orders, ChangeOwner
<1>2. owned' \subseteq registered
  BY DEF RotationInv, Orders, ChangeOwner
<1>3. Orders'
  BY <1>1, <1>2 DEF RotationInv, Orders, ChangeOwner
<1> QED
  BY <1>3, StepStays DEF ChangeOwner

LEMMA GroupStepKeeps ==
  ASSUME RotationInv, NEW s \in Streams, GroupStep(s)
  PROVE  RotationInv'
<1>1. Orders'
  BY DEF RotationInv, Orders, GroupStep
<1> QED
  BY <1>1, StepStays DEF GroupStep

LEMMA RegisterKeeps ==
  ASSUME RotationInv, NEW s \in Streams, RegisterStream(s) \/ RegisterRefused(s)
  PROVE  RotationInv'
<1>1. /\ UNCHANGED <<owned, frame, broken, index, step>>
      /\ order' = Append(order, s)
      /\ registered' = registered \cup {s} \/ registered' = registered
      /\ changes < MaxChanges /\ changes' = changes + 1
  BY DEF RegisterStream, RegisterRefused
<1>2. changes' \in 0..MaxChanges
  BY <1>1, RotationAssumption DEF RotationAssumption, RotationInv, Orders
<1>3. /\ order' \in Seq(Streams) /\ Len(order') = Len(order) + 1 /\ Len(order) \in Nat
      /\ DOMAIN order' = 1..(Len(order) + 1) /\ DOMAIN order = 1..Len(order)
      /\ order'[Len(order) + 1] = s /\ \A i \in 1..Len(order) : order'[i] = order[i]
  BY <1>1 DEF RotationInv, Orders
<1>4. ToSet(order) \cup {s} \subseteq ToSet(order')
  <2>1. \A i \in 1..Len(order) : i \in 1..(Len(order) + 1)
    BY <1>3
  <2>2. Len(order) + 1 \in 1..(Len(order) + 1)
    BY <1>3
  <2> QED
    BY <1>3, <2>1, <2>2 DEF ToSet
<1>5. index = 0 \/ index < Len(order')
  BY <1>3 DEF RotationInv, Orders
<1>6. /\ registered' \subseteq ToSet(order') /\ owned \subseteq registered'
      /\ registered' \subseteq Streams
  BY <1>1, <1>4 DEF RotationInv, Orders
<1>7. Orders'
  BY <1>1, <1>2, <1>3, <1>5, <1>6 DEF RotationInv, Orders
<1> QED
  BY <1>1, <1>7, StepStays

LEMMA Remainder ==
  ASSUME NEW x \in Nat, NEW n \in Nat, n > 0
  PROVE  x % n \in Nat /\ x % n < n
OBVIOUS

LEMMA RemoveStreamKeeps ==
  ASSUME RotationInv, NEW s \in Streams, RemoveStream(s)
  PROVE  RotationInv'
<1>1. PICK rest : rest = Only(order, Streams \ {s})
  OBVIOUS
<1>2. /\ UNCHANGED <<owned, step>> /\ s \in registered \ owned
      /\ order' = rest /\ index' = IndexAfterRemoval(rest)
      /\ registered' = registered \ {s}
      /\ frame' = [frame EXCEPT ![s] = "none"] /\ broken' = broken \ {s}
      /\ changes < MaxChanges /\ changes' = changes + 1
  BY <1>1 DEF RemoveStream
<1>3. changes' \in 0..MaxChanges
  BY <1>2, RotationAssumption DEF RotationAssumption, RotationInv, Orders
<1>4. rest \in Seq(Streams) /\ ToSet(rest) = ToSet(order) \cap (Streams \ {s})
  BY <1>1, OnlyKeeps DEF RotationInv, Orders
<1>5. index' \in Nat /\ (index' = 0 \/ index' < Len(rest))
  <2>1. CASE rest = <<>>
    BY <1>2, <2>1 DEF IndexAfterRemoval
  <2>2. CASE rest # <<>>
    <3>1. Len(rest) \in Nat /\ Len(rest) > 0
      BY <1>4, <2>2
    <3>2. index' = index % Len(rest) /\ index \in Nat
      BY <1>2, <2>2 DEF IndexAfterRemoval, RotationInv, Orders
    <3> QED
      BY <3>1, <3>2, Remainder
  <2> QED
    BY <2>1, <2>2
<1>6. /\ registered' \subseteq ToSet(rest) /\ owned \subseteq registered'
      /\ registered' \subseteq Streams /\ broken' \subseteq Breakable
      /\ frame' \in [Streams -> {"none", "early", "due"}]
  BY <1>2, <1>4 DEF RotationInv, Orders
<1>7. Orders'
  BY <1>2, <1>3, <1>4, <1>5, <1>6 DEF RotationInv, Orders
<1> QED
  BY <1>2, <1>7, StepStays

-----------------------------------------------------------------------------
(* step().                                                                 *)

LEMMA CallEndsKeeps ==
  ASSUME RotationInv, StepApiFails \/ StepEnd
  PROVE  RotationInv'
<1>1. UNCHANGED <<order, registered, owned, frame, broken, index, changes>> /\ step' = Idle
  BY DEF StepApiFails, StepEnd
<1>2. Orders'
  BY <1>1, IdleType DEF RotationInv, Orders
<1> QED
  BY <1>1, <1>2, StepStays

\* The remainders of a round of n numbers from `start` on are all below n.
LEMMA Around ==
  ASSUME NEW n \in Nat, NEW start \in 0..(n - 1), NEW i \in 1..n
  PROVE  \E k \in 0..(n - 1) : (start + k) % n = i - 1
<1>1. CASE start <= i - 1
  <2>1. (i - 1) % n = i - 1
    OBVIOUS
  <2>2. i - 1 - start \in 0..(n - 1) /\ start + (i - 1 - start) = i - 1
    BY <1>1
  <2> QED
    BY <2>1, <2>2
<1>2. CASE i - 1 < start
  <2>1. (i - 1 + n) % n = i - 1
    OBVIOUS
  <2>2. i - 1 + n - start \in 0..(n - 1) /\ start + (i - 1 + n - start) = i - 1 + n
    BY <1>2
  <2> QED
    BY <2>1, <2>2
<1> QED
  BY <1>1, <1>2

LEMMA StepBeginKeeps ==
  ASSUME RotationInv, StepBegin
  PROVE  RotationInv'
<1>1. PICK ids, start, eager :
        /\ ids = Steppable /\ start = index % Len(Steppable)
        /\ eager = {s \in ToSet(Steppable) : frame[s] = "due"}
  OBVIOUS
<1>2. /\ UNCHANGED <<order, registered, owned, frame, broken, index, changes>>
      /\ ids # <<>>
      /\ step' = [Idle EXCEPT !.pc = "streams", !.ids = ids, !.start = start,
                              !.cursor = start, !.eager = eager]
  BY <1>1 DEF StepBegin
<1>3. ids \in Seq(Streams) /\ ToSet(ids) \subseteq Streams
  BY <1>1, OnlyKeeps DEF Steppable, RotationInv, Orders
<1>4. Len(ids) \in Nat /\ Len(ids) > 0 /\ DOMAIN ids = 1..Len(ids)
  BY <1>2, <1>3
<1>5. start \in Nat /\ start < Len(ids)
  BY <1>1, <1>4, Remainder DEF RotationInv, Orders
<1>6. eager \subseteq ToSet(ids) /\ eager \subseteq Streams
  BY <1>1, <1>3
<1>7. step' = [pc |-> "streams", ids |-> ids, start |-> start, offset |-> 0, processed |-> 0,
               cursor |-> start, progressed |-> FALSE, eager |-> eager]
  BY <1>2 DEF Idle
<1>8. Orders'
  <2>1. step' \in StepType
    BY <1>3, <1>5, <1>6, <1>7 DEF StepType
  <2> QED
    BY <1>2, <2>1 DEF RotationInv, Orders
<1>9. ASSUME NEW s \in eager
      PROVE  \E k \in 0..(Len(ids) - 1) : s = ids[((start + k) % Len(ids)) + 1]
  <2>1. PICK i \in 1..Len(ids) : s = ids[i]
    BY <1>4, <1>6 DEF ToSet
  <2>2. PICK n : n = Len(ids)
    OBVIOUS
  <2>3. n \in Nat /\ n > 0 /\ start \in 0..(n - 1) /\ i \in 1..n
    BY <1>4, <1>5, <2>1, <2>2
  <2>4. PICK k \in 0..(n - 1) : (start + k) % n = i - 1
    BY <2>3, Around
  <2>5. (i - 1) + 1 = i
    BY <2>1
  <2> QED
    BY <2>1, <2>2, <2>4, <2>5
<1>10. StillToCome'
  BY <1>4, <1>7, <1>9 DEF StillToCome, InTurn
<1>11. BudgetForReadyStreams'
  BY <1>7 DEF BudgetForReadyStreams
<1> QED
  BY <1>8, <1>10, <1>11 DEF RotationInv

\* The loop goes on to its next turn: the stream of this one is dealt with.
LEMMA TurnKeeps ==
  ASSUME RotationInv, step.pc = "streams", More, Orders',
         step'.pc = "streams", step'.ids = step.ids, step'.start = step.start,
         step'.offset = step.offset + 1, step'.eager = step.eager \ {AtStream}
  PROVE  RotationInv'
<1>1. PICK n, o : n = Len(step.ids) /\ o = step.offset
  OBVIOUS
<1>2. /\ n \in Nat /\ o \in Nat /\ o < n
      /\ \A s \in step.eager : \E k \in o..(n - 1) : s = InTurn(k)
  BY <1>1 DEF RotationInv, Orders, StillToCome, StepType, More
<1>3. AtStream = InTurn(o)
  BY <1>1 DEF AtStream, InTurn, Current
<1>4. \A k : InTurn(k)' = InTurn(k)
  BY DEF InTurn
<1>5. ASSUME NEW s \in step.eager \ {AtStream}
      PROVE  \E k \in (o + 1)..(n - 1) : s = InTurn(k)'
  <2>1. PICK k \in o..(n - 1) : s = InTurn(k)
    BY <1>2
  <2>2. k # o
    BY <1>3, <2>1
  <2>3. k \in (o + 1)..(n - 1)
    BY <1>2, <2>2
  <2> QED
    BY <1>4, <2>1, <2>3
<1>6. Len(step'.ids) = n /\ step'.offset = o + 1 /\ n > 0 /\ o + 1 <= n
  BY <1>1, <1>2
<1>7. StillToCome'
  BY <1>5, <1>6 DEF StillToCome
<1>8. BudgetForReadyStreams'
  BY DEF BudgetForReadyStreams
<1> QED
  BY <1>7, <1>8 DEF RotationInv

LEMMA StreamIdleKeeps ==
  ASSUME RotationInv, StreamIdle
  PROVE  RotationInv'
<1> DEFINE o == step.offset + 1
           e == step.eager \ {AtStream}
<1>1. /\ UNCHANGED <<order, registered, owned, frame, broken, index, changes>>
      /\ step.pc = "streams" /\ More
      /\ step' = [step EXCEPT !.offset = o, !.eager = e]
  BY DEF StreamIdle
<1>2. step \in StepType /\ o \in Nat /\ e \subseteq Streams
  BY DEF RotationInv, Orders, StepType
<1> HIDE DEF o, e
<1>3. /\ step' \in StepType /\ step'.pc = "streams" /\ step'.ids = step.ids
      /\ step'.start = step.start /\ step'.offset = o /\ step'.eager = e
  BY <1>1, <1>2 DEF StepType
<1>4. Orders'
  BY <1>1, <1>3 DEF RotationInv, Orders
<1> QED
  BY <1>1, <1>3, <1>4, TurnKeeps DEF o, e

LEMMA StreamProgressesKeeps ==
  ASSUME RotationInv, StreamProgresses
  PROVE  RotationInv'
<1> DEFINE o == step.offset + 1
           e == step.eager \ {AtStream}
           p == step.processed + 1
           c == CursorAfter
<1>1. /\ UNCHANGED <<order, registered, owned, broken, index, changes>>
      /\ step.pc = "streams" /\ More
      /\ frame' = [frame EXCEPT ![AtStream] = "none"]
      /\ step' = [step EXCEPT !.offset = o, !.processed = p, !.progressed = TRUE,
                              !.cursor = c, !.eager = e]
  BY DEF StreamProgresses
<1>2. step \in StepType /\ o \in Nat /\ p \in Nat /\ e \subseteq Streams
  BY DEF RotationInv, Orders, StepType
<1>3. c \in Nat
  <2>1. step.start \in Nat /\ step.offset \in Nat /\ Len(step.ids) \in Nat /\ Len(step.ids) > 0
    BY <1>1, <1>2 DEF StepType, RotationInv, StillToCome
  <2>2. PICK n, x, y : n = Len(step.ids) /\ x = step.start + step.offset /\ y = Current + 1
    OBVIOUS
  <2>3. n \in Nat /\ n > 0 /\ x \in Nat
    BY <2>1, <2>2
  <2>4. y = (x % n) + 1 /\ c = y % n
    BY <2>2 DEF Current, CursorAfter
  <2>5. x % n \in Nat
    BY <2>3, Remainder
  <2>6. y \in Nat
    BY <2>4, <2>5
  <2> QED
    BY <2>3, <2>4, <2>6, Remainder
<1> HIDE DEF o, e, p, c
<1>4. /\ step' \in StepType /\ step'.pc = "streams" /\ step'.ids = step.ids
      /\ step'.start = step.start /\ step'.offset = o /\ step'.eager = e
  BY <1>1, <1>2, <1>3 DEF StepType
<1>5. Orders'
  BY <1>1, <1>4 DEF RotationInv, Orders
<1> QED
  BY <1>1, <1>4, <1>5, TurnKeeps DEF o, e

LEMMA StreamFailsKeeps ==
  ASSUME RotationInv, StreamFails
  PROVE  RotationInv'
<1>1. Orders'
  BY IdleType DEF RotationInv, Orders, StreamFails
<1> QED
  BY <1>1, StepStays DEF StreamFails

LEMMA RotateKeeps ==
  ASSUME RotationInv, Rotate
  PROVE  RotationInv'
<1>1. /\ UNCHANGED <<order, registered, owned, frame, broken, changes>>
      /\ step.pc = "streams" /\ ~More /\ step' = [step EXCEPT !.pc = "api"]
  BY DEF Rotate
<1>2. /\ step \in StepType /\ order \in Seq(Streams)
      /\ index \in Nat /\ (index = 0 \/ index < Len(order))
  BY DEF RotationInv, Orders
<1>3. /\ step' \in StepType /\ step'.pc = "api" /\ step'.eager = step.eager
      /\ step'.processed = step.processed
  BY <1>1, <1>2 DEF StepType
<1>4. index' \in Nat /\ (index' = 0 \/ index' < Len(order))
  <2>1. CASE order = <<>>
    BY <1>2, <2>1 DEF Rotate
  <2>2. CASE order # <<>>
    <3>1. Len(order) \in Nat /\ Len(order) > 0
      BY <1>2, <2>2
    <3>2. step.cursor \in Nat /\ step.start + 1 \in Nat
      BY <1>2 DEF StepType
    <3>3. index' = step.cursor % Len(order) \/ index' = (step.start + 1) % Len(order)
      BY <2>2 DEF Rotate
    <3> QED
      BY <3>1, <3>2, <3>3, Remainder
  <2> QED
    BY <2>1, <2>2
<1>5. Orders'
  BY <1>1, <1>3, <1>4 DEF RotationInv, Orders
<1>6. Budget = 0 \/ step.processed < Budget => step.eager = {}
  <2>1. SUFFICES ASSUME Budget = 0 \/ step.processed < Budget PROVE step.eager = {}
    OBVIOUS
  <2>2. /\ step.processed \in Nat /\ step.offset \in Nat
        /\ Len(step.ids) \in Nat /\ Budget \in Nat
    BY <1>2, RotationAssumption DEF StepType, RotationAssumption
  <2>3. step.offset >= Len(step.ids)
    BY <1>1, <2>1, <2>2 DEF More, BudgetSpent
  <2>4. \A k : k \notin step.offset..(Len(step.ids) - 1)
    BY <2>2, <2>3
  <2> QED
    BY <1>1, <2>4 DEF RotationInv, StillToCome
<1>7. StillToCome' /\ BudgetForReadyStreams'
  BY <1>3, <1>6 DEF StillToCome, BudgetForReadyStreams
<1> QED
  BY <1>5, <1>7 DEF RotationInv

-----------------------------------------------------------------------------
(* The invariant of the specification, and what follows from it.           *)

LEMMA RotationInductive ==
  ASSUME RotationInv, [Next]_vars
  PROVE  RotationInv'
<1>1. CASE \E s \in Streams : \E kind \in {"early", "due"} : Push(s, kind)
  BY <1>1, PushKeeps
<1>2. CASE \E s \in Streams : ChangeOwner(s) \/ GroupStep(s)
  BY <1>2, ChangeOwnerKeeps, GroupStepKeeps
<1>3. CASE \E s \in Streams : RegisterStream(s) \/ RegisterRefused(s) \/ RemoveStream(s)
  BY <1>3, RegisterKeeps, RemoveStreamKeeps
<1>4. CASE StepApiFails \/ StepEnd
  BY <1>4, CallEndsKeeps
<1>5. CASE StepBegin \/ StreamIdle
  BY <1>5, StepBeginKeeps, StreamIdleKeeps
<1>6. CASE StreamProgresses \/ StreamFails \/ Rotate
  BY <1>6, StreamProgressesKeeps, StreamFailsKeeps, RotateKeeps
<1>7. CASE UNCHANGED vars
  <2>1. Orders'
    BY <1>7 DEF vars, RotationInv, Orders
  <2> QED
    BY <1>7, <2>1, StepStays DEF vars
<1> QED
  BY <1>1, <1>2, <1>3, <1>4, <1>5, <1>6, <1>7 DEF Next, Step

LEMMA RotationInvariant == Spec => []RotationInv
<1>1. Init => RotationInv
  BY RotationInit
<1>2. RotationInv /\ [Next]_vars => RotationInv'
  BY RotationInductive
<1> QED
  BY <1>1, <1>2, PTL DEF Spec

\* next_stream_index_ under remove_stream and the end of step(): whatever is registered
\* and removed while a step runs, the index stays within the order.
THEOREM RotationTypes == Spec => []RotationTypeOK
<1>1. RotationInv => RotationTypeOK
  BY DEF RotationInv, Orders, StepType, RotationTypeOK
<1> QED
  BY <1>1, RotationInvariant, PTL

\* The loop of step(): with any number of streams and any budget, a step that has budget
\* left at its end has progressed every stream that was due all along.
THEOREM BudgetIsForReadyStreams == Spec => []BudgetForReadyStreams
<1>1. RotationInv => BudgetForReadyStreams
  BY DEF RotationInv
<1> QED
  BY <1>1, RotationInvariant, PTL
=============================================================================
