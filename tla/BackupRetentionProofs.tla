------------------------ MODULE BackupRetentionProofs ------------------------
(***************************************************************************)
(* Retention keeps the newest backups, for any machines, any Keep and any  *)
(* stamps: what makes a key deletable (Keep newer keys) can only grow; and *)
(* it leaves few of those it listed: keys are ranked by their newer ones.  *)
(***************************************************************************)
EXTENDS BackupRetention, FiniteSetTheorems, TLAPS

(* Keys known to have Keep newer ones.                                     *)
Outlived(k) == Cardinality(NewerIn(written, k)) >= Keep

(* The inductive invariant: whatever a retention has still to delete, and  *)
(* whatever has been deleted, has Keep newer keys among all ever written.  *)
RetentionInv == /\ IsFiniteSet(written)
                /\ backups \subseteq written
                /\ DOMAIN prune = Machines
                /\ \A m \in Machines : \A k \in prune[m] : Outlived(k)
                /\ \A k \in written \ backups : Outlived(k)

(* What a retention listed, and is about to delete, are keys.              *)
LEMMA TypesNext == TypeOK /\ [Next]_vars => TypeOK'
<1> SUFFICES ASSUME TypeOK, [Next]_vars PROVE TypeOK'
  OBVIOUS
<1> USE DEF TypeOK
<1>1. CASE UNCHANGED vars
  BY <1>1 DEF vars
<1>2. ASSUME NEW m \in Machines, PutBackup(m) PROVE TypeOK'
  BY <1>2 DEF PutBackup, Key
<1>3. ASSUME NEW m \in Machines, ListBackups(m) PROVE TypeOK'
  BY <1>3 DEF ListBackups, BackupsToPrune
<1>4. ASSUME NEW m \in Machines, DeleteOne(m) PROVE TypeOK'
  BY <1>4 DEF DeleteOne
<1>5. ASSUME NEW m \in Machines, PruneEnds(m) \/ TailStops(m) PROVE TypeOK'
  BY <1>5 DEF PruneEnds, TailStops, EndTail
<1>6. QED
  BY <1>1, <1>2, <1>3, <1>4, <1>5 DEF Next

(* Each variable keeps its type.                                           *)
THEOREM BackupTypeCorrect == Spec => []TypeOK
<1>1. Init => TypeOK
  BY BRAssumption DEF Init, TypeOK
<1>2. QED
  BY <1>1, TypesNext, PTL DEF Spec

(* More keys, no fewer newer ones.                                         *)
LEMMA NewerGrows ==
  ASSUME NEW A, NEW B, IsFiniteSet(B), A \subseteq B, NEW k
  PROVE  Cardinality(NewerIn(A, k)) <= Cardinality(NewerIn(B, k))
<1>1. NewerIn(B, k) \subseteq B /\ NewerIn(A, k) \subseteq NewerIn(B, k)
  BY DEF NewerIn
<1>2. IsFiniteSet(NewerIn(B, k))
  BY <1>1, FS_Subset
<1>3. QED
  BY <1>1, <1>2, FS_Subset

(* The count of newer keys is a number.                                    *)
LEMMA NewerCount ==
  ASSUME NEW A, IsFiniteSet(A), NEW k
  PROVE  Cardinality(NewerIn(A, k)) \in Nat
<1>1. IsFiniteSet(NewerIn(A, k))
  BY FS_Subset DEF NewerIn
<1>2. QED
  BY <1>1, FS_CardinalityType

(* The initial state satisfies the inductive invariant.                    *)
LEMMA RetentionInit == Init => RetentionInv
BY FS_EmptySet DEF Init, RetentionInv

(* Every step of every machine's retention keeps it.                       *)
LEMMA RetentionNext == RetentionInv /\ [Next]_vars => RetentionInv'
<1> SUFFICES ASSUME RetentionInv, [Next]_vars PROVE RetentionInv'
  OBVIOUS
<1> USE BRAssumption DEF RetentionInv
<1>1. CASE UNCHANGED vars
  BY <1>1 DEF vars, Outlived
<1>2. ASSUME NEW m \in Machines, PutBackup(m) PROVE RetentionInv'
  <2>1. PICK s : /\ backups' = backups \cup {[stamp |-> s, by |-> m]}
                 /\ written' = written \cup {[stamp |-> s, by |-> m]}
    BY <1>2 DEF PutBackup
  <2>2. IsFiniteSet(written')
    BY <2>1, FS_AddElement
  <2>3. ASSUME NEW k, Outlived(k) PROVE Outlived(k)'
    BY <2>1, <2>2, <2>3, NewerGrows, NewerCount DEF Outlived
  <2>4. QED
    BY <1>2, <2>1, <2>2, <2>3 DEF PutBackup
<1>3. ASSUME NEW m \in Machines, ListBackups(m) PROVE RetentionInv'
  <2>1. ASSUME NEW k \in BackupsToPrune(backups, JustWritten(m)) PROVE Outlived(k)
    <3>1. Cardinality(NewerIn(backups, k)) >= Keep
      BY DEF BackupsToPrune
    <3>2. IsFiniteSet(backups)
      BY FS_Subset
    <3>3. QED
      BY <3>1, <3>2, NewerGrows, NewerCount DEF Outlived
  <2>2. \A n \in Machines : prune'[n] \subseteq prune[n] \cup BackupsToPrune(backups, JustWritten(m))
    BY <1>3 DEF ListBackups
  <2>3. QED
    BY <1>3, <2>1, <2>2 DEF ListBackups, Outlived
<1>4. ASSUME NEW m \in Machines, DeleteOne(m) PROVE RetentionInv'
  <2>1. PICK k \in prune[m] : backups' = backups \ {k} /\ prune' = [prune EXCEPT ![m] = @ \ {k}]
    BY <1>4 DEF DeleteOne
  <2>2. \A n \in Machines : prune'[n] \subseteq prune[n]
    BY <2>1
  <2>3. QED
    BY <1>4, <2>1, <2>2 DEF DeleteOne, Outlived
<1>5. ASSUME NEW m \in Machines, PruneEnds(m) \/ TailStops(m) PROVE RetentionInv'
  <2>1. EndTail(m)
    BY <1>5 DEF PruneEnds, TailStops
  <2>2. \A n \in Machines : prune'[n] \subseteq prune[n]
    BY <2>1 DEF EndTail
  <2>3. QED
    BY <2>1, <2>2 DEF EndTail, Outlived
<1>6. QED
  BY <1>1, <1>2, <1>3, <1>4, <1>5 DEF Next

(* None of the Keep newest backups ever written is deleted, however many   *)
(* machines prune at once, wherever they stop, whatever their clocks say.  *)
THEOREM RetentionKeepsNewestHolds == Spec => []RetentionKeepsNewest
<1>1. RetentionInv => RetentionKeepsNewest
  BY DEF RetentionInv, RetentionKeepsNewest, Outlived
<1>2. QED
  BY RetentionInit, RetentionNext, <1>1, PTL DEF Spec

-----------------------------------------------------------------------------
(* A retention that ends leaves few of the backups it listed *)

(* The inductive invariant of RetentionBounds: a machine's stamps only     *)
(* grow, so no key is written twice; what a retention listed and has not   *)
(* still to delete is gone, or was not to be pruned.                       *)
BoundsInv == /\ \A k \in written : k.stamp <= stamp[k.by]
             /\ \A m \in Machines : pc[m] = "prune" =>
                  /\ listed[m] \subseteq written
                  /\ \A k \in listed[m] \cap backups :
                       k \in prune[m] \/ k \notin BackupsToPrune(listed[m], JustWritten(m))

LEMMA BoundsNext ==
    ASSUME TypeOK, BoundsInv, [Next]_vars
    PROVE  BoundsInv'
<1> USE DEF BoundsInv, JustWritten
<1>1. CASE UNCHANGED vars
  BY <1>1 DEF vars
<1>2. ASSUME NEW n \in Machines, PutBackup(n) PROVE BoundsInv'
  <2>1. PICK s \in (stamp[n] + 1)..MaxStamp :
          /\ stamp' = [stamp EXCEPT ![n] = s]
          /\ backups' = backups \cup {[stamp |-> s, by |-> n]}
          /\ written' = written \cup {[stamp |-> s, by |-> n]}
    BY <1>2 DEF PutBackup
  <2>2. s \in Nat /\ stamp[n] \in Nat /\ s > stamp[n] /\ stamp \in [Machines -> Nat]
    BY <2>1, BRAssumption DEF TypeOK
  <2>3. ASSUME NEW k \in written PROVE k.stamp \in Nat /\ k.by \in Machines
    BY BRAssumption DEF TypeOK, Key
  <2>4. [stamp |-> s, by |-> n] \notin written
    BY <2>2
  <2>5. ASSUME NEW k \in written' PROVE k.stamp <= stamp'[k.by]
    <3>1. CASE k \in written /\ k.by = n
      BY <2>1, <2>2, <2>3, <3>1
    <3>2. CASE k \in written /\ k.by # n
      BY <2>1, <2>2, <2>3, <3>2
    <3>3. CASE k = [stamp |-> s, by |-> n]
      BY <2>1, <2>2, <3>3
    <3>4. QED
      BY <2>1, <3>1, <3>2, <3>3
  <2>6. ASSUME NEW m \in Machines, pc'[m] = "prune"
        PROVE  /\ listed'[m] \subseteq written'
               /\ \A k \in listed'[m] \cap backups' :
                    k \in prune'[m] \/ k \notin BackupsToPrune(listed'[m], JustWritten(m)')
    <3>1. m # n /\ pc[m] = "prune"
      BY <1>2, <2>6 DEF PutBackup, TypeOK
    <3>2. JustWritten(m)' = JustWritten(m) /\ UNCHANGED <<listed, prune>>
      BY <1>2, <2>1, <2>2, <3>1 DEF PutBackup
    <3>3. listed[m] \subseteq written /\ listed[m] \cap backups' = listed[m] \cap backups
      BY <2>1, <2>4, <3>1
    <3>4. QED
      BY <2>1, <3>1, <3>2, <3>3
  <2>7. QED
    BY <2>5, <2>6
<1>3. ASSUME NEW n \in Machines, ListBackups(n) PROVE BoundsInv'
  <2>1. /\ UNCHANGED <<backups, written, stamp>>
        /\ listed'[n] = backups /\ prune'[n] = BackupsToPrune(backups, JustWritten(n))
        /\ \A m \in Machines : m # n => /\ pc'[m] = pc[m] /\ listed'[m] = listed[m]
                                        /\ prune'[m] = prune[m]
    BY <1>3 DEF ListBackups, TypeOK
  <2>2. backups \subseteq written
    BY DEF TypeOK
  <2>3. QED
    BY <2>1, <2>2
<1>4. ASSUME NEW n \in Machines, DeleteOne(n) PROVE BoundsInv'
  <2>1. PICK k \in prune[n] : backups' = backups \ {k} /\ prune' = [prune EXCEPT ![n] = @ \ {k}]
    BY <1>4 DEF DeleteOne
  <2>2. UNCHANGED <<written, stamp, pc, listed>>
    BY <1>4 DEF DeleteOne
  <2>3. \A m \in Machines : \A j \in prune[m] : j \in prune'[m] \/ j = k
    BY <2>1 DEF TypeOK
  <2>4. QED
    BY <2>1, <2>2, <2>3
<1>5. ASSUME NEW n \in Machines, PruneEnds(n) \/ TailStops(n) PROVE BoundsInv'
  <2>1. EndTail(n)
    BY <1>5 DEF PruneEnds, TailStops
  <2>2. /\ UNCHANGED <<backups, written, stamp>> /\ pc'[n] = "idle"
        /\ \A m \in Machines : m # n => /\ pc'[m] = pc[m] /\ listed'[m] = listed[m]
                                        /\ prune'[m] = prune[m]
    BY <2>1 DEF EndTail, TypeOK
  <2>3. QED
    BY <2>2
<1>6. QED
  BY <1>1, <1>2, <1>3, <1>4, <1>5 DEF Next

(* Of two keys one is newer, and has fewer newer ones.                     *)
LEMMA NewerRanks ==
    ASSUME NEW L \in SUBSET Key, IsFiniteSet(L), NEW j \in L, NEW k \in L, j # k
    PROVE  Cardinality(NewerIn(L, j)) # Cardinality(NewerIn(L, k))
<1>1. ASSUME NEW x \in L PROVE x.stamp \in Nat /\ x.by \in Nat
  <2>1. x \in Key
    OBVIOUS
  <2>2. x.stamp \in 1..MaxStamp /\ x.by \in Machines
    BY <2>1 DEF Key
  <2>3. x.stamp \in Nat
    BY <2>2
  <2>4. x.by \in Nat
    BY <2>2, BRAssumption, Zenon
  <2>5. QED
    BY <2>3, <2>4
<1>2. ASSUME NEW x \in L, NEW y \in L, Newer(x, y)
      PROVE  Cardinality(NewerIn(L, x)) # Cardinality(NewerIn(L, y))
  <2>1. NewerIn(L, x) \subseteq NewerIn(L, y)
    BY <1>1, <1>2 DEF Newer, NewerIn
  <2>2. x \in NewerIn(L, y) /\ x \notin NewerIn(L, x)
    BY <1>1, <1>2 DEF Newer, NewerIn
  <2>3. IsFiniteSet(NewerIn(L, y))
    BY FS_Subset DEF NewerIn
  <2>4. QED
    BY <2>1, <2>2, <2>3, FS_Subset
<1>3. j.stamp # k.stamp \/ j.by # k.by
  BY DEF Key
<1>4. Newer(j, k) \/ Newer(k, j)
  BY <1>1, <1>3 DEF Newer
<1>5. QED
  BY <1>2, <1>4

(* So at most Keep keys have fewer than Keep newer ones.                   *)
LEMMA FewAreNewest ==
    ASSUME NEW L \in SUBSET Key, IsFiniteSet(L)
    PROVE  LET newest == {k \in L : Cardinality(NewerIn(L, k)) < Keep}
           IN  IsFiniteSet(newest) /\ Cardinality(newest) <= Keep
<1> DEFINE newest == {k \in L : Cardinality(NewerIn(L, k)) < Keep}
           rank == [k \in newest |-> Cardinality(NewerIn(L, k))]
<1>1. IsFiniteSet(0..(Keep - 1)) /\ Cardinality(0..(Keep - 1)) = Keep
  BY BRAssumption, FS_Interval
<1>2. rank \in [newest -> 0..(Keep - 1)]
  BY NewerCount, BRAssumption
<1>3. \A j, k \in newest : rank[j] = rank[k] => j = k
  BY NewerRanks
<1>4. rank \in Injection(newest, 0..(Keep - 1))
  BY <1>2, <1>3 DEF Injection, IsInjective
<1>5. Cardinality(newest) <= Keep
  <2> HIDE DEF rank, newest
  <2>1. QED
    BY <1>1, <1>4, FS_Injection
<1>6. QED
  BY <1>5, FS_Subset

LEMMA OneMore ==
    ASSUME NEW S, IsFiniteSet(S), Cardinality(S) <= Keep, NEW x
    PROVE  IsFiniteSet(S \cup {x}) /\ Cardinality(S \cup {x}) <= Keep + 1
<1>1. Cardinality(S) \in Nat
  BY FS_CardinalityType
<1>2. QED
  BY <1>1, FS_AddElement, BRAssumption

(* A retention that runs to its end leaves at most Keep + 1 of the backups *)
(* it listed, whatever the other machines write and delete meanwhile.      *)
THEOREM RetentionBoundsHolds == Spec => RetentionBounds
<1>1. Init => BoundsInv
  BY DEF Init, BoundsInv
<1>2. ASSUME TypeOK, RetentionInv, BoundsInv, NEW m \in Machines, PruneEnds(m)
      PROVE  Cardinality(listed[m] \cap backups) <= Keep + 1
  <2> DEFINE L == listed[m]
             newest == {k \in L : Cardinality(NewerIn(L, k)) < Keep}
             mine == JustWritten(m)
  <2>1. L \in SUBSET Key /\ L \subseteq written /\ IsFiniteSet(L)
    BY <1>2, FS_Subset DEF TypeOK, RetentionInv, BoundsInv, PruneEnds
  <2>2. IsFiniteSet(newest) /\ Cardinality(newest) <= Keep
    BY <2>1, FewAreNewest
  <2>3. L \cap backups \subseteq newest \cup {mine}
    <3>1. ASSUME NEW k \in L \cap backups, k # mine PROVE Cardinality(NewerIn(L, k)) < Keep
      <4>1. k \notin BackupsToPrune(L, mine)
        BY <1>2 DEF BoundsInv, PruneEnds
      <4>2. QED
        BY <2>1, <3>1, <4>1, NewerCount, BRAssumption DEF BackupsToPrune
    <3>2. QED
      BY <3>1
  <2>4. /\ IsFiniteSet(newest \cup {mine})
        /\ Cardinality(newest \cup {mine}) <= Keep + 1
    <3> HIDE DEF newest, mine
    <3>1. QED
      BY <2>2, OneMore
  <2>5. QED
    <3> HIDE DEF newest, mine, L
    <3>1. /\ Cardinality(L \cap backups) <= Cardinality(newest \cup {mine})
          /\ Cardinality(L \cap backups) \in Nat
      BY <2>3, <2>4, FS_Subset, FS_CardinalityType
    <3>2. Cardinality(newest \cup {mine}) \in Nat
      BY <2>4, FS_CardinalityType
    <3>3. QED
      BY <2>4, <3>1, <3>2, BRAssumption DEF L
<1>3. TypeOK /\ RetentionInv /\ BoundsInv /\ [Next]_vars =>
        [\A m \in Machines : PruneEnds(m) => Cardinality(listed[m] \cap backups) <= Keep + 1]_vars
  BY <1>2
<1>4. TypeOK /\ BoundsInv /\ [Next]_vars => BoundsInv'
  BY BoundsNext
<1>5. QED
  BY <1>1, <1>3, <1>4, RetentionInit, RetentionNext, BackupTypeCorrect, PTL
     DEF Spec, RetentionBounds
=============================================================================
