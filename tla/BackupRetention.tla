--------------------------- MODULE BackupRetention ---------------------------
(***************************************************************************)
(* updater/run.py, the tail of a successful push_state: the dated backup   *)
(* and the retention that prunes old ones.  A push that lands after        *)
(* another one may reach this tail while the other is still pruning, and   *)
(* the machines' clocks need not agree, so the tails interleave freely.    *)
(* A key is its time stamp and the machine that wrote it (the run id).     *)
(***************************************************************************)
EXTENDS Integers, FiniteSets

CONSTANTS
    Machines,   \* the machines, numbered in the order their run ids sort
    Keep,       \* BACKUP_KEEP
    MaxStamp    \* bound: the last time stamp a key can carry

ASSUME BRAssumption == /\ Machines \subseteq Nat
                       /\ Keep \in Nat \ {0}
                       /\ MaxStamp \in Nat

VARIABLES
    backups,    \* the keys stored below _aqueduct/backups/
    written,    \* history: every key ever written
    stamp,      \* stamp[m]: m's clock when it last wrote a key
    pc,         \* pc[m]: where m's push stands in its tail
    listed,     \* listed[m]: what m's retention listed
    prune       \* prune[m]: the keys m's retention has still to delete

vars == <<backups, written, stamp, pc, listed, prune>>

Key == [stamp : 1..MaxStamp, by : Machines]

(* Lexical order of the keys: the stamp, then the run id.                  *)
Newer(j, k) == j.stamp > k.stamp \/ (j.stamp = k.stamp /\ j.by > k.by)

NewerIn(keys, k) == {j \in keys : Newer(j, k)}

(* Variants of BackupsToPrune: one too many, one too few.                  *)
PruneOneMore(keys, mine) ==
    {k \in keys : k # mine /\ Cardinality(NewerIn(keys, k)) >= Keep - 1}

PruneOneLess(keys, mine) ==
    {k \in keys : k # mine /\ Cardinality(NewerIn(keys, k)) > Keep}

(* All but the Keep newest of the keys, never the one just written.        *)
BackupsToPrune(keys, mine) ==
    {k \in keys : k # mine /\ Cardinality(NewerIn(keys, k)) >= Keep}

JustWritten(m) == [stamp |-> stamp[m], by |-> m]

Init == /\ backups = {}
        /\ written = {}
        /\ stamp = [m \in Machines |-> 0]
        /\ pc = [m \in Machines |-> "idle"]
        /\ listed = [m \in Machines |-> {}]
        /\ prune = [m \in Machines |-> {}]

(* put_atomic(backup_key(...)): a later stamp than this machine's last one.*)
PutBackup(m) == /\ pc[m] = "idle"
                /\ \E s \in (stamp[m] + 1)..MaxStamp :
                     /\ stamp' = [stamp EXCEPT ![m] = s]
                     /\ backups' = backups \cup {[stamp |-> s, by |-> m]}
                     /\ written' = written \cup {[stamp |-> s, by |-> m]}
                /\ pc' = [pc EXCEPT ![m] = "list"]
                /\ UNCHANGED <<listed, prune>>

(* list_keys and backups_to_prune.                                         *)
ListBackups(m) == /\ pc[m] = "list"
                  /\ listed' = [listed EXCEPT ![m] = backups]
                  /\ prune' = [prune EXCEPT ![m] = BackupsToPrune(backups, JustWritten(m))]
                  /\ pc' = [pc EXCEPT ![m] = "prune"]
                  /\ UNCHANGED <<backups, written, stamp>>

(* Delete the oldest doomed key; one that is already gone is no error.     *)
DeleteOne(m) == /\ pc[m] = "prune"
                /\ \E k \in prune[m] :
                     /\ \A j \in prune[m] \ {k} : Newer(j, k)
                     /\ prune' = [prune EXCEPT ![m] = @ \ {k}]
                     /\ backups' = backups \ {k}
                /\ UNCHANGED <<written, stamp, pc, listed>>

EndTail(m) == /\ pc' = [pc EXCEPT ![m] = "idle"]
              /\ listed' = [listed EXCEPT ![m] = {}]
              /\ prune' = [prune EXCEPT ![m] = {}]
              /\ UNCHANGED <<backups, written, stamp>>

(* Everything doomed is deleted.                                           *)
PruneEnds(m) == pc[m] = "prune" /\ prune[m] = {} /\ EndTail(m)

(* A call raises, which never fails the push, or the process dies.         *)
TailStops(m) == pc[m] # "idle" /\ EndTail(m)

Next == \E m \in Machines : \/ PutBackup(m) \/ ListBackups(m) \/ DeleteOne(m)
                            \/ PruneEnds(m) \/ TailStops(m)

Spec == Init /\ [][Next]_vars

-----------------------------------------------------------------------------
(* Each variable keeps its type.                                           *)
TypeOK == /\ backups \subseteq written
          /\ written \subseteq Key
          /\ stamp \in [Machines -> 0..MaxStamp]
          /\ pc \in [Machines -> {"idle", "list", "prune"}]
          /\ listed \in [Machines -> SUBSET Key]
          /\ prune \in [Machines -> SUBSET Key]

(* However the prunes of several machines interleave, whatever their       *)
(* clocks say and wherever they stop, none of the Keep newest backups ever *)
(* written is deleted.                                                     *)
RetentionKeepsNewest == \A k \in written \ backups :
    Cardinality(NewerIn(written, k)) >= Keep

(* A retention that runs to its end leaves at most Keep + 1 of the backups *)
(* it listed: the Keep newest and the one just written.                    *)
RetentionBounds == [][\A m \in Machines :
    PruneEnds(m) => Cardinality(listed[m] \cap backups) <= Keep + 1]_vars
=============================================================================
