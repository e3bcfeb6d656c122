----------------------------- MODULE WriterLock -----------------------------
(***************************************************************************)
(* updater/writer_lock.py: the lock that gives one store region (statcan's *)
(* cubes and served CSVs) a single writer.  The lock is a file that names  *)
(* its owner by pid AND by start time, because Windows recycles pids.      *)
(*                                                                         *)
(* A process is its pid plus its incarnation: gen[p] stands for the start  *)
(* time, so a recycled pid is the same p with a larger gen.                *)
(* What is kept: every file operation is a step of its own (O_EXCL create, *)
(* the write of the body, the read that judges the owner, os.replace, the  *)
(* re-read, the read before a release, os.remove), and a process may be    *)
(* killed between any two of them.  What is left out: the text of the      *)
(* record, the tmp file (one per pid, never shared), and directories.      *)
(***************************************************************************)
EXTENDS Naturals, FiniteSets

CONSTANTS
    Pids,          \* the pids that ever run a writer of the region
    MaxGen,        \* bound: how often one pid is reused
    Steady,        \* pids whose process is never killed: the looping lane
    PsutilMayFail, \* TRUE: psutil may fail to judge a pid
    PauseCovers,   \* TRUE: 0.2 s outlasts every racer's replace (see Reread)
    NoLateReplace  \* TRUE: no lock is created under a racer (see Create)

ASSUME WLAssumption == /\ MaxGen \in Nat
                       /\ Steady \subseteq Pids
                       /\ "none" \notin Pids /\ "empty" \notin Pids
                       /\ PsutilMayFail \in BOOLEAN
                       /\ PauseCovers \in BOOLEAN
                       /\ NoLateReplace \in BOOLEAN

VARIABLES
    file,   \* the lock file: NoFile, Empty (created, no body yet) or a record
    alive,  \* alive[p]: is a process running under pid p?
    gen,    \* gen[p]: the incarnation that last ran under p
    pc      \* pc[p]: where the process is inside acquire() or release()

vars == <<file, alive, gen, pc>>

NoFile == [pid |-> "none", gen |-> 0]
Empty  == [pid |-> "empty", gen |-> 0]
Record == [pid : Pids, gen : 1..MaxGen]

(* Variant of Me: a record without the start time.                         *)
MeWithoutStart(p) == [pid |-> p, gen |-> 0]

Me(p) == [pid |-> p, gen |-> gen[p]]

PCs == {"idle", "write", "judge", "replace", "pause", "hold", "remove"}

(***************************************************************************)
(* What owner() answers for the current file.  An unreadable file is       *)
(* reported as held; a record is stale when its pid is gone or started at  *)
(* another instant.                                                        *)
(***************************************************************************)
OwnerAlive == file.pid \in Pids /\ alive[file.pid] /\ gen[file.pid] = file.gen
(* Variant of OwnerNone: an unreadable file means nobody.                  *)
UnreadableIsNone == file \notin Record \/ ~OwnerAlive

OwnerNone == file = NoFile \/ (file \in Record /\ ~OwnerAlive)
Stale == file \in Record /\ ~OwnerAlive

Holders == {p \in Pids : pc[p] \in {"hold", "remove"}}

(***************************************************************************)
(* A racer sits between its judgement "nobody owns it" and its os.replace. *)
(* The code has no guard against a slow racer: it sleeps 0.2 s before the  *)
(* re-read, and nothing at all protects a lock created meanwhile.  The two *)
(* constants turn each of these hopes into a fact, or leave it open.       *)
(***************************************************************************)
Racers == {p \in Pids : pc[p] = "replace"}

Init == /\ file = NoFile
        /\ alive = [p \in Pids |-> FALSE]
        /\ gen = [p \in Pids |-> 0]
        /\ pc = [p \in Pids |-> "idle"]

Goto(p, where) == pc' = [pc EXCEPT ![p] = where]

(* A process starts under a free pid: a recycled pid is a new incarnation. *)
Spawn(p) == /\ ~alive[p] /\ gen[p] < MaxGen
            /\ alive' = [alive EXCEPT ![p] = TRUE]
            /\ gen' = [gen EXCEPT ![p] = @ + 1]
            /\ UNCHANGED <<file, pc>>

(* The process ends, or is killed, wherever it stands; the file stays.     *)
Kill(p) == /\ alive[p] /\ p \notin Steady
           /\ alive' = [alive EXCEPT ![p] = FALSE]
           /\ Goto(p, "idle")
           /\ UNCHANGED <<file, gen>>

-----------------------------------------------------------------------------
(* acquire() *)

(* Variant of Create: O_CREAT without O_EXCL.                              *)
CreateAnyway(p) == /\ alive[p] /\ pc[p] = "idle"
                   /\ NoLateReplace => Racers = {}
                   /\ file' = Empty
                   /\ Goto(p, "write")
                   /\ UNCHANGED <<alive, gen>>

(* os.open(O_CREAT | O_EXCL) succeeds; the file exists and is still empty. *)
Create(p) == /\ alive[p] /\ pc[p] = "idle"
             /\ file = NoFile
             /\ NoLateReplace => Racers = {}
             /\ file' = Empty
             /\ Goto(p, "write")
             /\ UNCHANGED <<alive, gen>>

(* The body goes into the file just created; acquire() returns True.       *)
WriteBody(p) == /\ alive[p] /\ pc[p] = "write"
                /\ file' = IF file = Empty THEN Me(p) ELSE file
                /\ Goto(p, "hold")
                /\ UNCHANGED <<alive, gen>>

(* FileExistsError *)
CreateRefused(p) == /\ alive[p] /\ pc[p] = "idle"
                    /\ file # NoFile
                    /\ Goto(p, "judge")
                    /\ UNCHANGED <<file, alive, gen>>

(* Variant of Judge: an existing file is always taken over.                *)
JudgeTakes(p) == /\ alive[p] /\ pc[p] = "judge"
                 /\ Goto(p, "replace")
                 /\ UNCHANGED <<file, alive, gen>>

(* Variant of Judge: an existing file always refuses, as plain O_EXCL does. *)
JudgeRefuses(p) == /\ alive[p] /\ pc[p] = "judge"
                   /\ Goto(p, "idle")
                   /\ UNCHANGED <<file, alive, gen>>

(* owner() reads the file: held or unjudgeable refuses, otherwise a racer. *)
Judge(p) == /\ alive[p] /\ pc[p] = "judge"
            /\ \/ OwnerNone /\ Goto(p, "replace")
               \/ (~OwnerNone \/ PsutilMayFail) /\ Goto(p, "idle")
            /\ UNCHANGED <<file, alive, gen>>

(* os.replace(tmp, lock): whatever is there now is overwritten.            *)
Replace(p) == /\ alive[p] /\ pc[p] = "replace"
              /\ file' = Me(p)
              /\ Goto(p, "pause")
              /\ UNCHANGED <<alive, gen>>

(* os.replace raised (another process has the file open): return False.    *)
ReplaceFails(p) == /\ alive[p] /\ pc[p] = "replace"
                   /\ Goto(p, "idle")
                   /\ UNCHANGED <<file, alive, gen>>

(* After the pause: the lock is ours iff the file still names us.          *)
Reread(p) == /\ alive[p] /\ pc[p] = "pause"
             /\ PauseCovers => Racers = {}
             /\ Goto(p, IF file = Me(p) THEN "hold" ELSE "idle")
             /\ UNCHANGED <<file, alive, gen>>

-----------------------------------------------------------------------------
(* release(): read the owner, then remove the file if it is ours.          *)

ReleaseRead(p) == /\ alive[p] /\ pc[p] = "hold"
                  /\ Goto(p, IF file = Me(p) THEN "remove" ELSE "idle")
                  /\ UNCHANGED <<file, alive, gen>>

ReleaseRemove(p) == /\ alive[p] /\ pc[p] = "remove"
                    /\ file' = NoFile
                    /\ Goto(p, "idle")
                    /\ UNCHANGED <<alive, gen>>

(* The operator deletes a file that has no body and no process writing it. *)
OperatorClear == /\ file = Empty
                 /\ \A p \in Pids : pc[p] # "write"
                 /\ file' = NoFile
                 /\ UNCHANGED <<alive, gen, pc>>

-----------------------------------------------------------------------------
Step(p) == \/ Create(p) \/ WriteBody(p) \/ CreateRefused(p) \/ Judge(p)
           \/ Replace(p) \/ Reread(p)
           \/ ReleaseRead(p) \/ ReleaseRemove(p)

Next == \/ \E p \in Pids : Step(p) \/ ReplaceFails(p) \/ Spawn(p) \/ Kill(p)
        \/ OperatorClear

Spec == Init /\ [][Next]_vars

(***************************************************************************)
(* Fairness.  Every running process takes its next step (the OS schedules  *)
(* it) and its replace does not fail for ever; the lane is started, and    *)
(* the operator clears a bodiless file.                                    *)
(***************************************************************************)
Fairness == /\ \A p \in Pids : WF_vars(Step(p)) /\ SF_vars(Replace(p))
            /\ \A p \in Steady : WF_vars(Spawn(p))
            /\ WF_vars(OperatorClear)

LiveSpec == Spec /\ Fairness

-----------------------------------------------------------------------------
(* Each variable keeps its type: the shape of the lock file, of the        *)
(* process table and of the program counters of acquire() and release().   *)
TypeOK == /\ file \in Record \cup {NoFile, Empty}
          /\ alive \in [Pids -> BOOLEAN]
          /\ gen \in [Pids -> 0..MaxGen]
          /\ pc \in [Pids -> PCs]

(* One writer per region: at most one process is between the True that     *)
(* acquire() returned and its release.                                     *)
MutualExclusion == \A p, q \in Holders : p = q

(* A holder's claim is on disk: the file names it for as long as it holds, *)
(* so a writer that asks refuse_if_held() is refused.                      *)
HolderIsNamed == \A p \in Holders : file = Me(p)

(* release() removes the caller's own file, "never another's".             *)
ReleaseOnlyOwn == [][\A p \in Pids : ReleaseRemove(p) => file = Me(p)]_vars

(* A lock whose owner is gone does not stay: the next acquirer takes it    *)
(* over even when the dead owner's pid now belongs to another process.     *)
StaleIsReclaimed == Stale ~> ~Stale
=============================================================================
