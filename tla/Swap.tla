--------------------------------- MODULE Swap ---------------------------------
(***************************************************************************)
(* tools/selfhost/swap.py and router.py: the blue/green swap of the        *)
(* self-hosted origin.                                                     *)
(*                                                                         *)
(* The router forwards each request to the target its state file names.    *)
(* A swap builds a generation (a folder), starts an instance of it on the  *)
(* idle target's port, checks it, flips the state file, waits until the    *)
(* router counts no request in flight on the old target, and stops the     *)
(* old instance.  A failure before the flip undoes all of that.  --stop    *)
(* stops a recorded instance that is not active.                           *)
(*                                                                         *)
(* Every work folder has its own lock, records (instances.json) and        *)
(* generations; the router's state file has a lock that only swaps take.   *)
(* A generation is the number of the swap that built it; 0 is what the     *)
(* operator installed before the first swap.  The process a swap started   *)
(* of a generation is known by its pid and creation time; a process the    *)
(* operator started of the same generation is another one.                 *)
(*                                                                         *)
(* Left out: what a generation is made of, and the checks of its copies    *)
(* (each one is a way to fail); refusals, which change nothing; the        *)
(* router's HTTP; instances that die by themselves once they are healthy.  *)
(* The operator acts by hand only while no command runs.                   *)
(***************************************************************************)
EXTENDS Naturals

CONSTANTS
    Works,        \* the work folders
    Targets,      \* the two targets of the router
    First,        \* the target that is active at first
    Requests,     \* bound: requests at once
    MaxGen,       \* bound: swaps
    Misread,      \* TRUE: a port whose listener is busy may look free
    SettleCovers, \* TRUE: no request takes longer than `settle` to be counted
    Interrupts    \* TRUE: an interrupt may arrive within the flip

ASSUME SwapAssumption ==
    /\ First \in Targets /\ MaxGen \in Nat
    /\ \E o \in Targets : o # First /\ Targets = {First, o}
    /\ Misread \in BOOLEAN /\ SettleCovers \in BOOLEAN /\ Interrupts \in BOOLEAN

Gens == 0..MaxGen

VARIABLES
    active,  \* the router's state file
    before,  \* the generation that was served before the one served now
    run,     \* run[t]: the process that listens on t's port
    rec,     \* rec[w][t]: w's record of t
    gens,    \* gens[w]: the generation folders under w
    made,    \* how many generations were begun
    job,     \* job[w]: the command that holds w's lock
    req      \* req[r]: a request in the router

vars == <<active, before, run, rec, gens, made, job, req>>

Processes == [gen : Gens, by : {"none", "swap", "hand"}]
Records   == [gen : Gens, state : {"none", "starting", "active", "draining",
                                   "stopped", "stop-failed"}]
Commands  == [op : {"none", "swap", "stop", "force"},
              at : {"none", "build", "started", "starting", "healthy", "flipped",
                    "drain", "zero", "stop", "prune", "restore"},
              t : Targets, a : Targets, gen : Gens, prev : Records]

Down  == [gen |-> 0, by |-> "none"]
NoRec == [gen |-> 0, state |-> "none"]
NoJob == [op |-> "none", at |-> "none", t |-> First, a |-> First, gen |-> 0,
          prev |-> NoRec]
NoReq == [at |-> "none", t |-> First]

Other(t)   == CHOOSE o \in Targets : o # t
Started(g) == [gen |-> g, by |-> "swap"]
Quiet      == \A w \in Works : job[w].op = "none"
OnDisk(g)  == g = 0 \/ \E w \in Works : g \in gens[w]

Init == /\ active = First /\ before = 0 /\ made = 0
        /\ run  = [t \in Targets |-> IF t = First THEN [gen |-> 0, by |-> "hand"] ELSE Down]
        /\ rec  = [w \in Works |-> [t \in Targets |-> NoRec]]
        /\ gens = [w \in Works |-> {}]
        /\ job  = [w \in Works |-> NoJob]
        /\ req  = [r \in Requests |-> NoReq]

-----------------------------------------------------------------------------
(* The router: the target is read, then the request is counted on it.      *)
Take(r) == /\ req[r].at = "none"
           /\ req' = [req EXCEPT ![r] = [at |-> "read", t |-> active]]
           /\ UNCHANGED <<active, before, run, rec, gens, made, job>>

Count(r) == /\ req[r].at = "read"
            /\ req' = [req EXCEPT ![r].at = "counted"]
            /\ UNCHANGED <<active, before, run, rec, gens, made, job>>

Finish(r) == /\ req[r].at = "counted"
             /\ req' = [req EXCEPT ![r] = NoReq]
             /\ UNCHANGED <<active, before, run, rec, gens, made, job>>

On(t, stage) == \E r \in Requests : req[r] = [at |-> stage, t |-> t]

-----------------------------------------------------------------------------
(* port_in_use, wrong when the listener is too busy to accept in a second. *)
LooksFree(t) == run[t] = Down \/ Misread

To(w, at)   == job' = [job EXCEPT ![w].at = at]
End(w)      == job' = [job EXCEPT ![w] = NoJob]

(* Variant: only the lock of the work folder is taken.                     *)
BeginWithoutStateLock(w) ==
    LET i == Other(active) IN
    /\ job[w].op = "none"
    /\ LooksFree(i) /\ made < MaxGen
    /\ made' = made + 1
    /\ gens' = [gens EXCEPT ![w] = @ \cup {made'}]
    /\ job'  = [job EXCEPT ![w] = [op |-> "swap", at |-> "build", t |-> i, a |-> active,
                                   gen |-> made', prev |-> rec[w][i]]]
    /\ UNCHANGED <<active, before, run, rec, req>>

(* swap() under both locks: the targets, the idle port, the record that a  *)
(* failure must put back, the folder of the new generation.                *)
Begin(w) ==
    LET i == Other(active) IN
    /\ job[w].op = "none" /\ \A v \in Works : job[v].op # "swap"
    /\ LooksFree(i) /\ made < MaxGen
    /\ made' = made + 1
    /\ gens' = [gens EXCEPT ![w] = @ \cup {made'}]
    /\ job'  = [job EXCEPT ![w] = [op |-> "swap", at |-> "build", t |-> i, a |-> active,
                                   gen |-> made', prev |-> rec[w][i]]]
    /\ UNCHANGED <<active, before, run, rec, req>>

(* The generation is built, the port is looked at again, the instance is   *)
(* started; on a port that is taken it never listens.                      *)
Start(w) == LET t == job[w].t IN
    /\ job[w].at = "build" /\ LooksFree(t)
    /\ run' = [run EXCEPT ![t] = IF @ = Down THEN Started(job[w].gen) ELSE @]
    /\ To(w, "started")
    /\ UNCHANGED <<active, before, rec, gens, made, req>>

SaveStarting(w) ==
    /\ job[w].at = "started" /\ To(w, "starting")
    /\ rec' = [rec EXCEPT ![w][job[w].t] = [gen |-> job[w].gen, state |-> "starting"]]
    /\ UNCHANGED <<active, before, run, gens, made, req>>

(* A bad build: the new instance exits.                                    *)
Exits(w) == /\ job[w].at \in {"started", "starting"}
            /\ run[job[w].t] = Started(job[w].gen)
            /\ run' = [run EXCEPT ![job[w].t] = Down]
            /\ UNCHANGED <<active, before, rec, gens, made, job, req>>

(* Variant: the port answers, whichever process that is or was.            *)
HealthyAnyhow(w) == /\ job[w].at = "starting" /\ To(w, "healthy")
                    /\ UNCHANGED <<active, before, run, rec, gens, made, req>>

(* health(): every answer carries the id of the instance this swap started. *)
Healthy(w) == /\ job[w].at = "starting" /\ run[job[w].t] = Started(job[w].gen)
              /\ To(w, "healthy")
              /\ UNCHANGED <<active, before, run, rec, gens, made, req>>

(* router.flip(), and `before` remembers whom it retires.                  *)
Flip(w) == /\ job[w].at = "healthy" /\ To(w, "flipped")
           /\ active' = job[w].t /\ before' = run[active].gen
           /\ UNCHANGED <<run, rec, gens, made, req>>

(* The handler of any exception up to the flip: it stops the instance, if  *)
(* it can, and removes the generation, if it can.                          *)
Fail(w) == LET t == job[w].t  g == job[w].gen IN
    /\ \/ job[w].at \in {"build", "started", "starting", "healthy"}
       \/ job[w].at = "flipped" /\ Interrupts
    /\ \/ run' = [run EXCEPT ![t] = IF @ = Started(g) THEN Down ELSE @]
       \/ run' = run
    /\ \/ gens' = [gens EXCEPT ![w] = @ \ {g}]
       \/ gens' = gens
    /\ To(w, "restore")
    /\ UNCHANGED <<active, before, rec, made, req>>

Restore(w) == /\ job[w].at = "restore" /\ End(w)
              /\ rec' = [rec EXCEPT ![w][job[w].t] = job[w].prev]
              /\ UNCHANGED <<active, before, run, gens, made, req>>

(* _after_flip: an old instance without a record is reported, not touched. *)
SaveFlipped(w) ==
    LET old == rec[w][job[w].a] IN
    /\ job[w].at = "flipped"
    /\ rec' = [rec EXCEPT ![w] = [t \in Targets |->
          IF t = job[w].t THEN [@[t] EXCEPT !.state = "active"]
          ELSE IF old = NoRec THEN NoRec ELSE [old EXCEPT !.state = "draining"]]]
    /\ To(w, IF old = NoRec THEN "prune" ELSE "drain")
    /\ UNCHANGED <<active, before, run, gens, made, req>>

-----------------------------------------------------------------------------
(* --stop, under the work folder's lock alone: never the active target.    *)
StopBegin(w, t, op) ==
    /\ job[w].op = "none"
    /\ rec[w][t] # NoRec /\ t # active
    /\ job' = [job EXCEPT ![w] = [op |-> op, at |-> IF op = "force" THEN "stop" ELSE "drain",
                                  t |-> t, a |-> active, gen |-> 0, prev |-> NoRec]]
    /\ UNCHANGED <<active, before, run, rec, gens, made, req>>

(* The target to be stopped, and the one the router must report meanwhile. *)
Retiring(w)  == IF job[w].op = "swap" THEN job[w].a ELSE job[w].t
NowActive(w) == IF job[w].op = "swap" THEN job[w].t ELSE job[w].a

(* drain(): one reading of the router's status.                            *)
Reading(w, zero) == /\ job[w].at \in {"drain", "zero"} /\ active = NowActive(w)
                    /\ On(Retiring(w), "counted") = ~zero

DrainZero(w) == /\ Reading(w, TRUE) /\ job[w].at = "drain" /\ To(w, "zero")
                /\ UNCHANGED <<active, before, run, rec, gens, made, req>>

DrainBusy(w) == /\ Reading(w, FALSE) /\ job[w].at = "zero" /\ To(w, "drain")
                /\ UNCHANGED <<active, before, run, rec, gens, made, req>>

(* Variant: the first reading of zero is enough.                           *)
DrainedAtOnce(w) == /\ Reading(w, TRUE) /\ To(w, "stop")
                    /\ UNCHANGED <<active, before, run, rec, gens, made, req>>

(* Zero for `settle` seconds.                                              *)
Drained(w) == /\ Reading(w, TRUE) /\ job[w].at = "zero" /\ To(w, "stop")
              /\ SettleCovers => ~On(Retiring(w), "read")
              /\ UNCHANGED <<active, before, run, rec, gens, made, req>>

AfterStop(w) == IF job[w].op = "swap" THEN To(w, "prune") ELSE End(w)

(* The deadline, no usable status, or another active target.               *)
DrainGivesUp(w) == /\ job[w].at \in {"drain", "zero"} /\ AfterStop(w)
                   /\ UNCHANGED <<active, before, run, rec, gens, made, req>>

(* stop(): only the recorded process is killed, which may fail; one that   *)
(* is gone counts as stopped, a reused pid does not.                       *)
StopInstance(w) ==
    LET t == Retiring(w)  mine == run[t] = Started(rec[w][t].gen) IN
    /\ job[w].at = "stop" /\ AfterStop(w)
    /\ \E stopped \in BOOLEAN :
          /\ run' = [run EXCEPT ![t] = IF mine /\ stopped THEN Down ELSE @]
          /\ rec' = [rec EXCEPT ![w][t].state = IF stopped THEN "stopped" ELSE "stop-failed"]
    /\ UNCHANGED <<active, before, gens, made, req>>

Recorded(w) == {rec[w][t].gen : t \in Targets}

(* Variant: only the generation that is served now is kept.                *)
PruneOthers(w) ==
    /\ job[w].at = "prune" /\ End(w)
    /\ gens' = [gens EXCEPT ![w] = @ \cap {job[w].gen}]
    /\ UNCHANGED <<active, before, run, rec, made, req>>

(* Generations that have no record go, as far as they can be removed.      *)
Prune(w) ==
    /\ job[w].at = "prune" /\ End(w)
    /\ \E left \in SUBSET gens[w] : gens' = [gens EXCEPT ![w] = (@ \cap Recorded(w)) \cup left]
    /\ UNCHANGED <<active, before, run, rec, made, req>>

(* The command dies; what it started lives on, its locks do not.           *)
Crash(w) == /\ job[w].op # "none" /\ End(w)
            /\ UNCHANGED <<active, before, run, rec, gens, made, req>>

-----------------------------------------------------------------------------
(* By hand: an instance that no command stops, once nothing uses it.       *)
HandStop(t) == /\ Quiet /\ t # active /\ run[t] # Down
               /\ ~On(t, "read") /\ ~On(t, "counted")
               /\ run' = [run EXCEPT ![t] = Down]
               /\ UNCHANGED <<active, before, rec, gens, made, job, req>>

(* A rollback: "start it again from its own gen dir", then --flip.         *)
HandStart(w, t) == /\ Quiet /\ t # active /\ run[t] = Down
                   /\ rec[w][t].gen \in gens[w] /\ rec[w][t].state # "starting"
                   /\ run' = [run EXCEPT ![t] = [gen |-> rec[w][t].gen, by |-> "hand"]]
                   /\ UNCHANGED <<active, before, rec, gens, made, job, req>>

HandFlip(w, t) == /\ Quiet /\ t # active /\ run[t] # Down
                  /\ run[t].gen = rec[w][t].gen /\ rec[w][t].state # "starting"
                  /\ run[t].gen \in gens[w]
                  /\ active' = t /\ before' = run[active].gen
                  /\ UNCHANGED <<run, rec, gens, made, job, req>>

Next == \/ \E r \in Requests : Take(r) \/ Count(r) \/ Finish(r)
        \/ \E w \in Works : \/ Begin(w) \/ Start(w) \/ SaveStarting(w) \/ Exits(w)
                            \/ Healthy(w) \/ Flip(w) \/ SaveFlipped(w)
                            \/ Fail(w) \/ Restore(w)
                            \/ \E t \in Targets, op \in {"stop", "force"} : StopBegin(w, t, op)
                            \/ DrainZero(w) \/ DrainBusy(w) \/ Drained(w)
                            \/ DrainGivesUp(w) \/ StopInstance(w)
                            \/ Prune(w) \/ Crash(w)
                            \/ \E t \in Targets : HandStart(w, t) \/ HandFlip(w, t)
        \/ \E t \in Targets : HandStop(t)

Spec == Init /\ [][Next]_vars

-----------------------------------------------------------------------------
(* Each variable keeps its type, and one swap at a time works on the       *)
(* router, whichever work folders are used.                                *)
TypeOK == /\ active \in Targets /\ before \in Gens /\ made \in Gens
          /\ run \in [Targets -> Processes]
          /\ rec \in [Works -> [Targets -> Records]]
          /\ gens \in [Works -> SUBSET (Gens \ {0})]
          /\ job \in [Works -> Commands]
          /\ req \in [Requests -> [at : {"none", "read", "counted"}, t : Targets]]
          /\ \A v, w \in Works : job[v].op = "swap" /\ job[w].op = "swap" => v = w

(* "The active instance never stops serving because of a bad build": the   *)
(* target of the state file is served, from a generation that is on disk,  *)
(* wherever a swap failed or died, and whatever --stop was asked to stop.  *)
ActiveServes == run[active] # Down /\ OnDisk(run[active].gen)

(* "The retired one is kept, so a rollback is: start it again from its own *)
(* gen dir": the generation served before this one is not pruned, until    *)
(* another one is served.                                                  *)
KeptForRollback == OnDisk(before)

(* "The swap stops the old instance only when its count is 0": no instance *)
(* that was in service is stopped under a request the router has sent its  *)
(* way, be it not counted yet, but by --force.                             *)
NothingCutOff ==
    [][\A t \in Targets :
          /\ run[t] # Down /\ run'[t] # run[t] /\ (On(t, "read") \/ On(t, "counted"))
          /\ \A w \in Works : run[t] # Started(job[w].gen)
          => \E w \in Works : job[w].op = "force" /\ job[w].at = "stop"]_vars

(* "0: flipped and the old one stopped (or there was none)": a swap that   *)
(* has stopped the recorded instance leaves nothing on the retired port.   *)
OldOneStopped ==
    \A w \in Works :
        job[w].op = "swap" /\ job[w].at = "prune" /\ rec[w][job[w].a].state = "stopped"
            => run[job[w].a] = Down
=============================================================================
