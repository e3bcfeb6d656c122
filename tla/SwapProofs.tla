------------------------------ MODULE SwapProofs ------------------------------
(***************************************************************************)
(* Proofs about Swap: what the router serves is there and on disk, the     *)
(* generation served before is too, and no instance in service is stopped  *)
(* under a request.  The argument follows generations: a number is given   *)
(* to one swap, so no record, process or folder of another one bears it.   *)
(***************************************************************************)
EXTENDS Swap, TLAPS

Pre  == {"build", "started", "starting", "healthy", "restore"}
Post == {"flipped", "drain", "zero", "stop", "prune"}

(* The types alone; that one swap runs at a time is in JobInv.             *)
Types == /\ active \in Targets /\ before \in Gens /\ made \in Gens
         /\ run \in [Targets -> Processes]
         /\ rec \in [Works -> [Targets -> Records]]
         /\ gens \in [Works -> SUBSET (Gens \ {0})]
         /\ job \in [Works -> Commands]
         /\ req \in [Requests -> [at : {"none", "read", "counted"}, t : Targets]]

(* What a command knows of the router's state.                             *)
JobInv ==
    /\ \A v, w \in Works : job[v].op = "swap" /\ job[w].op = "swap" => v = w
    /\ \A w \in Works :
          /\ job[w].op = "none" => job[w].at = "none"
          /\ job[w].op \in {"stop", "force"} => job[w].at \in {"drain", "zero", "stop"}
          /\ job[w].op = "swap" => job[w].at \in Pre \cup Post /\ job[w].a # job[w].t
          /\ job[w].op = "swap" /\ job[w].at \in Pre => active = job[w].a
          /\ job[w].op = "swap" /\ job[w].at \in Post => active = job[w].t

(* Every generation number is one of those given so far, and a folder has  *)
(* one owner.                                                              *)
Given ==
    /\ before <= made
    /\ \A t \in Targets : run[t].gen <= made
    /\ \A w \in Works : /\ \A t \in Targets : rec[w][t].gen <= made
                        /\ \A g \in gens[w] : g <= made
                        /\ job[w].gen <= made /\ job[w].prev.gen <= made
    /\ \A v, w \in Works : v # w => gens[v] \cap gens[w] = {}

(* The generation that a swap builds is nobody else's.                     *)
NewOf(w) ==
    LET g == job[w].gen  t == job[w].t IN
    /\ g # 0 /\ before # g /\ run[job[w].a].gen # g
    /\ \A v \in Works, u \in Targets : rec[v][u].gen = g => v = w /\ u = t
    /\ \A v \in Works : g \in gens[v] => v = w
    /\ job[w].at # "restore" => g \in gens[w]
    /\ job[w].at \in {"starting", "healthy"} \cup Post => rec[w][t].gen = g
    /\ job[w].at = "healthy" => run[t] = Started(g)

NewInv == \A w \in Works : job[w].op = "swap" => NewOf(w)

(* What is served has a record, and is not what a --stop is about to stop. *)
ServedInv ==
    /\ run[active] # Down /\ OnDisk(run[active].gen) /\ OnDisk(before)
    /\ \A w \in Works :
          /\ run[active].gen \in gens[w] => rec[w][active].gen = run[active].gen
          /\ job[w].op = "swap" /\ job[w].at \in Post /\ before \in gens[w]
                => rec[w][job[w].a].gen = before
          /\ job[w].op \in {"stop", "force"} /\ job[w].t = active
                => run[active] # Started(rec[w][active].gen)

(* A drained instance has no request.                                      *)
DrainOf(w) == LET t == Retiring(w) IN
    job[w].at = "stop" /\ job[w].op # "force" /\ run[t] = Started(rec[w][t].gen)
        => ~On(t, "read") /\ ~On(t, "counted")

DrainInv == \A w \in Works : DrainOf(w)

SwapInv == JobInv /\ Given /\ NewInv /\ ServedInv

-----------------------------------------------------------------------------
LEMMA OtherFacts == ASSUME NEW t \in Targets
                    PROVE  Other(t) \in Targets /\ Other(t) # t
BY SwapAssumption DEF Other

LEMMA TypesInit == Init => Types /\ SwapInv /\ DrainInv
<1> SUFFICES ASSUME Init PROVE Types /\ SwapInv /\ DrainInv
  OBVIOUS
<1> USE SwapAssumption DEF Init, NoJob, NoRec, NoReq, Down, Gens
<1>1. Types
  BY DEF Types, Processes, Records, Commands
<1>2. JobInv
  BY DEF JobInv
<1>3. Given
  BY DEF Given
<1>4. NewInv
  BY DEF NewInv, NewOf
<1>5. ServedInv
  BY DEF ServedInv, OnDisk
<1>6. DrainInv
  BY DEF DrainInv, DrainOf
<1>7. QED
  BY <1>1, <1>2, <1>3, <1>4, <1>5, <1>6 DEF SwapInv

Ats == {"none", "build", "started", "starting", "healthy", "flipped", "drain", "zero",
        "stop", "prune", "restore"}

LEMMA JobTypes ==
    ASSUME Types, NEW w \in Works
    PROVE  /\ NoJob \in Commands /\ Retiring(w) \in Targets /\ NowActive(w) \in Targets
           /\ \A at \in Ats : To(w, at) => job' \in [Works -> Commands]
           /\ End(w) => job' \in [Works -> Commands]
           /\ AfterStop(w) => job' \in [Works -> Commands]
<1>1. NoRec \in Records
  BY SwapAssumption DEF NoRec, Records, Gens
<1>2. NoJob \in Commands
  BY <1>1, SwapAssumption DEF NoJob, Commands, Gens
<1>3. job[w] \in Commands
  BY DEF Types
<1>4. Retiring(w) \in Targets /\ NowActive(w) \in Targets
  BY <1>3 DEF Retiring, NowActive, Commands
<1>5. ASSUME NEW at \in Ats, To(w, at) PROVE job' \in [Works -> Commands]
  <2>1. [job[w] EXCEPT !.at = at] \in Commands
    BY <1>3 DEF Commands, Ats
  <2>2. job' = [job EXCEPT ![w] = [job[w] EXCEPT !.at = at]]
    BY <1>5 DEF To, Types
  <2>3. QED
    BY <2>1, <2>2 DEF Types
<1>6. ASSUME End(w) PROVE job' \in [Works -> Commands]
  BY <1>2, <1>6 DEF End, Types
<1>7. QED
  BY <1>2, <1>4, <1>5, <1>6 DEF AfterStop, Ats

LEMMA ProcessTypes ==
    ASSUME Types
    PROVE  /\ Down \in Processes /\ NoRec \in Records
           /\ \A g \in Gens : Started(g) \in Processes
           /\ \A w \in Works, t \in Targets : rec[w][t] \in Records
BY SwapAssumption DEF Types, Down, NoRec, Processes, Records, Started, Gens

LEMMA TypesNext == Types /\ [Next]_vars => Types'
<1> SUFFICES ASSUME Types, [Next]_vars PROVE Types'
  OBVIOUS
<1> USE SwapAssumption
<1>1. CASE UNCHANGED vars
  BY <1>1 DEF Types, vars
<1>2. ASSUME NEW r \in Requests, Take(r) \/ Count(r) \/ Finish(r) PROVE Types'
  <2> DEFINE Reqs == [at : {"none", "read", "counted"}, t : Targets]
  <2>1. req[r] \in Reqs /\ NoReq \in Reqs /\ [at |-> "read", t |-> active] \in Reqs
    BY DEF Types, NoReq
  <2>2. [req[r] EXCEPT !.at = "counted"] \in Reqs
    BY <2>1
  <2>3. req' \in [Requests -> Reqs]
    <3> HIDE DEF Reqs
    <3> USE <2>1, <2>2 DEF Types
    <3>1. CASE Take(r)
      BY <3>1 DEF Take, Reqs
    <3>2. CASE Count(r)
      BY <3>2 DEF Count, Reqs
    <3>3. CASE Finish(r)
      BY <3>3 DEF Finish, Reqs
    <3>4. QED
      BY <1>2, <3>1, <3>2, <3>3
  <2>4. UNCHANGED <<active, before, run, rec, gens, made, job>>
    BY <1>2 DEF Take, Count, Finish
  <2>5. QED
    BY <2>3, <2>4 DEF Types
<1>3. ASSUME NEW w \in Works, Begin(w) PROVE Types'
  <2>1. Other(active) \in Targets
    BY OtherFacts DEF Types
  <2>2. made' \in Gens /\ made' # 0
    BY <1>3 DEF Types, Begin, Gens
  <2>3. job' \in [Works -> Commands]
    BY <1>3, <2>1, <2>2 DEF Types, Begin, Commands
  <2>4. gens' \in [Works -> SUBSET (Gens \ {0})]
    BY <1>3, <2>2 DEF Types, Begin
  <2>5. QED
    BY <1>3, <2>2, <2>3, <2>4 DEF Types, Begin
<1>4. ASSUME NEW w \in Works, Start(w) \/ Exits(w) PROVE Types'
  <2>1. job' \in [Works -> Commands]
    BY <1>4, JobTypes DEF Types, Start, Exits, Ats
  <2>2. job[w].gen \in Gens
    BY DEF Types, Commands
  <2>3. run' \in [Targets -> Processes]
    <3>1. CASE Start(w)
      BY <3>1, <2>2, ProcessTypes DEF Types, Start
    <3>2. CASE Exits(w)
      BY <3>2, ProcessTypes DEF Types, Exits
    <3>3. QED
      BY <1>4, <3>1, <3>2
  <2>4. QED
    BY <1>4, <2>1, <2>3 DEF Types, Start, Exits
<1>5. ASSUME NEW w \in Works, SaveStarting(w) PROVE Types'
  <2>1. job' \in [Works -> Commands]
    BY <1>5, JobTypes DEF SaveStarting, Ats
  <2>2. [gen |-> job[w].gen, state |-> "starting"] \in Records
    BY DEF Types, Commands, Records
  <2>3. rec' \in [Works -> [Targets -> Records]]
    BY <1>5, <2>2 DEF Types, SaveStarting
  <2>4. QED
    BY <1>5, <2>1, <2>3 DEF Types, SaveStarting
<1>6. ASSUME NEW w \in Works, Healthy(w) \/ Flip(w) PROVE Types'
  <2>1. job' \in [Works -> Commands]
    BY <1>6, JobTypes DEF Healthy, Flip, Ats
  <2>2. run[active].gen \in Gens /\ job[w].t \in Targets
    BY DEF Types, Processes, Commands
  <2>3. QED
    BY <1>6, <2>1, <2>2 DEF Types, Healthy, Flip
<1>7. ASSUME NEW w \in Works, Fail(w) PROVE Types'
  <2>1. job' \in [Works -> Commands]
    BY <1>7, JobTypes DEF Fail, Ats
  <2>2. run' \in [Targets -> Processes]
    BY <1>7, ProcessTypes DEF Types, Fail
  <2>3. gens' \in [Works -> SUBSET (Gens \ {0})]
    BY <1>7 DEF Types, Fail
  <2>4. QED
    BY <1>7, <2>1, <2>2, <2>3 DEF Types, Fail
<1>8. ASSUME NEW w \in Works, Restore(w) PROVE Types'
  <2>1. job' \in [Works -> Commands] /\ job[w].prev \in Records
    BY <1>8, JobTypes DEF Restore, Types, Commands
  <2>2. QED
    BY <1>8, <2>1 DEF Types, Restore
<1>9. ASSUME NEW w \in Works, SaveFlipped(w) PROVE Types'
  <2>1. job' \in [Works -> Commands]
    BY <1>9, JobTypes DEF SaveFlipped, Ats
  <2>2. ASSUME NEW r \in Records
        PROVE  /\ [r EXCEPT !.state = "active"] \in Records
               /\ [r EXCEPT !.state = "draining"] \in Records
    BY DEF Records
  <2>3. job[w].a \in Targets
    BY DEF Types, Commands
  <2>4. rec' \in [Works -> [Targets -> Records]]
    BY <1>9, <2>2, <2>3, ProcessTypes DEF Types, SaveFlipped
  <2>5. QED
    BY <1>9, <2>1, <2>4 DEF Types, SaveFlipped
<1>10. ASSUME NEW w \in Works, NEW t \in Targets, NEW op \in {"stop", "force"},
              StopBegin(w, t, op)
       PROVE Types'
  <2>1. PICK at \in {"drain", "stop"} :
           job' = [job EXCEPT ![w] = [op |-> op, at |-> at, t |-> t, a |-> active,
                                      gen |-> 0, prev |-> NoRec]]
    BY <1>10 DEF StopBegin
  <2>2. op \in {"none", "swap", "stop", "force"} /\ at \in Ats /\ 0 \in Gens
    BY SwapAssumption DEF Ats, Gens
  <2>3. [op |-> op, at |-> at, t |-> t, a |-> active, gen |-> 0, prev |-> NoRec]
           \in Commands
    BY <2>2, ProcessTypes DEF Types, Commands, Ats
  <2>4. job' \in [Works -> Commands]
    BY <2>1, <2>3 DEF Types
  <2>5. QED
    BY <1>10, <2>4 DEF StopBegin, Types
<1>11. ASSUME NEW w \in Works, DrainZero(w) \/ DrainBusy(w) PROVE Types'
  <2>1. job' \in [Works -> Commands]
    BY <1>11, JobTypes DEF DrainZero, DrainBusy, Ats
  <2>2. QED
    BY <1>11, <2>1 DEF Types, DrainZero, DrainBusy
<1>12. ASSUME NEW w \in Works, Drained(w) \/ DrainGivesUp(w) PROVE Types'
  <2>1. job' \in [Works -> Commands]
    BY <1>12, JobTypes DEF Drained, DrainGivesUp, Ats
  <2>2. QED
    BY <1>12, <2>1 DEF Types, Drained, DrainGivesUp
<1>13. ASSUME NEW w \in Works, StopInstance(w) PROVE Types'
  <2>1. Retiring(w) \in Targets /\ job' \in [Works -> Commands]
    BY <1>13, JobTypes DEF StopInstance
  <2>2. PICK stopped \in BOOLEAN :
           /\ run' = [run EXCEPT ![Retiring(w)] =
                 IF run[Retiring(w)] = Started(rec[w][Retiring(w)].gen) /\ stopped
                 THEN Down ELSE @]
           /\ rec' = [rec EXCEPT ![w][Retiring(w)].state =
                 IF stopped THEN "stopped" ELSE "stop-failed"]
    BY <1>13 DEF StopInstance
  <2>3. run' \in [Targets -> Processes]
    BY <2>1, <2>2, ProcessTypes DEF Types
  <2>4. \A s \in {"stopped", "stop-failed"} :
           [rec[w][Retiring(w)] EXCEPT !.state = s] \in Records
    BY <2>1, ProcessTypes DEF Records
  <2>5. rec' \in [Works -> [Targets -> Records]]
    BY <2>1, <2>2, <2>4 DEF Types
  <2>6. QED
    BY <1>13, <2>1, <2>3, <2>5 DEF Types, StopInstance
<1>14. ASSUME NEW w \in Works, Prune(w) PROVE Types'
  <2>1. job' \in [Works -> Commands]
    BY <1>14, JobTypes DEF Prune
  <2>2. PICK left \in SUBSET gens[w] :
           gens' = [gens EXCEPT ![w] = (gens[w] \cap Recorded(w)) \cup left]
    BY <1>14 DEF Prune
  <2>3. (gens[w] \cap Recorded(w)) \cup left \in SUBSET (Gens \ {0})
    BY DEF Types
  <2>4. gens' \in [Works -> SUBSET (Gens \ {0})]
    BY <2>2, <2>3 DEF Types
  <2>5. UNCHANGED <<active, before, run, rec, made, req>>
    BY <1>14 DEF Prune
  <2>6. QED
    BY <2>1, <2>4, <2>5 DEF Types
<1>15. ASSUME NEW w \in Works, Crash(w) PROVE Types'
  <2>1. job' \in [Works -> Commands]
    BY <1>15, JobTypes DEF Crash
  <2>2. QED
    BY <1>15, <2>1 DEF Types, Crash
<1>16. ASSUME NEW w \in Works, NEW t \in Targets, HandStart(w, t) \/ HandFlip(w, t) PROVE Types'
  <2>1. /\ [gen |-> rec[w][t].gen, by |-> "hand"] \in Processes
        /\ run[active].gen \in Gens
    BY DEF Types, Processes, Records
  <2>2. CASE HandStart(w, t)
    BY <2>1, <2>2 DEF Types, HandStart
  <2>3. CASE HandFlip(w, t)
    BY <2>1, <2>3 DEF Types, HandFlip
  <2>4. QED
    BY <1>16, <2>2, <2>3
<1>17. ASSUME NEW t \in Targets, HandStop(t) PROVE Types'
  BY <1>17, ProcessTypes DEF Types, HandStop
<1>18. QED
  BY <1>1, <1>2, <1>3, <1>4, <1>5, <1>6, <1>7, <1>8, <1>9, <1>10, <1>11, <1>12, <1>13,
     <1>14, <1>15, <1>16, <1>17
  DEF Next

-----------------------------------------------------------------------------
(* What a step does to the commands.                                       *)
LEMMA ToFacts ==
    ASSUME Types, NEW w \in Works, NEW at \in Ats, To(w, at)
    PROVE  \A v \in Works : /\ v # w => job'[v] = job[v]
                            /\ job'[v].op = job[v].op /\ job'[v].t = job[v].t
                            /\ job'[v].a = job[v].a /\ job'[v].gen = job[v].gen
                            /\ job'[v].prev = job[v].prev
                            /\ job'[v].at = IF v = w THEN at ELSE job[v].at
BY DEF Types, Commands, To

LEMMA EndFacts ==
    ASSUME Types, NEW w \in Works, End(w)
    PROVE  /\ \A v \in Works : v # w => job'[v] = job[v]
           /\ job'[w].op = "none" /\ job'[w].at = "none" /\ job'[w].gen = 0
           /\ job'[w].prev.gen = 0
BY DEF Types, End, NoJob, NoRec

(* Which command is where.                                                 *)
LEMMA AtFacts ==
    ASSUME Types, JobInv, NEW w \in Works
    PROVE  /\ job[w].at \in {"build", "started", "starting", "healthy", "flipped",
                             "prune", "restore"} => job[w].op = "swap"
           /\ job[w].at # "none" => job[w].op # "none"
           /\ job[w].op \in {"none", "swap", "stop", "force"}
           /\ job[w].t \in Targets /\ job[w].a \in Targets /\ job[w].at \in Ats
           /\ job[w].gen \in Nat /\ job[w].prev.gen \in Nat
BY SwapAssumption DEF Types, JobInv, Commands, Records, Gens, Ats

LEMMA BeginFacts ==
    ASSUME Types, NEW w \in Works, Begin(w)
    PROVE  /\ \A v \in Works : v # w => job'[v] = job[v]
           /\ \A v \in Works : job[v].op # "swap"
           /\ job'[w].op = "swap" /\ job'[w].at = "build"
           /\ job'[w].t \in Targets /\ job'[w].t # active /\ job'[w].a = active
           /\ job'[w].gen = made + 1 /\ job'[w].prev = rec[w][job'[w].t]
           /\ made' = made + 1
           /\ gens' = [gens EXCEPT ![w] = gens[w] \cup {made + 1}]
           /\ UNCHANGED <<active, before, run, rec, req>>
<1>1. Other(active) \in Targets /\ Other(active) # active
  BY OtherFacts DEF Types
<1>2. QED
  BY <1>1 DEF Begin, Types

LEMMA StopFacts ==
    ASSUME Types, NEW w \in Works, NEW t \in Targets, NEW op \in {"stop", "force"},
           StopBegin(w, t, op)
    PROVE  /\ \A v \in Works : v # w => job'[v] = job[v]
           /\ job'[w].op = op /\ job'[w].at = IF op = "force" THEN "stop" ELSE "drain"
           /\ job'[w].t = t /\ t # active /\ job'[w].a = active
           /\ job'[w].gen = 0 /\ job'[w].prev.gen = 0
           /\ UNCHANGED <<active, before, run, rec, gens, made, req>>
BY DEF StopBegin, Types, NoRec

LEMMA JobNext == ASSUME ~Interrupts PROVE Types /\ JobInv /\ [Next]_vars => JobInv'
<1> SUFFICES ASSUME Types, JobInv, [Next]_vars PROVE JobInv'
  OBVIOUS
<1>1. ASSUME UNCHANGED <<active, job>> PROVE JobInv'
  BY <1>1 DEF JobInv
<1>2. ASSUME NEW w \in Works, NEW at \in Ats, To(w, at), UNCHANGED active,
             \/ job[w].op = "swap" /\ job[w].at \in Pre /\ at \in Pre
             \/ job[w].op = "swap" /\ job[w].at \in Post /\ at \in Post
             \/ job[w].op \in {"stop", "force"} /\ at \in {"drain", "zero", "stop"}
      PROVE  JobInv'
  <2>1. \A v \in Works : /\ job'[v].op = job[v].op /\ job'[v].t = job[v].t
                         /\ job'[v].a = job[v].a
                         /\ job'[v].at = IF v = w THEN at ELSE job[v].at
    BY <1>2, ToFacts
  <2>2. \A v \in Works : v = w => job[v].op # "none"
    BY <1>2
  <2>3. "none" \notin {"drain", "zero", "stop"} /\ Pre \cap Post = {}
    BY DEF Pre, Post
  <2>4. QED
    BY <1>2, <2>1, <2>2, <2>3 DEF JobInv
<1>3. ASSUME NEW w \in Works, End(w), UNCHANGED active PROVE JobInv'
  <2>1. /\ job'[w].op = "none" /\ job'[w].at = "none"
        /\ \A v \in Works : v # w => job'[v] = job[v]
    BY <1>3, EndFacts
  <2>2. \A v \in Works : job'[v].op = "swap" => job[v].op = "swap" /\ v # w
    BY <2>1
  <2>3. \A v, u \in Works : job'[v].op = "swap" /\ job'[u].op = "swap" => v = u
    BY <2>2 DEF JobInv
  <2>4. QED
    BY <1>3, <2>1, <2>3 DEF JobInv
<1>4. ASSUME NEW w \in Works, Begin(w) PROVE JobInv'
  <2>1. /\ job'[w].op = "swap" /\ job'[w].at = "build" /\ job'[w].a = active
        /\ job'[w].t # active /\ active' = active
        /\ \A v \in Works : job[v].op # "swap"
        /\ \A v \in Works : v # w => job'[v] = job[v]
    BY <1>4, BeginFacts
  <2>2. "build" \in Pre /\ "build" \notin Post
    BY DEF Pre, Post
  <2>3. \A v \in Works : job'[v].op = "swap" => v = w
    BY <2>1
  <2>4. QED
    BY <2>1, <2>2, <2>3 DEF JobInv
<1>5. ASSUME NEW w \in Works, Start(w) \/ SaveStarting(w) \/ Healthy(w) PROVE JobInv'
  BY <1>5, <1>2, AtFacts DEF Start, SaveStarting, Healthy, Pre, Ats
<1>6. ASSUME NEW w \in Works, Flip(w) PROVE JobInv'
  <2>1. job[w].op = "swap" /\ active' = job[w].t /\ job[w].a # job[w].t
    BY <1>6, AtFacts DEF Flip, JobInv
  <2>2. \A v \in Works : /\ job'[v].op = job[v].op /\ job'[v].t = job[v].t
                         /\ job'[v].a = job[v].a
                         /\ job'[v].at = IF v = w THEN "flipped" ELSE job[v].at
    BY <1>6, ToFacts DEF Flip, Ats
  <2>3. \A v \in Works : v # w => job[v].op # "swap"
    BY <2>1 DEF JobInv
  <2>4. QED
    BY <2>1, <2>2, <2>3 DEF JobInv, Pre, Post
<1>7. ASSUME NEW w \in Works, Fail(w) PROVE JobInv'
  BY <1>7, <1>2, AtFacts DEF Fail, Pre, Ats
<1>8. ASSUME NEW w \in Works, SaveFlipped(w) PROVE JobInv'
  BY <1>8, <1>2, AtFacts DEF SaveFlipped, Post, Ats
<1>9. ASSUME NEW w \in Works, NEW t \in Targets, NEW op \in {"stop", "force"},
             StopBegin(w, t, op)
      PROVE JobInv'
  BY <1>9, StopFacts DEF JobInv
<1>10. ASSUME NEW w \in Works, DrainZero(w) \/ DrainBusy(w) \/ Drained(w) PROVE JobInv'
  <2>1. /\ job[w].at \in {"drain", "zero"} /\ UNCHANGED active
        /\ \E at \in {"drain", "zero", "stop"} : To(w, at)
    BY <1>10 DEF DrainZero, DrainBusy, Drained, Reading
  <2>2. job[w].op \in {"swap", "stop", "force"}
    BY <2>1, AtFacts
  <2>3. QED
    BY <2>1, <2>2, <1>2 DEF Post, Ats
<1>11. ASSUME NEW w \in Works, job[w].at \in {"drain", "zero", "stop"}, AfterStop(w),
              UNCHANGED active
       PROVE  JobInv'
  BY <1>11, <1>2, <1>3 DEF AfterStop, Post, Ats
<1>12. ASSUME NEW w \in Works, DrainGivesUp(w) \/ StopInstance(w) PROVE JobInv'
  BY <1>12, <1>11 DEF DrainGivesUp, StopInstance
<1>13. ASSUME NEW w \in Works, Restore(w) \/ Prune(w) \/ Crash(w) PROVE JobInv'
  BY <1>13, <1>3 DEF Restore, Prune, Crash
<1>14. ASSUME NEW w \in Works, NEW t \in Targets, HandFlip(w, t) PROVE JobInv'
  BY <1>14 DEF HandFlip, Quiet, JobInv
<1>15. QED
  BY <1>1, <1>4, <1>5, <1>6, <1>7, <1>8, <1>9, <1>10, <1>12, <1>13, <1>14
  DEF Next, vars, Take, Count, Finish, Exits, HandStart, HandStop

-----------------------------------------------------------------------------
LEMMA GenFacts ==
    ASSUME Types
    PROVE  /\ made \in Nat /\ before \in Nat
           /\ \A t \in Targets : run[t].gen \in Nat
           /\ \A w \in Works : /\ \A t \in Targets : rec[w][t].gen \in Nat
                               /\ \A g \in gens[w] : g \in Nat \ {0}
BY SwapAssumption DEF Types, Processes, Records, Gens

(* What a step leaves in the records of the other targets and folders.     *)
LEMMA RecFacts ==
    ASSUME Types, JobInv, NEW w \in Works
    PROVE  /\ SaveStarting(w) => \A v \in Works, u \in Targets :
                 rec'[v][u].gen = IF v = w /\ u = job[w].t THEN job[w].gen ELSE rec[v][u].gen
           /\ Restore(w) => \A v \in Works, u \in Targets :
                 rec'[v][u].gen = IF v = w /\ u = job[w].t THEN job[w].prev.gen
                                  ELSE rec[v][u].gen
           /\ SaveFlipped(w) => \A v \in Works, u \in Targets : rec'[v][u].gen = rec[v][u].gen
           /\ StopInstance(w) => \A v \in Works, u \in Targets : rec'[v][u].gen = rec[v][u].gen
<1>1. job[w].t \in Targets /\ job[w].a \in Targets /\ Retiring(w) \in Targets
  BY JobTypes DEF Types, Commands
<1>2. \A v \in Works, u \in Targets : rec[v][u] \in Records
  BY DEF Types
<1>3. ASSUME SaveStarting(w), NEW v \in Works, NEW u \in Targets
      PROVE  rec'[v][u].gen = IF v = w /\ u = job[w].t THEN job[w].gen ELSE rec[v][u].gen
  BY <1>1, <1>3 DEF Types, SaveStarting
<1>4. ASSUME Restore(w), NEW v \in Works, NEW u \in Targets
      PROVE  rec'[v][u].gen = IF v = w /\ u = job[w].t THEN job[w].prev.gen ELSE rec[v][u].gen
  BY <1>1, <1>4 DEF Types, Restore
<1>5. ASSUME SaveFlipped(w), NEW v \in Works, NEW u \in Targets
      PROVE  rec'[v][u].gen = rec[v][u].gen
  <2>1. \A r \in Records : /\ [r EXCEPT !.state = "active"].gen = r.gen
                           /\ [r EXCEPT !.state = "draining"].gen = r.gen
    BY DEF Records
  <2>2. CASE v # w
    BY <1>5, <2>2 DEF Types, SaveFlipped
  <2>3. CASE v = w /\ u = job[w].t
    BY <1>2, <1>5, <2>1, <2>3 DEF Types, SaveFlipped
  <2>4. CASE v = w /\ u # job[w].t
    <3>1. job[w].a # job[w].t
      BY <1>5, AtFacts DEF SaveFlipped, JobInv
    <3>2. u = job[w].a
      BY <1>1, <2>4, <3>1, SwapAssumption
    <3>3. rec'[w][u] = IF rec[w][job[w].a] = NoRec THEN NoRec
                       ELSE [rec[w][job[w].a] EXCEPT !.state = "draining"]
      BY <1>5, <2>4 DEF Types, SaveFlipped
    <3>4. QED
      BY <1>1, <1>2, <2>1, <2>4, <3>2, <3>3
  <2>5. QED
    BY <2>2, <2>3, <2>4
<1>6. ASSUME StopInstance(w), NEW v \in Works, NEW u \in Targets
      PROVE  rec'[v][u].gen = rec[v][u].gen
  <2>1. PICK s \in {"stopped", "stop-failed"} : rec' = [rec EXCEPT ![w][Retiring(w)].state = s]
    BY <1>6 DEF StopInstance
  <2>2. \A r \in Records : [r EXCEPT !.state = s].gen = r.gen
    BY DEF Records
  <2>3. rec'[v][u] = IF v = w /\ u = Retiring(w) THEN [rec[v][u] EXCEPT !.state = s]
                     ELSE rec[v][u]
    BY <1>1, <2>1 DEF Types
  <2>4. QED
    BY <1>2, <2>2, <2>3
<1>7. QED
  BY <1>3, <1>4, <1>5, <1>6

LEMMA GivenNext == Types /\ JobInv /\ Given /\ [Next]_vars => Given'
<1> SUFFICES ASSUME Types, JobInv, Given, [Next]_vars PROVE Given'
  OBVIOUS
<1>0. /\ \A w \in Works : \A t \in Targets : rec[w][t].gen \in Nat
      /\ \A t \in Targets : run[t].gen \in Nat
      /\ made \in Nat /\ active \in Targets /\ before \in Nat
  BY GenFacts DEF Types
<1>j. \A w \in Works : job[w].gen \in Nat /\ job[w].prev.gen \in Nat /\ job[w].t \in Targets
  BY AtFacts
<1>1. ASSUME UNCHANGED <<before, made, run, rec, gens>>,
             \A v \in Works : /\ job'[v].gen = job[v].gen \/ job'[v].gen = 0
                              /\ job'[v].prev.gen = job[v].prev.gen \/ job'[v].prev.gen = 0
      PROVE  Given'
  <2>1. ASSUME NEW v \in Works PROVE job'[v].gen <= made /\ job'[v].prev.gen <= made
    <3>1. job[v].gen <= made /\ job[v].prev.gen <= made /\ 0 <= made
      BY <1>0 DEF Given
    <3>2. /\ job'[v].gen = job[v].gen \/ job'[v].gen = 0
          /\ job'[v].prev.gen = job[v].prev.gen \/ job'[v].prev.gen = 0
      BY <1>1
    <3>3. QED
      BY <3>1, <3>2
  <2>2. QED
    BY <1>1, <2>1 DEF Given
<1>t. ASSUME NEW w \in Works, NEW at \in Ats, To(w, at)
      PROVE  \A v \in Works : job'[v].gen = job[v].gen /\ job'[v].prev.gen = job[v].prev.gen
  BY <1>t, ToFacts
<1>e. ASSUME NEW w \in Works, End(w)
      PROVE  \A v \in Works : /\ job'[v].gen = job[v].gen \/ job'[v].gen = 0
                              /\ job'[v].prev.gen = job[v].prev.gen \/ job'[v].prev.gen = 0
  BY <1>e, EndFacts
<1>2. ASSUME NEW w \in Works, Begin(w) PROVE Given'
  <2>1. /\ made' = made + 1 /\ job'[w].gen = made + 1 /\ job'[w].t \in Targets
        /\ job'[w].prev = rec[w][job'[w].t]
        /\ \A v \in Works : v # w => job'[v] = job[v]
        /\ gens' = [gens EXCEPT ![w] = gens[w] \cup {made + 1}]
        /\ UNCHANGED <<before, run, rec>>
    BY <1>2, BeginFacts
  <2>2. \A v \in Works : gens'[v] = IF v = w THEN gens[w] \cup {made + 1} ELSE gens[v]
    BY <2>1 DEF Types
  <2>3. \A v \in Works : made + 1 \notin gens[v]
    BY <1>0 DEF Given
  <2>4. \A v \in Works : \A g \in gens[v] : g \in Nat
    BY GenFacts
  <2>5. \A v, u \in Works : v # u => gens'[v] \cap gens'[u] = {}
    BY <2>2, <2>3 DEF Given
  <2>6. \A v \in Works : job'[v].gen <= made' /\ job'[v].prev.gen <= made'
    BY <1>0, <1>j, <2>1 DEF Given
  <2>7. QED
    BY <1>0, <2>1, <2>2, <2>4, <2>5, <2>6 DEF Given
<1>3. ASSUME NEW w \in Works, Start(w) PROVE Given'
  <2>1. \A t \in Targets : run'[t].gen = run[t].gen \/ run'[t].gen = job[w].gen
    BY <1>3 DEF Start, Types, Started
  <2>2. UNCHANGED <<before, made, rec, gens>> /\ To(w, "started")
    BY <1>3 DEF Start
  <2>3. QED
    BY <1>t, <2>1, <2>2 DEF Given, Ats
<1>4. ASSUME NEW w \in Works, SaveStarting(w) PROVE Given'
  <2>1. UNCHANGED <<before, made, run, gens>> /\ To(w, "starting")
    BY <1>4 DEF SaveStarting
  <2>2. \A v \in Works, u \in Targets : rec'[v][u].gen <= made
    BY <1>4, RecFacts DEF Given
  <2>3. QED
    BY <1>t, <2>1, <2>2 DEF Given, Ats
<1>5. ASSUME NEW w \in Works, Exits(w) PROVE Given'
  <2>1. \A t \in Targets : run'[t].gen = run[t].gen \/ run'[t].gen = 0
    BY <1>5 DEF Exits, Types, Down
  <2>2. UNCHANGED <<before, made, rec, gens, job>>
    BY <1>5 DEF Exits
  <2>3. QED
    BY <1>0, <2>1, <2>2 DEF Given
<1>6. ASSUME NEW w \in Works, Flip(w) PROVE Given'
  <2>1. UNCHANGED <<made, run, rec, gens>> /\ To(w, "flipped") /\ before' = run[active].gen
    BY <1>6 DEF Flip
  <2>2. QED
    BY <1>0, <1>t, <2>1 DEF Given, Ats
<1>7. ASSUME NEW w \in Works, Fail(w) PROVE Given'
  <2>1. \A t \in Targets : run'[t].gen = run[t].gen \/ run'[t].gen = 0
    BY <1>7 DEF Fail, Types, Down
  <2>2. \A v \in Works : gens'[v] \subseteq gens[v]
    BY <1>7 DEF Fail, Types
  <2>3. UNCHANGED <<before, made, rec>> /\ To(w, "restore")
    BY <1>7 DEF Fail
  <2>4. QED
    BY <1>0, <1>t, <2>1, <2>2, <2>3 DEF Given, Ats
<1>8. ASSUME NEW w \in Works, Restore(w) PROVE Given'
  <2>1. UNCHANGED <<before, made, run, gens>> /\ End(w)
    BY <1>8 DEF Restore
  <2>2. \A v \in Works, u \in Targets : rec'[v][u].gen <= made
    BY <1>8, RecFacts DEF Given
  <2>3. QED
    BY <1>0, <1>e, <2>1, <2>2 DEF Given
<1>9. ASSUME NEW w \in Works, SaveFlipped(w) PROVE Given'
  <2>1. /\ UNCHANGED <<before, made, run, gens>>
        /\ \E at \in {"prune", "drain"} : To(w, at)
    BY <1>9 DEF SaveFlipped
  <2>2. \A v \in Works, u \in Targets : rec'[v][u].gen <= made
    BY <1>9, RecFacts DEF Given
  <2>3. QED
    BY <1>t, <2>1, <2>2 DEF Given, Ats
<1>10. ASSUME NEW w \in Works, NEW t \in Targets, NEW op \in {"stop", "force"},
              StopBegin(w, t, op)
       PROVE  Given'
  <2>1. /\ UNCHANGED <<before, made, run, rec, gens>> /\ job'[w].gen = 0 /\ job'[w].prev.gen = 0
        /\ \A v \in Works : v # w => job'[v] = job[v]
    BY <1>10, StopFacts
  <2>2. QED
    BY <1>1, <2>1
<1>11. ASSUME NEW w \in Works, StopInstance(w) PROVE Given'
  <2>1. \A t \in Targets : run'[t].gen = run[t].gen \/ run'[t].gen = 0
    BY <1>11, JobTypes DEF StopInstance, Types, Down
  <2>2. \A v \in Works, u \in Targets : rec'[v][u].gen <= made
    BY <1>11, RecFacts DEF Given
  <2>3. UNCHANGED <<before, made, gens>> /\ AfterStop(w)
    BY <1>11 DEF StopInstance
  <2>4. QED
    BY <1>0, <1>t, <1>e, <2>1, <2>2, <2>3 DEF Given, AfterStop, Ats
<1>12. ASSUME NEW w \in Works, Prune(w) PROVE Given'
  <2>1. \A v \in Works : gens'[v] \subseteq gens[v]
    BY <1>12 DEF Prune, Types
  <2>2. UNCHANGED <<before, made, run, rec>> /\ End(w)
    BY <1>12 DEF Prune
  <2>3. QED
    BY <1>0, <1>e, <2>1, <2>2 DEF Given
<1>13. ASSUME NEW w \in Works,
              \/ Healthy(w) \/ DrainZero(w) \/ DrainBusy(w) \/ Drained(w)
              \/ DrainGivesUp(w) \/ Crash(w)
       PROVE  Given'
  <2>1. /\ UNCHANGED <<before, made, run, rec, gens>>
        /\ End(w) \/ \E at \in Ats : To(w, at)
    BY <1>13 DEF Healthy, DrainZero, DrainBusy, Drained, DrainGivesUp, Crash, AfterStop, Ats
  <2>2. QED
    BY <1>1, <1>t, <1>e, <2>1
<1>14. ASSUME NEW w \in Works, NEW t \in Targets, HandStart(w, t) \/ HandFlip(w, t) PROVE Given'
  <2>1. \A u \in Targets : run'[u].gen = run[u].gen \/ run'[u].gen = rec[w][t].gen
    BY <1>14 DEF HandStart, HandFlip, Types
  <2>2. before' = before \/ before' = run[active].gen
    BY <1>14 DEF HandStart, HandFlip
  <2>3. UNCHANGED <<made, rec, gens, job>>
    BY <1>14 DEF HandStart, HandFlip
  <2>4. QED
    BY <1>0, <2>1, <2>2, <2>3 DEF Given
<1>15. ASSUME NEW t \in Targets, HandStop(t) PROVE Given'
  <2>1. \A u \in Targets : run'[u].gen = run[u].gen \/ run'[u].gen = 0
    BY <1>15 DEF HandStop, Types, Down
  <2>2. UNCHANGED <<before, made, rec, gens, job>>
    BY <1>15 DEF HandStop
  <2>3. QED
    BY <1>0, <2>1, <2>2 DEF Given
<1>16. QED
  BY <1>1, <1>2, <1>3, <1>4, <1>5, <1>6, <1>7, <1>8, <1>9, <1>10, <1>11, <1>12, <1>13,
     <1>14, <1>15
  DEF Next, vars, Take, Count, Finish

-----------------------------------------------------------------------------
(* A step that changes neither records nor folders, and stops processes at *)
(* most.                                                                   *)
LEMMA NewKept ==
    ASSUME Types, NEW w \in Works, NewOf(w),
           job'[w].t = job[w].t, job'[w].a = job[w].a, job'[w].gen = job[w].gen,
           UNCHANGED <<before, gens>>,
           run'[job[w].a].gen \in {run[job[w].a].gen, 0},
           \A v \in Works, u \in Targets : rec'[v][u].gen = rec[v][u].gen,
           job'[w].at # "restore" => job[w].at # "restore",
           job'[w].at \in {"starting", "healthy"} \cup Post =>
               job[w].at \in {"starting", "healthy"} \cup Post,
           job'[w].at = "healthy" => run'[job[w].t] = Started(job[w].gen)
    PROVE  NewOf(w)'
<1>1. job[w].t \in Targets /\ job[w].gen # 0
  BY DEF Types, Commands, NewOf
<1>2. QED
  BY <1>1 DEF NewOf

LEMMA StartedFacts == \A g, h : Started(g) = Started(h) => g = h
<1>1. ASSUME NEW g, NEW h, Started(g) = Started(h) PROVE g = h
  <2>1. Started(g).gen = g /\ Started(h).gen = h
    BY DEF Started
  <2>2. QED
    BY <1>1, <2>1
<1>2. QED
  BY <1>1

LEMMA NewNext ==
    ASSUME ~Interrupts PROVE Types /\ JobInv /\ Given /\ NewInv /\ [Next]_vars => NewInv'
<1> SUFFICES ASSUME Types, JobInv, Given, NewInv, [Next]_vars, NEW w \in Works,
                    job'[w].op = "swap"
             PROVE  NewOf(w)'
  BY DEF NewInv
<1> DEFINE g == job[w].gen
           t == job[w].t
<1>0. /\ job[w].t \in Targets /\ job[w].a \in Targets /\ job[w].gen \in Nat
      /\ job[w].op = "swap" => NewOf(w) /\ job[w].a # job[w].t
  BY AtFacts DEF NewInv, JobInv
<1>s. \A v \in Works : job[v].op = "swap" /\ job[w].op = "swap" => v = w
  BY DEF JobInv
<1>1. ASSUME UNCHANGED <<before, run, rec, gens, job>> PROVE NewOf(w)'
  <2>1. job[w].op = "swap" /\ NewOf(w)
    BY <1>1, <1>0
  <2>2. QED
    BY <1>1, <2>1, NewKept DEF NewOf
<1>2. ASSUME NEW v \in Works, Begin(v) PROVE NewOf(w)'
  <2>1. /\ job'[v].at = "build" /\ job'[v].gen = made + 1 /\ made' = made + 1
        /\ gens' = [gens EXCEPT ![v] = gens[v] \cup {made + 1}]
        /\ job'[v].a = active /\ job'[v].t \in Targets
        /\ \A u \in Works : job[u].op # "swap"
        /\ \A u \in Works : u # v => job'[u] = job[u]
        /\ UNCHANGED <<before, run, rec>>
    BY <1>2, BeginFacts
  <2>2. w = v
    BY <2>1
  <2>3. /\ made \in Nat /\ before # made + 1 /\ active \in Targets
        /\ \A u \in Targets : run[u].gen # made + 1
        /\ \A x \in Works, u \in Targets : rec[x][u].gen # made + 1
        /\ \A x \in Works : made + 1 \notin gens[x]
    BY GenFacts DEF Given, Types
  <2>4. \A x \in Works : gens'[x] = IF x = w THEN gens[w] \cup {made + 1} ELSE gens[x]
    BY <2>1, <2>2 DEF Types
  <2>5. "build" \notin {"starting", "healthy", "restore"} \cup Post
    BY DEF Post
  <2>6. QED
    BY <2>1, <2>2, <2>3, <2>4, <2>5 DEF NewOf
<1>t. ASSUME NEW v \in Works, NEW at \in Ats, To(v, at)
      PROVE  /\ job'[w].op = job[w].op /\ job'[w].t = job[w].t /\ job'[w].a = job[w].a
             /\ job'[w].gen = job[w].gen /\ job'[w].at = IF w = v THEN at ELSE job[w].at
             /\ job[w].op = "swap" /\ NewOf(w) /\ job[w].a # job[w].t
             /\ job[v].op = "swap" => v = w
  BY <1>t, <1>0, <1>s, ToFacts
<1>3. ASSUME NEW v \in Works, Start(v) PROVE NewOf(w)'
  <2>1. v = w /\ job'[w].at = "started" /\ NewOf(w) /\ job[w].a # job[w].t
        /\ job'[w].t = job[w].t /\ job'[w].a = job[w].a /\ job'[w].gen = job[w].gen
    BY <1>3, <1>t, AtFacts DEF Start, Ats
  <2>2. UNCHANGED <<before, rec, gens>> /\ run'[job[w].a] = run[job[w].a] /\ job[w].at = "build"
    BY <1>3, <1>0, <2>1 DEF Start, Types
  <2>3. "started" \notin {"starting", "healthy", "restore"} \cup Post
    BY DEF Post
  <2>4. QED
    BY <2>1, <2>2, <2>3, NewKept
<1>4. ASSUME NEW v \in Works, SaveStarting(v) PROVE NewOf(w)'
  <2>1. v = w /\ job'[w].at = "starting" /\ NewOf(w)
        /\ job'[w].t = job[w].t /\ job'[w].a = job[w].a /\ job'[w].gen = job[w].gen
    BY <1>4, <1>t, AtFacts DEF SaveStarting, Ats
  <2>2. UNCHANGED <<before, run, gens>> /\ job[w].at = "started"
    BY <1>4, <2>1 DEF SaveStarting
  <2>3. \A x \in Works, u \in Targets :
           rec'[x][u].gen = IF x = w /\ u = t THEN g ELSE rec[x][u].gen
    BY <1>4, <2>1, RecFacts
  <2>4. QED
    BY <1>0, <2>1, <2>2, <2>3 DEF NewOf
<1>5. ASSUME NEW v \in Works, Exits(v) PROVE NewOf(w)'
  <2>1. UNCHANGED <<before, rec, gens, job>> /\ job[v].at \in {"started", "starting"}
        /\ run' = [run EXCEPT ![job[v].t] = Down]
    BY <1>5 DEF Exits
  <2>2. job[w].op = "swap" /\ v = w /\ NewOf(w) /\ job[w].a # job[w].t
    BY <2>1, <1>0, <1>s, AtFacts
  <2>3. run'[job[w].a] = run[job[w].a]
    BY <1>0, <2>1, <2>2 DEF Types
  <2>4. QED
    BY <2>1, <2>2, <2>3, NewKept
<1>6. ASSUME NEW v \in Works, Healthy(v) PROVE NewOf(w)'
  <2>1. v = w /\ job'[w].at = "healthy" /\ NewOf(w)
        /\ job'[w].t = job[w].t /\ job'[w].a = job[w].a /\ job'[w].gen = job[w].gen
    BY <1>6, <1>t, AtFacts DEF Healthy, Ats
  <2>2. UNCHANGED <<before, run, rec, gens>> /\ job[w].at = "starting" /\ run[t] = Started(g)
    BY <1>6, <2>1 DEF Healthy
  <2>3. QED
    BY <2>1, <2>2, NewKept
<1>7. ASSUME NEW v \in Works, Flip(v) PROVE NewOf(w)'
  <2>1. v = w /\ job'[w].at = "flipped" /\ NewOf(w) /\ job[w].op = "swap"
        /\ job'[w].t = job[w].t /\ job'[w].a = job[w].a /\ job'[w].gen = job[w].gen
    BY <1>7, <1>t, AtFacts DEF Flip, Ats
  <2>2. UNCHANGED <<run, rec, gens>> /\ job[w].at = "healthy" /\ before' = run[active].gen
    BY <1>7, <2>1 DEF Flip
  <2>3. active = job[w].a
    BY <2>1, <2>2 DEF JobInv, Pre
  <2>4. QED
    BY <1>0, <2>1, <2>2, <2>3 DEF NewOf
<1>8. ASSUME NEW v \in Works, Fail(v) PROVE NewOf(w)'
  <2>1. v = w /\ job'[w].at = "restore" /\ NewOf(w) /\ job[w].a # job[w].t
        /\ job'[w].t = job[w].t /\ job'[w].a = job[w].a /\ job'[w].gen = job[w].gen
    BY <1>8, <1>t, AtFacts DEF Fail, Ats
  <2>2. UNCHANGED <<before, rec>> /\ run'[job[w].a] = run[job[w].a]
    BY <1>8, <1>0, <2>1 DEF Fail, Types
  <2>3. \A x \in Works : gens'[x] \subseteq gens[x]
    BY <1>8 DEF Fail, Types
  <2>4. "restore" \notin {"starting", "healthy"} \cup Post
    BY DEF Post
  <2>5. QED
    BY <1>0, <2>1, <2>2, <2>3, <2>4 DEF NewOf
<1>9. ASSUME NEW v \in Works, SaveFlipped(v) PROVE NewOf(w)'
  <2>1. PICK at \in {"prune", "drain"} : To(v, at)
    BY <1>9 DEF SaveFlipped
  <2>2. v = w /\ job'[w].at = at /\ NewOf(w)
        /\ job'[w].t = job[w].t /\ job'[w].a = job[w].a /\ job'[w].gen = job[w].gen
    BY <1>9, <2>1, <1>t, AtFacts DEF SaveFlipped, Ats
  <2>3. UNCHANGED <<before, run, gens>> /\ job[w].at = "flipped"
    BY <1>9, <2>2 DEF SaveFlipped
  <2>4. \A x \in Works, u \in Targets : rec'[x][u].gen = rec[x][u].gen
    BY <1>9, RecFacts
  <2>5. QED
    BY <2>1, <2>2, <2>3, <2>4, NewKept DEF Post
<1>10. ASSUME NEW v \in Works, End(v) PROVE w # v /\ job'[w] = job[w] /\ NewOf(w)
  BY <1>10, <1>0, EndFacts
<1>11. ASSUME NEW v \in Works, Restore(v) \/ Prune(v) PROVE NewOf(w)'
  BY <1>11, <1>10, <1>s, AtFacts DEF Restore, Prune
<1>12. ASSUME NEW v \in Works, Crash(v) PROVE NewOf(w)'
  <2>1. job'[w] = job[w] /\ NewOf(w) /\ UNCHANGED <<before, run, rec, gens>>
    BY <1>12, <1>10 DEF Crash
  <2>2. QED
    BY <2>1, NewKept DEF NewOf
<1>13. ASSUME NEW v \in Works, NEW u \in Targets, NEW op \in {"stop", "force"},
              StopBegin(v, u, op)
       PROVE  NewOf(w)'
  <2>1. /\ UNCHANGED <<before, run, rec, gens>> /\ job'[v].op = op
        /\ \A x \in Works : x # v => job'[x] = job[x]
    BY <1>13, StopFacts
  <2>2. job'[w] = job[w] /\ NewOf(w)
    BY <2>1, <1>0
  <2>3. QED
    BY <2>1, <2>2, NewKept DEF NewOf
<1>14. ASSUME NEW v \in Works, DrainZero(v) \/ DrainBusy(v) \/ Drained(v) PROVE NewOf(w)'
  <2>1. PICK at \in {"drain", "zero", "stop"} : To(v, at)
    BY <1>14 DEF DrainZero, DrainBusy, Drained
  <2>2. UNCHANGED <<before, run, rec, gens>> /\ job[v].at \in {"drain", "zero"}
    BY <1>14 DEF DrainZero, DrainBusy, Drained, Reading
  <2>3. /\ job'[w].t = job[w].t /\ job'[w].a = job[w].a /\ job'[w].gen = job[w].gen
        /\ job'[w].at = IF w = v THEN at ELSE job[w].at
        /\ NewOf(w)
    BY <2>1, <1>t DEF Ats
  <2>4. {"drain", "zero", "stop"} \subseteq Post
    BY DEF Post
  <2>5. QED
    BY <2>1, <2>2, <2>3, <2>4, NewKept DEF NewOf
<1>15. ASSUME NEW v \in Works, AfterStop(v), job[v].at \in {"drain", "zero", "stop"}
       PROVE  /\ NewOf(w) /\ job'[w].t = job[w].t /\ job'[w].a = job[w].a
              /\ job'[w].gen = job[w].gen /\ job[w].op = "swap"
              /\ job'[w].at \in Post => job[w].at \in Post
              /\ job'[w].at \notin Post => job'[w].at = job[w].at
  <2>1. {"drain", "zero", "stop", "prune"} \subseteq Post
    BY DEF Post
  <2>2. CASE To(v, "prune")
    BY <1>15, <2>1, <2>2, <1>t DEF Ats
  <2>3. CASE End(v)
    BY <2>3, <1>0, <1>10
  <2>4. QED
    BY <1>15, <2>2, <2>3 DEF AfterStop
<1>16. ASSUME NEW v \in Works, DrainGivesUp(v) PROVE NewOf(w)'
  <2>1. AfterStop(v) /\ job[v].at \in {"drain", "zero"} /\ UNCHANGED <<before, run, rec, gens>>
    BY <1>16 DEF DrainGivesUp
  <2>2. /\ NewOf(w) /\ job'[w].t = job[w].t /\ job'[w].a = job[w].a
        /\ job'[w].gen = job[w].gen
        /\ job'[w].at \in Post => job[w].at \in Post
        /\ job'[w].at \notin Post => job'[w].at = job[w].at
    BY <2>1, <1>15
  <2>3. "healthy" \notin Post /\ "restore" \notin Post /\ "starting" \notin Post
    BY DEF Post
  <2>4. QED
    BY <2>1, <2>2, <2>3, NewKept DEF NewOf
<1>17. ASSUME NEW v \in Works, StopInstance(v) PROVE NewOf(w)'
  <2>1. /\ AfterStop(v) /\ job[v].at = "stop" /\ UNCHANGED <<before, gens>>
        /\ \A u \in Targets : run'[u] = run[u] \/
              (run'[u] = Down /\ u = Retiring(v) /\ run[u] = Started(rec[v][u].gen))
    BY <1>17, JobTypes DEF StopInstance, Types
  <2>2. /\ NewOf(w) /\ job'[w].t = job[w].t /\ job'[w].a = job[w].a
        /\ job'[w].gen = job[w].gen /\ job[w].op = "swap"
        /\ job'[w].at \in Post => job[w].at \in Post
        /\ job'[w].at \notin Post => job'[w].at = job[w].at
    BY <2>1, <1>15
  <2>3. "healthy" \notin Post /\ "restore" \notin Post /\ "starting" \notin Post
    BY DEF Post
  <2>4. \A x \in Works, u \in Targets : rec'[x][u].gen = rec[x][u].gen
    BY <1>17, RecFacts
  <2>5. run'[job[w].a].gen \in {run[job[w].a].gen, 0}
    BY <1>0, <2>1 DEF Down
  <2>6. ASSUME job[w].at = "healthy" PROVE run'[job[w].t] = Started(job[w].gen)
    <3>1. v # w
      BY <2>1, <2>6
    <3>2. run[job[w].t] = Started(job[w].gen) /\ rec[v][job[w].t].gen # job[w].gen
      BY <1>0, <2>2, <2>6, <3>1 DEF NewOf
    <3>3. Started(rec[v][job[w].t].gen) # Started(job[w].gen)
      BY <3>2, StartedFacts
    <3>4. QED
      BY <1>0, <2>1, <3>2, <3>3
  <2>7. QED
    BY <2>1, <2>2, <2>3, <2>4, <2>5, <2>6, NewKept
<1>18. ASSUME Quiet, UNCHANGED job PROVE NewOf(w)'
  BY <1>18 DEF Quiet
<1>19. QED
  BY <1>1, <1>2, <1>3, <1>4, <1>5, <1>6, <1>7, <1>8, <1>9, <1>11, <1>12, <1>13, <1>14,
     <1>16, <1>17, <1>18
  DEF Next, vars, Take, Count, Finish, HandStart, HandFlip, HandStop

-----------------------------------------------------------------------------
LEMMA ServedKept ==
    ASSUME Types, ServedInv, UNCHANGED <<active, before, gens>>,
           run'[active] = run[active],
           \A v \in Works : rec'[v][active].gen = rec[v][active].gen,
           \A v \in Works : job'[v].op = "swap" /\ job'[v].at \in Post =>
               /\ job[v].op = "swap" /\ job[v].at \in Post /\ job'[v].a = job[v].a
               /\ rec'[v][job[v].a].gen = rec[v][job[v].a].gen,
           \A v \in Works : job'[v].op \in {"stop", "force"} /\ job'[v].t = active =>
               job[v].op \in {"stop", "force"} /\ job[v].t = active
    PROVE  ServedInv'
BY DEF ServedInv, OnDisk

LEMMA ServedNext ==
    ASSUME ~Interrupts
    PROVE  Types /\ JobInv /\ Given /\ NewInv /\ ServedInv /\ [Next]_vars => ServedInv'
<1> SUFFICES ASSUME Types, JobInv, Given, NewInv, ServedInv, [Next]_vars
             PROVE  ServedInv'
  OBVIOUS
<1>0. /\ active \in Targets
      /\ \A w \in Works : job[w].t \in Targets /\ job[w].a \in Targets
  BY AtFacts DEF Types
<1>d. {"flipped", "drain", "zero", "stop", "prune"} = Post
  BY DEF Post
<1>p. ASSUME NEW w \in Works, job[w].at \in Pre
      PROVE  job[w].op = "swap" /\ active = job[w].a /\ job[w].t # active /\ NewOf(w)
  BY <1>p, AtFacts DEF JobInv, NewInv, Pre
<1>s. \A v, w \in Works : job[v].op = "swap" /\ job[w].op = "swap" => v = w
  BY DEF JobInv
<1>t. ASSUME NEW w \in Works, NEW at \in Ats, To(w, at), job[w].at \in Post \/ at \notin Post
      PROVE  /\ \A v \in Works : job'[v].op = "swap" /\ job'[v].at \in Post =>
                    job[v].op = "swap" /\ job[v].at \in Post /\ job'[v].a = job[v].a
             /\ \A v \in Works : job'[v].op \in {"stop", "force"} /\ job'[v].t = active =>
                    job[v].op \in {"stop", "force"} /\ job[v].t = active
  BY <1>t, ToFacts
<1>e. ASSUME NEW w \in Works, End(w)
      PROVE  /\ \A v \in Works : job'[v].op = "swap" /\ job'[v].at \in Post =>
                    job[v].op = "swap" /\ job[v].at \in Post /\ job'[v].a = job[v].a
             /\ \A v \in Works : job'[v].op \in {"stop", "force"} /\ job'[v].t = active =>
                    job[v].op \in {"stop", "force"} /\ job[v].t = active
  BY <1>e, EndFacts
<1>1. ASSUME UNCHANGED <<active, before, gens, rec, job>>, run'[active] = run[active]
      PROVE  ServedInv'
  BY <1>1, ServedKept
<1>2. ASSUME NEW w \in Works, Begin(w) PROVE ServedInv'
  <2>1. /\ job'[w].op = "swap" /\ job'[w].at = "build"
        /\ gens' = [gens EXCEPT ![w] = gens[w] \cup {made + 1}]
        /\ \A v \in Works : job[v].op # "swap" /\ (v # w => job'[v] = job[v])
        /\ UNCHANGED <<active, before, run, rec>>
    BY <1>2, BeginFacts
  <2>2. run[active].gen # made + 1 /\ before # made + 1
    BY <1>0, GenFacts DEF Given
  <2>3. \A v \in Works : gens'[v] = IF v = w THEN gens[w] \cup {made + 1} ELSE gens[v]
    BY <2>1 DEF Types
  <2>4. "build" \notin Post
    BY DEF Post
  <2>5. OnDisk(run[active].gen)' /\ OnDisk(before)'
    BY <2>1, <2>3 DEF ServedInv, OnDisk
  <2>6. QED
    BY <2>1, <2>2, <2>3, <2>4, <2>5 DEF ServedInv
<1>3. ASSUME NEW w \in Works, Start(w) PROVE ServedInv'
  <2>1. job[w].t # active
    BY <1>3, <1>p DEF Start, Pre
  <2>2. UNCHANGED <<active, before, gens, rec>> /\ run'[active] = run[active] /\ To(w, "started")
    BY <1>3, <1>0, <2>1 DEF Start, Types
  <2>3. QED
    BY <1>d, <1>t, <2>2, ServedKept DEF Ats
<1>4. ASSUME NEW w \in Works, SaveStarting(w) PROVE ServedInv'
  <2>1. job[w].t # active /\ job[w].op = "swap"
    BY <1>4, <1>p DEF SaveStarting, Pre
  <2>2. UNCHANGED <<active, before, gens, run>> /\ To(w, "starting")
    BY <1>4 DEF SaveStarting
  <2>3. \A v \in Works : rec'[v][active].gen = rec[v][active].gen
    BY <1>0, <1>4, <2>1, RecFacts
  <2>4. \A v \in Works : ~(job'[v].op = "swap" /\ job'[v].at \in Post)
    BY <1>d, <1>s, <2>1, <2>2, ToFacts DEF Ats
  <2>5. QED
    BY <1>d, <1>t, <2>2, <2>3, <2>4, ServedKept DEF Ats
<1>5. ASSUME NEW w \in Works, Exits(w) PROVE ServedInv'
  <2>1. job[w].t # active
    BY <1>5, <1>p DEF Exits, Pre
  <2>2. UNCHANGED <<active, before, gens, rec, job>> /\ run'[active] = run[active]
    BY <1>5, <1>0, <2>1 DEF Exits, Types
  <2>3. QED
    BY <2>2, <1>1
<1>6. ASSUME NEW w \in Works, Healthy(w) PROVE ServedInv'
  <2>1. UNCHANGED <<active, before, gens, run, rec>> /\ To(w, "healthy")
    BY <1>6 DEF Healthy
  <2>2. QED
    BY <1>d, <1>t, <2>1, ServedKept DEF Ats
<1>7. ASSUME NEW w \in Works, Flip(w) PROVE ServedInv'
  <2> DEFINE g == job[w].gen
             t == job[w].t
  <2>1. /\ job[w].op = "swap" /\ active = job[w].a /\ job[w].a # t
        /\ active' = t /\ before' = run[active].gen /\ UNCHANGED <<run, rec, gens>>
        /\ run[t] = Started(g) /\ g # 0 /\ g \in gens[w] /\ rec[w][t].gen = g
        /\ \A v \in Works : g \in gens[v] => v = w
        /\ \A v \in Works, u \in Targets : rec[v][u].gen = g => v = w /\ u = t
    BY <1>7, <1>p DEF Flip, Pre, NewOf
  <2>2. \A v \in Works : /\ job'[v].op = job[v].op /\ job'[v].t = job[v].t
                         /\ job'[v].a = job[v].a
    BY <1>7, ToFacts DEF Flip, Ats
  <2>3. run[t].gen = g /\ run[t] # Down
    BY <2>1 DEF Started, Down
  <2>4. OnDisk(run[active].gen)' /\ OnDisk(before)'
    BY <2>1, <2>3 DEF ServedInv, OnDisk
  <2>5. \A v \in Works : job[v].op \in {"stop", "force"} => run[t] # Started(rec[v][t].gen)
    BY <1>0, <2>1, StartedFacts
  <2>6. \A v \in Works : job[v].op = "swap" => v = w
    BY <1>s, <2>1
  <2>7. QED
    BY <2>1, <2>2, <2>3, <2>4, <2>5, <2>6 DEF ServedInv
<1>8. ASSUME NEW w \in Works, Fail(w) PROVE ServedInv'
  <2>1. /\ job[w].op = "swap" /\ active = job[w].a /\ job[w].t # active /\ NewOf(w)
        /\ UNCHANGED <<active, before, rec>> /\ To(w, "restore")
    BY <1>8, <1>p DEF Fail, Pre
  <2>2. run'[active] = run[active]
    BY <1>8, <1>0, <2>1 DEF Fail, Types
  <2>3. \A v \in Works : /\ gens'[v] \subseteq gens[v]
                         /\ \A h \in gens[v] : h # job[w].gen => h \in gens'[v]
    BY <1>8 DEF Fail, Types
  <2>4. run[active].gen # job[w].gen /\ before # job[w].gen
    BY <2>1 DEF NewOf
  <2>5. OnDisk(run[active].gen)' /\ OnDisk(before)'
    BY <2>1, <2>2, <2>3, <2>4 DEF ServedInv, OnDisk
  <2>6. "restore" \notin Post
    BY DEF Post
  <2>7. QED
    BY <1>t, <2>1, <2>2, <2>3, <2>5, <2>6 DEF ServedInv, Ats
<1>9. ASSUME NEW w \in Works, Restore(w) PROVE ServedInv'
  <2>1. job[w].t # active /\ job[w].op = "swap"
    BY <1>9, <1>p DEF Restore, Pre
  <2>2. UNCHANGED <<active, before, gens, run>> /\ End(w)
    BY <1>9 DEF Restore
  <2>3. \A v \in Works : rec'[v][active].gen = rec[v][active].gen
    BY <1>0, <1>9, <2>1, RecFacts
  <2>4. \A v \in Works : ~(job'[v].op = "swap")
    BY <1>s, <2>1, <2>2, EndFacts
  <2>5. QED
    BY <1>e, <2>2, <2>3, <2>4, ServedKept
<1>10. ASSUME NEW w \in Works, SaveFlipped(w) PROVE ServedInv'
  <2>1. /\ UNCHANGED <<active, before, gens, run>> /\ job[w].at \in Post
        /\ \E at \in {"prune", "drain"} : To(w, at)
    BY <1>10 DEF SaveFlipped, Post
  <2>2. \A v \in Works, u \in Targets : rec'[v][u].gen = rec[v][u].gen
    BY <1>10, RecFacts
  <2>3. QED
    BY <1>0, <1>t, <2>1, <2>2, ServedKept DEF Ats
<1>11. ASSUME NEW w \in Works, NEW t \in Targets, NEW op \in {"stop", "force"},
              StopBegin(w, t, op)
       PROVE  ServedInv'
  <2>1. /\ UNCHANGED <<active, before, run, rec, gens>>
        /\ job'[w].op = op /\ job'[w].t = t /\ t # active
        /\ \A v \in Works : v # w => job'[v] = job[v]
    BY <1>11, StopFacts
  <2>2. \A v \in Works : job'[v].op = "swap" => v # w
    BY <2>1
  <2>3. QED
    BY <2>1, <2>2, ServedKept
<1>12. ASSUME NEW w \in Works, DrainZero(w) \/ DrainBusy(w) \/ Drained(w) PROVE ServedInv'
  <2>1. /\ UNCHANGED <<active, before, run, rec, gens>> /\ job[w].at \in Post
        /\ \E at \in {"drain", "zero", "stop"} : To(w, at)
    BY <1>12, <1>d DEF DrainZero, DrainBusy, Drained, Reading
  <2>2. QED
    BY <1>t, <2>1, ServedKept DEF Ats
<1>13. ASSUME NEW w \in Works, AfterStop(w), job[w].at \in {"drain", "zero", "stop"}
       PROVE  /\ \A v \in Works : job'[v].op = "swap" /\ job'[v].at \in Post =>
                     job[v].op = "swap" /\ job[v].at \in Post /\ job'[v].a = job[v].a
              /\ \A v \in Works : job'[v].op \in {"stop", "force"} /\ job'[v].t = active =>
                     job[v].op \in {"stop", "force"} /\ job[v].t = active
  BY <1>13, <1>d, <1>t, <1>e DEF AfterStop, Ats
<1>14. ASSUME NEW w \in Works, DrainGivesUp(w) PROVE ServedInv'
  <2>1. /\ UNCHANGED <<active, before, run, rec, gens>> /\ AfterStop(w)
        /\ job[w].at \in {"drain", "zero"}
    BY <1>14 DEF DrainGivesUp
  <2>2. QED
    BY <1>13, <2>1, ServedKept
<1>15. ASSUME NEW w \in Works, StopInstance(w) PROVE ServedInv'
  <2>1. /\ AfterStop(w) /\ job[w].at = "stop" /\ UNCHANGED <<active, before, gens>>
        /\ \A u \in Targets : run'[u] = run[u] \/
              (run'[u] = Down /\ u = Retiring(w) /\ run[u] = Started(rec[w][u].gen))
    BY <1>15, JobTypes DEF StopInstance, Types
  <2>2. Retiring(w) = active => run[active] # Started(rec[w][active].gen)
    <3>1. CASE job[w].op = "swap"
      BY <1>d, <2>1, <3>1 DEF JobInv, Retiring
    <3>2. CASE job[w].op # "swap"
      <4>1. job[w].op \in {"stop", "force"}
        BY <2>1, <3>2, AtFacts
      <4>2. QED
        BY <3>2, <4>1 DEF ServedInv, Retiring
    <3>3. QED
      BY <3>1, <3>2
  <2>3. run'[active] = run[active]
    BY <1>0, <2>1, <2>2
  <2>4. \A v \in Works, u \in Targets : rec'[v][u].gen = rec[v][u].gen
    BY <1>15, RecFacts
  <2>5. QED
    BY <1>0, <1>13, <2>1, <2>3, <2>4, ServedKept
<1>16. ASSUME NEW w \in Works, Prune(w) PROVE ServedInv'
  <2>1. /\ UNCHANGED <<active, before, run, rec>> /\ End(w) /\ job[w].op = "swap"
        /\ job[w].at = "prune"
    BY <1>16, AtFacts DEF Prune
  <2>2. \A v \in Works : /\ gens'[v] \subseteq gens[v]
                         /\ v # w => gens'[v] = gens[v]
                         /\ gens[v] \cap Recorded(v) \subseteq gens'[v]
    BY <1>16 DEF Prune, Types
  <2>3. OnDisk(run[active].gen)'
    <3>1. \A v \in Works : run[active].gen \in gens[v] => run[active].gen \in Recorded(v)
      BY <1>0 DEF ServedInv, Recorded
    <3>2. QED
      BY <2>1, <2>2, <3>1 DEF ServedInv, OnDisk
  <2>4. OnDisk(before)'
    <3>1. before \in gens[w] => before \in Recorded(w)
      BY <1>0, <1>d, <2>1 DEF ServedInv, Recorded
    <3>2. QED
      BY <2>1, <2>2, <3>1 DEF ServedInv, OnDisk
  <2>5. QED
    BY <1>e, <2>1, <2>2, <2>3, <2>4 DEF ServedInv
<1>17. ASSUME NEW w \in Works, Crash(w) PROVE ServedInv'
  <2>1. UNCHANGED <<active, before, run, rec, gens>> /\ End(w)
    BY <1>17 DEF Crash
  <2>2. QED
    BY <1>e, <2>1, ServedKept
<1>18. ASSUME NEW w \in Works, NEW t \in Targets, HandFlip(w, t) PROVE ServedInv'
  <2>1. /\ Quiet /\ run[t] # Down /\ active' = t /\ before' = run[active].gen
        /\ run[t].gen = rec[w][t].gen /\ run[t].gen \in gens[w]
        /\ UNCHANGED <<run, rec, gens, job>>
    BY <1>18 DEF HandFlip
  <2>2. OnDisk(run[active].gen)' /\ OnDisk(before)'
    BY <2>1 DEF ServedInv, OnDisk
  <2>3. \A v \in Works : run[t].gen \in gens[v] => v = w
    BY <2>1 DEF Given
  <2>4. QED
    BY <2>1, <2>2, <2>3 DEF ServedInv, Quiet
<1>19. ASSUME NEW w \in Works, NEW t \in Targets, HandStart(w, t) PROVE ServedInv'
  BY <1>0, <1>1, <1>19 DEF HandStart, Types
<1>20. ASSUME NEW t \in Targets, HandStop(t) PROVE ServedInv'
  BY <1>0, <1>1, <1>20 DEF HandStop, Types
<1>21. QED
  BY <1>1, <1>2, <1>3, <1>4, <1>5, <1>6, <1>7, <1>8, <1>9, <1>10, <1>11, <1>12, <1>14,
     <1>15, <1>16, <1>17, <1>18, <1>19, <1>20
  DEF Next, vars, Take, Count, Finish

-----------------------------------------------------------------------------
(* What a command is about to stop is not what is served.                  *)
LEMMA RetiringFacts ==
    ASSUME Types, JobInv, ServedInv, NEW w \in Works, job[w].at = "stop",
           Retiring(w) = active
    PROVE  run[active] # Started(rec[w][active].gen)
<1>1. "stop" \in Post
  BY DEF Post
<1>2. CASE job[w].op = "swap"
  BY <1>1, <1>2 DEF JobInv, Retiring
<1>3. CASE job[w].op # "swap"
  <2>1. job[w].op \in {"stop", "force"}
    BY <1>3, AtFacts
  <2>2. QED
    BY <1>3, <2>1 DEF ServedInv, Retiring
<1>4. QED
  BY <1>2, <1>3

LEMMA DrainKept ==
    ASSUME Types, NEW w \in Works, DrainOf(w), job'[w] = job[w], req' = req,
           rec'[w] = rec[w],
           run'[Retiring(w)] = Started(rec[w][Retiring(w)].gen) => run'[Retiring(w)] = run[Retiring(w)]
    PROVE  DrainOf(w)'
<1>1. Retiring(w)' = Retiring(w)
  BY DEF Retiring
<1>2. \A t, s : On(t, s)' = On(t, s)
  BY DEF On
<1>3. QED
  BY <1>1, <1>2 DEF DrainOf

LEMMA DrainNext ==
    ASSUME ~Interrupts, SettleCovers
    PROVE  Types /\ JobInv /\ NewInv /\ ServedInv /\ DrainInv /\ [Next]_vars => DrainInv'
<1> SUFFICES ASSUME Types, JobInv, NewInv, ServedInv, DrainInv, [Next]_vars, NEW w \in Works
             PROVE  DrainOf(w)'
  BY DEF DrainInv
<1>0. DrainOf(w) /\ Retiring(w) \in Targets /\ job[w].t \in Targets
  BY JobTypes, AtFacts DEF DrainInv
<1>x. \A g : Started(g) # Down /\ Started(g).by = "swap"
  BY DEF Started, Down
<1>1. ASSUME UNCHANGED <<run, rec, job, req>> PROVE DrainOf(w)'
  BY <1>0, <1>1, DrainKept
<1>2. ASSUME job'[w].at # "stop" PROVE DrainOf(w)'
  BY <1>2 DEF DrainOf
<1>t. ASSUME NEW v \in Works, NEW at \in Ats, To(v, at)
      PROVE  job'[v].at = at /\ (v # w => job'[w] = job[w])
  BY <1>t, ToFacts
<1>e. ASSUME NEW v \in Works, End(v)
      PROVE  job'[v].at = "none" /\ (v # w => job'[w] = job[w])
  BY <1>e, EndFacts
<1>3. ASSUME NEW r \in Requests, Take(r) PROVE DrainOf(w)'
  <2>1. /\ UNCHANGED <<run, rec, job>>
        /\ req' = [req EXCEPT ![r] = [at |-> "read", t |-> active]]
    BY <1>3 DEF Take
  <2>2. Retiring(w)' = Retiring(w)
    BY <2>1 DEF Retiring
  <2>3. CASE job[w].at = "stop" /\ run[Retiring(w)] = Started(rec[w][Retiring(w)].gen)
    <3>1. Retiring(w) # active
      BY <2>3, RetiringFacts
    <3>2. \A s \in {"read", "counted"} : On(Retiring(w), s)' => On(Retiring(w), s)
      BY <2>1, <2>2, <3>1 DEF On, Types
    <3>3. QED
      BY <1>0, <2>1, <2>2, <3>2 DEF DrainOf
  <2>4. QED
    BY <2>1, <2>2, <2>3 DEF DrainOf
<1>4. ASSUME NEW r \in Requests, Count(r) \/ Finish(r) PROVE DrainOf(w)'
  <2>1. /\ UNCHANGED <<run, rec, job>>
        /\ \A q \in Requests : req'[q] = req[q] \/ req'[q].at = "none"
                               \/ (req[q].at = "read" /\ req'[q].t = req[q].t)
    BY <1>4 DEF Count, Finish, NoReq, Types
  <2>2. Retiring(w)' = Retiring(w)
    BY <2>1 DEF Retiring
  <2>3. ASSUME On(Retiring(w), "read")' \/ On(Retiring(w), "counted")'
        PROVE  On(Retiring(w), "read") \/ On(Retiring(w), "counted")
    <3>1. PICK q \in Requests : /\ req'[q].at \in {"read", "counted"}
                                /\ req'[q].t = Retiring(w)
      BY <2>2, <2>3 DEF On
    <3>2. req[q].t = Retiring(w) /\ req[q].at \in {"read", "counted"}
      BY <2>1, <3>1
    <3>3. req[q] = [at |-> req[q].at, t |-> req[q].t]
      BY DEF Types
    <3>4. QED
      BY <3>2, <3>3 DEF On
  <2>4. QED
    BY <1>0, <2>1, <2>2, <2>3 DEF DrainOf
<1>5. ASSUME NEW v \in Works, Begin(v) PROVE DrainOf(w)'
  <2>1. /\ UNCHANGED <<run, rec, req>> /\ job'[v].at = "build"
        /\ v # w => job'[w] = job[w]
    BY <1>5, BeginFacts
  <2>2. QED
    BY <1>0, <1>2, <2>1, DrainKept
<1>6. ASSUME NEW v \in Works, Start(v) PROVE DrainOf(w)'
  <2>1. /\ UNCHANGED <<rec, req>> /\ To(v, "started") /\ job[v].at = "build"
        /\ run' = [run EXCEPT ![job[v].t] = IF run[job[v].t] = Down THEN Started(job[v].gen)
                                             ELSE run[job[v].t]]
    BY <1>6 DEF Start
  <2>2. CASE v = w
    BY <1>2, <1>t, <2>1, <2>2 DEF Ats
  <2>3. CASE v # w
    <3>1. \A u \in Targets : rec[w][u].gen # job[v].gen
      BY <2>1, <2>3, AtFacts DEF NewInv, NewOf
    <3>2. \A u \in Targets : run'[u] = run[u] \/ run'[u] = Started(job[v].gen)
      BY <2>1 DEF Types
    <3>3. QED
      BY <1>0, <1>t, <2>1, <2>3, <3>1, <3>2, StartedFacts, DrainKept DEF Ats
  <2>4. QED
    BY <2>2, <2>3
<1>7. ASSUME NEW v \in Works, SaveStarting(v) PROVE DrainOf(w)'
  <2>1. UNCHANGED <<run, req>> /\ To(v, "starting") /\ (v # w => rec'[w] = rec[w])
    BY <1>7 DEF SaveStarting, Types
  <2>2. QED
    BY <1>0, <1>2, <1>t, <2>1, DrainKept DEF Ats
<1>8. ASSUME NEW v \in Works, Exits(v) PROVE DrainOf(w)'
  <2>1. UNCHANGED <<rec, req, job>> /\ run' = [run EXCEPT ![job[v].t] = Down]
    BY <1>8 DEF Exits
  <2>2. \A u \in Targets : run'[u] = run[u] \/ run'[u] = Down
    BY <2>1 DEF Types
  <2>3. QED
    BY <1>0, <1>x, <2>1, <2>2, DrainKept
<1>9. ASSUME NEW v \in Works, Healthy(v) \/ Flip(v) PROVE DrainOf(w)'
  <2>1. UNCHANGED <<run, rec, req>> /\ (To(v, "healthy") \/ To(v, "flipped"))
    BY <1>9 DEF Healthy, Flip
  <2>2. QED
    BY <1>0, <1>2, <1>t, <2>1, DrainKept DEF Ats
<1>10. ASSUME NEW v \in Works, Fail(v) PROVE DrainOf(w)'
  <2>1. UNCHANGED <<rec, req>> /\ To(v, "restore")
    BY <1>10 DEF Fail
  <2>2. \A u \in Targets : run'[u] = run[u] \/ run'[u] = Down
    BY <1>10 DEF Fail, Types
  <2>3. QED
    BY <1>0, <1>2, <1>t, <1>x, <2>1, <2>2, DrainKept DEF Ats
<1>11. ASSUME NEW v \in Works, Restore(v) PROVE DrainOf(w)'
  <2>1. UNCHANGED <<run, req>> /\ End(v) /\ (v # w => rec'[w] = rec[w])
    BY <1>11 DEF Restore, Types
  <2>2. QED
    BY <1>0, <1>2, <1>e, <2>1, DrainKept
<1>12. ASSUME NEW v \in Works, SaveFlipped(v) PROVE DrainOf(w)'
  <2>1. UNCHANGED <<run, req>> /\ (v # w => rec'[w] = rec[w])
    BY <1>12 DEF SaveFlipped, Types
  <2>2. PICK at \in {"prune", "drain"} : To(v, at)
    BY <1>12 DEF SaveFlipped
  <2>3. QED
    BY <1>0, <1>2, <1>t, <2>1, <2>2, DrainKept DEF Ats
<1>13. ASSUME NEW v \in Works, NEW t \in Targets, NEW op \in {"stop", "force"},
              StopBegin(v, t, op)
       PROVE  DrainOf(w)'
  <2>1. /\ UNCHANGED <<run, rec, req>> /\ job'[v].op = op
        /\ job'[v].at = IF op = "force" THEN "stop" ELSE "drain"
        /\ v # w => job'[w] = job[w]
    BY <1>13, StopFacts
  <2>2. CASE v = w
    BY <2>1, <2>2 DEF DrainOf
  <2>3. CASE v # w
    BY <1>0, <2>1, <2>3, DrainKept
  <2>4. QED
    BY <2>2, <2>3
<1>14. ASSUME NEW v \in Works, DrainZero(v) \/ DrainBusy(v) PROVE DrainOf(w)'
  <2>1. UNCHANGED <<run, rec, req>> /\ (To(v, "zero") \/ To(v, "drain"))
    BY <1>14 DEF DrainZero, DrainBusy
  <2>2. QED
    BY <1>0, <1>2, <1>t, <2>1, DrainKept DEF Ats
<1>15. ASSUME NEW v \in Works, Drained(v) PROVE DrainOf(w)'
  <2>1. /\ UNCHANGED <<run, rec, req>> /\ To(v, "stop")
        /\ ~On(Retiring(v), "read") /\ ~On(Retiring(v), "counted")
    BY <1>15 DEF Drained, Reading
  <2>2. CASE v = w
    <3>1. job'[w].op = job[w].op /\ job'[w].t = job[w].t /\ job'[w].a = job[w].a
      BY <2>1, <2>2, ToFacts DEF Ats
    <3>2. Retiring(w)' = Retiring(w)
      BY <3>1 DEF Retiring
    <3>3. \A t, s : On(t, s)' = On(t, s)
      BY <2>1 DEF On
    <3>4. QED
      BY <2>1, <2>2, <3>2, <3>3 DEF DrainOf
  <2>3. CASE v # w
    BY <1>0, <1>t, <2>1, <2>3, DrainKept DEF Ats
  <2>4. QED
    BY <2>2, <2>3
<1>16. ASSUME NEW v \in Works, AfterStop(v)
       PROVE  job'[v].at # "stop" /\ (v # w => job'[w] = job[w])
  BY <1>16, <1>t, <1>e DEF AfterStop, Ats
<1>17. ASSUME NEW v \in Works, DrainGivesUp(v) PROVE DrainOf(w)'
  <2>1. UNCHANGED <<run, rec, req>> /\ AfterStop(v)
    BY <1>17 DEF DrainGivesUp
  <2>2. QED
    BY <1>0, <1>2, <1>16, <2>1, DrainKept
<1>18. ASSUME NEW v \in Works, StopInstance(v) PROVE DrainOf(w)'
  <2>1. UNCHANGED req /\ AfterStop(v)
    BY <1>18 DEF StopInstance
  <2>2. \A u \in Targets : run'[u] = run[u] \/ run'[u] = Down
    BY <1>18, JobTypes DEF StopInstance, Types
  <2>3. v # w => rec'[w] = rec[w]
    BY <1>18 DEF StopInstance, Types
  <2>4. QED
    BY <1>0, <1>2, <1>16, <1>x, <2>1, <2>2, <2>3, DrainKept
<1>19. ASSUME NEW v \in Works, Prune(v) \/ Crash(v) PROVE DrainOf(w)'
  <2>1. UNCHANGED <<run, rec, req>> /\ End(v)
    BY <1>19 DEF Prune, Crash
  <2>2. QED
    BY <1>0, <1>2, <1>e, <2>1, DrainKept
<1>20. ASSUME Quiet, UNCHANGED job PROVE DrainOf(w)'
  <2>1. job'[w].at = "none"
    BY <1>20 DEF Quiet, JobInv
  <2>2. QED
    BY <1>2, <2>1
<1>21. QED
  BY <1>1, <1>3, <1>4, <1>5, <1>6, <1>7, <1>8, <1>9, <1>10, <1>11, <1>12, <1>13, <1>14,
     <1>15, <1>17, <1>18, <1>19, <1>20
  DEF Next, vars, HandStart, HandFlip, HandStop

-----------------------------------------------------------------------------
(* Each variable keeps its type, and one swap at a time works on the       *)
(* router.                                                                 *)
THEOREM SwapTypeCorrect == ASSUME ~Interrupts PROVE Spec => []TypeOK
<1>1. Types /\ JobInv => TypeOK
  BY DEF Types, JobInv, TypeOK
<1>2. QED
  BY <1>1, TypesInit, TypesNext, JobNext, PTL DEF Spec, SwapInv

(* What the router serves is there and on disk, unless an interrupt        *)
(* arrives within the flip.                                                *)
THEOREM SwapActiveServes == ASSUME ~Interrupts PROVE Spec => []ActiveServes
<1>1. ServedInv => ActiveServes
  BY DEF ServedInv, ActiveServes
<1>2. QED
  BY <1>1, TypesInit, TypesNext, JobNext, GivenNext, NewNext, ServedNext, PTL DEF Spec, SwapInv

(* What was served before is on disk.                                      *)
THEOREM SwapKeptForRollback == ASSUME ~Interrupts PROVE Spec => []KeptForRollback
<1>1. ServedInv => KeptForRollback
  BY DEF ServedInv, KeptForRollback
<1>2. QED
  BY <1>1, TypesInit, TypesNext, JobNext, GivenNext, NewNext, ServedNext, PTL DEF Spec, SwapInv

(* No instance in service is stopped under a request but by --force, when  *)
(* no request takes longer than `settle` to be counted.                    *)
THEOREM SwapCutsNothingOff == ASSUME ~Interrupts, SettleCovers PROVE Spec => NothingCutOff
<1> DEFINE Forced == \E w \in Works : job[w].op = "force" /\ job[w].at = "stop"
           Cut(t) == /\ run[t] # Down /\ run'[t] # run[t]
                     /\ On(t, "read") \/ On(t, "counted")
                     /\ \A w \in Works : run[t] # Started(job[w].gen)
<1>1. ASSUME Types, JobInv, DrainInv, [Next]_vars, NEW t \in Targets, Cut(t)
      PROVE  Forced
  <2>1. ASSUME UNCHANGED run PROVE Forced
    BY <1>1, <2>1
  <2>2. ASSUME NEW w \in Works, Start(w) PROVE Forced
    BY <1>1, <2>2 DEF Start, Types
  <2>3. ASSUME NEW w \in Works, Exits(w) \/ Fail(w) PROVE Forced
    BY <1>1, <2>3 DEF Exits, Fail, Types
  <2>4. ASSUME NEW w \in Works, StopInstance(w) PROVE Forced
    <3>1. /\ job[w].at = "stop" /\ t = Retiring(w)
          /\ run[t] = Started(rec[w][t].gen)
      BY <1>1, <2>4 DEF StopInstance, Types
    <3>2. job[w].op = "force"
      BY <1>1, <3>1 DEF DrainInv, DrainOf
    <3>3. QED
      BY <3>1, <3>2
  <2>5. ASSUME NEW u \in Targets, HandStop(u) PROVE Forced
    BY <1>1, <2>5 DEF HandStop, Types
  <2>6. ASSUME NEW w \in Works, NEW u \in Targets, HandStart(w, u) PROVE Forced
    BY <1>1, <2>6 DEF HandStart, Types
  <2>7. ASSUME NEW r \in Requests, Take(r) \/ Count(r) \/ Finish(r) PROVE UNCHANGED run
    BY <2>7 DEF Take, Count, Finish
  <2>8. ASSUME NEW w \in Works,
               \/ Begin(w) \/ SaveStarting(w) \/ Healthy(w) \/ Flip(w) \/ SaveFlipped(w)
               \/ Restore(w) \/ DrainZero(w) \/ DrainBusy(w) \/ Drained(w)
               \/ DrainGivesUp(w) \/ Prune(w) \/ Crash(w)
        PROVE  UNCHANGED run
    BY <2>8 DEF Begin, SaveStarting, Healthy, Flip, SaveFlipped, Restore, DrainZero, DrainBusy,
                Drained, DrainGivesUp, Prune, Crash
  <2>9. ASSUME NEW w \in Works, NEW u \in Targets, NEW op \in {"stop", "force"},
               StopBegin(w, u, op) \/ HandFlip(w, u)
        PROVE  UNCHANGED run
    BY <2>9 DEF StopBegin, HandFlip
  <2>10. QED
    BY <1>1, <2>1, <2>2, <2>3, <2>4, <2>5, <2>6, <2>7, <2>8, <2>9 DEF Next, vars
<1>2. Types /\ JobInv /\ DrainInv /\ [Next]_vars
        => [\A t \in Targets :
               /\ run[t] # Down /\ run'[t] # run[t] /\ (On(t, "read") \/ On(t, "counted"))
               /\ \A w \in Works : run[t] # Started(job[w].gen)
               => \E w \in Works : job[w].op = "force" /\ job[w].at = "stop"]_vars
  BY <1>1
<1>3. QED
  BY <1>2, TypesInit, TypesNext, JobNext, GivenNext, NewNext, ServedNext, DrainNext, PTL
  DEF Spec, SwapInv, NothingCutOff
=============================================================================
