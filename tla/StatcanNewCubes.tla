--------------------------- MODULE StatcanNewCubes ---------------------------
(***************************************************************************)
(* tools/statcan_new_cubes.py beside the lane: the tool that ingests the   *)
(* cubes the lane lists as new, and hands each of them over to the lane.   *)
(*                                                                         *)
(* Both write the same store, CSVs and _lane_state.json; statcan_writer's  *)
(* lock (module WriterLock) keeps them from running at the same time, but  *)
(* the tool may stop after any step and the lane then runs in between.     *)
(* A receipt per cube tells the next run of the tool where to resume.      *)
(*                                                                         *)
(* Left out: the checks that may refuse a cube (any may), the split map,   *)
(* the local mirror (whether it holds what the store does not is a         *)
(* choice), and cubes that StatCan withdraws.                              *)
(***************************************************************************)
EXTENDS StatcanLane

CONSTANTS
    ToolStops,    \* TRUE: a run of the tool may end after any step
    PublishLands  \* TRUE: no run ends with the parquet in the mirror only

ASSUME SNAssumption == {ToolStops, PublishLands} \subseteq BOOLEAN

VARIABLES
    receipt,  \* receipt[c]: the stage of c's ingest and the revision fetched
    tool      \* the cube the tool works on, or "none"

toolVars == <<receipt, tool>>
allVars  == <<vars, toolVars>>

Stages   == {"none", "refused", "committing", "committed", "served", "catalogued", "done"}
Begun    == {"committing", "committed", "served", "catalogued"}
Receipts == [stage : Stages, table : Releases]

(* Before the first run nothing of these cubes is held.                    *)
InitNew == /\ Init /\ held = {} /\ done = {}
           /\ receipt = [c \in Cubes |-> [stage |-> "none", table |-> 0]]
           /\ tool = "none"

At(stage) == tool # "none" /\ receipt[tool].stage = stage

(* The receipt of the cube is saved with its new stage.                    *)
Stage(stage) == receipt' = [receipt EXCEPT ![tool].stage = stage]

LaneOnly == UNCHANGED <<upstream, held, store, csv, done, catalogued, lane>>

-----------------------------------------------------------------------------
(* A run of the tool takes a cube the lane lists, or one already begun.    *)
Take(c) == /\ pc = "idle" /\ tool = "none"
           /\ c \in newCubes \/ receipt[c].stage \in Begun
           /\ receipt[c].stage # "done"
           /\ tool' = c
           /\ UNCHANGED <<vars, receipt>>

(* The run ends: it dies, raises, or its budget is spent.                  *)
Stop == /\ ToolStops /\ tool # "none"
        /\ PublishLands => ~(At("committing") /\ tool \notin held)
        /\ tool' = "none"
        /\ UNCHANGED <<vars, receipt>>

(* prepare() refuses: the receipt says so, and the next run tries again.   *)
Refuse == /\ At("none") \/ At("refused")
          /\ ToolStops \/ tool \in held \cup done
          /\ Stage("refused") /\ tool' = "none"
          /\ UNCHANGED vars

(* Variant: the receipt names the release after the one fetched.           *)
CommitNext == /\ At("none") \/ At("refused")
              /\ tool \notin held \cup done
              /\ receipt' = [receipt EXCEPT ![tool] =
                                [stage |-> "committing", table |-> rel[tool] + 1]]
              /\ UNCHANGED <<vars, tool>>

(* stage_commit: fetched, checked, and recorded before the publish.        *)
Commit == /\ At("none") \/ At("refused")
          /\ tool \notin held \cup done
          /\ receipt' = [receipt EXCEPT ![tool] =
                            [stage |-> "committing", table |-> table[tool][rel[tool]]]]
          /\ UNCHANGED <<vars, tool>>

(* The parquet is published: by this run, or again by the next one when    *)
(* only the mirror has it.                                                 *)
PublishNew == /\ At("committing") /\ tool \notin held
              /\ held' = held \cup {tool}
              /\ store' = [store EXCEPT ![tool] = receipt[tool].table]
              /\ UNCHANGED <<upstream, csv, done, catalogued, state, lane, assumed, toolVars>>

(* A run that was to publish died before it: the cube starts again.        *)
Restart == /\ ToolStops
           /\ At("committing") /\ tool \notin held
           /\ Stage("none")
           /\ UNCHANGED <<vars, tool>>

(* finish_commit: what is stored now has its .done record, also when the   *)
(* lane has merged over it meanwhile.                                      *)
FinishCommit == /\ At("committing") /\ tool \in held
                /\ done' = done \cup {tool}
                /\ Stage("committed")
                /\ UNCHANGED <<upstream, held, store, csv, catalogued, state, lane, assumed, tool>>

(* stage_serve: some PUTs of the lane's scan land, or every one of them.   *)
PutSome == /\ ToolStops /\ At("committed")
           /\ \E kept \in (SUBSET csv[tool]) \ {{}} :
                csv' = [csv EXCEPT ![tool] = kept \cup {store[tool]}]
           /\ UNCHANGED <<upstream, held, store, done, catalogued, state, lane, assumed, toolVars>>

ServeNew == /\ At("committed")
            /\ csv' = [csv EXCEPT ![tool] = {store[tool]}]
            /\ assumed' = assumed \ {tool}
            /\ Stage("served")
            /\ UNCHANGED <<upstream, held, store, done, catalogued, state, lane, tool>>

(* Variant: the catalogue rows come before the objects.                    *)
CatalogueFirst == /\ At("committed") \/ At("served")
                  /\ tool \notin catalogued
                  /\ catalogued' = catalogued \cup {tool}
                  /\ UNCHANGED <<upstream, held, store, csv, done, state, lane, assumed, toolVars>>

(* stage_catalogue: one transaction, and then the receipt.                 *)
Catalogue == /\ At("served") /\ tool \notin catalogued
             /\ catalogued' = catalogued \cup {tool}
             /\ UNCHANGED <<upstream, held, store, csv, done, state, lane, assumed, toolVars>>

CatalogueReceipt == /\ At("served") /\ tool \in catalogued
                    /\ Stage("catalogued")
                    /\ UNCHANGED <<vars, tool>>

-----------------------------------------------------------------------------
(* stage_record: the lane's record is saved first, the receipt after it.   *)

(* Variant: the record still says that the cube is not held.               *)
HandOverHalf == /\ At("catalogued")
                /\ tool \in newCubes /\ cubes[tool].notHeld
                /\ newCubes' = newCubes \ {tool}
                /\ LaneOnly /\ UNCHANGED <<cubes, assumed, toolVars>>

(* Nothing of the lane is recorded in between: the cube is held and taken  *)
(* to be served, also when the lane's mark says that a merge was in flight *)
(* and so may have published.                                              *)
HandOver == /\ At("catalogued")
            /\ tool \in newCubes /\ cubes[tool].notHeld
            /\ cubes' = [cubes EXCEPT ![tool].merged = cubes[tool].release,
                                      ![tool].served = cubes[tool].release,
                                      ![tool].fails = 0, ![tool].waits = FALSE,
                                      ![tool].notHeld = FALSE]
            /\ newCubes' = newCubes \ {tool}
            /\ assumed' = assumed \cup {c \in {tool} : cubes[c].inflight # 0}
            /\ LaneOnly /\ UNCHANGED toolVars

(* Variant: a take-over is closed without owing the lane a serve.          *)
TakenOverQuietly == /\ At("catalogued")
                    /\ tool \in newCubes /\ ~cubes[tool].notHeld
                    /\ newCubes' = newCubes \ {tool}
                    /\ LaneOnly /\ UNCHANGED <<cubes, assumed, toolVars>>

(* The lane took the cube over meanwhile: it merged a newer release, and   *)
(* served nothing.  It is owed a serve from that merge.                    *)
TakenOver == /\ At("catalogued")
             /\ tool \in newCubes /\ ~cubes[tool].notHeld
             /\ cubes' = [cubes EXCEPT ![tool].served = 0]
             /\ newCubes' = newCubes \ {tool}
             /\ LaneOnly /\ UNCHANGED <<assumed, toolVars>>

(* Already recorded.                                                       *)
Finish == /\ At("catalogued") /\ tool \notin newCubes /\ ~cubes[tool].notHeld
          /\ Stage("done") /\ tool' = "none"
          /\ UNCHANGED vars

-----------------------------------------------------------------------------
ToolStep == \/ Stop \/ Refuse \/ Commit \/ PublishNew \/ Restart \/ FinishCommit
            \/ PutSome \/ ServeNew \/ Catalogue \/ CatalogueReceipt
            \/ HandOver \/ TakenOver \/ Finish
            \/ \E c \in Cubes : Take(c)

NextNew == \/ ToolStep
           \/ tool = "none" /\ LaneStep /\ UNCHANGED toolVars
           \/ StatCan /\ UNCHANGED toolVars

SpecNew == InitNew /\ [][NextNew]_allVars

-----------------------------------------------------------------------------
(* Each variable keeps its type.                                           *)
TypeOKNew == /\ TypeOK
             /\ receipt \in [Cubes -> Receipts]
             /\ tool \in Cubes \cup {"none"}

(* Objects before catalogue rows: every part of a catalogued cube has a    *)
(* CSV that some merge wrote.                                              *)
CatalogueBacked == \A c \in catalogued :
    c \in held /\ Older \notin csv[c]

(* No new cube is forgotten: one the lane settled without holding it stays *)
(* listed until it has been handed over.                                   *)
NewCubeIsListed == \A c \in Cubes : cubes[c].notHeld => c \in newCubes
=============================================================================
