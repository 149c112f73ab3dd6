----------------------------- MODULE JaxGather ------------------------------
(***************************************************************************)
(* The gather of JaxPartition against that of the C program: who owns a    *)
(* galaxy while groups wait, and whether a workspace is the one module     *)
(* GalaxyFlow builds from the same progenitors.                            *)
(***************************************************************************)
EXTENDS JaxPartition

\* Types, and no galaxy has two owners: it is in one slice of one halo or in
\* one workspace that waits for the kernel or the marshalling, and a discarded
\* progenitor's galaxies are in a workspace or were consumed.
OneOwner ==
    /\ status \in {"running", "finished", "error"}
    /\ \A w \in Workspaces :
          LET waiting == {task \in Waiting : task.w = w}
              HeldBy(task, id) == {<<task.root, k>> : k \in {j \in DOMAIN task.states : task.states[j].id = id}}
          IN  /\ processed[w] \in [Halos -> Seq(GalaxyRecord)]
              /\ \A id \in Halos :
                    Cardinality({<<h, k>> \in Halos \X (1 .. NumHalos) :
                                    k \in DOMAIN processed[w][h] /\ processed[w][h][k].id = id}
                                \cup UNION {HeldBy(task, id) : task \in waiting}) <= 1

\* The gather of mimic_jax is the gather of the C program: a group's workspace
\* has the members, in the order, with the types, links and snapshots that
\* module GalaxyFlow builds from the same progenitors.
Upstream(w) == INSTANCE GalaxyFlow WITH
    Trees <- UNION {Range(j.trees) : j \in Jobs}, NumSubsteps <- 1, tree <- job.trees[w], out <- processed[w],
    evolved <- Range(evolved[w]), status <- status, pc <- "idle", group <- 0, ws <- <<>>, i <- 1, step <- 0

Common(g) == <<g.id, g.halo, g.type, g.central, g.snap>>

GatherIsUpstreams ==
    status = "running" /\ todo # <<>> =>
        LET w    == Head(todo)[1]
            root == Head(todo)[2]
            mine == Task(w, job.trees[w], processed[w], root).states
            c    == Upstream(w)!Workspace(root)
        IN  /\ Len(mine) = Len(c)
            /\ \A k \in DOMAIN mine : Common(mine[k]) = Common(c[k])

\* Every galaxy has one owner and is gathered as the C program gathers it.
GatheredOnce == OneOwner /\ GatherIsUpstreams
=============================================================================
