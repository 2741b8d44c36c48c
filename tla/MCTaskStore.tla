----------------------------- MODULE MCTaskStore -----------------------------
(***************************************************************************)
(* Small databases for TLC.                                                *)
(***************************************************************************)
EXTENDS TaskStore

Op(key, val) == [key |-> key, val |-> val, safe |-> "no"]

DeleteAndRestore(p) == {<<"delete", p, None>>, <<"restore", p, None>>}

\* Merges, deletions and restores of four projects.
Trees == [families |-> {}, callers |-> {}, projects |-> Projects, tasks |-> {}, ids |-> {}, titles |-> {}, claims |-> {}, requests |-> {},
          lifecycle |-> Actions \X Projects \X (Projects \cup {None}),
          previews |-> 2, changes |-> 4, calls |-> 0]
\* Everyone who may change a task, while its project comes and goes.
Review == [families |-> {"upsert", "edit", "reconcile"}, callers |-> Callers,
           projects |-> {"p", "q"}, tasks |-> {<<"p", "a">>}, ids |-> {"p"}, titles |-> {"a", "b"}, claims |-> {}, 
           requests |-> {{Op("title", "b")}, {Op("note", "in"), Op("title", "c")}},
           lifecycle |-> DeleteAndRestore("p"), previews |-> 1, changes |-> 2, calls |-> 4]
\* Bootstraps that meet upserts and merges.
Boots == [families |-> {"projects", "upsert", "bootstrap"}, callers |-> Callers,
          projects |-> {"p"}, tasks |-> {}, ids |-> {"p", "q"}, titles |-> {"a"}, claims |-> {}, requests |-> {},
          lifecycle |-> {<<"delete", "p", None>>, <<"restore", "p", None>>, <<"merge", "q", "p">>},
          previews |-> 1, changes |-> 2, calls |-> 4]
\* The API server captures and reconciles, while another process works.
Captures == [families |-> {"upsert", "capture", "reconcile"}, callers |-> {"one"},
             projects |-> {"p", "q"}, tasks |-> {<<"p", "a">>}, ids |-> {"p", "q"}, titles |-> {"a"},
             claims |-> {"none", "safe"}, requests |-> {{}, {Op("title", "b")}},
             lifecycle |-> DeleteAndRestore("p") \cup {<<"merge", "p", "q">>},
             previews |-> 1, changes |-> 2, calls |-> 3]
MCScenarios == {Trees, Review, Boots, Captures}
=============================================================================
