------------------------------ MODULE Embodied ------------------------------
(***************************************************************************)
(* How main of scripts/serve_mva.py comes by its embodied adapter, and the *)
(* adapter at work: HabitatAdapter if the simulator starts, HM3DAdapter if *)
(* it can load a scene, GridWorldAdapter otherwise.                        *)
(***************************************************************************)
EXTENDS Navigation, Habitat

CONSTANTS Hosts,    \* the machines and command lines the server is started with
          NoHost

\* backend, scene, scene_id: the arguments; HABITAT_SCENE, HM3D_SCENE: whether
\* the environment names a scene; dataset: whether a scene is found there;
\* habitat_sim, trimesh: whether the import fails, raises something else than
\* ImportError (for trimesh: than what main catches), or works; renders: whether
\* the simulator can be initialised.
ASSUME HostAssumption ==
    /\ Hosts \subseteq [backend : {"auto", "habitat", "hm3d", "2d"},
                        scene : BOOLEAN, scene_id : {"none", "known", "unknown"},
                        HABITAT_SCENE : BOOLEAN, HM3D_SCENE : BOOLEAN, dataset : BOOLEAN,
                        habitat_sim : {"missing", "raises", "works"}, renders : BOOLEAN,
                        trimesh : {"missing", "raises", "works"}]
    /\ NoHost \notin Hosts

VARIABLES host,
          step,         \* where main is
          backend_type, scene_path, adapter,
          announced     \* what main has logged of the adapters

startVars == <<host, step, backend_type, scene_path, adapter, announced>>
allVars == <<vars, habitatVars, startVars>>

EmbodiedInit ==
    /\ NavInit /\ HabitatInit
    /\ host \in Hosts
    /\ step = "resolve"
    /\ backend_type = host.backend /\ scene_path = host.scene
    /\ adapter = "none"
    /\ announced = {}
-----------------------------------------------------------------------------
\* _resolve_scene_path, called with the backend as it was asked for.
ResolvedScene ==
    \/ host.scene
    \/ host.scene_id = "known"
    \/ host.scene_id = "none" /\ \/ host.backend = "habitat" /\ host.HABITAT_SCENE
                                 \/ host.backend = "hm3d" /\ host.HM3D_SCENE

\* _auto_detect_backend; all but "grid2d" come with a scene.
DetectedBackend ==
    IF host.HABITAT_SCENE /\ host.habitat_sim = "works" THEN "habitat"
    ELSE IF host.HM3D_SCENE \/ host.dataset THEN "hm3d"
    ELSE "grid2d"

Resolve ==
    /\ step = "resolve"
    /\ IF host.backend = "auto"
       THEN IF host.HABITAT_SCENE /\ host.habitat_sim = "raises"
            THEN step' = "crashed" /\ UNCHANGED <<backend_type, scene_path>>
            ELSE /\ step' = "habitat"
                 /\ backend_type' = DetectedBackend
                 /\ scene_path' = (ResolvedScene \/ DetectedBackend # "grid2d")
       ELSE /\ step' = "habitat"
            /\ scene_path' = ResolvedScene
            /\ UNCHANGED backend_type
    /\ UNCHANGED <<host, adapter, announced, habitatVars>>

\* probe of the adapter that has just been created.  Only the simulator's start
\* is guarded, not the import.
Probe ==
    CASE host.habitat_sim = "raises" -> "raises"
      [] host.habitat_sim = "missing" -> "cannot import"
      [] host.habitat_sim = "works" /\ ~host.renders -> "cannot render"
      [] host.habitat_sim = "works" /\ host.renders -> "ready"

\* Fault: an adapter whose probe failed is kept.
FaultyTryHabitat ==
    /\ step = "habitat" /\ step' = "hm3d"
    /\ IF backend_type = "habitat" /\ scene_path
       THEN /\ adapter' = "habitat"
            /\ IF Probe = "ready"
               THEN EnsureSim /\ announced' = {"true 3D"}
               ELSE announced' = {"degraded to HM3D"} /\ UNCHANGED habitatVars
       ELSE UNCHANGED <<adapter, announced, habitatVars>>
    /\ UNCHANGED <<host, backend_type, scene_path>>

\* Mode 1, with probe.  An import that raises ends main, or, if main catches
\* what it raises, leaves the adapter behind that has just been created.
TryHabitat ==
    /\ step = "habitat"
    /\ step' \in {"hm3d", "crashed"}
    /\ step' = "crashed" => backend_type = "habitat" /\ scene_path /\ Probe = "raises"
    /\ IF backend_type = "habitat" /\ scene_path /\ step' = "hm3d"
       THEN \/ /\ Probe = "ready"
               /\ adapter' = "habitat"
               /\ EnsureSim
               /\ announced' = {"true 3D"}
            \/ /\ Probe \in {"cannot import", "cannot render"}
               /\ announced' = {"degraded to HM3D"}
               /\ UNCHANGED <<adapter, habitatVars>>
            \/ /\ Probe = "raises"
               /\ adapter' = "habitat"
               /\ announced' = {"Habitat failed"}
               /\ UNCHANGED habitatVars
       ELSE UNCHANGED <<adapter, announced, habitatVars>>
    /\ UNCHANGED <<host, backend_type, scene_path>>

\* Mode 2
TryHM3D ==
    /\ step = "hm3d"
    /\ IF adapter = "none" /\ backend_type \in {"hm3d", "auto"} /\ scene_path
       THEN /\ step' = IF host.trimesh = "raises" THEN "crashed" ELSE "2d"
            /\ adapter' = IF host.trimesh = "works" THEN "hm3d" ELSE "none"
            /\ announced' = announced \union
                   (CASE host.trimesh = "works" -> {"lightweight 3D"}
                      [] host.trimesh = "missing" -> {"HM3D failed"}
                      [] OTHER -> {})
       ELSE step' = "2d" /\ UNCHANGED <<adapter, announced>>
    /\ UNCHANGED <<host, backend_type, scene_path, habitatVars>>

\* Mode 3, and the server runs.
TryGrid ==
    /\ step = "2d" /\ step' = "up"
    /\ IF adapter = "none"
       THEN adapter' = "grid2d" /\ backend_type' = "grid2d"
       ELSE UNCHANGED <<adapter, backend_type>>
    /\ UNCHANGED <<host, scene_path, announced, habitatVars>>

Starts == (Resolve \/ TryHabitat \/ TryHM3D \/ TryGrid) /\ UNCHANGED vars

\* The first client is there: main's local variables and the environment are
\* not read again.
Serve ==
    /\ step = "up" /\ step' = "serving"
    /\ host' = NoHost /\ scene_path' = FALSE /\ announced' = {}
    /\ UNCHANGED <<vars, habitatVars, backend_type, adapter>>

\* The adapter's calls; its scene is one of its own kind.
Works ==
    /\ step = "serving"
    /\ IF adapter = "habitat"
       THEN HabitatNext /\ UNCHANGED vars
       ELSE /\ NavNext
            /\ scene'.kind = IF adapter = "grid2d" THEN "grid" ELSE "hm3d"
            /\ UNCHANGED habitatVars
    /\ UNCHANGED startVars

EmbodiedNext == Starts \/ Serve \/ Works

EmbodiedSpec == EmbodiedInit /\ [][EmbodiedNext]_allVars
-----------------------------------------------------------------------------
\* What clients are told of the backend is the adapter that serves them, and
\* an adapter of the simulator has one, or main has said that it failed.
ServesWhatItSays ==
    step = "up" =>
        /\ backend_type = adapter
        /\ adapter = "habitat" => sim = "ready" \/ "Habitat failed" \in announced

\* docs/embodied_intelligence_navigation.md:46: T1 -> T2 -> T3, with the message
\* that it has degraded to the lightweight 3D mode.
DegradesInSteps ==
    step = "up" /\ "degraded to HM3D" \in announced =>
        adapter = "hm3d" \/ "HM3D failed" \in announced
=============================================================================
