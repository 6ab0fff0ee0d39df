------------------------------- MODULE House --------------------------------
(***************************************************************************)
(* The furniture of the demonstration house, which three parts of the code *)
(* list each for itself: HM3DAdapter, the scene the server sends to its    *)
(* clients, and the grid world main fills.  Lengths are millimetres, places *)
(* <<x, z, height>>; colours and labels are left out.                      *)
(***************************************************************************)
EXTENDS Integers, SequencesExt

Box(x, z, sx, sz, h) == [shape |-> "box", at |-> <<x, z>>, size |-> <<sx, sz>>, height |-> h]
Pillar(x, z, r, h) == [shape |-> "cylinder", at |-> <<x, z>>, radius |-> r, height |-> h]

\* HM3DAdapter.  _OBSTACLES, with the safety radii, is not read by any code.
DEFAULT_OBJECT_INDEX ==
    [sofa |-> <<8000, 6000, 300>>, bed |-> <<4000, 11000, 1500>>,
     table |-> <<5000, 10000, 1100>>, chair |-> <<9000, 3000, 400>>,
     fridge |-> <<10000, 4000, 1200>>, coffee_table |-> <<9000, 5000, 300>>]

OBSTACLE_SHAPES ==
    {Box(6500, 6500, 3000, 1000, 900), Box(5500, 7500, 1000, 3000, 900),
     Pillar(3000, 8000, 400, 2200), Box(9000, 4000, 1500, 800, 600),
     Box(1500, 9000, 1000, 400, 2400), Box(7000, 2500, 2000, 1000, 600),
     Box(5000, 7500, 4000, 100, 1800), Pillar(4500, 9000, 600, 1100),
     Pillar(3800, 9500, 600, 1100), Pillar(3000, 10000, 600, 1100)}

\* serve_mva.py: the scene_objects of every state that is sent.
DEFAULT_SCENE_OBJECTS ==
    [things |->
        [sofa |-> <<8000, 6000, 300>>, bed |-> <<4000, 11000, 1500>>,
         table |-> <<5000, 10000, 1100>>, chair |-> <<9000, 3000, 400>>,
         fridge |-> <<10000, 4000, 1200>>, coffee_table |-> <<9000, 5000, 300>>],
     obstacles |->
        [island_main |-> Box(6500, 6500, 3000, 1000, 900),
         island_wing |-> Box(5500, 7500, 1000, 3000, 900),
         pillar |-> Pillar(3000, 8000, 400, 2200),
         cabinet |-> Box(9000, 4000, 1500, 800, 600),
         bookshelf |-> Box(1500, 9000, 1000, 400, 2400),
         corner_sofa |-> Box(7000, 2500, 2000, 1000, 600),
         glass_wall |-> Box(5000, 7500, 4000, 100, 1800),
         bar1 |-> Pillar(4500, 9000, 600, 1100),
         bar2 |-> Pillar(3800, 9500, 600, 1100),
         bar3 |-> Pillar(3000, 10000, 600, 1100)]]

\* main: the records of the grid world, and where its robot starts.
GridObjects ==
    [sofa |-> <<8000, 6000, 0>>, bed |-> <<4000, 11000, 0>>, table |-> <<5000, 10000, 0>>,
     chair |-> <<9000, 3000, 0>>, fridge |-> <<10000, 4000, 0>>, coffee_table |-> <<9000, 5000, 0>>]
GridObstacles ==
    {<<5500, 6500>>, <<6500, 6500>>, <<7500, 6500>>, <<5500, 7500>>, <<5000, 7500>>, <<3000, 8000>>,
     <<9000, 4000>>, <<1500, 9000>>, <<7000, 2500>>, <<4500, 9000>>, <<3800, 9500>>, <<3000, 10000>>}
GridStart == <<3000, 4000, 0>>

\* "Unified furniture coordinates" (serve_mva.py:37): what clients draw is what
\* HM3DAdapter keeps clear of, and the grid world has something at the middle of
\* every obstacle.  The heights are lost there.
ASSUME FurnitureAgrees ==
    /\ Range(DEFAULT_SCENE_OBJECTS.obstacles) = OBSTACLE_SHAPES
    /\ DEFAULT_SCENE_OBJECTS.things = DEFAULT_OBJECT_INDEX
    /\ GridObjects = [o \in DOMAIN DEFAULT_OBJECT_INDEX |->
                        <<DEFAULT_OBJECT_INDEX[o][1], DEFAULT_OBJECT_INDEX[o][2], 0>>]
    /\ {o.at : o \in OBSTACLE_SHAPES} \subseteq GridObstacles
=============================================================================
