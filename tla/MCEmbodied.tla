---------------------------- MODULE MCEmbodied ------------------------------
(***************************************************************************)
(* Every host; small rooms and the house HM3DAdapter comes with; a floor   *)
(* of two islands for the simulator.                                       *)
(***************************************************************************)
EXTENDS Embodied, ShortestPaths, House

\* The directory of the scene does not exist: no bounds are loaded.  The cells on
\* edges that float arithmetic counts in are given.
BuiltIn == [kind |-> "hm3d", lo |-> <<0, 0, 0>>, hi |-> <<20000, 20000, 0>>, bounded |-> FALSE,
    shapes |-> OBSTACLE_SHAPES,
    onEdge |-> {<<10, z>> : z \in 12 .. 14} \union {<<x, 12>> : x \in 11 .. 17}
                 \union {<<12, z>> : z \in 5 .. 7},
    objects |-> [o \in {"sofa", "bed"} |-> DEFAULT_OBJECT_INDEX[o]]]

\* The grid world of the server, 12 of its 100 cells wide and deep.
ServerGrid == [kind |-> "grid", nx |-> 12, nz |-> 12, home |-> GridStart,
    records |-> GridObstacles \union {<<GridObjects[o][1], GridObjects[o][2]>> : o \in DOMAIN GridObjects},
    objects |-> [o \in {"sofa", "bed", "fridge"} |-> GridObjects[o]]]

\* Rooms of 4 x 4 cells with any of these things in them; one object is
\* outside, as those of the index are when a small scene is loaded.
Things == {Box(700, 700, 300, 300, 900), Box(200, 700, 300, 300, 900), Pillar(1200, 700, 100, 900),
           Pillar(700, 200, 300, 900), Box(200, 1200, 300, 300, 900),
           Box(-300, 450, 200, 300, 900), Box(1200, 1200, 300, 300, 100)}
Rooms == {[kind |-> "hm3d", lo |-> <<0, 0, 0>>, hi |-> <<1000, 1000, 2000>>, bounded |-> TRUE,
           shapes |-> things, onEdge |-> {},
           objects |-> [cat |-> <<-200, -200, 0>>, door |-> <<1100, 100, 900>>,
                       tree |-> <<5000, 1200, 1500>>]]
             : things \in SUBSET Things \union {{Box(500, 500, 2000, 2000, 900)}}}

\* A hall of 14 x 8 cells with one thin post, which the line from the door to the
\* window passes so that only a frame of the animation falls into its cell.
Hall == [kind |-> "hm3d", lo |-> <<0, 0, 0>>, hi |-> <<6000, 3000, 2000>>, bounded |-> TRUE,
         shapes |-> {Pillar(1700, 1200, 150, 900)}, onEdge |-> {},
         objects |-> [door |-> <<200, 200, 0>>, window |-> <<5700, 2700, 900>>]]

\* Grid worlds of 4 x 3 cells: records are obstacles; one is off the grid.
Worlds == {[kind |-> "grid", nx |-> 4, nz |-> 3, home |-> <<0, 0, 0>>, records |-> records,
            objects |-> [bed |-> <<3000, 2000, 0>>, box |-> <<1500, 1500, 0>>, away |-> <<4000, 1000, 0>>]]
             : records \in SUBSET {<<1000, 0>>, <<1000, 1000>>, <<0, 1400>>, <<2000, 1000>>,
                                   <<3000, 1000>>, <<2000, 2000>>, <<4000, 1000>>}}

McScenes == {BuiltIn, ServerGrid, Hall} \union Rooms \union Worlds
McStrides == {500}

McHosts == [backend : {"auto", "habitat", "hm3d", "2d"},
            scene : BOOLEAN, scene_id : {"none", "known", "unknown"},
            HABITAT_SCENE : BOOLEAN, HM3D_SCENE : BOOLEAN, dataset : BOOLEAN,
            habitat_sim : {"missing", "raises", "works"}, renders : BOOLEAN,
            trimesh : {"missing", "raises", "works"}]

\* A hall, and behind a wall a niche; the bed is in the niche.
McIslands == {((0 .. 3) \X (0 .. 3)) \ {<<1, 1>>, <<2, 1>>}, {<<5, 3>>}}
McAnnotations == {<<>>, [sofa |-> {<<3, 0>>, <<0, 3>>}, chair |-> {<<2, 1>>}, bed |-> {<<5, 3>>}]}
=============================================================================
