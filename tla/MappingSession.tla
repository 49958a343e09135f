--------------------------- MODULE MappingSession ---------------------------
(***************************************************************************)
(* One call of generate_mapping (src/src/mapping/model_mapper.py), layer   *)
(* by layer, from any state the array can be in: what the nearest-         *)
(* neighbour mapper does to the temporary capacity and which shares it     *)
(* hands out.  The real capacity is only touched by the commit at the end, *)
(* which is part of GlobalManager's InjectModel.                           *)
(***************************************************************************)
EXTENDS ModelMapper

CONSTANTS
  LayerKinds,   \* the layers a model may be made of
  MaxLayers     \* bound: layers of the model

\* Whole is fine enough for the shares to be exact.
ASSUME SessionAssumption ==
  \A layer \in LayerKinds :
    /\ layer.rows \in Nat /\ layer.cols \in Nat
    /\ \A c \in Chiplets :
         ~IsIOChiplet(c) /\ LayerUnits(layer, c) > 0 => Whole % LayerUnits(layer, c) = 0

VARIABLES
  temp,       \* temp_available_capacity
  actions,    \* layer_mappings: the share of every chiplet, per layer
  layers,     \* the layers mapped so far
  outcome     \* mapped, or why the whole mapping fails

sessionVars == <<available_units, temp, actions, layers, outcome>>

\* The array has served other models: any capacity may be left.
SessionInit ==
  /\ available_units \in Capacities
  /\ temp = WithoutIO(available_units)
  /\ actions = <<>>
  /\ layers = <<>>
  /\ outcome = "mapped"

MapNextLayer(layer) ==
  /\ outcome = "mapped"
  /\ Len(layers) < MaxLayers
  /\ LET got == MapLayer(layer, temp, actions)
     IN  /\ outcome' = got.outcome
         /\ temp' = got.cap
         /\ actions' = IF got.outcome = "mapped" THEN got.actions ELSE <<>>
         /\ layers' = IF got.outcome = "mapped" THEN Append(layers, layer) ELSE <<>>
  /\ UNCHANGED available_units

\* The mapping is returned, or has failed.
SessionOver ==
  /\ outcome # "mapped" \/ Len(layers) = MaxLayers
  /\ UNCHANGED sessionVars

SessionNext == (\E layer \in LayerKinds : MapNextLayer(layer)) \/ SessionOver

SessionSpec == SessionInit /\ [][SessionNext]_sessionVars

----------------------------------------------------------------------------
ShareTotal(action) == SumFunctionOnSet(action, Chiplets)

\* No chiplet is overbooked: the temporary capacity only shrinks, never below
\* zero, and chiplets that must not be used keep all they had.
NothingOverbooked ==
  /\ temp \in Capacities
  /\ \A c \in Chiplets : temp[c] <= available_units[c]
  /\ \A c \in Chiplets \ Permitted : ~IsIOChiplet(c) => temp[c] = available_units[c]

\* A mapped layer is placed once: its shares never add up to more than the
\* whole, on chiplets of different kinds and with rounding in between, and
\* what they leave out is at most the Slack and a weight per chiplet.
LayersPlacedOnce ==
  \A k \in DOMAIN actions :
    LET missing == Whole - ShareTotal(actions[k])
    IN  /\ missing >= 0
        /\ missing * CrossbarsRequired(layers[k]) <= (Slack + NumChiplets) * Whole

\* A layer has a share of a chiplet exactly if it took units from it.
SharesArePaidFor ==
  [][outcome' = "mapped" =>
       \A c \in Chiplets : (Last(actions')[c] > 0) <=> (temp'[c] < temp[c])]_sessionVars
=============================================================================
