----------------------------- MODULE ModeSwitch -----------------------------
(***************************************************************************)
(* APIModeSwitch (model_router/api_mode_switch.py): which tasks go to the  *)
(* local model and which to the cloud, and the health reported for the     *)
(* local endpoints.  What it only records (_switch_history,                *)
(* _last_health_check) decides nothing and is left out.                    *)
(***************************************************************************)
CONSTANT Endpoint       \* endpoints whose health is reported

APIMode == {"LOCAL", "CLOUD", "HYBRID"}
LOCAL_TASK_TIERS == {"T0", "T1"}

ASSUME EndpointAssumption == "lm_studio" \in Endpoint

VARIABLES current_mode,         \* _current_mode
          local_health_status   \* _local_health_status; endpoints not reported are FALSE

modeVars == <<current_mode, local_health_status>>

ModeInit ==
    /\ current_mode \in APIMode
    /\ local_health_status = [e \in Endpoint |-> e = "lm_studio"]

get_mode_for_task(task) ==
    IF /\ current_mode # "CLOUD"
       /\ current_mode = "HYBRID" => task \in LOCAL_TASK_TIERS
       /\ local_health_status["lm_studio"]
    THEN "LOCAL" ELSE "CLOUD"

switch_mode(new_mode) ==
    /\ current_mode' = new_mode
    /\ UNCHANGED local_health_status

update_local_health(endpoint, is_healthy) ==
    /\ local_health_status' = [local_health_status EXCEPT ![endpoint] = is_healthy]
    /\ UNCHANGED current_mode

ModeNext ==
    \/ \E m \in APIMode : switch_mode(m)
    \/ \E e \in Endpoint, b \in BOOLEAN : update_local_health(e, b)
=============================================================================
