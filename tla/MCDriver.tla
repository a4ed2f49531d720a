------------------------------ MODULE MCDriver ------------------------------
(* Calls for EmmcDriver: one of each form, and all that change the state a *)
(* later call depends on.                                                  *)
EXTENDS EmmcDriver

MCCalls == {"ctl_init", "go_idle", "send_op_cond", "all_send_cid",
            "set_block_length", "read_block", "sd_app_cmd"}
MCSdCard == {"go_idle", "sd_app_cmd", "sd_send_op_cond"}
=============================================================================
