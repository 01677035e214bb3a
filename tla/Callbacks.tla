------------------------------ MODULE Callbacks ------------------------------
(* The function pointers of the firmware.  A stored callback is either NULL  *)
(* or the name of the one function the code ever stores in it; the variables *)
(* of the component modules hold these names.                                *)

NULL == "NULL"

(* clock.c: onInitCB and onHFCLKStartedCB. *)
InitCallbacks == {NULL, "whenClockInited"}
HFCLKStartedCallbacks == {NULL, "send_ble_data_on_channel_37"}

(* ble.c: onDisableCB. *)
DisableCallbacks ==
  {NULL, "send_ble_data_on_channel_38", "send_ble_data_on_channel_39",
   "finished_ble_data"}

(* random.c: onFirstDataCB; aes.c: onECBDoneCB. *)
FirstDataCallbacks == {NULL, "aes_callback_chain_issue"}
ECBDoneCallbacks == {NULL, "on_aes_encrypted"}

(* timer.c: timer_def.cb, and the callback a timer event is handed (doneCB). *)
TimerCallbacks == {"ble_callback_chain", "aes_callback_chain"}
DoneCallbacks == {NULL, "timer_reschedule"}

==============================================================================
