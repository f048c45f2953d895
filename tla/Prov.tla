-------------------------------- MODULE Prov --------------------------------
(***************************************************************************)
(* The SoftAP provisioning example (app_prov.c, app_prov_handlers.c,       *)
(* app_main.c).  Four tasks share g_prov: the event loop runs              *)
(* app_prov_event_handler, the HTTP server runs the endpoint handlers, the *)
(* timer service starts stop_prov_task 30 s after the station got an       *)
(* address, and that task takes everything down and frees g_prov.          *)
(* Credentials are "good" or "bad"; the Wi-Fi driver keeps them in flash.  *)
(* The driver, the HTTP server and the client are external.                *)
(***************************************************************************)
EXTENDS Naturals, Sequences

CONSTANTS
    ReconnAttempts,  \* EXAMPLE_AP_RECONN_ATTEMPTS
    MaxApplies,      \* bound: apply requests of the client
    MaxFailures,     \* bound: connections lost or refused for other reasons
    MaxBoots         \* bound: restarts of the device

VARIABLES
    mode,      \* "start", "prov" or "sta": the path app_main took
    stored,    \* the station configuration in flash: "none", "good", "bad"
    g_prov,    \* [ptr, wifi_state, timer]
    service,   \* the protocomm HTTP server runs
    handlers,  \* app_prov_event_handler is registered
    ctx,       \* the configuration received and not applied
    http,      \* the server task: "idle" or inside app_prov_configure_sta
    stopTask,  \* stop_prov_task: "none" or its next step
    sta,       \* the driver: "off", "idle", "connecting", "up"
    posted,    \* events posted to the event loop
    s_retry_num, applies, failures, boots,
    overtaken  \* history: an event was handled inside app_prov_configure_sta

provVars == <<mode, stored, g_prov, service, handlers, ctx, http, stopTask, sta,
              posted, s_retry_num, applies, failures, boots, overtaken>>

Configs == {"good", "bad"}
\* WIFI_REASON_... as the handler tells them apart.
Reasons == {"AUTH_ERROR", "AP_NOT_FOUND", "OTHER"}
NoProv == [ptr |-> "null", wifi_state |-> "CONNECTING", timer |-> "none"]

ProvInit ==
    /\ mode = "start"
    /\ stored = "none"
    /\ g_prov = NoProv
    /\ service = FALSE /\ handlers = FALSE
    /\ ctx = "none" /\ http = "idle"
    /\ stopTask = "none"
    /\ sta = "off" /\ posted = <<>>
    /\ s_retry_num = 0 /\ applies = 0 /\ failures = 0 /\ boots = 0
    /\ overtaken = FALSE

----------------------------------------------------------------------------
(* app_main.                                                               *)

\* app_prov_start_softap_provisioning(): data, timer, handlers, access point
\* and service.  A failure ends in ESP_ERROR_CHECK, a restart.
start_softap_provisioning ==
    /\ mode' = "prov"
    /\ g_prov' = [ptr |-> "live", wifi_state |-> "CONNECTING", timer |-> "created"]
    /\ handlers' = TRUE
    /\ service' = TRUE
    /\ UNCHANGED <<sta, posted>>

\* wifi_init_sta(): the station starts with the stored configuration.
wifi_init_sta ==
    /\ mode' = "sta"
    /\ sta' = "idle"
    /\ posted' = <<"STA_START">>
    /\ UNCHANGED <<g_prov, handlers, service>>

app_prov_is_provisioned == stored # "none"

ProvMain ==
    /\ mode = "start"
    /\ IF app_prov_is_provisioned THEN wifi_init_sta ELSE start_softap_provisioning
    /\ UNCHANGED <<stored, ctx, http, stopTask, s_retry_num, applies, failures,
                   boots, overtaken>>

\* A restart at any moment; only the configuration in flash survives.
ProvReboot ==
    /\ boots < MaxBoots /\ mode # "start"
    /\ boots' = boots + 1
    /\ mode' = "start"
    /\ g_prov' = NoProv
    /\ service' = FALSE /\ handlers' = FALSE
    /\ ctx' = "none" /\ http' = "idle" /\ stopTask' = "none"
    /\ sta' = "off" /\ posted' = <<>> /\ s_retry_num' = 0
    /\ overtaken' = FALSE
    /\ UNCHANGED <<stored, applies, failures>>

----------------------------------------------------------------------------
(* The endpoint handlers, in the HTTP server's task.                       *)

set_config_handler ==
    /\ service /\ http = "idle"
    /\ \E c \in Configs : ctx' = c
    /\ UNCHANGED <<mode, stored, g_prov, service, handlers, http, stopTask, sta,
                   posted, s_retry_num, applies, failures, boots, overtaken>>

\* apply_config_handler(), app_prov_configure_sta() up to esp_wifi_connect():
\* the configuration goes to flash and the station starts.
ApplyStart ==
    /\ service /\ http = "idle" /\ ctx # "none" /\ applies < MaxApplies
    /\ stored' = ctx
    /\ sta' = "connecting"
    /\ posted' = IF sta = "off" THEN Append(posted, "STA_START") ELSE posted
    /\ http' = "started"
    /\ applies' = applies + 1
    /\ UNCHANGED <<mode, g_prov, service, handlers, ctx, stopTask, s_retry_num,
                   failures, boots, overtaken>>

\* The rest: the state is reset after the connection was asked for, and the
\* configuration freed.
ApplyEnd ==
    /\ http = "started"
    /\ http' = "idle"
    /\ ctx' = "none"
    /\ g_prov' = IF g_prov.ptr = "null" THEN g_prov
                 ELSE [g_prov EXCEPT !.wifi_state = "CONNECTING"]
    /\ UNCHANGED <<mode, stored, service, handlers, stopTask, sta, posted,
                   s_retry_num, applies, failures, boots, overtaken>>

----------------------------------------------------------------------------
(* The event loop.                                                         *)

\* Mutant: the timer is not started.
app_prov_event_handler_noTimer(e) ==
    /\ g_prov' = [g_prov EXCEPT !.wifi_state =
                     CASE e = "GOT_IP" -> "CONNECTED"
                       [] e \in {"AUTH_ERROR", "AP_NOT_FOUND"} -> "DISCONNECTED"
                       [] OTHER -> "CONNECTING"]
    /\ sta' = IF e = "OTHER" /\ sta = "idle" THEN "connecting" ELSE sta

\* Mutant: an unexpected reason is reported, and the station retries all the same.
app_prov_event_handler_reports(e) ==
    /\ g_prov' = [g_prov EXCEPT !.wifi_state =
                     CASE e = "GOT_IP" -> "CONNECTED"
                       [] e \in Reasons -> "DISCONNECTED"
                       [] OTHER -> "CONNECTING",
                     !.timer = IF e = "GOT_IP" THEN "armed" ELSE @]
    /\ sta' = IF e = "OTHER" /\ sta = "idle" THEN "connecting" ELSE sta

\* app_prov_event_handler(), if it is registered and provisioning runs.
app_prov_event_handler(e) ==
    CASE e = "STA_START" ->
           /\ g_prov' = [g_prov EXCEPT !.wifi_state = "CONNECTING"]
           /\ UNCHANGED sta
      [] e = "GOT_IP" ->   \* esp_timer_start_once() arms it again
           /\ g_prov' = [g_prov EXCEPT !.wifi_state = "CONNECTED",
                                       !.timer = IF @ = "none" THEN @ ELSE "armed"]
           /\ UNCHANGED sta
      [] e \in {"AUTH_ERROR", "AP_NOT_FOUND"} ->
           /\ g_prov' = [g_prov EXCEPT !.wifi_state = "DISCONNECTED"]
           /\ UNCHANGED sta
      [] e = "OTHER" ->    \* esp_wifi_connect()
           /\ g_prov' = [g_prov EXCEPT !.wifi_state = "CONNECTING"]
           /\ sta' = IF sta = "idle" THEN "connecting" ELSE sta

\* event_handler() of app_main.c, registered by wifi_init_sta().
event_handler(e) ==
    CASE e = "STA_START" -> sta' = "connecting" /\ UNCHANGED s_retry_num
      [] e = "GOT_IP" -> s_retry_num' = 0 /\ UNCHANGED sta
      [] e \in Reasons ->
           IF s_retry_num < ReconnAttempts
           THEN sta' = "connecting" /\ s_retry_num' = s_retry_num + 1
           ELSE UNCHANGED <<sta, s_retry_num>>

ProvEvent ==
    /\ posted # <<>>
    /\ posted' = Tail(posted)
    /\ \/ /\ mode = "prov" /\ handlers /\ g_prov.ptr # "null"
          /\ app_prov_event_handler(Head(posted))
          /\ overtaken' = (overtaken \/ http = "started")
          /\ UNCHANGED s_retry_num
       \/ /\ mode = "prov" /\ ~(handlers /\ g_prov.ptr # "null")
          /\ UNCHANGED <<g_prov, sta, s_retry_num, overtaken>>
       \/ /\ mode = "sta"
          /\ event_handler(Head(posted))
          /\ UNCHANGED <<g_prov, overtaken>>
    /\ UNCHANGED <<mode, stored, service, handlers, ctx, http, stopTask, applies,
                   failures, boots>>

----------------------------------------------------------------------------
(* The timer and stop_prov_task.                                           *)

\* The timer expires: _stop_prov_cb() creates the task.  30 s are enough for
\* a stop_prov_task that is already there to end.
_stop_prov_cb ==
    /\ g_prov.timer = "armed" /\ stopTask = "none"
    /\ g_prov' = [g_prov EXCEPT !.timer = "created"]
    /\ stopTask' = "stop_service"
    /\ UNCHANGED <<mode, stored, service, handlers, ctx, http, sta, posted,
                   s_retry_num, applies, failures, boots, overtaken>>

\* Mutant: the data is freed before the handlers are unregistered.
StopService_freesFirst ==
    /\ stopTask = "stop_service" /\ http = "idle"
    /\ service' = FALSE
    /\ g_prov' = [g_prov EXCEPT !.ptr = "dangling"]
    /\ stopTask' = "unregister"
    /\ UNCHANGED <<mode, stored, handlers, ctx, http, sta, posted, s_retry_num,
                   applies, failures, boots, overtaken>>

\* app_prov_stop_service(): protocomm_httpd_stop() waits for the server task.
StopService ==
    /\ stopTask = "stop_service" /\ http = "idle"
    /\ service' = FALSE
    /\ stopTask' = "unregister"
    /\ UNCHANGED <<mode, stored, g_prov, handlers, ctx, http, sta, posted,
                   s_retry_num, applies, failures, boots, overtaken>>

\* ... and esp_event_handler_unregister() for a handler that is running.
Unregister ==
    /\ stopTask = "unregister"
    /\ handlers' = FALSE
    /\ stopTask' = "delete_timer"
    /\ UNCHANGED <<mode, stored, g_prov, service, ctx, http, sta, posted,
                   s_retry_num, applies, failures, boots, overtaken>>

\* esp_timer_delete(); free(g_prov); g_prov = NULL: three steps.
FreeProv ==
    /\ \/ /\ stopTask = "delete_timer"
          /\ g_prov' = [g_prov EXCEPT !.timer = "none"]
          /\ stopTask' = "free"
       \/ /\ stopTask = "free"
          /\ g_prov' = [g_prov EXCEPT !.ptr = "dangling"]
          /\ stopTask' = "null"
       \/ /\ stopTask = "null"
          /\ g_prov' = [g_prov EXCEPT !.ptr = "null"]
          /\ stopTask' = "none"
    /\ UNCHANGED <<mode, stored, service, handlers, ctx, http, sta, posted,
                   s_retry_num, applies, failures, boots, overtaken>>

----------------------------------------------------------------------------
(* The Wi-Fi driver.                                                       *)

StaUp ==
    /\ sta = "connecting" /\ stored = "good"
    /\ sta' = "up"
    /\ posted' = Append(posted, "GOT_IP")
    /\ UNCHANGED failures

StaRefused ==
    /\ sta = "connecting" /\ stored = "bad"
    /\ sta' = "idle"
    /\ \E r \in {"AUTH_ERROR", "AP_NOT_FOUND"} : posted' = Append(posted, r)
    /\ UNCHANGED failures

StaLost ==
    /\ sta \in {"connecting", "up"} /\ failures < MaxFailures
    /\ sta' = "idle"
    /\ failures' = failures + 1
    /\ \E r \in {"OTHER", "AUTH_ERROR"} : posted' = Append(posted, r)

StaDriver ==
    /\ StaUp \/ StaRefused \/ StaLost
    /\ UNCHANGED <<mode, stored, g_prov, service, handlers, ctx, http, stopTask,
                   s_retry_num, applies, boots, overtaken>>

ProvTasks == ProvMain \/ ApplyEnd \/ ProvEvent \/ _stop_prov_cb \/ StopService
                \/ Unregister \/ FreeProv

ProvNext == ProvTasks \/ set_config_handler \/ ApplyStart \/ StaDriver \/ ProvReboot

ProvSpec == ProvInit /\ [][ProvNext]_provVars

\* What runs again and again: the event loop, the application and HTTP tasks,
\* the timer, the stop task; and the driver comes to a result.
ProvTask(k) ==
    \/ k = 1 /\ ProvEvent
    \/ k = 2 /\ (ProvMain \/ ApplyEnd)
    \/ k = 3 /\ _stop_prov_cb
    \/ k = 4 /\ (StopService \/ Unregister \/ FreeProv)
    \/ k = 5 /\ StaDriver /\ failures' = failures

----------------------------------------------------------------------------
(* Properties.                                                             *)

\* g_prov is freed by a task of lowest priority that anyone may interrupt,
\* before the pointer is cleared: by then neither the event loop nor the HTTP
\* server can reach it, and the task itself runs at most once per g_prov.
ProvDataLive ==
    /\ g_prov.ptr = "dangling" => ~handlers /\ ~service /\ http = "idle"
    /\ stopTask \in {"stop_service", "unregister", "delete_timer", "free"} =>
         g_prov.ptr = "live"

\* What the client is told is true once the events are handled: connected
\* means an address, disconnected means the driver gave up.  For the first
\* request: a later one races with events of the one before, and an event
\* handled between esp_wifi_connect() and the reset of the state is lost.
StatusTruthful ==
    mode = "prov" /\ g_prov.ptr = "live" /\ handlers /\ posted = <<>>
      /\ http = "idle" /\ applies = 1 /\ ~overtaken =>
        /\ (g_prov.wifi_state = "CONNECTED") <=> (sta = "up")
        /\ (g_prov.wifi_state = "DISCONNECTED") => sta = "idle"

\* The station has an address and g_prov is still there.
Provisioned == g_prov.wifi_state = "CONNECTED" /\ g_prov.ptr = "live"
============================================================================
