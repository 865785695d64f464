------------------------------- MODULE Schema -------------------------------
(***************************************************************************)
(* The migration of the controller's database at start (em_db.init).  The  *)
(* schema version indexes an append-only list of scripts; each script runs *)
(* through sqlite3's executescript, which has no transaction of its own:   *)
(* every statement commits by itself, and what a crash leaves behind is a  *)
(* prefix of the script.  A fixup in Python follows some scripts and does  *)
(* commit as a whole.  A database is its version, its columns and the      *)
(* versions whose fixup has been committed; rows and values are left out.  *)
(***************************************************************************)
EXTENDS Integers, Sequences

CONSTANTS
    Builds,      \* how many migrations the controllers that may be started know
    MaxFaults,   \* crashes and failed writes
    MaxBoots     \* starts of the controller

VARIABLES
    db,      \* the database on disk: [ver, cols, fixed]
    baks,    \* version -> <<>> or <<the copy in .pre-v<version>.bak>>
    pc,      \* what the controller process is doing
    run,     \* this start: [build, found, ver, at, skip]; skipped: some start made no backup
    faults, boots
vars == <<db, baks, pc, run, faults, boots>>

Cols(t, cs) == {<<t, c>> : c \in cs}
Create(t, cs) == <<[op |-> "create", t |-> t, cs |-> Cols(t, cs)]>>
Add(t, cs) == [i \in 1..Len(cs) |-> [op |-> "add", t |-> t, cs |-> {<<t, cs[i]>>}]]
Uses(t, cs) == <<[op |-> "use", t |-> t, cs |-> Cols(t, cs)]>>
Version(v) == [op |-> "version", t |-> "system_config", cs |-> {}, ver |-> v]

V1to4 == <<
    Create("devices", {"device_id", "label", "approved", "ip", "firmware_ver",
                       "firmware_previous", "first_seen", "last_seen", "config"})
    \o Create("device_logs", {"id", "device_id", "ts", "level", "source", "message"})
    \o Uses("device_logs", {"device_id", "ts"})
    \o Create("users", {"id", "username", "password_hash", "role", "created_at"})
    \o Create("sessions", {"token", "user_id", "created_at", "expires_at"})
    \o Create("system_config", {"key", "value"})
    \o <<Version(1)>> \o Uses("system_config", {"key", "value"}),
    Add("devices", <<"esphome_api_port", "esphome_noise_psk">>),
    Add("devices", <<"use_global_config">>),
    Add("devices", <<"ble_proxy_port">>)>>

V5to6 == <<
    Create("turns", {"id", "device_id", "ts", "trigger_type", "wake_model", "wake_score",
                     "wake_threshold", "noise_floor", "outcome", "stt_text", "total_ms",
                     "vad_end_ms", "stt_ms", "tts_url_ms", "tts_fetch_ms", "playback_ms",
                     "audio_ms", "tts_bytes", "underruns", "playback_periods"})
    \o Uses("turns", {"device_id", "ts"})
    \o Create("wake_counters", {"device_id", "hour_ts", "near_misses", "near_miss_max",
                                "underruns"})
    \o Create("device_metrics", {"device_id", "hour_ts", "samples", "cpu_sum", "cpu_max",
                                 "mem_used_sum", "mem_total_mb", "storage_used_mb",
                                 "storage_total_mb", "rssi_sum", "rssi_samples", "rssi_min"}),
    Add("devices", <<"token">>)>>

V7to8 == <<
    Add("turns", <<"min_depth", "prime_wait_ms", "recv_span_ms", "max_gap_ms", "bytes_recv",
                   "send_ms", "delivery_ms", "eq_ms">>)
    \o Add("device_metrics", <<"link_speed_last", "link_speed_min", "wifi_freq_last",
                               "wifi_bssid_last", "tx_bytes_sum", "rx_bytes_sum",
                               "tx_errors_sum", "tx_dropped_sum", "rx_crc_sum">>),
    Add("devices", <<"config_sections">>)
    \o Uses("devices", {"config_sections", "use_global_config"})>>

V9Edited == Add("device_metrics", <<"rtt_sum_ms", "rtt_samples", "rtt_min_ms", "rtt_max_ms",
                                    "rtt_excursions", "rtt_excursions_idle",
                                    "rtt_samples_idle">>)
V9 == Add("device_metrics", <<"rtt_sum_ms", "rtt_samples", "rtt_min_ms", "rtt_max_ms",
                              "rtt_excursions", "rtt_excursions_idle">>)

V10to15 == <<
    Add("device_metrics", <<"rtt_samples_idle">>),
    <<>>,
    Add("turns", <<"audio_file">>),
    Add("turns", <<"dev_wake_score", "dev_wake_delta_ms", "dev_shadow">>)
    \o Add("wake_counters", <<"dev_frames", "dev_drops", "dev_crossings", "dev_max_score">>),
    Add("device_metrics", <<"cpu_temp_sum", "cpu_temp_samples", "cpu_temp_max",
                            "max_temp_max", "cores_online_last", "cores_online_min",
                            "cores_total", "thermal_limit_min">>),
    Add("turns", <<"dev_threshold">>)>>

V16to21 == <<
    Add("wake_counters", <<"dev_max_infer_ms", "dev_max_gap_ms">>),
    Add("turns", <<"ctrl_wake_score", "ctrl_wake_delta_ms">>),
    Add("users", <<"ha_user_id">>) \o Uses("users", {"ha_user_id"}),
    Add("turns", <<"state">>),
    Add("turns", <<"stt_latency_ms", "ha_latency_ms", "tts_latency_ms", "tts_audio_file">>),
    Uses("turns", {"tts_latency_ms", "total_ms", "stt_latency_ms", "ha_latency_ms"})>>

V22to29 == <<
    <<>>, <<>>, <<>>,
    Add("turns", <<"tts_text">>),
    Add("turns", <<"stop_model", "stop_score", "stop_threshold", "stop_phase",
                   "stop_device_age_ms", "stop_flush_ms", "stop_cancel_ms",
                   "stop_hacs_ack_ms">>)
    \o Add("wake_counters", <<"stops_accepted", "stops_stale", "stop_model_drops",
                              "stop_model_errors">>),
    <<>>,
    Create("alarms", {"id", "device_id", "label", "hour", "minute", "recurrence",
                      "weekday_mask", "date", "tz", "enabled", "next_fire_utc",
                      "last_fired_occurrence", "created_by", "created_at"})
    \o Uses("alarms", {"device_id"}) \o Add("devices", <<"timezone">>),
    Create("turn_tool_calls", {"id", "turn_id", "sequence", "call_id", "name",
                               "request_json", "response_json", "status", "updated_at"})
    \o Uses("turn_tool_calls", {"turn_id", "sequence"})>>

Bodies == V1to4 \o V5to6 \o V7to8 \o <<V9>> \o V10to15 \o V16to21 \o V22to29
Latest == Len(Bodies)
FixupVersions == {11, 22, 23, 24, 27}

\* "Each migration must update schema_version as its final statement"; v1 inserts it
\* among its other seeds.
ScriptVersionFirst(v) == IF v = 1 THEN Bodies[1] ELSE <<Version(v)>> \o Bodies[v]
Script(v) == IF v = 1 THEN Bodies[1] ELSE Append(Bodies[v], Version(v))

\* The columns the module's own statements name.
TurnColumns == {"trigger_type", "wake_model", "wake_score", "wake_threshold", "noise_floor",
    "outcome", "stt_text", "total_ms", "vad_end_ms", "stt_ms", "tts_url_ms", "tts_fetch_ms",
    "playback_ms", "audio_ms", "tts_bytes", "underruns", "playback_periods", "min_depth",
    "prime_wait_ms", "recv_span_ms", "max_gap_ms", "bytes_recv", "send_ms", "delivery_ms",
    "eq_ms", "dev_wake_score", "dev_wake_delta_ms", "dev_shadow", "dev_threshold",
    "ctrl_wake_score", "ctrl_wake_delta_ms", "audio_file", "tts_audio_file", "tts_text",
    "stt_latency_ms", "ha_latency_ms", "tts_latency_ms", "stop_model", "stop_score",
    "stop_threshold", "stop_phase", "stop_device_age_ms", "stop_flush_ms", "stop_cancel_ms",
    "stop_hacs_ack_ms"}
MetricColumns == {"samples", "cpu_sum", "cpu_max", "mem_used_sum", "mem_total_mb",
    "storage_used_mb", "storage_total_mb", "rssi_sum", "rssi_samples", "rssi_min",
    "link_speed_last", "link_speed_min", "wifi_freq_last", "wifi_bssid_last", "tx_bytes_sum",
    "rx_bytes_sum", "tx_errors_sum", "tx_dropped_sum", "rx_crc_sum", "rtt_sum_ms",
    "rtt_samples", "rtt_min_ms", "rtt_max_ms", "rtt_excursions", "rtt_excursions_idle",
    "rtt_samples_idle", "cpu_temp_sum", "cpu_temp_samples", "cpu_temp_max", "max_temp_max",
    "cores_online_last", "cores_online_min", "cores_total", "thermal_limit_min"}
CounterColumns == {"near_misses", "near_miss_max", "underruns", "dev_frames", "dev_drops",
    "dev_crossings", "dev_max_score", "dev_max_infer_ms", "dev_max_gap_ms", "stops_accepted",
    "stops_stale", "stop_model_drops", "stop_model_errors"}
DeviceColumns == {"device_id", "label", "approved", "ip", "firmware_ver", "first_seen",
    "last_seen", "config", "token", "config_sections", "use_global_config",
    "firmware_previous", "timezone"}
AlarmColumns == {"id", "device_id", "label", "hour", "minute", "recurrence", "weekday_mask",
    "date", "tz", "enabled", "next_fire_utc", "last_fired_occurrence", "created_by",
    "created_at"}
OtherColumns == Cols("users", {"username", "password_hash", "role", "created_at", "ha_user_id"})
    \cup Cols("sessions", {"token", "user_id", "created_at", "expires_at"})
    \cup Cols("turn_tool_calls", {"turn_id", "sequence", "call_id", "name", "request_json",
                                  "response_json", "status", "updated_at"})
    \cup Cols("device_logs", {"id", "device_id", "ts", "level", "source", "message"})
QueryColumns == Cols("turns", TurnColumns \cup {"id", "device_id", "ts", "state"})
    \cup Cols("device_metrics", MetricColumns \cup {"device_id", "hour_ts"})
    \cup Cols("wake_counters", CounterColumns \cup {"device_id", "hour_ts"})
    \cup Cols("devices", DeviceColumns) \cup Cols("alarms", AlarmColumns) \cup OtherColumns

\* Whether sqlite accepts a statement, and what it leaves in the database.
Tables(d) == {c[1] : c \in d.cols}
Accepts(s, d) ==
    CASE s.op = "create" -> TRUE
      [] s.op = "add" -> s.t \in Tables(d) /\ s.cs \cap d.cols = {}
      [] OTHER -> s.t \in Tables(d) /\ s.cs \subseteq d.cols
Effect(s, d) ==
    CASE s.op = "create" -> [d EXCEPT !.cols = IF s.t \in Tables(d) THEN @ ELSE @ \cup s.cs]
      [] s.op = "add" -> [d EXCEPT !.cols = @ \cup s.cs]
      [] s.op = "version" -> [d EXCEPT !.ver = s.ver]
      [] OTHER -> d

\* The fixups prune retired keys from the stored configs; v22's restores the column that
\* a database from main's own v19 never got.
Fixup(v, d) ==
    IF v \notin FixupVersions THEN d
    ELSE [d EXCEPT !.fixed = @ \cup {v},
                   !.cols = IF v = 22 THEN @ \cup {<<"turns", "state">>} ELSE @]

\* The database a controller that knows v migrations leaves behind, as released.
Added(v) == UNION {s.cs : s \in {Bodies[v][i] : i \in {j \in DOMAIN Bodies[v] :
                                                  Bodies[v][j].op \in {"create", "add"}}}}
Reached == [v \in 0..Latest |-> [ver |-> v, cols |-> UNION {Added(w) : w \in 1..v},
                                fixed |-> {w \in FixupVersions : w <= v}]]
MainV19 == [Reached[19] EXCEPT !.cols = @ \ {<<"turns", "state">>}]

Init ==
    /\ db \in {Reached[v] : v \in 0..Latest} \cup {MainV19}
    /\ baks = [v \in 1..Latest |-> <<>>]
    /\ pc = "down"
    /\ run = [build |-> Latest, found |-> db, ver |-> 0, at |-> 0, skip |-> FALSE,
             skipped |-> FALSE]
    /\ faults = 0 /\ boots = 0

Fault == faults < MaxFaults /\ faults' = faults + 1

NeedsBackupPastFirst(v) == v > 1
NeedsBackup(v) == v # 0

\* init and the head of _migrate: a newer database is refused, a current one served.
Boot(build, skip) ==
    /\ pc = "down" /\ boots < MaxBoots /\ boots' = boots + 1
    /\ run' = [build |-> build, found |-> db, ver |-> db.ver + 1, at |-> 1, skip |-> skip,
                skipped |-> run.skipped \/ skip]
    /\ pc' = CASE db.ver > build -> "refused"
               [] db.ver = build -> "serving"
               [] db.ver < build /\ NeedsBackup(db.ver) /\ ~skip -> "backup"
               [] OTHER -> "apply"
    /\ UNCHANGED <<db, baks, faults>>

\* _backup_before_migrating: named for the version being left, overwriting.
Backup ==
    /\ pc = "backup" /\ pc' = "apply"
    /\ baks' = [baks EXCEPT ![run.found.ver] = <<db>>]
    /\ UNCHANGED <<db, run, faults, boots>>
BackupFails ==
    /\ pc = "backup" /\ pc' = "refused" /\ Fault
    /\ UNCHANGED <<db, baks, run, boots>>

Statement ==
    /\ pc = "apply" /\ run.at <= Len(Script(run.ver))
    /\ LET s == Script(run.ver)[run.at] IN
       IF Accepts(s, db)
       THEN /\ db' = Effect(s, db) /\ run' = [run EXCEPT !.at = @ + 1] /\ UNCHANGED pc
       ELSE /\ pc' = "failed" /\ UNCHANGED <<db, run>>
    /\ UNCHANGED <<baks, faults, boots>>

\* The fixup and conn.commit().
Commit ==
    /\ pc = "apply" /\ run.at > Len(Script(run.ver))
    /\ db' = Fixup(run.ver, db)
    /\ pc' = IF run.ver = run.build THEN "serving" ELSE "apply"
    /\ run' = IF run.ver = run.build THEN run ELSE [run EXCEPT !.ver = @ + 1, !.at = 1]
    /\ UNCHANGED <<baks, faults, boots>>

\* A statement, a fixup or a commit raises: conn.rollback() undoes the fixup only.
ApplyFails ==
    /\ pc = "apply" /\ pc' = "failed" /\ Fault
    /\ UNCHANGED <<db, baks, run, boots>>
Crash ==
    /\ pc \in {"backup", "apply"} /\ pc' = "down" /\ Fault
    /\ UNCHANGED <<db, baks, run, boots>>
\* A controller that raised exits; a serving one is stopped or replaced.
Stop ==
    /\ pc \in {"refused", "failed", "serving"} /\ pc' = "down"
    /\ UNCHANGED <<db, baks, run, faults, boots>>
\* The operator puts a backup in the place of the database.
Restore(v) ==
    /\ pc = "down" /\ boots < MaxBoots /\ baks[v] # <<>> /\ db # baks[v][1]
    /\ db' = baks[v][1]
    /\ UNCHANGED <<baks, pc, run, faults, boots>>

Next ==
    \/ \E build \in Builds, skip \in BOOLEAN : Boot(build, skip)
    \/ Backup \/ BackupFails \/ Statement \/ Commit \/ ApplyFails \/ Crash \/ Stop
    \/ \E v \in 1..Latest : Restore(v)
Spec == Init /\ [][Next]_vars

TypeOK ==
    /\ db.ver \in 0..Latest /\ db.fixed \subseteq FixupVersions
    /\ pc \in {"down", "backup", "apply", "serving", "refused", "failed"}
    /\ run.build \in Builds \cup {Latest} /\ run.ver \in 0..Latest + 1
    /\ \A v \in 1..Latest : baks[v] # <<>> => baks[v][1].ver = v

\* From every released version, and from main's v19, the list applies: without a fault no
\* statement of it names a table or a column that is missing or adds one that is there
\* (editing v9 after its release disconnected every device in a loop).
ListApplies == pc = "failed" => faults > 0

\* A controller that serves finds every column its statements name, whatever crashes and
\* restarts the migrations went through; a database whose v22 fixup was lost is another
\* matter (FixupsKept).
EveryQueryRuns ==
    pc = "serving" /\ run.build = Latest /\ 22 \in db.fixed => QueryColumns \subseteq db.cols

\* No migration touches an existing database before its copy is on disk.
BackedUpFirst ==
    pc = "apply" /\ db # run.found /\ run.found.ver # 0 /\ ~run.skip
        => baks[run.found.ver] = <<run.found>>

-----------------------------------------------------------------------------
(* Statements of the comments that the code does not keep.                 *)

\* "a retry after a failed migration starts from the same state, so it should overwrite
\* [...] One file per starting version is enough to get back to where you were": while a
\* backup was never skipped, the database or one of its backups is one that a controller
\* left behind whole.  A retry copies the half-applied database over the only good one.
Whole(d) == d.ver = 0 \/ d = MainV19 \/ \E v \in 1..Latest : d.cols = Reached[v].cols /\ d.ver = v
WayBack ==
    pc = "apply" /\ ~run.skipped => Whole(db) \/ \E v \in 1..Latest : baks[v] # <<>> /\ Whole(baks[v][1])

\* "Runs inside the same transaction as its DDL so a failure rolls both back": the script
\* has committed the new version by then, and the next start does not run the fixup.
FixupsKept == pc = "serving" => {v \in FixupVersions : v <= db.ver} \subseteq db.fixed
=============================================================================
