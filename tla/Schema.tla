------------------------------- MODULE Schema -------------------------------
(***************************************************************************)
(* The scripts of migrations/, in the order of their file names.  Of a     *)
(* script only what a later run of it can notice is kept: the tables and   *)
(* the columns it adds, renames or drops, and the rows it seeds.  Columns and  *)
(* indexes that come with their table are left out.                        *)
(***************************************************************************)
EXTENDS Sequences

Statement(op, from, to) == [op |-> op, from |-> from, to |-> to]

\* CREATE TABLE IF NOT EXISTS, INSERT OR IGNORE, UPDATE: can be run again.
Make(names) == Statement("make", {}, names)

Add(column) == Statement("add", {}, {column})

Adds(columns) == [i \in DOMAIN columns |-> Add(columns[i])]

\* CREATE TABLE without IF NOT EXISTS.
Create(table) == Statement("create", {}, {table})

\* RENAME COLUMN, which calls a name in use a duplicate column name, and
\* RENAME TO, which calls it another table.
Rename(old, new) == Statement("rename", {old}, {new})

RenameTable(old, new) == Statement("move", {old}, {new})

Drop(table) == Statement("drop", {table}, {})

\* INSERT INTO new SELECT ... FROM old.
Copy(old, new) == Statement("copy", {old}, {new})

M001 == <<Make({"settings"}), Make({"users"}), Make({"devices", "devices.site"}),
          Make({"alert_rules"}), Make({"rule 1", "rule 2"}), Make({"alert_events"}),
          Make({"notification_log"})>>

M002 == <<Make({"collectors"}), Make({"collector 1"})>>
    \o Adds(<<"devices.collector_id", "devices.poll_interval_override", "devices.last_seen",
              "devices.status", "devices.last_error", "devices.otelcol_label",
              "devices.security_name", "devices.security_level", "devices.auth_protocol",
              "devices.auth_key_enc", "devices.priv_protocol", "devices.priv_key_enc">>)
    \o <<Make({"oid_catalog"}), Make({"idx_devices_collector"})>>

M003 == <<Make({"snmp_credentials"}), Add("devices.credential_id"),
          Make({"credential 1"}), Make({"devices wired"})>>

M004 == <<Make({"app_logs"})>>

M005a == <<Add("alert_events.resolved_at"), Make({"idx_alert_events_resolved"})>>

M005b == <<Add("devices.parent_device_id")>>

M006 == <<Add("devices.ha_role"), Make({"idx_devices_ha_role"})>>

M007 == Adds(<<"collectors.ssh_host", "collectors.ssh_port", "collectors.ssh_user",
               "collectors.ssh_auth_type", "collectors.ssh_key_enc",
               "collectors.ssh_password_enc", "collectors.otelcol_config_path",
               "collectors.otelcol_service", "collectors.sync_status",
               "collectors.last_synced_at", "collectors.last_sync_error",
               "devices.otelcol_pipeline">>)
    \o <<Make({"pipelines set"})>>

M008 == Adds(<<"collectors.auth_failure_count", "collectors.last_auth_failure_at">>)

M009 == <<Add("devices.ha_peer_id")>>

M010 == <<Add("devices.location")>>

M011 == <<Rename("devices.site", "devices.groups"), Rename("devices.location", "devices.site"),
          Add("devices.org")>>

M012 == <<Add("devices.device_type")>>

M013 == <<Make({"orgs"}), Make({"groups_def"}), Make({"sites_def"})>>

M014 == <<Add("alert_events.resolved_at")>>

M015 == <<Add("alert_events.device_id")>>

M016 == <<Add("alert_events.auto_resolved")>>

M017_GroupsFirst ==
    <<Rename("devices.groups", "devices.location"), Rename("devices.site", "devices.groups"),
      Add("devices.site"),
      Create("groups_def_new"), Make({"(Unassigned)"}),
      Create("sites_def_new"), Copy("groups_def", "sites_def_new"),
      Create("locations_def_new"), Copy("sites_def", "locations_def_new"),
      Drop("sites_def"), Drop("groups_def"),
      RenameTable("groups_def_new", "groups_def"), RenameTable("sites_def_new", "sites_def"),
      RenameTable("locations_def_new", "locations_def")>>

M017 ==
    <<Rename("devices.site", "devices.location"), Rename("devices.groups", "devices.site"),
      Add("devices.groups"),
      Create("groups_def_new"), Make({"(Unassigned)"}),
      Create("sites_def_new"), Copy("groups_def", "sites_def_new"),
      Create("locations_def_new"), Copy("sites_def", "locations_def_new"),
      Drop("sites_def"), Drop("groups_def"),
      RenameTable("groups_def_new", "groups_def"), RenameTable("sites_def_new", "sites_def"),
      RenameTable("locations_def_new", "locations_def")>>

M018 == <<Make({"user_api_keys"})>>

M019 == <<Add("users.is_default_admin")>>

M020 == <<Make({"integrations"})>>

M021 == <<Add("user_api_keys.enabled_fields")>>

M022 == <<Add("user_api_keys.free_tier")>>

M023 == <<Add("user_api_keys.enabled")>>

M024 == <<Make({"arp_entries"}), Make({"routes"}), Make({"interfaces"})>>

M025 == <<Make({})>>

M026 == <<Make({"resonance_rate"}), Make({"resonance_breaker"}), Make({"breaker 1"}),
          Make({"resonance_load_failures"})>>

M027 == Adds(<<"users.failed_login_count", "users.lockout_count", "users.locked_until",
               "users.is_locked">>)

M028 == <<Make({"address_failures"}), Make({"address_blocks"})>>

\* sorted(migration_dir.glob("*.sql")).
Scripts == <<M001, M002, M003, M004, M005a, M005b, M006, M007, M008, M009,
             M010, M011, M012, M013, M014, M015, M016, M017, M018, M019,
             M020, M021, M022, M023, M024, M025, M026, M027, M028>>
=============================================================================
